--------------------------- MODULE CampaignProofs ---------------------------
(***************************************************************************)
(* Proofs about Campaign for every number of rounds, attempts and starts   *)
(* and every set of leftover run directories.                              *)
(*                                                                         *)
(* The argument: the lists of references in memory and on disk stay well   *)
(* formed (WellFormed), the program counter tells how the two lists relate and *)
(* what the current run directory holds (ProcessOK), and the published     *)
(* statuses are backed by the lists (PublishedOK).  Together they are      *)
(* inductive; every property of the module follows from them.              *)
(***************************************************************************)
EXTENDS Campaign, TLAPS

Inside == {"saveRef", "summarizeOpened", "makeRunDir", "writeRunning", "execute",
           "returned", "saveResult", "summarizeResult"}
Before == {"saveRef", "summarizeOpened", "makeRunDir"}

HasActive(rs, r) == \E i \in DOMAIN rs : IsActive(rs[i]) /\ rs[i].round = r

\* What holds of a list of references wherever it is kept; dirs is the value of runs.
WellFormed(rs, dirs) ==
  /\ \A i, j \in DOMAIN rs :
       IsActive(rs[i]) /\ IsActive(rs[j]) /\ rs[i].round = rs[j].round => i = j
  /\ \A i, j \in DOMAIN rs :
       i < j /\ rs[i].round = rs[j].round => rs[i].attempt < rs[j].attempt
  /\ \A i \in DOMAIN rs : rs[i].status = "replaced" => dirs[Id(rs[i])] # "completed"
  /\ \A i \in DOMAIN rs : Id(rs[i]) \notin ForeignRuns
  /\ \A i \in DOMAIN rs : rs[i].status \in FinalStates => dirs[Id(rs[i])] = rs[i].status

\* Every directory of the campaign's own is named by the list.
Covers(rs, dirs) ==
  \A id \in RunIds \ ForeignRuns :
    dirs[id] # "absent" => \E i \in DOMAIN rs : Id(rs[i]) = id

ProcessOK ==
  /\ pc = "idle" => refs = <<>>
  /\ pc \in {"idle", "writeCampaign", "writeIndex"} => round = 1
  /\ pc \notin {"idle", "saveRef", "saveResult"} => refs = indexFile.refs
  /\ pc # "idle" => indexFile.state # "torn" /\ Covers(refs, runs)
  /\ pc # "idle" => campaignFile \notin {"none", "torn"}
  /\ pc \notin {"idle", "writeCampaign", "summarizeEnd"} => campaignFile = "running"
  /\ pc = "round" => \A r \in Rounds : r < round => HasActive(refs, r)
  /\ pc \in Inside =>
       /\ refs # <<>>
       /\ Current.round = round
       /\ IsActive(Current)
       /\ \A r \in Rounds : r < round => HasActive(refs, r)
  /\ pc = "finish" /\ exitCode = 0 => \A r \in Rounds : HasActive(refs, r)
  /\ pc \in Before => Current.status = "running" /\ runs[CurrentId] = "absent"
  /\ pc = "writeRunning" => Current.status = "running" /\ runs[CurrentId] = "empty"
  /\ pc = "execute" => Current.status = "running" /\ runs[CurrentId] = "running"
  /\ pc = "returned" => Current.status = "running" /\ runs[CurrentId] \in FinalStates
  /\ pc = "summarizeEnd" => campaignFile \in {"completed", "partial", "failed"}

DiskOK ==
  /\ campaignFile = "none" => pc = "idle" /\ indexFile.refs = <<>> /\ indexFile.state # "torn"
  /\ indexFile.state # "torn" => Covers(indexFile.refs, runs)
  /\ indexFile.state = "torn" => indexFile.refs = <<>> /\ campaignFile # "completed"
  /\ \A id \in ForeignRuns : runs[id] # "absent"

PublishedOK ==
  /\ campaignFile = "completed" =>
       /\ \A r \in Rounds : HasActive(indexFile.refs, r)
       /\ \A i \in ActiveRefs(indexFile.refs) : RefCompleted(indexFile.refs[i])
  /\ SummaryBacked
  /\ pc = "idle" /\ exited = "clean" =>
       /\ campaignFile \in {"completed", "partial", "failed"}
       /\ summaryFile.status = campaignFile

IndInv ==
  /\ TypeOK
  /\ WellFormed(refs, runs)
  /\ WellFormed(indexFile.refs, runs)
  /\ ProcessOK
  /\ DiskOK
  /\ PublishedOK

-----------------------------------------------------------------------------
(* Lists of references. *)

\* A reference names a run directory.
LEMMA IdType == \A ref \in Refs : Id(ref) \in RunIds
BY DEF Refs, Id, RunIds

\* Writing the state of the run a list ends with keeps the list well formed, while
\* that run's reference is still "running".
LEMMA RunWritten ==
  ASSUME NEW rs \in Seq(Refs), rs # <<>>, NEW dirs \in [RunIds -> RunStates],
         NEW v \in RunStates, WellFormed(rs, dirs), rs[Len(rs)].status = "running"
  PROVE  WellFormed(rs, [dirs EXCEPT ![Id(rs[Len(rs)])] = v])
<1> DEFINE new == [dirs EXCEPT ![Id(rs[Len(rs)])] = v]
<1>1. Len(rs) \in DOMAIN rs /\ Len(rs) \in Nat /\ DOMAIN rs = 1 .. Len(rs)
  OBVIOUS
<1>2. \A i \in DOMAIN rs : rs[i] \in Refs /\ Id(rs[i]) \in RunIds
  BY IdType
<1>3. \A i \in DOMAIN rs : i # Len(rs) => Id(rs[i]) # Id(rs[Len(rs)])
  <2> TAKE i \in DOMAIN rs
  <2> HAVE i # Len(rs)
  <2>1. i < Len(rs)
    BY <1>1
  <2>2. rs[i].round = rs[Len(rs)].round => rs[i].attempt < rs[Len(rs)].attempt
    BY <1>1, <2>1 DEF WellFormed
  <2>3. rs[i].attempt \in Nat /\ rs[Len(rs)].attempt \in Nat
    BY <1>1, <1>2 DEF Refs, Attempts
  <2> QED BY <2>2, <2>3 DEF Id
<1>4. \A i \in DOMAIN rs : i # Len(rs) => new[Id(rs[i])] = dirs[Id(rs[i])]
  BY <1>2, <1>3
<1>5. rs[Len(rs)].status # "replaced" /\ rs[Len(rs)].status \notin FinalStates
  BY DEF FinalStates
<1> QED BY <1>1, <1>4, <1>5 DEF WellFormed

\* Recording the outcome of the run a list ends with.
LEMMA OutcomeRecorded ==
  ASSUME NEW rs \in Seq(Refs), rs # <<>>, NEW dirs \in [RunIds -> RunStates],
         NEW s \in RefStatuses, WellFormed(rs, dirs), IsActive(rs[Len(rs)]),
         s = "failed" \/ (s = dirs[Id(rs[Len(rs)])] /\ s \in FinalStates)
  PROVE  LET new == [rs EXCEPT ![Len(rs)].status = s] IN
           /\ new \in Seq(Refs)
           /\ Len(new) = Len(rs)
           /\ WellFormed(new, dirs)
           /\ IsActive(new[Len(new)])
           /\ \A i \in DOMAIN rs : new[i].round = rs[i].round /\ Id(new[i]) = Id(rs[i])
                                   /\ (IsActive(new[i]) <=> IsActive(rs[i]))
<1> DEFINE new == [rs EXCEPT ![Len(rs)].status = s]
<1>1. Len(rs) \in DOMAIN rs /\ DOMAIN rs = 1 .. Len(rs) /\ rs[Len(rs)] \in Refs
  OBVIOUS
<1>2. [rs[Len(rs)] EXCEPT !.status = s] \in Refs
  BY <1>1 DEF Refs
<1>3. new \in Seq(Refs) /\ Len(new) = Len(rs) /\ DOMAIN new = DOMAIN rs
  BY <1>1, <1>2
<1>4. \A i \in DOMAIN rs : i # Len(rs) => new[i] = rs[i]
  BY <1>1
<1>5. /\ new[Len(rs)].round = rs[Len(rs)].round
      /\ new[Len(rs)].attempt = rs[Len(rs)].attempt
      /\ new[Len(rs)].status = s
  BY <1>1 DEF Refs
<1>6. s # "replaced"
  BY DEF FinalStates
<1>7. \A i \in DOMAIN rs :
        /\ new[i].round = rs[i].round
        /\ new[i].attempt = rs[i].attempt
        /\ Id(new[i]) = Id(rs[i])
        /\ IsActive(new[i]) <=> IsActive(rs[i])
        /\ i # Len(rs) => new[i].status = rs[i].status
  BY <1>4, <1>5, <1>6 DEF Id, IsActive
<1>8. WellFormed(new, dirs)
  <2>1. \A i \in DOMAIN new : new[i].status = "replaced" => dirs[Id(new[i])] # "completed"
    BY <1>3, <1>5, <1>6, <1>7 DEF WellFormed
  <2>2. \A i \in DOMAIN new : new[i].status \in FinalStates => dirs[Id(new[i])] = new[i].status
    BY <1>1, <1>3, <1>5, <1>7 DEF WellFormed, FinalStates
  <2>3. \A i \in DOMAIN new : Id(new[i]) \notin ForeignRuns
    BY <1>3, <1>7 DEF WellFormed
  <2> QED BY <1>3, <1>7, <2>1, <2>2, <2>3 DEF WellFormed
<1> QED BY <1>3, <1>5, <1>6, <1>7, <1>8 DEF IsActive

\* Replacing a round's latest reference by a new attempt.
LEMMA RoundOpened ==
  ASSUME NEW rs \in Seq(Refs), NEW dirs \in [RunIds -> RunStates],
         NEW r \in Rounds, NEW a \in Attempts, WellFormed(rs, dirs),
         \A i \in LatestActive(rs, r) : dirs[Id(rs[i])] # "completed",
         \A i \in DOMAIN rs : rs[i].round = r => rs[i].attempt < a,
         dirs[<<r, a>>] = "absent",
         \A id \in ForeignRuns : dirs[id] # "absent"
  PROVE  LET marked == MarkReplaced(rs, LatestActive(rs, r))
             new == Append(marked, [round |-> r, attempt |-> a, status |-> "running"]) IN
           /\ new \in Seq(Refs)
           /\ Len(new) = Len(rs) + 1
           /\ WellFormed(new, dirs)
           /\ new[Len(new)] = [round |-> r, attempt |-> a, status |-> "running"]
           /\ \A i \in DOMAIN rs :
                /\ Id(new[i]) = Id(rs[i])
                /\ new[i].round = rs[i].round
                /\ IsActive(rs[i]) /\ rs[i].round # r => IsActive(new[i])
<1> DEFINE L == LatestActive(rs, r)
           marked == MarkReplaced(rs, L)
           ref == [round |-> r, attempt |-> a, status |-> "running"]
           new == Append(marked, ref)
<1>1. DOMAIN rs = 1 .. Len(rs) /\ Len(rs) \in Nat /\ \A i \in DOMAIN rs : rs[i] \in Refs
  OBVIOUS
<1>2. \A i \in DOMAIN rs :
        /\ i \in L => /\ marked[i].round = rs[i].round
                      /\ marked[i].attempt = rs[i].attempt
                      /\ marked[i].status = "replaced"
                      /\ marked[i] \in Refs
        /\ i \notin L => marked[i] = rs[i]
  BY <1>1 DEF MarkReplaced, Refs, RefStatuses
<1>3. marked \in Seq(Refs) /\ Len(marked) = Len(rs) /\ DOMAIN marked = DOMAIN rs
  <2>1. DOMAIN marked = DOMAIN rs
    BY DEF MarkReplaced
  <2>2. marked \in [1 .. Len(rs) -> Refs]
    BY <1>1, <1>2 DEF MarkReplaced
  <2> QED BY <1>1, <2>1, <2>2
<1>4. L = {i \in DOMAIN rs : IsActive(rs[i]) /\ rs[i].round = r}
  <2>1. \A i, j \in DOMAIN rs :
          IsActive(rs[i]) /\ IsActive(rs[j]) /\ rs[i].round = r /\ rs[j].round = r => i = j
    BY DEF WellFormed
  <2> QED BY <1>1, <2>1 DEF LatestActive, ActiveOf, ActiveRefs
<1>5. ref \in Refs /\ IsActive(ref)
  BY DEF Refs, RefStatuses, IsActive
<1>6. /\ new \in Seq(Refs)
      /\ Len(new) = Len(rs) + 1
      /\ DOMAIN new = 1 .. Len(rs) + 1
      /\ new[Len(rs) + 1] = ref
      /\ \A i \in DOMAIN rs : new[i] = marked[i]
  BY <1>1, <1>3, <1>5
<1>7. \A i \in DOMAIN rs :
        /\ Id(new[i]) = Id(rs[i])
        /\ new[i].round = rs[i].round
        /\ new[i].attempt = rs[i].attempt
        /\ IsActive(rs[i]) /\ rs[i].round # r => IsActive(new[i])
        /\ IsActive(new[i]) => IsActive(rs[i]) /\ rs[i].round # r
        /\ new[i].status # "replaced" => new[i].status = rs[i].status
        /\ i \notin L => new[i].status = rs[i].status
  BY <1>2, <1>4, <1>6 DEF Id, IsActive
<1>8. WellFormed(new, dirs)
  <2>1. \A i, j \in DOMAIN new :
          IsActive(new[i]) /\ IsActive(new[j]) /\ new[i].round = new[j].round => i = j
    BY <1>1, <1>6, <1>7 DEF WellFormed
  <2>2. \A i, j \in DOMAIN new :
          i < j /\ new[i].round = new[j].round => new[i].attempt < new[j].attempt
    BY <1>1, <1>6, <1>7 DEF WellFormed
  <2>3. \A i \in DOMAIN new : new[i].status = "replaced" => dirs[Id(new[i])] # "completed"
    BY <1>1, <1>6, <1>7 DEF WellFormed
  <2>4. new[Len(rs) + 1].round = r /\ new[Len(rs) + 1].attempt = a
    BY <1>6
  <2>7. Id(new[Len(rs) + 1]) = <<r, a>> /\ <<r, a>> \notin ForeignRuns
    BY <2>4 DEF Id
  <2>8. \A i \in DOMAIN rs : Id(new[i]) \notin ForeignRuns
    BY <1>7 DEF WellFormed
  <2>9. \A i \in DOMAIN new : i \in DOMAIN rs \/ i = Len(rs) + 1
    BY <1>1, <1>6
  <2>5. \A i \in DOMAIN new : Id(new[i]) \notin ForeignRuns
    BY <2>7, <2>8, <2>9
  <2>6. \A i \in DOMAIN new : new[i].status \in FinalStates => dirs[Id(new[i])] = new[i].status
    BY <1>1, <1>6, <1>7 DEF WellFormed, FinalStates
  <2> QED BY <2>1, <2>2, <2>3, <2>5, <2>6 DEF WellFormed
<1> QED BY <1>1, <1>6, <1>7, <1>8

-----------------------------------------------------------------------------
(* Steps. *)

\* Completed runs back a summary for good: nothing a step does to the run
\* directories takes one of them away.
LEMMA SummaryStays ==
  ASSUME SummaryBacked, UNCHANGED summaryFile,
         \A id \in RunIds : runs[id] = "completed" => runs'[id] = "completed"
  PROVE  SummaryBacked'
<1>1. \A r \in Rounds : OwnCompleted(r) \subseteq OwnCompleted(r)'
  BY DEF OwnCompleted, RunIds
<1> QED BY <1>1 DEF SummaryBacked

\* What was published stays backed while the published files do not change.
LEMMA PublishedStays ==
  ASSUME PublishedOK, UNCHANGED <<campaignFile, indexFile, summaryFile>>,
         campaignFile = "completed" => runs' = runs,
         \A id \in RunIds : runs[id] = "completed" => runs'[id] = "completed",
         pc' = "idle" /\ exited' = "clean" => pc = "idle" /\ exited = "clean"
  PROVE  PublishedOK'
<1>1. SummaryBacked'
  BY SummaryStays DEF PublishedOK
<1> QED BY <1>1 DEF PublishedOK, HasActive, IsActive, ActiveRefs, RefCompleted, RunStatus

\* The run directory the invocation works on is its own and not final yet.
LEMMA CurrentRun ==
  ASSUME IndInv, pc \in Inside
  PROVE  /\ refs \in Seq(Refs) /\ refs # <<>>
         /\ Len(refs) \in DOMAIN refs
         /\ Current \in Refs
         /\ CurrentId \in RunIds \ ForeignRuns
<1>1. refs \in Seq(Refs) /\ refs # <<>>
  BY DEF IndInv, TypeOK, ProcessOK
<1>2. Len(refs) \in DOMAIN refs
  BY <1>1
<1>3. Current \in Refs
  BY <1>1, <1>2 DEF Current
<1>4. CurrentId \in RunIds \ ForeignRuns
  BY <1>2, <1>3, IdType DEF IndInv, WellFormed, Current, CurrentId
<1> QED BY <1>1, <1>2, <1>3, <1>4

\* The steps of run_job that write into the run directory.
LEMMA RunWrite ==
  ASSUME IndInv, pc \in {"makeRunDir", "writeRunning", "execute"},
         NEW v \in RunStates \ {"absent"}, runs' = [runs EXCEPT ![CurrentId] = v],
         UNCHANGED <<campaignFile, indexFile, summaryFile>>,
         pc' = "idle" => exited' # "clean"
  PROVE  /\ runs' \in [RunIds -> RunStates]
         /\ runs'[CurrentId] = v
         /\ WellFormed(refs, runs') /\ WellFormed(indexFile.refs, runs')
         /\ Covers(refs, runs') /\ Covers(indexFile.refs, runs')
         /\ \A id \in ForeignRuns : runs'[id] # "absent"
         /\ PublishedOK'
<1>1. pc \in Inside
  BY DEF Inside
<1>2. /\ CurrentId \in RunIds \ ForeignRuns
      /\ Current.status = "running"
      /\ runs[CurrentId] \in {"absent", "empty", "running"}
      /\ runs \in [RunIds -> RunStates]
  BY <1>1, CurrentRun DEF IndInv, TypeOK, ProcessOK, Before
<1>3. runs' \in [RunIds -> RunStates] /\ runs'[CurrentId] = v
  BY <1>2
<1>4. refs = indexFile.refs /\ campaignFile = "running"
  BY DEF IndInv, ProcessOK
<1>5. WellFormed(refs, runs')
  BY <1>1, <1>2, CurrentRun, RunWritten DEF IndInv, Current, CurrentId
<1>6. Covers(refs, runs')
  <2>1. Covers(refs, runs)
    BY DEF IndInv, ProcessOK
  <2>2. Len(refs) \in DOMAIN refs /\ Id(refs[Len(refs)]) = CurrentId
    BY <1>1, CurrentRun DEF Current, CurrentId
  <2> QED BY <1>2, <2>1, <2>2 DEF Covers
<1>7. \A id \in ForeignRuns : runs'[id] # "absent"
  BY <1>2, CampaignAssumption DEF IndInv, DiskOK
<1>8. PublishedOK'
  <2>1. \A id \in RunIds : runs[id] = "completed" => runs'[id] = "completed"
    BY <1>2
  <2> QED BY <1>4, <2>1, PublishedStays DEF IndInv
<1> QED BY <1>3, <1>4, <1>5, <1>6, <1>7, <1>8

\* A summary that says "completed" is backed at the moment it is written.
LEMMA SummaryWritten ==
  ASSUME IndInv, summaryFile' = Summary, UNCHANGED runs,
         campaignFile \in CampaignStatuses
  PROVE  /\ SummaryBacked'
         /\ campaignFile \in {"completed", "partial", "failed"} =>
              summaryFile'.status = campaignFile
<1> DEFINE rs == indexFile.refs
<1>1. rs \in Seq(Refs) /\ DOMAIN rs = 1 .. Len(rs) /\ \A i \in DOMAIN rs : rs[i] \in Refs
  BY DEF IndInv, TypeOK
<1>2. /\ summaryFile'.status = SummaryStatus(campaignFile, Children(rs))
      /\ summaryFile'.children = Children(rs)
  BY DEF Summary
<1>3. ASSUME campaignFile = "completed"
      PROVE  /\ Children(rs) # {}
             /\ \A c \in Children(rs) : c.status = "completed"
  <2>1. \A r \in Rounds : HasActive(rs, r)
    BY <1>3 DEF IndInv, PublishedOK
  <2>2. 1 \in Rounds
    BY CampaignAssumption DEF Rounds
  <2>3. ActiveRefs(rs) # {}
    BY <2>1, <2>2 DEF HasActive, ActiveRefs
  <2>4. \A i \in ActiveRefs(rs) : RunStatus(rs[i]) = "completed"
    BY <1>3 DEF IndInv, PublishedOK, RefCompleted
  <2>5. Children(rs) # {}
    BY <2>3 DEF Children
  <2>6. \A c \in Children(rs) : \E i \in ActiveRefs(rs) : c.status = RunStatus(rs[i])
    BY DEF Children
  <2> QED BY <2>4, <2>5, <2>6
<1>4. campaignFile = "completed" <=> summaryFile'.status = "completed"
  BY <1>2, <1>3 DEF SummaryStatus, CampaignStatuses, FinalStates
<1>5. campaignFile \in {"completed", "partial", "failed"} => summaryFile'.status = campaignFile
  BY <1>2, <1>3 DEF SummaryStatus
<1>6. ASSUME campaignFile = "completed", NEW r \in Rounds
      PROVE  /\ \E c \in Children(rs) :
                  c.round = r /\ c.attempt \in OwnCompleted(r) /\ c.status = "completed"
             /\ \A c, d \in Children(rs) : c.round = r /\ d.round = r => c = d
  <2>1. PICK i \in DOMAIN rs : IsActive(rs[i]) /\ rs[i].round = r
    BY <1>6 DEF IndInv, PublishedOK, HasActive
  <2>2. i \in ActiveRefs(rs) /\ RunStatus(rs[i]) = "completed"
    BY <1>6, <2>1 DEF ActiveRefs, IndInv, PublishedOK, RefCompleted
  <2>3. rs[i].attempt \in OwnCompleted(r)
    <3>1. rs[i].attempt \in Attempts /\ Id(rs[i]) = <<r, rs[i].attempt>>
      BY <1>1, <2>1 DEF Refs, Id
    <3>2. WellFormed(rs, runs)
      BY DEF IndInv
    <3>3. Id(rs[i]) \notin ForeignRuns
      BY <2>1, <3>2 DEF WellFormed
    <3>4. runs[Id(rs[i])] = "completed"
      <4>1. rs[i].status \in FinalStates => runs[Id(rs[i])] = rs[i].status
        BY <2>1, <3>2 DEF WellFormed
      <4> QED BY <2>2, <4>1 DEF RunStatus, FinalStates
    <3> QED BY <3>1, <3>3, <3>4 DEF OwnCompleted
  <2> DEFINE child == [round |-> rs[i].round, attempt |-> rs[i].attempt,
                       status |-> RunStatus(rs[i])]
  <2>4. child \in Children(rs)
    BY <2>2 DEF Children
  <2>5. child.round = r /\ child.attempt \in OwnCompleted(r) /\ child.status = "completed"
    BY <2>1, <2>2, <2>3
  <2>6. \A c \in Children(rs) : c.round = r => c = child
    <3>1. \A j \in ActiveRefs(rs) : rs[j].round = r => j = i
      BY <2>1, <2>2 DEF ActiveRefs, IndInv, WellFormed
    <3> QED BY <3>1 DEF Children
  <2> QED BY <2>4, <2>5, <2>6
<1>7. \A r \in Rounds : OwnCompleted(r)' = OwnCompleted(r)
  BY DEF OwnCompleted
<1>8. SummaryBacked'
  BY <1>2, <1>4, <1>6, <1>7 DEF SummaryBacked
<1> QED BY <1>5, <1>8

\* The first states satisfy the invariant.
LEMMA IndInvInit == Init => IndInv
<1> SUFFICES ASSUME Init PROVE IndInv
  OBVIOUS
<1> USE CampaignAssumption
<1>1. TypeOK
  <2>1. runs \in [RunIds -> RunStates]
    BY DEF Init, RunStates, FinalStates
  <2>2. 1 \in Rounds /\ <<>> \in Seq(Refs) /\ 0 \in 0 .. MaxStarts
    BY DEF Rounds
  <2> QED BY <2>1, <2>2 DEF Init, TypeOK, NoSummary
<1>2. WellFormed(<<>>, runs)
  BY DEF WellFormed
<1>3. ProcessOK
  BY DEF Init, ProcessOK, Inside, Before
<1>4. DiskOK
  BY DEF Init, DiskOK, Covers, FinalStates
<1>5. PublishedOK
  BY DEF Init, PublishedOK, SummaryBacked, NoSummary
<1> QED BY <1>1, <1>2, <1>3, <1>4, <1>5 DEF Init, IndInv

\* Starting an invocation.
LEMMA StartStep == IndInv /\ (StartCreate \/ StartResume) => IndInv'
<1> SUFFICES ASSUME IndInv, StartCreate \/ StartResume PROVE IndInv'
  OBVIOUS
<1> USE CampaignAssumption
<1>1. UNCHANGED <<indexFile, summaryFile, runs, round, exitCode, exited>>
  BY DEF StartCreate, StartResume, disk
<1>2. /\ pc = "idle" /\ pc' = "writeCampaign" /\ refs = <<>>
      /\ refs' = indexFile.refs
      /\ indexFile.state # "torn"
      /\ starts' \in 0 .. MaxStarts
      /\ campaignFile' \in {"dir"} \cup CampaignStatuses
      /\ campaignFile' = campaignFile \/ (campaignFile' = "dir" /\ campaignFile = "none")
      /\ campaignFile' # "none"
  <2>1. pc = "idle" /\ pc' = "writeCampaign" /\ refs = <<>>
    BY DEF StartCreate, StartResume, Goto, IndInv, ProcessOK
  <2>2. starts' \in 0 .. MaxStarts
    <3>1. starts \in 0 .. MaxStarts /\ starts < MaxStarts /\ starts' = starts + 1
      BY DEF StartCreate, StartResume, IndInv, TypeOK
    <3> QED BY <3>1
  <2>3. CASE StartCreate
    BY <2>1, <2>2, <2>3 DEF StartCreate, IndInv, DiskOK
  <2>4. CASE StartResume
    BY <2>1, <2>2, <2>4 DEF StartResume, disk, ReadableCampaign, CampaignStatuses, FinalStates
  <2> QED BY <2>3, <2>4
<1>3. TypeOK'
  BY <1>1, <1>2 DEF IndInv, TypeOK, Refs
<1>4. WellFormed(refs, runs)' /\ WellFormed(indexFile.refs, runs)'
  BY <1>1, <1>2 DEF IndInv, WellFormed
<1>5. ProcessOK'
  BY <1>1, <1>2 DEF IndInv, ProcessOK, DiskOK, Covers, Inside, Before, CampaignStatuses, FinalStates
<1>6. DiskOK'
  BY <1>1, <1>2 DEF IndInv, DiskOK, Covers
<1>7. PublishedOK'
  <2>1. SummaryBacked'
    BY <1>1, SummaryStays DEF IndInv, PublishedOK
  <2> QED BY <1>1, <1>2, <2>1 DEF IndInv, PublishedOK, HasActive, IsActive, ActiveRefs, RefCompleted, RunStatus
<1> QED BY <1>3, <1>4, <1>5, <1>6, <1>7 DEF IndInv

\* Ending an invocation, without or with what a kill did to the files it leaves.
LEMMA StopStep ==
  ASSUME IndInv, NEW how \in {"crashed", "unreadable"}, Stop(how), pc # "idle",
         \/ UNCHANGED disk
         \/ TearCampaign
         \/ TearIndex
         \/ TearSummary
         \/ TearState
         \/ TearScores
  PROVE  IndInv'
<1> USE CampaignAssumption
<1>1. /\ pc' = "idle" /\ refs' = <<>> /\ exitCode' = 0 /\ round' = 1
      /\ exited' = how /\ starts' = starts
  BY DEF Stop
<1>2. WellFormed(refs, runs)'
  BY <1>1 DEF WellFormed
<1>3. ProcessOK'
  BY <1>1 DEF ProcessOK, Inside, Before
<1>4. 1 \in Rounds /\ <<>> \in Seq(Refs)
  BY DEF Rounds
<1>5. CASE UNCHANGED disk
  <2>1. PublishedOK'
    BY <1>1, <1>5, PublishedStays DEF disk, IndInv
  <2>2. TypeOK' /\ WellFormed(indexFile.refs, runs)' /\ DiskOK'
    BY <1>1, <1>4, <1>5 DEF disk, IndInv, TypeOK, DiskOK, ProcessOK, WellFormed, Covers
  <2> QED BY <1>2, <1>3, <2>1, <2>2 DEF IndInv
<1>6. CASE TearCampaign
  <2>0. campaignFile' = "torn" /\ UNCHANGED <<indexFile, summaryFile, runs>>
    BY <1>6 DEF TearCampaign
  <2>1. PublishedOK'
    <3>1. SummaryBacked'
      BY <2>0, SummaryStays DEF IndInv, PublishedOK
    <3> QED BY <1>1, <2>0, <3>1 DEF PublishedOK
  <2>2. TypeOK' /\ WellFormed(indexFile.refs, runs)' /\ DiskOK'
    BY <1>1, <1>4, <2>0 DEF IndInv, TypeOK, DiskOK, ProcessOK, WellFormed, Covers
  <2> QED BY <1>2, <1>3, <2>1, <2>2 DEF IndInv
<1>7. CASE TearIndex
  <2>0. /\ indexFile' = TornIndex /\ UNCHANGED <<campaignFile, summaryFile, runs>>
        /\ campaignFile = "running"
    BY <1>7 DEF TearIndex, IndInv, ProcessOK, Summarizing
  <2>1. PublishedOK'
    <3>1. SummaryBacked'
      BY <2>0, SummaryStays DEF IndInv, PublishedOK
    <3> QED BY <1>1, <2>0, <3>1 DEF PublishedOK
  <2>2. WellFormed(indexFile.refs, runs)'
    BY <2>0 DEF WellFormed, TornIndex
  <2>3. TypeOK' /\ DiskOK'
    BY <1>1, <1>4, <2>0 DEF IndInv, TypeOK, DiskOK, Covers, TornIndex
  <2> QED BY <1>2, <1>3, <2>1, <2>2, <2>3 DEF IndInv
<1>8. CASE TearSummary
  <2>0. summaryFile' = TornSummary /\ UNCHANGED <<campaignFile, indexFile, runs>>
    BY <1>8 DEF TearSummary
  <2>1. PublishedOK'
    BY <1>1, <2>0 DEF IndInv, PublishedOK, SummaryBacked, TornSummary, HasActive, IsActive, ActiveRefs,
       RefCompleted, RunStatus
  <2>2. TypeOK' /\ WellFormed(indexFile.refs, runs)' /\ DiskOK'
    BY <1>1, <1>4, <2>0 DEF IndInv, TypeOK, DiskOK, ProcessOK, WellFormed, Covers, TornSummary
  <2> QED BY <1>2, <1>3, <2>1, <2>2 DEF IndInv
<1>9. CASE TearState \/ TearScores
  <2> PICK v \in {"torn", "cut"} : runs' = [runs EXCEPT ![CurrentId] = v]
    BY <1>9 DEF TearState, TearScores
  <2>0. /\ pc \in {"makeRunDir", "writeRunning", "execute"}
        /\ UNCHANGED <<campaignFile, indexFile, summaryFile>>
        /\ v \in RunStates \ {"absent"}
    BY <1>9 DEF TearState, TearScores, RunStates
  <2>1. /\ runs' \in [RunIds -> RunStates]
        /\ WellFormed(indexFile.refs, runs')
        /\ Covers(indexFile.refs, runs')
        /\ \A id \in ForeignRuns : runs'[id] # "absent"
        /\ PublishedOK'
    BY <1>1, <2>0, RunWrite
  <2>2. TypeOK' /\ WellFormed(indexFile.refs, runs)' /\ DiskOK'
    BY <1>1, <1>4, <2>0, <2>1 DEF IndInv, TypeOK, DiskOK, ProcessOK
  <2> QED BY <1>2, <1>3, <2>1, <2>2 DEF IndInv
<1> QED BY <1>5, <1>6, <1>7, <1>8, <1>9

\* The three writes of run_ids.json: they bring the list on disk up to the one in memory.
LEMMA SaveIndexStep ==
  IndInv /\ (\/ SaveIndex("writeIndex", "round")
             \/ SaveIndex("saveRef", "summarizeOpened")
             \/ SaveIndex("saveResult", "summarizeResult")) => IndInv'
<1> SUFFICES ASSUME IndInv, NEW at, NEW next, SaveIndex(at, next),
                    \/ at = "writeIndex" /\ next = "round"
                    \/ at = "saveRef" /\ next = "summarizeOpened"
                    \/ at = "saveResult" /\ next = "summarizeResult"
             PROVE  IndInv'
  OBVIOUS
<1>1. /\ pc = at /\ pc' = next
      /\ indexFile' = [state |-> "ok", refs |-> refs]
      /\ UNCHANGED <<campaignFile, summaryFile, runs, round, refs, exitCode, starts, exited>>
  BY DEF SaveIndex, Goto
<1>2. TypeOK'
  BY <1>1 DEF IndInv, TypeOK, Summarizing
<1>3. WellFormed(refs, runs)' /\ WellFormed(indexFile.refs, runs)'
  BY <1>1 DEF IndInv, WellFormed
<1>4. ProcessOK'
  <2>1. CASE at = "writeIndex"
    <3>1. round' = 1
      BY <1>1, <2>1 DEF IndInv, ProcessOK
    <3> QED BY <1>1, <2>1, <3>1 DEF IndInv, ProcessOK, Covers, Inside, Before, Rounds
  <2>2. CASE at = "saveRef"
    BY <1>1, <2>2 DEF IndInv, ProcessOK, Covers, Inside, Before, HasActive, IsActive, Current, CurrentId, Id
  <2>3. CASE at = "saveResult"
    BY <1>1, <2>3 DEF IndInv, ProcessOK, Covers, Inside, Before, HasActive, IsActive, Current, CurrentId, Id
  <2> QED BY <2>1, <2>2, <2>3
<1>5. campaignFile = "running"
  BY <1>1 DEF IndInv, ProcessOK
<1>6. DiskOK'
  BY <1>1, <1>5 DEF IndInv, DiskOK, ProcessOK, Covers
<1>7. PublishedOK'
  <2>1. SummaryBacked'
    BY <1>1, SummaryStays DEF IndInv, PublishedOK
  <2> QED BY <1>1, <1>5, <2>1 DEF PublishedOK
<1> QED BY <1>2, <1>3, <1>4, <1>6, <1>7 DEF IndInv

\* Writing campaign.json at the start of an invocation.
LEMMA WriteCampaignStep == IndInv /\ WriteCampaign => IndInv'
<1> SUFFICES ASSUME IndInv, WriteCampaign PROVE IndInv'
  OBVIOUS
<1>1. /\ pc = "writeCampaign" /\ pc' = "writeIndex" /\ campaignFile' = "running"
      /\ UNCHANGED <<indexFile, summaryFile, runs, round, refs, exitCode, starts, exited>>
  BY DEF WriteCampaign, Goto
<1>2. TypeOK'
  BY <1>1 DEF IndInv, TypeOK, CampaignStatuses
<1>3. WellFormed(refs, runs)' /\ WellFormed(indexFile.refs, runs)'
  BY <1>1 DEF IndInv, WellFormed
<1>4. ProcessOK'
  BY <1>1 DEF IndInv, ProcessOK, Covers, Inside, Before
<1>5. DiskOK'
  BY <1>1 DEF IndInv, DiskOK, ProcessOK, Covers
<1>6. PublishedOK'
  <2>1. SummaryBacked'
    BY <1>1, SummaryStays DEF IndInv, PublishedOK
  <2> QED BY <1>1, <2>1 DEF PublishedOK
<1> QED BY <1>2, <1>3, <1>4, <1>5, <1>6 DEF IndInv

\* A step of the loop that leaves the files, the list and the directories alone.
LEMMA SkipRoundStep == IndInv /\ SkipRound => IndInv'
<1> SUFFICES ASSUME IndInv, SkipRound PROVE IndInv'
  OBVIOUS
<1> USE CampaignAssumption
<1>1. /\ pc = "round"
      /\ NextRound
      /\ UNCHANGED <<campaignFile, indexFile, summaryFile, runs, refs, exitCode, starts, exited>>
  BY DEF SkipRound, disk
<1>2. HasActive(refs, round)
  BY DEF SkipRound, LatestActive, ActiveOf, ActiveRefs, HasActive
<1>3. \A r \in Rounds : r <= round => HasActive(refs, r)
  BY <1>1, <1>2 DEF IndInv, ProcessOK, TypeOK, Rounds
<1>4. \/ pc' = "round" /\ round < Repeat /\ round' = round + 1
      \/ pc' = "finish" /\ round = Repeat /\ round' = round
  BY <1>1 DEF NextRound, Goto, IndInv, TypeOK, Rounds
<1>5. TypeOK'
  BY <1>1, <1>4 DEF IndInv, TypeOK, Rounds
<1>6. WellFormed(refs, runs)' /\ WellFormed(indexFile.refs, runs)'
  BY <1>1 DEF IndInv, WellFormed
<1>7. ProcessOK'
  <2>1. \A r \in Rounds : r < round' => HasActive(refs, r)
    BY <1>3, <1>4 DEF IndInv, TypeOK, Rounds
  <2>2. pc' = "finish" => \A r \in Rounds : HasActive(refs, r)
    BY <1>3, <1>4 DEF Rounds
  <2> QED BY <1>1, <1>4, <2>1, <2>2
          DEF IndInv, ProcessOK, Covers, Inside, Before, HasActive, IsActive
<1>8. DiskOK'
  BY <1>1, <1>4 DEF IndInv, DiskOK, ProcessOK, Covers
<1>9. PublishedOK'
  BY <1>1, <1>4, PublishedStays DEF IndInv
<1> QED BY <1>5, <1>6, <1>7, <1>8, <1>9 DEF IndInv

\* A round gets a new attempt.
LEMMA OpenRoundStep == IndInv /\ OpenRound => IndInv'
<1> SUFFICES ASSUME IndInv, OpenRound PROVE IndInv'
  OBVIOUS
<1> USE CampaignAssumption
<1>1. /\ pc = "round" /\ pc' = "saveRef"
      /\ UNCHANGED <<campaignFile, indexFile, summaryFile, runs, round, exitCode, starts, exited>>
  BY DEF OpenRound, disk, Goto
<1> DEFINE marked == MarkReplaced(refs, LatestActive(refs, round))
<1>2. PICK a \in Attempts :
        /\ IsNextAttempt(marked, round, a)
        /\ refs' = Append(marked, [round |-> round, attempt |-> a, status |-> "running"])
  BY DEF OpenRound
<1>3. refs \in Seq(Refs) /\ runs \in [RunIds -> RunStates] /\ round \in Rounds
  BY DEF IndInv, TypeOK
<1>4. \A i \in DOMAIN refs : marked[i].round = refs[i].round /\ marked[i].attempt = refs[i].attempt
  <2>1. \A i \in DOMAIN refs : refs[i] \in Refs
    BY <1>3
  <2> QED BY <2>1 DEF MarkReplaced, Refs
<1>5. DOMAIN marked = DOMAIN refs
  BY DEF MarkReplaced
<1>6. \A i \in DOMAIN refs : refs[i].round = round => refs[i].attempt < a
  BY <1>2, <1>4, <1>5 DEF IsNextAttempt, Unused
<1>7. runs[<<round, a>>] = "absent"
  BY <1>2 DEF IsNextAttempt, Unused
<1>8. \A i \in LatestActive(refs, round) : runs[Id(refs[i])] # "completed"
  BY DEF OpenRound, RefCompleted, RunStatus
<1>9. /\ WellFormed(refs, runs)
      /\ \A id \in ForeignRuns : runs[id] # "absent"
      /\ Covers(refs, runs)
      /\ indexFile.state # "torn"
      /\ campaignFile = "running"
      /\ \A r \in Rounds : r < round => HasActive(refs, r)
  BY <1>1 DEF IndInv, DiskOK, ProcessOK
<1>10. /\ refs' \in Seq(Refs)
       /\ Len(refs') = Len(refs) + 1
       /\ WellFormed(refs', runs)
       /\ refs'[Len(refs')] = [round |-> round, attempt |-> a, status |-> "running"]
       /\ \A i \in DOMAIN refs :
            /\ Id(refs'[i]) = Id(refs[i])
            /\ refs'[i].round = refs[i].round
            /\ IsActive(refs[i]) /\ refs[i].round # round => IsActive(refs'[i])
  BY <1>2, <1>3, <1>6, <1>7, <1>8, <1>9, RoundOpened
<1>11. DOMAIN refs \subseteq DOMAIN refs' /\ Len(refs) \in Nat
  BY <1>3, <1>10
<1>12. TypeOK'
  BY <1>1, <1>10 DEF IndInv, TypeOK
<1>13. WellFormed(refs, runs)' /\ WellFormed(indexFile.refs, runs)'
  BY <1>1, <1>10 DEF IndInv, WellFormed
<1>14. Covers(refs', runs)
  BY <1>9, <1>10, <1>11 DEF Covers
<1>15. \A r \in Rounds : r < round => HasActive(refs', r)
  <2> SUFFICES ASSUME NEW r \in Rounds, r < round PROVE HasActive(refs', r)
    OBVIOUS
  <2>1. PICK i \in DOMAIN refs : IsActive(refs[i]) /\ refs[i].round = r
    BY <1>9 DEF HasActive
  <2>2. r # round
    BY <1>3 DEF Rounds
  <2> QED BY <1>10, <1>11, <2>1, <2>2 DEF HasActive
<1>16. /\ refs' # <<>>
       /\ refs'[Len(refs')].round = round
       /\ refs'[Len(refs')].status = "running"
       /\ IsActive(refs'[Len(refs')])
       /\ Id(refs'[Len(refs')]) = <<round, a>>
  BY <1>10, <1>11 DEF IsActive, Id
<1>17. ProcessOK'
  BY <1>1, <1>7, <1>9, <1>14, <1>15, <1>16
     DEF ProcessOK, Covers, Inside, Before, HasActive, IsActive, Current, CurrentId
<1>18. DiskOK'
  BY <1>1 DEF IndInv, DiskOK, ProcessOK, Covers
<1>19. PublishedOK'
  BY <1>1, PublishedStays DEF IndInv
<1> QED BY <1>12, <1>13, <1>17, <1>18, <1>19 DEF IndInv

\* The steps of run_job that make the run directory and write its state.json.
LEMMA RunDirStep == IndInv /\ (MakeRunDir \/ WriteRunning \/ FinishRun) => IndInv'
<1> SUFFICES ASSUME IndInv, MakeRunDir \/ WriteRunning \/ FinishRun PROVE IndInv'
  OBVIOUS
<1>1. /\ UNCHANGED <<campaignFile, indexFile, summaryFile, round, refs, exitCode, starts, exited>>
      /\ pc \in {"makeRunDir", "writeRunning", "execute"}
      /\ pc' \in {"writeRunning", "execute", "returned"}
  BY DEF MakeRunDir, WriteRunning, FinishRun, Goto
<1>2. PICK v \in RunStates \ {"absent"} :
        /\ runs' = [runs EXCEPT ![CurrentId] = v]
        /\ pc' = "writeRunning" => v = "empty"
        /\ pc' = "execute" => v = "running"
        /\ pc' = "returned" => v \in FinalStates
  <2>1. {"empty", "running"} \cup FinalStates \subseteq RunStates \ {"absent"}
    BY DEF RunStates, FinalStates
  <2>2. CASE MakeRunDir
    BY <2>1, <2>2 DEF MakeRunDir, Goto
  <2>3. CASE WriteRunning
    BY <2>1, <2>3 DEF WriteRunning, Goto
  <2>4. CASE FinishRun
    BY <2>1, <2>4 DEF FinishRun, Goto
  <2> QED BY <2>2, <2>3, <2>4
<1>3. /\ runs' \in [RunIds -> RunStates]
      /\ runs'[CurrentId] = v
      /\ WellFormed(refs, runs') /\ WellFormed(indexFile.refs, runs')
      /\ Covers(refs, runs') /\ Covers(indexFile.refs, runs')
      /\ \A id \in ForeignRuns : runs'[id] # "absent"
      /\ PublishedOK'
  BY <1>1, <1>2, RunWrite
<1>4. TypeOK'
  BY <1>1, <1>3 DEF IndInv, TypeOK
<1>5. WellFormed(refs, runs)' /\ WellFormed(indexFile.refs, runs)'
  BY <1>1, <1>3 DEF WellFormed
<1>6. Current' = Current /\ CurrentId' = CurrentId
  BY <1>1 DEF Current, CurrentId, Id
<1>7. ProcessOK'
  BY <1>1, <1>2, <1>3, <1>6
     DEF IndInv, ProcessOK, Covers, Inside, Before, HasActive, IsActive
<1>8. DiskOK'
  BY <1>1, <1>3 DEF IndInv, DiskOK, ProcessOK, Covers
<1> QED BY <1>3, <1>4, <1>5, <1>7, <1>8 DEF IndInv

\* run_job returned or raised, and its reference learns of it.
LEMMA RecordStep == IndInv /\ (RecordRun \/ RunRaises) => IndInv'
<1> SUFFICES ASSUME IndInv, RecordRun \/ RunRaises PROVE IndInv'
  OBVIOUS
<1>1. /\ UNCHANGED <<campaignFile, indexFile, summaryFile, runs, round, starts, exited>>
      /\ pc \in {"makeRunDir", "writeRunning", "execute", "returned"}
      /\ pc' = "saveResult"
      /\ exitCode' \in {0, 1}
  BY DEF RecordRun, RunRaises, disk, Goto, IndInv, TypeOK
<1>2. pc \in Inside
  BY <1>1 DEF Inside
<1>3. /\ refs \in Seq(Refs) /\ refs # <<>> /\ runs \in [RunIds -> RunStates]
      /\ WellFormed(refs, runs) /\ Covers(refs, runs)
      /\ IsActive(refs[Len(refs)])
      /\ refs[Len(refs)].round = round
      /\ \A r \in Rounds : r < round => HasActive(refs, r)
  BY <1>2 DEF IndInv, TypeOK, ProcessOK, Current, Inside
<1>4. PICK s \in RefStatuses :
        /\ refs' = [refs EXCEPT ![Len(refs)].status = s]
        /\ \/ s = "failed"
           \/ s = runs[Id(refs[Len(refs)])] /\ s \in FinalStates
  <2>1. CASE RecordRun
    <3>1. runs[CurrentId] \in FinalStates
      BY <2>1 DEF RecordRun, IndInv, ProcessOK
    <3> QED BY <2>1, <3>1 DEF RecordRun, RefStatuses, Current, CurrentId
  <2>2. CASE RunRaises
    BY <2>2 DEF RunRaises, RefStatuses
  <2> QED BY <2>1, <2>2
<1>5. /\ refs' \in Seq(Refs)
      /\ Len(refs') = Len(refs)
      /\ WellFormed(refs', runs)
      /\ IsActive(refs'[Len(refs')])
      /\ \A i \in DOMAIN refs : refs'[i].round = refs[i].round /\ Id(refs'[i]) = Id(refs[i])
                              /\ (IsActive(refs'[i]) <=> IsActive(refs[i]))
  <2> DEFINE new == [refs EXCEPT ![Len(refs)].status = s]
  <2>1. /\ new \in Seq(Refs)
        /\ Len(new) = Len(refs)
        /\ WellFormed(new, runs)
        /\ IsActive(new[Len(new)])
        /\ \A i \in DOMAIN refs : new[i].round = refs[i].round /\ Id(new[i]) = Id(refs[i])
                                /\ (IsActive(new[i]) <=> IsActive(refs[i]))
    BY <1>3, <1>4, OutcomeRecorded
  <2>2. refs' = new
    BY <1>4
  <2> HIDE DEF new
  <2> QED BY <2>1, <2>2
<1>6. DOMAIN refs' = DOMAIN refs /\ refs' # <<>> /\ Len(refs) \in DOMAIN refs
  BY <1>3, <1>5
<1>7. TypeOK'
  BY <1>1, <1>5 DEF IndInv, TypeOK
<1>8. WellFormed(refs, runs)' /\ WellFormed(indexFile.refs, runs)'
  BY <1>1, <1>5 DEF IndInv, WellFormed
<1>9. Covers(refs', runs)
  BY <1>3, <1>5, <1>6 DEF Covers
<1>10. \A r \in Rounds : r < round => HasActive(refs', r)
  BY <1>3, <1>5, <1>6 DEF HasActive
<1>11. refs'[Len(refs')].round = round
  BY <1>3, <1>5, <1>6
<1>12. ProcessOK'
  <2>1. indexFile.state # "torn" /\ campaignFile = "running"
    BY <1>1 DEF IndInv, ProcessOK
  <2> QED BY <1>1, <1>5, <1>6, <1>9, <1>10, <1>11, <2>1
          DEF ProcessOK, Covers, Inside, Before, HasActive, IsActive, Current
<1>13. DiskOK'
  BY <1>1 DEF IndInv, DiskOK, ProcessOK, Covers
<1>14. PublishedOK'
  BY <1>1, PublishedStays DEF IndInv
<1> QED BY <1>7, <1>8, <1>12, <1>13, <1>14 DEF IndInv

\* campaign.json gets its final status.
LEMMA FinishStep == IndInv /\ Finish => IndInv'
<1> SUFFICES ASSUME IndInv, Finish PROVE IndInv'
  OBVIOUS
<1>1. /\ pc = "finish" /\ pc' = "summarizeEnd" /\ campaignFile' = FinalStatus
      /\ UNCHANGED <<indexFile, summaryFile, runs, round, refs, exitCode, starts, exited>>
  BY DEF Finish, Goto
<1>2. FinalStatus \in {"completed", "partial", "failed"}
  BY DEF FinalStatus
<1>3. TypeOK'
  BY <1>1, <1>2 DEF IndInv, TypeOK, CampaignStatuses, FinalStates, Summarizing
<1>4. WellFormed(refs, runs)' /\ WellFormed(indexFile.refs, runs)'
  BY <1>1 DEF IndInv, WellFormed
<1>5. ProcessOK'
  BY <1>1, <1>2 DEF IndInv, ProcessOK, Covers, Inside, Before
<1>6. DiskOK'
  BY <1>1, <1>2 DEF IndInv, DiskOK, ProcessOK, Covers
<1>7. PublishedOK'
  <2>1. SummaryBacked'
    BY <1>1, SummaryStays DEF IndInv, PublishedOK
  <2>2. refs = indexFile.refs /\ (exitCode = 0 => \A r \in Rounds : HasActive(refs, r))
    BY <1>1 DEF IndInv, ProcessOK
  <2>3. campaignFile' = "completed" =>
          /\ \A r \in Rounds : HasActive(indexFile.refs, r)
          /\ \A i \in ActiveRefs(indexFile.refs) : RefCompleted(indexFile.refs[i])
    BY <1>1, <2>2 DEF FinalStatus
  <2> QED BY <1>1, <2>1, <2>3 DEF PublishedOK, HasActive, IsActive, ActiveRefs, RefCompleted, RunStatus
<1> QED BY <1>3, <1>4, <1>5, <1>6, <1>7 DEF IndInv

\* The summary stays within its type.
LEMMA SummaryType ==
  ASSUME IndInv, campaignFile \in CampaignStatuses
  PROVE  Summary \in [status : {"none", "torn"} \cup CampaignStatuses,
                      children : SUBSET [round : Rounds, attempt : Attempts,
                                         status : RunStates \cup RefStatuses]]
<1>1. SummaryStatus(campaignFile, Children(indexFile.refs)) \in CampaignStatuses
  BY DEF SummaryStatus, CampaignStatuses, FinalStates
<1>2. Children(indexFile.refs) \subseteq [round : Rounds, attempt : Attempts,
                                          status : RunStates \cup RefStatuses]
  <2>1. \A i \in DOMAIN indexFile.refs :
          /\ indexFile.refs[i] \in Refs
          /\ runs[Id(indexFile.refs[i])] \in RunStates
    BY IdType DEF IndInv, TypeOK
  <2>2. "running" \in RunStates
    BY DEF RunStates
  <2>3. \A i \in DOMAIN indexFile.refs :
          RunStatus(indexFile.refs[i]) \in RunStates \cup RefStatuses
    BY <2>1, <2>2 DEF RunStatus, Refs
  <2> QED BY <2>1, <2>3 DEF Children, ActiveRefs, Refs
<1> QED BY <1>1, <1>2 DEF Summary

\* Summaries written while an invocation runs and while none does.
LEMMA SummarizeStep ==
  IndInv /\ (SummarizeOpened \/ SummarizeResult \/ SummarizeEnd \/ Resummarize) => IndInv'
<1> SUFFICES ASSUME IndInv, SummarizeOpened \/ SummarizeResult \/ SummarizeEnd \/ Resummarize
             PROVE  IndInv'
  OBVIOUS
<1> USE CampaignAssumption
<1>1. /\ summaryFile' = Summary
      /\ UNCHANGED <<campaignFile, indexFile, runs, starts>>
  BY DEF SummarizeOpened, SummarizeResult, SummarizeEnd, Summarize, Resummarize
<1>2. campaignFile \in CampaignStatuses
  <2>1. CASE Resummarize
    BY <2>1 DEF Resummarize, ReadableCampaign
  <2>2. CASE pc \in Summarizing
    BY <2>2 DEF IndInv, ProcessOK, Summarizing, CampaignStatuses, FinalStates
  <2> QED BY <2>1, <2>2 DEF SummarizeOpened, SummarizeResult, SummarizeEnd, Summarize, Summarizing
<1>3. /\ SummaryBacked'
      /\ campaignFile \in {"completed", "partial", "failed"} => summaryFile'.status = campaignFile
  BY <1>1, <1>2, SummaryWritten
<1>4. summaryFile' \in [status : {"none", "torn"} \cup CampaignStatuses,
                        children : SUBSET [round : Rounds, attempt : Attempts,
                                           status : RunStates \cup RefStatuses]]
  BY <1>1, <1>2, SummaryType
<1>5. WellFormed(indexFile.refs, runs)'
  BY <1>1 DEF IndInv, WellFormed
<1>6. PublishedOK' <=>
        (pc' = "idle" /\ exited' = "clean" => campaignFile \in {"completed", "partial", "failed"})
  <2>1. campaignFile = "completed" =>
          /\ \A r \in Rounds : HasActive(indexFile.refs, r)
          /\ \A i \in ActiveRefs(indexFile.refs) : RefCompleted(indexFile.refs[i])
    BY DEF IndInv, PublishedOK
  <2> QED BY <1>1, <1>3, <2>1
          DEF PublishedOK, HasActive, IsActive, ActiveRefs, RefCompleted, RunStatus
<1>7. CASE SummarizeOpened
  <2>1. pc = "summarizeOpened" /\ pc' = "makeRunDir" /\ UNCHANGED <<round, refs, exitCode, exited>>
    BY <1>7 DEF SummarizeOpened, Summarize, Goto
  <2>2. TypeOK'
    BY <1>1, <1>4, <2>1 DEF IndInv, TypeOK
  <2>3. ProcessOK'
    BY <1>1, <2>1 DEF IndInv, ProcessOK, Covers, Inside, Before, HasActive, IsActive, Current, CurrentId, Id
  <2>4. DiskOK'
    BY <1>1, <2>1 DEF IndInv, DiskOK, ProcessOK, Covers
  <2>5. WellFormed(refs, runs)'
    BY <1>1, <2>1 DEF IndInv, WellFormed
  <2> QED BY <1>5, <1>6, <2>1, <2>2, <2>3, <2>4, <2>5 DEF IndInv
<1>8. CASE SummarizeResult
  <2>1. pc = "summarizeResult" /\ UNCHANGED <<refs, exitCode, exited>>
    BY <1>8 DEF SummarizeResult, Summarize
  <2>2. \/ pc' = "round" /\ round < Repeat /\ round' = round + 1
        \/ pc' = "finish" /\ round' = round /\ (exitCode = 0 => round = Repeat)
    BY <1>8 DEF SummarizeResult, NextRound, Goto, IndInv, TypeOK, Rounds
  <2>3. TypeOK'
    BY <1>1, <1>4, <2>1, <2>2 DEF IndInv, TypeOK, Rounds
  <2>4. \A r \in Rounds : r <= round => HasActive(refs, r)
    <3>1. Len(refs) \in DOMAIN refs /\ Current.round = round /\ IsActive(Current)
      BY <2>1, CurrentRun DEF IndInv, ProcessOK, Inside
    <3>2. HasActive(refs, round)
      BY <3>1 DEF HasActive, Current
    <3> QED BY <2>1, <3>2 DEF IndInv, ProcessOK, Inside, TypeOK, Rounds
  <2>5. ProcessOK'
    <3>1. \A r \in Rounds : r < round' /\ pc' = "round" => HasActive(refs, r)
      BY <2>2, <2>4 DEF IndInv, TypeOK, Rounds
    <3>2. pc' = "finish" /\ exitCode = 0 => \A r \in Rounds : HasActive(refs, r)
      BY <2>2, <2>4 DEF Rounds
    <3> QED BY <1>1, <2>1, <2>2, <3>1, <3>2
            DEF IndInv, ProcessOK, Covers, Inside, Before, HasActive, IsActive
  <2>6. DiskOK'
    BY <1>1, <2>1, <2>2 DEF IndInv, DiskOK, ProcessOK, Covers
  <2>7. WellFormed(refs, runs)'
    BY <1>1, <2>1 DEF IndInv, WellFormed
  <2> QED BY <1>5, <1>6, <2>2, <2>3, <2>5, <2>6, <2>7 DEF IndInv
<1>9. CASE SummarizeEnd
  <2>1. /\ pc = "summarizeEnd" /\ pc' = "idle" /\ refs' = <<>> /\ exitCode' = 0
        /\ round' = 1 /\ exited' = "clean"
    BY <1>9 DEF SummarizeEnd, Summarize, Stop
  <2>2. campaignFile \in {"completed", "partial", "failed"}
    BY <2>1 DEF IndInv, ProcessOK
  <2>3. 1 \in Rounds /\ <<>> \in Seq(Refs)
    BY DEF Rounds
  <2>4. TypeOK'
    BY <1>1, <1>4, <2>1, <2>3 DEF IndInv, TypeOK
  <2>5. ProcessOK'
    BY <2>1 DEF ProcessOK, Inside, Before
  <2>6. DiskOK'
    BY <1>1, <2>1 DEF IndInv, DiskOK, ProcessOK, Covers
  <2>7. WellFormed(refs, runs)'
    BY <2>1 DEF WellFormed
  <2> QED BY <1>5, <1>6, <2>2, <2>4, <2>5, <2>6, <2>7 DEF IndInv
<1>10. CASE Resummarize
  <2>1. pc = "idle" /\ UNCHANGED <<pc, round, refs, exitCode, exited>>
    BY <1>10 DEF Resummarize, process
  <2>2. TypeOK'
    BY <1>1, <1>4, <2>1 DEF IndInv, TypeOK
  <2>3. ProcessOK'
    BY <1>1, <2>1 DEF IndInv, ProcessOK, Inside, Before
  <2>4. DiskOK'
    BY <1>1, <2>1 DEF IndInv, DiskOK, ProcessOK, Covers
  <2>5. WellFormed(refs, runs)'
    BY <1>1, <2>1 DEF IndInv, WellFormed
  <2>6. exited = "clean" => campaignFile \in {"completed", "partial", "failed"}
    BY <2>1 DEF IndInv, PublishedOK
  <2> QED BY <1>5, <1>6, <2>1, <2>2, <2>3, <2>4, <2>5, <2>6 DEF IndInv
<1> QED BY <1>7, <1>8, <1>9, <1>10

\* Every step preserves the invariant.
LEMMA IndInvNext == IndInv /\ [Next]_vars => IndInv'
<1> SUFFICES ASSUME IndInv, [Next]_vars PROVE IndInv'
  OBVIOUS
<1>1. CASE StartCreate \/ StartResume
  BY <1>1, StartStep
<1>2. CASE Resummarize
  BY <1>2, SummarizeStep
<1>3. CASE Step
  <2>1. CASE WriteCampaign
    BY <2>1, WriteCampaignStep
  <2>2. CASE \/ SaveIndex("writeIndex", "round")
             \/ SaveIndex("saveRef", "summarizeOpened")
             \/ SaveIndex("saveResult", "summarizeResult")
    BY <2>2, SaveIndexStep
  <2>3. CASE SkipRound
    BY <2>3, SkipRoundStep
  <2>4. CASE OpenRound
    BY <2>4, OpenRoundStep
  <2>5. CASE SummarizeOpened \/ SummarizeResult \/ SummarizeEnd
    BY <2>5, SummarizeStep
  <2>6. CASE MakeRunDir \/ WriteRunning \/ FinishRun
    BY <2>6, RunDirStep
  <2>7. CASE RecordRun \/ RunRaises
    BY <2>7, RecordStep
  <2>8. CASE Finish
    BY <2>8, FinishStep
  <2>9. CASE Unreadable
    <3>1. pc # "idle"
      BY <2>9 DEF Unreadable, ReadFails, Summarizing
    <3> QED BY <2>9, <3>1, StopStep DEF Unreadable
  <2> QED BY <1>3, <2>1, <2>2, <2>3, <2>4, <2>5, <2>6, <2>7, <2>8, <2>9 DEF Step
<1>4. CASE Fault
  <2>1. pc # "idle"
    BY <1>4
    DEF Fault, Crash, TearCampaign, TearIndex, TearSummary, TearState, TearScores, Summarizing
  <2>2. Stop("crashed")
    BY <1>4 DEF Fault, Crash, TearCampaign, TearIndex, TearSummary, TearState, TearScores
  <2>3. UNCHANGED disk \/ TearCampaign \/ TearIndex \/ TearSummary \/ TearState \/ TearScores
    BY <1>4 DEF Fault, Crash
  <2> QED BY <2>1, <2>2, <2>3, StopStep
<1>5. CASE UNCHANGED vars
  <2>1. UNCHANGED <<campaignFile, indexFile, summaryFile, runs, pc, round, refs, exitCode, starts, exited>>
    BY <1>5 DEF vars, disk, process
  <2>2. PublishedOK'
    BY <2>1, PublishedStays DEF IndInv
  <2>3. TypeOK' /\ DiskOK'
    BY <2>1 DEF IndInv, TypeOK, DiskOK, Covers
  <2>4. WellFormed(refs, runs)' /\ WellFormed(indexFile.refs, runs)'
    BY <2>1 DEF IndInv, WellFormed
  <2>5. ProcessOK'
    BY <2>1 DEF IndInv, ProcessOK, Covers, Inside, HasActive, IsActive, Current, CurrentId, Id
  <2> QED BY <2>2, <2>3, <2>4, <2>5 DEF IndInv
<1> QED BY <1>1, <1>2, <1>3, <1>4, <1>5 DEF Next

\* The inductive invariant holds in every state of every campaign.
THEOREM Invariance == Spec => []IndInv
<1>1. Init => IndInv
  BY IndInvInit
<1>2. IndInv /\ [Next]_vars => IndInv'
  BY IndInvNext
<1> QED BY <1>1, <1>2, PTL DEF Spec

-----------------------------------------------------------------------------
(* What the invariant shows. *)

\* Every variable keeps its type.
THEOREM TypeCorrect == Spec => []TypeOK
<1>1. IndInv => TypeOK
  BY DEF IndInv
<1> QED BY <1>1, Invariance, PTL

\* Through any sequence of crashes and resumes the list of references counts a round
\* once, never reuses a run directory, and replaces only runs that did not complete.
THEOREM ReferencesSafe == Spec => [](ListsSound /\ CompletedNotReplaced)
<1>1. IndInv => OneActivePerRound /\ AttemptsIncrease /\ NamesOwnRuns /\ CompletedNotReplaced
  BY DEF IndInv, WellFormed, ActiveRefs, Lists,
         OneActivePerRound, AttemptsIncrease, CompletedNotReplaced, NamesOwnRuns
<1>2. IndInv => ListsSound /\ CompletedNotReplaced
  BY <1>1 DEF ListsSound
<1> QED BY <1>2, Invariance, PTL

\* A reference that counts as completed names a completed run of the campaign's own.
LEMMA ActiveCompleted ==
  ASSUME NEW rs \in Seq(Refs), WellFormed(rs, runs), NEW i \in DOMAIN rs, RefCompleted(rs[i])
  PROVE  rs[i].attempt \in OwnCompleted(rs[i].round)
<1>1. rs[i] \in Refs
  OBVIOUS
<1>2. rs[i].attempt \in Attempts /\ Id(rs[i]) = <<rs[i].round, rs[i].attempt>>
  BY <1>1 DEF Refs, Id
<1>3. Id(rs[i]) \notin ForeignRuns
  BY DEF WellFormed
<1>4. rs[i].status \in FinalStates => runs[Id(rs[i])] = rs[i].status
  BY DEF WellFormed
<1>5. runs[Id(rs[i])] = "completed"
  BY <1>4 DEF RefCompleted, RunStatus, FinalStates
<1> QED BY <1>2, <1>3, <1>5 DEF OwnCompleted

\* A campaign that is called completed has a completed run of its own for every round,
\* in campaign.json and in the summary the leaderboard ranks; and a command that ended by
\* itself leaves the two files in agreement.
THEOREM PublishedBacked == Spec => []PublishedTrue
<1>1. IndInv => CompletedMeansAllRounds
  <2> SUFFICES ASSUME IndInv, campaignFile = "completed", NEW r \in Rounds
               PROVE  OwnCompleted(r) # {}
    BY DEF CompletedMeansAllRounds
  <2>1. PICK i \in DOMAIN indexFile.refs :
          IsActive(indexFile.refs[i]) /\ indexFile.refs[i].round = r
    BY DEF IndInv, PublishedOK, HasActive
  <2>2. RefCompleted(indexFile.refs[i])
    BY <2>1 DEF IndInv, PublishedOK, ActiveRefs
  <2>3. indexFile.refs \in Seq(Refs) /\ WellFormed(indexFile.refs, runs)
    BY DEF IndInv, TypeOK
  <2> QED BY <2>1, <2>2, <2>3, ActiveCompleted
<1>2. IndInv => SummaryBacked /\ CleanExitAgrees
  BY DEF IndInv, PublishedOK, CleanExitAgrees
<1>3. IndInv => PublishedTrue
  BY <1>1, <1>2 DEF PublishedTrue
<1> QED BY <1>3, Invariance, PTL

\* The only steps that touch a run directory write the one the invocation made.
LEMMA RunsTouched ==
  ASSUME IndInv, [Next]_vars, NEW id \in RunIds, runs'[id] # runs[id]
  PROVE  /\ MakeRunDir \/ WriteRunning \/ FinishRun \/ TearState \/ TearScores
         /\ pc \in Inside
         /\ id = CurrentId
         /\ runs[id] \notin FinalStates \cup {"torn", "cut"}
<1>1. MakeRunDir \/ WriteRunning \/ FinishRun \/ TearState \/ TearScores
  BY DEF Next, StartCreate, StartResume, Resummarize, Step, WriteCampaign, SaveIndex, SkipRound,
         OpenRound, SummarizeOpened, RecordRun, RunRaises, SummarizeResult, Finish, SummarizeEnd,
         Summarize, Unreadable, Fault, Crash, TearCampaign, TearIndex, TearSummary, disk, vars
<1>2. pc \in {"makeRunDir", "writeRunning", "execute"}
  BY <1>1 DEF MakeRunDir, WriteRunning, FinishRun, TearState, TearScores
<1>3. \E v : runs' = [runs EXCEPT ![CurrentId] = v]
  BY <1>1 DEF MakeRunDir, WriteRunning, FinishRun, TearState, TearScores
<1>4. id = CurrentId
  BY <1>3 DEF IndInv, TypeOK
<1>5. runs[CurrentId] \in {"absent", "empty", "running"}
  BY <1>2 DEF IndInv, ProcessOK, Before
<1> QED BY <1>1, <1>2, <1>4, <1>5 DEF Inside, FinalStates

\* "Resume does not overwrite old child runs": the invocation writes only into the run
\* directory it made, and never again once the run's state is final.
THEOREM NoOverwrite == Spec => RunsNotOverwritten
<1> DEFINE Kept == \A id \in RunIds :
                     runs'[id] # runs[id] =>
                       /\ runs[id] \notin FinalStates \cup {"torn", "cut"}
                       /\ id \notin ForeignRuns
                       /\ refs # <<>> /\ id = CurrentId
<1>1. IndInv /\ [Next]_vars => Kept
  <2> SUFFICES ASSUME IndInv, [Next]_vars, NEW id \in RunIds, runs'[id] # runs[id]
               PROVE  /\ runs[id] \notin FinalStates \cup {"torn", "cut"}
                      /\ id \notin ForeignRuns
                      /\ refs # <<>> /\ id = CurrentId
    OBVIOUS
  <2>1. pc \in Inside /\ id = CurrentId /\ runs[id] \notin FinalStates \cup {"torn", "cut"}
    BY RunsTouched
  <2>2. refs # <<>> /\ CurrentId \notin ForeignRuns
    BY <2>1, CurrentRun
  <2> QED BY <2>1, <2>2
<1>2. [][Kept]_vars => RunsNotOverwritten
  BY PTL DEF RunsNotOverwritten
<1>3. IndInv /\ [Next]_vars => [Kept]_vars
  BY <1>1
<1> HIDE DEF Kept
<1> QED BY <1>2, <1>3, Invariance, PTL DEF Spec

\* While a round is being run no run of it is complete.
LEMMA RoundOpen ==
  ASSUME IndInv, pc \in {"makeRunDir", "writeRunning", "execute"}
  PROVE  OwnCompleted(round) = {}
<1> SUFFICES ASSUME NEW a \in Attempts, <<round, a>> \notin ForeignRuns,
                    runs[<<round, a>>] = "completed"
             PROVE  FALSE
  BY DEF OwnCompleted
<1>1. pc \in Inside
  BY DEF Inside
<1>2. <<round, a>> \in RunIds \ ForeignRuns
  BY DEF IndInv, TypeOK, RunIds
<1>3. PICK i \in DOMAIN refs : Id(refs[i]) = <<round, a>>
  BY <1>1, <1>2 DEF IndInv, ProcessOK, Covers, Inside
<1>4. refs[i].round = round /\ refs[i].attempt = a
  BY <1>3 DEF Id
<1>5. WellFormed(refs, runs) /\ Len(refs) \in DOMAIN refs /\ IsActive(Current) /\ Current.round = round
  BY <1>1, CurrentRun DEF IndInv, ProcessOK
<1>6. CASE i = Len(refs)
  <2>1. runs[CurrentId] # "completed"
    BY DEF IndInv, ProcessOK, Before
  <2> QED BY <1>3, <1>6, <2>1 DEF Current, CurrentId
<1>7. CASE i # Len(refs)
  <2>1. ~ IsActive(refs[i])
    BY <1>4, <1>5, <1>7 DEF WellFormed, Current
  <2> QED BY <1>3, <1>5, <2>1 DEF WellFormed, IsActive
<1> QED BY <1>6, <1>7

\* How a step changes the completed runs: not at all, or it completes the first one
\* of the round that is being run.
LEMMA Completions ==
  ASSUME IndInv, [Next]_vars
  PROVE  \/ \A r \in Rounds : OwnCompleted(r)' = OwnCompleted(r)
         \/ /\ FinishRun
            /\ Current.attempt \in Attempts
            /\ OwnCompleted(round) = {}
            /\ OwnCompleted(round)' = {Current.attempt}
            /\ \A r \in Rounds \ {round} : OwnCompleted(r)' = OwnCompleted(r)
<1>0. RunIds = Rounds \X Attempts /\ runs \in [RunIds -> RunStates]
  BY DEF RunIds, IndInv, TypeOK
<1>1. CASE \A id \in RunIds : (runs[id] = "completed") <=> (runs'[id] = "completed")
  BY <1>0, <1>1 DEF OwnCompleted
<1>2. CASE \E id \in RunIds : ~ ((runs[id] = "completed") <=> (runs'[id] = "completed"))
  <2>1. PICK id \in RunIds : ~ ((runs[id] = "completed") <=> (runs'[id] = "completed"))
    BY <1>2
  <2>2. /\ MakeRunDir \/ WriteRunning \/ FinishRun \/ TearState \/ TearScores
        /\ pc \in Inside
        /\ id = CurrentId
        /\ runs[id] \notin FinalStates
    BY <2>1, RunsTouched
  <2>3. runs[id] # "completed" /\ runs'[id] = "completed"
    BY <2>1, <2>2 DEF FinalStates
  <2>4. \E v : runs' = [runs EXCEPT ![id] = v]
    BY <2>2 DEF MakeRunDir, WriteRunning, FinishRun, TearState, TearScores
  <2>5. runs' = [runs EXCEPT ![id] = "completed"]
    BY <1>0, <2>1, <2>3, <2>4
  <2>6. FinishRun
    BY <1>0, <2>1, <2>2, <2>3 DEF MakeRunDir, WriteRunning, TearState, TearScores
  <2>7. pc = "execute"
    BY <2>6 DEF FinishRun
  <2>8. OwnCompleted(round) = {}
    BY <2>7, RoundOpen
  <2>9. /\ Current \in Refs /\ Current.round = round /\ id \notin ForeignRuns
        /\ id = <<round, Current.attempt>>
    BY <2>2, CurrentRun DEF IndInv, ProcessOK, CurrentId, Id
  <2>10. Current.attempt \in Attempts /\ UNCHANGED round
    BY <2>6, <2>9 DEF Refs, FinishRun
  <2>11. \A r \in Rounds, a \in Attempts :
           runs'[<<r, a>>] = IF <<r, a>> = id THEN "completed" ELSE runs[<<r, a>>]
    BY <1>0, <2>5
  <2>12. OwnCompleted(round)' = {Current.attempt}
    <3>1. round \in Rounds
      BY DEF IndInv, TypeOK
    <3>2. \A a \in Attempts : <<round, a>> \notin ForeignRuns => runs[<<round, a>>] # "completed"
      BY <2>8 DEF OwnCompleted
    <3>3. OwnCompleted(round)' =
            {a \in Attempts : <<round, a>> \notin ForeignRuns /\ runs'[<<round, a>>] = "completed"}
      BY <2>10 DEF OwnCompleted
    <3> QED BY <2>9, <2>10, <2>11, <3>1, <3>2, <3>3
  <2>13. \A r \in Rounds \ {round} : OwnCompleted(r)' = OwnCompleted(r)
    BY <2>9, <2>11 DEF OwnCompleted
  <2> QED BY <2>6, <2>8, <2>10, <2>12, <2>13
<1> QED BY <1>1, <1>2

\* No round is run to completion twice, whatever the kills in between.
THEOREM CompletedOnce == Spec => []OneCompletedRun
<1>1. Init => OneCompletedRun
  BY DEF Init, OneCompletedRun, OwnCompleted, RunIds
<1>2. IndInv /\ OneCompletedRun /\ [Next]_vars => OneCompletedRun'
  <2> SUFFICES ASSUME IndInv, OneCompletedRun, [Next]_vars,
                      NEW r \in Rounds, NEW a \in OwnCompleted(r)', NEW b \in OwnCompleted(r)'
               PROVE  a = b
    BY DEF OneCompletedRun
  <2>1. CASE OwnCompleted(r)' = OwnCompleted(r)
    BY <2>1 DEF OneCompletedRun
  <2>2. CASE OwnCompleted(r)' # OwnCompleted(r)
    <3>1. r = round /\ OwnCompleted(round)' = {Current.attempt}
      BY <2>2, Completions
    <3>2. UNCHANGED round
      BY <2>2, Completions DEF FinishRun
    <3> QED BY <3>1, <3>2 DEF OwnCompleted
  <2> QED BY <2>1, <2>2
<1> QED BY <1>1, <1>2, Invariance, PTL DEF Spec

\* A finished round stays finished, and by one run, through any kills and resumes.
THEOREM FinishedRoundsStay == Spec => []FinishedOnce
<1>1. ListsSound /\ CompletedNotReplaced /\ OneCompletedRun => FinishedOnce
  BY DEF FinishedOnce
<1> QED BY <1>1, ReferencesSafe, CompletedOnce, PTL

-----------------------------------------------------------------------------
(* The history of attempts. *)

\* What a list may become: references are appended, keep their run, and once they
\* are replaced they stay so.
Extends(old, new) ==
  /\ Len(old) <= Len(new)
  /\ \A i \in DOMAIN old :
       /\ Id(new[i]) = Id(old[i])
       /\ IsActive(new[i]) => IsActive(old[i])

\* The list in memory is ahead of the one on disk, never beside it.
MemoryAhead == pc # "idle" => Extends(indexFile.refs, refs)

LEMMA ExtendsTrans ==
  ASSUME NEW x \in Seq(Refs), NEW y \in Seq(Refs), NEW z \in Seq(Refs),
         Extends(x, y), Extends(y, z)
  PROVE  Extends(x, z)
<1>1. DOMAIN x \subseteq DOMAIN y
  BY DEF Extends
<1> QED BY <1>1 DEF Extends

LEMMA ExtendsSelf == \A x \in Seq(Refs) : Extends(x, x)
BY DEF Extends

\* Each step extends the list in memory, as long as the invocation goes on.
LEMMA RefsExtended ==
  ASSUME IndInv, [Next]_vars, pc # "idle", pc' # "idle"
  PROVE  Extends(refs, refs')
<1>1. refs \in Seq(Refs) /\ refs' \in Seq(Refs)
  BY IndInvNext DEF IndInv, TypeOK
<1>2. CASE refs' = refs
  BY <1>1, <1>2, ExtendsSelf
<1>3. CASE OpenRound
  <2> DEFINE marked == MarkReplaced(refs, LatestActive(refs, round))
  <2>1. \E ref : refs' = Append(marked, ref)
    BY <1>3 DEF OpenRound
  <2>2. DOMAIN marked = 1 .. Len(refs) /\ Len(refs) \in Nat
    BY <1>1 DEF MarkReplaced
  <2>3. \A i \in DOMAIN refs :
          /\ marked[i].round = refs[i].round
          /\ marked[i].attempt = refs[i].attempt
          /\ IsActive(marked[i]) => IsActive(refs[i])
    <3>1. \A i \in DOMAIN refs : refs[i] \in Refs
      BY <1>1
    <3> QED BY <3>1 DEF MarkReplaced, Refs, IsActive
  <2>4. marked \in Seq(Refs) /\ Len(marked) = Len(refs)
    <3>1. \A i \in 1 .. Len(refs) : marked[i] \in Refs
      <4>1. \A i \in 1 .. Len(refs) : refs[i] \in Refs
        BY <1>1
      <4>2. \A i \in 1 .. Len(refs) : [refs[i] EXCEPT !.status = "replaced"] \in Refs
        BY <4>1 DEF Refs, RefStatuses
      <4> QED BY <2>2, <4>1, <4>2 DEF MarkReplaced
    <3>2. marked \in [1 .. Len(refs) -> Refs]
      BY <2>2, <3>1 DEF MarkReplaced
    <3> QED BY <2>2, <3>2
  <2>5. Len(refs') = Len(refs) + 1 /\ \A i \in DOMAIN refs : refs'[i] = marked[i]
    BY <1>1, <2>1, <2>2, <2>4
  <2> QED BY <2>2, <2>3, <2>5 DEF Extends, Id
<1>4. CASE RecordRun \/ RunRaises
  <2>1. PICK s \in RunStates \cup RefStatuses :
          refs' = [refs EXCEPT ![Len(refs)].status = s] /\ s # "replaced"
    <3>1. CASE RecordRun
      <4>1. refs' = [refs EXCEPT ![Len(refs)].status = runs[CurrentId]]
        BY <3>1 DEF RecordRun
      <4>2. runs[CurrentId] # "replaced" /\ runs[CurrentId] \in RunStates
        BY <3>1 DEF RecordRun, IndInv, ProcessOK, FinalStates, RunStates
      <4> QED BY <4>1, <4>2
    <3>2. CASE RunRaises
      BY <3>2 DEF RunRaises, RefStatuses
    <3> QED BY <1>4, <3>1, <3>2
  <2>2. pc \in Inside
    BY <1>4 DEF RecordRun, RunRaises, Inside
  <2>3. Len(refs) \in DOMAIN refs /\ Current \in Refs /\ IsActive(Current)
    BY <2>2, CurrentRun DEF IndInv, ProcessOK
  <2>4. /\ Len(refs') = Len(refs)
        /\ \A i \in DOMAIN refs : i # Len(refs) => refs'[i] = refs[i]
        /\ refs'[Len(refs)].round = Current.round
        /\ refs'[Len(refs)].attempt = Current.attempt
    BY <1>1, <2>1, <2>3 DEF Refs, Current
  <2> QED BY <1>1, <2>3, <2>4 DEF Extends, Id, Current
<1> QED
  BY <1>2, <1>3, <1>4
  DEF Next, StartCreate, StartResume, Resummarize, Step, WriteCampaign, SaveIndex, SkipRound,
      SummarizeOpened, MakeRunDir, WriteRunning, FinishRun, SummarizeResult, Finish, SummarizeEnd,
      Summarize, Unreadable, Fault, Crash, TearCampaign, TearIndex, TearSummary, TearState,
      TearScores, Stop, disk, process, vars

\* run_ids.json changes only by a save of the list in memory, or by being torn.
LEMMA IndexTouched ==
  ASSUME [Next]_vars
  PROVE  \/ UNCHANGED indexFile
         \/ indexFile'.state = "torn"
         \/ pc # "idle" /\ pc' # "idle" /\ indexFile'.refs = refs /\ UNCHANGED refs
<1>1. CASE Step
  BY <1>1 DEF Step, WriteCampaign, SaveIndex, SkipRound, OpenRound, SummarizeOpened, MakeRunDir,
     WriteRunning, FinishRun, RecordRun, RunRaises, SummarizeResult, Finish, SummarizeEnd,
     Summarize, Unreadable, Goto, disk
<1>2. CASE Fault
  BY <1>2
  DEF Fault, Crash, TearCampaign, TearIndex, TearSummary, TearState, TearScores, TornIndex, disk
<1>3. CASE StartCreate \/ StartResume \/ Resummarize \/ UNCHANGED vars
  BY <1>3 DEF StartCreate, StartResume, Resummarize, disk, vars
<1> QED BY <1>1, <1>2, <1>3 DEF Next

LEMMA MemoryAheadStep == IndInv /\ MemoryAhead /\ [Next]_vars => MemoryAhead'
<1> SUFFICES ASSUME IndInv, MemoryAhead, [Next]_vars, pc' # "idle"
             PROVE  Extends(indexFile.refs', refs')
  BY DEF MemoryAhead, Extends, IsActive, Id
<1>1. /\ refs \in Seq(Refs) /\ refs' \in Seq(Refs)
      /\ indexFile.refs \in Seq(Refs) /\ indexFile.refs' \in Seq(Refs)
  BY IndInvNext DEF IndInv, TypeOK
<1>2. CASE pc = "idle"
  <2>1. StartCreate \/ StartResume
    BY <1>2 DEF Next, Step, WriteCampaign, SaveIndex, SkipRound, OpenRound, SummarizeOpened,
       MakeRunDir, WriteRunning, FinishRun, RecordRun, RunRaises, SummarizeResult, Finish,
       SummarizeEnd, Summarize, Unreadable, ReadFails, Summarizing, Fault, Crash,
       TearCampaign, TearIndex, TearSummary, TearState, TearScores, Resummarize, process, vars
  <2>2. refs' = indexFile.refs /\ UNCHANGED indexFile
    BY <1>2, <2>1 DEF StartCreate, StartResume, disk, IndInv, ProcessOK, DiskOK
  <2> QED BY <1>1, <2>2, ExtendsSelf
<1>3. CASE pc # "idle"
  <2>1. Extends(refs, refs')
    BY <1>3, RefsExtended
  <2>2. Extends(indexFile.refs, refs)
    BY <1>3 DEF MemoryAhead
  <2>3. CASE UNCHANGED indexFile
    BY <1>1, <2>1, <2>2, <2>3, ExtendsTrans
  <2>4. CASE indexFile'.state = "torn"
    BY <2>4, IndInvNext DEF IndInv, ProcessOK
  <2>5. CASE indexFile'.refs = refs
    BY <2>1, <2>5
  <2> QED BY <2>3, <2>4, <2>5, IndexTouched
<1> QED BY <1>2, <1>3

\* The saved history of attempts is only ever added to, unless the file is torn.
THEOREM HistorySafe == Spec => HistoryKept
<1> DEFINE Kept == indexFile'.state # "torn" =>
                     /\ Len(indexFile.refs) <= Len(indexFile'.refs)
                     /\ \A i \in DOMAIN indexFile.refs :
                          /\ Id(indexFile'.refs[i]) = Id(indexFile.refs[i])
                          /\ IsActive(indexFile'.refs[i]) => IsActive(indexFile.refs[i])
<1>1. Init => MemoryAhead
  BY DEF Init, MemoryAhead
<1>2. IndInv /\ MemoryAhead /\ [Next]_vars => MemoryAhead'
  BY MemoryAheadStep
<1>3. IndInv /\ MemoryAhead /\ [Next]_vars => Kept
  <2> SUFFICES ASSUME IndInv, MemoryAhead, [Next]_vars, indexFile'.state # "torn"
               PROVE  Extends(indexFile.refs, indexFile'.refs)
    BY DEF Extends
  <2>1. CASE UNCHANGED indexFile
    BY <2>1, ExtendsSelf DEF IndInv, TypeOK
  <2>2. CASE pc # "idle" /\ indexFile'.refs = refs
    BY <2>2 DEF MemoryAhead
  <2> QED BY <2>1, <2>2, IndexTouched
<1>4. IndInv /\ MemoryAhead /\ [Next]_vars => [Kept]_vars
  BY <1>3
<1>5. [][Kept]_vars => HistoryKept
  BY PTL DEF HistoryKept
<1> HIDE DEF Kept
<1> QED BY <1>1, <1>2, <1>4, <1>5, Invariance, PTL DEF Spec

-----------------------------------------------------------------------------
(* The campaign implements the ledger of accepted runs. *)

\* Accepting a run is the only way the ledger of rounds moves.
LEMMA LedgerMoves ==
  ASSUME IndInv, [Next]_vars
  PROVE  \/ \A r \in Rounds : AcceptedRun(r)' = AcceptedRun(r)
         \/ /\ campaignFile = "running" /\ campaignFile' = "running"
            /\ round \in Rounds
            /\ Current.attempt \in Attempts
            /\ AcceptedRun(round) = 0
            /\ \A r \in Rounds :
                 AcceptedRun(r)' = IF r = round THEN Current.attempt ELSE AcceptedRun(r)
<1>1. CASE \A r \in Rounds : OwnCompleted(r)' = OwnCompleted(r)
  BY <1>1 DEF AcceptedRun
<1>2. CASE /\ FinishRun
           /\ Current.attempt \in Attempts
           /\ OwnCompleted(round) = {}
           /\ OwnCompleted(round)' = {Current.attempt}
           /\ \A r \in Rounds \ {round} : OwnCompleted(r)' = OwnCompleted(r)
  <2>1. campaignFile = "running" /\ campaignFile' = "running" /\ round' = round /\ round \in Rounds
    BY <1>2 DEF FinishRun, IndInv, ProcessOK, TypeOK
  <2>2. AcceptedRun(round) = 0
    BY <1>2 DEF AcceptedRun, TheRun
  <2>3. \A r \in Rounds : r # round => AcceptedRun(r)' = AcceptedRun(r)
    BY <1>2 DEF AcceptedRun
  <2>4. \A r \in Rounds : r = round => OwnCompleted(r)' = {Current.attempt}
    BY <1>2, <2>1 DEF OwnCompleted
  <2>5. \A r \in Rounds : r = round => AcceptedRun(r)' = Current.attempt
    BY <2>4 DEF AcceptedRun, TheRun
  <2> QED BY <1>2, <2>1, <2>2, <2>3, <2>5
<1> QED BY <1>1, <1>2, Completions

\* Every behaviour of the command, killed and resumed at any point, is a behaviour of
\* the ledger: a round accepts one run for good, and the campaign is complete only
\* while all rounds have accepted one.
THEOREM Refinement == Spec => ImplementsLedger
<1>1. Init => Ledger!LedgerInit
  <2> SUFFICES ASSUME Init PROVE Ledger!LedgerInit
    OBVIOUS
  <2>1. \A r \in Rounds : AcceptedRun(r) = 0
    BY DEF Init, AcceptedRun, TheRun, OwnCompleted, RunIds
  <2> QED BY <2>1 DEF Init, Ledger!LedgerInit
<1>2. IndInv /\ CompletedMeansAllRounds' /\ [Next]_vars => [Ledger!LedgerNext]_(Ledger!ledgerVars)
  <2> SUFFICES ASSUME IndInv, CompletedMeansAllRounds', [Next]_vars
               PROVE  [Ledger!LedgerNext]_(Ledger!ledgerVars)
    OBVIOUS
  <2> DEFINE acc == [r \in Rounds |-> AcceptedRun(r)]
             stat == IF campaignFile = "completed" THEN "complete" ELSE "open"
  <2>1. CASE \A r \in Rounds : AcceptedRun(r)' = AcceptedRun(r)
    <3>1. acc' = acc
      BY <2>1
    <3>2. CASE stat' = stat
      BY <3>1, <3>2 DEF Ledger!ledgerVars
    <3>3. CASE stat' # stat /\ campaignFile' = "completed"
      <4>1. \A r \in Rounds : OwnCompleted(r)' # {}
        BY <3>3 DEF CompletedMeansAllRounds
      <4>2. \A r \in Rounds : AcceptedRun(r)' # 0
        <5> SUFFICES ASSUME NEW r \in Rounds PROVE AcceptedRun(r)' # 0
          OBVIOUS
        <5>1. AcceptedRun(r)' \in OwnCompleted(r)'
          BY <4>1 DEF AcceptedRun, TheRun
        <5>2. AcceptedRun(r)' \in Attempts
          BY <5>1 DEF OwnCompleted
        <5> QED BY <5>2 DEF Attempts
      <4>3. \A r \in Rounds : acc[r] # 0
        BY <2>1, <4>2
      <4>4. Ledger!Close
        BY <3>1, <3>3, <4>3 DEF Ledger!Close
      <4> QED BY <4>4 DEF Ledger!LedgerNext
    <3>4. CASE stat' # stat /\ campaignFile' # "completed"
      <4>1. Ledger!Reopen
        BY <3>1, <3>4 DEF Ledger!Reopen
      <4> QED BY <4>1 DEF Ledger!LedgerNext
    <3> QED BY <3>2, <3>3, <3>4
  <2>2. CASE /\ campaignFile = "running" /\ campaignFile' = "running"
             /\ round \in Rounds
             /\ Current.attempt \in Attempts
             /\ AcceptedRun(round) = 0
             /\ \A r \in Rounds :
                  AcceptedRun(r)' = IF r = round THEN Current.attempt ELSE AcceptedRun(r)
    <3>1. acc' = [acc EXCEPT ![round] = Current.attempt]
      BY <2>2
    <3>2. stat = "open" /\ stat' = "open" /\ acc[round] = 0
      BY <2>2
    <3>3. Ledger!Accept(round, Current.attempt)
      BY <3>1, <3>2 DEF Ledger!Accept
    <3> QED BY <2>2, <3>3 DEF Ledger!LedgerNext
  <2> QED BY <2>1, <2>2, LedgerMoves
<1>3. PublishedTrue => CompletedMeansAllRounds
  BY DEF PublishedTrue
<1>4. Spec => []CompletedMeansAllRounds
  BY <1>3, PublishedBacked, PTL
<1> QED BY <1>1, <1>2, <1>4, Invariance, PTL DEF Spec, ImplementsLedger, Ledger!LedgerSpec
=============================================================================
