------------------------------ MODULE Campaign ------------------------------
(***************************************************************************)
(* One evaluation campaign: `eval_cli.py campaign`, its --resume, and the  *)
(* files both work on (campaign.json, run_ids.json, summary.json and each  *)
(* child run's state.json).                                                *)
(*                                                                         *)
(* One invocation runs at a time and may be killed at every point: between *)
(* two writes, or in the middle of one.  write_json truncates the file and *)
(* then writes it, so a kill in the middle leaves a file no later read can *)
(* parse ("torn").  A child run is kept to what the campaign sees of it:   *)
(* its directory, the status in its state.json, whether its scores can be  *)
(* read, and whether run_job returned or raised.  Timestamps, ids and      *)
(* metrics are left out.                                                   *)
(***************************************************************************)
EXTENDS Naturals, Sequences

CONSTANTS Repeat,        \* --repeat: the number of rounds
          MaxAttempt,    \* bound: the largest attempt number of a round
          MaxStarts,     \* bound: invocations of the command, resumes included
          ForeignRuns    \* run directories there before the campaign, by <<round, attempt>>

Rounds == 1 .. Repeat
Attempts == 1 .. MaxAttempt
RunIds == Rounds \X Attempts

ASSUME CampaignAssumption ==
  /\ Repeat \in Nat \ {0}
  /\ MaxAttempt \in Nat
  /\ MaxStarts \in Nat
  /\ ForeignRuns \subseteq RunIds

VARIABLES
  \* on disk
  campaignFile,  \* campaign.json: its status, "none" (no directory), "dir" (directory only) or "torn"
  indexFile,     \* run_ids.json: whether it can be read, and its list of run references
  summaryFile,   \* summary.json: its status and child runs
  runs,          \* runs[id]: what a run directory holds
  \* the invocation that is running, if any
  pc, round, refs, exitCode,
  \* the operator
  starts,        \* invocations so far
  exited         \* how the last invocation ended

disk == <<campaignFile, indexFile, summaryFile, runs>>
process == <<pc, round, refs, exitCode>>
vars == <<disk, process, starts, exited>>

FinalStates == {"completed", "partial"}
\* "cut": state.json says "running" beside a benchmark_scores.json that was torn
RunStates == {"absent", "empty", "running", "torn", "cut"} \cup FinalStates
RefStatuses == {"running", "replaced", "failed"} \cup FinalStates
CampaignStatuses == {"running", "failed"} \cup FinalStates
Refs == [round : Rounds, attempt : Attempts, status : RefStatuses]
Summarizing == {"summarizeOpened", "summarizeResult", "summarizeEnd"}
ReadableCampaign == CampaignStatuses

Id(ref) == <<ref.round, ref.attempt>>
IsActive(ref) == ref.status # "replaced"

\* active_run_refs, and those of one round
ActiveRefs(rs) == {i \in DOMAIN rs : IsActive(rs[i])}
ActiveOf(rs, r) == {i \in ActiveRefs(rs) : rs[i].round = r}

\* latest_active_run_ref: the last active reference of the round, if there is one
LatestActive(rs, r) == {i \in ActiveOf(rs, r) : \A j \in ActiveOf(rs, r) : j <= i}

\* Slip: trust run_ids.json alone, though a kill may have come before it was updated.
RunStatusFromRef(ref) == ref.status

\* The status state.json gives a run, or the reference's own when there is no state.json.
RunStatus(ref) ==
  IF runs[Id(ref)] \in {"absent", "empty"} THEN ref.status
  ELSE IF runs[Id(ref)] = "cut" THEN "running"
  ELSE runs[Id(ref)]

\* run_ref_completed
RefCompleted(ref) == RunStatus(ref) = "completed"

\* next_campaign_run_id: past every attempt of the round, and past existing directories
Unused(rs, r, a) ==
  /\ \A i \in DOMAIN rs : rs[i].round = r => rs[i].attempt < a
  /\ runs[<<r, a>>] = "absent"

IsNextAttempt(rs, r, a) ==
  /\ Unused(rs, r, a)
  /\ \A b \in Attempts : Unused(rs, r, b) => a <= b

\* Slips: leave the old reference active, or take it out of the list.
MarkNone(rs, S) == rs
DropReplaced(rs, S) == SelectSeq(rs, LAMBDA ref : \A i \in S : rs[i] # ref)

\* run_campaign marks the reference it is about to rerun
MarkReplaced(rs, S) ==
  [i \in DOMAIN rs |-> IF i \in S THEN [rs[i] EXCEPT !.status = "replaced"] ELSE rs[i]]

\* summarize_campaign's list of child runs: the references that were not replaced
Children(rs) ==
  {[round |-> rs[i].round, attempt |-> rs[i].attempt, status |-> RunStatus(rs[i])] :
     i \in ActiveRefs(rs)}

\* Slip: judge the children alone, without the status of campaign.json.
SummaryStatusOfChildren(campaign, children) ==
  IF children # {} /\ \A c \in children : c.status = "completed" THEN "completed" ELSE "partial"

\* summarize_campaign's status
SummaryStatus(campaign, children) ==
  IF campaign \in {"running", "failed", "partial"} THEN campaign
  ELSE IF children # {} /\ \A c \in children : c.status = "completed" THEN "completed"
  ELSE "partial"

Summary ==
  [status |-> SummaryStatus(campaignFile, Children(indexFile.refs)),
   children |-> Children(indexFile.refs)]

NoSummary == [status |-> "none", children |-> {}]
TornSummary == [status |-> "torn", children |-> {}]
TornIndex == [state |-> "torn", refs |-> <<>>]

\* The run the invocation is working on: the reference it appended last
Current == refs[Len(refs)]
CurrentId == Id(Current)

\* A round is judged by the state.json of its latest run alone.
LatestUnreadable == \E i \in LatestActive(refs, round) : runs[Id(refs[i])] = "torn"

\* summarize_campaign reads the state.json and the benchmark_scores.json of every child.
ChildUnreadable ==
  \E i \in ActiveRefs(indexFile.refs) : runs[Id(indexFile.refs[i])] \in {"torn", "cut"}

ReadFails ==
  \/ pc = "round" /\ LatestUnreadable
  \/ pc \in Summarizing /\ ChildUnreadable

-----------------------------------------------------------------------------
Init ==
  /\ campaignFile = "none"
  /\ indexFile = [state |-> "absent", refs |-> <<>>]
  /\ summaryFile = NoSummary
  /\ \E left \in [ForeignRuns -> {"empty", "running"} \cup FinalStates] :
       runs = [id \in RunIds |-> IF id \in ForeignRuns THEN left[id] ELSE "absent"]
  /\ pc = "idle"
  /\ round = 1
  /\ refs = <<>>
  /\ exitCode = 0
  /\ starts = 0
  /\ exited = "never"

Goto(label) == pc' = label

\* The process is gone, and what it had in memory with it.
Stop(how) ==
  /\ pc' = "idle"
  /\ refs' = <<>>
  /\ exitCode' = 0
  /\ round' = 1
  /\ exited' = how
  /\ UNCHANGED starts

\* run_campaign: mkdir(exist_ok=False), so a campaign id is created once
StartCreate ==
  /\ pc = "idle"
  /\ starts < MaxStarts
  /\ campaignFile = "none"
  /\ campaignFile' = "dir"
  /\ starts' = starts + 1
  /\ Goto("writeCampaign")
  /\ UNCHANGED <<indexFile, summaryFile, runs, round, refs, exitCode, exited>>

\* run_campaign --resume: load_campaign and load_run_index must be able to read;
\* run_ids.json may be missing
StartResume ==
  /\ pc = "idle"
  /\ starts < MaxStarts
  /\ campaignFile \in ReadableCampaign
  /\ indexFile.state # "torn"
  /\ refs' = indexFile.refs
  /\ starts' = starts + 1
  /\ Goto("writeCampaign")
  /\ UNCHANGED <<disk, round, exitCode, exited>>

WriteCampaign ==
  /\ pc = "writeCampaign"
  /\ campaignFile' = "running"
  /\ Goto("writeIndex")
  /\ UNCHANGED <<indexFile, summaryFile, runs, round, refs, exitCode, starts, exited>>

\* write_campaign_json of run_ids.json from the list in memory
SaveIndex(at, next) ==
  /\ pc = at
  /\ indexFile' = [state |-> "ok", refs |-> refs]
  /\ Goto(next)
  /\ UNCHANGED <<campaignFile, summaryFile, runs, round, refs, exitCode, starts, exited>>

\* Slip: repeat a round until it completes.
NextRoundRetrying ==
  IF round = Repeat /\ \E i \in LatestActive(refs, round) : RefCompleted(refs[i])
  THEN Goto("finish") /\ UNCHANGED round
  ELSE Goto("round") /\ round' = IF \E i \in LatestActive(refs, round) : RefCompleted(refs[i])
                                 THEN round + 1 ELSE round

\* The loop goes on with the next round, or on to its end.
NextRound ==
  IF round < Repeat
  THEN Goto("round") /\ round' = round + 1
  ELSE Goto("finish") /\ UNCHANGED round

SkipRound ==
  /\ pc = "round"
  /\ ~ ReadFails
  /\ \E i \in LatestActive(refs, round) : RefCompleted(refs[i])
  /\ NextRound
  /\ UNCHANGED <<disk, refs, exitCode, starts, exited>>

\* Slip: rerun the round in the directory it already has.
OpenRoundInPlace ==
  /\ pc = "round"
  /\ \A i \in LatestActive(refs, round) : ~ RefCompleted(refs[i])
  /\ \/ /\ LatestActive(refs, round) # {}
        /\ Goto("writeRunning")
        /\ UNCHANGED refs
     \/ /\ LatestActive(refs, round) = {}
        /\ Goto("saveRef")
        /\ \E a \in Attempts :
             /\ IsNextAttempt(refs, round, a)
             /\ refs' = Append(refs, [round |-> round, attempt |-> a, status |-> "running"])
  /\ UNCHANGED <<disk, round, exitCode, starts, exited>>

\* The round has no completed run: its latest reference is replaced by a new attempt.
OpenRound ==
  /\ pc = "round"
  /\ ~ ReadFails
  /\ \A i \in LatestActive(refs, round) : ~ RefCompleted(refs[i])
  /\ LET marked == MarkReplaced(refs, LatestActive(refs, round)) IN
       \E a \in Attempts :
         /\ IsNextAttempt(marked, round, a)
         /\ refs' = Append(marked, [round |-> round, attempt |-> a, status |-> "running"])
  /\ Goto("saveRef")
  /\ UNCHANGED <<disk, round, exitCode, starts, exited>>

\* run_job: run_dir.mkdir(exist_ok=False)
MakeRunDir ==
  /\ pc = "makeRunDir"
  /\ runs[CurrentId] = "absent"
  /\ runs' = [runs EXCEPT ![CurrentId] = "empty"]
  /\ Goto("writeRunning")
  /\ UNCHANGED <<campaignFile, indexFile, summaryFile, round, refs, exitCode, starts, exited>>

\* run_job: the first write_state
WriteRunning ==
  /\ pc = "writeRunning"
  /\ runs' = [runs EXCEPT ![CurrentId] = "running"]
  /\ Goto("execute")
  /\ UNCHANGED <<campaignFile, indexFile, summaryFile, round, refs, exitCode, starts, exited>>

\* run_job: the last write_state, "partial" when a record, the trace evaluation
\* or the quality gate had an error
FinishRun ==
  /\ pc = "execute"
  /\ \E status \in FinalStates : runs' = [runs EXCEPT ![CurrentId] = status]
  /\ Goto("returned")
  /\ UNCHANGED <<campaignFile, indexFile, summaryFile, round, refs, exitCode, starts, exited>>

\* run_job returned: its status goes from state.json into the reference
RecordRun ==
  /\ pc = "returned"
  /\ refs' = [refs EXCEPT ![Len(refs)].status = runs[CurrentId]]
  /\ Goto("saveResult")
  /\ UNCHANGED <<disk, round, exitCode, starts, exited>>

\* run_job raised, at any of its steps: the reference fails and the campaign stops
RunRaises ==
  /\ pc \in {"makeRunDir", "writeRunning", "execute", "returned"}
  /\ refs' = [refs EXCEPT ![Len(refs)].status = "failed"]
  /\ exitCode' = 1
  /\ Goto("saveResult")
  /\ UNCHANGED <<disk, round, starts, exited>>

\* summarize_campaign, at the three places run_campaign calls it
Summarize(at) ==
  /\ pc = at
  /\ ~ ReadFails
  /\ summaryFile' = Summary
  /\ UNCHANGED <<campaignFile, indexFile, runs, starts>>

SummarizeOpened ==
  /\ Summarize("summarizeOpened")
  /\ Goto("makeRunDir")
  /\ UNCHANGED <<round, refs, exitCode, exited>>

SummarizeResult ==
  /\ Summarize("summarizeResult")
  /\ IF exitCode = 0 THEN NextRound ELSE Goto("finish") /\ UNCHANGED round
  /\ UNCHANGED <<refs, exitCode, exited>>

SummarizeEnd ==
  /\ Summarize("summarizeEnd")
  /\ Stop("clean")

\* Slip: a loop that was not broken off counts as completed.
FinalStatusOfExit == IF exitCode # 0 THEN "failed" ELSE "completed"

\* The status run_campaign leaves in campaign.json
FinalStatus ==
  IF exitCode # 0 THEN "failed"
  ELSE IF ActiveRefs(refs) # {} /\ \A i \in ActiveRefs(refs) : RefCompleted(refs[i])
       THEN "completed"
  ELSE "partial"

Finish ==
  /\ pc = "finish"
  /\ campaignFile' = FinalStatus
  /\ Goto("summarizeEnd")
  /\ UNCHANGED <<indexFile, summaryFile, runs, round, refs, exitCode, starts, exited>>

\* read_json raises on a torn state.json or benchmark_scores.json, and nothing in
\* run_campaign catches it
Unreadable ==
  /\ ReadFails
  /\ Stop("unreadable")
  /\ UNCHANGED disk

\* The process is killed between two writes.
Crash ==
  /\ pc # "idle"
  /\ Stop("crashed")
  /\ UNCHANGED disk

\* The process is killed in the middle of a write.
TearCampaign ==
  /\ pc \in {"writeCampaign", "finish"}
  /\ campaignFile' = "torn"
  /\ Stop("crashed")
  /\ UNCHANGED <<indexFile, summaryFile, runs>>

TearIndex ==
  /\ pc \in {"writeIndex", "saveRef", "saveResult"}
  /\ indexFile' = TornIndex
  /\ Stop("crashed")
  /\ UNCHANGED <<campaignFile, summaryFile, runs>>

TearSummary ==
  /\ pc \in Summarizing
  /\ summaryFile' = TornSummary
  /\ Stop("crashed")
  /\ UNCHANGED <<campaignFile, indexFile, runs>>

TearState ==
  /\ pc \in {"writeRunning", "execute"}
  /\ runs' = [runs EXCEPT ![CurrentId] = "torn"]
  /\ Stop("crashed")
  /\ UNCHANGED <<campaignFile, indexFile, summaryFile>>

\* benchmark_scores.json is written while state.json still says "running".
TearScores ==
  /\ pc = "execute"
  /\ runs' = [runs EXCEPT ![CurrentId] = "cut"]
  /\ Stop("crashed")
  /\ UNCHANGED <<campaignFile, indexFile, summaryFile>>

\* campaign-export and authenticity summarize again while no invocation runs
Resummarize ==
  /\ pc = "idle"
  /\ campaignFile \in ReadableCampaign
  /\ indexFile.state # "torn"
  /\ ~ ChildUnreadable
  /\ summaryFile' = Summary
  /\ UNCHANGED <<campaignFile, indexFile, runs, process, starts, exited>>

Step ==
  \/ WriteCampaign
  \/ SaveIndex("writeIndex", "round")
  \/ SkipRound
  \/ OpenRound
  \/ SaveIndex("saveRef", "summarizeOpened")
  \/ SummarizeOpened
  \/ MakeRunDir
  \/ WriteRunning
  \/ FinishRun
  \/ RecordRun
  \/ RunRaises
  \/ SaveIndex("saveResult", "summarizeResult")
  \/ SummarizeResult
  \/ Finish
  \/ SummarizeEnd
  \/ Unreadable

Fault == Crash \/ TearCampaign \/ TearIndex \/ TearSummary \/ TearState \/ TearScores

Next == StartCreate \/ StartResume \/ Resummarize \/ Step \/ Fault

\* A started invocation goes on until it ends or is killed; nobody has to start one.
Fairness == WF_vars(Step)

Spec == Init /\ [][Next]_vars
FairSpec == Spec /\ Fairness
-----------------------------------------------------------------------------
TypeOK ==
  /\ campaignFile \in {"none", "dir", "torn"} \cup CampaignStatuses
  /\ indexFile \in [state : {"absent", "ok", "torn"}, refs : Seq(Refs)]
  /\ summaryFile \in [status : {"none", "torn"} \cup CampaignStatuses,
                      children : SUBSET [round : Rounds, attempt : Attempts,
                                         status : RunStates \cup RefStatuses]]
  /\ runs \in [RunIds -> RunStates]
  /\ pc \in {"idle", "writeCampaign", "writeIndex", "round", "saveRef", "makeRunDir",
             "writeRunning", "execute", "returned", "saveResult", "finish"} \cup Summarizing
  /\ round \in Rounds
  /\ refs \in Seq(Refs)
  /\ exitCode \in {0, 1}
  /\ starts \in 0 .. MaxStarts
  /\ exited \in {"never", "clean", "crashed", "unreadable"}

Lists == {refs, indexFile.refs}

\* Whatever crashes and resumes happened, a round has at most one reference that
\* counts: two would enter the campaign's averages twice (run_campaign, summarize_campaign).
OneActivePerRound ==
  \A rs \in Lists : \A i, j \in ActiveRefs(rs) : rs[i].round = rs[j].round => i = j

\* Attempt numbers of a round grow along the list, so no run directory is named
\* twice (next_campaign_run_id).
AttemptsIncrease ==
  \A rs \in Lists : \A i, j \in DOMAIN rs :
    i < j /\ rs[i].round = rs[j].round => rs[i].attempt < rs[j].attempt

\* A reference marked "replaced" never names a completed run: finished, paid-for
\* work is kept even when the crash came before the index learned of it.
CompletedNotReplaced ==
  \A rs \in Lists : \A i \in DOMAIN rs :
    rs[i].status = "replaced" => runs[Id(rs[i])] # "completed"

\* The campaign never counts a run directory that was there before it: the
\* references name only its own runs (next_campaign_run_id skips directories).
NamesOwnRuns == \A rs \in Lists : \A i \in DOMAIN rs : Id(rs[i]) \notin ForeignRuns

\* A list of references, in memory or in run_ids.json, that averages can be taken
\* over: one run a round, every run once, and only the campaign's own.
ListsSound == OneActivePerRound /\ AttemptsIncrease /\ NamesOwnRuns

OwnCompleted(r) == {a \in Attempts : <<r, a>> \notin ForeignRuns /\ runs[<<r, a>>] = "completed"}

\* No round is run to completion twice.
OneCompletedRun == \A r \in Rounds : \A a, b \in OwnCompleted(r) : a = b

\* A round that was finished stays finished, by the one run that finished it,
\* wherever the kill came that kept run_ids.json from saying so.
FinishedOnce == CompletedNotReplaced /\ OneCompletedRun

\* A campaign.json that says "completed" is backed by a completed run of every round.
CompletedMeansAllRounds ==
  campaignFile = "completed" => \A r \in Rounds : OwnCompleted(r) # {}

\* A summary.json that says "completed", the one the leaderboard ranks, shows one
\* completed child of every round, also when it is older than the last crash or resume.
SummaryBacked ==
  summaryFile.status = "completed" =>
    \A r \in Rounds :
      /\ \E c \in summaryFile.children :
           c.round = r /\ c.attempt \in OwnCompleted(r) /\ c.status = "completed"
      /\ \A c, d \in summaryFile.children : c.round = r /\ d.round = r => c = d

\* When the command ends by itself, campaign.json and summary.json agree.
CleanExitAgrees ==
  pc = "idle" /\ exited = "clean" => summaryFile.status = campaignFile

\* Whoever reads "completed", in campaign.json or in summary.json, can count on a
\* completed run of every round, and the two agree unless the command was cut short.
PublishedTrue == CompletedMeansAllRounds /\ SummaryBacked /\ CleanExitAgrees

\* "Resume does not overwrite old child runs": a run directory is changed only by
\* the invocation that made it, and a final state.json is never written again.
RunsNotOverwritten ==
  [][\A id \in RunIds :
       runs'[id] # runs[id] =>
         /\ runs[id] \notin FinalStates \cup {"torn", "cut"}
         /\ id \notin ForeignRuns
         /\ refs # <<>> /\ id = CurrentId]_vars

\* A reference once saved keeps its place in run_ids.json for good, except when
\* the file is torn: the history of attempts is never rewritten.
HistoryKept ==
  [][indexFile'.state # "torn" =>
       /\ Len(indexFile.refs) <= Len(indexFile'.refs)
       /\ \A i \in DOMAIN indexFile.refs :
            /\ Id(indexFile'.refs[i]) = Id(indexFile.refs[i])
            /\ IsActive(indexFile'.refs[i]) => IsActive(indexFile.refs[i])]_vars

\* An invocation ends, and unless it was cut short campaign.json no longer says "running".
Settles ==
  pc # "idle" ~>
    pc = "idle" /\ (exited # "clean" \/ campaignFile \in {"completed", "partial", "failed"})

\* The README says of --resume that "incomplete rounds are rerun with a new attempt
\* id": no resume gives up on a round because it cannot read what is left of it.
IncompleteRoundsRerun == exited # "unreadable"

-----------------------------------------------------------------------------
\* What the campaign promises, as a ledger of accepted runs.
TheRun(attempts) == IF attempts = {} THEN 0 ELSE CHOOSE a \in attempts : TRUE
AcceptedRun(r) == TheRun(OwnCompleted(r))

Ledger == INSTANCE CampaignLedger WITH
            accepted <- [r \in Rounds |-> AcceptedRun(r)],
            status <- IF campaignFile = "completed" THEN "complete" ELSE "open"

\* Every step of the command is a step of the ledger: runs are accepted once, and
\* the campaign is complete only while every round has one.
ImplementsLedger == Ledger!LedgerSpec
=============================================================================
