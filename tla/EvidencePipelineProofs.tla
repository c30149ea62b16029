----------------------- MODULE EvidencePipelineProofs -----------------------
(***************************************************************************)
(* What holds of the evidence about a run for any number of rescorings,    *)
(* trace evaluations, gates, exports and clerks at work at the same time,  *)
(* wherever each of them is stopped or dies.                               *)
(*                                                                         *)
(* The argument rests on the manifests: a directory whose manifest is      *)
(* whole does not change any more, and whoever finds evidence finds it by  *)
(* a whole manifest.  So what a gate or an export has read stays true.     *)
(***************************************************************************)
EXTENDS EvidencePipeline, FiniteSetTheorems, TLAPS

\* A mark says what became of the record it stands for.
MarkFits(e, i, marked) ==
  /\ e \in Rescores => /\ marked \in {"scored", "judge_failed", "unscored"}
                       /\ (marked # "unscored") = run.records[i].scorable
  /\ e \in TraceEvals => marked = EvaluateSource(run.records[i])

\* A worker that produces evidence, and its directory
EvidenceFits(e) ==
  /\ Len(evidence[e].marks) <= Length
  /\ \A i \in 1 .. Len(evidence[e].marks) : MarkFits(e, i, evidence[e].marks[i])
  /\ evidence[e].pc \in {"manifest", "done"} => evidence[e].stopped \/ Len(evidence[e].marks) = Length
  /\ evidence[e].manifest = "whole" <=> evidence[e].pc = "done"

\* What a gate has read is what whole evidence says.
ReadWhole(had, kind, wanted) ==
  /\ had.id \in kind \cup {None}
  /\ had.found <=> had.id # None
  /\ had.found => /\ evidence[had.id].manifest = "whole"
                  /\ had.marks = evidence[had.id].marks /\ had.stopped = evidence[had.id].stopped
  /\ wanted # None => had.id \in {wanted, None}

\* A gate, its evidence, and its directory
GateFits(g) ==
  /\ ReadWhole(gate[g].rescore, Rescores, gate[g].request.rescore)
  /\ ReadWhole(gate[g].trace, TraceEvals, gate[g].request.trace)
  /\ gate[g].pc \in {"idle", "rescore"} => gate[g].rescore = NothingRead
  /\ gate[g].pc \in {"idle", "rescore", "compat", "trace"} => gate[g].trace = NothingRead
  /\ gate[g].pc \in {"idle", "rescore", "compat"} => ~gate[g].compat
  /\ gate[g].pc \in {"idle", "rescore", "compat", "trace", "decide"} => gate[g].decision = None
  /\ gate[g].decision = "GO" => \E stale \in BOOLEAN : Decide(GateEvidence(g, stale)) = "GO"
  /\ gate[g].manifest = "whole" <=> gate[g].pc = "done"

\* What an export has bound is what its gate decided on, or it says what is missing.
FollowsGate(x) ==
  LET g == export[x].gate
      decidedOn == {gate[g].trace.id} \cup (IF gate[g].compat THEN {Compat} ELSE {})
      rescored  == {gate[g].rescore.id}
      named     == {export[x].request.rescore} \ {None}
  IN /\ gate[g].manifest = "whole"
     /\ export[x].bound \subseteq decidedOn \cup (IF named = {} THEN rescored ELSE named)
     /\ TraceEvals \cap decidedOn \subseteq export[x].bound \/ "trace" \in export[x].warned
     /\ Compat \in export[x].bound \/ "compat" \in export[x].warned
     /\ (Rescores \cap (IF named = {} THEN rescored ELSE named)) \subseteq export[x].bound
        \/ "rescore" \in export[x].warned

\* An export, the evidence it has bound, and the files that seal it
ExportFits(x) ==
  /\ export[x].pc \in {"idle", "started"} => export[x].gate = None
  /\ export[x].pc \in {"idle", "started", "binding"} => export[x].bound = {} /\ export[x].manifest = "none"
  /\ \A e \in export[x].bound : ManifestOf(e) = "whole"
  /\ export[x].gate # None => gate[export[x].gate].manifest = "whole"
  /\ export[x].gate # None
     /\ (export[x].pc \in {"copied", "completing", "sealing", "sums"} \/ export[x].manifest = "completed")
     => FollowsGate(x)
  /\ export[x].pc \notin {"sums", "done", "dead"} => export[x].sums = "none"
  /\ export[x].pc = "sums" => export[x].sums = "torn"
  /\ export[x].pc = "dead" => export[x].sums \in {"none", "torn"}
  /\ export[x].pc \in {"sealing", "sums"} => export[x].manifest = "completed"
  /\ export[x].pc = "done" => \/ export[x].manifest = "completed" /\ export[x].sums = "completed"
                              \/ export[x].manifest = "stopped" /\ export[x].sums = "none"

\* As long as no two calls to the registry have overlapped, the call under way has
\* read the registry that is there, and what is put away is archived in it.
RegistryInStep ==
  /\ raced => settled = {}
  /\ ~raced => \A c, d \in Clerks : clerk[c].pc # "idle" /\ clerk[d].pc # "idle" => c = d
  /\ ~raced => \A c \in Clerks : clerk[c].pc # "idle" =>
                 clerk[c].read = registry /\ (clerk[c].restoring => clerk[c].id \notin settled)
  /\ \A c \in Clerks : clerk[c].pc # "idle" => clerk[c].id \in Archivable /\ clerk[c].read \in Registries
  /\ \A e \in settled : registry[e] = "archived"

EvidenceInStep == \A e \in Evidence : EvidenceFits(e)
GatesInStep == \A g \in Gates : GateFits(g)
ExportsInStep == \A x \in Exports : ExportFits(x)

\* The inductive invariant
PipelineInv ==
  TypeOK /\ EvidenceInStep /\ GatesInStep /\ ExportsInStep /\ RegistryInStep

\* A directory whose manifest is whole does not change any more.
WholeEvidenceStays ==
  \A e \in Evidence : evidence[e].manifest = "whole" => evidence'[e] = evidence[e]
WholeGatesStay ==
  \A g \in Gates : gate[g].manifest = "whole" => gate'[g] = gate[g]

-----------------------------------------------------------------------------
(* Finding evidence                                                        *)

\* A set of positions of a list has a last one.
LEMMA LastPosition ==
  ASSUME NEW n \in Nat, NEW S \in SUBSET (1 .. n), S # {}
  PROVE  Max(S) \in S
<1> DEFINE T == {m \in Nat : n - m \in S}
<1>1. PICK x \in T : \A y \in T : ~ (<<y, x>> \in OpToRel(<, Nat))
  <2>1. T \subseteq Nat
    OBVIOUS
  <2>2. PICK i \in S : TRUE
    OBVIOUS
  <2>3. n - i \in Nat /\ n - (n - i) = i
    OBVIOUS
  <2>4. n - i \in T
    BY <2>2, <2>3
  <2> HIDE DEF T
  <2> QED
    BY <2>1, <2>4, NatLessThanWellFounded, WFMin
<1>2. \A y \in T : ~ (y < x)
  <2>1. T \subseteq Nat
    OBVIOUS
  <2> HIDE DEF T
  <2> QED
    BY <1>1, <2>1 DEF OpToRel
<1>3. x \in Nat /\ n - x \in S
  OBVIOUS
<1>4. \A j \in S : n - x >= j
  <2> SUFFICES ASSUME NEW j \in S PROVE n - x >= j
    OBVIOUS
  <2>1. n - j \in Nat /\ n - (n - j) = j
    OBVIOUS
  <2>2. ~ (n - j < x)
    BY <1>2, <2>1
  <2> QED
    BY <2>1, <2>2, <1>3
<1> QED
  BY <1>3, <1>4 DEF Max

\* What select_manifest_dir finds can be read, and without an id it is not archived.
LEMMA SelectedCanBeRead ==
  ASSUME TypeOK, NEW kind, NEW wanted \in kind \cup {None}, None \notin kind
  PROVE  LET e == Select(kind, wanted)
         IN /\ e \in kind \cup {None}
            /\ e # None => Readable(e)
            /\ wanted # None => e \in {wanted, None}
            /\ wanted = None /\ e # None => ~Archived(e)
<1>1. CASE wanted # None
  BY <1>1 DEF Select
<1>2. CASE wanted = None
  <2> DEFINE listed == {i \in DOMAIN newest :
                          newest[i] \in kind /\ Readable(newest[i]) /\ ~Archived(newest[i])}
  <2>1. Select(kind, wanted) = IF listed = {} THEN None ELSE newest[Max(listed)]
    BY <1>2 DEF Select, SelectNewest
  <2>2. CASE listed = {}
    BY <1>2, <2>1, <2>2
  <2>3. CASE listed # {}
    <3>1. listed \in SUBSET (1 .. Len(newest)) /\ Len(newest) \in Nat
      BY DEF TypeOK
    <3>2. Max(listed) \in listed
      <4> HIDE DEF listed
      <4> QED BY <2>3, <3>1, LastPosition
    <3> QED
      BY <1>2, <2>1, <2>3, <3>2
  <2> QED
    BY <2>2, <2>3
<1> QED
  BY <1>1, <1>2
\* The names of the workers tell their kinds apart.
LEMMA Names ==
  /\ Rescores \cap TraceEvals = {} /\ Evidence \cap Gates = {} /\ Evidence \cap Exports = {}
  /\ Gates \cap Exports = {} /\ Evidence = Rescores \cup TraceEvals
  /\ None \notin Evidence /\ None \notin Gates /\ None # Compat
  /\ Compat \notin Evidence /\ Compat \notin Gates
  /\ Archivable \subseteq Evidence \cup Gates \cup {Compat} /\ None \notin Archivable
  /\ None \notin Decisions
BY NamesDistinct DEF Evidence, Workers

LEMMA Manifests ==
  /\ \A e \in Evidence : ManifestOf(e) = evidence[e].manifest
  /\ \A g \in Gates : ManifestOf(g) = gate[g].manifest
  /\ ManifestOf(Compat) = "whole"
BY Names DEF ManifestOf

LEMMA RunTyped ==
  ASSUME TypeOK
  PROVE  run.records \in Seq(RecordsOfRun) /\ Length \in Nat
<1>1. runId \in DOMAIN Runs
  BY DEF TypeOK
<1>2. Runs[runId].records \in Seq(RecordsOfRun)
  BY <1>1, RunsAssumption
<1> QED
  BY <1>2 DEF run, Length

LEMMA Graded == \A r : EvaluateSource(r) \in {"PASS", "WARN", "FAIL"}
BY DEF EvaluateSource, WorstStatus

-----------------------------------------------------------------------------
(* The steps of a worker that produces evidence                            *)

\* What a record adds to a directory that is not finished keeps it in step.
LEMMA RecordTaken ==
  ASSUME TypeOK, EvidenceInStep, NEW e \in Evidence, NEW marked \in Marks,
         TakeRecord(e, marked), MarkFits(e, Len(evidence[e].marks) + 1, marked)
  PROVE  TypeOK' /\ EvidenceInStep' /\ WholeEvidenceStays
<1> DEFINE new == [evidence[e] EXCEPT !.marks = Append(@, marked)]
<1>1. evidence[e] \in EvidenceRecord
  BY DEF TypeOK
<1>2. evidence' = [evidence EXCEPT ![e] = new]
  BY DEF TakeRecord, TypeOK
<1>3. /\ new.marks = Append(evidence[e].marks, marked) /\ new.pc = evidence[e].pc
      /\ new.stopped = evidence[e].stopped /\ new.manifest = evidence[e].manifest
      /\ new \in EvidenceRecord
  BY <1>1 DEF EvidenceRecord
<1> HIDE DEF new
<1>4. evidence'[e] = new /\ \A d \in Evidence : d # e => evidence'[d] = evidence[d]
  BY <1>2 DEF TypeOK
<1>5. TypeOK'
  <2>1. evidence' \in [Evidence -> EvidenceRecord]
    BY <1>2, <1>3 DEF TypeOK
  <2> QED
    BY <2>1 DEF TypeOK, TakeRecord
<1>6. Length' = Length /\ Length \in Nat /\ run' = run
  BY RunTyped DEF TakeRecord, Length, run
<1>7. ASSUME NEW d \in Evidence, d # e PROVE EvidenceFits(d)'
  BY <1>4, <1>6, <1>7 DEF EvidenceInStep, EvidenceFits, MarkFits
<1>8. EvidenceFits(e)'
  <2>1. /\ new.marks \in Seq(Marks) /\ Len(new.marks) = Len(evidence[e].marks) + 1
        /\ \A i \in 1 .. Len(evidence[e].marks) : new.marks[i] = evidence[e].marks[i]
        /\ new.marks[Len(evidence[e].marks) + 1] = marked
        /\ Len(evidence[e].marks) \in Nat
    BY <1>1, <1>3 DEF EvidenceRecord
  <2>2. Len(evidence[e].marks) < Length /\ evidence[e].pc = "records"
    BY DEF TakeRecord
  <2>3. EvidenceFits(e)
    BY DEF EvidenceInStep
  <2>4. Len(evidence'[e].marks) <= Length'
    BY <1>4, <1>6, <2>1, <2>2
  <2>5. ASSUME NEW i \in 1 .. Len(new.marks) PROVE MarkFits(e, i, new.marks[i])
    <3>1. CASE i = Len(evidence[e].marks) + 1
      BY <2>1, <3>1
    <3>2. CASE i # Len(evidence[e].marks) + 1
      BY <2>1, <2>3, <3>2 DEF EvidenceFits
    <3> QED
      BY <3>1, <3>2
  <2>6. \A i \in 1 .. Len(evidence[e].marks)' : MarkFits(e, i, evidence[e].marks[i])'
    <3> SUFFICES ASSUME NEW i \in 1 .. Len(new.marks) PROVE MarkFits(e, i, evidence[e].marks[i])'
      BY <1>4
    <3>1. MarkFits(e, i, new.marks[i])
      BY <2>5
    <3> QED
      BY <1>4, <1>6, <3>1 DEF MarkFits
  <2>7. ~(new.pc \in {"manifest", "done"}) /\ ~(new.manifest = "whole")
    BY <1>3, <2>2, <2>3 DEF EvidenceFits
  <2> QED
    BY <1>4, <2>4, <2>6, <2>7 DEF EvidenceFits
<1>9. WholeEvidenceStays
  BY <1>4 DEF WholeEvidenceStays, EvidenceInStep, EvidenceFits, TakeRecord
<1> QED
  BY <1>5, <1>7, <1>8, <1>9 DEF EvidenceInStep
\* So does a step that leaves its marks as they are.
LEMMA EvidenceRewritten ==
  ASSUME TypeOK, EvidenceInStep, NEW e \in Evidence, NEW new \in EvidenceRecord,
         evidence' = [evidence EXCEPT ![e] = new], runId' = runId,
         new.marks = evidence[e].marks, evidence[e].manifest # "whole",
         new.pc \in {"manifest", "done"} => new.stopped \/ Len(new.marks) = Length,
         new.manifest = "whole" <=> new.pc = "done"
  PROVE  evidence' \in [Evidence -> EvidenceRecord] /\ EvidenceInStep' /\ WholeEvidenceStays
<1>1. evidence'[e] = new /\ \A d \in Evidence : d # e => evidence'[d] = evidence[d]
  BY DEF TypeOK
<1>2. evidence' \in [Evidence -> EvidenceRecord]
  BY DEF TypeOK
<1>3. Length' = Length /\ run' = run
  BY DEF Length, run
<1>4. ASSUME NEW d \in Evidence PROVE EvidenceFits(d)'
  <2>1. EvidenceFits(d)
    BY DEF EvidenceInStep
  <2>2. CASE d # e
    BY <1>1, <1>3, <2>1, <2>2 DEF EvidenceFits, MarkFits
  <2>3. CASE d = e
    <3>1. evidence'[e].marks = evidence[e].marks
      BY <1>1
    <3>2. /\ Len(evidence[e].marks)' <= Length'
          /\ \A i \in 1 .. Len(evidence[e].marks)' : MarkFits(e, i, evidence[e].marks[i])'
      BY <1>3, <2>1, <2>3, <3>1 DEF EvidenceFits, MarkFits
    <3> QED
      BY <1>1, <1>3, <2>3, <3>2 DEF EvidenceFits
  <2> QED
    BY <2>2, <2>3
<1>5. WholeEvidenceStays
  BY <1>1 DEF WholeEvidenceStays
<1> QED
  BY <1>2, <1>4, <1>5 DEF EvidenceInStep

LEMMA EvidenceStep ==
  ASSUME TypeOK, EvidenceInStep, NEW e \in Evidence, EvidenceNext(e)
  PROVE  /\ TypeOK' /\ EvidenceInStep' /\ WholeEvidenceStays
         /\ UNCHANGED <<runId, gate, export, registry, clerk, settled, raced>>
<1>1. evidence[e] \in EvidenceRecord /\ EvidenceFits(e)
  BY DEF TypeOK, EvidenceInStep
<1>2. CASE BeginEvidence(e)
  <2> DEFINE new == [evidence[e] EXCEPT !.pc = "records"]
  <2>1. evidence[e].pc = "idle"
    BY <1>2 DEF BeginEvidence, MayStart, PcOf
  <2>2. /\ new \in EvidenceRecord /\ new.marks = evidence[e].marks /\ new.pc = "records"
        /\ new.manifest = evidence[e].manifest
    BY <1>1 DEF EvidenceRecord
  <2>3. evidence' = [evidence EXCEPT ![e] = new]
    BY <1>2 DEF BeginEvidence, TypeOK
  <2> HIDE DEF new
  <2>4. evidence' \in [Evidence -> EvidenceRecord] /\ EvidenceInStep' /\ WholeEvidenceStays
    BY <1>1, <1>2, <2>1, <2>2, <2>3, EvidenceRewritten DEF EvidenceFits, BeginEvidence
  <2> QED
    BY <1>2, <2>4 DEF BeginEvidence, TypeOK
<1>3. CASE EndRecords(e)
  <2>0. PICK stopped \in BOOLEAN : stopped <=> Len(evidence[e].marks) < Length
    OBVIOUS
  <2> DEFINE new == [evidence[e] EXCEPT !.pc = "manifest", !.stopped = stopped, !.manifest = "torn"]
  <2>1. evidence[e].pc = "records"
    BY <1>3 DEF EndRecords
  <2>2. /\ new \in EvidenceRecord /\ new.marks = evidence[e].marks /\ new.pc = "manifest"
        /\ new.stopped = stopped /\ new.manifest = "torn"
    BY <1>1 DEF EvidenceRecord
  <2>3. evidence' = [evidence EXCEPT ![e] = new]
    <3>1. stopped = (Len(evidence[e].marks) < Length)
      <4>1. CASE stopped = TRUE
        BY <2>0, <4>1
      <4>2. CASE stopped = FALSE
        BY <2>0, <4>2
      <4> QED
        BY <4>1, <4>2
    <3>2. evidence' = [evidence EXCEPT ![e].pc = "manifest",
                                       ![e].stopped = (Len(evidence[e].marks) < Length),
                                       ![e].manifest = "torn"]
      BY <1>3, Zenon DEF EndRecords
    <3>3. evidence' = [evidence EXCEPT ![e].pc = "manifest", ![e].stopped = stopped,
                                       ![e].manifest = "torn"]
      BY <3>1, <3>2, Zenon
    <3> QED
      BY <3>3 DEF TypeOK
  <2>4. new.stopped \/ Len(new.marks) = Length
    <3>1. Len(evidence[e].marks) \in Nat /\ Len(evidence[e].marks) <= Length /\ Length \in Nat
      BY <1>1, RunTyped DEF EvidenceFits, EvidenceRecord
    <3>2. stopped \/ Len(evidence[e].marks) = Length
      BY <2>0, <3>1
    <3> HIDE DEF new
    <3> QED
      BY <2>2, <3>2
  <2> HIDE DEF new
  <2>5. evidence' \in [Evidence -> EvidenceRecord] /\ EvidenceInStep' /\ WholeEvidenceStays
    BY <1>1, <1>3, <2>1, <2>2, <2>3, <2>4, EvidenceRewritten DEF EvidenceFits, EndRecords
  <2>6. newest' \in Seq(Evidence \cup Gates)
    BY <1>3 DEF EndRecords, TypeOK
  <2> QED
    BY <1>3, <2>5, <2>6 DEF EndRecords, TypeOK
<1>4. CASE WriteManifest(e)
  <2> DEFINE new == [evidence[e] EXCEPT !.pc = "done", !.manifest = "whole"]
  <2>1. evidence[e].pc = "manifest"
    BY <1>4 DEF WriteManifest
  <2>2. /\ new \in EvidenceRecord /\ new.marks = evidence[e].marks /\ new.pc = "done"
        /\ new.stopped = evidence[e].stopped /\ new.manifest = "whole"
    BY <1>1 DEF EvidenceRecord
  <2>3. evidence' = [evidence EXCEPT ![e] = new]
    BY <1>4 DEF WriteManifest, TypeOK
  <2> HIDE DEF new
  <2>4. evidence' \in [Evidence -> EvidenceRecord] /\ EvidenceInStep' /\ WholeEvidenceStays
    BY <1>1, <1>4, <2>1, <2>2, <2>3, EvidenceRewritten DEF EvidenceFits, WriteManifest
  <2> QED
    BY <1>4, <2>4 DEF WriteManifest, TypeOK
<1>5. CASE RescoreRecord(e)
  <2>1. PICK marked \in {"scored", "judge_failed", "unscored"} :
          /\ TakeRecord(e, marked)
          /\ (marked # "unscored") = run.records[Len(evidence[e].marks) + 1].scorable
    BY <1>5 DEF RescoreRecord
  <2>2. e \in Rescores /\ e \notin TraceEvals /\ marked \in Marks
    BY <1>5, Names DEF RescoreRecord, Marks
  <2>3. MarkFits(e, Len(evidence[e].marks) + 1, marked)
    BY <2>1, <2>2 DEF MarkFits
  <2>4. TypeOK' /\ EvidenceInStep' /\ WholeEvidenceStays
    BY <2>1, <2>2, <2>3, RecordTaken
  <2> QED
    BY <2>1, <2>4 DEF TakeRecord
<1>6. CASE EvaluateRecord(e)
  <2> DEFINE marked == EvaluateSource(run.records[Len(evidence[e].marks) + 1])
  <2>1. e \in TraceEvals /\ e \notin Rescores /\ marked \in Marks
    BY <1>6, Names, Graded DEF EvaluateRecord, Marks
  <2>2. TakeRecord(e, marked)
    BY <1>6 DEF EvaluateRecord
  <2>3. MarkFits(e, Len(evidence[e].marks) + 1, marked)
    BY <2>1 DEF MarkFits
  <2> HIDE DEF marked
  <2>4. TypeOK' /\ EvidenceInStep' /\ WholeEvidenceStays
    BY <2>1, <2>2, <2>3, RecordTaken
  <2> QED
    BY <2>2, <2>4 DEF TakeRecord
<1> QED
  BY <1>2, <1>3, <1>4, <1>5, <1>6 DEF EvidenceNext
-----------------------------------------------------------------------------
(* The steps of a gate                                                     *)

LEMMA GateRequested ==
  ASSUME TypeOK, NEW g \in Gates
  PROVE  /\ gate[g] \in GateRecord
         /\ gate[g].request.rescore \in Rescores \cup {None}
         /\ gate[g].request.trace \in TraceEvals \cup {None}
<1>1. gate[g] \in GateRecord
  BY DEF TypeOK
<1>2. gate[g].request \in GateRequests \cup {GateStart.request}
  BY <1>1 DEF GateRecord
<1>3. GateStart.request = [rescore |-> None, trace |-> None, require |-> FALSE]
  BY DEF GateStart
<1> QED
  BY <1>1, <1>2, <1>3, RequestsAssumption

\* What a gate reads of evidence that it found is what whole evidence says.
LEMMA FoundIsWhole ==
  ASSUME TypeOK, NEW kind \in {Rescores, TraceEvals}, NEW wanted \in kind \cup {None}
  PROVE  LET had == ReadOf(Select(kind, wanted))
         IN had \in Read /\ ReadWhole(had, kind, wanted)
<1> DEFINE e == Select(kind, wanted)
           had == ReadOf(e)
<1>1. kind \subseteq Evidence /\ None \notin kind
  BY Names
<1>2. /\ e \in kind \cup {None}
      /\ e # None => Readable(e)
      /\ wanted # None => e \in {wanted, None}
  BY <1>1, SelectedCanBeRead
<1> HIDE DEF e
<1>3. CASE e = None
  <2>1. had = [id |-> None, found |-> FALSE, marks |-> <<>>, stopped |-> FALSE]
    BY <1>3 DEF ReadOf, NothingRead
  <2> QED
    BY <1>2, <2>1 DEF ReadWhole, Read, e
<1>4. CASE e # None
  <2>1. e \in Evidence /\ e \in kind
    BY <1>1, <1>2, <1>4
  <2>2. evidence[e].manifest = "whole"
    BY <1>2, <1>4, <2>1, Manifests DEF Readable
  <2>3. had = [id |-> e, found |-> TRUE, marks |-> evidence[e].marks,
               stopped |-> evidence[e].stopped]
    BY <1>4 DEF ReadOf
  <2>4. evidence[e].marks \in Seq(Marks) /\ evidence[e].stopped \in BOOLEAN
    BY <2>1 DEF TypeOK, EvidenceRecord
  <2>5. had \in Read
    BY <2>1, <2>3, <2>4 DEF Read
  <2>6. ReadWhole(had, kind, wanted)
    BY <1>2, <1>4, <2>1, <2>2, <2>3 DEF ReadWhole
  <2> QED
    BY <2>5, <2>6 DEF e
<1> QED
  BY <1>3, <1>4

\* What a gate decides on is what it has read.
LEMMA SameEvidence ==
  ASSUME NEW g, runId' = runId,
         gate'[g].rescore = gate[g].rescore, gate'[g].trace = gate[g].trace,
         gate'[g].compat = gate[g].compat, gate'[g].request = gate[g].request
  PROVE  \A stale \in BOOLEAN : GateEvidence(g, stale)' = GateEvidence(g, stale)
BY DEF GateEvidence, run

\* A gate that takes no step stays in step with the evidence it has read.
LEMMA GateKept ==
  ASSUME TypeOK, WholeEvidenceStays, NEW g \in Gates, GateFits(g), gate'[g] = gate[g],
         runId' = runId
  PROVE  GateFits(g)'
<1>1. /\ ReadWhole(gate[g].rescore, Rescores, gate[g].request.rescore)'
      /\ ReadWhole(gate[g].trace, TraceEvals, gate[g].request.trace)'
  <2>1. /\ ReadWhole(gate[g].rescore, Rescores, gate[g].request.rescore)
        /\ ReadWhole(gate[g].trace, TraceEvals, gate[g].request.trace)
    BY DEF GateFits
  <2> QED
    BY <2>1, Names DEF ReadWhole, WholeEvidenceStays
<1>2. \A stale \in BOOLEAN : GateEvidence(g, stale)' = GateEvidence(g, stale)
  BY SameEvidence
<1> QED
  BY <1>1, <1>2 DEF GateFits
LEMMA GateRewritten ==
  ASSUME TypeOK, GatesInStep, NEW g \in Gates, NEW new \in GateRecord,
         gate' = [gate EXCEPT ![g] = new], UNCHANGED <<runId, evidence>>,
         gate[g].manifest # "whole", GateFits(g)'
  PROVE  gate' \in [Gates -> GateRecord] /\ GatesInStep' /\ WholeGatesStay
<1>1. gate'[g] = new /\ \A h \in Gates : h # g => gate'[h] = gate[h]
  BY DEF TypeOK
<1>2. gate' \in [Gates -> GateRecord]
  BY DEF TypeOK
<1>3. WholeEvidenceStays
  BY DEF WholeEvidenceStays
<1>4. ASSUME NEW h \in Gates, h # g PROVE GateFits(h)'
  <2>1. GateFits(h) /\ gate'[h] = gate[h]
    BY <1>1, <1>4 DEF GatesInStep
  <2> QED
    BY <1>3, <2>1, GateKept
<1> QED
  BY <1>1, <1>2, <1>4 DEF GatesInStep, WholeGatesStay

LEMMA NothingReadFits ==
  \A kind, wanted : ReadWhole(NothingRead, kind, wanted)
BY DEF ReadWhole, NothingRead

\* What the gate reads, at the step that reads it
LEMMA GateReads ==
  ASSUME TypeOK, GatesInStep, NEW g \in Gates, NEW new \in GateRecord,
         gate' = [gate EXCEPT ![g] = new], UNCHANGED <<runId, evidence>>,
         gate[g].pc # "done", new.pc \in {"rescore", "compat", "trace", "decide"},
         new.manifest = gate[g].manifest, gate[g].decision = None, new.decision = None,
         ReadWhole(new.rescore, Rescores, new.request.rescore),
         ReadWhole(new.trace, TraceEvals, new.request.trace),
         new.pc = "rescore" => new.rescore = NothingRead,
         new.pc # "decide" => new.trace = NothingRead,
         new.pc \in {"rescore", "compat"} => ~new.compat
  PROVE  gate' \in [Gates -> GateRecord] /\ GatesInStep' /\ WholeGatesStay
<1>1. gate'[g] = new
  BY DEF TypeOK
<1>2. gate[g].manifest # "whole"
  BY DEF GatesInStep, GateFits
<1>3. None # "GO"
  BY Names DEF Decisions
<1>4. /\ ReadWhole(gate[g].rescore, Rescores, gate[g].request.rescore)'
      /\ ReadWhole(gate[g].trace, TraceEvals, gate[g].request.trace)'
  BY <1>1 DEF ReadWhole
<1>5. NothingRead' = NothingRead
  BY DEF NothingRead
<1>6. GateFits(g)'
  BY <1>1, <1>2, <1>3, <1>4, <1>5 DEF GateFits
<1> QED
  BY <1>2, <1>6, GateRewritten

LEMMA Decided == \A seen : Decide(seen) \in Decisions
BY DEF Decide, Decisions

LEMMA GateStep ==
  ASSUME TypeOK, GatesInStep, NEW g \in Gates, GateNext(g)
  PROVE  /\ TypeOK' /\ GatesInStep' /\ WholeGatesStay
         /\ UNCHANGED <<runId, evidence, export, registry, clerk, settled, raced>>
<1>1. gate[g] \in GateRecord /\ GateFits(g)
  BY DEF TypeOK, GatesInStep
<1>2. CASE BeginGate(g)
  <2>1. PICK q \in GateRequests : gate' = [gate EXCEPT ![g].pc = "rescore", ![g].request = q]
    BY <1>2 DEF BeginGate
  <2> DEFINE new == [gate[g] EXCEPT !.pc = "rescore", !.request = q]
  <2>2. gate[g].pc = "idle"
    BY <1>2, Names DEF BeginGate, MayStart, PcOf
  <2>3. /\ new \in GateRecord /\ new.pc = "rescore" /\ new.request = q
        /\ new.rescore = gate[g].rescore /\ new.trace = gate[g].trace
        /\ new.compat = gate[g].compat /\ new.decision = gate[g].decision
        /\ new.manifest = gate[g].manifest
    BY <1>1 DEF GateRecord
  <2>4. gate' = [gate EXCEPT ![g] = new]
    BY <2>1 DEF TypeOK
  <2>5. UNCHANGED <<runId, evidence>>
    BY <1>2 DEF BeginGate
  <2> HIDE DEF new
  <2>6. gate[g].rescore = NothingRead /\ gate[g].trace = NothingRead /\ ~gate[g].compat
        /\ gate[g].decision = None
    BY <1>1, <2>2 DEF GateFits
  <2>7. /\ ReadWhole(new.rescore, Rescores, new.request.rescore)
        /\ ReadWhole(new.trace, TraceEvals, new.request.trace)
    BY <2>3, <2>6, NothingReadFits
  <2>8. gate' \in [Gates -> GateRecord] /\ GatesInStep' /\ WholeGatesStay
    BY <2>2, <2>3, <2>4, <2>5, <2>6, <2>7, GateReads
  <2> QED
    BY <1>2, <2>8 DEF BeginGate, TypeOK
<1>3. CASE GateReadsRescore(g)
  <2> DEFINE had == ReadOf(Select(Rescores, gate[g].request.rescore))
             new == [gate[g] EXCEPT !.pc = "compat", !.rescore = had]
  <2>1. gate[g].pc = "rescore" /\ gate' = [gate EXCEPT ![g].pc = "compat", ![g].rescore = had]
    BY <1>3 DEF GateReadsRescore
  <2>2. had \in Read /\ ReadWhole(had, Rescores, gate[g].request.rescore)
    BY GateRequested, FoundIsWhole
  <2> HIDE DEF had
  <2>3. /\ new \in GateRecord /\ new.pc = "compat" /\ new.request = gate[g].request
        /\ new.rescore = had /\ new.trace = gate[g].trace
        /\ new.compat = gate[g].compat /\ new.decision = gate[g].decision
        /\ new.manifest = gate[g].manifest
    BY <1>1, <2>2 DEF GateRecord
  <2>4. gate' = [gate EXCEPT ![g] = new]
    BY <2>1 DEF TypeOK
  <2>5. UNCHANGED <<runId, evidence>>
    BY <1>3 DEF GateReadsRescore
  <2> HIDE DEF new
  <2>6. gate[g].trace = NothingRead /\ ~gate[g].compat /\ gate[g].decision = None
    BY <1>1, <2>1 DEF GateFits
  <2>7. /\ ReadWhole(new.rescore, Rescores, new.request.rescore)
        /\ ReadWhole(new.trace, TraceEvals, new.request.trace)
    BY <2>2, <2>3, <2>6, NothingReadFits
  <2>8. gate' \in [Gates -> GateRecord] /\ GatesInStep' /\ WholeGatesStay
    BY <2>1, <2>3, <2>4, <2>5, <2>6, <2>7, GateReads
  <2> QED
    BY <1>3, <2>8 DEF GateReadsRescore, TypeOK
<1>4. CASE GateReadsCompat(g)
  <2>0. PICK there \in BOOLEAN : there <=> ~Archived(Compat)
    OBVIOUS
  <2> DEFINE new == [gate[g] EXCEPT !.pc = "trace", !.compat = there]
  <2>1. gate[g].pc = "compat" /\ gate' = [gate EXCEPT ![g].pc = "trace", ![g].compat = there]
    <3>1. there = ~Archived(Compat)
      <4>1. CASE there = TRUE
        BY <2>0, <4>1
      <4>2. CASE there = FALSE
        BY <2>0, <4>2
      <4> QED
        BY <4>1, <4>2
    <3>2. gate' = [gate EXCEPT ![g].pc = "trace", ![g].compat = ~Archived(Compat)]
      BY <1>4, Zenon DEF GateReadsCompat
    <3>3. gate' = [gate EXCEPT ![g].pc = "trace", ![g].compat = there]
      BY <3>1, <3>2, Zenon
    <3> QED
      BY <1>4, <3>3 DEF GateReadsCompat
  <2>3. /\ new \in GateRecord /\ new.pc = "trace" /\ new.request = gate[g].request
        /\ new.rescore = gate[g].rescore /\ new.trace = gate[g].trace
        /\ new.compat = there /\ new.decision = gate[g].decision
        /\ new.manifest = gate[g].manifest
    BY <1>1 DEF GateRecord
  <2>4. gate' = [gate EXCEPT ![g] = new]
    BY <2>1 DEF TypeOK
  <2>5. UNCHANGED <<runId, evidence>>
    BY <1>4 DEF GateReadsCompat
  <2> HIDE DEF new
  <2>6. gate[g].trace = NothingRead /\ gate[g].decision = None
    BY <1>1, <2>1 DEF GateFits
  <2>7. /\ ReadWhole(new.rescore, Rescores, new.request.rescore)
        /\ ReadWhole(new.trace, TraceEvals, new.request.trace)
    BY <1>1, <2>3, <2>6 DEF GateFits
  <2>8. gate' \in [Gates -> GateRecord] /\ GatesInStep' /\ WholeGatesStay
    BY <2>1, <2>3, <2>4, <2>5, <2>6, <2>7, GateReads
  <2> QED
    BY <1>4, <2>8 DEF GateReadsCompat, TypeOK
<1>5. CASE GateReadsTrace(g)
  <2> DEFINE had == ReadOf(Select(TraceEvals, gate[g].request.trace))
             new == [gate[g] EXCEPT !.pc = "decide", !.trace = had]
  <2>1. gate[g].pc = "trace" /\ gate' = [gate EXCEPT ![g].pc = "decide", ![g].trace = had]
    BY <1>5 DEF GateReadsTrace
  <2>2. had \in Read /\ ReadWhole(had, TraceEvals, gate[g].request.trace)
    BY GateRequested, FoundIsWhole
  <2> HIDE DEF had
  <2>3. /\ new \in GateRecord /\ new.pc = "decide" /\ new.request = gate[g].request
        /\ new.rescore = gate[g].rescore /\ new.trace = had
        /\ new.compat = gate[g].compat /\ new.decision = gate[g].decision
        /\ new.manifest = gate[g].manifest
    BY <1>1, <2>2 DEF GateRecord
  <2>4. gate' = [gate EXCEPT ![g] = new]
    BY <2>1 DEF TypeOK
  <2>5. UNCHANGED <<runId, evidence>>
    BY <1>5 DEF GateReadsTrace
  <2> HIDE DEF new
  <2>6. gate[g].decision = None
    BY <1>1, <2>1 DEF GateFits
  <2>7. /\ ReadWhole(new.rescore, Rescores, new.request.rescore)
        /\ ReadWhole(new.trace, TraceEvals, new.request.trace)
    BY <1>1, <2>2, <2>3 DEF GateFits
  <2>8. gate' \in [Gates -> GateRecord] /\ GatesInStep' /\ WholeGatesStay
    BY <2>1, <2>3, <2>4, <2>5, <2>6, <2>7, GateReads
  <2> QED
    BY <1>5, <2>8 DEF GateReadsTrace, TypeOK
<1>6. CASE GateDecides(g)
  <2>1. PICK stale \in BOOLEAN :
          gate' = [gate EXCEPT ![g].pc = "manifest", ![g].manifest = "torn",
                               ![g].decision = Decide(GateEvidence(g, stale))]
    BY <1>6 DEF GateDecides
  <2> DEFINE decision == Decide(GateEvidence(g, stale))
             new == [gate[g] EXCEPT !.pc = "manifest", !.manifest = "torn", !.decision = decision]
  <2>2. gate[g].pc = "decide" /\ UNCHANGED <<runId, evidence>>
    BY <1>6 DEF GateDecides
  <2>3. decision \in Decisions
    BY Decided
  <2>4. gate' = [gate EXCEPT ![g].pc = "manifest", ![g].manifest = "torn",
                             ![g].decision = decision]
    BY <2>1
  <2> HIDE DEF decision
  <2>5. /\ new \in GateRecord /\ new.pc = "manifest" /\ new.request = gate[g].request
        /\ new.rescore = gate[g].rescore /\ new.trace = gate[g].trace
        /\ new.compat = gate[g].compat /\ new.decision = decision
        /\ new.manifest = "torn"
    BY <1>1, <2>3 DEF GateRecord
  <2>6. gate' = [gate EXCEPT ![g] = new]
    BY <2>4 DEF TypeOK
  <2> HIDE DEF new
  <2>7. gate'[g] = new
    BY <2>6 DEF TypeOK
  <2>8. GateEvidence(g, stale)' = GateEvidence(g, stale)
    BY <2>2, <2>5, <2>7, SameEvidence
  <2>9. decision = "GO" => Decide(GateEvidence(g, stale)') = "GO"
    BY <2>8 DEF decision
  <2>10. /\ ReadWhole(gate[g].rescore, Rescores, gate[g].request.rescore)'
         /\ ReadWhole(gate[g].trace, TraceEvals, gate[g].request.trace)'
    BY <1>1, <2>2, <2>5, <2>7 DEF ReadWhole, GateFits
  <2>11. GateFits(g)'
    BY <2>5, <2>7, <2>9, <2>10 DEF GateFits
  <2>12. gate[g].manifest # "whole"
    BY <1>1, <2>2 DEF GateFits
  <2>13. gate' \in [Gates -> GateRecord] /\ GatesInStep' /\ WholeGatesStay
    BY <2>2, <2>5, <2>6, <2>11, <2>12, GateRewritten
  <2>14. newest' \in Seq(Evidence \cup Gates)
    BY <1>6 DEF GateDecides, TypeOK
  <2> QED
    BY <1>6, <2>13, <2>14 DEF GateDecides, TypeOK
<1>7. CASE WriteGateManifest(g)
  <2> DEFINE new == [gate[g] EXCEPT !.pc = "done", !.manifest = "whole"]
  <2>1. /\ gate[g].pc = "manifest" /\ UNCHANGED <<runId, evidence>>
        /\ gate' = [gate EXCEPT ![g].pc = "done", ![g].manifest = "whole"]
    BY <1>7 DEF WriteGateManifest
  <2>2. /\ new \in GateRecord /\ new.pc = "done" /\ new.request = gate[g].request
        /\ new.rescore = gate[g].rescore /\ new.trace = gate[g].trace
        /\ new.compat = gate[g].compat /\ new.decision = gate[g].decision
        /\ new.manifest = "whole"
    BY <1>1 DEF GateRecord
  <2>3. gate' = [gate EXCEPT ![g] = new]
    BY <2>1 DEF TypeOK
  <2> HIDE DEF new
  <2>4. gate'[g] = new
    BY <2>3 DEF TypeOK
  <2>5. \A stale \in BOOLEAN : GateEvidence(g, stale)' = GateEvidence(g, stale)
    BY <2>1, <2>2, <2>4, SameEvidence
  <2>6. /\ ReadWhole(gate[g].rescore, Rescores, gate[g].request.rescore)'
        /\ ReadWhole(gate[g].trace, TraceEvals, gate[g].request.trace)'
    BY <1>1, <2>1, <2>2, <2>4 DEF ReadWhole, GateFits
  <2>7. GateFits(g)'
    BY <1>1, <2>2, <2>4, <2>5, <2>6 DEF GateFits
  <2>8. gate[g].manifest # "whole"
    BY <1>1, <2>1 DEF GateFits
  <2>9. gate' \in [Gates -> GateRecord] /\ GatesInStep' /\ WholeGatesStay
    BY <2>1, <2>2, <2>3, <2>7, <2>8, GateRewritten
  <2> QED
    BY <1>7, <2>9 DEF WriteGateManifest, TypeOK
<1> QED
  BY <1>2, <1>3, <1>4, <1>5, <1>6, <1>7 DEF GateNext
-----------------------------------------------------------------------------
(* The steps of an export                                                  *)

LEMMA ExportRequested ==
  ASSUME TypeOK, NEW x \in Exports
  PROVE  /\ export[x] \in ExportRecord
         /\ export[x].request.gate \in Gates \cup {None}
         /\ export[x].request.rescore \in Rescores \cup {None}
<1>1. export[x] \in ExportRecord
  BY DEF TypeOK
<1>2. export[x].request \in ExportRequests \cup {ExportStart.request}
  BY <1>1 DEF ExportRecord
<1>3. ExportStart.request = [gate |-> None, rescore |-> None]
  BY DEF ExportStart
<1> QED
  BY <1>1, <1>2, <1>3, RequestsAssumption

\* What a bound directory is like: of its kind, whole, and not archived unless
\* the request names it.
Collected(x, found, kind, name) ==
  /\ found.dirs \subseteq kind
  /\ found.warned \subseteq {name}
  /\ \A e \in found.dirs : /\ ManifestOf(e) = "whole"
                           /\ e # export[x].request.rescore => ~Archived(e)

\* What stands in for evidence that a gate names is that evidence, or nothing and a warning.
LEMMA BoundToItsGate ==
  ASSUME NEW x, NEW kind, NEW name, NEW had \in kind \cup {None}
  PROVE  LET found == BoundByGate(kind, name, had)
         IN /\ Collected(x, found, kind, name) /\ found.dirs \subseteq {had}
            /\ had \in found.dirs \/ name \in found.warned
<1>1. CASE had # None /\ Readable(had) /\ ~Archived(had)
  <2>1. BoundByGate(kind, name, had) = [dirs |-> {had} \ {None}, warned |-> {}]
    BY <1>1 DEF BoundByGate, Bound
  <2> QED
    BY <1>1, <2>1 DEF Collected, Readable
<1>2. CASE ~(had # None /\ Readable(had) /\ ~Archived(had))
  <2>1. BoundByGate(kind, name, had) = [dirs |-> {None} \ {None}, warned |-> {name}]
    BY <1>2 DEF BoundByGate, Bound
  <2> QED
    BY <2>1 DEF Collected
<1> QED
  BY <1>1, <1>2

LEMMA BoundToTheNewest ==
  ASSUME TypeOK, NEW x, NEW kind, NEW name, None \notin kind
  PROVE  Collected(x, BoundToNewest(kind, name), kind, name)
<1> DEFINE e == SelectNewest(kind)
<1>1. e = Select(kind, None)
  BY DEF Select
<1>2. /\ e \in kind \cup {None}
      /\ e # None => Readable(e) /\ ~Archived(e)
  BY <1>1, SelectedCanBeRead
<1> HIDE DEF e
<1>3. BoundToNewest(kind, name)
        = [dirs |-> {e} \ {None}, warned |-> IF e = None THEN {name} ELSE {}]
  BY DEF BoundToNewest, Bound, e
<1> QED
  BY <1>2, <1>3 DEF Collected, Readable

\* The rescoring and the trace evaluation that an export with a gate is about
RescoreFor(x) ==
  IF export[x].request.rescore # None THEN export[x].request.rescore
  ELSE gate[export[x].gate].rescore.id
TraceFor(x) == gate[export[x].gate].trace.id

LEMMA RescoreCollected ==
  ASSUME TypeOK, GatesInStep, NEW x \in Exports
  PROVE  LET found == CollectRescore(x)
         IN /\ Collected(x, found, Rescores, "rescore")
            /\ export[x].gate # None =>
                 /\ found.dirs \subseteq {RescoreFor(x)}
                 /\ RescoreFor(x) \in found.dirs \/ "rescore" \in found.warned
<1> DEFINE wanted == export[x].request.rescore
           given  == Select(Rescores, wanted)
<1>1. wanted \in Rescores \cup {None} /\ export[x].gate \in Gates \cup {None}
  BY ExportRequested DEF ExportRecord
<1>2. CASE wanted # None
  <2>1. given \in {wanted, None} /\ (given # None => Readable(given))
    BY <1>1, <1>2, SelectedCanBeRead, Names
  <2>2. CollectRescore(x)
          = [dirs |-> {given} \ {None},
             warned |-> IF given = None \/ Archived(given) THEN {"rescore"} ELSE {}]
    BY <1>2 DEF CollectRescore, Bound
  <2> HIDE DEF given
  <2>3. Collected(x, CollectRescore(x), Rescores, "rescore")
    BY <1>1, <1>2, <2>1, <2>2 DEF Collected, Readable
  <2> QED
    BY <1>2, <2>1, <2>2, <2>3 DEF RescoreFor
<1>3. CASE wanted = None /\ export[x].gate # None
  <2>1. gate[export[x].gate].rescore.id \in Rescores \cup {None}
    BY <1>1, <1>3 DEF GatesInStep, GateFits, ReadWhole
  <2>2. CollectRescore(x) = BoundByGate(Rescores, "rescore", gate[export[x].gate].rescore.id)
    BY <1>3 DEF CollectRescore
  <2> QED
    BY <1>3, <2>1, <2>2, BoundToItsGate DEF RescoreFor
<1>4. CASE wanted = None /\ export[x].gate = None
  BY <1>4, BoundToTheNewest, Names DEF CollectRescore
<1> QED
  BY <1>2, <1>3, <1>4

LEMMA TraceCollected ==
  ASSUME TypeOK, GatesInStep, NEW x \in Exports
  PROVE  LET found == CollectTrace(x)
         IN /\ Collected(x, found, TraceEvals, "trace")
            /\ export[x].gate # None =>
                 /\ found.dirs \subseteq {TraceFor(x)}
                 /\ TraceFor(x) \in found.dirs \/ "trace" \in found.warned
<1>1. export[x].gate \in Gates \cup {None}
  BY ExportRequested DEF ExportRecord
<1>2. CASE export[x].gate # None
  <2>1. gate[export[x].gate].trace.id \in TraceEvals \cup {None}
    BY <1>1, <1>2 DEF GatesInStep, GateFits, ReadWhole
  <2>2. CollectTrace(x) = BoundByGate(TraceEvals, "trace", gate[export[x].gate].trace.id)
    BY <1>2 DEF CollectTrace
  <2> QED
    BY <1>2, <2>1, <2>2, BoundToItsGate DEF TraceFor
<1>3. CASE export[x].gate = None
  BY <1>3, BoundToTheNewest, Names DEF CollectTrace
<1> QED
  BY <1>2, <1>3

LEMMA CompatCollected ==
  ASSUME NEW x \in Exports
  PROVE  LET found == CollectCompat(x)
         IN /\ Collected(x, found, {Compat}, "compat")
            /\ export[x].gate # None /\ Compat \in found.dirs => gate[export[x].gate].compat
            /\ Compat \in found.dirs \/ "compat" \in found.warned
<1> DEFINE there == ~Archived(Compat) /\ (export[x].gate # None => gate[export[x].gate].compat)
<1>1. CASE there
  <2>1. CollectCompat(x) = [dirs |-> {Compat} \ {None}, warned |-> {}]
    BY <1>1 DEF CollectCompat, Bound
  <2> QED
    BY <1>1, <2>1, Manifests, Names DEF Collected
<1>2. CASE ~there
  <2>1. CollectCompat(x) = [dirs |-> {None} \ {None}, warned |-> {"compat"}]
    BY <1>2 DEF CollectCompat, Bound
  <2> QED
    BY <2>1 DEF Collected
<1> QED
  BY <1>1, <1>2
\* The evidence that is bound by a step is what the gate decided on.
LEMMA BoundFollowsGate ==
  ASSUME TypeOK, GatesInStep, NEW x \in Exports, NEW bound, NEW warned,
         bound = CollectRescore(x).dirs \cup CollectTrace(x).dirs \cup CollectCompat(x).dirs,
         CollectRescore(x).warned \cup CollectTrace(x).warned \cup CollectCompat(x).warned
           \subseteq warned,
         export[x].gate # None, gate[export[x].gate].manifest = "whole"
  PROVE  LET g == export[x].gate
             decidedOn == {gate[g].trace.id} \cup (IF gate[g].compat THEN {Compat} ELSE {})
             rescored  == {gate[g].rescore.id}
             named     == {export[x].request.rescore} \ {None}
         IN /\ bound \subseteq decidedOn \cup (IF named = {} THEN rescored ELSE named)
            /\ TraceEvals \cap decidedOn \subseteq bound \/ "trace" \in warned
            /\ Compat \in bound \/ "compat" \in warned
            /\ (Rescores \cap (IF named = {} THEN rescored ELSE named)) \subseteq bound
               \/ "rescore" \in warned
<1> DEFINE g == export[x].gate
           decidedOn == {gate[g].trace.id} \cup (IF gate[g].compat THEN {Compat} ELSE {})
           rescored  == {gate[g].rescore.id}
           named     == {export[x].request.rescore} \ {None}
           r == CollectRescore(x)
           t == CollectTrace(x)
           c == CollectCompat(x)
<1>1. /\ r.dirs \subseteq {RescoreFor(x)}
      /\ RescoreFor(x) \in r.dirs \/ "rescore" \in r.warned
  BY RescoreCollected
<1>2. /\ t.dirs \subseteq {TraceFor(x)}
      /\ TraceFor(x) \in t.dirs \/ "trace" \in t.warned
  BY TraceCollected
<1>3. /\ c.dirs \subseteq {Compat}
      /\ Compat \in c.dirs => gate[g].compat
      /\ Compat \in c.dirs \/ "compat" \in c.warned
  BY CompatCollected DEF Collected
<1>4. (IF named = {} THEN rescored ELSE named) = {RescoreFor(x)}
  BY DEF RescoreFor
<1>5. TraceEvals \cap decidedOn \subseteq {TraceFor(x)} /\ TraceFor(x) \in decidedOn
  BY Names DEF TraceFor
<1>6. bound \subseteq r.dirs \cup t.dirs \cup c.dirs /\ r.dirs \cup t.dirs \cup c.dirs \subseteq bound
      /\ r.warned \cup t.warned \cup c.warned \subseteq warned
  OBVIOUS
<1> HIDE DEF r, t, c
<1>7. bound \subseteq decidedOn \cup {RescoreFor(x)}
  BY <1>1, <1>2, <1>3, <1>5, <1>6
<1>8. TraceEvals \cap decidedOn \subseteq bound \/ "trace" \in warned
  BY <1>2, <1>5, <1>6
<1>9. Compat \in bound \/ "compat" \in warned
  BY <1>3, <1>6
<1>10. Rescores \cap {RescoreFor(x)} \subseteq bound \/ "rescore" \in warned
  BY <1>1, <1>6
<1> QED
  BY <1>4, <1>7, <1>8, <1>9, <1>10

\* An export that takes no step stays in step with the evidence it has bound.
LEMMA ExportKept ==
  ASSUME TypeOK, WholeEvidenceStays, WholeGatesStay, NEW x \in Exports, ExportFits(x),
         export'[x] = export[x]
  PROVE  ExportFits(x)'
<1>1. /\ export[x].gate \in Gates \cup {None} /\ export[x].bound \subseteq Evidence \cup {Compat}
  BY ExportRequested DEF ExportRecord
<1>2. \A e \in export[x].bound : ManifestOf(e)' = "whole"
  <2> SUFFICES ASSUME NEW e \in export[x].bound PROVE ManifestOf(e)' = "whole"
    OBVIOUS
  <2>1. ManifestOf(e) = "whole"
    BY DEF ExportFits
  <2>2. CASE e \in Evidence
    <3>1. evidence'[e].manifest = "whole"
      BY <2>1, <2>2, Manifests DEF WholeEvidenceStays
    <3> QED
      BY <2>2, <3>1, Names DEF ManifestOf
  <2>3. CASE e = Compat
    BY <2>3, Names DEF ManifestOf
  <2> QED
    BY <1>1, <2>2, <2>3
<1>3. export[x].gate # None => /\ gate[export[x].gate].manifest = "whole"
                              /\ gate'[export[x].gate] = gate[export[x].gate]
  BY <1>1 DEF ExportFits, WholeGatesStay
<1>4. export[x].gate # None /\ FollowsGate(x) => FollowsGate(x)'
  BY <1>3 DEF FollowsGate
<1> QED
  BY <1>2, <1>3, <1>4 DEF ExportFits
LEMMA ExportRewritten ==
  ASSUME TypeOK, ExportsInStep, NEW x \in Exports, NEW new \in ExportRecord,
         export' = [export EXCEPT ![x] = new], UNCHANGED <<evidence, gate>>, ExportFits(x)'
  PROVE  export' \in [Exports -> ExportRecord] /\ ExportsInStep'
<1>1. \A y \in Exports : y # x => export'[y] = export[y]
  BY DEF TypeOK
<1>2. export' \in [Exports -> ExportRecord]
  BY DEF TypeOK
<1>3. WholeEvidenceStays /\ WholeGatesStay
  BY DEF WholeEvidenceStays, WholeGatesStay
<1>4. ASSUME NEW y \in Exports, y # x PROVE ExportFits(y)'
  <2>1. ExportFits(y) /\ export'[y] = export[y]
    BY <1>1, <1>4 DEF ExportsInStep
  <2> QED
    BY <1>3, <2>1, ExportKept
<1> QED
  BY <1>2, <1>4 DEF ExportsInStep

\* A step that only writes the files of an export
LEMMA ExportFiles ==
  ASSUME TypeOK, ExportsInStep, NEW x \in Exports, NEW new \in ExportRecord,
         export' = [export EXCEPT ![x] = new], WholeEvidenceStays, WholeGatesStay,
         UNCHANGED <<evidence, gate>>,
         new.gate = export[x].gate, new.bound = export[x].bound,
         new.warned = export[x].warned, new.request = export[x].request,
         new.pc \notin {"idle", "started", "binding"},
         new.pc \in {"copied", "completing", "sealing", "sums"} \/ new.manifest = "completed"
           => export[x].pc \in {"copied", "completing", "sealing", "sums"}
              \/ export[x].manifest = "completed",
         new.pc \notin {"sums", "done", "dead"} => new.sums = "none",
         new.pc = "sums" => new.sums = "torn",
         new.pc = "dead" => new.sums \in {"none", "torn"},
         new.pc \in {"sealing", "sums"} => new.manifest = "completed",
         new.pc = "done" => \/ new.manifest = "completed" /\ new.sums = "completed"
                            \/ new.manifest = "stopped" /\ new.sums = "none"
  PROVE  export' \in [Exports -> ExportRecord] /\ ExportsInStep'
<1>1. export'[x] = new /\ ExportFits(x)
  BY DEF TypeOK, ExportsInStep
<1>2. \A e : ManifestOf(e)' = ManifestOf(e)
  BY DEF ManifestOf
<1>3. FollowsGate(x) => FollowsGate(x)'
  BY <1>1 DEF FollowsGate
<1>4. /\ \A e \in export[x].bound : ManifestOf(e) = "whole"
      /\ export[x].gate # None => gate[export[x].gate].manifest = "whole"
      /\ export[x].gate # None
         /\ (export[x].pc \in {"copied", "completing", "sealing", "sums"}
             \/ export[x].manifest = "completed")
         => FollowsGate(x)
  BY <1>1 DEF ExportFits
<1>5. ExportFits(x)'
  BY <1>1, <1>2, <1>3, <1>4 DEF ExportFits
<1> QED
  BY <1>5, ExportRewritten

\* A step that takes up a request, its gate or its evidence
LEMMA ExportBinds ==
  ASSUME TypeOK, GatesInStep, ExportsInStep, NEW x \in Exports,
         BeginExport(x) \/ BindGate(x) \/ BindEvidence(x)
  PROVE  export' \in [Exports -> ExportRecord] /\ ExportsInStep'
<1>1. export[x] \in ExportRecord /\ ExportFits(x)
  BY DEF TypeOK, ExportsInStep
<1>2. UNCHANGED <<evidence, gate>>
  BY DEF BeginExport, BindGate, BindEvidence, OnlyExport
<1>3. \A e : ManifestOf(e)' = ManifestOf(e)
  BY <1>2 DEF ManifestOf
<1>4. CASE BeginExport(x)
  <2>1. PICK q \in ExportRequests : export' = [export EXCEPT ![x].pc = "started", ![x].request = q]
    BY <1>4 DEF BeginExport
  <2> DEFINE new == [export[x] EXCEPT !.pc = "started", !.request = q]
  <2>2. export[x].pc = "idle"
    BY <1>4, NamesDistinct DEF BeginExport, MayStart, PcOf, Workers
  <2>3. /\ new \in ExportRecord /\ new.pc = "started" /\ new.gate = export[x].gate
        /\ new.bound = export[x].bound /\ new.warned = export[x].warned
        /\ new.manifest = export[x].manifest /\ new.sums = export[x].sums
    BY <1>1 DEF ExportRecord
  <2>4. export' = [export EXCEPT ![x] = new]
    BY <2>1 DEF TypeOK
  <2> HIDE DEF new
  <2>5. export'[x] = new
    BY <2>4 DEF TypeOK
  <2>6. export[x].gate = None /\ export[x].bound = {} /\ export[x].sums = "none"
        /\ export[x].manifest = "none"
    BY <1>1, <2>2 DEF ExportFits
  <2>7. ExportFits(x)'
    BY <2>3, <2>5, <2>6 DEF ExportFits
  <2> QED
    BY <1>2, <2>3, <2>4, <2>7, ExportRewritten
<1>5. CASE BindGate(x)
  <2> DEFINE g == Select(Gates, export[x].request.gate)
             warned == IF g = None THEN {"gate"} ELSE {}
             new == [export[x] EXCEPT !.pc = "binding", !.gate = g, !.warned = warned]
  <2>1. /\ export[x].pc = "started"
        /\ export' = [export EXCEPT ![x].pc = "binding", ![x].gate = g, ![x].warned = warned]
    BY <1>5 DEF BindGate, ExportStep
  <2>2. g \in Gates \cup {None} /\ (g # None => Readable(g))
    BY SelectedCanBeRead, ExportRequested, Names
  <2>3. g # None => gate[g].manifest = "whole"
    BY <2>2, Manifests DEF Readable
  <2> HIDE DEF g
  <2>4. warned \in SUBSET {"gate", "rescore", "trace", "compat"}
    OBVIOUS
  <2> HIDE DEF warned
  <2>5. /\ new \in ExportRecord /\ new.pc = "binding" /\ new.gate = g
        /\ new.bound = export[x].bound /\ new.manifest = export[x].manifest
        /\ new.sums = export[x].sums
    BY <1>1, <2>2, <2>4 DEF ExportRecord
  <2>6. export' = [export EXCEPT ![x] = new]
    BY <2>1 DEF TypeOK
  <2> HIDE DEF new
  <2>7. export'[x] = new
    BY <2>6 DEF TypeOK
  <2>8. export[x].bound = {} /\ export[x].sums = "none" /\ export[x].manifest = "none"
    BY <1>1, <2>1 DEF ExportFits
  <2>9. ExportFits(x)'
    BY <1>2, <2>3, <2>5, <2>7, <2>8 DEF ExportFits
  <2> QED
    BY <1>2, <2>5, <2>6, <2>9, ExportRewritten
<1>6. CASE BindEvidence(x)
  <2> DEFINE found == {CollectRescore(x), CollectTrace(x), CollectCompat(x)}
             bound == UNION {f.dirs : f \in found}
             warned == export[x].warned \cup UNION {f.warned : f \in found}
             new == [export[x] EXCEPT !.pc = "copied", !.bound = bound, !.warned = warned]
  <2>1. export[x].pc = "binding"
    BY <1>6 DEF BindEvidence, ExportStep
  <2>2. export' = [export EXCEPT ![x].pc = "copied", ![x].bound = bound,
                                 ![x].warned = @ \cup UNION {f.warned : f \in found}]
    BY <1>6 DEF BindEvidence
  <2>3. bound = CollectRescore(x).dirs \cup CollectTrace(x).dirs \cup CollectCompat(x).dirs
    OBVIOUS
  <2>4. warned = export[x].warned \cup (CollectRescore(x).warned \cup CollectTrace(x).warned
                                        \cup CollectCompat(x).warned)
    OBVIOUS
  <2>5. export' = [export EXCEPT ![x] = new]
    BY <2>2 DEF TypeOK
  <2> HIDE DEF found, bound, warned
  <2>6. /\ Collected(x, CollectRescore(x), Rescores, "rescore")
        /\ Collected(x, CollectTrace(x), TraceEvals, "trace")
        /\ Collected(x, CollectCompat(x), {Compat}, "compat")
    BY RescoreCollected, TraceCollected, CompatCollected
  <2>7. /\ bound \in SUBSET (Evidence \cup {Compat})
        /\ \A e \in bound : ManifestOf(e) = "whole"
    BY <2>3, <2>6, Names DEF Collected
  <2>8. warned \in SUBSET {"gate", "rescore", "trace", "compat"}
    BY <1>1, <2>4, <2>6 DEF Collected, ExportRecord
  <2>9. /\ new \in ExportRecord /\ new.pc = "copied" /\ new.gate = export[x].gate
        /\ new.request = export[x].request /\ new.bound = bound /\ new.warned = warned
        /\ new.manifest = export[x].manifest /\ new.sums = export[x].sums
    BY <1>1, <2>7, <2>8 DEF ExportRecord
  <2> HIDE DEF new
  <2>10. export'[x] = new
    BY <2>5 DEF TypeOK
  <2>11. export[x].gate # None => gate[export[x].gate].manifest = "whole"
    BY <1>1 DEF ExportFits
  <2>12. ASSUME export[x].gate # None PROVE FollowsGate(x)'
    BY <1>2, <2>3, <2>4, <2>9, <2>10, <2>11, <2>12, BoundFollowsGate DEF FollowsGate
  <2>13. export[x].sums = "none"
    BY <1>1, <2>1 DEF ExportFits
  <2>14. \A e \in export'[x].bound : ManifestOf(e)' = "whole"
    BY <1>3, <2>7, <2>9, <2>10
  <2>15. ExportFits(x)'
    BY <1>2, <2>9, <2>10, <2>11, <2>12, <2>13, <2>14 DEF ExportFits
  <2> QED
    BY <1>2, <2>5, <2>9, <2>15, ExportRewritten
<1> QED
  BY <1>4, <1>5, <1>6
LEMMA ExportWrites ==
  ASSUME TypeOK, ExportsInStep, NEW x \in Exports,
         \/ StopExportEarly(x) \/ OpenExportManifest(x) \/ WriteExportManifest(x)
         \/ SealOrStop(x) \/ WriteSums(x)
  PROVE  export' \in [Exports -> ExportRecord] /\ ExportsInStep'
<1>1. export[x] \in ExportRecord /\ ExportFits(x)
  BY DEF TypeOK, ExportsInStep
<1>2. UNCHANGED <<evidence, gate>>
  BY DEF StopExportEarly, OpenExportManifest, WriteExportManifest, SealOrStop, WriteSums, OnlyExport
<1>3. WholeEvidenceStays /\ WholeGatesStay
  BY <1>2 DEF WholeEvidenceStays, WholeGatesStay
<1>4. CASE StopExportEarly(x)
  <2>1. export[x].pc = "started" /\ export[x].sums = "none"
    BY <1>1, <1>4 DEF StopExportEarly, ExportStep, ExportFits
  <2> DEFINE new == [export[x] EXCEPT !.pc = "stopping", !.manifest = "torn"]
  <2>a. /\ new \in ExportRecord /\ new.pc = "stopping" /\ new.gate = export[x].gate
        /\ new.request = export[x].request /\ new.bound = export[x].bound
        /\ new.warned = export[x].warned /\ new.manifest = "torn"
        /\ new.sums = export[x].sums
    BY <1>1 DEF ExportRecord
  <2>b. export' = [export EXCEPT ![x].pc = "stopping", ![x].manifest = "torn"]
    BY <1>4 DEF StopExportEarly
  <2>c. export' = [export EXCEPT ![x] = new]
    BY <2>b DEF TypeOK
  <2> HIDE DEF new
  <2> QED
    BY <1>2, <1>3, <2>1, <2>a, <2>c, ExportFiles
<1>5. CASE OpenExportManifest(x)
  <2>1. export[x].pc = "copied" /\ export[x].sums = "none"
    BY <1>1, <1>5 DEF OpenExportManifest, ExportStep, ExportFits
  <2>2. CASE x \in stop
    <3> DEFINE new == [export[x] EXCEPT !.pc = "stopping", !.manifest = "torn"]
    <3>a. /\ new \in ExportRecord /\ new.pc = "stopping" /\ new.gate = export[x].gate
          /\ new.request = export[x].request /\ new.bound = export[x].bound
          /\ new.warned = export[x].warned /\ new.manifest = "torn"
          /\ new.sums = export[x].sums
      BY <1>1 DEF ExportRecord
    <3>b. export' = [export EXCEPT ![x].pc = "stopping", ![x].manifest = "torn"]
      BY <1>5, <2>2 DEF OpenExportManifest
    <3>c. export' = [export EXCEPT ![x] = new]
      BY <3>b DEF TypeOK
    <3> HIDE DEF new
    <3> QED
      BY <1>2, <1>3, <2>1, <3>a, <3>c, ExportFiles
  <2>3. CASE x \notin stop
    <3> DEFINE new == [export[x] EXCEPT !.pc = "completing", !.manifest = "torn"]
    <3>a. /\ new \in ExportRecord /\ new.pc = "completing" /\ new.gate = export[x].gate
          /\ new.request = export[x].request /\ new.bound = export[x].bound
          /\ new.warned = export[x].warned /\ new.manifest = "torn"
          /\ new.sums = export[x].sums
      BY <1>1 DEF ExportRecord
    <3>b. export' = [export EXCEPT ![x].pc = "completing", ![x].manifest = "torn"]
      BY <1>5, <2>3 DEF OpenExportManifest
    <3>c. export' = [export EXCEPT ![x] = new]
      BY <3>b DEF TypeOK
    <3> HIDE DEF new
    <3> QED
      BY <1>2, <1>3, <2>1, <3>a, <3>c, ExportFiles
  <2> QED
    BY <2>2, <2>3
<1>6. CASE WriteExportManifest(x)
  <2>1. export[x].pc \in {"completing", "stopping"} /\ export[x].sums = "none"
    BY <1>1, <1>6 DEF WriteExportManifest, ExportStep, ExportFits
  <2>2. CASE export[x].pc = "completing"
    <3> DEFINE new == [export[x] EXCEPT !.pc = "sealing", !.manifest = "completed"]
    <3>a. /\ new \in ExportRecord /\ new.pc = "sealing" /\ new.gate = export[x].gate
          /\ new.request = export[x].request /\ new.bound = export[x].bound
          /\ new.warned = export[x].warned /\ new.manifest = "completed"
          /\ new.sums = export[x].sums
      BY <1>1 DEF ExportRecord
    <3>b. export' = [export EXCEPT ![x].pc = "sealing", ![x].manifest = "completed"]
      BY <1>1, <1>6, <2>2 DEF WriteExportManifest, TypeOK, ExportRecord
    <3>c. export' = [export EXCEPT ![x] = new]
      BY <3>b DEF TypeOK
    <3> HIDE DEF new
    <3> QED
      BY <1>2, <1>3, <2>1, <2>2, <3>a, <3>c, ExportFiles
  <2>3. CASE export[x].pc = "stopping"
    <3> DEFINE new == [export[x] EXCEPT !.pc = "done", !.manifest = "stopped"]
    <3>a. /\ new \in ExportRecord /\ new.pc = "done" /\ new.gate = export[x].gate
          /\ new.request = export[x].request /\ new.bound = export[x].bound
          /\ new.warned = export[x].warned /\ new.manifest = "stopped"
          /\ new.sums = export[x].sums
      BY <1>1 DEF ExportRecord
    <3>b. export' = [export EXCEPT ![x].pc = "done", ![x].manifest = "stopped"]
      BY <1>1, <1>6, <2>3 DEF WriteExportManifest, TypeOK, ExportRecord
    <3>c. export' = [export EXCEPT ![x] = new]
      BY <3>b DEF TypeOK
    <3> HIDE DEF new
    <3> QED
      BY <1>2, <1>3, <2>1, <2>3, <3>a, <3>c, ExportFiles
  <2> QED
    BY <2>1, <2>2, <2>3
<1>7. CASE SealOrStop(x)
  <2>1. export[x].pc = "sealing" /\ export[x].sums = "none" /\ export[x].manifest = "completed"
    BY <1>1, <1>7 DEF SealOrStop, ExportStep, ExportFits
  <2>2. CASE x \in stop
    <3> DEFINE new == [export[x] EXCEPT !.pc = "stopping", !.manifest = "torn"]
    <3>a. /\ new \in ExportRecord /\ new.pc = "stopping" /\ new.gate = export[x].gate
          /\ new.request = export[x].request /\ new.bound = export[x].bound
          /\ new.warned = export[x].warned /\ new.manifest = "torn"
          /\ new.sums = export[x].sums
      BY <1>1 DEF ExportRecord
    <3>b. export' = [export EXCEPT ![x].pc = "stopping", ![x].manifest = "torn"]
      BY <1>7, <2>2 DEF SealOrStop
    <3>c. export' = [export EXCEPT ![x] = new]
      BY <3>b DEF TypeOK
    <3> HIDE DEF new
    <3> QED
      BY <1>2, <1>3, <2>1, <3>a, <3>c, ExportFiles
  <2>3. CASE x \notin stop
    <3> DEFINE new == [export[x] EXCEPT !.pc = "sums", !.sums = "torn"]
    <3>a. /\ new \in ExportRecord /\ new.pc = "sums" /\ new.gate = export[x].gate
          /\ new.request = export[x].request /\ new.bound = export[x].bound
          /\ new.warned = export[x].warned /\ new.manifest = export[x].manifest
          /\ new.sums = "torn"
      BY <1>1 DEF ExportRecord
    <3>b. export' = [export EXCEPT ![x].pc = "sums", ![x].sums = "torn"]
      BY <1>7, <2>3 DEF SealOrStop
    <3>c. export' = [export EXCEPT ![x] = new]
      BY <3>b DEF TypeOK
    <3> HIDE DEF new
    <3> QED
      BY <1>2, <1>3, <2>1, <3>a, <3>c, ExportFiles
  <2> QED
    BY <2>2, <2>3
<1>8. CASE WriteSums(x)
  <2>1. export[x].pc = "sums" /\ export[x].manifest = "completed"
    BY <1>1, <1>8 DEF WriteSums, ExportStep, ExportFits
  <2> DEFINE new == [export[x] EXCEPT !.pc = "done", !.sums = export[x].manifest]
  <2>a. /\ new \in ExportRecord /\ new.pc = "done" /\ new.gate = export[x].gate
        /\ new.request = export[x].request /\ new.bound = export[x].bound
        /\ new.warned = export[x].warned /\ new.manifest = export[x].manifest
        /\ new.sums = export[x].manifest
    BY <1>1 DEF ExportRecord
  <2>b. export' = [export EXCEPT ![x].pc = "done", ![x].sums = export[x].manifest]
    BY <1>8 DEF WriteSums
  <2>c. export' = [export EXCEPT ![x] = new]
    BY <2>b DEF TypeOK
  <2> HIDE DEF new
  <2> QED
    BY <1>2, <1>3, <2>1, <2>a, <2>c, ExportFiles
<1> QED
  BY <1>4, <1>5, <1>6, <1>7, <1>8
-----------------------------------------------------------------------------
(* Every step                                                              *)

LEMMA EvidenceKept ==
  ASSUME EvidenceInStep, UNCHANGED <<runId, evidence>>
  PROVE  EvidenceInStep' /\ WholeEvidenceStays
<1>1. Length' = Length /\ run' = run
  BY DEF Length, run
<1>2. \A e, i, marked : MarkFits(e, i, marked)' = MarkFits(e, i, marked)
  BY <1>1 DEF MarkFits
<1>3. EvidenceInStep'
  BY <1>1, <1>2 DEF EvidenceInStep, EvidenceFits
<1> QED
  BY <1>3 DEF WholeEvidenceStays

LEMMA GatesKept ==
  ASSUME TypeOK, GatesInStep, WholeEvidenceStays, UNCHANGED <<runId, gate>>
  PROVE  GatesInStep' /\ WholeGatesStay
BY GateKept DEF GatesInStep, WholeGatesStay

LEMMA ExportsKept ==
  ASSUME TypeOK, ExportsInStep, WholeEvidenceStays, WholeGatesStay, UNCHANGED export
  PROVE  ExportsInStep'
BY ExportKept DEF ExportsInStep

LEMMA RegistryKept ==
  ASSUME RegistryInStep, UNCHANGED <<registry, clerk, settled, raced>>
  PROVE  RegistryInStep'
BY DEF RegistryInStep, Registries

LEMMA ClerkStep ==
  ASSUME TypeOK, RegistryInStep, NEW c \in Clerks, ClerkNext(c)
  PROVE  TypeOK' /\ RegistryInStep' /\ UNCHANGED <<runId, evidence, gate, export>>
<1>1. ASSUME NEW e \in Archivable, NEW restoring \in BOOLEAN, BeginClerk(c, e, restoring)
      PROVE  TypeOK' /\ RegistryInStep'
  <2> DEFINE new == [pc |-> "write", id |-> e, restoring |-> restoring, read |-> registry]
  <2>1. /\ clerk' = [clerk EXCEPT ![c] = new] /\ clerk[c].pc = "idle"
        /\ troubles < MaxTroubles /\ troubles' = troubles + 1
        /\ raced' = (raced \/ \E d \in Clerks : clerk[d].pc # "idle")
        /\ settled' = IF raced' THEN {} ELSE IF restoring THEN settled \ {e} ELSE settled
        /\ UNCHANGED <<runId, evidence, newest, gate, export, registry, stop>>
    BY <1>1 DEF BeginClerk
  <2>2. /\ new \in ClerkRecord /\ new.pc = "write" /\ new.id = e /\ new.restoring = restoring
        /\ new.read = registry /\ registry \in Registries
    BY DEF TypeOK, ClerkRecord
  <2> HIDE DEF new
  <2>3. clerk'[c] = new /\ \A d \in Clerks : d # c => clerk'[d] = clerk[d]
    BY <2>1 DEF TypeOK
  <2>4. clerk' \in [Clerks -> ClerkRecord]
    BY <2>1, <2>2 DEF TypeOK
  <2>5. troubles' \in 0 .. MaxTroubles
    BY <2>1, BoundsAssumption DEF TypeOK
  <2>6. raced' \in BOOLEAN /\ settled' \subseteq settled
    BY <2>1
  <2>7. TypeOK'
    BY <2>1, <2>4, <2>5, <2>6 DEF TypeOK
  <2>8. \A d \in settled' : registry'[d] = "archived"
    BY <2>1, <2>6 DEF RegistryInStep
  <2>9. raced' => settled' = {}
    BY <2>1
  <2>10. \A d \in Clerks : clerk'[d].pc # "idle" =>
           clerk'[d].id \in Archivable /\ clerk'[d].read \in Registries
    BY <2>2, <2>3 DEF RegistryInStep
  <2>11. ASSUME ~raced', NEW d \in Clerks, clerk'[d].pc # "idle"
         PROVE  d = c
    BY <2>1, <2>3, <2>11
  <2>12. ~raced' => clerk'[c].read = registry' /\ (clerk'[c].restoring => clerk'[c].id \notin settled')
    BY <2>1, <2>2, <2>3
  <2> QED
    BY <2>7, <2>8, <2>9, <2>10, <2>11, <2>12 DEF RegistryInStep, Registries
<1>2. ASSUME FinishClerk(c) PROVE TypeOK' /\ RegistryInStep'
  <2> DEFINE id == clerk[c].id
  <2>1. /\ clerk[c].pc = "write"
        /\ registry' = [clerk[c].read EXCEPT ![id] = IF clerk[c].restoring THEN "restored"
                                                     ELSE "archived"]
        /\ clerk' = [clerk EXCEPT ![c] = ClerkStart]
        /\ settled' = IF raced \/ clerk[c].restoring THEN settled ELSE settled \cup {id}
        /\ UNCHANGED <<runId, evidence, newest, gate, export, stop, troubles, raced>>
    BY <1>2 DEF FinishClerk, UpdatedEntry
  <2>2. id \in Archivable /\ clerk[c].read \in Registries
    BY <2>1 DEF RegistryInStep
  <2> HIDE DEF id
  <2>3. registry' \in Registries
    BY <2>1, <2>2 DEF Registries
  <2>4. ClerkStart \in ClerkRecord /\ ClerkStart.pc = "idle"
    BY DEF ClerkStart, ClerkRecord
  <2>5. clerk'[c].pc = "idle" /\ \A d \in Clerks : d # c => clerk'[d] = clerk[d]
    BY <2>1, <2>4 DEF TypeOK
  <2>6. clerk' \in [Clerks -> ClerkRecord]
    BY <2>1, <2>4 DEF TypeOK
  <2>7. settled' \subseteq Archivable
    BY <2>1, <2>2 DEF TypeOK
  <2>8. TypeOK'
    BY <2>1, <2>3, <2>6, <2>7 DEF TypeOK
  <2>9. \A d \in settled' : registry'[d] = "archived"
    <3>1. CASE raced
      BY <2>1, <3>1 DEF RegistryInStep
    <3>2. CASE ~raced
      <4>1. clerk[c].read = registry /\ (clerk[c].restoring => id \notin settled)
        BY <2>1, <3>2 DEF RegistryInStep, id
      <4>2. \A d \in Archivable : d # id => registry'[d] = registry[d]
        BY <2>1, <2>2, <4>1 DEF Registries
      <4>3. ~clerk[c].restoring => registry'[id] = "archived"
        BY <2>1, <2>2 DEF Registries
      <4>4. \A d \in settled : registry[d] = "archived"
        BY DEF RegistryInStep
      <4> QED
        BY <2>1, <2>7, <3>2, <4>1, <4>2, <4>3, <4>4
    <3> QED
      BY <3>1, <3>2
  <2>10. raced' => settled' = {}
    BY <2>1 DEF RegistryInStep
  <2>11. ASSUME ~raced', NEW d \in Clerks PROVE clerk'[d].pc = "idle"
    BY <2>1, <2>5, <2>11 DEF RegistryInStep
  <2>12. \A d \in Clerks : clerk'[d].pc # "idle" =>
           clerk'[d].id \in Archivable /\ clerk'[d].read \in Registries
    BY <2>5 DEF RegistryInStep
  <2> QED
    BY <2>8, <2>9, <2>10, <2>11, <2>12 DEF RegistryInStep, Registries
<1>3. UNCHANGED <<runId, evidence, gate, export>>
  BY DEF ClerkNext, BeginClerk, FinishClerk
<1> QED
  BY <1>1, <1>2, <1>3 DEF ClerkNext
LEMMA DieStep ==
  ASSUME PipelineInv, NEW w \in Workers, Die(w)
  PROVE  PipelineInv' /\ WholeEvidenceStays /\ WholeGatesStay
<1> USE DEF PipelineInv
<1>1. /\ UnderWay(w) /\ troubles < MaxTroubles /\ troubles' = troubles + 1
      /\ UNCHANGED <<runId, newest, registry, clerk, stop, settled, raced>>
      /\ evidence' = IF w \in Evidence THEN [evidence EXCEPT ![w].pc = "dead"] ELSE evidence
      /\ gate' = IF w \in Gates THEN [gate EXCEPT ![w].pc = "dead"] ELSE gate
      /\ export' = IF w \in Exports THEN [export EXCEPT ![w].pc = "dead"] ELSE export
  BY DEF Die
<1>2. troubles' \in 0 .. MaxTroubles
  BY <1>1, BoundsAssumption DEF TypeOK
<1>3. RegistryInStep'
  BY <1>1, RegistryKept
<1>4. CASE w \in Evidence
  <2> DEFINE new == [evidence[w] EXCEPT !.pc = "dead"]
  <2>1. gate' = gate /\ export' = export /\ evidence' = [evidence EXCEPT ![w].pc = "dead"]
    BY <1>1, <1>4, NamesDistinct
  <2>2. evidence[w] \in EvidenceRecord /\ EvidenceFits(w) /\ evidence[w].pc # "done"
    BY <1>1, <1>4 DEF TypeOK, EvidenceInStep, UnderWay, PcOf
  <2>3. /\ new \in EvidenceRecord /\ new.marks = evidence[w].marks /\ new.pc = "dead"
        /\ new.manifest = evidence[w].manifest
    BY <2>2 DEF EvidenceRecord
  <2>4. evidence' = [evidence EXCEPT ![w] = new]
    BY <2>1 DEF TypeOK
  <2> HIDE DEF new
  <2>5. evidence' \in [Evidence -> EvidenceRecord] /\ EvidenceInStep' /\ WholeEvidenceStays
    BY <1>1, <1>4, <2>2, <2>3, <2>4, EvidenceRewritten DEF EvidenceFits
  <2>6. GatesInStep' /\ WholeGatesStay
    BY <1>1, <2>1, <2>5, GatesKept
  <2>7. ExportsInStep'
    BY <2>1, <2>5, <2>6, ExportsKept
  <2>8. TypeOK'
    BY <1>1, <1>2, <2>1, <2>5 DEF TypeOK
  <2> QED
    BY <1>3, <2>5, <2>6, <2>7, <2>8
<1>5. CASE w \in Gates
  <2> DEFINE new == [gate[w] EXCEPT !.pc = "dead"]
  <2>1. evidence' = evidence /\ export' = export /\ gate' = [gate EXCEPT ![w].pc = "dead"]
    BY <1>1, <1>5, NamesDistinct
  <2>2. gate[w] \in GateRecord /\ GateFits(w) /\ gate[w].pc # "done"
    BY <1>1, <1>5, Names DEF TypeOK, GatesInStep, UnderWay, PcOf
  <2>3. /\ new \in GateRecord /\ new.pc = "dead" /\ new.request = gate[w].request
        /\ new.rescore = gate[w].rescore /\ new.trace = gate[w].trace
        /\ new.compat = gate[w].compat /\ new.decision = gate[w].decision
        /\ new.manifest = gate[w].manifest
    BY <2>2 DEF GateRecord
  <2>4. gate' = [gate EXCEPT ![w] = new]
    BY <2>1 DEF TypeOK
  <2> HIDE DEF new
  <2>5. gate'[w] = new
    BY <1>5, <2>4 DEF TypeOK
  <2>6. \A stale \in BOOLEAN : GateEvidence(w, stale)' = GateEvidence(w, stale)
    BY <1>1, <2>3, <2>5, SameEvidence
  <2>7. /\ ReadWhole(gate[w].rescore, Rescores, gate[w].request.rescore)'
        /\ ReadWhole(gate[w].trace, TraceEvals, gate[w].request.trace)'
    BY <2>1, <2>2, <2>3, <2>5 DEF ReadWhole, GateFits
  <2>8. GateFits(w)' /\ gate[w].manifest # "whole"
    BY <2>2, <2>3, <2>5, <2>6, <2>7 DEF GateFits
  <2>9. gate' \in [Gates -> GateRecord] /\ GatesInStep' /\ WholeGatesStay
    BY <1>1, <1>5, <2>1, <2>3, <2>4, <2>8, GateRewritten
  <2>10. EvidenceInStep' /\ WholeEvidenceStays
    BY <1>1, <2>1, EvidenceKept
  <2>11. ExportsInStep'
    BY <2>1, <2>9, <2>10, ExportsKept
  <2>12. TypeOK'
    BY <1>1, <1>2, <2>1, <2>9 DEF TypeOK
  <2> QED
    BY <1>3, <2>9, <2>10, <2>11, <2>12
<1>6. CASE w \in Exports
  <2> DEFINE new == [export[w] EXCEPT !.pc = "dead"]
  <2>1. evidence' = evidence /\ gate' = gate /\ export' = [export EXCEPT ![w].pc = "dead"]
    BY <1>1, <1>6, NamesDistinct
  <2>2. export[w] \in ExportRecord /\ ExportFits(w) /\ export[w].pc \notin {"done", "dead"}
    BY <1>1, <1>6, NamesDistinct DEF TypeOK, ExportsInStep, UnderWay, PcOf
  <2>3. /\ new \in ExportRecord /\ new.pc = "dead" /\ new.gate = export[w].gate
        /\ new.request = export[w].request /\ new.bound = export[w].bound
        /\ new.warned = export[w].warned /\ new.manifest = export[w].manifest
        /\ new.sums = export[w].sums
    BY <2>2 DEF ExportRecord
  <2>4. export' = [export EXCEPT ![w] = new]
    BY <2>1 DEF TypeOK
  <2> HIDE DEF new
  <2>5. export[w].sums \in {"none", "torn"}
    BY <2>2 DEF ExportFits
  <2>6. EvidenceInStep' /\ WholeEvidenceStays
    BY <1>1, <2>1, EvidenceKept
  <2>7. GatesInStep' /\ WholeGatesStay
    BY <1>1, <2>1, <2>6, GatesKept
  <2>8. export' \in [Exports -> ExportRecord] /\ ExportsInStep'
    <3>1. /\ new.pc \notin {"idle", "started", "binding", "copied", "completing", "sealing", "sums",
                           "done"}
          /\ new.manifest = "completed" => export[w].manifest = "completed"
          /\ new.sums \in {"none", "torn"} /\ UNCHANGED <<evidence, gate>>
      BY <2>1, <2>3, <2>5
    <3> QED
      BY <1>6, <2>3, <2>4, <2>6, <2>7, <3>1, ExportFiles
  <2>9. TypeOK'
    BY <1>1, <1>2, <2>1, <2>8 DEF TypeOK
  <2> QED
    BY <1>3, <2>6, <2>7, <2>8, <2>9
<1> QED
  BY <1>4, <1>5, <1>6 DEF Workers

LEMMA ExportStepKeeps ==
  ASSUME PipelineInv, NEW x \in Exports, ExportNext(x)
  PROVE  /\ PipelineInv' /\ WholeEvidenceStays /\ WholeGatesStay
         /\ UNCHANGED <<evidence, gate, registry, settled>>
<1> USE DEF PipelineInv
<1>1. UNCHANGED <<runId, evidence, newest, gate, registry, clerk, stop, troubles, settled, raced>>
  BY DEF ExportNext, BeginExport, StopExportEarly, BindGate, BindEvidence, OpenExportManifest,
         WriteExportManifest, SealOrStop, WriteSums, OnlyExport
<1>2. export' \in [Exports -> ExportRecord] /\ ExportsInStep'
  BY ExportBinds, ExportWrites DEF ExportNext
<1>3. EvidenceInStep' /\ WholeEvidenceStays
  BY <1>1, EvidenceKept
<1>4. GatesInStep' /\ WholeGatesStay
  BY <1>1, <1>3, GatesKept
<1>5. RegistryInStep'
  BY <1>1, RegistryKept
<1>6. TypeOK'
  BY <1>1, <1>2 DEF TypeOK
<1> QED
  BY <1>1, <1>2, <1>3, <1>4, <1>5, <1>6

LEMMA PipelineInvNext ==
  PipelineInv /\ [Next]_vars => PipelineInv' /\ WholeEvidenceStays /\ WholeGatesStay
<1> SUFFICES ASSUME PipelineInv, [Next]_vars
             PROVE  PipelineInv' /\ WholeEvidenceStays /\ WholeGatesStay
  OBVIOUS
<1> USE DEF PipelineInv
<1>1. ASSUME NEW e \in Evidence, EvidenceNext(e)
      PROVE  PipelineInv' /\ WholeEvidenceStays /\ WholeGatesStay
  <2>1. /\ TypeOK' /\ EvidenceInStep' /\ WholeEvidenceStays
        /\ UNCHANGED <<runId, gate, export, registry, clerk, settled, raced>>
    BY <1>1, EvidenceStep
  <2>2. GatesInStep' /\ WholeGatesStay
    BY <2>1, GatesKept
  <2> QED
    BY <2>1, <2>2, ExportsKept, RegistryKept
<1>2. ASSUME NEW g \in Gates, GateNext(g)
      PROVE  PipelineInv' /\ WholeEvidenceStays /\ WholeGatesStay
  <2>1. /\ TypeOK' /\ GatesInStep' /\ WholeGatesStay
        /\ UNCHANGED <<runId, evidence, export, registry, clerk, settled, raced>>
    BY <1>2, GateStep
  <2>2. EvidenceInStep' /\ WholeEvidenceStays
    BY <2>1, EvidenceKept
  <2> QED
    BY <2>1, <2>2, ExportsKept, RegistryKept
<1>3. ASSUME NEW x \in Exports, ExportNext(x)
      PROVE  PipelineInv' /\ WholeEvidenceStays /\ WholeGatesStay
  BY <1>3, ExportStepKeeps
<1>4. ASSUME NEW w \in Workers, RequestStop(w)
      PROVE  PipelineInv' /\ WholeEvidenceStays /\ WholeGatesStay
  <2>1. /\ w \in Stoppable /\ stop' = stop \cup {w}
        /\ troubles < MaxTroubles /\ troubles' = troubles + 1
        /\ UNCHANGED <<runId, evidence, newest, gate, export, registry, clerk, settled, raced>>
    BY <1>4 DEF RequestStop
  <2>2. troubles' \in 0 .. MaxTroubles
    BY <2>1, BoundsAssumption DEF TypeOK
  <2>3. TypeOK'
    BY <2>1, <2>2 DEF TypeOK
  <2>4. EvidenceInStep' /\ WholeEvidenceStays
    BY <2>1, EvidenceKept
  <2>5. GatesInStep' /\ WholeGatesStay
    BY <2>1, <2>4, GatesKept
  <2> QED
    BY <2>1, <2>3, <2>4, <2>5, ExportsKept, RegistryKept
<1>5. ASSUME NEW w \in Workers, Die(w)
      PROVE  PipelineInv' /\ WholeEvidenceStays /\ WholeGatesStay
  BY <1>5, DieStep
<1>6. ASSUME NEW c \in Clerks, ClerkNext(c)
      PROVE  PipelineInv' /\ WholeEvidenceStays /\ WholeGatesStay
  <2>1. TypeOK' /\ RegistryInStep' /\ UNCHANGED <<runId, evidence, gate, export>>
    BY <1>6, ClerkStep
  <2>2. EvidenceInStep' /\ WholeEvidenceStays
    BY <2>1, EvidenceKept
  <2>3. GatesInStep' /\ WholeGatesStay
    BY <2>1, <2>2, GatesKept
  <2> QED
    BY <2>1, <2>2, <2>3, ExportsKept
<1>7. CASE UNCHANGED vars
  <2>1. UNCHANGED <<runId, evidence, newest, gate, export, registry, clerk, stop, troubles,
                    settled, raced>>
    BY <1>7 DEF vars
  <2>2. EvidenceInStep' /\ WholeEvidenceStays
    BY <2>1, EvidenceKept
  <2>3. GatesInStep' /\ WholeGatesStay
    BY <2>1, <2>2, GatesKept
  <2>4. TypeOK'
    BY <2>1 DEF TypeOK
  <2> QED
    BY <2>1, <2>2, <2>3, <2>4, ExportsKept, RegistryKept
<1> QED
  BY <1>1, <1>2, <1>3, <1>4, <1>5, <1>6, <1>7 DEF Next

LEMMA PipelineInvInit == Init => PipelineInv
<1> SUFFICES ASSUME Init PROVE PipelineInv
  OBVIOUS
<1>1. /\ evidence = [e \in Evidence |-> EvidenceStart] /\ gate = [g \in Gates |-> GateStart]
      /\ export = [x \in Exports |-> ExportStart] /\ clerk = [c \in Clerks |-> ClerkStart]
      /\ registry = [e \in Archivable |-> "none"] /\ newest = <<>> /\ runId \in DOMAIN Runs
      /\ stop = {} /\ troubles = 0 /\ settled = {} /\ raced = FALSE
  BY DEF Init
<1>2. EvidenceStart \in EvidenceRecord
  BY DEF EvidenceStart, EvidenceRecord
<1>3. GateStart \in GateRecord
  <2>1. NothingRead \in Read
    BY DEF NothingRead, Read
  <2> QED
    BY <2>1 DEF GateStart, GateRecord
<1>4. ExportStart \in ExportRecord
  BY DEF ExportStart, ExportRecord
<1>5. ClerkStart \in ClerkRecord /\ ClerkStart.pc = "idle"
  BY DEF ClerkStart, ClerkRecord
<1>6. registry \in Registries
  BY <1>1 DEF Registries
<1>7. TypeOK
  <2>1. /\ evidence \in [Evidence -> EvidenceRecord] /\ gate \in [Gates -> GateRecord]
        /\ export \in [Exports -> ExportRecord] /\ clerk \in [Clerks -> ClerkRecord]
    BY <1>1, <1>2, <1>3, <1>4, <1>5
  <2>2. newest \in Seq(Evidence \cup Gates) /\ troubles \in 0 .. MaxTroubles
    BY <1>1, BoundsAssumption
  <2>3. stop \subseteq Stoppable /\ settled \subseteq Archivable /\ raced \in BOOLEAN
    BY <1>1
  <2> QED
    BY <1>1, <1>6, <2>1, <2>2, <2>3 DEF TypeOK
<1>8. EvidenceInStep
  <2>1. Length \in Nat
    BY <1>7, RunTyped
  <2> QED
    BY <1>1, <2>1 DEF EvidenceInStep, EvidenceFits, EvidenceStart
<1>9. GatesInStep
  <2>1. None # "GO"
    BY Names DEF Decisions
  <2>2. \A g \in Gates : /\ gate[g].pc = "idle" /\ gate[g].rescore = NothingRead
                         /\ gate[g].trace = NothingRead /\ ~gate[g].compat
                         /\ gate[g].decision = None /\ gate[g].manifest = "none"
    BY <1>1 DEF GateStart
  <2> QED
    BY <2>1, <2>2, NothingReadFits DEF GatesInStep, GateFits
<1>10. ExportsInStep
  BY <1>1 DEF ExportsInStep, ExportFits, ExportStart
<1>11. RegistryInStep
  BY <1>1, <1>5 DEF RegistryInStep
<1> QED
  BY <1>7, <1>8, <1>9, <1>10, <1>11 DEF PipelineInv

LEMMA PipelineInvariance == Spec => []PipelineInv
<1>1. PipelineInv /\ [Next]_vars => PipelineInv'
  BY PipelineInvNext
<1> QED
  BY <1>1, PipelineInvInit, PTL DEF Spec

-----------------------------------------------------------------------------
(* Theorems                                                                *)

\* Every variable of the pipeline keeps its shape, whatever the numbers of workers.
THEOREM PipelineTypeCorrect == Spec => []TypeOK
<1>1. PipelineInv => TypeOK
  BY DEF PipelineInv
<1> QED
  BY <1>1, PipelineInvariance, PTL

\* What a gate has read of a rescoring or a trace evaluation is all there will
\* ever be of it, and says so if that is not the whole run
\* (load_rescore_evidence, load_trace_evaluation_evidence).
THEOREM GatesReadFinalEvidence == Spec => []GateReadsFinal
<1>1. PipelineInv => GateReadsFinal
  <2> SUFFICES ASSUME PipelineInv, NEW g \in Gates, NEW kind \in {Rescores, TraceEvals},
                      NEW had, NEW wanted, ReadWhole(had, kind, wanted), had.found
               PROVE  /\ evidence[had.id].pc = "done" /\ evidence[had.id].manifest = "whole"
                      /\ had.marks = evidence[had.id].marks
                      /\ had.stopped = evidence[had.id].stopped
                      /\ had.stopped \/ Len(had.marks) = Length
    BY DEF GateReadsFinal, PipelineInv, GatesInStep, GateFits
  <2>1. had.id \in Evidence
    BY Names DEF ReadWhole
  <2>2. EvidenceFits(had.id)
    BY <2>1 DEF PipelineInv, EvidenceInStep
  <2> QED
    BY <2>2 DEF ReadWhole, EvidenceFits
<1> QED
  BY <1>1, PipelineInvariance, PTL

\* A completed export that found a gate holds the evidence that gate decided on
\* and no other, or says what it left out (collect_bound_evidence_dirs).
THEOREM ExportsFollowTheirGates == Spec => []ExportFollowsGate
<1>1. PipelineInv => ExportFollowsGate
  <2>1. ASSUME PipelineInv, NEW x \in Exports, export[x].manifest = "completed",
               export[x].gate # None
        PROVE  FollowsGate(x)
    BY <2>1 DEF PipelineInv, ExportsInStep, ExportFits
  <2> QED
    BY <2>1 DEF ExportFollowsGate, FollowsGate
<1> QED
  BY <1>1, PipelineInvariance, PTL

\* The checksums of an export fit the manifest that lies beside them, and only
\* a completed export of whole evidence has them (run_audit_export).
THEOREM SealsAreTrue == Spec => []SealedExports
<1>1. PipelineInv => SealedExports
  <2> SUFFICES ASSUME PipelineInv, NEW x \in Exports
               PROVE  /\ export[x].sums \notin {"none", "torn"} => Verifies(x)
                      /\ Verifies(x) => /\ export[x].manifest = "completed"
                                        /\ \A e \in export[x].bound : ManifestOf(e) = "whole"
                      /\ export[x].pc = "done" =>
                           IF export[x].manifest = "completed" THEN Verifies(x)
                           ELSE export[x].manifest = "stopped" /\ export[x].sums = "none"
    BY DEF SealedExports
  <2>1. export[x] \in ExportRecord /\ ExportFits(x)
    BY DEF PipelineInv, TypeOK, ExportsInStep
  <2>2. export[x].sums \notin {"none", "torn"} => export[x].pc = "done"
    BY <2>1 DEF ExportFits
  <2> QED
    BY <2>1, <2>2 DEF ExportFits, Verifies
<1> QED
  BY <1>1, PipelineInvariance, PTL
-----------------------------------------------------------------------------
(* What a GO rests on                                                      *)

\* What the policy has nothing against
LEMMA GoMeans ==
  ASSUME NEW seen, Decide(seen) = "GO"
  PROVE  /\ seen.compat.suite # "FAIL" /\ ~CompatReview(seen.compat)
         /\ \A r \in seen.records : r.returned # "other"
         /\ seen.verdict \notin Suspected /\ seen.verdict # "insufficient_evidence"
         /\ ~RescoreReview(seen.rescore, seen.required, seen.samples)
         /\ ~TraceReview(seen.trace, seen.samples)
<1>1. Blockers(seen) = {} /\ ReviewItems(seen) = {}
  BY DEF Decide
<1>2. \A rule \in {"compatibility", "identity", "authenticity"} : ~Blocks(seen)[rule]
  <2>1. {"compatibility", "identity", "authenticity"} \subseteq DOMAIN Blocks(seen)
    BY DEF Blocks
  <2> QED
    BY <1>1, <2>1 DEF Blockers
<1>3. \A rule \in {"compatibility", "authenticity", "rescore", "trace"} : ~Reviews(seen)[rule]
  <2>1. {"compatibility", "authenticity", "rescore", "trace"} \subseteq DOMAIN Reviews(seen)
    BY DEF Reviews
  <2> QED
    BY <1>1, <2>1 DEF ReviewItems
<1>4. ~Blocks(seen).compatibility /\ ~Blocks(seen).identity /\ ~Blocks(seen).authenticity
  BY <1>2
<1>5. /\ ~Reviews(seen).compatibility /\ ~Reviews(seen).authenticity
      /\ ~Reviews(seen).rescore /\ ~Reviews(seen).trace
  BY <1>3
<1>6. /\ seen.compat.suite # "FAIL" /\ \A r \in seen.records : r.returned # "other"
      /\ seen.verdict \notin Suspected
  BY <1>4 DEF Blocks
<1>7. /\ ~CompatReview(seen.compat) /\ seen.verdict # "insufficient_evidence"
      /\ ~RescoreReview(seen.rescore, seen.required, seen.samples)
      /\ ~TraceReview(seen.trace, seen.samples)
  BY <1>5 DEF Reviews
<1> QED
  BY <1>6, <1>7

\* What the policy sees of the evidence of a gate
LEMMA GateSees ==
  ASSUME NEW g, NEW stale
  PROVE  LET seen == GateEvidence(g, stale)
             had  == gate[g]
         IN /\ seen.compat.found = had.compat
            /\ seen.compat.suite = IF had.compat THEN run.suite ELSE "none"
            /\ seen.records = {run.records[i] : i \in DOMAIN run.records}
            /\ seen.verdict = VerdictRead(run.artifact)
            /\ seen.samples = Length
            /\ had.request.require \/ had.request.rescore # None => seen.required
            /\ seen.rescore.found = had.rescore.found /\ seen.rescore.stopped = had.rescore.stopped
            /\ seen.rescore.covered = Cardinality(IF had.rescore.found
                                                  THEN Applied(had.rescore.marks, run.records)
                                                  ELSE {})
            /\ had.request.trace # None => seen.trace.requested
            /\ seen.trace.found = had.trace.found /\ seen.trace.stopped = had.trace.stopped
            /\ seen.trace.fails
                 = Cardinality({i \in DOMAIN had.trace.marks : had.trace.marks[i] = "FAIL"})
            /\ seen.trace.warns
                 = Cardinality({i \in DOMAIN had.trace.marks : had.trace.marks[i] = "WARN"})
BY DEF GateEvidence, Gather, Length
\* A rescoring that is applied to as many records as the run has is applied to each.
LEMMA AppliedToAll ==
  ASSUME NEW n \in Nat, NEW S \in SUBSET (1 .. n), ~(Cardinality(S) < n)
  PROVE  S = 1 .. n
<1>1. IsFiniteSet(1 .. n) /\ Cardinality(1 .. n) = n
  BY FS_Interval
<1>2. IsFiniteSet(S) /\ Cardinality(S) <= n /\ (Cardinality(1 .. n) = Cardinality(S) => 1 .. n = S)
  BY <1>1, FS_Subset
<1>3. Cardinality(S) \in Nat
  BY <1>2, FS_CardinalityType
<1> QED
  BY <1>1, <1>2, <1>3

LEMMA NoneMarked ==
  ASSUME NEW marks \in Seq(Marks), NEW status,
         ~(Cardinality({i \in DOMAIN marks : marks[i] = status}) > 0)
  PROVE  \A i \in 1 .. Len(marks) : marks[i] # status
<1> DEFINE S == {i \in DOMAIN marks : marks[i] = status}
<1>1. S \in SUBSET (1 .. Len(marks)) /\ Len(marks) \in Nat
  OBVIOUS
<1>2. IsFiniteSet(1 .. Len(marks))
  BY <1>1, FS_Interval
<1>3. ~(Cardinality(S) > 0)
  OBVIOUS
<1>4. S = {}
  <2> HIDE DEF S
  <2>1. IsFiniteSet(S)
    BY <1>1, <1>2, FS_Subset
  <2>2. Cardinality(S) \in Nat
    BY <2>1, FS_CardinalityType
  <2> QED
    BY <1>3, <2>1, <2>2, FS_EmptySet
<1> QED
  BY <1>4

\* Evidence that says it was not stopped covers the run.
LEMMA WholeAndNotStopped ==
  ASSUME PipelineInv, NEW had, NEW kind \in {Rescores, TraceEvals}, NEW wanted,
         ReadWhole(had, kind, wanted), had.found, ~had.stopped
  PROVE  /\ had.id \in kind /\ Complete(had.id) /\ had.marks = evidence[had.id].marks
         /\ had.marks \in Seq(Marks) /\ Len(had.marks) = Length
         /\ \A i \in 1 .. Length : MarkFits(had.id, i, had.marks[i])
<1>1. had.id \in kind /\ had.id \in Evidence
  BY Names DEF ReadWhole
<1>2. EvidenceFits(had.id) /\ evidence[had.id] \in EvidenceRecord
  BY <1>1 DEF PipelineInv, EvidenceInStep, TypeOK
<1>3. /\ evidence[had.id].manifest = "whole" /\ had.marks = evidence[had.id].marks
      /\ had.stopped = evidence[had.id].stopped
  BY DEF ReadWhole
<1>4. Len(evidence[had.id].marks) = Length
  BY <1>2, <1>3 DEF EvidenceFits
<1>5. \A i \in 1 .. Length : MarkFits(had.id, i, evidence[had.id].marks[i])
  BY <1>2, <1>4 DEF EvidenceFits
<1>6. had.marks \in Seq(Marks)
  BY <1>2, <1>3 DEF EvidenceRecord
<1> QED
  BY <1>1, <1>3, <1>4, <1>5, <1>6 DEF Complete

\* A GO rests on evidence that is complete when the gate asks for it, and stays
\* so (run_quality_gate, evaluate_policy).
THEOREM GoRestsOnWholeEvidence == Spec => []GoRests
<1>1. ASSUME PipelineInv, NEW g \in Gates, gate[g].decision = "GO"
      PROVE  /\ gate[g].compat /\ run.suite = "PASS"
             /\ run.artifact \in {"none", "matches_official"}
             /\ \A i \in 1 .. Length : run.records[i].returned # "other"
             /\ gate[g].request.require \/ gate[g].request.rescore # None =>
                  LET e == gate[g].rescore.id
                  IN /\ e \in Rescores /\ Complete(e)
                     /\ \A i \in 1 .. Length : evidence[e].marks[i] # "unscored"
                                               /\ run.records[i].fresh.score # NoScore
             /\ gate[g].request.trace # None =>
                  /\ Complete(gate[g].request.trace)
                  /\ \A i \in 1 .. Length : EvaluateSource(run.records[i]) = "PASS"
  <2>1. GateFits(g) /\ TypeOK
    BY <1>1 DEF PipelineInv, GatesInStep
  <2>2. PICK stale \in BOOLEAN : Decide(GateEvidence(g, stale)) = "GO"
    BY <1>1, <2>1 DEF GateFits
  <2> DEFINE seen == GateEvidence(g, stale)
             had  == gate[g]
             rescored == had.rescore
             traced == had.trace
             applied == IF rescored.found THEN Applied(rescored.marks, run.records) ELSE {}
  <2>3. /\ seen.compat.suite # "FAIL" /\ ~CompatReview(seen.compat)
        /\ \A r \in seen.records : r.returned # "other"
        /\ seen.verdict \notin Suspected /\ seen.verdict # "insufficient_evidence"
        /\ ~RescoreReview(seen.rescore, seen.required, seen.samples)
        /\ ~TraceReview(seen.trace, seen.samples)
    BY <2>2, GoMeans
  <2>4. /\ seen.compat.found = had.compat
        /\ seen.compat.suite = IF had.compat THEN run.suite ELSE "none"
        /\ seen.records = {run.records[i] : i \in DOMAIN run.records}
        /\ seen.verdict = VerdictRead(run.artifact)
        /\ seen.samples = Length
        /\ had.request.require \/ had.request.rescore # None => seen.required
        /\ seen.rescore.found = rescored.found /\ seen.rescore.stopped = rescored.stopped
        /\ seen.rescore.covered = Cardinality(applied)
        /\ had.request.trace # None => seen.trace.requested
        /\ seen.trace.found = traced.found /\ seen.trace.stopped = traced.stopped
        /\ seen.trace.fails
             = Cardinality({i \in DOMAIN traced.marks : traced.marks[i] = "FAIL"})
        /\ seen.trace.warns
             = Cardinality({i \in DOMAIN traced.marks : traced.marks[i] = "WARN"})
    BY GateSees
  <2> HIDE DEF seen
  <2>5. run.records \in Seq(RecordsOfRun) /\ Length \in Nat /\ Length = Len(run.records)
    BY <2>1, RunTyped DEF Length
  <2>6. /\ run.suite \in {"PASS", "WARN", "FAIL"}
        /\ run.artifact \in {"none", "unreadable", "no verdict", "matches_official",
                             "insufficient_evidence"} \cup Suspected
    <3>1. runId \in DOMAIN Runs
      BY <2>1 DEF TypeOK
    <3>2. /\ Runs[runId].suite \in {"PASS", "WARN", "FAIL"}
          /\ Runs[runId].artifact \in {"none", "unreadable", "no verdict", "matches_official",
                                       "insufficient_evidence"} \cup Suspected
      BY <3>1, RunsAssumption
    <3> QED
      BY <3>2 DEF run
  <2>7. gate[g].compat /\ run.suite = "PASS"
    <3>1. gate[g].compat \in BOOLEAN
      BY <2>1 DEF TypeOK, GateRecord
    <3> QED
      BY <2>3, <2>4, <2>6, <3>1 DEF CompatReview
  <2>8. run.artifact \in {"none", "matches_official"}
    BY <2>3, <2>4, <2>6 DEF VerdictRead
  <2>9. \A i \in 1 .. Length : run.records[i].returned # "other"
    BY <2>3, <2>4, <2>5
  <2>10. ASSUME had.request.require \/ had.request.rescore # None
         PROVE  /\ rescored.id \in Rescores /\ Complete(rescored.id)
                /\ \A i \in 1 .. Length : evidence[rescored.id].marks[i] # "unscored"
                                          /\ run.records[i].fresh.score # NoScore
    <3>1. rescored.found /\ ~rescored.stopped /\ ~(Cardinality(applied) < Length)
      BY <2>3, <2>4, <2>10 DEF RescoreReview
    <3>2. /\ rescored.id \in Rescores /\ Complete(rescored.id)
          /\ rescored.marks = evidence[rescored.id].marks
          /\ rescored.marks \in Seq(Marks) /\ Len(rescored.marks) = Length
      BY <1>1, <2>1, <3>1, WholeAndNotStopped DEF GateFits
    <3>3. applied = Applied(rescored.marks, run.records)
      BY <3>1
    <3>4. applied \in SUBSET (1 .. Length)
      BY <3>2, <3>3 DEF Applied
    <3>5. applied = 1 .. Length
      <4> HIDE DEF applied
      <4> QED BY <2>5, <3>1, <3>4, AppliedToAll
    <3> QED
      BY <3>2, <3>3, <3>5 DEF Applied
  <2>11. ASSUME had.request.trace # None
         PROVE  /\ Complete(had.request.trace)
                /\ \A i \in 1 .. Length : EvaluateSource(run.records[i]) = "PASS"
    <3>1. /\ traced.found /\ ~traced.stopped
          /\ ~(Cardinality({i \in DOMAIN traced.marks : traced.marks[i] = "FAIL"}) > 0)
          /\ ~(Cardinality({i \in DOMAIN traced.marks : traced.marks[i] = "WARN"}) > 0)
      BY <2>3, <2>4, <2>11 DEF TraceReview
    <3>2. /\ traced.id \in TraceEvals /\ Complete(traced.id)
          /\ traced.marks \in Seq(Marks) /\ Len(traced.marks) = Length
          /\ \A i \in 1 .. Length : MarkFits(traced.id, i, traced.marks[i])
      BY <1>1, <2>1, <3>1, WholeAndNotStopped DEF GateFits
    <3>3. traced.id = had.request.trace
      BY <2>1, <2>11, <3>2, Names DEF GateFits, ReadWhole
    <3>4. \A i \in 1 .. Length : traced.marks[i] # "FAIL" /\ traced.marks[i] # "WARN"
      BY <3>1, <3>2, NoneMarked
    <3>5. \A i \in 1 .. Length : traced.marks[i] = EvaluateSource(run.records[i])
      BY <3>2 DEF MarkFits
    <3>6. \A i \in 1 .. Length : EvaluateSource(run.records[i]) = "PASS"
      BY <3>4, <3>5, Graded
    <3> QED
      BY <3>2, <3>3, <3>6
  <2> QED
    BY <2>7, <2>8, <2>9, <2>10, <2>11
<1>2. PipelineInv => GoRests
  BY <1>1 DEF GoRests
<1> QED
  BY <1>2, PipelineInvariance, PTL
-----------------------------------------------------------------------------
(* Evidence that is put away                                               *)

\* A gate, an export took the evidence without being told to.
TakenByGate(e, g) ==
  \/ e = Compat /\ gate[g].compat
  \/ e = gate[g].rescore.id /\ e # gate[g].request.rescore
  \/ e = gate[g].trace.id /\ e # gate[g].request.trace

TakenByExport(e, x) ==
  \/ e = export[x].gate /\ e # export[x].request.gate
  \/ e \in export[x].bound /\ e # export[x].request.rescore

\* A gate does not take what is archived.
LEMMA GateLeavesArchived ==
  ASSUME PipelineInv, NEW g \in Gates, GateNext(g), NEW e \in Archivable, Archived(e),
         NEW h \in Gates, TakenByGate(e, h)'
  PROVE  TakenByGate(e, h)
<1>1. /\ gate \in [Gates -> GateRecord] /\ GateFits(g) /\ e # None /\ None \notin Rescores
      /\ None \notin TraceEvals /\ TypeOK
  BY Names DEF PipelineInv, TypeOK, GatesInStep
<1>2. gate[g] \in GateRecord
  BY <1>1
<1>3. CASE h # g
  <2>1. gate'[h] = gate[h]
    BY <1>1, <1>3 DEF GateNext, BeginGate, GateReadsRescore, GateReadsCompat, GateReadsTrace,
                      GateDecides, WriteGateManifest
  <2> QED
    BY <2>1 DEF TakenByGate
<1>4. CASE h = g /\ BeginGate(g)
  <2>1. PICK q \in GateRequests : gate' = [gate EXCEPT ![g].pc = "rescore", ![g].request = q]
    BY <1>4 DEF BeginGate
  <2>2. gate[g].pc = "idle"
    BY <1>4, Names DEF BeginGate, MayStart, PcOf
  <2>3. gate[g].rescore.id = None /\ gate[g].trace.id = None /\ ~gate[g].compat
    BY <1>1, <2>2 DEF GateFits, NothingRead
  <2>4. /\ gate'[g].rescore = gate[g].rescore /\ gate'[g].trace = gate[g].trace
        /\ gate'[g].compat = gate[g].compat
    BY <1>1, <1>2, <2>1 DEF GateRecord
  <2> QED
    BY <1>1, <1>4, <2>3, <2>4 DEF TakenByGate
<1>5. CASE h = g /\ GateReadsRescore(g)
  <2> DEFINE found == Select(Rescores, gate[g].request.rescore)
  <2>1. gate' = [gate EXCEPT ![g].pc = "compat", ![g].rescore = ReadOf(found)]
    BY <1>5 DEF GateReadsRescore
  <2>2. /\ gate[g].request.rescore # None => found \in {gate[g].request.rescore, None}
        /\ gate[g].request.rescore = None /\ found # None => ~Archived(found)
    BY <1>1, GateRequested, SelectedCanBeRead
  <2>3. ReadOf(found).id = found
    BY DEF ReadOf, NothingRead
  <2> HIDE DEF found
  <2>4. /\ gate'[g].rescore = ReadOf(found) /\ gate'[g].trace = gate[g].trace
        /\ gate'[g].compat = gate[g].compat /\ gate'[g].request = gate[g].request
    BY <1>1, <1>2, <2>1 DEF GateRecord
  <2>5. ~(e = found /\ e # gate[g].request.rescore)
    BY <1>1, <2>2
  <2> QED
    BY <1>5, <2>3, <2>4, <2>5 DEF TakenByGate
<1>6. CASE h = g /\ GateReadsCompat(g)
  <2>1. gate' = [gate EXCEPT ![g].pc = "trace", ![g].compat = ~Archived(Compat)]
    BY <1>6 DEF GateReadsCompat
  <2>2. /\ gate'[g].rescore = gate[g].rescore /\ gate'[g].trace = gate[g].trace
        /\ gate'[g].request = gate[g].request
    BY <1>1, <1>2, <2>1 DEF GateRecord
  <2>3. e = Compat => ~gate'[g].compat
    BY <1>1, <1>2, <2>1 DEF GateRecord
  <2> QED
    BY <1>6, <2>2, <2>3 DEF TakenByGate
<1>7. CASE h = g /\ GateReadsTrace(g)
  <2> DEFINE found == Select(TraceEvals, gate[g].request.trace)
  <2>1. gate' = [gate EXCEPT ![g].pc = "decide", ![g].trace = ReadOf(found)]
    BY <1>7 DEF GateReadsTrace
  <2>2. /\ gate[g].request.trace # None => found \in {gate[g].request.trace, None}
        /\ gate[g].request.trace = None /\ found # None => ~Archived(found)
    BY <1>1, GateRequested, SelectedCanBeRead
  <2>3. ReadOf(found).id = found
    BY DEF ReadOf, NothingRead
  <2> HIDE DEF found
  <2>4. /\ gate'[g].trace = ReadOf(found) /\ gate'[g].rescore = gate[g].rescore
        /\ gate'[g].compat = gate[g].compat /\ gate'[g].request = gate[g].request
    BY <1>1, <1>2, <2>1 DEF GateRecord
  <2>5. ~(e = found /\ e # gate[g].request.trace)
    BY <1>1, <2>2
  <2> QED
    BY <1>7, <2>3, <2>4, <2>5 DEF TakenByGate
<1>8. CASE h = g /\ (GateDecides(g) \/ WriteGateManifest(g))
  <2>1. /\ gate'[g].rescore = gate[g].rescore /\ gate'[g].trace = gate[g].trace
        /\ gate'[g].compat = gate[g].compat /\ gate'[g].request = gate[g].request
    BY <1>1, <1>2, <1>8 DEF GateDecides, WriteGateManifest, GateRecord
  <2> QED
    BY <1>8, <2>1 DEF TakenByGate
<1> QED
  BY <1>3, <1>4, <1>5, <1>6, <1>7, <1>8 DEF GateNext

\* Nor does an export.
LEMMA ExportLeavesArchived ==
  ASSUME PipelineInv, NEW x \in Exports, ExportNext(x), NEW e \in Archivable, Archived(e),
         NEW y \in Exports, TakenByExport(e, y)'
  PROVE  TakenByExport(e, y)
<1>1. /\ export \in [Exports -> ExportRecord] /\ ExportFits(x) /\ e # None /\ TypeOK
      /\ GatesInStep
  BY Names DEF PipelineInv, TypeOK, ExportsInStep
<1>2. export[x] \in ExportRecord
  BY <1>1
<1>3. CASE y # x
  <2>1. export'[y] = export[y]
    BY <1>1, <1>3 DEF ExportNext, BeginExport, StopExportEarly, BindGate, BindEvidence,
                      OpenExportManifest, WriteExportManifest, SealOrStop, WriteSums
  <2> QED
    BY <2>1 DEF TakenByExport
<1>4. CASE y = x /\ BeginExport(x)
  <2>1. PICK q \in ExportRequests : export' = [export EXCEPT ![x].pc = "started", ![x].request = q]
    BY <1>4 DEF BeginExport
  <2>2. export[x].pc = "idle"
    BY <1>4, NamesDistinct DEF BeginExport, MayStart, PcOf, Workers
  <2>3. export[x].gate = None /\ export[x].bound = {}
    BY <1>1, <2>2 DEF ExportFits
  <2>4. export'[x].gate = export[x].gate /\ export'[x].bound = export[x].bound
    BY <1>1, <1>2, <2>1 DEF ExportRecord
  <2> QED
    BY <1>1, <1>4, <2>3, <2>4 DEF TakenByExport
<1>5. CASE y = x /\ BindGate(x)
  <2> DEFINE found == Select(Gates, export[x].request.gate)
  <2>1. export' = [export EXCEPT ![x].pc = "binding", ![x].gate = found,
                                 ![x].warned = IF found = None THEN {"gate"} ELSE {}]
    BY <1>5 DEF BindGate
  <2>2. /\ export[x].request.gate # None => found \in {export[x].request.gate, None}
        /\ export[x].request.gate = None /\ found # None => ~Archived(found)
    BY <1>1, ExportRequested, SelectedCanBeRead, Names
  <2> HIDE DEF found
  <2>3. /\ export'[x].gate = found /\ export'[x].bound = export[x].bound
        /\ export'[x].request = export[x].request
    BY <1>1, <1>2, <2>1 DEF ExportRecord
  <2>4. ~(e = found /\ e # export[x].request.gate)
    BY <1>1, <2>2
  <2> QED
    BY <1>5, <2>3, <2>4 DEF TakenByExport
<1>6. CASE y = x /\ BindEvidence(x)
  <2> DEFINE found == {CollectRescore(x), CollectTrace(x), CollectCompat(x)}
             bound == UNION {f.dirs : f \in found}
             warned == UNION {f.warned : f \in found}
  <2>1. export' = [export EXCEPT ![x].pc = "copied", ![x].bound = bound,
                                 ![x].warned = @ \cup warned]
    BY <1>6 DEF BindEvidence
  <2>2. bound = CollectRescore(x).dirs \cup CollectTrace(x).dirs \cup CollectCompat(x).dirs
    OBVIOUS
  <2> HIDE DEF found, bound, warned
  <2>3. /\ Collected(x, CollectRescore(x), Rescores, "rescore")
        /\ Collected(x, CollectTrace(x), TraceEvals, "trace")
        /\ Collected(x, CollectCompat(x), {Compat}, "compat")
    BY <1>1, RescoreCollected, TraceCollected, CompatCollected
  <2>4. ~(e \in bound /\ e # export[x].request.rescore)
    BY <2>2, <2>3 DEF Collected
  <2>5. /\ export'[x].gate = export[x].gate /\ export'[x].bound = bound
        /\ export'[x].request = export[x].request
    BY <1>1, <1>2, <2>1 DEF ExportRecord
  <2> QED
    BY <1>6, <2>4, <2>5 DEF TakenByExport
<1>7. CASE y = x /\ (\/ StopExportEarly(x) \/ OpenExportManifest(x) \/ WriteExportManifest(x)
                    \/ SealOrStop(x) \/ WriteSums(x))
  <2>1. /\ export'[x].gate = export[x].gate /\ export'[x].bound = export[x].bound
        /\ export'[x].request = export[x].request
    BY <1>1, <1>2, <1>7 DEF StopExportEarly, OpenExportManifest, WriteExportManifest, SealOrStop,
                            WriteSums, ExportRecord
  <2> QED
    BY <1>7, <2>1 DEF TakenByExport
<1> QED
  BY <1>3, <1>4, <1>5, <1>6, <1>7 DEF ExportNext

LEMMA UsesAre ==
  \A e : ImplicitUses(e) = {g \in Gates : TakenByGate(e, g)} \cup {x \in Exports : TakenByExport(e, x)}
BY DEF ImplicitUses, TakenByGate, TakenByExport

LEMMA UsesGrowNot ==
  ASSUME NEW e,
         \A g \in Gates : TakenByGate(e, g)' => TakenByGate(e, g),
         \A x \in Exports : TakenByExport(e, x)' => TakenByExport(e, x)
  PROVE  ImplicitUses(e)' \subseteq ImplicitUses(e)
<1>1. ImplicitUses(e)'
        = {g \in Gates : TakenByGate(e, g)'} \cup {x \in Exports : TakenByExport(e, x)'}
  BY DEF ImplicitUses, TakenByGate, TakenByExport
<1> QED
  BY <1>1, UsesAre

\* Evidence whose archiving has returned stays archived, and no gate or export
\* takes it up unasked, until somebody begins to restore it; as long as no two
\* calls to the registry have overlapped (archive_evidence, select_manifest_dir).
THEOREM WhatIsPutAwayIsLeft == Spec => PutAwayHeld
<1>1. ASSUME PipelineInv, [Next]_vars, NEW e \in settled
      PROVE  registry[e] = "archived" /\ ImplicitUses(e)' \subseteq ImplicitUses(e)
  <2>1. registry[e] = "archived" /\ e \in Archivable /\ Archived(e)
    BY <1>1 DEF PipelineInv, RegistryInStep, TypeOK, Archived
  <2>2. ASSUME UNCHANGED gate PROVE \A g \in Gates : TakenByGate(e, g)' => TakenByGate(e, g)
    BY <2>2 DEF TakenByGate
  <2>3. ASSUME UNCHANGED export PROVE \A x \in Exports : TakenByExport(e, x)' => TakenByExport(e, x)
    BY <2>3 DEF TakenByExport
  <2>4. CASE UNCHANGED <<gate, export>>
    <3>1. UNCHANGED gate /\ UNCHANGED export
      BY <2>4
    <3>2. \A g \in Gates : TakenByGate(e, g)' => TakenByGate(e, g)
      BY <2>2, <3>1
    <3>3. \A x \in Exports : TakenByExport(e, x)' => TakenByExport(e, x)
      BY <2>3, <3>1
    <3> QED
      BY <2>1, <3>2, <3>3, UsesGrowNot
  <2>5. ASSUME NEW g \in Gates, GateNext(g) PROVE ImplicitUses(e)' \subseteq ImplicitUses(e)
    <3>1. UNCHANGED export
      BY <1>1, <2>5, GateStep DEF PipelineInv
    <3>2. \A h \in Gates : TakenByGate(e, h)' => TakenByGate(e, h)
      BY <1>1, <2>1, <2>5, GateLeavesArchived
    <3> QED
      BY <2>3, <3>1, <3>2, UsesGrowNot
  <2>6. ASSUME NEW x \in Exports, ExportNext(x) PROVE ImplicitUses(e)' \subseteq ImplicitUses(e)
    <3>1. UNCHANGED gate
      BY <1>1, <2>6, ExportStepKeeps
    <3>2. \A y \in Exports : TakenByExport(e, y)' => TakenByExport(e, y)
      BY <1>1, <2>1, <2>6, ExportLeavesArchived
    <3> QED
      BY <2>2, <3>1, <3>2, UsesGrowNot
  <2>7. ASSUME NEW w \in Workers, Die(w) PROVE ImplicitUses(e)' \subseteq ImplicitUses(e)
    <3>1. ASSUME NEW g \in Gates
          PROVE  /\ gate'[g].rescore = gate[g].rescore /\ gate'[g].trace = gate[g].trace
                 /\ gate'[g].compat = gate[g].compat /\ gate'[g].request = gate[g].request
      <4>1. gate \in [Gates -> GateRecord]
        BY <1>1 DEF PipelineInv, TypeOK
      <4>2. gate' = gate \/ gate' = [gate EXCEPT ![w].pc = "dead"]
        BY <2>7 DEF Die
      <4> QED
        BY <4>1, <4>2 DEF GateRecord
    <3>2. ASSUME NEW x \in Exports
          PROVE  /\ export'[x].gate = export[x].gate /\ export'[x].bound = export[x].bound
                 /\ export'[x].request = export[x].request
      <4>1. export \in [Exports -> ExportRecord]
        BY <1>1 DEF PipelineInv, TypeOK
      <4>2. export' = export \/ export' = [export EXCEPT ![w].pc = "dead"]
        BY <2>7 DEF Die
      <4> QED
        BY <4>1, <4>2 DEF ExportRecord
    <3>3. \A g \in Gates : TakenByGate(e, g)' => TakenByGate(e, g)
      BY <3>1 DEF TakenByGate
    <3>4. \A x \in Exports : TakenByExport(e, x)' => TakenByExport(e, x)
      BY <3>2 DEF TakenByExport
    <3> QED
      BY <3>3, <3>4, UsesGrowNot
  <2>8. ASSUME NEW d \in Evidence, EvidenceNext(d) PROVE UNCHANGED <<gate, export>>
    BY <1>1, <2>8, EvidenceStep DEF PipelineInv
  <2>9. ASSUME NEW c \in Clerks, ClerkNext(c) PROVE UNCHANGED <<gate, export>>
    BY <1>1, <2>9, ClerkStep DEF PipelineInv
  <2>10. ASSUME NEW w \in Workers, RequestStop(w) PROVE UNCHANGED <<gate, export>>
    BY <2>10 DEF RequestStop
  <2>11. CASE UNCHANGED vars
    BY <2>4, <2>11 DEF vars
  <2> QED
    BY <1>1, <2>1, <2>4, <2>5, <2>6, <2>7, <2>8, <2>9, <2>10, <2>11 DEF Next
<1>2. PipelineInv /\ [Next]_vars
        => [\A e \in settled : registry[e] = "archived"
                               /\ ImplicitUses(e)' \subseteq ImplicitUses(e)]_vars
  BY <1>1
<1> QED
  BY <1>2, PipelineInvariance, PTL DEF Spec, PutAwayHeld
=============================================================================
