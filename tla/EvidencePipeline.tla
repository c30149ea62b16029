-------------------------- MODULE EvidencePipeline --------------------------
(***************************************************************************)
(* What happens to the evidence about one finished run: rescorings         *)
(* (rescore.py) and trace evaluations (trace_evaluation.py) produce it,    *)
(* quality gates (quality_gate.py) decide on it, audit exports             *)
(* (audit_export.py) copy it, and clerks archive and restore it            *)
(* (archive_registry.py), all at the same time and without a lock.         *)
(*                                                                         *)
(* Each piece of evidence is a directory whose manifest is written last.   *)
(* A manifest that has been opened and not yet written is torn: it exists  *)
(* and does not parse.  What reads evidence finds it through               *)
(* select_manifest_dir, by id or as the newest that fits.                  *)
(*                                                                         *)
(* The run has one provider, and no evidence is restricted to some of its  *)
(* tasks.  Pausing a worker is JobControl's; a request to stop is a flag   *)
(* the worker reads between two records.                                   *)
(***************************************************************************)
EXTENDS EvidenceRules

CONSTANTS
  Rescores, TraceEvals, Gates, Exports, Clerks,
  Compat,            \* the id of the compatibility run, finished beforehand
  None,
  Runs,              \* per run id: the facts about the run that the rules look at
  GateRequests, ExportRequests,
  Archivable,        \* the evidence the clerks work on
  MaxStarted,        \* bound: workers ever started
  MaxRunning,        \* bound: workers and clerks under way at a time
  MaxTroubles        \* bound: requests to stop, workers that die, calls of clerks

Evidence == Rescores \cup TraceEvals
Workers == Evidence \cup Gates \cup Exports
Stoppable == Evidence \cup Exports

ASSUME BoundsAssumption == MaxStarted \in Nat /\ MaxRunning \in Nat /\ MaxTroubles \in Nat

ASSUME NamesDistinct ==
  /\ Rescores \cap TraceEvals = {} /\ Evidence \cap Gates = {} /\ Evidence \cap Exports = {}
  /\ Gates \cap Exports = {} /\ Compat \notin Workers /\ None \notin Workers \cup {Compat} \cup Decisions
  /\ Archivable \subseteq Evidence \cup Gates \cup {Compat}

ASSUME RunsAssumption ==
  \A id \in DOMAIN Runs :
    LET r == Runs[id]
    IN /\ r.records \in Seq(RecordsOfRun)
       /\ r.benchmark \in NoScore .. 1000
       /\ r.artifact \in {"none", "unreadable", "no verdict", "matches_official",
                          "insufficient_evidence"} \cup Suspected
       /\ r.suite \in {"PASS", "WARN", "FAIL"}
       /\ r.compatCompleted \in BOOLEAN

ASSUME RequestsAssumption ==
  /\ \A q \in GateRequests : q.rescore \in Rescores \cup {None} /\ q.trace \in TraceEvals \cup {None}
                             /\ q.require \in BOOLEAN
  /\ \A q \in ExportRequests : q.gate \in Gates \cup {None} /\ q.rescore \in Rescores \cup {None}

VARIABLES
  runId,      \* which run this is
  evidence,   \* per rescoring or trace evaluation: its directory and its worker
  newest,     \* the evidence and gate directories in the order their manifests appeared
  gate,       \* per gate: its worker, what it read, and what it wrote
  export,     \* per export: its worker, what it bound, and the files that seal it
  registry,   \* the entries of the archive registry
  clerk,      \* per clerk: the call under way and the registry it read
  stop,       \* the workers asked to stop
  troubles,   \* how much of MaxTroubles is used
  settled,    \* history: archived, the call has returned, and no restore began since
  raced       \* history: two calls to the registry have overlapped

vars == <<runId, evidence, newest, gate, export, registry, clerk, stop, troubles, settled, raced>>

-----------------------------------------------------------------------------
run == Runs[runId]

Length == Len(run.records)

EvidenceStart ==
  [pc |-> "idle", marks |-> <<>>, stopped |-> FALSE, manifest |-> "none"]

NothingRead == [id |-> None, found |-> FALSE, marks |-> <<>>, stopped |-> FALSE]

GateStart ==
  [ pc |-> "idle", request |-> [rescore |-> None, trace |-> None, require |-> FALSE],
    rescore |-> NothingRead, trace |-> NothingRead, compat |-> FALSE,
    decision |-> None, manifest |-> "none" ]

ExportStart ==
  [ pc |-> "idle", request |-> [gate |-> None, rescore |-> None], gate |-> None,
    bound |-> {}, warned |-> {}, manifest |-> "none", sums |-> "none" ]

ClerkStart == [pc |-> "idle", id |-> None, restoring |-> FALSE, read |-> <<>>]

Init ==
  /\ runId \in DOMAIN Runs
  /\ evidence = [e \in Evidence |-> EvidenceStart]
  /\ newest = <<>>
  /\ gate = [g \in Gates |-> GateStart]
  /\ export = [x \in Exports |-> ExportStart]
  /\ registry = [e \in Archivable |-> "none"]
  /\ clerk = [c \in Clerks |-> ClerkStart]
  /\ stop = {}
  /\ troubles = 0
  /\ settled = {}
  /\ raced = FALSE

PcOf(w) ==
  IF w \in Evidence THEN evidence[w].pc ELSE IF w \in Gates THEN gate[w].pc ELSE export[w].pc

UnderWay(w) == PcOf(w) \notin {"idle", "done", "dead"}

Room ==
  Cardinality({w \in Workers : UnderWay(w)}) + Cardinality({c \in Clerks : clerk[c].pc # "idle"})
    < MaxRunning

MayStart(w) ==
  PcOf(w) = "idle" /\ Room /\ Cardinality({v \in Workers : PcOf(v) # "idle"}) < MaxStarted

-----------------------------------------------------------------------------
(* Finding evidence                                                        *)

\* is_archived
Archived(e) == e \in Archivable /\ registry[e] = "archived"

ManifestOf(e) ==
  CASE e \in Evidence -> evidence[e].manifest
    [] e \in Gates -> gate[e].manifest
    [] e = Compat -> "whole"

\* What the manifest has to say of the run for a reader to take it: a trace
\* evaluation that was stopped before its first record has no metrics for the provider.
Fits(e) == e \in TraceEvals => evidence[e].marks # <<>>

\* Slip: a manifest that exists is taken for one that was written.
ReadableOnceOpened(e) == ManifestOf(e) # "none" /\ Fits(e)
Readable(e) == ManifestOf(e) = "whole" /\ Fits(e)

\* select_manifest_dir without an id: the newest directory whose manifest can
\* be read, fits and is not archived
SelectNewest(kind) ==
  LET listed == {i \in DOMAIN newest :
                   newest[i] \in kind /\ Readable(newest[i]) /\ ~Archived(newest[i])}
  IN IF listed = {} THEN None ELSE newest[Max(listed)]

\* select_manifest_dir: the archive only counts when no id is given.
Select(kind, wanted) ==
  IF wanted = None THEN SelectNewest(kind)
  ELSE IF Readable(wanted) THEN wanted ELSE None

ReadOf(e) ==
  IF e = None THEN NothingRead
  ELSE [id |-> e, found |-> TRUE, marks |-> evidence[e].marks, stopped |-> evidence[e].stopped]

-----------------------------------------------------------------------------
(* Rescorings and trace evaluations                                        *)

\* The directory is made, the records of the run are loaded.
BeginEvidence(e) ==
  /\ MayStart(e)
  /\ evidence' = [evidence EXCEPT ![e].pc = "records"]
  /\ UNCHANGED <<runId, newest, gate, export, registry, clerk, stop, troubles, settled, raced>>

\* The loop over the records ends when they are used up or at a request to stop.
\* Records and summary are written and the manifest is opened.
EndRecords(e) ==
  /\ evidence[e].pc = "records"
  /\ LET stopped == Len(evidence[e].marks) < Length
     IN /\ stopped => e \in stop
        /\ evidence' = [evidence EXCEPT ![e].pc = "manifest", ![e].stopped = stopped,
                                        ![e].manifest = "torn"]
  /\ newest' = Append(newest, e)
  /\ UNCHANGED <<runId, gate, export, registry, clerk, stop, troubles, settled, raced>>

WriteManifest(e) ==
  /\ evidence[e].pc = "manifest"
  /\ evidence' = [evidence EXCEPT ![e].pc = "done", ![e].manifest = "whole"]
  /\ UNCHANGED <<runId, newest, gate, export, registry, clerk, stop, troubles, settled, raced>>

TakeRecord(e, marked) ==
  /\ evidence[e].pc = "records"
  /\ e \notin stop
  /\ Len(evidence[e].marks) < Length
  /\ evidence' = [evidence EXCEPT ![e].marks = Append(@, marked)]
  /\ UNCHANGED <<runId, newest, gate, export, registry, clerk, stop, troubles, settled, raced>>

\* One record is rescored: by the rules and the judge, or by the rules only
\* because the judge failed; or not at all if its response is gone or the rules
\* fail on it.
RescoreRecord(e) ==
  /\ e \in Rescores
  /\ \E marked \in {"scored", "judge_failed", "unscored"} :
       /\ TakeRecord(e, marked)
       /\ (marked # "unscored") = run.records[Len(evidence[e].marks) + 1].scorable

\* One trace is evaluated.
EvaluateRecord(e) ==
  /\ e \in TraceEvals
  /\ TakeRecord(e, EvaluateSource(run.records[Len(evidence[e].marks) + 1]))

-----------------------------------------------------------------------------
(* Quality gates                                                           *)

\* The directory is made, policy and samples are loaded.
BeginGate(g) ==
  /\ MayStart(g)
  /\ \E q \in GateRequests :
       gate' = [gate EXCEPT ![g].pc = "rescore", ![g].request = q]
  /\ UNCHANGED <<runId, evidence, newest, export, registry, clerk, stop, troubles, settled, raced>>

\* load_rescore_evidence.  An id that is given is taken whatever the manifest says.
GateReadsRescore(g) ==
  /\ gate[g].pc = "rescore"
  /\ gate' = [gate EXCEPT ![g].pc = "compat",
                          ![g].rescore = ReadOf(Select(Rescores, gate[g].request.rescore))]
  /\ UNCHANGED <<runId, evidence, newest, export, registry, clerk, stop, troubles, settled, raced>>

\* load_compatibility_evidence, without an id
GateReadsCompat(g) ==
  /\ gate[g].pc = "compat"
  /\ gate' = [gate EXCEPT ![g].pc = "trace", ![g].compat = ~Archived(Compat)]
  /\ UNCHANGED <<runId, evidence, newest, export, registry, clerk, stop, troubles, settled, raced>>

\* load_trace_evaluation_evidence
GateReadsTrace(g) ==
  /\ gate[g].pc = "trace"
  /\ gate' = [gate EXCEPT ![g].pc = "decide",
                          ![g].trace = ReadOf(Select(TraceEvals, gate[g].request.trace))]
  /\ UNCHANGED <<runId, evidence, newest, export, registry, clerk, stop, troubles, settled, raced>>

\* The evidence a gate has, as evaluate_policy sees it.  A trace evaluation
\* counts by its manifest: number, failures and warnings.
GateEvidence(g, stale) ==
  LET had == gate[g]
      number(status) == Cardinality({i \in DOMAIN had.trace.marks : had.trace.marks[i] = status})
  IN Gather(run.records, run.benchmark, run.artifact,
            [found     |-> had.compat,
             suite     |-> IF had.compat THEN run.suite ELSE "none",
             completed |-> had.compat /\ run.compatCompleted],
            had.rescore, had.request.require \/ had.request.rescore # None,
            [requested |-> had.request.trace # None, found |-> had.trace.found,
             stopped |-> had.trace.stopped, count |-> Len(had.trace.marks),
             fails |-> number("FAIL"), warns |-> number("WARN")],
            stale)

\* evaluate_policy, for evidence that may have grown too old; records and summary are written and the manifest is opened.
GateDecides(g) ==
  /\ gate[g].pc = "decide"
  /\ \E stale \in BOOLEAN :
       /\ stale => gate[g].rescore.found \/ gate[g].trace.found \/ gate[g].compat
       /\ gate' = [gate EXCEPT ![g].pc = "manifest", ![g].manifest = "torn",
                               ![g].decision = Decide(GateEvidence(g, stale))]
  /\ newest' = Append(newest, g)
  /\ UNCHANGED <<runId, evidence, export, registry, clerk, stop, troubles, settled, raced>>

WriteGateManifest(g) ==
  /\ gate[g].pc = "manifest"
  /\ gate' = [gate EXCEPT ![g].pc = "done", ![g].manifest = "whole"]
  /\ UNCHANGED <<runId, evidence, newest, export, registry, clerk, stop, troubles, settled, raced>>

-----------------------------------------------------------------------------
(* Audit exports                                                           *)

ExportStep(x, pcs) == export[x].pc \in pcs
OnlyExport == UNCHANGED <<runId, evidence, newest, gate, registry, clerk, stop, troubles, settled, raced>>

BeginExport(x) ==
  /\ MayStart(x)
  /\ \E q \in ExportRequests : export' = [export EXCEPT ![x].pc = "started", ![x].request = q]
  /\ OnlyExport

\* Two looks at the request to stop, with nothing written in between, find one:
\* write_stopped_audit_export_result, up to the manifest it opens.
StopExportEarly(x) ==
  /\ ExportStep(x, {"started"}) /\ x \in stop
  /\ export' = [export EXCEPT ![x].pc = "stopping", ![x].manifest = "torn"]
  /\ OnlyExport

\* collect_gate_dir
BindGate(x) ==
  /\ ExportStep(x, {"started"}) /\ x \notin stop
  /\ LET g == Select(Gates, export[x].request.gate)
     IN export' = [export EXCEPT ![x].pc = "binding", ![x].gate = g,
                                 ![x].warned = IF g = None THEN {"gate"} ELSE {}]
  /\ OnlyExport

Bound(e, kind, warn) == [dirs |-> {e} \ {None}, warned |-> IF warn THEN {kind} ELSE {}]

\* Slip: evidence the gate decided on that is gone is replaced by the newest.
BoundByGateOrNewest(kind, name, had) ==
  LET e == IF had # None /\ Readable(had) /\ ~Archived(had) THEN had ELSE SelectNewest(kind)
  IN Bound(e, name, e # had)

\* Slip: the archive is not asked about evidence that a gate names.
BoundByGateArchived(kind, name, had) ==
  LET there == had # None /\ Readable(had)
  IN Bound(IF there THEN had ELSE None, name, ~there)

\* collect_bound_evidence_dirs: exactly what the records of the gate name, and
\* a warning when they name nothing or it is archived by now
BoundByGate(kind, name, had) ==
  LET there == had # None /\ Readable(had) /\ ~Archived(had)
  IN Bound(IF there THEN had ELSE None, name, ~there)

BoundToNewest(kind, name) == LET e == SelectNewest(kind) IN Bound(e, name, e = None)

\* collect_rescore_dirs: an id that is given wins over the gate's evidence.
CollectRescore(x) ==
  LET wanted == export[x].request.rescore
      given  == Select(Rescores, wanted)
  IN IF wanted # None THEN Bound(given, "rescore", given = None \/ Archived(given))
     ELSE IF export[x].gate # None
          THEN BoundByGate(Rescores, "rescore", gate[export[x].gate].rescore.id)
     ELSE BoundToNewest(Rescores, "rescore")

\* collect_trace_dirs
CollectTrace(x) ==
  IF export[x].gate # None
  THEN BoundByGate(TraceEvals, "trace", gate[export[x].gate].trace.id)
  ELSE BoundToNewest(TraceEvals, "trace")

\* collect_compatibility_dirs
CollectCompat(x) ==
  LET there == ~Archived(Compat) /\ (export[x].gate # None => gate[export[x].gate].compat)
  IN Bound(IF there THEN Compat ELSE None, "compat", ~there)

\* The evidence is bound, copied without its texts, and indexed.
BindEvidence(x) ==
  /\ ExportStep(x, {"binding"})
  /\ LET found == {CollectRescore(x), CollectTrace(x), CollectCompat(x)}
     IN export' = [export EXCEPT ![x].pc = "copied",
                                 ![x].bound = UNION {f.dirs : f \in found},
                                 ![x].warned = @ \cup UNION {f.warned : f \in found}]
  /\ OnlyExport

\* Summary and manifest are written, as those of a stopped export if a request came in.
OpenExportManifest(x) ==
  /\ ExportStep(x, {"copied"})
  /\ export' = [export EXCEPT ![x].pc = IF x \in stop THEN "stopping" ELSE "completing",
                              ![x].manifest = "torn"]
  /\ OnlyExport

\* Slip: the checksums are generated before the last look at the request to stop.
WriteExportManifestSealed(x) ==
  /\ ExportStep(x, {"completing", "stopping"})
  /\ export' = [export EXCEPT ![x].pc = IF @ = "completing" THEN "sealing" ELSE "done",
                              ![x].manifest = IF export[x].pc = "completing" THEN "completed"
                                              ELSE "stopped",
                              ![x].sums = "completed"]
  /\ OnlyExport

WriteExportManifest(x) ==
  /\ ExportStep(x, {"completing", "stopping"})
  /\ export' = [export EXCEPT ![x].pc = IF @ = "completing" THEN "sealing" ELSE "done",
                              ![x].manifest = IF export[x].pc = "completing" THEN "completed"
                                              ELSE "stopped"]
  /\ OnlyExport

\* The last look: a completed manifest is rewritten as a stopped one, or the
\* checksums of what lies in the directory are written.
SealOrStop(x) ==
  /\ ExportStep(x, {"sealing"})
  /\ export' = IF x \in stop
               THEN [export EXCEPT ![x].pc = "stopping", ![x].manifest = "torn"]
               ELSE [export EXCEPT ![x].pc = "sums", ![x].sums = "torn"]
  /\ OnlyExport

\* generate_checksums; sums keeps the manifest that was hashed.
WriteSums(x) ==
  /\ ExportStep(x, {"sums"})
  /\ export' = [export EXCEPT ![x].pc = "done", ![x].sums = export[x].manifest]
  /\ OnlyExport

-----------------------------------------------------------------------------
(* Stops, failures, and the archive                                        *)

RequestStop(w) ==
  /\ w \in Stoppable /\ UnderWay(w) /\ w \notin stop
  /\ troubles < MaxTroubles
  /\ stop' = stop \cup {w}
  /\ troubles' = troubles + 1
  /\ UNCHANGED <<runId, evidence, newest, gate, export, registry, clerk, settled, raced>>

\* A worker dies wherever it is, of an exception or with its process.  The
\* files it has written stay; without a manifest nothing reads them.
Die(w) ==
  /\ UnderWay(w)
  /\ troubles < MaxTroubles
  /\ troubles' = troubles + 1
  /\ evidence' = IF w \in Evidence THEN [evidence EXCEPT ![w].pc = "dead"] ELSE evidence
  /\ gate' = IF w \in Gates THEN [gate EXCEPT ![w].pc = "dead"] ELSE gate
  /\ export' = IF w \in Exports THEN [export EXCEPT ![w].pc = "dead"] ELSE export
  /\ UNCHANGED <<runId, newest, registry, clerk, stop, settled, raced>>

\* load_registry, in archive_evidence and restore_evidence.  Restoring what was
\* never archived raises and changes nothing.
BeginClerk(c, e, restoring) ==
  /\ clerk[c].pc = "idle" /\ Room
  /\ troubles < MaxTroubles
  /\ restoring => registry[e] # "none"
  /\ troubles' = troubles + 1
  /\ clerk' = [clerk EXCEPT ![c] = [pc |-> "write", id |-> e, restoring |-> restoring,
                                    read |-> registry]]
  /\ raced' = (raced \/ \E d \in Clerks : clerk[d].pc # "idle")
  /\ settled' = IF raced' THEN {} ELSE IF restoring THEN settled \ {e} ELSE settled
  /\ UNCHANGED <<runId, evidence, newest, gate, export, registry, stop>>

\* The entry is changed in the registry that was read: restored_at is set, or cleared.
UpdatedEntry(read, e, restoring) ==
  [read EXCEPT ![e] = IF restoring THEN "restored" ELSE "archived"]

\* write_registry replaces the whole file.
FinishClerk(c) ==
  /\ clerk[c].pc = "write"
  /\ registry' = UpdatedEntry(clerk[c].read, clerk[c].id, clerk[c].restoring)
  /\ clerk' = [clerk EXCEPT ![c] = ClerkStart]
  /\ settled' = IF raced \/ clerk[c].restoring THEN settled ELSE settled \cup {clerk[c].id}
  /\ UNCHANGED <<runId, evidence, newest, gate, export, stop, troubles, raced>>

-----------------------------------------------------------------------------
EvidenceNext(e) ==
  BeginEvidence(e) \/ RescoreRecord(e) \/ EvaluateRecord(e) \/ EndRecords(e) \/ WriteManifest(e)

GateNext(g) ==
  \/ BeginGate(g) \/ GateReadsRescore(g) \/ GateReadsCompat(g) \/ GateReadsTrace(g)
  \/ GateDecides(g) \/ WriteGateManifest(g)

ExportNext(x) ==
  \/ BeginExport(x) \/ StopExportEarly(x) \/ BindGate(x)
  \/ BindEvidence(x) \/ OpenExportManifest(x) \/ WriteExportManifest(x)
  \/ SealOrStop(x) \/ WriteSums(x)

ClerkNext(c) ==
  \/ \E e \in Archivable, restoring \in BOOLEAN : BeginClerk(c, e, restoring)
  \/ FinishClerk(c)

Next ==
  \/ \E e \in Evidence : EvidenceNext(e)
  \/ \E g \in Gates : GateNext(g)
  \/ \E x \in Exports : ExportNext(x)
  \/ \E w \in Workers : RequestStop(w) \/ Die(w)
  \/ \E c \in Clerks : ClerkNext(c)

Spec == Init /\ [][Next]_vars

-----------------------------------------------------------------------------
(* Properties                                                              *)

Marks == {"scored", "judge_failed", "unscored", "PASS", "WARN", "FAIL"}
Read == [id : Evidence \cup {None}, found : BOOLEAN, marks : Seq(Marks), stopped : BOOLEAN]

EvidenceRecord ==
  [ pc : {"idle", "records", "manifest", "done", "dead"}, marks : Seq(Marks), stopped : BOOLEAN,
    manifest : {"none", "torn", "whole"} ]

GateRecord ==
  [ pc : {"idle", "rescore", "compat", "trace", "decide", "manifest", "done", "dead"},
    request : GateRequests \cup {GateStart.request}, rescore : Read, trace : Read,
    compat : BOOLEAN, decision : Decisions \cup {None}, manifest : {"none", "torn", "whole"} ]

ExportRecord ==
  [ pc : {"idle", "started", "binding", "copied", "completing", "stopping", "sealing", "sums",
          "done", "dead"},
    request : ExportRequests \cup {ExportStart.request}, gate : Gates \cup {None},
    bound : SUBSET (Evidence \cup {Compat}), warned : SUBSET {"gate", "rescore", "trace", "compat"},
    manifest : {"none", "torn", "completed", "stopped"},
    sums : {"none", "torn", "completed", "stopped"} ]

Registries == [Archivable -> {"none", "archived", "restored"}]

ClerkRecord ==
  [ pc : {"idle", "write"}, id : Archivable \cup {None}, restoring : BOOLEAN,
    read : {<<>>} \cup Registries ]

\* Every variable keeps the shape that its files and its worker give it.
TypeOK ==
  /\ runId \in DOMAIN Runs
  /\ evidence \in [Evidence -> EvidenceRecord]
  /\ newest \in Seq(Evidence \cup Gates)
  /\ gate \in [Gates -> GateRecord]
  /\ export \in [Exports -> ExportRecord]
  /\ registry \in Registries
  /\ clerk \in [Clerks -> ClerkRecord]
  /\ stop \subseteq Stoppable
  /\ troubles \in 0 .. MaxTroubles
  /\ settled \subseteq Archivable
  /\ raced \in BOOLEAN

\* What a gate has read of a rescoring or trace evaluation is all there will ever
\* be of it: its worker is done with it, nothing changed it since, and if it lacks
\* records of the run it says that it was stopped (load_rescore_evidence,
\* load_trace_evaluation_evidence).
GateReadsFinal ==
  \A g \in Gates : \A had \in {gate[g].rescore, gate[g].trace} : had.found =>
    LET e == evidence[had.id]
    IN /\ e.pc = "done" /\ e.manifest = "whole"
       /\ had.marks = e.marks /\ had.stopped = e.stopped
       /\ had.stopped \/ Len(had.marks) = Length

\* The evidence ran to its end over every record of the run.
Complete(e) ==
  evidence[e].manifest = "whole" /\ ~evidence[e].stopped /\ Len(evidence[e].marks) = Length

\* A GO rests on evidence that is complete when the gate asks for it, and stays
\* so: no worker that was stopped, died or is still writing, and no record it
\* passed over, stands behind one (run_quality_gate, evaluate_policy).
GoRests ==
  \A g \in Gates : gate[g].decision = "GO" =>
    /\ gate[g].compat /\ run.suite = "PASS"
    /\ run.artifact \in {"none", "matches_official"}
    /\ \A i \in 1 .. Length : run.records[i].returned # "other"
    /\ gate[g].request.require \/ gate[g].request.rescore # None =>
         LET e == gate[g].rescore.id
         IN /\ e \in Rescores /\ Complete(e)
            /\ \A i \in 1 .. Length : evidence[e].marks[i] # "unscored"
                                      /\ run.records[i].fresh.score # NoScore
    /\ gate[g].request.trace # None =>
         /\ Complete(gate[g].request.trace)
         /\ \A i \in 1 .. Length : EvaluateSource(run.records[i]) = "PASS"

\* A completed export that found a gate holds the evidence that gate decided on
\* and no other, or says what it left out, whatever was archived, restored or
\* produced since; only a rescoring named in the request replaces the gate's
\* (collect_bound_evidence_dirs).
ExportFollowsGate ==
  \A x \in Exports : export[x].manifest = "completed" /\ export[x].gate # None =>
    LET g == export[x].gate
        decidedOn == {gate[g].trace.id} \cup (IF gate[g].compat THEN {Compat} ELSE {})
        rescored  == {gate[g].rescore.id}
        named     == {export[x].request.rescore} \ {None}
    IN /\ gate[g].manifest = "whole"
       /\ export[x].bound \subseteq decidedOn \cup (IF named = {} THEN rescored ELSE named)
       /\ TraceEvals \cap decidedOn \subseteq export[x].bound \/ "trace" \in export[x].warned
       /\ Compat \in export[x].bound \/ "compat" \in export[x].warned
       /\ (Rescores \cap (IF named = {} THEN rescored ELSE named)) \subseteq export[x].bound
          \/ "rescore" \in export[x].warned

\* verify_checksums finds the manifest that was hashed.
Verifies(x) == export[x].sums \notin {"none", "torn"} /\ export[x].sums = export[x].manifest

\* Checksums that were written always verify, and then for a completed export
\* with whole evidence; an export that ended has them unless it was stopped, and
\* a stopped one has none, however late the request came (run_audit_export).
SealedExports ==
  \A x \in Exports :
    /\ export[x].sums \notin {"none", "torn"} => Verifies(x)
    /\ Verifies(x) => /\ export[x].manifest = "completed"
                      /\ \A e \in export[x].bound : ManifestOf(e) = "whole"
    /\ export[x].pc = "done" => IF export[x].manifest = "completed" THEN Verifies(x)
                                ELSE export[x].manifest = "stopped" /\ export[x].sums = "none"

\* The gates and exports that took a piece of evidence without being told to
ImplicitUses(e) ==
  {g \in Gates : \/ e = Compat /\ gate[g].compat
                 \/ e = gate[g].rescore.id /\ e # gate[g].request.rescore
                 \/ e = gate[g].trace.id /\ e # gate[g].request.trace}
  \cup {x \in Exports : \/ e = export[x].gate /\ e # export[x].request.gate
                        \/ e \in export[x].bound /\ e # export[x].request.rescore}

\* Evidence whose archiving has returned stays archived, and no gate or export
\* takes it up unasked, until somebody begins to restore it; as long as no two
\* calls to the registry have overlapped (archive_evidence, select_manifest_dir).
PutAwayHeld ==
  [][\A e \in settled : registry[e] = "archived" /\ ImplicitUses(e)' \subseteq ImplicitUses(e)]_vars
=============================================================================
