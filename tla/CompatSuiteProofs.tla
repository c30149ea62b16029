------------------------- MODULE CompatSuiteProofs --------------------------
(***************************************************************************)
(* Proofs about JobControl, for every number of cases, and about           *)
(* CompatSuite, for all suites and all answers.                            *)
(*                                                                         *)
(* The first part is about any job: the inductive invariant, and the       *)
(* safety properties that follow from it; nothing that CompatSuite assumes *)
(* is used in it.  The second part shows that the suite is a worker as     *)
(* JobControl describes one, so that what was proved of a job holds of it, *)
(* and that a listed run tells the truth.  The third part is about the     *)
(* stream of an answer: what is written of the events, where the reader    *)
(* splits it, and that the events it yields are those that were sent.  The *)
(* fourth part follows these events through the metrics and the checks:    *)
(* a case passes or fails by what was said.                                *)
(***************************************************************************)
EXTENDS CompatSuite, Integers, FiniteSetTheorems, WellFoundedInduction, TLAPS

-----------------------------------------------------------------------------
(* Any job                                                                 *)

\* The steps at which the suite has a case left to run
InLoop == {"new", "check", "testPause", "toPause", "resuming", "toStart", "probing"} \cup WaitSteps

\* The steps a stop leaves reachable once it let a case start
AfterLateCase == {"check", "probing", "writing", "announce", "raised", "returned", "gone"}

\* The event is clear exactly while a pause is requested.
FlagsAgree == control.event <=> ~control.pause

\* Once a case was started late, the worker reaches the stop test before the next one.
LateStart ==
  /\ ~control.stop => late = 0
  /\ late <= 1
  /\ late = 1 => pc \in AfterLateCase

\* A terminal status appears only at the end, with the manifest that goes with it.
EndShape ==
  /\ pc \in InLoop => index < Total /\ manifest = "none" /\ ~stopped
  /\ stopped => control.stop
  /\ pc = "raised" => manifest = "none"
  /\ pc = "writing" => manifest = "none" /\ (stopped \/ index = Total)
  /\ pc \in {"announce", "returned"} =>
       /\ manifest = (IF stopped THEN "stopped" ELSE "completed")
       /\ stopped \/ index = Total
  /\ job.status \in TerminalStatuses => pc \in {"returned", "gone"}
  /\ job.status = "completed" => pc = "gone" /\ manifest = "completed" /\ index = Total
  /\ job.status = "stopped" => manifest = "stopped" /\ stopped
  /\ job.status = "failed" => pc = "gone"
  /\ pc = "returned" /\ stopped => job.status = "stopped"
  /\ pc = "gone" => job.status \in TerminalStatuses
  /\ manifest = "stopped" => stopped

\* The inductive invariant
IndInv ==
  /\ TypeOK
  /\ FlagsAgree
  /\ LateStart
  /\ ParkedCanBeResumed
  /\ ProgressExact
  /\ EndShape
-----------------------------------------------------------------------------
\* A job that was just created satisfies the invariant.
LEMMA InitInvariant == Init => IndInv
<1> SUFFICES ASSUME Init PROVE IndInv
  OBVIOUS
<1>1. TypeOK
  <2>1. 0 \in 0 .. Total /\ 0 \in Nat
    BY TotalAssumption
  <2>2. job \in [status : Statuses, completed : 0 .. Total, success : 0 .. Total, failure : 0 .. Total]
    BY <2>1 DEF Init, Statuses, ControllableStatuses
  <2> QED BY <2>1, <2>2 DEF Init, TypeOK, WorkerSteps
<1>2. FlagsAgree /\ LateStart /\ ParkedCanBeResumed /\ ProgressExact
  BY DEF Init, FlagsAgree, LateStart, ParkedCanBeResumed, ProgressExact
<1>3. EndShape
  BY TotalAssumption DEF Init, EndShape, InLoop, WaitSteps, TerminalStatuses
<1> QED BY <1>1, <1>2, <1>3 DEF IndInv

\* A control moves the flags and the status and nothing of the worker.
LEMMA ControlKeepsInvariant == IndInv /\ Control => IndInv'
<1> SUFFICES ASSUME IndInv, Control PROVE IndInv'
  OBVIOUS
<1> USE DEF IndInv, TypeOK, FlagsAgree, LateStart, ParkedCanBeResumed, ProgressExact,
  EndShape, InLoop, AfterLateCase, WaitSteps, WorkerSteps, Statuses, TerminalStatuses,
  ControllableStatuses, Resumable
<1>1. CASE Pause
  BY <1>1 DEF Pause, Paused
<1>2. CASE Resume
  <2>1. TypeOK'
    BY <1>2 DEF Resume, Resumed
  <2>2. FlagsAgree'
    BY <1>2 DEF Resume, Resumed
  <2>3. LateStart'
    BY <1>2 DEF Resume, Resumed
  <2>4. ParkedCanBeResumed'
    BY <1>2 DEF Resume, Resumed
  <2>5. ProgressExact'
    BY <1>2 DEF Resume, Resumed
  <2>6. EndShape'
    BY <1>2 DEF Resume, Resumed
  <2> QED BY <2>1, <2>2, <2>3, <2>4, <2>5, <2>6
<1>3. CASE Stop
  BY <1>3 DEF Stop, Stopped, Stoppable
<1> QED BY <1>1, <1>2, <1>3 DEF Control

\* Every step of the worker and of its host, whatever the flags were set to meanwhile
LEMMA WorkerKeepsInvariant == IndInv /\ Worker => IndInv'
<1> SUFFICES ASSUME IndInv, Worker PROVE IndInv'
  OBVIOUS
<1> USE DEF IndInv, TypeOK, FlagsAgree, LateStart, ParkedCanBeResumed, ProgressExact,
  EndShape, InLoop, AfterLateCase, WaitSteps, WorkerSteps, Statuses, TerminalStatuses,
  ControllableStatuses, Resumable
<1>1. CASE HostStart
  BY <1>1 DEF HostStart
<1>2. CASE CheckStop
  <2>1. TypeOK'
    BY <1>2 DEF CheckStop, StopSeen
  <2>2. FlagsAgree'
    BY <1>2 DEF CheckStop, StopSeen
  <2>3. LateStart'
    BY <1>2 DEF CheckStop, StopSeen
  <2>4. ParkedCanBeResumed'
    BY <1>2 DEF CheckStop, StopSeen
  <2>5. ProgressExact'
    BY <1>2 DEF CheckStop, StopSeen
  <2>6. EndShape'
    BY <1>2 DEF CheckStop, StopSeen
  <2> QED BY <2>1, <2>2, <2>3, <2>4, <2>5, <2>6
<1>3. CASE TestPause
  BY <1>3 DEF TestPause
<1>4. CASE ReportPaused
  BY <1>4 DEF ReportPaused, PatchPaused
<1>5. CASE TestParked
  BY <1>5 DEF TestParked, KeepWaiting
<1>6. CASE WaitReturns
  BY <1>6 DEF WaitReturns
<1>7. CASE LeaveWait
  BY <1>7 DEF LeaveWait, StopAfterWait
<1>8. CASE ReportResumed
  BY <1>8 DEF ReportResumed, PatchResumed
<1>9. CASE StartCase
  BY <1>9 DEF StartCase, PatchStarted
<1>10. CASE FinishCase
  <2>1. index < Total /\ index + 1 \in 0 .. Total /\ Total \in Nat
    BY <1>10, TotalAssumption DEF FinishCase, FinishCaseAs
  <2>2. PICK ok \in BOOLEAN : job' = PatchCompleted(job, index + 1, ok)
    BY <1>10 DEF FinishCase, FinishCaseAs
  <2>3. job' = [status |-> job.status, completed |-> index + 1,
                success |-> job.success + (IF ok THEN 1 ELSE 0),
                failure |-> job.failure + (IF ok THEN 0 ELSE 1)]
    BY <2>2 DEF PatchCompleted
  <2>4. ProgressExact' /\ TypeOK'
    BY <1>10, <2>1, <2>3 DEF FinishCase, FinishCaseAs, LastCase
  <2> QED BY <1>10, <2>1, <2>3, <2>4 DEF FinishCase, FinishCaseAs, LastCase
<1>11. CASE CaseRaises
  BY <1>11 DEF CaseRaises
<1>12. CASE WriteManifest
  BY <1>12 DEF WriteManifest
<1>13. CASE Announce
  BY <1>13 DEF Announce, PatchStopped
<1>14. CASE HostEnd
  BY <1>14 DEF HostEnd
<1>15. CASE DropControl
  BY <1>15 DEF DropControl
<1> QED BY <1>1, <1>2, <1>3, <1>4, <1>5, <1>6, <1>7, <1>8, <1>9, <1>10, <1>11, <1>12,
           <1>13, <1>14, <1>15 DEF Worker

\* Whatever the operator presses and whenever the worker looks, the invariant holds.
THEOREM JobInvariance == Spec => []IndInv
<1>1. IndInv /\ [Next]_vars => IndInv'
  <2> SUFFICES ASSUME IndInv, [Next]_vars PROVE IndInv'
    OBVIOUS
  <2>1. CASE UNCHANGED vars
    BY <2>1 DEF vars, IndInv, TypeOK, FlagsAgree, LateStart, ParkedCanBeResumed, ProgressExact,
         EndShape, InLoop, AfterLateCase, WaitSteps, WorkerSteps, Statuses, TerminalStatuses,
         ControllableStatuses, Resumable
  <2> QED BY <2>1, ControlKeepsInvariant, WorkerKeepsInvariant DEF Next
<1> QED BY <1>1, InitInvariant, PTL DEF Spec

\* job_runtime and compatibility keep the job, the flags and the counters in their types.
THEOREM JobTypeCorrect == Spec => []TypeOK
<1>1. IndInv => TypeOK
  BY DEF IndInv
<1> QED BY <1>1, JobInvariance, PTL

\* A stop lets at most one more case start, for suites of every length.
THEOREM StopIsPrompt == Spec => []StopTakesEffect
<1>1. IndInv => StopTakesEffect
  BY DEF StopTakesEffect, IndInv, LateStart
<1> QED BY <1>1, JobInvariance, PTL

\* No resume is lost on a parked worker, and a parked worker can be resumed.
THEOREM ResumeReachesParked == Spec => []ParkedIsReleasable
<1>1. IndInv => ParkedIsReleasable
  BY DEF ParkedIsReleasable, WakeUpNotLost, IndInv, FlagsAgree, TypeOK
<1> QED BY <1>1, JobInvariance, PTL

\* The counters are exact through pauses and stops, and the end the job shows is the
\* end its manifest tells.
THEOREM ReportsAreTrue == Spec => []ReportsTrue
<1>1. IndInv => ReportsTrue
  BY DEF ReportsTrue, EndAgrees, IndInv, EndShape
<1> QED BY <1>1, JobInvariance, PTL

\* A job that ended is never given another status.
THEOREM EndIsKept == Spec => EndIsFinal
<1>1. IndInv /\ [Next]_vars => [job.status \in TerminalStatuses => job'.status = job.status]_vars
  <2> SUFFICES ASSUME IndInv, [Next]_vars, job.status \in TerminalStatuses
               PROVE  job'.status = job.status
    OBVIOUS
  <2> USE DEF IndInv, TypeOK, EndShape, InLoop, WaitSteps, TerminalStatuses, ControllableStatuses
  <2>1. CASE UNCHANGED vars
    BY <2>1 DEF vars
  <2>2. CASE Control
    BY <2>2 DEF Control, Pause, Resume, Stop, Resumable, Stoppable
  <2>3. CASE Worker
    <3>1. CASE HostEnd
      BY <3>1 DEF HostEnd
    <3>2. CASE DropControl
      BY <3>2 DEF DropControl
    <3> QED BY <2>3, <3>1, <3>2 DEF Worker, HostStart, CheckStop, TestPause, ReportPaused,
              TestParked, WaitReturns, LeaveWait, ReportResumed, StartCase, FinishCase, FinishCaseAs,
              CaseRaises, WriteManifest, Announce
  <2> QED BY <2>1, <2>2, <2>3 DEF Next
<1> QED BY <1>1, JobInvariance, PTL DEF Spec, EndIsFinal

-----------------------------------------------------------------------------
(* The suite                                                               *)

\* A step of the suite is a step of the job, or one that the job does not see.
LEMMA SuiteStepIsJobStep == [SuiteNext]_suiteVars => [Next]_vars
<1> SUFFICES ASSUME [SuiteNext]_suiteVars PROVE [Next]_vars
  OBVIOUS
<1>1. CASE UNCHANGED suiteVars
  BY <1>1 DEF suiteVars, vars
<1>2. CASE Operator
  BY <1>2 DEF Operator, Next
<1>3. CASE Loop
  BY <1>3 DEF Loop, Next, Worker
<1>4. CASE Probe
  <2>1. CASE BeginCase
    BY <2>1 DEF BeginCase, Next, Worker
  <2>2. CASE KeyMissing \/ ReadRaises
    BY <2>2 DEF KeyMissing, ReadRaises, GiveUp, Next, Worker
  <2>3. CASE ConnectFails \/ Refuse \/ StreamBreaks \/ StreamEnds
    BY <2>3 DEF ConnectFails, Refuse, StreamBreaks, StreamEnds, FinishRequest
  <2>4. CASE Accept \/ ReadChunk \/ ReadEvent
    BY <2>4 DEF Accept, ReadChunk, ReadEvent
  <2>5. CASE JudgeCase
    <3>1. PICK status : FinishCaseAs(status # "FAIL")
      BY <2>5 DEF JudgeCase
    <3>2. (status # "FAIL") \in BOOLEAN
      OBVIOUS
    <3> QED BY <3>1, <3>2 DEF FinishCase, Next, Worker
  <2> QED BY <1>4, <2>1, <2>2, <2>3, <2>4, <2>5 DEF Probe
<1>5. CASE Save
  <2>1. CASE SaveManifest
    BY <2>1 DEF SaveManifest, Next, Worker
  <2>2. CASE WriteRecords \/ WriteSummary \/ OpenManifest
    BY <2>2 DEF WriteRecords, WriteSummary, OpenManifest, WriteFile
  <2> QED BY <1>5, <2>1, <2>2 DEF Save
<1> QED BY <1>1, <1>2, <1>3, <1>4, <1>5 DEF SuiteNext, SuiteWorker

\* The compatibility suite implements the job that JobControl describes.
THEOREM SuiteImplementsJob == SuiteSpec => Spec
<1>1. SuiteInit => Init
  BY DEF SuiteInit
<1> QED BY <1>1, SuiteStepIsJobStep, PTL DEF SuiteSpec, Spec

\* What was proved of every job holds of a job that runs the suite: a stop is prompt, a
\* parked suite can be resumed, the counters are exact and the end is told once.
THEOREM SuiteKeepsJobPromises ==
  SuiteSpec => [](StopTakesEffect /\ ParkedIsReleasable /\ ReportsTrue) /\ EndIsFinal
BY SuiteImplementsJob, StopIsPrompt, ResumeReachesParked, ReportsAreTrue, EndIsKept, PTL
-----------------------------------------------------------------------------
Categories == {s[i].category : s \in Suites, i \in 1 .. Total}
Rows == [category : Categories, status : Grades]
WithStatus(rows, status) == {i \in DOMAIN rows : rows[i].status = status}

\* The records are those of the first cases of the suite, and the job counts them.
RecordsKept ==
  /\ suite \in Suites
  /\ records \in Seq(Rows)
  /\ Len(records) = index
  /\ \A i \in 1 .. index : records[i].category = suite[i].category
  /\ StatusCount("PASS") + StatusCount("WARN") = job.success
  /\ StatusCount("FAIL") = job.failure

\* Once the manifest is written nothing of what it tells changes.
ManifestKept ==
  Listed =>
    /\ disk = {"records", "summary", "manifest"}
    /\ manifest # "none"
    /\ job.status # "failed"
    /\ records = <<>> => stopped
    /\ verdict = [status |-> SuiteStatus, passed |-> StatusCount("PASS"),
                  warned |-> StatusCount("WARN"), failed |-> StatusCount("FAIL")]

SuiteInv == IndInv /\ RecordsKept /\ ManifestKept

\* The records of one status are finitely many.
LEMMA StatusFinite ==
  ASSUME NEW rows \in Seq(Rows), NEW status
  PROVE  IsFiniteSet(WithStatus(rows, status)) /\ Cardinality(WithStatus(rows, status)) \in Nat
<1>1. DOMAIN rows = 1 .. Len(rows) /\ Len(rows) \in Nat
  OBVIOUS
<1>2. IsFiniteSet(1 .. Len(rows))
  BY <1>1, FS_Interval
<1>3. WithStatus(rows, status) \in SUBSET (1 .. Len(rows))
  BY <1>1 DEF WithStatus
<1>4. IsFiniteSet(WithStatus(rows, status))
  BY <1>2, <1>3, FS_Subset
<1> QED BY <1>4, FS_CardinalityType

\* A record more is one more of its status and none of the others.
LEMMA StatusCounted ==
  ASSUME NEW rows \in Seq(Rows), NEW row \in Rows, NEW status
  PROVE  Cardinality(WithStatus(Append(rows, row), status))
           = Cardinality(WithStatus(rows, status)) + (IF row.status = status THEN 1 ELSE 0)
<1> DEFINE more == Append(rows, row)
           n == Len(rows) + 1
<1>1. /\ DOMAIN rows = 1 .. Len(rows) /\ Len(rows) \in Nat
      /\ DOMAIN more = 1 .. n
      /\ more[n] = row
      /\ \A i \in 1 .. Len(rows) : more[i] = rows[i]
  OBVIOUS
<1>2. IsFiniteSet(WithStatus(rows, status)) /\ Cardinality(WithStatus(rows, status)) \in Nat
  BY StatusFinite
<1>3. CASE row.status = status
  <2>1. WithStatus(more, status) = WithStatus(rows, status) \cup {n}
    BY <1>1, <1>3 DEF WithStatus
  <2>2. n \notin WithStatus(rows, status)
    BY <1>1 DEF WithStatus
  <2> QED BY <1>2, <1>3, <2>1, <2>2, FS_AddElement
<1>4. CASE row.status # status
  <2>1. WithStatus(more, status) = WithStatus(rows, status)
    BY <1>1, <1>4 DEF WithStatus
  <2> QED BY <1>2, <1>4, <2>1
<1> QED BY <1>3, <1>4

\* The worst of some statuses is one of the three.
LEMMA WorstGrade == \A S : Worst(S) \in Grades
BY DEF Worst, Grades

\* A suite that was just loaded has no record, and no manifest of its own.
LEMMA SuiteInitInvariant == SuiteInit => SuiteInv
<1> SUFFICES ASSUME SuiteInit PROVE SuiteInv
  OBVIOUS
<1>1. IndInv
  BY InitInvariant DEF SuiteInit
<1>2. \A status : StatusCount(status) = 0
  <2>1. \A status : {i \in DOMAIN records : records[i].status = status} = {}
    BY DEF SuiteInit
  <2> QED BY <2>1, FS_EmptySet DEF StatusCount
<1>3. RecordsKept
  BY <1>2 DEF SuiteInit, Init, RecordsKept
<1>4. ManifestKept
  BY DEF SuiteInit, ManifestKept, Listed
<1> QED BY <1>1, <1>3, <1>4 DEF SuiteInv

\* Steps that leave the records, the files and the worker's place among them as they are
LEMMA QuietKeepsInvariant ==
  ASSUME SuiteInv, IndInv', UNCHANGED <<suite, records, disk, verdict, index, stopped, manifest>>,
         job'.success = job.success, job'.failure = job.failure,
         Listed => job'.status # "failed"
  PROVE  SuiteInv'
<1>1. \A status : StatusCount(status)' = StatusCount(status)
  BY DEF StatusCount
<1>2. RecordsKept'
  BY <1>1 DEF SuiteInv, RecordsKept
<1>3. SuiteStatus' = SuiteStatus /\ Listed' = Listed
  BY DEF SuiteStatus, Recorded, Listed
<1>4. ManifestKept'
  BY <1>1, <1>3 DEF SuiteInv, ManifestKept
<1> QED BY <1>2, <1>4 DEF SuiteInv

\* The loop and the host: only a raised probe fails the job, and it left no manifest.
LEMMA LoopKeepsInvariant == SuiteInv /\ IndInv' /\ (Loop \/ Operator) => SuiteInv'
<1> SUFFICES ASSUME SuiteInv, IndInv', Loop \/ Operator PROVE SuiteInv'
  OBVIOUS
<1>0. IndInv /\ TypeOK /\ EndShape /\ (Listed => manifest # "none" /\ job.status # "failed")
  BY DEF SuiteInv, IndInv, ManifestKept
<1>1. UNCHANGED <<suite, records, disk, verdict>>
  BY DEF Loop, Operator, fileVars
<1>2. CASE CheckStop \/ LeaveWait
  <2>1. pc \in InLoop /\ ~Listed
    BY <1>0, <1>2 DEF CheckStop, LeaveWait, EndShape, InLoop, WaitSteps
  <2>2. UNCHANGED <<job, index, manifest>>
    BY <1>2 DEF CheckStop, LeaveWait
  <2>3. \A status : StatusCount(status)' = StatusCount(status)
    BY <1>1 DEF StatusCount
  <2>4. RecordsKept'
    BY <1>1, <2>2, <2>3 DEF SuiteInv, RecordsKept
  <2>5. ManifestKept'
    BY <1>1, <2>1 DEF ManifestKept, Listed
  <2> QED BY <2>4, <2>5 DEF SuiteInv
<1>3. CASE HostEnd
  <2>1. pc = "raised" => ~Listed
    BY <1>0, <1>3 DEF EndShape
  <2>2. /\ UNCHANGED <<index, stopped, manifest>>
        /\ job'.success = job.success /\ job'.failure = job.failure
        /\ Listed => job'.status # "failed"
    BY <1>0, <1>3, <2>1 DEF HostEnd, TypeOK
  <2> QED BY <1>1, <2>2, QuietKeepsInvariant
<1>4. CASE Control
  <2>1. /\ UNCHANGED <<index, stopped, manifest>>
        /\ job'.success = job.success /\ job'.failure = job.failure
        /\ job'.status # "failed" \/ job'.status = job.status
    BY <1>0, <1>4 DEF Control, Pause, Resume, Stop, TypeOK
  <2> QED BY <1>0, <1>1, <2>1, QuietKeepsInvariant
<1>5. CASE \/ HostStart \/ TestPause \/ ReportPaused \/ TestParked \/ WaitReturns
           \/ ReportResumed \/ Announce \/ DropControl
  <2>1. /\ UNCHANGED <<index, stopped, manifest>>
        /\ job'.success = job.success /\ job'.failure = job.failure
        /\ job'.status # "failed" \/ job'.status = job.status
    BY <1>0, <1>5 DEF HostStart, TestPause, ReportPaused, TestParked, WaitReturns,
         ReportResumed, Announce, DropControl, PatchPaused, PatchResumed, PatchStopped, TypeOK
  <2> QED BY <1>0, <1>1, <2>1, QuietKeepsInvariant
<1> QED BY <1>2, <1>3, <1>4, <1>5 DEF Loop, Operator

\* The probe: its requests change no record, and its judgement adds one.
LEMMA ProbeKeepsInvariant == SuiteInv /\ IndInv' /\ Probe => SuiteInv'
<1> SUFFICES ASSUME SuiteInv, IndInv', Probe PROVE SuiteInv'
  OBVIOUS
<1>0. IndInv /\ TypeOK /\ EndShape /\ RecordsKept
  BY DEF SuiteInv, IndInv
<1>1. CASE BeginCase
  <2>1. /\ UNCHANGED <<suite, records, disk, verdict, index, stopped, manifest>>
        /\ job'.success = job.success /\ job'.failure = job.failure /\ job'.status = job.status
    BY <1>0, <1>1 DEF BeginCase, StartCase, PatchStarted, fileVars, TypeOK
  <2> QED BY <2>1, QuietKeepsInvariant DEF SuiteInv, ManifestKept
<1>2. CASE KeyMissing \/ ReadRaises
  <2>1. UNCHANGED <<suite, records, disk, verdict, index, stopped, manifest, job>>
    BY <1>2 DEF KeyMissing, ReadRaises, GiveUp, CaseRaises, fileVars
  <2> QED BY <2>1, QuietKeepsInvariant DEF SuiteInv, ManifestKept
<1>3. CASE ConnectFails \/ Refuse \/ StreamBreaks \/ StreamEnds
  <2>1. UNCHANGED <<suite, records, disk, verdict, index, stopped, manifest, job>>
    BY <1>3 DEF ConnectFails, Refuse, StreamBreaks, StreamEnds, FinishRequest, vars, fileVars
  <2> QED BY <2>1, QuietKeepsInvariant DEF SuiteInv, ManifestKept
<1>4. CASE Accept \/ ReadChunk \/ ReadEvent
  <2>1. UNCHANGED <<suite, records, disk, verdict, index, stopped, manifest, job>>
    BY <1>4 DEF Accept, ReadChunk, ReadEvent, vars, fileVars
  <2> QED BY <2>1, QuietKeepsInvariant DEF SuiteInv, ManifestKept
<1>5. CASE JudgeCase
  <2> DEFINE status == StatusOf(CaseChecks(Case, answers[1], SecondMetrics))
             row == [category |-> Case.category, status |-> status]
  <2>1. /\ FinishCaseAs(status # "FAIL")
        /\ records' = Append(records, row)
        /\ UNCHANGED <<suite, disk, verdict>>
    BY <1>5 DEF JudgeCase, fileVars
  <2>2. pc = "probing" /\ pc \in InLoop /\ index < Total /\ manifest = "none"
    BY <1>0, <2>1 DEF FinishCaseAs, InLoop, EndShape
  <2>3. ~Listed
    BY <2>2 DEF SuiteInv, ManifestKept
  <2>4. status \in Grades
    BY WorstGrade DEF StatusOf
  <2>5. index \in Nat /\ index + 1 \in 1 .. Total
    BY <1>0, <2>2, TotalAssumption DEF TypeOK
  <2>6. row \in Rows
    BY <1>0, <2>4, <2>5 DEF RecordsKept, Rows, Categories, Case
  <2>7. /\ index' = index + 1
        /\ job'.success = job.success + (IF status # "FAIL" THEN 1 ELSE 0)
        /\ job'.failure = job.failure + (IF status # "FAIL" THEN 0 ELSE 1)
    BY <1>0, <2>1 DEF FinishCaseAs, PatchCompleted, TypeOK
  <2>8. \A g : StatusCount(g)' = StatusCount(g) + (IF status = g THEN 1 ELSE 0)
    <3> TAKE g
    <3>1. records \in Seq(Rows)
      BY <1>0 DEF RecordsKept
    <3>2. Cardinality(WithStatus(Append(records, row), g))
            = Cardinality(WithStatus(records, g)) + (IF row.status = g THEN 1 ELSE 0)
      BY <2>6, <3>1, StatusCounted
    <3>3. StatusCount(g)' = Cardinality(WithStatus(Append(records, row), g))
      BY <2>1 DEF StatusCount, WithStatus
    <3>4. StatusCount(g) = Cardinality(WithStatus(records, g)) /\ row.status = status
      BY DEF StatusCount, WithStatus
    <3> QED BY <3>2, <3>3, <3>4
  <2>9. \A g : StatusCount(g) \in Nat
    BY <1>0, StatusFinite DEF StatusCount, WithStatus, RecordsKept
  <2>10. /\ StatusCount("PASS")' + StatusCount("WARN")' = job'.success
         /\ StatusCount("FAIL")' = job'.failure
    BY <1>0, <2>4, <2>7, <2>8, <2>9 DEF RecordsKept, Grades
  <2>11. records' \in Seq(Rows) /\ Len(records') = index'
    BY <1>0, <2>1, <2>6, <2>7 DEF RecordsKept
  <2>12. \A i \in 1 .. index' : records'[i].category = suite'[i].category
    BY <1>0, <2>1, <2>5, <2>6, <2>7 DEF RecordsKept, Case
  <2>13. RecordsKept'
    BY <1>0, <2>1, <2>10, <2>11, <2>12 DEF RecordsKept
  <2>14. ManifestKept'
    BY <2>1, <2>3 DEF ManifestKept, Listed
  <2> QED BY <2>13, <2>14 DEF SuiteInv
<1> QED BY <1>1, <1>2, <1>3, <1>4, <1>5 DEF Probe

\* The files: the manifest is written from the records, and only when all were kept.
LEMMA SaveKeepsInvariant == SuiteInv /\ IndInv' /\ Save => SuiteInv'
<1> SUFFICES ASSUME SuiteInv, IndInv', Save PROVE SuiteInv'
  OBVIOUS
<1>0. IndInv /\ TypeOK /\ EndShape /\ RecordsKept
  BY DEF SuiteInv, IndInv
<1>1. CASE WriteRecords \/ WriteSummary \/ OpenManifest
  <2>1. ~Listed'
    BY <1>1 DEF WriteRecords, WriteSummary, OpenManifest, WriteFile, Listed
  <2>2. UNCHANGED <<suite, records, index, job>>
    BY <1>1 DEF WriteRecords, WriteSummary, OpenManifest, WriteFile, vars
  <2>3. \A status : StatusCount(status)' = StatusCount(status)
    BY <2>2 DEF StatusCount
  <2>4. RecordsKept'
    BY <1>0, <2>2, <2>3 DEF RecordsKept
  <2> QED BY <2>1, <2>4 DEF SuiteInv, ManifestKept
<1>2. CASE SaveManifest
  <2>1. /\ pc = "writing"
        /\ UNCHANGED <<suite, records, index, job, stopped>>
        /\ manifest' = IF stopped THEN "stopped" ELSE "completed"
        /\ disk' = {"records", "summary", "manifest"}
    BY <1>2 DEF SaveManifest, WriteManifest
  <2>2. (\A status : StatusCount(status)' = StatusCount(status)) /\ SuiteStatus' = SuiteStatus
    BY <2>1 DEF StatusCount, SuiteStatus, Recorded
  <2>3. RecordsKept'
    BY <1>0, <2>1, <2>2 DEF RecordsKept
  <2>4. job.status # "failed"
    BY <1>0, <2>1 DEF EndShape
  <2>5. records = <<>> => stopped
    BY <1>0, <2>1, TotalAssumption DEF EndShape, RecordsKept
  <2>6. verdict' = [status |-> SuiteStatus, passed |-> StatusCount("PASS"),
                    warned |-> StatusCount("WARN"), failed |-> StatusCount("FAIL")]
    BY <1>2 DEF SaveManifest
  <2>7. ManifestKept'
    BY <2>1, <2>2, <2>4, <2>5, <2>6 DEF ManifestKept
  <2> QED BY <2>3, <2>7 DEF SuiteInv
<1> QED BY <1>1, <1>2 DEF Save

\* The records and the manifest agree with the job in every state of every suite.
THEOREM SuiteInvariance == SuiteSpec => []SuiteInv
<1>1. SuiteInv /\ [SuiteNext]_suiteVars => SuiteInv'
  <2> SUFFICES ASSUME SuiteInv, [SuiteNext]_suiteVars PROVE SuiteInv'
    OBVIOUS
  <2>1. IndInv'
    <3>1. [Next]_vars /\ IndInv
      BY SuiteStepIsJobStep DEF SuiteInv
    <3>2. CASE Next
      BY <3>1, <3>2, ControlKeepsInvariant, WorkerKeepsInvariant DEF Next
    <3>3. CASE UNCHANGED vars
      BY <3>1, <3>3 DEF vars, IndInv, TypeOK, FlagsAgree, LateStart, ParkedCanBeResumed,
           ProgressExact, EndShape, InLoop, AfterLateCase, WaitSteps, WorkerSteps, Statuses,
           TerminalStatuses, ControllableStatuses, Resumable
    <3> QED BY <3>1, <3>2, <3>3
  <2>2. CASE UNCHANGED suiteVars
    BY <2>1, <2>2, QuietKeepsInvariant DEF suiteVars, vars, fileVars, SuiteInv, ManifestKept
  <2>3. CASE SuiteNext
    BY <2>1, <2>3, LoopKeepsInvariant, ProbeKeepsInvariant, SaveKeepsInvariant
       DEF SuiteNext, SuiteWorker
  <2> QED BY <2>2, <2>3
<1> QED BY <1>1, SuiteInitInvariant, PTL DEF SuiteSpec

\* Whatever the provider answers, a run in the list has its files, and its manifest, its
\* records and the counters of its job tell one story.
THEOREM ListedRunsTellTruth == SuiteSpec => []ListedTellsTruth
<1>1. SuiteInv => ListedTellsTruth
  <2> SUFFICES ASSUME SuiteInv, Listed PROVE ListedTellsTruth
    BY DEF ListedTellsTruth
  <2>1. RecordsKept /\ ManifestKept /\ ProgressExact /\ index \in Nat
    BY DEF SuiteInv, IndInv, TypeOK
  <2>2. DOMAIN records = 1 .. index /\ Len(records) = job.completed
    BY <2>1 DEF RecordsKept, ProgressExact
  <2>3. \A g : StatusCount(g) \in Nat /\ (StatusCount(g) > 0 <=> g \in Recorded)
    <3> TAKE g
    <3>1. IsFiniteSet(WithStatus(records, g)) /\ Cardinality(WithStatus(records, g)) \in Nat
      BY <2>1, StatusFinite DEF RecordsKept
    <3>2. Cardinality(WithStatus(records, g)) = 0 <=> WithStatus(records, g) = {}
      BY <3>1, FS_EmptySet
    <3> QED BY <3>1, <3>2 DEF WithStatus, StatusCount, Recorded
  <2>4. verdict.status = "FAIL" <=> job.failure > 0
    <3>1. verdict.status = SuiteStatus /\ StatusCount("FAIL") = job.failure
      BY <2>1 DEF ManifestKept, RecordsKept
    <3>2. CASE records = <<>>
      BY <2>1, <2>3, <3>1, <3>2 DEF SuiteStatus, ManifestKept, Recorded
    <3>3. CASE records # <<>>
      BY <2>3, <3>1, <3>3 DEF SuiteStatus, Worst
    <3> QED BY <3>2, <3>3
  <2>5. verdict.status = "PASS" => verdict.passed = job.completed /\ job.completed > 0
    <3> SUFFICES ASSUME verdict.status = "PASS" PROVE verdict.passed = job.completed /\ job.completed > 0
      OBVIOUS
    <3>1. records # <<>> /\ "WARN" \notin Recorded /\ "FAIL" \notin Recorded
      BY <2>1 DEF ManifestKept, SuiteStatus, Worst
    <3>2. StatusCount("WARN") = 0 /\ StatusCount("FAIL") = 0
      BY <2>3, <3>1
    <3>3. job.success = StatusCount("PASS") /\ job.failure = 0
      BY <2>1, <2>3, <3>2 DEF RecordsKept
    <3>4. job.completed = StatusCount("PASS") /\ job.completed = index
      BY <2>1, <2>3, <3>3 DEF ProgressExact
    <3>5. index > 0
      BY <2>1, <2>2, <3>1 DEF RecordsKept
    <3> QED BY <2>1, <3>4, <3>5 DEF ManifestKept
  <2> QED BY <2>1, <2>2, <2>4, <2>5 DEF ListedTellsTruth, ManifestKept, RecordsKept
<1> QED BY <1>1, SuiteInvariance, PTL

-----------------------------------------------------------------------------
(* Sequences                                                               *)

\* Induction over the natural numbers, with a set for the property: a set that holds 0, and
\* with every number the next one, holds them all.  Otherwise it misses a least number.
LEMMA UpTo ==
  ASSUME NEW T, 0 \in T, \A n \in Nat : n \in T => n + 1 \in T
  PROVE  \A n \in Nat : n \in T
<1> SUFFICES ASSUME NEW n \in Nat, n \notin T PROVE FALSE
  OBVIOUS
<1> DEFINE U == {m \in Nat : m \notin T}
<1>1. PICK x \in U : \A y \in U : ~ (<<y, x>> \in OpToRel(<, Nat))
  <2>1. U \subseteq Nat /\ n \in U
    OBVIOUS
  <2> HIDE DEF U
  <2> QED BY <2>1, NatLessThanWellFounded, WFMin
<1>2. \A y \in U : ~ (y < x)
  <2>1. U \subseteq Nat
    OBVIOUS
  <2> HIDE DEF U
  <2> QED BY <1>1, <2>1 DEF OpToRel
<1>3. x \in Nat /\ x # 0 /\ x \notin T
  OBVIOUS
<1>4. x - 1 \in Nat /\ (x - 1) + 1 = x /\ x - 1 < x
  BY <1>3
<1>5. x - 1 \in T
  BY <1>2, <1>4
<1> QED BY <1>3, <1>4, <1>5

\* The list of joined beginnings, as FlattenSeq defines it
IsFlat(f, seqs) ==
  f = [i \in 1 .. Len(seqs) |-> IF i = 1 THEN seqs[i] ELSE f[i - 1] \o seqs[i]]

\* FlattenSeq takes the last of the joined beginnings that its local function lists.
LEMMA FlatEquation ==
  ASSUME NEW seqs, Len(seqs) \in Nat, Len(seqs) # 0, NEW f, IsFlat(f, seqs)
  PROVE  \E g : IsFlat(g, seqs) /\ FlattenSeq(seqs) = g[Len(seqs)]
<1> DEFINE h == CHOOSE g : IsFlat(g, seqs)
<1>1. IsFlat(h, seqs)
  OBVIOUS
<1>2. FlattenSeq(seqs) = h[Len(seqs)]
  BY DEF FlattenSeq, IsFlat
<1> QED BY <1>1, <1>2

\* Concatenation under a name of its own, which the provers treat as a whole
Join(s, t) == s \o t

\* Two sequences joined, place by place
LEMMA JoinType ==
  ASSUME NEW S, NEW s \in Seq(S), NEW t \in Seq(S)
  PROVE  /\ Join(s, t) \in Seq(S) /\ Len(Join(s, t)) = Len(s) + Len(t)
         /\ \A i \in 1 .. Len(s) : Join(s, t)[i] = s[i]
         /\ \A i \in 1 .. Len(t) : Join(s, t)[Len(s) + i] = t[i]
BY DEF Join

\* Nothing joined to a sequence leaves it as it is.
LEMMA JoinEmpty ==
  ASSUME NEW S, NEW s \in Seq(S)
  PROVE  Join(<<>>, s) = s /\ Join(s, <<>>) = s
BY DEF Join

\* Three sequences may be joined from either end.
LEMMA Regroup ==
  ASSUME NEW S, NEW s \in Seq(S), NEW t \in Seq(S), NEW u \in Seq(S)
  PROVE  Join(Join(s, t), u) = Join(s, Join(t, u))
BY DEF Join

\* There is a list of the joined beginnings of any sequence of sequences.
LEMMA FlatExists ==
  ASSUME NEW seqs, NEW n \in Nat
  PROVE  \E f : f = [i \in 1 .. n |-> IF i = 1 THEN seqs[i] ELSE f[i - 1] \o seqs[i]]
<1> DEFINE Of(f, m) ==
      f = [i \in 1 .. m |-> IF i = 1 THEN seqs[i] ELSE f[i - 1] \o seqs[i]]
    T == {m \in Nat : \E f : Of(f, m)}
<1>1. 0 \in T
  <2> DEFINE f0 == [i \in 1 .. 0 |-> seqs[i]]
  <2>1. Of(f0, 0)
    OBVIOUS
  <2> QED BY <2>1
<1>2. ASSUME NEW m \in Nat, m \in T PROVE m + 1 \in T
  <2>1. PICK f : Of(f, m)
    BY <1>2
  <2> DEFINE g == [i \in 1 .. m + 1 |-> IF i = 1 THEN seqs[i] ELSE f[i - 1] \o seqs[i]]
  <2>2. \A i \in 1 .. m : f[i] = IF i = 1 THEN seqs[i] ELSE f[i - 1] \o seqs[i]
    BY <2>1
  <2>3. \A i \in 1 .. m : g[i] = f[i]
    BY <2>2
  <2>4. \A i \in 1 .. m + 1 : i # 1 => g[i - 1] = f[i - 1]
    <3> SUFFICES ASSUME NEW i \in 1 .. m + 1, i # 1 PROVE g[i - 1] = f[i - 1]
      OBVIOUS
    <3>1. i - 1 \in 1 .. m
      OBVIOUS
    <3> HIDE DEF g
    <3> QED BY <3>1, <2>3
  <2>5. g = [i \in 1 .. m + 1 |-> IF i = 1 THEN seqs[i] ELSE g[i - 1] \o seqs[i]]
    BY <2>4
  <2> HIDE DEF g
  <2>6. \E h : Of(h, m + 1)
    BY <2>5
  <2>7. m + 1 \in Nat
    OBVIOUS
  <2> QED BY <2>6, <2>7
<1>3. n \in T
  <2> HIDE DEF T
  <2> QED BY <1>1, <1>2, UpTo
<1> QED BY <1>3

\* A flattened sequence is built up by joining one sequence more at a time.
LEMMA FlatSteps ==
  ASSUME NEW S, NEW seqs \in Seq(Seq(S)), Len(seqs) # 0
  PROVE  \E f :
           /\ \A i \in 1 .. Len(seqs) : f[i] \in Seq(S)
           /\ FlattenSeq(seqs) = f[Len(seqs)]
           /\ f[1] = seqs[1]
           /\ \A i \in 1 .. Len(seqs) - 1 : f[i + 1] = Join(f[i], seqs[i + 1])
<1>1. Len(seqs) \in Nat /\ 1 \in 1 .. Len(seqs)
  OBVIOUS
<1>2. PICK f : IsFlat(f, seqs) /\ FlattenSeq(seqs) = f[Len(seqs)]
  <2>1. \E f : IsFlat(f, seqs)
    BY <1>1, FlatExists DEF IsFlat
  <2> QED BY <1>1, <2>1, FlatEquation
<1>3. \A i \in 1 .. Len(seqs) : f[i] = IF i = 1 THEN seqs[i] ELSE Join(f[i - 1], seqs[i])
  BY <1>2 DEF IsFlat, Join
<1>4. f[1] = seqs[1]
  BY <1>1, <1>3
<1>5. ASSUME NEW i \in 1 .. Len(seqs) - 1 PROVE f[i + 1] = Join(f[i], seqs[i + 1])
  <2>1. i + 1 \in 1 .. Len(seqs) /\ i + 1 # 1 /\ (i + 1) - 1 = i
    BY <1>1
  <2> QED BY <2>1, <1>3
<1> DEFINE T == {m \in Nat : m + 1 <= Len(seqs) => f[m + 1] \in Seq(S)}
<1>7. \A m \in Nat : m \in T
  <2>1. 0 \in T
    BY <1>4, <1>1
  <2>2. ASSUME NEW m \in Nat, m \in T PROVE m + 1 \in T
    <3> SUFFICES ASSUME (m + 1) + 1 <= Len(seqs) PROVE f[(m + 1) + 1] \in Seq(S)
      OBVIOUS
    <3>1. m + 1 \in 1 .. Len(seqs) - 1 /\ f[m + 1] \in Seq(S) /\ seqs[(m + 1) + 1] \in Seq(S)
      BY <2>2, <1>1
    <3>2. f[(m + 1) + 1] = Join(f[m + 1], seqs[(m + 1) + 1])
      BY <3>1, <1>5
    <3>3. Join(f[m + 1], seqs[(m + 1) + 1]) \in Seq(S)
      BY <3>1, JoinType
    <3> QED BY <3>2, <3>3
  <2> HIDE DEF T
  <2> QED BY <2>1, <2>2, UpTo
<1>8. \A i \in 1 .. Len(seqs) : f[i] \in Seq(S)
  <2> SUFFICES ASSUME NEW i \in 1 .. Len(seqs) PROVE f[i] \in Seq(S)
    OBVIOUS
  <2>1. i - 1 \in Nat /\ (i - 1) + 1 = i /\ (i - 1) + 1 <= Len(seqs)
    BY <1>1
  <2>2. i - 1 \in T
    BY <2>1, <1>7
  <2> QED BY <2>1, <2>2
<1> QED BY <1>2, <1>4, <1>5, <1>8

\* A flattened sequence has elements of the same set, and none when there is nothing to flatten.
LEMMA FlatType ==
  ASSUME NEW S, NEW seqs \in Seq(Seq(S))
  PROVE  FlattenSeq(seqs) \in Seq(S) /\ (Len(seqs) = 0 => FlattenSeq(seqs) = <<>>)
<1>1. CASE Len(seqs) = 0
  <2>1. seqs = <<>> /\ FlattenSeq(seqs) = seqs
    BY <1>1 DEF FlattenSeq
  <2>2. <<>> \in Seq(S)
    OBVIOUS
  <2> QED BY <2>1, <2>2, Zenon
<1>2. CASE Len(seqs) # 0
  <2>1. PICK f : (\A i \in 1 .. Len(seqs) : f[i] \in Seq(S)) /\ FlattenSeq(seqs) = f[Len(seqs)]
    BY <1>2, FlatSteps
  <2>2. Len(seqs) \in 1 .. Len(seqs)
    BY <1>2
  <2>3. f[Len(seqs)] \in Seq(S)
    BY <2>1, <2>2
  <2> QED BY <2>1, <2>3, <1>2, Zenon
<1> QED BY <1>1, <1>2

\* An element of a sequence is in its set.
LEMMA ElementType ==
  ASSUME NEW S, NEW s \in Seq(S), NEW i \in 1 .. Len(s)
  PROVE  s[i] \in S
OBVIOUS

\* What is written first comes first.
LEMMA FlatFirst ==
  ASSUME NEW S, NEW seqs \in Seq(Seq(S)), Len(seqs) # 0
  PROVE  FlattenSeq(seqs) = Join(seqs[1], FlattenSeq(Tail(seqs)))
<1>1. Len(seqs) \in Nat /\ seqs # <<>> /\ seqs[1] \in Seq(S)
  OBVIOUS
<1>2. PICK f :
           /\ \A i \in 1 .. Len(seqs) : f[i] \in Seq(S)
           /\ FlattenSeq(seqs) = f[Len(seqs)]
           /\ f[1] = seqs[1]
           /\ \A i \in 1 .. Len(seqs) - 1 : f[i + 1] = Join(f[i], seqs[i + 1])
  BY FlatSteps
<1> DEFINE rest == Tail(seqs)
<1>3. /\ rest \in Seq(Seq(S)) /\ Len(rest) = Len(seqs) - 1
      /\ \A i \in 1 .. Len(rest) : rest[i] = seqs[i + 1]
  BY <1>1
<1> HIDE DEF rest
<1>4. CASE Len(seqs) = 1
  <2>1. FlattenSeq(seqs) = seqs[1]
    BY <1>2, <1>4
  <2>2. FlattenSeq(rest) = <<>>
    <3>1. Len(rest) = 0
      BY <1>3, <1>4
    <3> QED BY <3>1, <1>3, FlatType
  <2>3. Join(seqs[1], <<>>) = seqs[1]
    BY <1>1, JoinEmpty
  <2> QED BY <2>1, <2>2, <2>3 DEF rest
<1>5. CASE Len(seqs) # 1
  <2>1. Len(rest) \in Nat /\ Len(rest) # 0 /\ 1 \in 1 .. Len(rest) /\ 1 \in 1 .. Len(seqs) - 1
    BY <1>1, <1>3, <1>5
  <2>2. PICK g :
           /\ \A i \in 1 .. Len(rest) : g[i] \in Seq(S)
           /\ FlattenSeq(rest) = g[Len(rest)]
           /\ g[1] = rest[1]
           /\ \A i \in 1 .. Len(rest) - 1 : g[i + 1] = Join(g[i], rest[i + 1])
    BY <1>3, <2>1, FlatSteps
  <2> DEFINE T == {m \in Nat : m + 1 <= Len(rest) => f[(m + 1) + 1] = Join(seqs[1], g[m + 1])}
  <2>3. 0 \in T
    <3>1. f[1 + 1] = Join(f[1], seqs[1 + 1]) /\ rest[1] = seqs[1 + 1]
      BY <1>2, <1>3, <2>1
    <3>2. f[1 + 1] = Join(seqs[1], g[1])
      BY <3>1, <1>2, <2>2
    <3>3. (0 + 1) + 1 = 1 + 1 /\ 0 + 1 = 1 /\ 0 \in Nat
      OBVIOUS
    <3>4. f[(0 + 1) + 1] = Join(seqs[1], g[0 + 1])
      BY ONLY <3>2, <3>3, Zenon
    <3> QED BY <3>3, <3>4
  <2>4. ASSUME NEW m \in Nat, m \in T PROVE m + 1 \in T
    <3> DEFINE k == m + 1
    <3>1. k \in Nat /\ k # 0
      OBVIOUS
    <3>2. k <= Len(rest) => f[k + 1] = Join(seqs[1], g[k])
      BY <2>4
    <3>3. (k + 1 <= Len(rest) => f[(k + 1) + 1] = Join(seqs[1], g[k + 1])) => k \in T
      BY <3>1
    <3> HIDE DEF k, T
    <3> SUFFICES ASSUME k + 1 <= Len(rest) PROVE f[(k + 1) + 1] = Join(seqs[1], g[k + 1])
      BY <3>3 DEF k
    <3>4. /\ k \in 1 .. Len(rest) - 1 /\ k \in 1 .. Len(rest)
          /\ k + 1 \in 1 .. Len(rest) /\ k + 1 \in 1 .. Len(seqs) - 1
      BY <3>1, <2>1, <1>1, <1>3
    <3>5. f[(k + 1) + 1] = Join(f[k + 1], seqs[(k + 1) + 1])
      BY <3>4, <1>2
    <3>6. g[k + 1] = Join(g[k], rest[k + 1]) /\ rest[k + 1] = seqs[(k + 1) + 1]
      BY <3>4, <2>2, <1>3
    <3>7. f[k + 1] = Join(seqs[1], g[k])
      BY <3>2, <3>4, <2>1
    <3>8. g[k] \in Seq(S) /\ rest[k + 1] \in Seq(S)
      BY <3>4, <1>3, <2>2, ElementType
    <3>9. Join(f[k + 1], rest[k + 1]) = Join(seqs[1], Join(g[k], rest[k + 1]))
      BY <3>7, <3>8, <1>1, Regroup
    <3> QED BY <3>5, <3>6, <3>7, <3>9
  <2>5. Len(rest) - 1 \in T
    <3> HIDE DEF T
    <3>1. Len(rest) - 1 \in Nat
      BY <2>1
    <3> QED BY <3>1, <2>3, <2>4, UpTo
  <2>6. (Len(rest) - 1) + 1 = Len(rest) /\ ((Len(rest) - 1) + 1) + 1 = Len(seqs)
    BY <2>1, <1>3, <1>1
  <2>7. f[Len(seqs)] = Join(seqs[1], g[Len(rest)])
    <3>1. f[((Len(rest) - 1) + 1) + 1] = Join(seqs[1], g[(Len(rest) - 1) + 1])
      BY <2>5, <2>6, <2>1
    <3> QED BY <3>1, <2>6
  <2> QED BY <2>7, <2>2, <1>2 DEF rest
<1> QED BY <1>4, <1>5

\* Rows of one length stand one after the other.
LEMMA RowsInPlace ==
  ASSUME NEW S, NEW rows \in Seq(Seq(S)), Len(rows) # 0, NEW c \in {2, 3},
         \A j \in 1 .. Len(rows) : Len(rows[j]) = c
  PROVE  /\ Len(FlattenSeq(rows)) = c * Len(rows)
         /\ \A j \in 1 .. Len(rows) : \A k \in 1 .. c :
              FlattenSeq(rows)[c * (j - 1) + k] = rows[j][k]
<1>1. Len(rows) \in Nat /\ c \in Nat /\ 1 \in 1 .. Len(rows)
      /\ \A j \in 1 .. Len(rows) : rows[j] \in Seq(S)
  OBVIOUS
<1>2. PICK f :
           /\ \A i \in 1 .. Len(rows) : f[i] \in Seq(S)
           /\ FlattenSeq(rows) = f[Len(rows)]
           /\ f[1] = rows[1]
           /\ \A i \in 1 .. Len(rows) - 1 : f[i + 1] = Join(f[i], rows[i + 1])
  BY FlatSteps
<1> DEFINE InPlace(n) ==
      /\ Len(f[n]) = c * n
      /\ \A j \in 1 .. n : \A k \in 1 .. c : f[n][c * (j - 1) + k] = rows[j][k]
    T == {m \in Nat : m + 1 <= Len(rows) => InPlace(m + 1)}
<1>3. 0 \in T
  <2>1. InPlace(1)
    <3>1. Len(f[1]) = c * 1
      BY <1>1, <1>2
    <3>2. ASSUME NEW j \in 1 .. 1, NEW k \in 1 .. c PROVE f[1][c * (j - 1) + k] = rows[j][k]
      <4>1. j = 1 /\ c * (j - 1) + k = k
        BY <1>1
      <4> QED BY <4>1, <1>2
    <3> QED BY <3>1, <3>2
  <2>2. 0 + 1 = 1 /\ 0 \in Nat
    OBVIOUS
  <2> HIDE DEF InPlace
  <2> QED BY <2>1, <2>2
<1>4. ASSUME NEW m \in Nat, m \in T PROVE m + 1 \in T
  <2> DEFINE n == m + 1
  <2>1. n \in Nat /\ n >= 1
    OBVIOUS
  <2>2. (n <= Len(rows) => InPlace(n)) /\ ((n + 1 <= Len(rows) => InPlace(n + 1)) => n \in T)
    <3> HIDE DEF InPlace
    <3> QED BY <2>1, <1>4
  <2> HIDE DEF n, T
  <2> SUFFICES ASSUME n + 1 <= Len(rows) PROVE InPlace(n + 1)
    BY <2>2 DEF n
  <2>3. /\ n \in 1 .. Len(rows) - 1 /\ n \in 1 .. Len(rows)
        /\ n + 1 \in 1 .. Len(rows) /\ n <= Len(rows)
    BY <2>1, <1>1
  <2>4. Len(f[n]) = c * n /\ \A j \in 1 .. n : \A k \in 1 .. c : f[n][c * (j - 1) + k] = rows[j][k]
    BY <2>2, <2>3
  <2>5. f[n + 1] = Join(f[n], rows[n + 1]) /\ f[n] \in Seq(S) /\ rows[n + 1] \in Seq(S)
        /\ Len(rows[n + 1]) = c
    BY <2>3, <1>1, <1>2
  <2>6. /\ Len(f[n + 1]) = Len(f[n]) + c
        /\ \A i \in 1 .. Len(f[n]) : f[n + 1][i] = f[n][i]
        /\ \A i \in 1 .. c : f[n + 1][Len(f[n]) + i] = rows[n + 1][i]
    <3> DEFINE a == f[n]
      b == rows[n + 1]
    <3>1. a \in Seq(S) /\ b \in Seq(S)
      BY <2>5
    <3> HIDE DEF a, b
    <3>2. /\ Len(Join(a, b)) = Len(a) + Len(b)
          /\ \A i \in 1 .. Len(a) : Join(a, b)[i] = a[i]
          /\ \A i \in 1 .. Len(b) : Join(a, b)[Len(a) + i] = b[i]
      BY <3>1 DEF Join
    <3> QED BY <3>2, <2>5 DEF a, b
  <2>7. c * n \in Nat /\ c * (n + 1) = c * n + c
    <3>1. CASE c = 2
      BY <3>1, <2>1
    <3>2. CASE c = 3
      BY <3>2, <2>1
    <3> QED BY <3>1, <3>2
  <2>8. Len(f[n + 1]) = c * (n + 1)
    BY <2>4, <2>6, <2>7
  <2>9. ASSUME NEW j \in 1 .. n + 1, NEW k \in 1 .. c
        PROVE f[n + 1][c * (j - 1) + k] = rows[j][k]
    <3>1. CASE j \in 1 .. n
      <4>1. c * (j - 1) + k \in 1 .. c * n
        <5>1. CASE c = 2
          BY <3>1, <5>1, <2>1
        <5>2. CASE c = 3
          BY <3>1, <5>2, <2>1
        <5> QED BY <5>1, <5>2
      <4>2. f[n + 1][c * (j - 1) + k] = f[n][c * (j - 1) + k]
        <5> DEFINE p == c * (j - 1) + k
        <5>1. p \in 1 .. Len(f[n])
          BY <4>1, <2>4
        <5> HIDE DEF p
        <5>2. f[n + 1][p] = f[n][p]
          BY <5>1, <2>6
        <5> QED BY <5>2 DEF p
      <4>3. f[n][c * (j - 1) + k] = rows[j][k]
        BY <3>1, <2>4
      <4> QED BY <4>2, <4>3
    <3>2. CASE j = n + 1
      <4>1. c * (j - 1) + k = Len(f[n]) + k
        BY <3>2, <2>4, <2>1
      <4> QED BY <4>1, <3>2, <2>6
    <3> QED BY <3>1, <3>2, <2>1
  <2> QED BY <2>8, <2>9
<1>5. Len(rows) - 1 \in T
  <2>1. Len(rows) - 1 \in Nat
    BY <1>1
  <2> HIDE DEF T
  <2> QED BY <2>1, <1>3, <1>4, UpTo
<1>6. InPlace(Len(rows))
  <2>1. (Len(rows) - 1) + 1 = Len(rows)
    BY <1>1
  <2> HIDE DEF InPlace
  <2> QED BY <1>5, <2>1, <1>1
<1> QED BY <1>2, <1>6

-----------------------------------------------------------------------------
(* What is written of an event                                             *)

\* Whether an event has a name, and how many lines come before its data
Named(event) == event.name # ""
Preamble(event) == (IF event.comment THEN 1 ELSE 0) + (IF event.name = "" THEN 0 ELSE 1)

\* Where the lines of an event stand: a comment and a name perhaps, then the data
LEMMA LinesInPlace ==
  ASSUME NEW S, NEW event, event.data \in Seq(S), CommentLine \in S, NameLine(event.name) \in S
  PROVE  /\ Lines(event) \in Seq(S) /\ Preamble(event) \in {0, 1, 2}
         /\ Named(event) => Preamble(event) # 0
         /\ Len(Lines(event)) = Preamble(event) + Len(event.data)
         /\ \A j \in 1 .. Len(event.data) : Lines(event)[Preamble(event) + j] = event.data[j]
         /\ \A j \in 1 .. Preamble(event) :
              Lines(event)[j] = IF j = Preamble(event) /\ Named(event)
                                  THEN NameLine(event.name) ELSE CommentLine
<1> DEFINE c == CommentLine
      e == NameLine(event.name)
      data == event.data
      A == IF event.comment THEN <<c>> ELSE <<>>
      B == IF event.name = "" THEN <<>> ELSE <<e>>
      a == IF event.comment THEN 1 ELSE 0
      b == IF event.name = "" THEN 0 ELSE 1
<1>1. Lines(event) = Join(Join(A, B), data) /\ Preamble(event) = a + b
  BY DEF Lines, Preamble, Join
<1>2. a \in {0, 1} /\ b \in {0, 1} /\ data \in Seq(S) /\ c \in S /\ e \in S
  OBVIOUS
<1>3. A \in Seq(S) /\ Len(A) = a /\ (a = 1 => A[1] = c)
  OBVIOUS
<1>4. B \in Seq(S) /\ Len(B) = b /\ (b = 1 => B[1] = e)
  <2>1. CASE event.name = ""
    <3>1. B = <<>> /\ b = 0
      BY <2>1
    <3> HIDE DEF B, b
    <3> QED BY <3>1
  <2>2. CASE event.name # ""
    <3>1. B = <<e>> /\ b = 1
      BY <2>2
    <3> HIDE DEF B, b
    <3> QED BY <3>1, <1>2
  <2> QED BY <2>1, <2>2
<1>5. (event.name = "" => b = 0) /\ (event.name # "" => b = 1)
  BY Zenon
<1> HIDE DEF c, e, data, A, B, a, b
<1> DEFINE AB == Join(A, B)
<1>6. /\ AB \in Seq(S) /\ Len(AB) = a + b
      /\ a = 1 => AB[1] = c
      /\ b = 1 => AB[a + 1] = e
  <2>1. AB \in Seq(S) /\ Len(AB) = Len(A) + Len(B)
    BY <1>2, <1>3, <1>4 DEF Join
  <2>2. \A i \in 1 .. Len(A) : AB[i] = A[i]
    BY <1>2, <1>3, <1>4 DEF Join
  <2>3. \A i \in 1 .. Len(B) : AB[Len(A) + i] = B[i]
    BY <1>2, <1>3, <1>4 DEF Join
  <2> HIDE DEF AB
  <2>4. a = 1 => AB[1] = c
    BY <2>2, <1>3
  <2>5. b = 1 => AB[a + 1] = e
    BY <2>3, <1>2, <1>3, <1>4
  <2> QED BY <2>1, <2>4, <2>5, <1>3, <1>4
<1> HIDE DEF AB
<1> DEFINE L == Join(AB, data)
<1>7. /\ L \in Seq(S) /\ Len(L) = a + b + Len(data)
      /\ \A j \in 1 .. Len(data) : L[a + b + j] = data[j]
      /\ \A j \in 1 .. a + b : L[j] = AB[j]
  <2>1. AB \in Seq(S)
    BY <1>6
  <2>2. L \in Seq(S) /\ Len(L) = Len(AB) + Len(data)
    BY <2>1, <1>2 DEF Join
  <2>3. \A i \in 1 .. Len(AB) : L[i] = AB[i]
    BY <2>1, <1>2 DEF Join
  <2>4. \A i \in 1 .. Len(data) : L[Len(AB) + i] = data[i]
    BY <2>1, <1>2 DEF Join
  <2> HIDE DEF L
  <2> QED BY <2>2, <2>3, <2>4, <1>6, <1>2
<1> HIDE DEF L
<1>8. ASSUME NEW j \in 1 .. a + b
      PROVE L[j] = IF j = a + b /\ b = 1 THEN e ELSE c
  <2>1. L[j] = AB[j]
    BY <1>7
  <2>2. CASE b = 1 /\ j = a + b
    BY <2>1, <2>2, <1>6, <1>2
  <2>3. CASE b = 1 /\ j # a + b
    <3>1. j = 1 /\ a = 1
      BY <2>3, <1>2
    <3> QED BY <3>1, <2>1, <2>3, <1>6
  <2>4. CASE b = 0
    <3>1. j = 1 /\ a = 1
      BY <2>4, <1>2
    <3> QED BY <3>1, <2>1, <2>4, <1>6, <1>2
  <2> QED BY <2>2, <2>3, <2>4, <1>2
<1>9. a + b \in {0, 1, 2}
  BY <1>2
<1>10. b = 1 => a + b # 0
  BY <1>2
<1>11. Lines(event) = L /\ Preamble(event) = a + b
  BY <1>1 DEF L, AB
<1>12. Named(event) => b = 1
  BY <1>5, Zenon DEF Named
<1>13. ~Named(event) => b # 1
  <2>1. ~Named(event) => b = 0
    BY <1>5, Zenon DEF Named
  <2> QED BY <2>1
<1> QED BY <1>2, <1>7, <1>8, <1>9, <1>10, <1>11, <1>12, <1>13 DEF c, e, data

\* With line feeds, each line takes two tokens.
LEMMA EncodedWithLf ==
  ASSUME NEW S, NEW event, Lines(event) \in Seq(S), Len(Lines(event)) # 0, LineFeed \in S
  PROVE  LET R == Len(Lines(event))
             enc == Encoded(event, "lf")
         IN /\ enc \in Seq(S) /\ Len(enc) = 2 * R + 1 /\ enc[2 * R + 1] = LineFeed
            /\ \A j \in 1 .. R : enc[2 * (j - 1) + 1] = Lines(event)[j]
            /\ \A j \in 1 .. R : enc[2 * (j - 1) + 2] = LineFeed
<1> DEFINE L == Lines(event)
      R == Len(L)
      Row(x) == <<x>> \o <<LineFeed>>
      rows == [i \in DOMAIN L |-> Row(L[i])]
      flat == FlattenSeq(rows)
      last == <<LineFeed>>
<1>1. Encoded(event, "lf") = Join(flat, last)
  BY DEF Encoded, LineEnd, Join
<1>2. L \in Seq(S) /\ R \in Nat /\ R # 0 /\ LineFeed \in S
  OBVIOUS
<1> HIDE DEF L
<1>3. /\ rows \in Seq(Seq(S)) /\ Len(rows) = R
      /\ \A j \in 1 .. R : Len(rows[j]) = 2 /\ rows[j][1] = L[j] /\ rows[j][2] = LineFeed
  <2>1. DOMAIN L = 1 .. R /\ \A i \in 1 .. R : L[i] \in S
    BY <1>2
  <2>2. \A x \in S : Row(x) \in Seq(S) /\ Len(Row(x)) = 2 /\ Row(x)[1] = x /\ Row(x)[2] = LineFeed
    BY <1>2
  <2>3. rows = [i \in 1 .. R |-> Row(L[i])]
    BY <2>1
  <2> HIDE DEF Row, rows
  <2> QED BY <2>1, <2>2, <2>3, <1>2
<1> HIDE DEF rows
<1>4. flat \in Seq(S)
  BY <1>3, FlatType
<1>5. /\ Len(flat) = 2 * R
      /\ \A j \in 1 .. R : \A k \in 1 .. 2 : flat[2 * (j - 1) + k] = rows[j][k]
  <2>1. /\ rows \in Seq(Seq(S)) /\ Len(rows) # 0 /\ 2 \in {2, 3}
        /\ \A j \in 1 .. Len(rows) : Len(rows[j]) = 2
    BY <1>2, <1>3
  <2>2. Len(rows) = R
    BY <1>3
  <2> HIDE DEF R, L
  <2>3. /\ Len(flat) = 2 * Len(rows)
        /\ \A j \in 1 .. Len(rows) : \A k \in 1 .. 2 : flat[2 * (j - 1) + k] = rows[j][k]
    BY ONLY <2>1, RowsInPlace, Zenon
  <2> QED BY <2>2, <2>3
<1> HIDE DEF flat
<1>6. last \in Seq(S) /\ Len(last) = 1 /\ last[1] = LineFeed
  BY <1>2
<1> HIDE DEF last
<1> DEFINE enc == Join(flat, last)
<1>7. /\ enc \in Seq(S) /\ Len(enc) = Len(flat) + Len(last)
      /\ \A i \in 1 .. Len(flat) : enc[i] = flat[i]
      /\ \A i \in 1 .. Len(last) : enc[Len(flat) + i] = last[i]
  <2>1. flat \in Seq(S) /\ last \in Seq(S)
    BY <1>4, <1>6
  <2> QED BY <2>1 DEF Join
<1> HIDE DEF enc
<1>8. Len(enc) = 2 * R + 1 /\ enc[2 * R + 1] = LineFeed
  BY <1>4, <1>5, <1>6, <1>7, <1>2
<1>9. ASSUME NEW j \in 1 .. R, NEW k \in 1 .. 2
      PROVE enc[2 * (j - 1) + k] = rows[j][k]
  <2> DEFINE p == 2 * (j - 1) + k
  <2>1. p \in 1 .. Len(flat)
    BY <1>2, <1>5
  <2>2. flat[p] = rows[j][k]
    BY <1>5
  <2> HIDE DEF p
  <2>3. enc[p] = rows[j][k]
    BY <2>1, <2>2, <1>7
  <2> QED BY <2>3 DEF p
<1>10. ASSUME NEW j \in 1 .. R
       PROVE enc[2 * (j - 1) + 1] = L[j] /\ enc[2 * (j - 1) + 2] = LineFeed
  <2>1. 1 \in 1 .. 2 /\ 2 \in 1 .. 2
    OBVIOUS
  <2> QED BY <2>1, <1>3, <1>9
<1>11. Encoded(event, "lf") = enc
  BY <1>1 DEF enc
<1> QED BY <1>7, <1>8, <1>10, <1>11 DEF L

\* With carriage returns before them it takes three.
LEMMA EncodedWithCrlf ==
  ASSUME NEW S, NEW event, Lines(event) \in Seq(S), Len(Lines(event)) # 0,
         LineFeed \in S, CarriageReturn \in S, NEW style, style # "lf"
  PROVE  LET R == Len(Lines(event))
             enc == Encoded(event, style)
         IN /\ enc \in Seq(S) /\ Len(enc) = 3 * R + 2
            /\ enc[3 * R + 1] = CarriageReturn /\ enc[3 * R + 2] = LineFeed
            /\ \A j \in 1 .. R : enc[3 * (j - 1) + 1] = Lines(event)[j]
            /\ \A j \in 1 .. R : enc[3 * (j - 1) + 2] = CarriageReturn
            /\ \A j \in 1 .. R : enc[3 * (j - 1) + 3] = LineFeed
<1> DEFINE L == Lines(event)
      R == Len(L)
      Row(x) == <<x>> \o <<CarriageReturn, LineFeed>>
      rows == [i \in DOMAIN L |-> Row(L[i])]
      flat == FlattenSeq(rows)
      last == <<CarriageReturn, LineFeed>>
<1>1. Encoded(event, style) = Join(flat, last)
  BY DEF Encoded, LineEnd, Join
<1>2. L \in Seq(S) /\ R \in Nat /\ R # 0 /\ LineFeed \in S /\ CarriageReturn \in S
  OBVIOUS
<1> HIDE DEF L
<1>3. /\ rows \in Seq(Seq(S)) /\ Len(rows) = R
      /\ \A j \in 1 .. R : /\ Len(rows[j]) = 3 /\ rows[j][1] = L[j]
                           /\ rows[j][2] = CarriageReturn /\ rows[j][3] = LineFeed
  <2>1. DOMAIN L = 1 .. R /\ \A i \in 1 .. R : L[i] \in S
    BY <1>2
  <2>2. \A x \in S : /\ Row(x) \in Seq(S) /\ Len(Row(x)) = 3 /\ Row(x)[1] = x
                     /\ Row(x)[2] = CarriageReturn /\ Row(x)[3] = LineFeed
    BY <1>2
  <2>3. rows = [i \in 1 .. R |-> Row(L[i])]
    BY <2>1
  <2> HIDE DEF Row, rows
  <2> QED BY <2>1, <2>2, <2>3, <1>2
<1> HIDE DEF rows
<1>4. flat \in Seq(S)
  BY <1>3, FlatType
<1>5. /\ Len(flat) = 3 * R
      /\ \A j \in 1 .. R : \A k \in 1 .. 3 : flat[3 * (j - 1) + k] = rows[j][k]
  <2>1. /\ rows \in Seq(Seq(S)) /\ Len(rows) # 0 /\ 3 \in {2, 3}
        /\ \A j \in 1 .. Len(rows) : Len(rows[j]) = 3
    BY <1>2, <1>3
  <2>2. Len(rows) = R
    BY <1>3
  <2> HIDE DEF R, L
  <2>3. /\ Len(flat) = 3 * Len(rows)
        /\ \A j \in 1 .. Len(rows) : \A k \in 1 .. 3 : flat[3 * (j - 1) + k] = rows[j][k]
    BY ONLY <2>1, RowsInPlace, Zenon
  <2> QED BY <2>2, <2>3
<1> HIDE DEF flat
<1>6. last \in Seq(S) /\ Len(last) = 2 /\ last[1] = CarriageReturn /\ last[2] = LineFeed
  BY <1>2
<1> HIDE DEF last
<1> DEFINE enc == Join(flat, last)
<1>7. /\ enc \in Seq(S) /\ Len(enc) = Len(flat) + Len(last)
      /\ \A i \in 1 .. Len(flat) : enc[i] = flat[i]
      /\ \A i \in 1 .. Len(last) : enc[Len(flat) + i] = last[i]
  <2>1. flat \in Seq(S) /\ last \in Seq(S)
    BY <1>4, <1>6
  <2> QED BY <2>1 DEF Join
<1> HIDE DEF enc
<1>8. Len(enc) = 3 * R + 2 /\ enc[3 * R + 1] = CarriageReturn /\ enc[3 * R + 2] = LineFeed
  BY <1>4, <1>5, <1>6, <1>7, <1>2
<1>9. ASSUME NEW j \in 1 .. R, NEW k \in 1 .. 3
      PROVE enc[3 * (j - 1) + k] = rows[j][k]
  <2> DEFINE p == 3 * (j - 1) + k
  <2>1. p \in 1 .. Len(flat)
    BY <1>2, <1>5
  <2>2. flat[p] = rows[j][k]
    BY <1>5
  <2> HIDE DEF p
  <2>3. enc[p] = rows[j][k]
    BY <2>1, <2>2, <1>7
  <2> QED BY <2>3 DEF p
<1>10. ASSUME NEW j \in 1 .. R
       PROVE /\ enc[3 * (j - 1) + 1] = L[j] /\ enc[3 * (j - 1) + 2] = CarriageReturn
             /\ enc[3 * (j - 1) + 3] = LineFeed
  <2>1. 1 \in 1 .. 3 /\ 2 \in 1 .. 3 /\ 3 \in 1 .. 3
    OBVIOUS
  <2> QED BY <2>1, <1>3, <1>9
<1>11. Encoded(event, style) = enc
  BY <1>1 DEF enc
<1> QED BY <1>7, <1>8, <1>10, <1>11 DEF L

-----------------------------------------------------------------------------
(* What is read of it                                                      *)

\* What is heard before the first line
Silence == [name |-> "message", data |-> <<>>]

\* There is a list of what is heard after each line.
LEMMA HeardExists ==
  ASSUME NEW lines, NEW n \in Nat
  PROVE  \E h : h = [i \in 0 .. n |-> IF i = 0 THEN Silence ELSE Hearing(h[i - 1], lines[i])]
<1> DEFINE Of(f, m) ==
      f = [i \in 0 .. m |-> IF i = 0 THEN Silence ELSE Hearing(f[i - 1], lines[i])]
    T == {m \in Nat : \E f : Of(f, m)}
<1>1. 0 \in T
  <2> DEFINE f0 == [i \in 0 .. 0 |-> Silence]
  <2>1. Of(f0, 0)
    OBVIOUS
  <2> QED BY <2>1
<1>2. ASSUME NEW m \in Nat, m \in T PROVE m + 1 \in T
  <2>1. PICK f : Of(f, m)
    BY <1>2
  <2> DEFINE g == [i \in 0 .. m + 1 |-> IF i = 0 THEN Silence ELSE Hearing(f[i - 1], lines[i])]
  <2>2. \A i \in 0 .. m : f[i] = IF i = 0 THEN Silence ELSE Hearing(f[i - 1], lines[i])
    BY <2>1
  <2>3. \A i \in 0 .. m : g[i] = f[i]
    BY <2>2
  <2>4. \A i \in 0 .. m + 1 : i # 0 => g[i - 1] = f[i - 1]
    <3> SUFFICES ASSUME NEW i \in 0 .. m + 1, i # 0 PROVE g[i - 1] = f[i - 1]
      OBVIOUS
    <3>1. i - 1 \in 0 .. m
      OBVIOUS
    <3> HIDE DEF g
    <3> QED BY <3>1, <2>3
  <2>5. g = [i \in 0 .. m + 1 |-> IF i = 0 THEN Silence ELSE Hearing(g[i - 1], lines[i])]
    BY <2>4
  <2> HIDE DEF g
  <2>6. \E h : Of(h, m + 1)
    BY <2>5
  <2>7. m + 1 \in Nat
    OBVIOUS
  <2> QED BY <2>6, <2>7
<1>3. n \in T
  <2> HIDE DEF T
  <2> QED BY <1>1, <1>2, UpTo
<1> QED BY <1>3

\* Parsed takes the lines one by one, as the loop of iter_sse_events does.
LEMMA ParsedSteps ==
  ASSUME NEW lines, Len(lines) \in Nat
  PROVE  \E h :
           /\ Parsed(lines) = h[Len(lines)]
           /\ h[0] = Silence
           /\ \A i \in 1 .. Len(lines) : h[i] = Hearing(h[i - 1], lines[i])
<1> DEFINE Of(f) ==
      f = [i \in 0 .. Len(lines) |-> IF i = 0 THEN Silence ELSE Hearing(f[i - 1], lines[i])]
    h == CHOOSE f : Of(f)
<1>1. Of(h)
  <2>1. \E f : Of(f)
    BY HeardExists
  <2> QED BY <2>1
<1>2. Parsed(lines) = h[Len(lines)]
  BY DEF Parsed, Silence
<1> HIDE DEF h
<1>3. \A i \in 0 .. Len(lines) : h[i] = IF i = 0 THEN Silence ELSE Hearing(h[i - 1], lines[i])
  BY <1>1
<1>4. h[0] = Silence
  BY <1>3
<1>5. \A i \in 1 .. Len(lines) : h[i] = Hearing(h[i - 1], lines[i])
  BY <1>3
<1> QED BY <1>2, <1>4, <1>5

\* What the first j lines of an event say
Expect(event, j) ==
  LET d == Preamble(event)
  IN [name |-> IF Named(event) /\ j >= d THEN event.name ELSE "message",
      data |-> SubSeq(event.data, 1, j - d)]

\* The beginnings of a sequence grow by one element at a time.
LEMMA Pieces ==
  ASSUME NEW S, NEW s \in Seq(S)
  PROVE  /\ \A m \in Int : m <= 0 => SubSeq(s, 1, m) = <<>>
         /\ \A m \in 1 .. Len(s) : Append(SubSeq(s, 1, m - 1), s[m]) = SubSeq(s, 1, m)
         /\ SubSeq(s, 1, Len(s)) = s
<1>1. ASSUME NEW m \in Int, m <= 0 PROVE SubSeq(s, 1, m) = <<>>
  BY <1>1
<1>2. ASSUME NEW m \in 1 .. Len(s)
      PROVE Append(SubSeq(s, 1, m - 1), s[m]) = SubSeq(s, 1, m)
  OBVIOUS
<1>3. SubSeq(s, 1, Len(s)) = s
  OBVIOUS
<1> QED BY <1>1, <1>2, <1>3

\* What each kind of line adds
LEMMA HearingLine ==
  ASSUME NEW event, NEW line
  PROVE  /\ line.field \notin {"event", "data"} => Hearing(event, line) = event
         /\ line.field = "event" =>
              Hearing(event, line) = [name |-> line.value, data |-> event.data]
         /\ line.field = "data" =>
              Hearing(event, line) = [name |-> event.name, data |-> Append(event.data, line)]
<1>1. CASE line.field = "event"
  BY <1>1 DEF Hearing
<1>2. CASE line.field = "data"
  BY <1>2 DEF Hearing
<1>3. CASE line.field \notin {"event", "data"}
  BY <1>3 DEF Hearing
<1> QED BY <1>1, <1>2, <1>3

\* What a comment, a name and the line ends are
LEMMA Fields ==
  /\ CommentLine.field \notin {"event", "data"}
  /\ LineFeed.field = "lf" /\ CarriageReturn.field = "cr"
  /\ \A n : NameLine(n).field = "event" /\ NameLine(n).value = n
BY DEF CommentLine, NameLine, LineFeed, CarriageReturn, Line

\* One line more
LEMMA NextLine ==
  ASSUME NEW S, NEW event, event.data \in Seq(S), CommentLine \in S, NameLine(event.name) \in S,
         \A i \in 1 .. Len(event.data) : event.data[i].field = "data",
         NEW j \in 1 .. Len(Lines(event))
  PROVE  Hearing(Expect(event, j - 1), Lines(event)[j]) = Expect(event, j)
<1> DEFINE d == Preamble(event)
    n == Len(event.data)
    data == event.data
<1>1. /\ d \in {0, 1, 2} /\ n \in Nat /\ Len(Lines(event)) = d + n
      /\ Named(event) => d # 0
      /\ \A i \in 1 .. n : Lines(event)[d + i] = event.data[i]
      /\ \A i \in 1 .. d : Lines(event)[i] = IF i = d /\ Named(event)
                              THEN NameLine(event.name) ELSE CommentLine
  BY LinesInPlace
<1>2. /\ Expect(event, j) = [name |-> IF Named(event) /\ j >= d THEN event.name ELSE "message",
                             data |-> SubSeq(data, 1, j - d)]
      /\ Expect(event, j - 1) =
           [name |-> IF Named(event) /\ j - 1 >= d THEN event.name ELSE "message",
            data |-> SubSeq(data, 1, (j - 1) - d)]
  BY DEF Expect
<1> HIDE DEF d
<1>3. CASE j > d
  <2> DEFINE m == j - d
  <2>1. m \in 1 .. n /\ d + m = j /\ (j - 1) - d = m - 1 /\ j - 1 >= d /\ j >= d
    BY <1>1, <1>3
  <2>2. Lines(event)[j] = data[m] /\ data[m].field = "data"
    <3>1. Lines(event)[d + m] = data[m]
      BY <1>1, <2>1
    <3> QED BY <3>1, <2>1
  <2> HIDE DEF m
  <2>3. Append(SubSeq(data, 1, m - 1), data[m]) = SubSeq(data, 1, m)
    BY <2>1, Pieces
  <2>4. Hearing(Expect(event, j - 1), data[m]) =
          [name |-> Expect(event, j - 1).name, data |-> Append(Expect(event, j - 1).data, data[m])]
    BY <2>2, HearingLine
  <2>5. Expect(event, j - 1).name = Expect(event, j).name
    BY <1>2, <2>1
  <2>6. /\ Expect(event, j - 1).data = SubSeq(data, 1, m - 1)
        /\ Expect(event, j).data = SubSeq(data, 1, m)
    BY <1>2, <2>1 DEF m
  <2>7. Expect(event, j) = [name |-> Expect(event, j).name, data |-> Expect(event, j).data]
    BY <1>2
  <2> QED BY <2>2, <2>3, <2>4, <2>5, <2>6, <2>7
<1>4. CASE j <= d
  <2>1. j \in 1 .. d /\ j - d <= 0 /\ (j - 1) - d <= 0 /\ j - d \in Int /\ (j - 1) - d \in Int
    BY <1>1, <1>4
  <2>2. SubSeq(data, 1, j - d) = <<>> /\ SubSeq(data, 1, (j - 1) - d) = <<>>
    BY <2>1, Pieces
  <2>3. ~(j - 1 >= d) /\ (j >= d <=> j = d)
    BY <2>1, <1>1
  <2>4. Expect(event, j - 1) = Silence
    BY <1>2, <2>2, <2>3 DEF Silence
  <2>5. CASE j = d /\ Named(event)
    <3>1. Lines(event)[j] = NameLine(event.name)
      BY <1>1, <2>1, <2>5
    <3>2. Hearing(Silence, NameLine(event.name)) = [name |-> event.name, data |-> Silence.data]
      BY HearingLine, Fields
    <3>3. Expect(event, j) = [name |-> event.name, data |-> <<>>]
      BY <1>2, <2>2, <2>3, <2>5
    <3> QED BY <2>4, <3>1, <3>2, <3>3 DEF Silence
  <2>6. CASE ~(j = d /\ Named(event))
    <3>1. Lines(event)[j] = CommentLine
      BY <1>1, <2>1, <2>6
    <3>2. Hearing(Silence, CommentLine) = Silence
      BY HearingLine, Fields
    <3>3. Expect(event, j) = Silence
      BY <1>2, <2>2, <2>3, <2>6 DEF Silence
    <3> QED BY <2>4, <3>1, <3>2, <3>3
  <2> QED BY <2>5, <2>6
<1> QED BY <1>1, <1>3, <1>4

\* Nothing is said before the first line, and after the last one all that was meant.
LEMMA ExpectEnds ==
  ASSUME NEW S, NEW event, event.data \in Seq(S), CommentLine \in S, NameLine(event.name) \in S
  PROVE  /\ Expect(event, 0) = Silence
         /\ Expect(event, Len(Lines(event))) = Meant(event)
<1> DEFINE d == Preamble(event)
    n == Len(event.data)
    data == event.data
<1>1. /\ d \in {0, 1, 2} /\ n \in Nat /\ Len(Lines(event)) = d + n
      /\ Named(event) => d # 0
  BY LinesInPlace
<1>2. \A j : Expect(event, j) = [name |-> IF Named(event) /\ j >= d THEN event.name ELSE "message",
                             data |-> SubSeq(data, 1, j - d)]
  BY DEF Expect
<1> HIDE DEF d
<1>3. Expect(event, 0) = Silence
  <2>1. ~(Named(event) /\ 0 >= d) /\ 0 - d \in Int /\ 0 - d <= 0
    BY <1>1
  <2>2. SubSeq(data, 1, 0 - d) = <<>>
    BY <2>1, Pieces
  <2> QED BY <1>2, <2>1, <2>2 DEF Silence
<1>4. Expect(event, Len(Lines(event))) = Meant(event)
  <2>1. d + n >= d /\ (d + n) - d = n
    BY <1>1
  <2>2. SubSeq(data, 1, n) = data
    BY Pieces
  <2>3. Expect(event, d + n) = [name |-> IF Named(event) THEN event.name ELSE "message",
                                data |-> data]
    BY <1>2, <2>1, <2>2
  <2>4. Meant(event) = [name |-> IF Named(event) THEN event.name ELSE "message", data |-> data]
    BY Zenon DEF Meant, Named
  <2> QED BY <2>3, <2>4, <1>1
<1> QED BY <1>3, <1>4

\* Lines of an event, with line ends between them
LEMMA ParsedByCount ==
  ASSUME NEW S, NEW event, event.data \in Seq(S), CommentLine \in S, NameLine(event.name) \in S,
         \A i \in 1 .. Len(event.data) : event.data[i].field = "data",
         NEW lines, Len(lines) \in Nat, NEW count,
         count[0] = 0, count[Len(lines)] = Len(Lines(event)),
         \A p \in 1 .. Len(lines) :
           \/ /\ count[p] \in 1 .. Len(Lines(event)) /\ count[p - 1] = count[p] - 1
              /\ lines[p] = Lines(event)[count[p]]
           \/ count[p] = count[p - 1] /\ lines[p].field \in {"lf", "cr"}
  PROVE  Parsed(lines) = Meant(event)
<1>1. PICK h :
           /\ Parsed(lines) = h[Len(lines)]
           /\ h[0] = Silence
           /\ \A i \in 1 .. Len(lines) : h[i] = Hearing(h[i - 1], lines[i])
  BY ParsedSteps
<1> DEFINE T == {p \in Nat : p <= Len(lines) => h[p] = Expect(event, count[p])}
<1>2. 0 \in T
  BY <1>1, ExpectEnds
<1>3. ASSUME NEW m \in Nat, m \in T PROVE m + 1 \in T
  <2> DEFINE p == m + 1
  <2>1. p \in Nat /\ p - 1 = m
    OBVIOUS
  <2> HIDE DEF p
  <2> SUFFICES ASSUME p <= Len(lines) PROVE h[p] = Expect(event, count[p])
    BY <2>1 DEF p
  <2>2. p \in 1 .. Len(lines) /\ m <= Len(lines)
    BY <2>1 DEF p
  <2>3. h[p] = Hearing(Expect(event, count[p - 1]), lines[p])
    <3>1. h[p] = Hearing(h[p - 1], lines[p])
      BY <1>1, <2>2
    <3>2. h[p - 1] = Expect(event, count[p - 1])
      BY <1>3, <2>1, <2>2
    <3> QED BY <3>1, <3>2
  <2>4. CASE /\ count[p] \in 1 .. Len(Lines(event)) /\ count[p - 1] = count[p] - 1
             /\ lines[p] = Lines(event)[count[p]]
    <3> DEFINE j == count[p]
    <3>1. j \in 1 .. Len(Lines(event))
      BY <2>4
    <3> HIDE DEF j
    <3>2. Hearing(Expect(event, j - 1), Lines(event)[j]) = Expect(event, j)
      BY <3>1, NextLine
    <3> QED BY <3>2, <2>3, <2>4 DEF j
  <2>5. CASE count[p] = count[p - 1] /\ lines[p].field \in {"lf", "cr"}
    <3>1. lines[p].field \notin {"event", "data"}
      BY <2>5
    <3>2. Hearing(Expect(event, count[p - 1]), lines[p]) = Expect(event, count[p - 1])
      BY <3>1, HearingLine
    <3> QED BY <3>2, <2>3, <2>5
  <2> QED BY <2>2, <2>4, <2>5
<1>4. Len(lines) \in T
  <2> HIDE DEF T
  <2> QED BY <1>2, <1>3, UpTo
<1> QED BY <1>1, <1>4, ExpectEnds

\* An event written in the tokens S
Sayable(event, S) ==
  /\ event.data \in Seq(S) /\ CommentLine \in S /\ NameLine(event.name) \in S /\ LineFeed \in S
  /\ \A i \in 1 .. Len(event.data) : event.data[i].field = "data"
  /\ Lines(event) # <<>>

\* The lines of an event that says something are no line ends.
LEMMA LinesSay ==
  ASSUME NEW S, NEW event, Sayable(event, S)
  PROVE  /\ Lines(event) \in Seq(S) /\ Len(Lines(event)) \in Nat /\ Len(Lines(event)) # 0
         /\ \A j \in 1 .. Len(Lines(event)) : Lines(event)[j].field \notin {"lf", "cr"}
<1>1. event.data \in Seq(S) /\ CommentLine \in S /\ NameLine(event.name) \in S
  BY DEF Sayable
<1> DEFINE d == Preamble(event)
    n == Len(event.data)
<1>2. /\ d \in {0, 1, 2} /\ n \in Nat /\ Len(Lines(event)) = d + n
      /\ Lines(event) \in Seq(S)
      /\ \A i \in 1 .. n : Lines(event)[d + i] = event.data[i]
      /\ \A i \in 1 .. d : Lines(event)[i] = IF i = d /\ Named(event)
                              THEN NameLine(event.name) ELSE CommentLine
  BY <1>1, LinesInPlace
<1> HIDE DEF d
<1>3. ASSUME NEW j \in 1 .. d + n PROVE Lines(event)[j].field \notin {"lf", "cr"}
  <2>1. CASE j <= d
    <3>1. j \in 1 .. d
      BY <1>2, <2>1
    <3>2. Lines(event)[j] \in {NameLine(event.name), CommentLine}
      BY <3>1, <1>2
    <3>3. NameLine(event.name).field = "event" /\ CommentLine.field = "comment"
      BY DEF NameLine, CommentLine, Line
    <3> QED BY <3>2, <3>3
  <2>2. CASE j > d
    <3> DEFINE m == j - d
    <3>1. m \in 1 .. n /\ d + m = j
      BY <1>2, <2>2
    <3> HIDE DEF m
    <3>2. Lines(event)[j] = event.data[m]
      BY <3>1, <1>2
    <3>3. event.data[m].field = "data"
      BY <3>1 DEF Sayable
    <3> QED BY <3>2, <3>3
  <2> QED BY <1>2, <2>1, <2>2
<1>4. Len(Lines(event)) # 0
  BY <1>2 DEF Sayable
<1> QED BY <1>2, <1>3, <1>4

\* What was written with line feeds is read as it was meant, without its blank line.
LEMMA ParsedWithLf ==
  ASSUME NEW S, NEW event, Sayable(event, S)
  PROVE  Parsed(SubSeq(Encoded(event, "lf"), 1, Len(Encoded(event, "lf")) - 2)) = Meant(event)
<1> DEFINE enc == Encoded(event, "lf")
    R == Len(Lines(event))
    lines == SubSeq(enc, 1, Len(enc) - 2)
    count == [p \in 0 .. 2 * R |-> (p + 1) \div 2]
<1>1. R \in Nat /\ R # 0 /\ Lines(event) \in Seq(S)
  BY LinesSay
<1>2. /\ enc \in Seq(S) /\ Len(enc) = 2 * R + 1
      /\ \A j \in 1 .. R : enc[2 * (j - 1) + 1] = Lines(event)[j]
      /\ \A j \in 1 .. R : enc[2 * (j - 1) + 2] = LineFeed
  BY <1>1, EncodedWithLf DEF Sayable
<1> HIDE DEF enc, R
<1>3. Len(lines) = 2 * R - 1 /\ \A p \in 1 .. 2 * R - 1 : lines[p] = enc[p]
  BY <1>1, <1>2
<1> HIDE DEF lines
<1>4. ASSUME NEW p \in 1 .. 2 * R - 1
      PROVE  \/ /\ count[p] \in 1 .. R /\ count[p - 1] = count[p] - 1
                /\ lines[p] = Lines(event)[count[p]]
             \/ count[p] = count[p - 1] /\ lines[p].field \in {"lf", "cr"}
  <2> DEFINE j == (p + 1) \div 2
  <2>1. /\ count[p] = j /\ count[p - 1] = p \div 2 /\ j \in 1 .. R
        /\ p = 2 * (j - 1) + 1 \/ p = 2 * (j - 1) + 2
    BY <1>1
  <2>2. CASE p = 2 * (j - 1) + 1
    <3>1. p \div 2 = j - 1
      BY <2>1, <2>2, <1>1
    <3>2. enc[p] = Lines(event)[j]
      <4> HIDE DEF j
      <4> QED BY <1>2, <2>1, <2>2
    <3> QED BY <3>1, <3>2, <2>1, <1>3
  <2>3. CASE p = 2 * (j - 1) + 2
    <3>1. p \div 2 = j
      BY <2>1, <2>3, <1>1
    <3>2. enc[p] = LineFeed
      <4> HIDE DEF j
      <4> QED BY <1>2, <2>1, <2>3
    <3> QED BY <3>1, <3>2, <2>1, <1>3, Fields
  <2> QED BY <2>1, <2>2, <2>3
<1>5. count[0] = 0 /\ count[2 * R - 1] = R
  BY <1>1
<1> HIDE DEF count
<1>6. Parsed(lines) = Meant(event)
  <2>1. /\ Len(lines) \in Nat /\ count[0] = 0 /\ count[Len(lines)] = Len(Lines(event))
        /\ \A p \in 1 .. Len(lines) :
             \/ /\ count[p] \in 1 .. Len(Lines(event)) /\ count[p - 1] = count[p] - 1
                /\ lines[p] = Lines(event)[count[p]]
             \/ count[p] = count[p - 1] /\ lines[p].field \in {"lf", "cr"}
    BY <1>1, <1>3, <1>4, <1>5 DEF R
  <2>2. /\ event.data \in Seq(S) /\ CommentLine \in S /\ NameLine(event.name) \in S
        /\ \A i \in 1 .. Len(event.data) : event.data[i].field = "data"
    BY DEF Sayable
  <2> QED BY <2>1, <2>2, ParsedByCount
<1> QED BY <1>6 DEF lines, enc

\* So is what was written with carriage returns.
LEMMA ParsedWithCrlf ==
  ASSUME NEW S, NEW event, Sayable(event, S), CarriageReturn \in S, NEW style, style # "lf"
  PROVE  Parsed(SubSeq(Encoded(event, style), 1, Len(Encoded(event, style)) - 4)) = Meant(event)
<1> DEFINE enc == Encoded(event, style)
    R == Len(Lines(event))
    lines == SubSeq(enc, 1, Len(enc) - 4)
    count == [p \in 0 .. 3 * R |-> (p + 2) \div 3]
<1>1. R \in Nat /\ R # 0 /\ Lines(event) \in Seq(S)
  BY LinesSay
<1>2. /\ enc \in Seq(S) /\ Len(enc) = 3 * R + 2
      /\ \A j \in 1 .. R : enc[3 * (j - 1) + 1] = Lines(event)[j]
      /\ \A j \in 1 .. R : enc[3 * (j - 1) + 2] = CarriageReturn
      /\ \A j \in 1 .. R : enc[3 * (j - 1) + 3] = LineFeed
  BY <1>1, EncodedWithCrlf DEF Sayable
<1> HIDE DEF enc, R
<1>3. Len(lines) = 3 * R - 2 /\ \A p \in 1 .. 3 * R - 2 : lines[p] = enc[p]
  BY <1>1, <1>2
<1> HIDE DEF lines
<1>4. ASSUME NEW p \in 1 .. 3 * R - 2
      PROVE  \/ /\ count[p] \in 1 .. R /\ count[p - 1] = count[p] - 1
                /\ lines[p] = Lines(event)[count[p]]
             \/ count[p] = count[p - 1] /\ lines[p].field \in {"lf", "cr"}
  <2> DEFINE j == (p + 2) \div 3
  <2>1. /\ count[p] = j /\ count[p - 1] = (p + 1) \div 3 /\ j \in 1 .. R
        /\ p = 3 * (j - 1) + 1 \/ p = 3 * (j - 1) + 2 \/ p = 3 * (j - 1) + 3
    BY <1>1
  <2>2. CASE p = 3 * (j - 1) + 1
    <3>1. (p + 1) \div 3 = j - 1
      BY <2>1, <2>2, <1>1
    <3>2. enc[p] = Lines(event)[j]
      <4> HIDE DEF j
      <4> QED BY <1>2, <2>1, <2>2
    <3> QED BY <3>1, <3>2, <2>1, <1>3
  <2>3. CASE p = 3 * (j - 1) + 2 \/ p = 3 * (j - 1) + 3
    <3>1. (p + 1) \div 3 = j
      BY <2>1, <2>3, <1>1
    <3>2. enc[p] \in {CarriageReturn, LineFeed}
      <4> HIDE DEF j
      <4> QED BY <1>2, <2>1, <2>3
    <3> QED BY <3>1, <3>2, <2>1, <1>3, Fields
  <2> QED BY <2>1, <2>2, <2>3
<1>5. count[0] = 0 /\ count[3 * R - 2] = R
  BY <1>1
<1> HIDE DEF count
<1>6. Parsed(lines) = Meant(event)
  <2>1. /\ Len(lines) \in Nat /\ count[0] = 0 /\ count[Len(lines)] = Len(Lines(event))
        /\ \A p \in 1 .. Len(lines) :
             \/ /\ count[p] \in 1 .. Len(Lines(event)) /\ count[p - 1] = count[p] - 1
                /\ lines[p] = Lines(event)[count[p]]
             \/ count[p] = count[p - 1] /\ lines[p].field \in {"lf", "cr"}
    BY <1>1, <1>3, <1>4, <1>5 DEF R
  <2>2. /\ event.data \in Seq(S) /\ CommentLine \in S /\ NameLine(event.name) \in S
        /\ \A i \in 1 .. Len(event.data) : event.data[i].field = "data"
    BY DEF Sayable
  <2> QED BY <2>1, <2>2, ParsedByCount
<1> QED BY <1>6 DEF lines, enc

-----------------------------------------------------------------------------
(* Where the reader splits                                                 *)

\* A blank line made of line feeds, byte by byte
LEMMA LfBlankAt ==
  ASSUME NEW bytes, NEW i
  PROVE  BlankAt(bytes, LfBlank, i) <=>
           i + 2 <= Len(bytes) /\ bytes[i + 1].field = "lf" /\ bytes[i + 2].field = "lf"
<1>1. Len(LfBlank) = 2 /\ DOMAIN LfBlank = {1, 2} /\ LfBlank[1] = "lf" /\ LfBlank[2] = "lf"
  BY DEF LfBlank
<1> QED BY <1>1 DEF BlankAt

\* One with carriage returns
LEMMA CrlfBlankAt ==
  ASSUME NEW bytes, NEW i
  PROVE  BlankAt(bytes, CrlfBlank, i) <=>
           /\ i + 4 <= Len(bytes)
           /\ bytes[i + 1].field = "cr" /\ bytes[i + 2].field = "lf"
           /\ bytes[i + 3].field = "cr" /\ bytes[i + 4].field = "lf"
<1>1. /\ Len(CrlfBlank) = 4 /\ DOMAIN CrlfBlank = {1, 2, 3, 4}
      /\ CrlfBlank[1] = "cr" /\ CrlfBlank[2] = "lf" /\ CrlfBlank[3] = "cr" /\ CrlfBlank[4] = "lf"
  BY DEF CrlfBlank
<1> QED BY <1>1 DEF BlankAt

\* The two orders in which a turn of the loop looks
LEMMA SplitsAre ==
  ASSUME NEW bytes, NEW split \in Splits(bytes)
  PROVE  \/ \E i \in FirstBlank(bytes, CrlfBlank) :
              split = [lines |-> SubSeq(bytes, 1, i),
                       rest |-> SubSeq(bytes, (i + 4) + 1, Len(bytes))]
         \/ /\ FirstBlank(bytes, CrlfBlank) = {}
            /\ \E i \in FirstBlank(bytes, LfBlank) :
                 split = [lines |-> SubSeq(bytes, 1, i),
                          rest |-> SubSeq(bytes, (i + 2) + 1, Len(bytes))]
<1>1. Len(CrlfBlank) = 4 /\ Len(LfBlank) = 2
  BY DEF CrlfBlank, LfBlank
<1>2. SplitBy(bytes, CrlfBlank) =
        {[lines |-> SubSeq(bytes, 1, i), rest |-> SubSeq(bytes, (i + 4) + 1, Len(bytes))]
           : i \in FirstBlank(bytes, CrlfBlank)}
  BY <1>1 DEF SplitBy, Remainder
<1>3. SplitBy(bytes, LfBlank) =
        {[lines |-> SubSeq(bytes, 1, i), rest |-> SubSeq(bytes, (i + 2) + 1, Len(bytes))]
           : i \in FirstBlank(bytes, LfBlank)}
  BY <1>1 DEF SplitBy, Remainder
<1>4. CASE SplitBy(bytes, CrlfBlank) # {}
  <2>1. split \in SplitBy(bytes, CrlfBlank)
    BY <1>4 DEF Splits
  <2> QED BY <2>1, <1>2
<1>5. CASE SplitBy(bytes, CrlfBlank) = {}
  <2>1. split \in SplitBy(bytes, LfBlank)
    BY <1>5 DEF Splits
  <2>2. FirstBlank(bytes, CrlfBlank) = {}
    BY <1>5, <1>2
  <2> QED BY <2>1, <2>2, <1>3
<1> QED BY <1>4, <1>5

\* There is a first blank line as soon as there is one.
LEMMA FirstBlankExists ==
  ASSUME NEW bytes, Len(bytes) \in Nat, NEW blank, Len(blank) \in Nat,
         NEW i \in Nat, BlankAt(bytes, blank, i)
  PROVE  FirstBlank(bytes, blank) # {}
<1> DEFINE U == {m \in Nat : BlankAt(bytes, blank, m)}
<1>1. PICK x \in U : \A y \in U : ~ (<<y, x>> \in OpToRel(<, Nat))
  <2>1. U \subseteq Nat /\ i \in U
    OBVIOUS
  <2> HIDE DEF U
  <2> QED BY <2>1, NatLessThanWellFounded, WFMin
<1>2. \A y \in U : ~ (y < x)
  <2>1. U \subseteq Nat
    OBVIOUS
  <2> HIDE DEF U
  <2> QED BY <1>1, <2>1 DEF OpToRel
<1>3. x \in Nat /\ x + Len(blank) <= Len(bytes)
  BY DEF BlankAt
<1>4. x \in 0 .. Len(bytes)
  BY <1>3
<1>5. ASSUME NEW j \in 0 .. x - 1 PROVE ~BlankAt(bytes, blank, j)
  <2>1. j \in Nat /\ j < x
    BY <1>3
  <2> QED BY <2>1, <1>2
<1> QED BY <1>4, <1>5 DEF FirstBlank

\* As far as both go, they are the same.
Agree(bytes, enc) == \A p \in 1 .. Len(enc) : p <= Len(bytes) => bytes[p] = enc[p]

\* What is split off is the event that was written, and nothing more.
LEMMA SplitWithLf ==
  ASSUME NEW S, NEW event, Sayable(event, S), \A x \in S : x.field # "cr",
         NEW bytes \in Seq(S), Agree(bytes, Encoded(event, "lf")), NEW split \in Splits(bytes)
  PROVE  /\ Parsed(split.lines) = Meant(event)
         /\ Len(Encoded(event, "lf")) <= Len(bytes)
         /\ split.rest = SubSeq(bytes, Len(Encoded(event, "lf")) + 1, Len(bytes))
<1> DEFINE enc == Encoded(event, "lf")
    R == Len(Lines(event))
<1>1. R \in Nat /\ R # 0 /\ Lines(event) \in Seq(S)
      /\ \A j \in 1 .. R : Lines(event)[j].field \notin {"lf", "cr"}
  BY LinesSay
<1>2. /\ enc \in Seq(S) /\ Len(enc) = 2 * R + 1 /\ enc[2 * R + 1] = LineFeed
      /\ \A j \in 1 .. R : enc[2 * (j - 1) + 1] = Lines(event)[j]
      /\ \A j \in 1 .. R : enc[2 * (j - 1) + 2] = LineFeed
  BY <1>1, EncodedWithLf DEF Sayable
<1>3. Parsed(SubSeq(enc, 1, Len(enc) - 2)) = Meant(event)
  BY ParsedWithLf
<1>4. Agree(bytes, enc)
  OBVIOUS
<1> HIDE DEF enc, R
<1>5. Len(bytes) \in Nat /\ \A p \in 1 .. Len(bytes) : bytes[p].field # "cr"
  OBVIOUS
<1>6. FirstBlank(bytes, CrlfBlank) = {}
  <2> SUFFICES ASSUME NEW i \in 0 .. Len(bytes), BlankAt(bytes, CrlfBlank, i) PROVE FALSE
    BY DEF FirstBlank
  <2>1. i + 4 <= Len(bytes) /\ bytes[i + 1].field = "cr"
    BY CrlfBlankAt
  <2>2. i + 1 \in 1 .. Len(bytes)
    BY <2>1, <1>5
  <2> QED BY <2>1, <2>2, <1>5
<1>7. PICK i \in FirstBlank(bytes, LfBlank) :
        split = [lines |-> SubSeq(bytes, 1, i), rest |-> SubSeq(bytes, (i + 2) + 1, Len(bytes))]
  BY <1>6, SplitsAre
<1>8. /\ i \in Nat /\ i + 2 <= Len(bytes) /\ bytes[i + 1].field = "lf" /\ bytes[i + 2].field = "lf"
      /\ \A j \in 0 .. i - 1 : ~BlankAt(bytes, LfBlank, j)
  BY LfBlankAt, <1>5 DEF FirstBlank
<1>9. ~(i < 2 * R - 1)
  <2> SUFFICES ASSUME i < 2 * R - 1 PROVE FALSE
    OBVIOUS
  <2>1. PICK q \in {i + 1, i + 2}, j \in 1 .. R : q = 2 * (j - 1) + 1
    <3> DEFINE j == (i + 3) \div 2
    <3>1. j \in 1 .. R /\ (i + 1 = 2 * (j - 1) + 1 \/ i + 2 = 2 * (j - 1) + 1)
      BY <1>1, <1>8
    <3> QED BY <3>1
  <2>2. q \in 1 .. Len(enc) /\ q <= Len(bytes)
    BY <2>1, <1>1, <1>2, <1>5, <1>8
  <2>3. bytes[q] = Lines(event)[j]
    <3>1. bytes[q] = enc[q]
      BY <2>2, <1>4 DEF Agree
    <3> QED BY <3>1, <2>1, <1>2
  <2>4. bytes[q].field = "lf"
    BY <2>1, <1>8
  <2> QED BY <2>3, <2>4, <2>1, <1>1
<1>10. ~(i > 2 * R - 1)
  <2> SUFFICES ASSUME i > 2 * R - 1 PROVE FALSE
    OBVIOUS
  <2> DEFINE k == 2 * R - 1
  <2>1. k \in 0 .. i - 1 /\ k + 2 <= Len(bytes) /\ k + 2 = 2 * R + 1 /\ k + 1 = 2 * (R - 1) + 2
        /\ k + 1 \in 1 .. Len(enc) /\ k + 2 \in 1 .. Len(enc) /\ k + 1 <= Len(bytes)
    BY <1>1, <1>2, <1>5, <1>8
  <2>2. enc[k + 1] = LineFeed /\ enc[k + 2] = LineFeed
    <3>1. R \in 1 .. R
      BY <1>1
    <3> HIDE DEF k
    <3> QED BY <3>1, <2>1, <1>2
  <2> HIDE DEF k
  <2>3. bytes[k + 1] = LineFeed /\ bytes[k + 2] = LineFeed
    BY <2>1, <2>2, <1>4 DEF Agree
  <2>4. BlankAt(bytes, LfBlank, k)
    BY <2>1, <2>3, LfBlankAt, Fields
  <2> QED BY <2>1, <2>4, <1>8
<1>11. i = Len(enc) - 2 /\ i + 2 = Len(enc) /\ Len(enc) <= Len(bytes)
  BY <1>1, <1>2, <1>8, <1>9, <1>10
<1>12. SubSeq(bytes, 1, i) = SubSeq(enc, 1, i)
  <2>1. \A p \in 1 .. i : bytes[p] = enc[p]
    BY <1>4, <1>5, <1>8, <1>11, <1>1, <1>2 DEF Agree
  <2> QED BY <2>1, <1>2, <1>5, <1>8, <1>11
<1>13. Parsed(SubSeq(bytes, 1, i)) = Meant(event)
  BY <1>3, <1>11, <1>12
<1> QED BY <1>7, <1>11, <1>13 DEF enc

\* With carriage returns too, although the reader looks for line feeds when it finds no CRLF
\* blank line: a line feed of the event follows a carriage return, and so no two are adjacent.
LEMMA SplitWithCrlf ==
  ASSUME NEW S, NEW event, Sayable(event, S), CarriageReturn \in S, NEW style, style # "lf",
         NEW bytes \in Seq(S), Agree(bytes, Encoded(event, style)), NEW split \in Splits(bytes)
  PROVE  /\ Parsed(split.lines) = Meant(event)
         /\ Len(Encoded(event, style)) <= Len(bytes)
         /\ split.rest = SubSeq(bytes, Len(Encoded(event, style)) + 1, Len(bytes))
<1> DEFINE enc == Encoded(event, style)
    R == Len(Lines(event))
<1>1. R \in Nat /\ R # 0 /\ Lines(event) \in Seq(S)
      /\ \A j \in 1 .. R : Lines(event)[j].field \notin {"lf", "cr"}
  BY LinesSay
<1>2. /\ enc \in Seq(S) /\ Len(enc) = 3 * R + 2
      /\ enc[3 * R + 1] = CarriageReturn /\ enc[3 * R + 2] = LineFeed
      /\ \A j \in 1 .. R : enc[3 * (j - 1) + 1] = Lines(event)[j]
      /\ \A j \in 1 .. R : enc[3 * (j - 1) + 2] = CarriageReturn
      /\ \A j \in 1 .. R : enc[3 * (j - 1) + 3] = LineFeed
  BY <1>1, EncodedWithCrlf DEF Sayable
<1>3. Parsed(SubSeq(enc, 1, Len(enc) - 4)) = Meant(event)
  BY ParsedWithCrlf
<1>4. Agree(bytes, enc) /\ Len(bytes) \in Nat
  OBVIOUS
<1> HIDE DEF enc, R
\* Three tokens of the event that stand in a row have one that is a line.
<1>5. ASSUME NEW i \in Nat, i + 3 <= Len(bytes), i + 3 <= 3 * R
      PROVE  \E q \in {i + 1, i + 2, i + 3} : bytes[q].field \notin {"lf", "cr"}
  <2>1. PICK q \in {i + 1, i + 2, i + 3}, j \in 1 .. R : q = 3 * (j - 1) + 1
    <3> DEFINE j == (i + 5) \div 3
    <3>1. /\ j \in 1 .. R
          /\ i + 1 = 3 * (j - 1) + 1 \/ i + 2 = 3 * (j - 1) + 1 \/ i + 3 = 3 * (j - 1) + 1
      <4>1. R \in Nat /\ i \in Nat /\ i + 3 <= 3 * R
        BY <1>1, <1>5
      <4> QED BY ONLY <4>1, SMTT(60)
    <3> QED BY <3>1
  <2>2. q \in 1 .. Len(enc) /\ q <= Len(bytes)
    BY <2>1, <1>1, <1>2, <1>4, <1>5
  <2>3. bytes[q] = Lines(event)[j]
    <3>1. bytes[q] = enc[q]
      BY <2>2, <1>4 DEF Agree
    <3> QED BY <3>1, <2>1, <1>2
  <2> QED BY <2>3, <2>1, <1>1
<1>6. ASSUME NEW i \in Nat, BlankAt(bytes, CrlfBlank, i) PROVE ~(i < 3 * R - 2)
  <2> SUFFICES ASSUME i < 3 * R - 2 PROVE FALSE
    OBVIOUS
  <2>1. /\ i + 4 <= Len(bytes)
        /\ bytes[i + 1].field = "cr" /\ bytes[i + 2].field = "lf" /\ bytes[i + 3].field = "cr"
    BY <1>6, CrlfBlankAt
  <2>2. i + 3 <= Len(bytes) /\ i + 3 <= 3 * R
    BY <2>1, <1>1, <1>4
  <2> QED BY <2>1, <2>2, <1>5
<1>7. ASSUME Len(enc) <= Len(bytes) PROVE BlankAt(bytes, CrlfBlank, 3 * R - 2)
  <2> DEFINE k == 3 * R - 2
  <2>1. /\ k \in Nat /\ k + 4 <= Len(bytes)
        /\ k + 1 = 3 * (R - 1) + 2 /\ k + 2 = 3 * (R - 1) + 3
        /\ k + 3 = 3 * R + 1 /\ k + 4 = 3 * R + 2 /\ k + 4 = Len(enc)
    BY <1>1, <1>2, <1>4, <1>7
  <2>2. R \in 1 .. R
    BY <1>1
  <2> HIDE DEF k
  <2>3. /\ enc[k + 1] = CarriageReturn /\ enc[k + 2] = LineFeed
        /\ enc[k + 3] = CarriageReturn /\ enc[k + 4] = LineFeed
    BY <2>1, <2>2, <1>2
  <2>4. \A t \in 1 .. 4 : bytes[k + t] = enc[k + t]
    <3>1. \A t \in 1 .. 4 : k + t \in 1 .. Len(enc) /\ k + t <= Len(bytes)
      BY <2>1, <1>4
    <3> QED BY <3>1, <1>4 DEF Agree
  <2>5. /\ bytes[k + 1].field = "cr" /\ bytes[k + 2].field = "lf"
        /\ bytes[k + 3].field = "cr" /\ bytes[k + 4].field = "lf"
    BY <2>3, <2>4, Fields
  <2>6. BlankAt(bytes, CrlfBlank, k)
    BY <2>1, <2>5, CrlfBlankAt
  <2> QED BY <2>6 DEF k
<1>8. ASSUME FirstBlank(bytes, CrlfBlank) = {}, NEW i \in FirstBlank(bytes, LfBlank) PROVE FALSE
  <2>1. /\ i \in Nat /\ i + 2 <= Len(bytes)
        /\ bytes[i + 1].field = "lf" /\ bytes[i + 2].field = "lf"
    BY LfBlankAt, <1>4, <1>8 DEF FirstBlank
  <2>2. Len(bytes) < Len(enc)
    <3> SUFFICES ASSUME Len(enc) <= Len(bytes) PROVE FALSE
      BY <1>2, <1>4
    <3>1. 3 * R - 2 \in Nat
      BY <1>1
    <3>2. Len(CrlfBlank) \in Nat
      BY DEF CrlfBlank
    <3> QED BY <3>1, <3>2, <1>4, <1>7, <1>8, FirstBlankExists
  <2>3. i + 1 \in 1 .. Len(enc) /\ i + 1 <= Len(bytes) /\ i + 2 \in 1 .. Len(enc)
    BY <2>1, <2>2, <1>2, <1>4
  <2>4. enc[i + 1].field = "lf" /\ enc[i + 2].field = "lf"
    BY <2>1, <2>3, <1>4 DEF Agree
  \* A line feed of the event follows a carriage return.
  <2>5. PICK j \in Nat :
          i + 2 = 3 * (j - 1) + 1 \/ i + 2 = 3 * (j - 1) + 2 \/ i + 1 = 3 * (j - 1) + 2
    <3> DEFINE j == (i + 4) \div 3
    <3>1. /\ j \in Nat
          /\ i + 2 = 3 * (j - 1) + 1 \/ i + 2 = 3 * (j - 1) + 2 \/ i + 1 = 3 * (j - 1) + 2
      BY <2>1
    <3> QED BY <3>1
  <2>6. j \in 1 .. R \/ i + 2 = 3 * R + 1
    BY <2>1, <2>2, <2>5, <1>1, <1>2, <1>4
  <2>7. CASE i + 2 = 3 * R + 1
    BY <2>7, <2>4, <1>2, Fields
  <2>8. CASE j \in 1 .. R
    BY <2>8, <2>4, <2>5, <1>1, <1>2, Fields
  <2> QED BY <2>6, <2>7, <2>8
<1>9. PICK i \in FirstBlank(bytes, CrlfBlank) :
        split = [lines |-> SubSeq(bytes, 1, i), rest |-> SubSeq(bytes, (i + 4) + 1, Len(bytes))]
  BY <1>8, SplitsAre
<1>10. /\ i \in Nat /\ BlankAt(bytes, CrlfBlank, i) /\ i + 4 <= Len(bytes)
       /\ \A j \in 0 .. i - 1 : ~BlankAt(bytes, CrlfBlank, j)
  BY CrlfBlankAt, <1>4 DEF FirstBlank
<1>11. ~(i > 3 * R - 2)
  <2> SUFFICES ASSUME i > 3 * R - 2 PROVE FALSE
    OBVIOUS
  <2>1. 3 * R - 2 \in 0 .. i - 1 /\ Len(enc) <= Len(bytes)
    BY <1>1, <1>2, <1>4, <1>10
  <2> QED BY <2>1, <1>7, <1>10
<1>12. i = Len(enc) - 4 /\ i + 4 = Len(enc) /\ Len(enc) <= Len(bytes)
  <2>1. ~(i < 3 * R - 2)
    BY <1>6, <1>10
  <2> QED BY <2>1, <1>1, <1>2, <1>10, <1>11
<1>13. SubSeq(bytes, 1, i) = SubSeq(enc, 1, i)
  <2>1. \A p \in 1 .. i : bytes[p] = enc[p]
    BY <1>4, <1>10, <1>12, <1>1, <1>2 DEF Agree
  <2> QED BY <2>1, <1>2, <1>4, <1>10, <1>12
<1>14. Parsed(SubSeq(bytes, 1, i)) = Meant(event)
  BY <1>3, <1>12, <1>13
<1> QED BY <1>9, <1>12, <1>14 DEF enc

-----------------------------------------------------------------------------
(* The stream                                                              *)

\* The lines and line ends an answer is written in
Tokens(answer) ==
  {LineFeed, CommentLine}
    \cup (IF answer.style = "lf" THEN {} ELSE {CarriageReturn})
    \cup {NameLine(event.name) : event \in Range(answer.events)}
    \cup UNION {Range(event.data) : event \in Range(answer.events)}

\* What is left of an answer after its first n events
StillToYield(answer, n) ==
  [events |-> SubSeq(answer.events, n + 1, Len(answer.events)),
   style |-> answer.style, unsent |-> answer.unsent]

\* The events of an answer are written in its tokens.
LEMMA ComposedSays ==
  ASSUME NEW answer, Composed(answer), NEW event \in Range(answer.events)
  PROVE  Sayable(event, Tokens(answer))
<1> DEFINE S == Tokens(answer)
<1>1. /\ event.data \in Seq(Range(event.data))
      /\ \A line \in Range(event.data) : line.field = "data"
      /\ Lines(event) # <<>>
  BY DEF Composed
<1>2. Range(event.data) \subseteq S /\ CommentLine \in S /\ NameLine(event.name) \in S
      /\ LineFeed \in S
  BY DEF Tokens
<1> HIDE DEF S
<1>3. event.data \in Seq(S)
  BY <1>1, <1>2
<1>4. ASSUME NEW i \in 1 .. Len(event.data) PROVE event.data[i].field = "data"
  <2>1. event.data[i] \in Range(event.data)
    BY <1>1
  <2> QED BY <2>1, <1>1
<1> QED BY <1>1, <1>2, <1>3, <1>4 DEF Sayable, S

\* An answer written with line feeds has no carriage return.
LEMMA CarriageReturns ==
  ASSUME NEW answer, Composed(answer)
  PROVE  /\ answer.style = "lf" => \A x \in Tokens(answer) : x.field # "cr"
         /\ answer.style # "lf" => CarriageReturn \in Tokens(answer)
<1>1. ASSUME answer.style = "lf", NEW x \in Tokens(answer) PROVE x.field # "cr"
  <2>1. CASE x \in {LineFeed, CommentLine}
    <3>1. LineFeed.field = "lf" /\ CommentLine.field = "comment"
      BY DEF LineFeed, CommentLine, Line
    <3> QED BY <2>1, <3>1
  <2>2. CASE \E event \in Range(answer.events) : x = NameLine(event.name)
    BY <2>2 DEF NameLine, Line
  <2>3. CASE \E event \in Range(answer.events) : x \in Range(event.data)
    BY <2>3 DEF Composed
  <2> QED BY <1>1, <2>1, <2>2, <2>3 DEF Tokens
<1>2. answer.style # "lf" => CarriageReturn \in Tokens(answer)
  BY DEF Tokens
<1> QED BY <1>1, <1>2

\* An event as written has the tokens of its answer.
LEMMA EncodedType ==
  ASSUME NEW answer, Composed(answer), NEW event \in Range(answer.events)
  PROVE  Encoded(event, answer.style) \in Seq(Tokens(answer))
<1>1. Sayable(event, Tokens(answer))
  BY ComposedSays
<1>2. Lines(event) \in Seq(Tokens(answer)) /\ Len(Lines(event)) # 0 /\ LineFeed \in Tokens(answer)
  BY <1>1, LinesSay DEF Sayable
<1>3. CASE answer.style = "lf"
  BY <1>2, <1>3, EncodedWithLf
<1>4. CASE answer.style # "lf"
  <2>1. CarriageReturn \in Tokens(answer)
    BY <1>4, CarriageReturns
  <2> QED BY <1>2, <1>4, <2>1, EncodedWithCrlf
<1> QED BY <1>3, <1>4

\* Sequences that agree place by place are the same.
LEMMA SameSequence ==
  ASSUME NEW S, NEW s \in Seq(S), NEW t \in Seq(S), Len(s) = Len(t),
         \A i \in 1 .. Len(t) : s[i] = t[i]
  PROVE  s = t
OBVIOUS

\* The writing of a list of events begins with that of its first one.
LEMMA EncodingFirst ==
  ASSUME NEW E, NEW S, NEW style, \A e \in E : Encoded(e, style) \in Seq(S),
         NEW events \in Seq(E)
  PROVE  /\ Encoding(events, style) \in Seq(S)
         /\ Len(events) = 0 => Encoding(events, style) = <<>>
         /\ Len(events) # 0 =>
              Encoding(events, style) =
                Join(Encoded(events[1], style), Encoding(Tail(events), style))
<1> DEFINE Enc(e) == Encoded(e, style)
    Writings(s) == [i \in DOMAIN s |-> Enc(s[i])]
<1>1. \A e \in E : Enc(e) \in Seq(S)
  OBVIOUS
<1>2. \A s : Encoding(s, style) = FlattenSeq(Writings(s))
  BY DEF Encoding
<1> HIDE DEF Enc
<1>3. ASSUME NEW s \in Seq(E)
      PROVE /\ Writings(s) \in Seq(Seq(S)) /\ Len(Writings(s)) = Len(s)
            /\ \A i \in 1 .. Len(s) : Writings(s)[i] = Enc(s[i])
  <2>1. DOMAIN s = 1 .. Len(s) /\ Len(s) \in Nat /\ \A i \in 1 .. Len(s) : Enc(s[i]) \in Seq(S)
    BY <1>1
  <2> QED BY <2>1
<1> HIDE DEF Writings
<1>4. Encoding(events, style) \in Seq(S) /\ (Len(events) = 0 => Encoding(events, style) = <<>>)
  BY <1>2, <1>3, FlatType
<1>5. ASSUME Len(events) # 0
      PROVE Encoding(events, style) = Join(Enc(events[1]), Encoding(Tail(events), style))
  <2>1. /\ Tail(events) \in Seq(E) /\ Len(events) \in Nat /\ 1 \in 1 .. Len(events)
        /\ Len(Tail(events)) = Len(events) - 1
        /\ \A i \in 1 .. Len(events) - 1 : Tail(events)[i] = events[i + 1]
    BY <1>5
  <2> DEFINE rows == Writings(events)
      rest == Writings(Tail(events))
  <2>2. /\ rows \in Seq(Seq(S)) /\ Len(rows) = Len(events)
        /\ \A i \in 1 .. Len(events) : rows[i] = Enc(events[i])
    BY <1>3
  <2>3. /\ rest \in Seq(Seq(S)) /\ Len(rest) = Len(events) - 1
        /\ \A i \in 1 .. Len(events) - 1 : rest[i] = Enc(Tail(events)[i])
    BY <1>3, <2>1
  <2> HIDE DEF rows, rest
  <2>4. Tail(rows) = rest
    <3>1. /\ Tail(rows) \in Seq(Seq(S)) /\ Len(Tail(rows)) = Len(events) - 1
          /\ \A i \in 1 .. Len(events) - 1 : Tail(rows)[i] = rows[i + 1]
      BY <2>1, <2>2, <1>5
    <3>2. ASSUME NEW i \in 1 .. Len(events) - 1 PROVE Tail(rows)[i] = rest[i]
      <4>1. i + 1 \in 1 .. Len(events)
        BY <2>1
      <4> QED BY <4>1, <3>1, <2>1, <2>2, <2>3
    <3> DEFINE t == Tail(rows)
    <3>3. t \in Seq(Seq(S)) /\ Len(t) = Len(rest) /\ \A i \in 1 .. Len(rest) : t[i] = rest[i]
      BY <3>1, <3>2, <2>3
    <3> HIDE DEF t
    <3>4. t = rest
      BY <3>3, <2>3, SameSequence
    <3> QED BY <3>4 DEF t
  <2>5. FlattenSeq(rows) = Join(rows[1], FlattenSeq(Tail(rows)))
    BY <2>2, <1>5, FlatFirst
  <2>6. rows[1] = Enc(events[1])
    BY <2>1, <2>2
  <2> QED BY <2>4, <2>5, <2>6, <1>2 DEF rows, rest
<1> QED BY <1>4, <1>5 DEF Enc

\* What is still to be yielded begins with the next event.
LEMMA WrittenNext ==
  ASSUME NEW answer, Composed(answer), NEW n \in Nat, n < Len(answer.events)
  PROVE  LET S == Tokens(answer)
             enc == Encoded(answer.events[n + 1], answer.style)
             rest == Encoding(StillToYield(answer, n + 1).events, answer.style)
             whole == Encoding(StillToYield(answer, n).events, answer.style)
         IN enc \in Seq(S) /\ rest \in Seq(S) /\ whole = Join(enc, rest)
<1> DEFINE S == Tokens(answer)
    E == Range(answer.events)
    style == answer.style
    events == answer.events
    now == SubSeq(events, n + 1, Len(events))
    later == SubSeq(events, (n + 1) + 1, Len(events))
<1>1. events \in Seq(E) /\ \A e \in E : Encoded(e, style) \in Seq(S)
  BY EncodedType DEF Composed
<1>2. n < Len(events)
  OBVIOUS
<1> HIDE DEF S, E, events, style
<1>3. events[n + 1] \in E
  BY <1>1, <1>2
<1>4. now \in Seq(E) /\ later \in Seq(E) /\ Len(now) = Len(events) - n /\ now[1] = events[n + 1]
  BY <1>1, <1>2
<1>5. Tail(now) = later
  BY <1>1, <1>2
<1>6. Len(now) # 0
  BY <1>1, <1>2, <1>4
<1> HIDE DEF now, later
<1>7. Encoding(now, style) = Join(Encoded(now[1], style), Encoding(Tail(now), style))
  BY <1>1, <1>4, <1>6, EncodingFirst
<1>8. Encoding(later, style) \in Seq(S)
  BY <1>1, <1>4, EncodingFirst
<1>9. /\ StillToYield(answer, n).events = now /\ StillToYield(answer, n + 1).events = later
  BY DEF StillToYield, now, later, events
<1>10. Encoded(events[n + 1], style) \in Seq(S)
  BY <1>1, <1>3
<1> QED BY <1>4, <1>5, <1>7, <1>8, <1>9, <1>10 DEF S, events, style

\* After the last event nothing is under way.
LEMMA NothingToYield ==
  ASSUME NEW answer, Composed(answer)
  PROVE  Written(StillToYield(answer, Len(answer.events))) = <<>>
<1> DEFINE n == Len(answer.events)
    now == SubSeq(answer.events, n + 1, n)
<1>1. answer.events \in Seq(Range(answer.events)) /\ answer.unsent \in Nat
  BY DEF Composed
<1>2. now \in Seq(Range(answer.events)) /\ Len(now) = 0
  BY <1>1
<1>3. StillToYield(answer, n) = [events |-> now, style |-> answer.style, unsent |-> answer.unsent]
  BY DEF StillToYield
<1> HIDE DEF now
<1>4. Encoding(now, answer.style) = <<>>
  BY <1>2, EncodedType, EncodingFirst
<1>5. Written(StillToYield(answer, n)) = SubSeq(<<>>, 1, Len(<<>>) - answer.unsent)
  <2> DEFINE x == StillToYield(answer, n)
  <2>1. x.events = now /\ x.style = answer.style /\ x.unsent = answer.unsent
    BY <1>3
  <2> HIDE DEF x
  <2>2. Encoding(x.events, x.style) = <<>>
    BY <2>1, <1>4
  <2>3. Written(x) = SubSeq(<<>>, 1, Len(<<>>) - x.unsent)
    BY <2>2 DEF Written
  <2> QED BY <2>1, <2>3 DEF x
<1>6. SubSeq(<<>>, 1, Len(<<>>) - answer.unsent) = <<>>
  BY <1>1
<1> QED BY <1>5, <1>6

\* A beginning of a sequence, however short
LEMMA Beginning ==
  ASSUME NEW S, NEW s \in Seq(S), NEW m \in Int, m <= Len(s), NEW t, t = SubSeq(s, 1, m)
  PROVE  /\ t \in Seq(S) /\ Len(t) = IF m >= 0 THEN m ELSE 0
         /\ \A i \in 1 .. Len(t) : t[i] = s[i]
<1>1. Len(s) \in Nat
  OBVIOUS
<1>2. CASE m >= 0
  BY <1>1, <1>2
<1>3. CASE m < 0
  BY <1>1, <1>3
<1> QED BY <1>2, <1>3

\* How far what is held and under way, bytes and more, follows what was written: an event
\* and the rest, of which the end is missing
Follows(bytes, more, enc, rest, unsent) ==
  /\ Agree(bytes, enc) /\ Agree(Join(bytes, more), enc)
  /\ Len(Join(bytes, more)) < Len(enc) => unsent > 0
  /\ Len(enc) <= Len(bytes) =>
       Join(SubSeq(bytes, Len(enc) + 1, Len(bytes)), more) = SubSeq(rest, 1, Len(rest) - unsent)

\* What is held and under way is what was written, of which the end may be missing: so it
\* agrees with the next event, and without that event the same holds of what follows.
LEMMA CutShort ==
  ASSUME NEW S, NEW enc \in Seq(S), Len(enc) # 0, NEW rest \in Seq(S), NEW unsent \in Nat,
         NEW bytes \in Seq(S), NEW more \in Seq(S),
         Join(bytes, more) = SubSeq(Join(enc, rest), 1, Len(Join(enc, rest)) - unsent)
  PROVE  Follows(bytes, more, enc, rest, unsent)
<1> DEFINE ahead == Join(bytes, more)
    whole == Join(enc, rest)
    N == Len(enc)
    W == Len(whole)
<1>0. enc \in Seq(S) /\ rest \in Seq(S) /\ bytes \in Seq(S) /\ more \in Seq(S)
  OBVIOUS
<1>1. /\ whole \in Seq(S) /\ W = N + Len(rest)
      /\ \A i \in 1 .. N : whole[i] = enc[i]
      /\ \A i \in 1 .. Len(rest) : whole[N + i] = rest[i]
  BY ONLY <1>0 DEF Join
<1>2. /\ ahead \in Seq(S) /\ Len(ahead) = Len(bytes) + Len(more)
      /\ \A i \in 1 .. Len(bytes) : ahead[i] = bytes[i]
      /\ \A i \in 1 .. Len(more) : ahead[Len(bytes) + i] = more[i]
  BY ONLY <1>0 DEF Join
<1>3. N \in Nat /\ Len(rest) \in Nat /\ Len(bytes) \in Nat /\ Len(more) \in Nat
  OBVIOUS
<1>4. ahead = SubSeq(whole, 1, W - unsent)
  OBVIOUS
<1> HIDE DEF ahead, whole, W, N
<1>5. /\ Len(ahead) = IF W - unsent >= 0 THEN W - unsent ELSE 0
      /\ \A i \in 1 .. Len(ahead) : ahead[i] = whole[i]
  <2> DEFINE m == W - unsent
  <2>1. m \in Int /\ m <= Len(whole) /\ whole \in Seq(S) /\ ahead = SubSeq(whole, 1, m)
    BY <1>1, <1>3, <1>4 DEF W
  <2> HIDE DEF m
  <2>2. /\ Len(ahead) = IF m >= 0 THEN m ELSE 0
        /\ \A i \in 1 .. Len(ahead) : ahead[i] = whole[i]
    BY ONLY <2>1, Beginning
  <2> QED BY <2>2 DEF m
<1>6. Len(ahead) < N => unsent > 0
  BY <1>1, <1>3, <1>5
<1>7. \A p \in 1 .. N : p <= Len(ahead) => ahead[p] = enc[p]
  <2> SUFFICES ASSUME NEW p \in 1 .. N, p <= Len(ahead) PROVE ahead[p] = enc[p]
    OBVIOUS
  <2>1. p \in 1 .. Len(ahead)
    BY <1>2, <1>3
  <2>2. ahead[p] = whole[p]
    BY <2>1, <1>5
  <2> QED BY <2>2, <1>1
<1>8. \A p \in 1 .. N : p <= Len(bytes) => bytes[p] = enc[p]
  <2> SUFFICES ASSUME NEW p \in 1 .. N, p <= Len(bytes) PROVE bytes[p] = enc[p]
    OBVIOUS
  <2>1. p \in 1 .. Len(bytes) /\ p <= Len(ahead)
    BY <1>2, <1>3
  <2> QED BY <2>1, <1>2, <1>7
<1>9. ASSUME N <= Len(bytes)
      PROVE Join(SubSeq(bytes, N + 1, Len(bytes)), more) = SubSeq(rest, 1, Len(rest) - unsent)
  <2> DEFINE tail == SubSeq(bytes, N + 1, Len(bytes))
      left == Join(tail, more)
      right == SubSeq(rest, 1, Len(rest) - unsent)
  <2>1. /\ tail \in Seq(S) /\ Len(tail) = Len(bytes) - N
        /\ \A i \in 1 .. Len(tail) : tail[i] = bytes[N + i]
    BY <1>3, <1>9
  <2> HIDE DEF tail
  <2>2. /\ left \in Seq(S) /\ Len(left) = Len(tail) + Len(more)
        /\ \A i \in 1 .. Len(tail) : left[i] = tail[i]
        /\ \A i \in 1 .. Len(more) : left[Len(tail) + i] = more[i]
    <3>1. tail \in Seq(S) /\ more \in Seq(S)
      BY <2>1
    <3> QED BY ONLY <3>1 DEF Join
  <2> HIDE DEF left
  <2>3. Len(ahead) = W - unsent /\ Len(rest) - unsent \in Nat /\ Len(left) = Len(rest) - unsent
    <3>1. N # 0
      BY DEF N
    <3>2. /\ N \in Nat /\ Len(rest) \in Nat /\ Len(bytes) \in Nat /\ Len(more) \in Nat
          /\ unsent \in Nat /\ W = N + Len(rest) /\ Len(ahead) = Len(bytes) + Len(more)
          /\ N <= Len(bytes) /\ Len(tail) = Len(bytes) - N /\ Len(left) = Len(tail) + Len(more)
      BY <1>1, <1>2, <1>3, <1>9, <2>1, <2>2
    <3>3. Len(ahead) = IF W - unsent >= 0 THEN W - unsent ELSE 0
      BY <1>5
    <3>4. W \in Nat
      BY <3>2
    <3>5. Len(ahead) # 0 /\ Len(ahead) \in Nat
      BY <3>1, <3>2
    <3>6. Len(ahead) = W - unsent
      BY <3>2, <3>3, <3>4, <3>5
    <3>7. Len(left) = Len(rest) - unsent
      <4>1. Len(left) = (Len(bytes) - N) + Len(more) /\ Len(bytes) + Len(more) = Len(ahead)
        BY <3>2
      <4>2. Len(ahead) = (N + Len(rest)) - unsent
        BY <3>2, <3>6
      <4> HIDE DEF left, ahead
      <4> QED BY <4>1, <4>2, <1>3
    <3>8. Len(left) \in Nat
      BY <3>2
    <3> QED BY <3>6, <3>7, <3>8
  <2>4. /\ right \in Seq(S) /\ Len(right) = Len(rest) - unsent
        /\ \A i \in 1 .. Len(rest) - unsent : right[i] = rest[i]
    BY <2>3, <1>3
  <2> HIDE DEF right
  <2>5. ASSUME NEW i \in 1 .. Len(right) PROVE left[i] = right[i]
    <3>1. i \in 1 .. Len(rest) /\ N + i \in 1 .. Len(ahead) /\ i \in 1 .. Len(left)
      BY <2>3, <2>4, <1>1, <1>3
    <3>2. ahead[N + i] = rest[i]
      BY <3>1, <1>1, <1>5
    <3>3. left[i] = ahead[N + i]
      <4>1. CASE i <= Len(tail)
        <5>1. i \in 1 .. Len(tail) /\ N + i \in 1 .. Len(bytes)
          BY <4>1, <3>1, <2>1, <1>3
        <5> QED BY <5>1, <2>1, <2>2, <1>2
      <4>2. CASE i > Len(tail)
        <5> DEFINE k == i - Len(tail)
        <5>1. k \in 1 .. Len(more) /\ Len(tail) + k = i /\ Len(bytes) + k = N + i
          BY <4>2, <3>1, <2>1, <2>2, <1>3
        <5> HIDE DEF k
        <5>2. left[Len(tail) + k] = more[k] /\ ahead[Len(bytes) + k] = more[k]
          BY <5>1, <2>2, <1>2
        <5> QED BY <5>1, <5>2
      <4> QED BY <4>1, <4>2, <2>1, <1>3
    <3> QED BY <3>1, <3>2, <3>3, <2>4
  <2>6. left = right
    BY <2>2, <2>3, <2>4, <2>5, SameSequence
  <2> QED BY <2>6 DEF left, right, tail
<1> QED BY <1>6, <1>7, <1>8, <1>9 DEF Agree, Follows, ahead, N

\* A chunk moves from the wire to the buffer.
LEMMA Moved ==
  ASSUME NEW S, NEW bytes \in Seq(S), NEW more \in Seq(S), NEW n \in 1 .. Len(more)
  PROVE  /\ Join(bytes, SubSeq(more, 1, n)) \in Seq(S)
         /\ SubSeq(more, n + 1, Len(more)) \in Seq(S)
         /\ Join(Join(bytes, SubSeq(more, 1, n)), SubSeq(more, n + 1, Len(more))) =
              Join(bytes, more)
<1> DEFINE a == SubSeq(more, 1, n)
    b == SubSeq(more, n + 1, Len(more))
<1>1. a \in Seq(S) /\ Len(a) = n /\ \A i \in 1 .. n : a[i] = more[i]
  OBVIOUS
<1>2. b \in Seq(S) /\ Len(b) = Len(more) - n /\ \A i \in 1 .. Len(b) : b[i] = more[n + i]
  OBVIOUS
<1> HIDE DEF a, b
<1>3. Join(bytes, a) \in Seq(S)
  BY <1>1, JoinType
<1>4. Join(Join(bytes, a), b) = Join(bytes, Join(a, b))
  BY <1>1, <1>2, Regroup
<1>5. Join(a, b) = more
  <2> DEFINE c == Join(a, b)
  <2>1. /\ c \in Seq(S) /\ Len(c) = Len(a) + Len(b)
        /\ \A i \in 1 .. Len(a) : c[i] = a[i]
        /\ \A i \in 1 .. Len(b) : c[Len(a) + i] = b[i]
    <3>1. a \in Seq(S) /\ b \in Seq(S)
      BY <1>1, <1>2
    <3> QED BY ONLY <3>1 DEF Join
  <2> HIDE DEF c
  <2>2. Len(c) = Len(more)
    BY <2>1, <1>1, <1>2
  <2>3. ASSUME NEW i \in 1 .. Len(more) PROVE c[i] = more[i]
    <3>1. CASE i <= n
      BY <3>1, <2>1, <1>1
    <3>2. CASE i > n
      <4> DEFINE k == i - n
      <4>1. k \in 1 .. Len(b) /\ n + k = i
        BY <3>2, <1>2
      <4> HIDE DEF k
      <4> QED BY <4>1, <2>1, <1>1, <1>2
    <3> QED BY <3>1, <3>2
  <2>4. c = more
    BY <2>1, <2>2, <2>3, SameSequence
  <2> QED BY <2>4 DEF c
<1> QED BY <1>2, <1>3, <1>4, <1>5 DEF a, b

(* The inductive invariant of the stream: what the reader holds and what   *)
(* is under way is, together, the writing of the events it has yet to      *)
(* yield, of which a closed connection may have cut off the end.           *)
StreamInv ==
  /\ Composed(sent)
  /\ taken \in 0 .. Len(sent.events)
  /\ buffer \in Seq(Tokens(sent)) /\ wire \in Seq(Tokens(sent))
  /\ Join(buffer, wire) = Written(StillToYield(sent, taken))

\* What the reader holds and what is under way, seen from the next event
LEMMA Ahead ==
  ASSUME StreamInv, taken < Len(sent.events)
  PROVE  LET S == Tokens(sent)
             enc == Encoded(sent.events[taken + 1], sent.style)
             rest == Encoding(StillToYield(sent, taken + 1).events, sent.style)
         IN /\ enc \in Seq(S) /\ Len(enc) # 0 /\ rest \in Seq(S)
            /\ sent.events[taken + 1] \in Range(sent.events)
            /\ Agree(buffer, enc) /\ Agree(Join(buffer, wire), enc)
            /\ Len(Join(buffer, wire)) < Len(enc) => sent.unsent > 0
            /\ Len(enc) <= Len(buffer) =>
                 Join(SubSeq(buffer, Len(enc) + 1, Len(buffer)), wire) =
                   Written(StillToYield(sent, taken + 1))
<1> DEFINE S == Tokens(sent)
    event == sent.events[taken + 1]
    enc == Encoded(event, sent.style)
    rest == Encoding(StillToYield(sent, taken + 1).events, sent.style)
    now == StillToYield(sent, taken)
    later == StillToYield(sent, taken + 1)
<1>1. Composed(sent) /\ taken \in Nat /\ buffer \in Seq(S) /\ wire \in Seq(S)
      /\ Join(buffer, wire) = Written(now)
  BY DEF StreamInv
<1>2. sent.unsent \in Nat /\ event \in Range(sent.events)
  BY <1>1 DEF Composed
<1>3. /\ enc \in Seq(S) /\ rest \in Seq(S)
      /\ Encoding(now.events, sent.style) = Join(enc, rest)
  BY <1>1, WrittenNext
<1>4. Len(enc) # 0
  <2>1. Sayable(event, S)
    BY <1>1, <1>2, ComposedSays
  <2>2. /\ Lines(event) \in Seq(S) /\ Len(Lines(event)) # 0 /\ LineFeed \in S
        /\ Len(Lines(event)) \in Nat
    BY <2>1, LinesSay DEF Sayable
  <2>3. CASE sent.style = "lf"
    <3>1. Len(enc) = 2 * Len(Lines(event)) + 1
      BY <2>2, <2>3, EncodedWithLf
    <3> QED BY <3>1, <2>2
  <2>4. CASE sent.style # "lf"
    <3>1. CarriageReturn \in S
      BY <1>1, <2>4, CarriageReturns
    <3>2. Len(enc) = 3 * Len(Lines(event)) + 2
      BY <2>2, <2>4, <3>1, EncodedWithCrlf
    <3> QED BY <3>2, <2>2
  <2> QED BY <2>3, <2>4
<1>5. /\ now.style = sent.style /\ now.unsent = sent.unsent
      /\ later.style = sent.style /\ later.unsent = sent.unsent
  BY DEF StillToYield
<1>6. rest = Encoding(later.events, sent.style)
  OBVIOUS
<1> HIDE DEF S, enc, rest, now, later
<1>7. Written(now) = SubSeq(Join(enc, rest), 1, Len(Join(enc, rest)) - sent.unsent)
  BY <1>3, <1>5 DEF Written
<1>8. Written(later) = SubSeq(rest, 1, Len(rest) - sent.unsent)
  BY <1>5, <1>6 DEF Written
<1>9. /\ Agree(buffer, enc) /\ Agree(Join(buffer, wire), enc)
      /\ Len(Join(buffer, wire)) < Len(enc) => sent.unsent > 0
      /\ Len(enc) <= Len(buffer) =>
           Join(SubSeq(buffer, Len(enc) + 1, Len(buffer)), wire) =
             SubSeq(rest, 1, Len(rest) - sent.unsent)
  <2>1. Join(buffer, wire) = SubSeq(Join(enc, rest), 1, Len(Join(enc, rest)) - sent.unsent)
    BY <1>1, <1>7
  <2>2. /\ enc \in Seq(S) /\ Len(enc) # 0 /\ rest \in Seq(S) /\ sent.unsent \in Nat
        /\ buffer \in Seq(S) /\ wire \in Seq(S)
    BY <1>1, <1>2, <1>3, <1>4
  <2>3. Follows(buffer, wire, enc, rest, sent.unsent)
    BY ONLY <2>1, <2>2, CutShort
  <2> QED BY ONLY <2>3 DEF Follows
<1> QED BY <1>2, <1>3, <1>4, <1>8, <1>9 DEF S, enc, rest, later

\* What the next turn of the loop would split off is the next event.
LEMMA NextSplit ==
  ASSUME StreamInv, NEW split \in Splits(buffer)
  PROVE  LET enc == Encoded(sent.events[taken + 1], sent.style)
         IN /\ taken < Len(sent.events)
            /\ Parsed(split.lines) = Meant(sent.events[taken + 1])
            /\ Len(enc) <= Len(buffer) /\ split.rest = SubSeq(buffer, Len(enc) + 1, Len(buffer))
<1> DEFINE S == Tokens(sent)
    event == sent.events[taken + 1]
    style == sent.style
<1>1. Composed(sent) /\ taken \in 0 .. Len(sent.events) /\ buffer \in Seq(S) /\ wire \in Seq(S)
  BY DEF StreamInv
<1>2. Len(sent.events) \in Nat
  BY <1>1 DEF Composed
<1>3. taken < Len(sent.events)
  <2> SUFFICES ASSUME taken = Len(sent.events) PROVE FALSE
    BY <1>1, <1>2
  <2>1. Join(buffer, wire) = <<>>
    BY <1>1, NothingToYield DEF StreamInv
  <2>2. Len(Join(buffer, wire)) = Len(buffer) + Len(wire)
    BY ONLY <1>1 DEF Join
  <2>3. Len(<<>>) = 0
    OBVIOUS
  <2>4. Len(buffer) = 0
    BY <2>1, <2>2, <2>3, <1>1
  <2>5. FirstBlank(buffer, CrlfBlank) = {} /\ FirstBlank(buffer, LfBlank) = {}
    <3>1. ASSUME NEW i \in 0 .. Len(buffer)
          PROVE ~BlankAt(buffer, CrlfBlank, i) /\ ~BlankAt(buffer, LfBlank, i)
      BY <2>4, LfBlankAt, CrlfBlankAt
    <3> QED BY <3>1 DEF FirstBlank
  <2> QED BY <2>5, SplitsAre
<1>4. Sayable(event, S) /\ Agree(buffer, Encoded(event, style))
  BY <1>1, <1>3, Ahead, ComposedSays
<1>5. CASE style = "lf"
  <2>1. \A x \in S : x.field # "cr"
    BY <1>1, <1>5, CarriageReturns
  <2> QED BY <1>1, <1>3, <1>4, <1>5, <2>1, SplitWithLf
<1>6. CASE style # "lf"
  <2>1. CarriageReturn \in S
    BY <1>1, <1>6, CarriageReturns
  <2> QED BY <1>1, <1>3, <1>4, <1>6, <2>1, SplitWithCrlf
<1> QED BY <1>5, <1>6

\* The invariant says of the stream what EventsAsSent promises.
LEMMA StreamInvShows == StreamInv => EventsAsSent
<1> SUFFICES ASSUME StreamInv PROVE EventsAsSent
  OBVIOUS
<1> DEFINE S == Tokens(sent)
    ahead == buffer \o wire
<1>1. Composed(sent) /\ taken \in 0 .. Len(sent.events) /\ buffer \in Seq(S) /\ wire \in Seq(S)
  BY DEF StreamInv
<1>2. ahead = Join(buffer, wire) /\ ahead \in Seq(S)
  BY <1>1 DEF Join
<1>3. CASE taken >= Len(sent.events)
  <2>1. taken = Len(sent.events)
    BY <1>1, <1>3 DEF Composed
  <2>2. Join(buffer, wire) = <<>>
    BY <1>1, <2>1, NothingToYield DEF StreamInv
  <2> QED BY <1>2, <1>3, <2>1, <2>2 DEF EventsAsSent
<1>4. CASE ~(taken >= Len(sent.events))
  <2> DEFINE next == sent.events[taken + 1]
      writing == Encoded(next, sent.style)
  <2>1. taken < Len(sent.events)
    BY <1>1, <1>4 DEF Composed
  <2>2. /\ writing \in Seq(S) /\ Agree(ahead, writing)
        /\ Len(ahead) < Len(writing) => sent.unsent > 0
    BY <1>2, <2>1, Ahead
  <2>3. \A split \in Splits(buffer) : Parsed(split.lines) = Meant(next)
    BY NextSplit
  <2> HIDE DEF writing, ahead, S
  <2>4. IsPrefix(writing, ahead) \/ (sent.unsent > 0 /\ IsStrictPrefix(ahead, writing))
    <3>1. CASE Len(writing) <= Len(ahead)
      <4>1. SubSeq(writing, 1, Len(writing)) = SubSeq(ahead, 1, Len(writing))
        BY <1>2, <2>2, <3>1 DEF Agree
      <4> QED BY <4>1, <3>1 DEF IsPrefix
    <3>2. CASE Len(ahead) < Len(writing)
      <4>1. SubSeq(ahead, 1, Len(ahead)) = SubSeq(writing, 1, Len(ahead))
        BY <1>2, <2>2, <3>2 DEF Agree
      <4>2. ahead # writing /\ Len(ahead) <= Len(writing)
        BY <1>2, <2>2, <3>2
      <4> QED BY <4>1, <4>2, <3>2, <2>2 DEF IsPrefix, IsStrictPrefix
    <3>3. Len(writing) \in Nat /\ Len(ahead) \in Nat
      BY <1>2, <2>2
    <3> QED BY <3>1, <3>2, <3>3
  <2> QED BY <1>4, <2>3, <2>4 DEF EventsAsSent, writing, ahead
<1> QED BY <1>3, <1>4

-----------------------------------------------------------------------------
\* A step that leaves the stream alone keeps the invariant.
LEMMA StreamUntouched == StreamInv /\ UNCHANGED streamVars => StreamInv'
BY DEF StreamInv, streamVars, Written, StillToYield

\* Of an answer nothing of which was read all that is written is under way.
LEMMA NothingRead ==
  ASSUME NEW answer, Composed(answer)
  PROVE  /\ 0 \in 0 .. Len(answer.events)
         /\ <<>> \in Seq(Tokens(answer)) /\ Written(answer) \in Seq(Tokens(answer))
         /\ Join(<<>>, Written(answer)) = Written(StillToYield(answer, 0))
<1> DEFINE S == Tokens(answer)
    E == Range(answer.events)
    whole == Encoding(answer.events, answer.style)
<1>1. answer.events \in Seq(E) /\ answer.unsent \in Nat 
      /\ \A e \in E : Encoded(e, answer.style) \in Seq(S)
  BY EncodedType DEF Composed
<1>2. whole \in Seq(S)
  BY <1>1, EncodingFirst
<1>3. /\ StillToYield(answer, 0).events = answer.events
      /\ StillToYield(answer, 0).style = answer.style
      /\ StillToYield(answer, 0).unsent = answer.unsent
  BY <1>1 DEF StillToYield
<1>4. Written(StillToYield(answer, 0)) = Written(answer)
  BY <1>3 DEF Written
<1> HIDE DEF S, E, whole
<1>5. Written(answer) \in Seq(S)
  <2>1. Written(answer) = SubSeq(whole, 1, Len(whole) - answer.unsent)
    BY DEF Written, whole
  <2>2. Len(whole) - answer.unsent \in Int /\ Len(whole) - answer.unsent <= Len(whole)
    BY <1>1, <1>2
  <2> QED BY <1>2, <2>1, <2>2, Beginning
<1>6. <<>> \in Seq(S) /\ Join(<<>>, Written(answer)) = Written(answer)
  BY <1>5, JoinEmpty
<1>7. 0 \in 0 .. Len(answer.events)
  BY <1>1
<1> QED BY <1>4, <1>5, <1>6, <1>7 DEF S

\* A stream that was just opened, or closed, satisfies the invariant.
LEMMA StreamOpened ==
  ASSUME NEW answer, Composed(answer), sent' = answer, taken' = 0, buffer' = <<>>,
         wire' = Written(answer)
  PROVE  StreamInv'
BY NothingRead DEF StreamInv

\* No answer is one that was composed, and nothing of it is written.
LEMMA NoAnswerComposed == Composed(NoAnswer) /\ Written(NoAnswer) = <<>>
<1>1. NoAnswer.events = <<>> /\ NoAnswer.unsent = 0 /\ NoAnswer.style = "lf"
  BY DEF NoAnswer
<1>2. Composed(NoAnswer)
  <2>1. Range(<<>>) = {} /\ <<>> \in Seq({})
    BY DEF Range
  <2> QED BY <1>1, <2>1 DEF Composed
<1>3. StillToYield(NoAnswer, Len(NoAnswer.events)).events = <<>>
  BY <1>1 DEF StillToYield
<1>4. Encoding(<<>>, "lf") = <<>>
  <2>1. <<>> \in Seq({}) /\ Len(<<>>) = 0
    OBVIOUS
  <2>2. \A e \in {} : Encoded(e, "lf") \in Seq({})
    OBVIOUS
  <2> QED BY <2>1, <2>2, EncodingFirst
<1>5. Written(NoAnswer) = SubSeq(<<>>, 1, 0)
  BY <1>1, <1>4 DEF Written
<1> QED BY <1>2, <1>5

\* A chunk moves from the wire to the buffer.
LEMMA ReceiveKeepsStream == StreamInv /\ Receive => StreamInv'
<1> SUFFICES ASSUME StreamInv, Receive PROVE StreamInv'
  OBVIOUS
<1> DEFINE S == Tokens(sent)
<1>1. buffer \in Seq(S) /\ wire \in Seq(S) 
      /\ Join(buffer, wire) = Written(StillToYield(sent, taken))
  BY DEF StreamInv
<1>2. PICK n \in 1 .. Len(wire) :
        /\ wire' = SubSeq(wire, n + 1, Len(wire))
        /\ buffer' = Join(buffer, SubSeq(wire, 1, n))
  BY DEF Receive, Join
<1>3. sent' = sent /\ taken' = taken
  BY DEF Receive
<1> HIDE DEF S
<1>4. buffer' \in Seq(S) /\ wire' \in Seq(S) /\ Join(buffer', wire') = Join(buffer, wire)
  BY <1>1, <1>2, Moved
<1>5. S' = S /\ Written(StillToYield(sent, taken))' = Written(StillToYield(sent, taken))
  BY <1>3 DEF S, Written, StillToYield
<1>6. Composed(sent)' /\ taken' \in 0 .. Len(sent'.events)
  BY <1>3 DEF StreamInv
<1> QED BY <1>1, <1>4, <1>5, <1>6 DEF StreamInv, S

\* One event is split off: the next one, and nothing of what follows it.
LEMMA YieldKeepsStream ==
  ASSUME StreamInv, NEW split, YieldEvent(split)
  PROVE  StreamInv'
<1> DEFINE S == Tokens(sent)
    enc == Encoded(sent.events[taken + 1], sent.style)
<1>1. /\ split \in Splits(buffer) /\ buffer' = split.rest /\ taken' = taken + 1
      /\ sent' = sent /\ wire' = wire
  BY DEF YieldEvent
<1>2. /\ Composed(sent) /\ taken \in 0 .. Len(sent.events)
      /\ buffer \in Seq(S) /\ wire \in Seq(S)
  BY DEF StreamInv
<1>3. /\ taken < Len(sent.events) /\ Len(enc) <= Len(buffer)
      /\ buffer' = SubSeq(buffer, Len(enc) + 1, Len(buffer))
  BY <1>1, NextSplit
<1>4. /\ enc \in Seq(S)
      /\ Join(SubSeq(buffer, Len(enc) + 1, Len(buffer)), wire) =
           Written(StillToYield(sent, taken + 1))
  BY <1>3, Ahead
<1> HIDE DEF S, enc
<1>5. buffer' \in Seq(S)
  BY <1>2, <1>3, <1>4
<1>6. Join(buffer', wire') = Written(StillToYield(sent, taken + 1))
  BY <1>1, <1>3, <1>4
<1>7. Written(StillToYield(sent, taken))' = Written(StillToYield(sent, taken + 1)) /\ S' = S
  BY <1>1 DEF Written, StillToYield, S
<1>8. Composed(sent)' /\ taken' \in 0 .. Len(sent'.events)
  BY <1>1, <1>2, <1>3 DEF Composed
<1> QED BY <1>1, <1>2, <1>5, <1>6, <1>7, <1>8 DEF StreamInv, S

\* Every step of the suite keeps the invariant of the stream.
LEMMA SuiteKeepsStream == SuiteInv /\ StreamInv /\ [SuiteNext]_suiteVars => StreamInv'
<1> SUFFICES ASSUME SuiteInv, StreamInv, [SuiteNext]_suiteVars PROVE StreamInv'
  OBVIOUS
<1>1. CASE UNCHANGED suiteVars
  BY <1>1, StreamUntouched DEF suiteVars
<1>2. CASE Operator \/ Loop \/ Save
  <2>1. UNCHANGED streamVars
    BY <1>2 DEF Operator, Loop, Save, WriteRecords, WriteSummary, OpenManifest, WriteFile,
         SaveManifest
  <2> QED BY <2>1, StreamUntouched
<1>3. CASE Probe
  <2>1. CASE BeginCase
    BY <2>1, StreamUntouched DEF BeginCase
  <2>2. CASE KeyMissing \/ ConnectFails \/ Refuse \/ ReadRaises \/ StreamBreaks \/ StreamEnds
    <3>1. CloseStream(NoAnswer)
      BY <2>2 DEF KeyMissing, ConnectFails, Refuse, ReadRaises, StreamBreaks, StreamEnds,
           GiveUp, FinishRequest
    <3> QED BY <3>1, NoAnswerComposed, StreamOpened DEF CloseStream
  <2>3. CASE Accept
    <3>1. pc = "probing" /\ suite \in Suites /\ index < Total /\ index \in Nat
      BY <2>3 DEF Accept, Probing, SuiteInv, IndInv, TypeOK, EndShape, InLoop, RecordsKept
    <3>2. Case.category \in DOMAIN Answers
      BY <3>1, SuitesAssumption, TotalAssumption DEF Case
    <3>3. PICK answer \in Answers[Case.category] : OpenStream(answer)
      BY <2>3 DEF Accept
    <3>4. Composed(answer)
      BY <3>2, <3>3, AnswersAssumption
    <3> QED BY <3>3, <3>4, StreamOpened DEF OpenStream
  <2>4. CASE ReadChunk
    BY <2>4, ReceiveKeepsStream DEF ReadChunk
  <2>5. CASE ReadEvent
    <3>1. PICK split : YieldEvent(split)
      BY <2>5 DEF ReadEvent
    <3> QED BY <3>1, YieldKeepsStream
  <2>6. CASE JudgeCase
    BY <2>6, StreamUntouched DEF JudgeCase
  <2> QED BY <1>3, <2>1, <2>2, <2>3, <2>4, <2>5, <2>6 DEF Probe
<1> QED BY <1>1, <1>2, <1>3 DEF SuiteNext, SuiteWorker

\* Wherever the chunks are cut, what the reader holds and what is under way is the writing
\* of the events not yet yielded.
THEOREM StreamInvariance == SuiteSpec => []StreamInv
<1>1. SuiteInit => StreamInv
  <2> SUFFICES ASSUME SuiteInit PROVE StreamInv
    OBVIOUS
  <2>1. sent = NoAnswer /\ taken = 0 /\ buffer = <<>> /\ wire = Written(NoAnswer)
    BY NoAnswerComposed DEF SuiteInit, Idle
  <2> QED BY <2>1, NoAnswerComposed, NothingRead DEF StreamInv
<1> QED BY <1>1, SuiteInvariance, SuiteKeepsStream, PTL DEF SuiteSpec

\* Whatever composed events a provider sends, in either style, and wherever the connection
\* cuts them into chunks or breaks off, the reader yields each of them once, in order and
\* whole.
THEOREM EventsArriveAsSent == SuiteSpec => []EventsAsSent
BY StreamInvariance, StreamInvShows, PTL

-----------------------------------------------------------------------------
(* Lists of events                                                         *)

\* A set of numbers has a least one.
LEMMA LeastOf ==
  ASSUME NEW U, U \subseteq Nat, U # {}
  PROVE  Min(U) \in U /\ \A y \in U : Min(U) <= y
<1>1. PICK x \in U : \A y \in U : ~ (<<y, x>> \in OpToRel(<, Nat))
  BY NatLessThanWellFounded, WFMin
<1>2. \A y \in U : ~ (y < x)
  BY <1>1 DEF OpToRel
<1>3. \A y \in U : x <= y
  BY <1>2
<1> QED BY <1>3 DEF Min

\* A set of places has a last one.
LEMMA GreatestOf ==
  ASSUME NEW n \in Nat, NEW U, U \subseteq 1 .. n, U # {}
  PROVE  Max(U) \in U /\ \A y \in U : y <= Max(U)
<1> DEFINE V == {n - x : x \in U}
    m == Min(V)
<1>1. ASSUME NEW x \in U PROVE x \in Int /\ x >= 1 /\ x <= n /\ n - x \in Nat
  <2>1. x \in 1 .. n
    OBVIOUS
  <2> QED BY ONLY <2>1, n \in Nat
<1>2. V \subseteq Nat
  BY <1>1
<1>3. V # {}
  OBVIOUS
<1>4. m \in V /\ \A y \in V : m <= y
  <2> HIDE DEF V
  <2> QED BY <1>2, <1>3, LeastOf
<1> HIDE DEF m
<1>5. PICK x \in U : m = n - x
  BY <1>4
<1>6. ASSUME NEW y \in U PROVE x >= y
  <2>1. n - y \in V
    OBVIOUS
  <2>2. n - x <= n - y
    BY <2>1, <1>4, <1>5
  <2>3. x \in Int /\ y \in Int
    BY <1>1
  <2> QED BY ONLY <2>2, <2>3, n \in Nat
<1>7. \E z \in U : \A y \in U : z >= y
  BY <1>6
<1>8. Max(U) \in U /\ \A y \in U : Max(U) >= y
  BY <1>7 DEF Max
<1>9. ASSUME NEW y \in U PROVE y <= Max(U)
  <2>1. y \in Int /\ Max(U) \in Int /\ Max(U) >= y
    BY <1>1, <1>8
  <2> QED BY ONLY <2>1
<1> QED BY <1>8, <1>9

\* The function that TextSaid speaks of exists.
LEMMA SaidExists ==
  ASSUME NEW events, NEW n \in Nat
  PROVE  \E h : h = [i \in 0 .. n |-> IF i = 0 THEN <<>> ELSE Saying(h[i - 1], events[i])]
<1> DEFINE Of(f, m) ==
      f = [i \in 0 .. m |-> IF i = 0 THEN <<>> ELSE Saying(f[i - 1], events[i])]
    T == {m \in Nat : \E f : Of(f, m)}
<1>1. 0 \in T
  <2> DEFINE f0 == [i \in 0 .. 0 |-> <<>>]
  <2>1. Of(f0, 0)
    OBVIOUS
  <2> QED BY <2>1
<1>2. ASSUME NEW m \in Nat, m \in T PROVE m + 1 \in T
  <2>1. PICK f : Of(f, m)
    BY <1>2
  <2> DEFINE g == [i \in 0 .. m + 1 |-> IF i = 0 THEN <<>> ELSE Saying(f[i - 1], events[i])]
  <2>2. \A i \in 0 .. m : f[i] = IF i = 0 THEN <<>> ELSE Saying(f[i - 1], events[i])
    BY <2>1
  <2>3. \A i \in 0 .. m : g[i] = f[i]
    BY <2>2
  <2>4. \A i \in 0 .. m + 1 : i # 0 => g[i - 1] = f[i - 1]
    <3> SUFFICES ASSUME NEW i \in 0 .. m + 1, i # 0 PROVE g[i - 1] = f[i - 1]
      OBVIOUS
    <3>1. i - 1 \in 0 .. m
      OBVIOUS
    <3> HIDE DEF g
    <3> QED BY <3>1, <2>3
  <2>5. g = [i \in 0 .. m + 1 |-> IF i = 0 THEN <<>> ELSE Saying(g[i - 1], events[i])]
    BY <2>4
  <2> HIDE DEF g
  <2>6. \E h : Of(h, m + 1)
    BY <2>5
  <2>7. m + 1 \in Nat
    OBVIOUS
  <2> QED BY <2>6, <2>7
<1>3. n \in T
  <2> HIDE DEF T
  <2> QED BY <1>1, <1>2, UpTo
<1> QED BY <1>3

\* What was said, event by event
LEMMA SaidSteps ==
  ASSUME NEW events, Len(events) \in Nat
  PROVE  \E h :
           /\ TextSaid(events) = h[Len(events)]
           /\ h[0] = <<>>
           /\ \A i \in 1 .. Len(events) : h[i] = Saying(h[i - 1], events[i])
<1> DEFINE Of(f) ==
      f = [i \in 0 .. Len(events) |-> IF i = 0 THEN <<>> ELSE Saying(f[i - 1], events[i])]
    h == CHOOSE f : Of(f)
<1>1. Of(h)
  <2>1. \E f : Of(f)
    BY SaidExists
  <2> QED BY <2>1
<1>2. TextSaid(events) = h[Len(events)]
  BY DEF TextSaid
<1> HIDE DEF h
<1>3. \A i \in 0 .. Len(events) : h[i] = IF i = 0 THEN <<>> ELSE Saying(h[i - 1], events[i])
  BY <1>1
<1>4. h[0] = <<>>
  BY <1>3
<1>5. \A i \in 1 .. Len(events) : h[i] = Saying(h[i - 1], events[i])
  BY <1>3
<1> QED BY <1>2, <1>4, <1>5

\* A sequence with one more element
LEMMA Appended ==
  ASSUME NEW E, NEW s \in Seq(E), NEW e \in E
  PROVE  /\ Append(s, e) \in Seq(E) /\ Len(Append(s, e)) = Len(s) + 1
         /\ DOMAIN Append(s, e) = 1 .. Len(s) + 1
         /\ \A i \in 1 .. Len(s) : Append(s, e)[i] = s[i]
         /\ Append(s, e)[Len(s) + 1] = e
OBVIOUS

\* One more event adds its text to what was said.
LEMMA TextNext ==
  ASSUME NEW E, NEW events \in Seq(E), NEW e \in E
  PROVE  TextSaid(Append(events, e)) = Saying(TextSaid(events), e)
<1> DEFINE more == Append(events, e)
    n == Len(events)
<1>1. /\ n \in Nat /\ Len(more) = n + 1 /\ more[n + 1] = e
      /\ \A i \in 1 .. n : more[i] = events[i]
  BY Appended
<1> HIDE DEF more
<1>2. PICK g : /\ TextSaid(events) = g[n] /\ g[0] = <<>>
               /\ \A i \in 1 .. n : g[i] = Saying(g[i - 1], events[i])
  BY <1>1, SaidSteps
<1>3. PICK h : /\ TextSaid(more) = h[n + 1] /\ h[0] = <<>>
               /\ \A i \in 1 .. n + 1 : h[i] = Saying(h[i - 1], more[i])
  <2>1. Len(more) \in Nat
    BY <1>1
  <2> QED BY <1>1, <2>1, SaidSteps
<1> DEFINE T == {m \in Nat : m <= n => h[m] = g[m]}
<1>4. 0 \in T
  BY <1>2, <1>3
<1>5. ASSUME NEW m \in Nat, m \in T PROVE m + 1 \in T
  <2> SUFFICES ASSUME m + 1 <= n PROVE h[m + 1] = g[m + 1]
    OBVIOUS
  <2>1. m + 1 \in 1 .. n /\ m + 1 \in 1 .. n + 1 /\ (m + 1) - 1 = m /\ m <= n
    BY <1>1
  <2>2. h[m + 1] = Saying(h[m], more[m + 1])
    BY <2>1, <1>3
  <2>3. g[m + 1] = Saying(g[m], events[m + 1])
    BY <2>1, <1>2
  <2> QED BY <2>1, <2>2, <2>3, <1>1, <1>5
<1>6. n \in T
  <2> HIDE DEF T
  <2> QED BY <1>1, <1>4, <1>5, UpTo
<1>7. h[n + 1] = Saying(h[n], e)
  <2>1. n + 1 \in 1 .. n + 1 /\ (n + 1) - 1 = n
    BY <1>1
  <2>2. h[n + 1] = Saying(h[(n + 1) - 1], more[n + 1])
    BY <2>1, <1>3
  <2> QED BY <2>1, <2>2, <1>1
<1>8. h[n] = g[n]
  BY <1>1, <1>6
<1> QED BY <1>2, <1>3, <1>7, <1>8 DEF more

\* The last of the places of what is one longer
LEMMA GreatestNew ==
  ASSUME NEW n \in Nat, NEW U, U \subseteq 1 .. n + 1, n + 1 \in U
  PROVE  Max(U) = n + 1
<1>1. n + 1 \in Nat
  OBVIOUS
<1>2. Max(U) \in U /\ n + 1 <= Max(U)
  BY <1>1, GreatestOf
<1>3. Max(U) \in 1 .. n + 1
  BY <1>2
<1> QED BY ONLY <1>2, <1>3, n \in Nat

\* One more event is one more place of its type, and none of another.
LEMMA PlacesNext ==
  ASSUME NEW E, NEW events \in Seq(E), NEW e \in E, NEW dtype
  PROVE  /\ Places(events, dtype) \subseteq 1 .. Len(events)
         /\ Is(e, dtype) =>
              Places(Append(events, e), dtype) = Places(events, dtype) \cup {Len(events) + 1}
         /\ ~Is(e, dtype) => Places(Append(events, e), dtype) = Places(events, dtype)
<1> DEFINE more == Append(events, e)
    n == Len(events)
<1>1. /\ n \in Nat /\ DOMAIN more = 1 .. n + 1 /\ DOMAIN events = 1 .. n /\ more[n + 1] = e
      /\ \A i \in 1 .. n : more[i] = events[i]
  BY Appended
<1> HIDE DEF more, n
<1>2. 1 .. n + 1 = (1 .. n) \cup {n + 1} /\ n + 1 \notin 1 .. n
  BY <1>1
<1>3. Places(more, dtype) = {i \in 1 .. n + 1 : Is(more[i], dtype)}
  BY <1>1 DEF Places
<1>4. Places(events, dtype) = {i \in 1 .. n : Is(events[i], dtype)}
  BY <1>1 DEF Places
<1>5. Is(e, dtype) => Places(more, dtype) = Places(events, dtype) \cup {n + 1}
  BY <1>1, <1>2, <1>3, <1>4, Zenon
<1>6. ~Is(e, dtype) => Places(more, dtype) = Places(events, dtype)
  BY <1>1, <1>2, <1>3, <1>4, Zenon
<1>7. Places(events, dtype) \subseteq 1 .. n
  BY <1>4
<1> QED BY <1>5, <1>6, <1>7 DEF more, n

\* The model named last, with one more event
LEMMA NamedNext ==
  ASSUME NEW E, NEW events \in Seq(E), NEW e \in E
  PROVE  /\ Is(e, "message_start") => NamedLast(Append(events, e)) = Object(e).model
         /\ ~Is(e, "message_start") => NamedLast(Append(events, e)) = NamedLast(events)
<1> DEFINE more == Append(events, e)
    n == Len(events)
    old == Places(events, "message_start")
    new == Places(more, "message_start")
<1>1. n \in Nat /\ more[n + 1] = e /\ \A i \in 1 .. n : more[i] = events[i]
  BY Appended
<1>2. /\ old \subseteq 1 .. n
      /\ Is(e, "message_start") => new = old \cup {n + 1}
      /\ ~Is(e, "message_start") => new = old
  BY PlacesNext
<1>3. NamedLast(more) = IF new = {} THEN "none" ELSE Object(more[Max(new)]).model
  BY DEF NamedLast
<1>4. NamedLast(events) = IF old = {} THEN "none" ELSE Object(events[Max(old)]).model
  BY DEF NamedLast
<1> HIDE DEF more, n, old, new
<1>5. CASE Is(e, "message_start")
  <2>1. new = old \cup {n + 1}
    BY <1>2, <1>5
  <2>2. new \subseteq 1 .. n + 1 /\ n + 1 \in new
    BY <1>1, <1>2, <2>1
  <2>3. Max(new) = n + 1
    BY <1>1, <2>2, GreatestNew
  <2>4. NamedLast(more) = Object(e).model
    BY <1>1, <1>3, <2>2, <2>3
  <2> QED BY <2>4, <1>5 DEF more
<1>6. CASE ~Is(e, "message_start")
  <2>1. new = old
    BY <1>2, <1>6
  <2>2. old # {} => Max(old) \in 1 .. n
    BY <1>1, <1>2, GreatestOf
  <2>3. old # {} => more[Max(old)] = events[Max(old)]
    BY <1>1, <2>2
  <2>4. NamedLast(more) = NamedLast(events)
    BY <1>3, <1>4, <2>1, <2>3
  <2> QED BY <2>4, <1>6 DEF more
<1> QED BY <1>5, <1>6

\* The count given last, with one more event
LEMMA CountNext ==
  ASSUME NEW E, NEW events \in Seq(E), NEW e \in E, NEW field
  PROVE  /\ Counts(e, field) =>
              CountSaid(Append(events, e), field) = Object(e).usage[field]
         /\ ~Counts(e, field) => CountSaid(Append(events, e), field) = CountSaid(events, field)
<1> DEFINE more == Append(events, e)
    n == Len(events)
    old == {i \in DOMAIN events : Counts(events[i], field)}
    new == {i \in DOMAIN more : Counts(more[i], field)}
<1>1. /\ n \in Nat /\ DOMAIN more = 1 .. n + 1 /\ DOMAIN events = 1 .. n /\ more[n + 1] = e
      /\ \A i \in 1 .. n : more[i] = events[i]
  BY Appended
<1>2. CountSaid(more, field) = IF new = {} THEN 0 ELSE Object(more[Max(new)]).usage[field]
  BY DEF CountSaid
<1>3. CountSaid(events, field) = IF old = {} THEN 0 ELSE Object(events[Max(old)]).usage[field]
  BY DEF CountSaid
<1> HIDE DEF more, n
<1>4. 1 .. n + 1 = (1 .. n) \cup {n + 1} /\ n + 1 \notin 1 .. n
  BY <1>1
<1>5. old \subseteq 1 .. n
  BY <1>1
<1>6. new \subseteq 1 .. n + 1
  BY <1>1
<1>7. CASE Counts(e, field)
  <2>1. n + 1 \in new
    BY <1>1, <1>4, <1>7
  <2> HIDE DEF new
  <2>2. Max(new) = n + 1
    BY <1>1, <1>6, <2>1, GreatestNew
  <2>3. CountSaid(more, field) = Object(e).usage[field]
    BY <1>1, <1>2, <2>1, <2>2
  <2> QED BY <2>3, <1>7 DEF more
<1>8. CASE ~Counts(e, field)
  <2>1. new = old
    <3>1. ASSUME NEW i \in new PROVE i \in old
      BY <1>1, <1>4, <1>8
    <3>2. ASSUME NEW i \in old PROVE i \in new
      BY <1>1, <1>4
    <3> QED BY <3>1, <3>2
  <2> HIDE DEF new, old
  <2>2. old # {} => Max(old) \in 1 .. n
    BY <1>1, <1>5, GreatestOf
  <2>3. old # {} => more[Max(old)] = events[Max(old)]
    BY <1>1, <2>2
  <2>4. CountSaid(more, field) = CountSaid(events, field)
    BY <1>2, <1>3, <2>1, <2>3
  <2> QED BY <2>4, <1>8 DEF more
<1> QED BY <1>7, <1>8

\* Whether some event does
LEMMA SomeNext ==
  ASSUME NEW E, NEW events \in Seq(E), NEW e \in E, NEW T
  PROVE  (\E i \in DOMAIN Append(events, e) : Append(events, e)[i] \in T)
           <=> (\E i \in DOMAIN events : events[i] \in T) \/ e \in T
<1> DEFINE more == Append(events, e)
    n == Len(events)
<1>1. /\ n \in Nat /\ DOMAIN more = 1 .. n + 1 /\ DOMAIN events = 1 .. n /\ more[n + 1] = e
      /\ \A i \in 1 .. n : more[i] = events[i]
  BY Appended
<1> HIDE DEF more, n
<1>2. 1 .. n + 1 = (1 .. n) \cup {n + 1}
  BY <1>1
<1>3. (\E i \in DOMAIN more : more[i] \in T)
         <=> (\E i \in DOMAIN events : events[i] \in T) \/ e \in T
  BY <1>1, <1>2, Zenon
<1> QED BY <1>3 DEF more

-----------------------------------------------------------------------------
(* What one event adds to the metrics                                      *)

\* Metrics are a record of these fields.
IsMetrics(m) ==
  m = [http |-> m.http, error |-> m.error, heard |-> m.heard, types |-> m.types,
       text |-> m.text, tool |-> m.tool, inputJson |-> m.inputJson, usage |-> m.usage,
       model |-> m.model]

IsSpoken(event) == Object(event).shape = "object"
SaysUsage(event) == Is(event, "message_start") \/ Is(event, "message_delta")
StartsTool(event) == Is(event, "content_block_start") /\ Object(event).kind = "tool_use"
FillsTool(event) == Is(event, "content_block_delta") /\ Object(event).kind = "input_json_delta"

\* What the loop over the events makes of one more event
InStep(m, e, next) ==
  /\ IsMetrics(next)
  /\ next.http = m.http
  /\ next.heard = TRUE
  /\ next.model = IF Is(e, "message_start") THEN Object(e).model ELSE m.model
  /\ next.usage = IF SaysUsage(e) THEN Updated(m.usage, Object(e).usage) ELSE m.usage
  /\ next.text = Saying(m.text, e)
  /\ next.types = IF IsSpoken(e) THEN Append(m.types, DtypeOf(Meant(e))) ELSE m.types
  /\ next.tool = (m.tool \/ StartsTool(e))
  /\ next.inputJson = (m.inputJson \/ FillsTool(e))

\* The loop makes that of an event, whatever its type.
LEMMA AbsorbedInStep ==
  ASSUME NEW m, IsMetrics(m), m.tool \in BOOLEAN, m.inputJson \in BOOLEAN,
         NEW e, ~Unreadable(Meant(e))
  PROVE  InStep(m, e, Absorbed(m, Meant(e)))
<1> DEFINE o == Object(e)
    d == DtypeOf(Meant(e))
    typed == [m EXCEPT !.heard = TRUE, !.types = Append(@, d)]
    next == Absorbed(m, Meant(e))
<1>1. Decoded(Meant(e).data) = o
  BY DEF Meant, Object
<1>2. o.shape \in {"object", "text"}
  BY <1>1 DEF Unreadable
<1>3. next = CASE o.shape = "text" -> [m EXCEPT !.heard = TRUE]
       [] o.shape = "object" /\ d = "message_start" ->
            [typed EXCEPT !.model = o.model, !.usage = Updated(@, o.usage)]
       [] o.shape = "object" /\ d = "content_block_start" ->
            [typed EXCEPT !.tool = @ \/ o.kind = "tool_use"]
       [] o.shape = "object" /\ d = "content_block_delta" ->
            [typed EXCEPT
               !.text = IF o.kind = "text_delta" /\ o.text # ""
                          THEN Append(@, o.text) ELSE @,
               !.inputJson = @ \/ o.kind = "input_json_delta"]
       [] o.shape = "object" /\ d = "message_delta" ->
            [typed EXCEPT !.usage = Updated(@, o.usage)]
       [] OTHER -> typed
  BY <1>1 DEF Absorbed
<1>4. \A dtype : Is(e, dtype) <=> o.shape = "object" /\ d = dtype
  BY DEF Is
<1>5. Saying(m.text, e) = IF Is(e, "content_block_delta") /\ o.kind = "text_delta" /\ o.text # ""
                            THEN Append(m.text, o.text) ELSE m.text
  BY DEF Saying, IsText
<1>6. /\ StartsTool(e) = (Is(e, "content_block_start") /\ o.kind = "tool_use")
      /\ FillsTool(e) = (Is(e, "content_block_delta") /\ o.kind = "input_json_delta")
      /\ SaysUsage(e) = (Is(e, "message_start") \/ Is(e, "message_delta"))
      /\ IsSpoken(e) = (o.shape = "object")
  BY DEF StartsTool, FillsTool, SaysUsage, IsSpoken
<1> HIDE DEF o, d, next
<1>7. CASE o.shape = "text"
  <2>1. next = [m EXCEPT !.heard = TRUE]
    BY <1>3, <1>7
  <2>2. \A dtype : ~Is(e, dtype)
    BY <1>4, <1>7
  <2>3. ~StartsTool(e) /\ ~FillsTool(e) /\ ~SaysUsage(e) /\ ~IsSpoken(e)
    BY <1>6, <1>7, <2>2
  <2>4. Saying(m.text, e) = m.text
    BY <1>5, <2>2
  <2>5. InStep(m, e, next)
    BY <2>1, <2>2, <2>3, <2>4 DEF InStep, IsMetrics
  <2> QED BY <2>5 DEF next
<1>8. CASE o.shape = "object"
  <2>0. typed = [http |-> m.http, error |-> m.error, heard |-> TRUE, types |-> Append(m.types, d),
       text |-> m.text, tool |-> m.tool, inputJson |-> m.inputJson, usage |-> m.usage,
       model |-> m.model]
    <3> DEFINE r == [http |-> m.http, error |-> m.error, heard |-> m.heard, types |-> m.types,
       text |-> m.text, tool |-> m.tool, inputJson |-> m.inputJson, usage |-> m.usage,
       model |-> m.model]
    <3>1. m = r
      BY DEF IsMetrics
    <3>2. typed = [m EXCEPT !.heard = TRUE, !.types = Append(m.types, d)]
      OBVIOUS
    <3>3. typed = [r EXCEPT !.heard = TRUE, !.types = Append(m.types, d)]
      BY <3>1, <3>2, Zenon
    <3> HIDE DEF typed
    <3> QED BY ONLY <3>3
  <2>1. \A dtype : Is(e, dtype) <=> d = dtype
    BY <1>4, <1>8
  <2>2. IsSpoken(e)
    BY <1>6, <1>8
  <2> HIDE DEF typed
  <2>3. CASE d = "message_start"
    <3>1. next = [typed EXCEPT !.model = o.model, !.usage = Updated(@, o.usage)]
      BY <1>3, <1>8, <2>3
    <3>2. /\ Is(e, "message_start") /\ ~Is(e, "content_block_start")
          /\ ~Is(e, "content_block_delta")
      BY <2>1, <2>3
    <3>3. ~StartsTool(e) /\ ~FillsTool(e) /\ SaysUsage(e) /\ Saying(m.text, e) = m.text
      BY <1>5, <1>6, <3>2
    <3>4. next = [http |-> m.http, error |-> m.error, heard |-> TRUE,
         types |-> Append(m.types, d), text |-> m.text, tool |-> m.tool,
         inputJson |-> m.inputJson, usage |-> Updated(m.usage, o.usage), model |-> o.model]
      BY <2>0, <3>1
    <3> QED BY <2>2, <3>2, <3>3, <3>4 DEF InStep, IsMetrics, next, d, o
  <2>4. CASE d = "content_block_start"
    <3>1. next = [typed EXCEPT !.tool = @ \/ o.kind = "tool_use"]
      BY <1>3, <1>8, <2>4
    <3>2. /\ ~Is(e, "message_start") /\ Is(e, "content_block_start")
          /\ ~Is(e, "content_block_delta") /\ ~Is(e, "message_delta")
      BY <2>1, <2>4
    <3>3. /\ StartsTool(e) = (o.kind = "tool_use")
          /\ ~FillsTool(e) /\ ~SaysUsage(e) /\ Saying(m.text, e) = m.text
      BY <1>5, <1>6, <3>2
    <3> QED BY <2>0, <2>2, <3>1, <3>2, <3>3 DEF InStep, IsMetrics, next, d
  <2>5. CASE d = "content_block_delta"
    <3>1. next = [typed EXCEPT
               !.text = IF o.kind = "text_delta" /\ o.text # ""
                          THEN Append(@, o.text) ELSE @,
               !.inputJson = @ \/ o.kind = "input_json_delta"]
      BY <1>3, <1>8, <2>5
    <3>2. /\ ~Is(e, "message_start") /\ ~Is(e, "content_block_start")
          /\ Is(e, "content_block_delta") /\ ~Is(e, "message_delta")
      BY <2>1, <2>5
    <3>3. /\ FillsTool(e) = (o.kind = "input_json_delta")
          /\ ~StartsTool(e) /\ ~SaysUsage(e)
          /\ Saying(m.text, e) = IF o.kind = "text_delta" /\ o.text # ""
                            THEN Append(m.text, o.text) ELSE m.text
      BY <1>5, <1>6, <3>2
    <3> QED BY <2>0, <2>2, <3>1, <3>2, <3>3 DEF InStep, IsMetrics, next, d
  <2>6. CASE d = "message_delta"
    <3>1. next = [typed EXCEPT !.usage = Updated(@, o.usage)]
      BY <1>3, <1>8, <2>6
    <3>2. /\ ~Is(e, "message_start") /\ ~Is(e, "content_block_start")
          /\ ~Is(e, "content_block_delta") /\ Is(e, "message_delta")
      BY <2>1, <2>6
    <3>3. ~StartsTool(e) /\ ~FillsTool(e) /\ SaysUsage(e) /\ Saying(m.text, e) = m.text
      BY <1>5, <1>6, <3>2
    <3>4. next = [http |-> m.http, error |-> m.error, heard |-> TRUE,
         types |-> Append(m.types, d), text |-> m.text, tool |-> m.tool,
         inputJson |-> m.inputJson, usage |-> Updated(m.usage, o.usage), model |-> m.model]
      BY <2>0, <3>1
    <3> QED BY <2>2, <3>2, <3>3, <3>4 DEF InStep, IsMetrics, next, d, o
  <2>7. CASE d \notin {"message_start", "content_block_start", "content_block_delta",
                       "message_delta"}
    <3>1. next = typed
      BY <1>3, <1>8, <2>7
    <3>2. /\ ~Is(e, "message_start") /\ ~Is(e, "content_block_start")
          /\ ~Is(e, "content_block_delta") /\ ~Is(e, "message_delta")
      BY <2>1, <2>7
    <3>3. ~StartsTool(e) /\ ~FillsTool(e) /\ ~SaysUsage(e) /\ Saying(m.text, e) = m.text
      BY <1>5, <1>6, <3>2
    <3> QED BY <2>0, <2>2, <3>1, <3>2, <3>3 DEF InStep, IsMetrics, next, d
  <2> QED BY <2>3, <2>4, <2>5, <2>6, <2>7
<1> QED BY <1>2, <1>7, <1>8

-----------------------------------------------------------------------------
(* What metrics tell of the events                                         *)

\* The types the metrics list are those of the objects among the events, in their order.
PlacedBy(place, types, events) ==
  /\ \A k \in 1 .. Len(types) : place[k] \in 1 .. Len(events) /\ Is(events[place[k]], types[k])
  /\ \A j, k \in 1 .. Len(types) : j < k => place[j] < place[k]
  /\ \A i \in 1 .. Len(events) :
       IsSpoken(events[i]) => \E k \in 1 .. Len(types) : place[k] = i
Placed(types, events) == \E place : PlacedBy(place, types, events)

\* One more object is one more type, at the end of the list.
LEMMA PlacedNext ==
  ASSUME NEW E, NEW events \in Seq(E), NEW e \in E,
         NEW T, NEW types \in Seq(T), Placed(types, events)
  PROVE  Placed(IF IsSpoken(e) THEN Append(types, DtypeOf(Meant(e))) ELSE types,
                Append(events, e))
<1> DEFINE more == Append(events, e)
    n == Len(events)
    t == Len(types)
    d == DtypeOf(Meant(e))
<1>1. /\ n \in Nat /\ Len(more) = n + 1 /\ more[n + 1] = e
      /\ \A i \in 1 .. n : more[i] = events[i]
  BY Appended
<1>2. PICK place : PlacedBy(place, types, events)
  BY DEF Placed
<1>3. /\ t \in Nat
      /\ \A k \in 1 .. t : place[k] \in 1 .. n /\ Is(events[place[k]], types[k])
      /\ \A j, k \in 1 .. t : j < k => place[j] < place[k]
      /\ \A i \in 1 .. n : IsSpoken(events[i]) => \E k \in 1 .. t : place[k] = i
  BY <1>2 DEF PlacedBy
<1>4. Is(e, d) <=> IsSpoken(e)
  BY DEF Is, IsSpoken
<1>5. \A i \in 1 .. n + 1 : i \in 1 .. n \/ i = n + 1
  BY <1>1
<1>6. 1 .. n \subseteq 1 .. n + 1
  BY <1>1
<1>7. CASE ~IsSpoken(e)
  <2> HIDE DEF more, n, t
  <2>1. \A k \in 1 .. t : place[k] \in 1 .. n + 1 /\ Is(more[place[k]], types[k])
    BY <1>1, <1>3, <1>6
  <2>2. \A i \in 1 .. n + 1 : IsSpoken(more[i]) => \E k \in 1 .. t : place[k] = i
    BY <1>1, <1>3, <1>5, <1>7
  <2>3. PlacedBy(place, types, more)
    BY <1>1, <1>3, <2>1, <2>2 DEF PlacedBy, t
  <2>4. Placed(types, more)
    BY <2>3 DEF Placed
  <2> QED BY <2>4, <1>7 DEF more
<1>8. CASE IsSpoken(e)
  <2> DEFINE longer == Append(types, d)
      at == [k \in 1 .. t + 1 |-> IF k = t + 1 THEN n + 1 ELSE place[k]]
  <2>1. types \in Seq(T \cup {d}) /\ d \in T \cup {d}
    OBVIOUS
  <2>2. /\ Len(longer) = t + 1 /\ longer[t + 1] = d
        /\ \A k \in 1 .. t : longer[k] = types[k]
    BY <2>1, Appended
  <2> HIDE DEF more, n, t, longer, d
  <2>3. at[t + 1] = n + 1 /\ \A k \in 1 .. t : at[k] = place[k]
    <3>1. t + 1 \in 1 .. t + 1 /\ \A k \in 1 .. t : k \in 1 .. t + 1 /\ k # t + 1
      BY <1>3
    <3> QED BY <3>1
  <2>4. \A k \in 1 .. t + 1 : k \in 1 .. t \/ k = t + 1
    BY <1>3
  <2> HIDE DEF at
  <2>5. ASSUME NEW k \in 1 .. t + 1 PROVE at[k] \in 1 .. n + 1 /\ Is(more[at[k]], longer[k])
    <3>1. CASE k \in 1 .. t
      <4>1. at[k] = place[k] /\ place[k] \in 1 .. n /\ longer[k] = types[k]
        BY <3>1, <2>2, <2>3, <1>3
      <4>2. more[at[k]] = events[place[k]] /\ Is(events[place[k]], types[k])
        BY <4>1, <3>1, <1>1, <1>3
      <4> QED BY <4>1, <4>2, <1>6
    <3>2. CASE k = t + 1
      <4>1. at[k] = n + 1 /\ longer[k] = d /\ more[at[k]] = e
        BY <3>2, <2>2, <2>3, <1>1
      <4>2. n + 1 \in 1 .. n + 1
        BY <1>1
      <4> QED BY <4>1, <4>2, <1>4, <1>8
    <3> QED BY <3>1, <3>2, <2>4
  <2>6. ASSUME NEW j \in 1 .. t + 1, NEW k \in 1 .. t + 1, j < k PROVE at[j] < at[k]
    <3>1. j \in 1 .. t
      BY <1>3, <2>6
    <3>2. at[j] = place[j] /\ place[j] \in 1 .. n
      BY <3>1, <2>3, <1>3
    <3>3. CASE k \in 1 .. t
      BY <3>1, <3>2, <3>3, <2>3, <2>6, <1>3
    <3>4. CASE k = t + 1
      <4>1. at[k] = n + 1
        BY <3>4, <2>3
      <4> QED BY <4>1, <3>2, <1>1
    <3> QED BY <3>3, <3>4, <2>4
  <2>7. ASSUME NEW i \in 1 .. n + 1, IsSpoken(more[i]) PROVE \E k \in 1 .. t + 1 : at[k] = i
    <3>1. CASE i \in 1 .. n
      <4>1. PICK k \in 1 .. t : place[k] = i
        BY <3>1, <2>7, <1>1, <1>3
      <4>2. at[k] = i /\ k \in 1 .. t + 1
        BY <4>1, <2>3, <1>3
      <4> QED BY <4>2
    <3>2. CASE i = n + 1
      <4>1. t + 1 \in 1 .. t + 1
        BY <1>3
      <4> QED BY <4>1, <3>2, <2>3
    <3> QED BY <3>1, <3>2, <1>5
  <2>8. PlacedBy(at, longer, more)
    BY <1>1, <2>2, <2>5, <2>6, <2>7 DEF PlacedBy
  <2>9. Placed(longer, more)
    BY <2>8 DEF Placed
  <2> QED BY <2>9, <1>8 DEF more, longer, d
<1> QED BY <1>7, <1>8

-----------------------------------------------------------------------------
\* What the metrics say of an answer, told in terms of the events that came
Tells(m, events) ==
  /\ IsMetrics(m)
  /\ m.tool \in BOOLEAN /\ m.inputJson \in BOOLEAN
  /\ m.model = NamedLast(events)
  /\ m.text = TextSaid(events)
  /\ \E T : m.text \in Seq(T)
  /\ m.text # <<>> => m.heard = TRUE /\ \E i \in DOMAIN events : IsText(events[i])
  /\ \A f : f \in DOMAIN m.usage <=> \E i \in DOMAIN events : Counts(events[i], f)
  /\ \A f \in DOMAIN m.usage : m.usage[f] = CountSaid(events, f)
  /\ m.tool <=> \E i \in DOMAIN events : StartsTool(events[i])
  /\ m.inputJson <=> \E i \in DOMAIN events : FillsTool(events[i])
  /\ \E T : m.types \in Seq(T)
  /\ Placed(m.types, events)

\* Before the first event nothing was said.
LEMMA NothingSaid ==
  TextSaid(<<>>) = <<>> /\ NamedLast(<<>>) = "none"
<1>1. Len(<<>>) = 0 /\ DOMAIN <<>> = {}
  OBVIOUS
<1>2. TextSaid(<<>>) = <<>>
  <2>1. PICK h : TextSaid(<<>>) = h[Len(<<>>)] /\ h[0] = <<>>
    BY <1>1, SaidSteps
  <2> QED BY <1>1, <2>1
<1>3. NamedLast(<<>>) = "none"
  BY <1>1 DEF NamedLast, Places
<1> QED BY <1>2, <1>3

\* Metrics without anything in them tell of no event.
LEMMA TellsNothing ==
  ASSUME NEW m, IsMetrics(m), m.tool = FALSE, m.inputJson = FALSE, m.model = "none",
         m.text = <<>>, m.usage = <<>>, m.types = <<>>
  PROVE  Tells(m, <<>>)
<1>1. DOMAIN <<>> = {} /\ Len(<<>>) = 0 /\ <<>> \in Seq({})
  OBVIOUS
<1>2. PlacedBy(<<>>, <<>>, <<>>)
  BY <1>1 DEF PlacedBy
<1>3. Placed(m.types, <<>>)
  BY <1>2 DEF Placed
<1>4. m.model = NamedLast(<<>>) /\ m.text = TextSaid(<<>>)
  BY NothingSaid
<1>5. \E T : m.text \in Seq(T)
  BY <1>1
<1>6. \E T : m.types \in Seq(T)
  BY <1>1
<1> QED BY <1>1, <1>3, <1>4, <1>5, <1>6 DEF Tells

\* Metrics that tell of some events tell, after the next, of that one too.
LEMMA TellsNext ==
  ASSUME NEW E, NEW events \in Seq(E), NEW e \in E, NEW m, Tells(m, events),
         ~Unreadable(Meant(e))
  PROVE  Tells(Absorbed(m, Meant(e)), Append(events, e))
<1> DEFINE more == Append(events, e)
    next == Absorbed(m, Meant(e))
<1>1. InStep(m, e, next)
  BY AbsorbedInStep DEF Tells
<1> HIDE DEF next
<1>2. next.model = NamedLast(more)
  <2>1. next.model = IF Is(e, "message_start") THEN Object(e).model ELSE m.model
    BY <1>1 DEF InStep
  <2>2. m.model = NamedLast(events)
    BY DEF Tells
  <2> QED BY <2>1, <2>2, NamedNext
<1>3. next.text = TextSaid(more)
  <2>1. next.text = Saying(m.text, e) /\ m.text = TextSaid(events)
    BY <1>1 DEF InStep, Tells
  <2> QED BY <2>1, TextNext
<1>4. \E T : next.text \in Seq(T)
  <2>1. next.text = Saying(m.text, e)
    BY <1>1 DEF InStep
  <2>2. PICK T : m.text \in Seq(T)
    BY DEF Tells
  <2> DEFINE more2 == T \cup {Object(e).text}
  <2>3. m.text \in Seq(more2) /\ Object(e).text \in more2
    BY <2>2
  <2> HIDE DEF more2
  <2>4. Append(m.text, Object(e).text) \in Seq(more2)
    BY <2>3, Appended
  <2>5. Saying(m.text, e) \in Seq(more2)
    BY <2>3, <2>4 DEF Saying
  <2> QED BY <2>1, <2>5
<1>5. next.heard = TRUE
  BY <1>1 DEF InStep
<1>6. next.text # <<>> => \E i \in DOMAIN more : IsText(more[i])
  <2>1. next.text = Saying(m.text, e)
    BY <1>1 DEF InStep
  <2>2. m.text # <<>> => \E i \in DOMAIN events : IsText(events[i])
    BY DEF Tells
  <2>3. next.text # <<>> => m.text # <<>> \/ IsText(e)
    BY <2>1 DEF Saying
  <2> DEFINE S == {x \in E : IsText(x)}
  <2>4. (\E i \in DOMAIN more : more[i] \in S)
           <=> (\E i \in DOMAIN events : events[i] \in S) \/ e \in S
    <3> HIDE DEF S
    <3> QED BY SomeNext
  <2>5. \A i \in DOMAIN events : events[i] \in E
    OBVIOUS
  <2> QED BY <2>2, <2>3, <2>4, <2>5
<1>7. \A f : Counts(e, f) <=> SaysUsage(e) /\ f \in DOMAIN Object(e).usage
  BY DEF Counts, SaysUsage
<1>8. next.usage = IF SaysUsage(e) THEN Updated(m.usage, Object(e).usage) ELSE m.usage
  BY <1>1 DEF InStep
<1>9. \A f : f \in DOMAIN next.usage <=> f \in DOMAIN m.usage \/ Counts(e, f)
  BY <1>7, <1>8 DEF Updated
<1>10. ASSUME NEW f
       PROVE  f \in DOMAIN next.usage <=> \E i \in DOMAIN more : Counts(more[i], f)
  <2> DEFINE S == {x \in E : Counts(x, f)}
  <2>1. f \in DOMAIN m.usage <=> \E i \in DOMAIN events : Counts(events[i], f)
    BY DEF Tells
  <2>2. (\E i \in DOMAIN more : more[i] \in S)
           <=> (\E i \in DOMAIN events : events[i] \in S) \/ e \in S
    <3> HIDE DEF S
    <3> QED BY SomeNext
  <2>3. /\ \A i \in DOMAIN events : events[i] \in E
        /\ \A i \in DOMAIN more : more[i] \in E
    OBVIOUS
  <2>4. (\E i \in DOMAIN more : Counts(more[i], f))
           <=> (\E i \in DOMAIN events : Counts(events[i], f)) \/ Counts(e, f)
    <3> HIDE DEF more
    <3> QED BY <2>2, <2>3
  <2> QED BY <1>9, <2>1, <2>4
<1>11. ASSUME NEW f \in DOMAIN next.usage
       PROVE  next.usage[f] = CountSaid(more, f)
  <2>1. CASE Counts(e, f)
    <3>1. next.usage[f] = Object(e).usage[f]
      BY <1>7, <1>8, <2>1 DEF Updated
    <3> QED BY <3>1, <2>1, CountNext
  <2>2. CASE ~Counts(e, f)
    <3>1. f \in DOMAIN m.usage
      BY <1>9, <2>2
    <3>2. next.usage[f] = m.usage[f]
      BY <1>7, <1>8, <2>2, <3>1 DEF Updated
    <3>3. m.usage[f] = CountSaid(events, f)
      BY <3>1 DEF Tells
    <3> QED BY <3>2, <3>3, <2>2, CountNext
  <2> QED BY <2>1, <2>2
<1>12. next.tool \in BOOLEAN /\ (next.tool <=> \E i \in DOMAIN more : StartsTool(more[i]))
  <2> DEFINE S == {x \in E : StartsTool(x)}
  <2>1. next.tool = (m.tool \/ StartsTool(e))
    BY <1>1 DEF InStep
  <2>2. m.tool \in BOOLEAN /\ (m.tool <=> \E i \in DOMAIN events : StartsTool(events[i]))
    BY DEF Tells
  <2>3. (\E i \in DOMAIN more : more[i] \in S)
           <=> (\E i \in DOMAIN events : events[i] \in S) \/ e \in S
    <3> HIDE DEF S
    <3> QED BY SomeNext
  <2>4. /\ \A i \in DOMAIN events : events[i] \in E
        /\ \A i \in DOMAIN more : more[i] \in E
    OBVIOUS
  <2>5. (\E i \in DOMAIN more : StartsTool(more[i]))
           <=> (\E i \in DOMAIN events : StartsTool(events[i])) \/ StartsTool(e)
    <3> HIDE DEF more
    <3> QED BY <2>3, <2>4
  <2> HIDE DEF more
  <2> QED BY <2>1, <2>2, <2>5
<1>13. next.inputJson \in BOOLEAN /\ (next.inputJson <=> \E i \in DOMAIN more : FillsTool(more[i]))
  <2> DEFINE S == {x \in E : FillsTool(x)}
  <2>1. next.inputJson = (m.inputJson \/ FillsTool(e))
    BY <1>1 DEF InStep
  <2>2. m.inputJson \in BOOLEAN /\ (m.inputJson <=> \E i \in DOMAIN events : FillsTool(events[i]))
    BY DEF Tells
  <2>3. (\E i \in DOMAIN more : more[i] \in S)
           <=> (\E i \in DOMAIN events : events[i] \in S) \/ e \in S
    <3> HIDE DEF S
    <3> QED BY SomeNext
  <2>4. /\ \A i \in DOMAIN events : events[i] \in E
        /\ \A i \in DOMAIN more : more[i] \in E
    OBVIOUS
  <2>5. (\E i \in DOMAIN more : FillsTool(more[i]))
           <=> (\E i \in DOMAIN events : FillsTool(events[i])) \/ FillsTool(e)
    <3> HIDE DEF more
    <3> QED BY <2>3, <2>4
  <2> HIDE DEF more
  <2> QED BY <2>1, <2>2, <2>5
<1>14. next.types = IF IsSpoken(e) THEN Append(m.types, DtypeOf(Meant(e))) ELSE m.types
  BY <1>1 DEF InStep
<1>15. PICK T : m.types \in Seq(T)
  BY DEF Tells
<1>16. \E U : next.types \in Seq(U)
  <2> DEFINE U == T \cup {DtypeOf(Meant(e))}
  <2>1. m.types \in Seq(U) /\ DtypeOf(Meant(e)) \in U
    BY <1>15
  <2> HIDE DEF U
  <2>2. Append(m.types, DtypeOf(Meant(e))) \in Seq(U)
    BY <2>1, Appended
  <2> QED BY <1>14, <2>1, <2>2
<1>17. Placed(next.types, more)
  <2>1. Placed(m.types, events)
    BY DEF Tells
  <2> QED BY <2>1, <1>14, <1>15, PlacedNext
<1>18. IsMetrics(next)
  BY <1>1 DEF InStep
<1> HIDE DEF more
<1>19. Tells(next, more)
  BY <1>2, <1>3, <1>4, <1>5, <1>6, <1>10, <1>11, <1>12, <1>13, <1>16, <1>17, <1>18 DEF Tells
<1> QED BY <1>19 DEF next, more

-----------------------------------------------------------------------------
(* What the checks of a category find                                      *)

\* Nothing was found that is less than a pass.
Clean(checks) == \A pair \in checks : pair[2] \notin {"FAIL", "WARN"}

\* A case passes when nothing was found, and fails when a failure was.
LEMMA PassIsClean ==
  ASSUME NEW checks
  PROVE  /\ StatusOf(checks) = "PASS" <=> Clean(checks)
         /\ (\E pair \in checks : pair[2] = "FAIL") => StatusOf(checks) = "FAIL"
<1> DEFINE grades == {pair[2] : pair \in checks}
<1>1. StatusOf(checks) = Worst(grades)
  BY DEF StatusOf
<1>2. \A g : g \in grades <=> \E pair \in checks : pair[2] = g
  OBVIOUS
<1> HIDE DEF grades
<1>3. Worst(grades) = "PASS" <=> "FAIL" \notin grades /\ "WARN" \notin grades
  BY DEF Worst
<1>4. "FAIL" \in grades => Worst(grades) = "FAIL"
  BY DEF Worst
<1> QED BY <1>1, <1>2, <1>3, <1>4 DEF Clean

\* Parts of a clean set are clean,
LEMMA CleanOf ==
  ASSUME NEW A, NEW B, Clean(A \cup B)
  PROVE  Clean(A) /\ Clean(B)
BY DEF Clean

\* and so are two clean sets together.
LEMMA CleanBoth ==
  ASSUME NEW A, NEW B, Clean(A), Clean(B)
  PROVE  Clean(A \cup B)
BY DEF Clean

\* What it takes for each group of checks to find nothing
LEMMA CommonClean ==
  ASSUME NEW m, NEW needed \in BOOLEAN
  PROVE  Clean(CommonChecks(m, needed)) <=>
           m.http = 200 /\ (needed => m.text # <<>>) /\ m.model = Requested
<1> DEFINE a == <<"http_status", Graded(m.http = 200, "FAIL")>>
    b == <<"displayable_text", Graded(~needed \/ m.text # <<>>, "FAIL")>>
    c == <<"model_identity", ModelIdentity(m)>>
<1>1. CommonChecks(m, needed) = {a, b, c}
  BY DEF CommonChecks
<1>2. /\ a[2] = Graded(m.http = 200, "FAIL") /\ b[2] = Graded(~needed \/ m.text # <<>>, "FAIL")
      /\ c[2] = ModelIdentity(m)
  OBVIOUS
<1> HIDE DEF a, b, c
<1>3. Clean({a, b, c}) <=> /\ a[2] \notin {"FAIL", "WARN"}
                           /\ b[2] \notin {"FAIL", "WARN"}
                           /\ c[2] \notin {"FAIL", "WARN"}
  BY DEF Clean
<1>4. ModelIdentity(m) \notin {"FAIL", "WARN"} <=> m.model = Requested
  BY RequestedAssumption DEF ModelIdentity
<1>5. Graded(m.http = 200, "FAIL") \notin {"FAIL", "WARN"} <=> m.http = 200
  BY DEF Graded
<1>6. Graded(~needed \/ m.text # <<>>, "FAIL") \notin {"FAIL", "WARN"} <=> ~needed \/ m.text # <<>>
  BY DEF Graded
<1> QED BY <1>1, <1>2, <1>3, <1>4, <1>5, <1>6

\* The marker
LEMMA SubstringClean ==
  ASSUME NEW m
  PROVE  Clean(SubstringChecks(m)) <=> Occurs(Marker, m.text)
<1> DEFINE a == <<"expected_substring", Graded(Occurs(Marker, m.text), "WARN")>>
<1>1. SubstringChecks(m) = {a} /\ a[2] = Graded(Occurs(Marker, m.text), "WARN")
  BY DEF SubstringChecks
<1> HIDE DEF a
<1>2. Clean({a}) <=> a[2] \notin {"FAIL", "WARN"}
  BY DEF Clean
<1>3. Graded(Occurs(Marker, m.text), "WARN") \notin {"FAIL", "WARN"} <=> Occurs(Marker, m.text)
  BY DEF Graded
<1> QED BY <1>1, <1>2, <1>3

\* The counts
LEMMA UsageClean ==
  ASSUME NEW m, NEW second
  PROVE  Clean(UsageChecks(m, second)) <=>
           /\ {"input", "output"} \subseteq DOMAIN m.usage
           /\ CacheFields \subseteq DOMAIN m.usage
           /\ \A other \in second :
                /\ Comparable(m.usage) /\ Comparable(other.usage)
                /\ TotalInput(other.usage) > TotalInput(m.usage)
<1> DEFINE a == <<"usage_required_fields",
                  Graded({"input", "output"} \subseteq DOMAIN m.usage, "FAIL")>>
    b == <<"usage_cache_fields", Graded(CacheFields \subseteq DOMAIN m.usage, "WARN")>>
    Grows(other) == /\ Comparable(m.usage) /\ Comparable(other.usage)
                    /\ TotalInput(other.usage) > TotalInput(m.usage)
    c(other) == <<"usage_prompt_scale", Graded(Grows(other), "FAIL")>>
<1>1. UsageChecks(m, second) = {a, b} \cup {c(other) : other \in second}
  BY DEF UsageChecks
<1>2. /\ a[2] = Graded({"input", "output"} \subseteq DOMAIN m.usage, "FAIL")
      /\ b[2] = Graded(CacheFields \subseteq DOMAIN m.usage, "WARN")
      /\ \A other : c(other)[2] = Graded(Grows(other), "FAIL")
  OBVIOUS
<1> HIDE DEF a, b, c
<1>3. Clean(UsageChecks(m, second)) <=>
        /\ a[2] \notin {"FAIL", "WARN"} /\ b[2] \notin {"FAIL", "WARN"}
        /\ \A other \in second : c(other)[2] \notin {"FAIL", "WARN"}
  BY <1>1 DEF Clean
<1>4. a[2] \notin {"FAIL", "WARN"} <=> {"input", "output"} \subseteq DOMAIN m.usage
  BY <1>2 DEF Graded
<1>5. b[2] \notin {"FAIL", "WARN"} <=> CacheFields \subseteq DOMAIN m.usage
  BY <1>2 DEF Graded
<1>6. \A other : c(other)[2] \notin {"FAIL", "WARN"} <=> Grows(other)
  <2> SUFFICES ASSUME NEW other PROVE c(other)[2] \notin {"FAIL", "WARN"} <=> Grows(other)
    OBVIOUS
  <2>1. c(other)[2] = Graded(Grows(other), "FAIL")
    BY <1>2
  <2> HIDE DEF Grows
  <2> QED BY <2>1 DEF Graded
<1> QED BY <1>3, <1>4, <1>5, <1>6

\* The events and their order
LEMMA SseClean ==
  ASSUME NEW m
  PROVE  Clean(SseChecks(m)) <=>
           /\ SseRequired \subseteq ToSet(m.types) /\ SseOrdered(m.types)
           /\ m.heard /\ m.text # <<>>
<1> DEFINE a == <<"sse_required_events", Graded(SseRequired \subseteq ToSet(m.types), "FAIL")>>
    b == <<"sse_event_order", Graded(SseOrdered(m.types), "FAIL")>>
    c == <<"sse_latency", Graded(m.heard /\ m.text # <<>>, "FAIL")>>
<1>1. SseChecks(m) = {a, b, c}
  BY DEF SseChecks
<1>2. /\ a[2] = Graded(SseRequired \subseteq ToSet(m.types), "FAIL")
      /\ b[2] = Graded(SseOrdered(m.types), "FAIL")
      /\ c[2] = Graded(m.heard /\ m.text # <<>>, "FAIL")
  OBVIOUS
<1> HIDE DEF a, b, c
<1>3. Clean({a, b, c}) <=> /\ a[2] \notin {"FAIL", "WARN"}
                           /\ b[2] \notin {"FAIL", "WARN"}
                           /\ c[2] \notin {"FAIL", "WARN"}
  BY DEF Clean
<1>4. a[2] \notin {"FAIL", "WARN"} <=> SseRequired \subseteq ToSet(m.types)
  BY <1>2 DEF Graded
<1>5. b[2] \notin {"FAIL", "WARN"} <=> SseOrdered(m.types)
  BY <1>2 DEF Graded
<1>6. c[2] \notin {"FAIL", "WARN"} <=> m.heard /\ m.text # <<>>
  BY <1>2 DEF Graded
<1> QED BY <1>1, <1>3, <1>4, <1>5, <1>6

\* The JSON object
LEMMA JsonClean ==
  ASSUME NEW m
  PROVE  Clean(JsonChecks(m)) <=> m.text = Json
<1> DEFINE a == <<"json_no_markdown", Graded(~Fenced(m.text), "FAIL")>>
    b == <<"json_parse", Graded(Parses(m.text), "FAIL")>>
    c == <<"json_schema", Graded(m.text = Json, "FAIL")>>
<1>1. JsonChecks(m) = {a, b} \cup (IF Parses(m.text) THEN {c} ELSE {})
  BY DEF JsonChecks
<1>2. /\ a[2] = Graded(~Fenced(m.text), "FAIL") /\ b[2] = Graded(Parses(m.text), "FAIL")
      /\ c[2] = Graded(m.text = Json, "FAIL")
  OBVIOUS
<1> HIDE DEF a, b, c
<1>3. Clean(JsonChecks(m)) <=>
        /\ a[2] \notin {"FAIL", "WARN"} /\ b[2] \notin {"FAIL", "WARN"}
        /\ Parses(m.text) => c[2] \notin {"FAIL", "WARN"}
  BY <1>1 DEF Clean
<1>4. a[2] \notin {"FAIL", "WARN"} <=> ~Fenced(m.text)
  BY <1>2 DEF Graded
<1>5. b[2] \notin {"FAIL", "WARN"} <=> Parses(m.text)
  BY <1>2 DEF Graded
<1>6. c[2] \notin {"FAIL", "WARN"} <=> m.text = Json
  BY <1>2 DEF Graded
<1>7. m.text = Json => Parses(m.text) /\ ~Fenced(m.text)
  BY JsonAssumption DEF Parses
<1> QED BY <1>3, <1>4, <1>5, <1>6, <1>7

\* The counts of the cache
LEMMA CacheClean ==
  ASSUME NEW case, NEW m, NEW second
  PROVE  Clean(CacheChecks(case, m, second)) <=>
           case.cached /\ Reported(m.usage) /\ \A other \in second : Reported(other.usage)
<1> DEFINE a == <<"cache_control_sent", Graded(case.cached, "FAIL")>>
    b == <<"cache_usage_observed", Graded(Reported(m.usage), "WARN")>>
    c(other) == <<"cache_repeat_usage_observed", Graded(Reported(other.usage), "WARN")>>
<1>1. CacheChecks(case, m, second) = {a, b} \cup {c(other) : other \in second}
  BY DEF CacheChecks
<1>2. /\ a[2] = Graded(case.cached, "FAIL") /\ b[2] = Graded(Reported(m.usage), "WARN")
      /\ \A other : c(other)[2] = Graded(Reported(other.usage), "WARN")
  OBVIOUS
<1> HIDE DEF a, b, c
<1>3. Clean(CacheChecks(case, m, second)) <=>
        /\ a[2] \notin {"FAIL", "WARN"} /\ b[2] \notin {"FAIL", "WARN"}
        /\ \A other \in second : c(other)[2] \notin {"FAIL", "WARN"}
  BY <1>1 DEF Clean
<1>4. a[2] \notin {"FAIL", "WARN"} <=> case.cached
  BY <1>2 DEF Graded
<1>5. b[2] \notin {"FAIL", "WARN"} <=> Reported(m.usage)
  BY <1>2 DEF Graded
<1>6. \A other : c(other)[2] \notin {"FAIL", "WARN"} <=> Reported(other.usage)
  BY <1>2 DEF Graded
<1> QED BY <1>3, <1>4, <1>5, <1>6

\* The call of a tool
LEMMA ToolClean ==
  ASSUME NEW m
  PROVE  Clean(ToolChecks(m)) <=> m.tool /\ m.inputJson
<1> DEFINE a == <<"tool_use_event", Graded(m.tool, "FAIL")>>
    b == <<"tool_input_delta", Graded(m.inputJson, "WARN")>>
<1>1. ToolChecks(m) = {a, b}
  BY DEF ToolChecks
<1>2. a[2] = Graded(m.tool, "FAIL") /\ b[2] = Graded(m.inputJson, "WARN")
  OBVIOUS
<1> HIDE DEF a, b
<1>3. Clean({a, b}) <=> a[2] \notin {"FAIL", "WARN"} /\ b[2] \notin {"FAIL", "WARN"}
  BY DEF Clean
<1>4. a[2] \notin {"FAIL", "WARN"} <=> m.tool
  BY <1>2 DEF Graded
<1>5. b[2] \notin {"FAIL", "WARN"} <=> m.inputJson
  BY <1>2 DEF Graded
<1> QED BY <1>1, <1>3, <1>4, <1>5

-----------------------------------------------------------------------------
(* The order of a conversation                                             *)

\* What is first in its list
LEMMA FirstPlace ==
  ASSUME NEW T, NEW types \in Seq(T), NEW dtype, Holds(types, dtype)
  PROVE  /\ FirstOf(types, dtype) \in 1 .. Len(types)
         /\ types[FirstOf(types, dtype)] = dtype
<1> DEFINE U == {i \in DOMAIN types : types[i] = dtype}
<1>1. U \subseteq Nat /\ \A i \in U : i \in 1 .. Len(types) /\ types[i] = dtype
  OBVIOUS
<1>2. U # {}
  BY DEF Holds, ToSet
<1>3. Min(U) \in U
  BY <1>1, <1>2, LeastOf
<1>4. FirstOf(types, dtype) = Min(U)
  BY DEF FirstOf
<1> HIDE DEF U
<1> QED BY <1>1, <1>3, <1>4

\* A type the metrics list is that of an event.
LEMMA ListedWasSaid ==
  ASSUME NEW E, NEW events \in Seq(E), NEW T, NEW types \in Seq(T), Placed(types, events),
         NEW dtype, Holds(types, dtype)
  PROVE  \E i \in DOMAIN events : Is(events[i], dtype)
<1>1. PICK place : PlacedBy(place, types, events)
  BY DEF Placed
<1>2. PICK k \in 1 .. Len(types) : types[k] = dtype
  BY DEF Holds, ToSet
<1>3. place[k] \in 1 .. Len(events) /\ Is(events[place[k]], dtype)
  BY <1>1, <1>2 DEF PlacedBy
<1>4. DOMAIN events = 1 .. Len(events)
  OBVIOUS
<1> QED BY <1>3, <1>4

\* The type of an event that is an object is listed.
LEMMA SaidIsListed ==
  ASSUME NEW E, NEW events \in Seq(E), NEW T, NEW types \in Seq(T), Placed(types, events),
         NEW dtype, NEW i \in DOMAIN events, Is(events[i], dtype)
  PROVE  Holds(types, dtype)
<1>1. PICK place : PlacedBy(place, types, events)
  BY DEF Placed
<1>2. i \in 1 .. Len(events) /\ IsSpoken(events[i])
  BY DEF Is, IsSpoken
<1>3. PICK k \in 1 .. Len(types) : place[k] = i
  BY <1>1, <1>2 DEF PlacedBy
<1>4. Is(events[i], types[k])
  BY <1>1, <1>3 DEF PlacedBy
<1>5. types[k] = dtype
  BY <1>4 DEF Is
<1>6. k \in DOMAIN types
  OBVIOUS
<1> QED BY <1>5, <1>6 DEF Holds, ToSet

\* If the types come in order in the list, the events did.
LEMMA OrderListedWasSpoken ==
  ASSUME NEW E, NEW events \in Seq(E), NEW T, NEW types \in Seq(T), Placed(types, events),
         SseOrdered(types)
  PROVE  SpeaksInOrder(events)
<1> DEFINE a == FirstOf(types, "message_start")
    b == FirstOf(types, "content_block_delta")
    c == FirstOf(types, "message_stop")
    t == Len(types)
<1>1. PICK place : PlacedBy(place, types, events)
  BY DEF Placed
<1>2. /\ Holds(types, "message_start") /\ Holds(types, "content_block_delta")
      /\ Holds(types, "message_stop") /\ a < b /\ b < c
  BY DEF SseOrdered
<1>3. a \in 1 .. t /\ types[a] = "message_start"
  BY <1>2, FirstPlace
<1>4. b \in 1 .. t /\ types[b] = "content_block_delta"
  BY <1>2, FirstPlace
<1>5. c \in 1 .. t /\ types[c] = "message_stop"
  BY <1>2, FirstPlace
<1> HIDE DEF a, b, c
<1>6. place[a] < place[b] /\ place[b] < place[c]
  BY <1>1, <1>2, <1>3, <1>4, <1>5 DEF PlacedBy
<1>7. place[a] \in 1 .. Len(events) /\ Is(events[place[a]], "message_start")
  BY <1>1, <1>3 DEF PlacedBy
<1>8. place[b] \in 1 .. Len(events) /\ Is(events[place[b]], "content_block_delta")
  BY <1>1, <1>4 DEF PlacedBy
<1>9. place[c] \in 1 .. Len(events) /\ Is(events[place[c]], "message_stop")
  BY <1>1, <1>5 DEF PlacedBy
<1>10. DOMAIN events = 1 .. Len(events)
  OBVIOUS
<1> QED BY <1>6, <1>7, <1>8, <1>9, <1>10 DEF SpeaksInOrder

\* In a conversation as the protocol has it the types come in the order of the events.
LEMMA OrderSpokenIsListed ==
  ASSUME NEW E, NEW events \in Seq(E), NEW T, NEW types \in Seq(T), Placed(types, events),
         WellFormed(events), SpeaksInOrder(events)
  PROVE  SseOrdered(types)
<1> DEFINE a == FirstOf(types, "message_start")
    b == FirstOf(types, "content_block_delta")
    c == FirstOf(types, "message_stop")
    t == Len(types)
    n == Len(events)
    talk == {i \in DOMAIN events : DtypeOf(Meant(events[i])) \notin {"ping", "message"}}
<1>1. PICK place : PlacedBy(place, types, events)
  BY DEF Placed
<1>2. PICK i \in DOMAIN events, j \in DOMAIN events, k \in DOMAIN events :
        /\ Is(events[i], "message_start") /\ Is(events[j], "content_block_delta")
        /\ Is(events[k], "message_stop")
  BY DEF SpeaksInOrder
<1>3. /\ Holds(types, "message_start") /\ Holds(types, "content_block_delta")
      /\ Holds(types, "message_stop")
  BY <1>2, SaidIsListed
<1>4. a \in 1 .. t /\ types[a] = "message_start"
  BY <1>3, FirstPlace
<1>5. b \in 1 .. t /\ types[b] = "content_block_delta"
  BY <1>3, FirstPlace
<1>6. c \in 1 .. t /\ types[c] = "message_stop"
  BY <1>3, FirstPlace
<1>7. n \in Nat /\ t \in Nat /\ DOMAIN events = 1 .. n /\ talk \subseteq 1 .. n
  OBVIOUS
<1>8. /\ talk # {}
      /\ Places(events, "message_start") = {Min(talk)}
      /\ Places(events, "message_stop") = {Max(talk)}
  BY DEF WellFormed
<1> HIDE DEF a, b, c, n, t
<1>9. /\ \A x \in talk : Min(talk) <= x /\ x <= Max(talk)
  <2> HIDE DEF talk
  <2>1. talk \subseteq Nat
    BY <1>7
  <2> QED BY <1>7, <1>8, <2>1, LeastOf, GreatestOf
<1>10. /\ place[a] \in 1 .. n /\ Is(events[place[a]], "message_start")
       /\ place[b] \in 1 .. n /\ Is(events[place[b]], "content_block_delta")
       /\ place[c] \in 1 .. n /\ Is(events[place[c]], "message_stop")
  BY <1>1, <1>4, <1>5, <1>6 DEF PlacedBy, n, t
<1>11. place[a] = Min(talk) /\ place[c] = Max(talk)
  <2> HIDE DEF talk
  <2> QED BY <1>7, <1>8, <1>10 DEF Places
<1>12. DtypeOf(Meant(events[place[b]])) = "content_block_delta"
  BY <1>10 DEF Is
<1>13. place[b] \in talk
  BY <1>7, <1>10, <1>12
<1>14. place[a] # place[b] /\ place[b] # place[c]
  <2>1. DtypeOf(Meant(events[place[a]])) = "message_start"
    BY <1>10 DEF Is
  <2>2. DtypeOf(Meant(events[place[c]])) = "message_stop"
    BY <1>10 DEF Is
  <2> QED BY <1>12, <2>1, <2>2
<1>15. place[a] < place[b] /\ place[b] < place[c]
  <2>1. place[a] <= place[b] /\ place[b] <= place[c]
    BY <1>9, <1>11, <1>13
  <2>2. place[a] \in Int /\ place[b] \in Int /\ place[c] \in Int
    BY <1>7, <1>10
  <2> QED BY ONLY <1>14, <2>1, <2>2
<1>16. \A x, y \in 1 .. t : x < y => place[x] < place[y]
  BY <1>1 DEF PlacedBy, t
<1>17. ASSUME NEW x \in 1 .. t, NEW y \in 1 .. t, place[x] \in 1 .. n, place[y] \in 1 .. n,
              place[x] < place[y]
       PROVE  x < y
  <2>1. x \in Int /\ y \in Int /\ place[x] \in Int /\ place[y] \in Int
    BY <1>7, <1>17
  <2>2. ~(y < x)
    <3> SUFFICES ASSUME y < x PROVE FALSE
      OBVIOUS
    <3>1. place[y] < place[x]
      BY <1>16
    <3> QED BY ONLY <3>1, <1>17, <2>1
  <2>3. x # y
    <3> SUFFICES ASSUME x = y PROVE FALSE
      OBVIOUS
    <3> QED BY <1>17, <2>1
  <2> QED BY ONLY <2>1, <2>2, <2>3
<1>18. a < b /\ b < c
  BY <1>4, <1>5, <1>6, <1>10, <1>15, <1>17
<1>19. \A dtype \in {"message_start", "content_block_delta", "message_stop"} : Holds(types, dtype)
  BY <1>3
<1> QED BY <1>18, <1>19 DEF SseOrdered, a, b, c

-----------------------------------------------------------------------------
\* What a category asks of the metrics, and of the events
LEMMA ChecksClean ==
  ASSUME NEW case, NEW m, NEW second, ~ForcedChoiceUnsupported(case, m)
  PROVE  LET clean == Clean(CaseChecks(case, m, second))
             common == Clean(CommonChecks(m, case.category # "tool_call"))
         IN /\ clean => common
            /\ case.category = "messages" => (clean <=> common /\ Clean(SubstringChecks(m)))
            /\ case.category = "usage" => (clean <=> common /\ Clean(UsageChecks(m, second)))
            /\ case.category = "sse" => (clean <=> common /\ Clean(SseChecks(m)))
            /\ case.category = "json" => (clean <=> common /\ Clean(JsonChecks(m)))
            /\ case.category = "cache" => (clean <=> common /\ Clean(CacheChecks(case, m, second)))
            /\ case.category = "tool_call" => (clean <=> common /\ Clean(ToolChecks(m)))
            /\ case.category \notin {"messages", "usage", "sse", "json", "cache", "tool_call"} =>
                 (clean <=> common)
<1> DEFINE common == CommonChecks(m, case.category # "tool_call")
    special == CASE case.category = "messages" -> SubstringChecks(m)
                 [] case.category = "usage" -> UsageChecks(m, second)
                 [] case.category = "sse" -> SseChecks(m)
                 [] case.category = "json" -> JsonChecks(m)
                 [] case.category = "cache" -> CacheChecks(case, m, second)
                 [] case.category = "tool_call" -> ToolChecks(m)
                 [] OTHER -> {}
<1>1. CaseChecks(case, m, second) = common \cup special
  BY DEF CaseChecks
<1>2. Clean({})
  BY DEF Clean
<1>3. /\ case.category = "messages" => special = SubstringChecks(m)
      /\ case.category = "usage" => special = UsageChecks(m, second)
      /\ case.category = "sse" => special = SseChecks(m)
      /\ case.category = "json" => special = JsonChecks(m)
      /\ case.category = "cache" => special = CacheChecks(case, m, second)
      /\ case.category = "tool_call" => special = ToolChecks(m)
      /\ case.category \notin {"messages", "usage", "sse", "json", "cache", "tool_call"} =>
           special = {}
  OBVIOUS
<1> HIDE DEF special
<1>4. Clean(common \cup special) <=> Clean(common) /\ Clean(special)
  <2> HIDE DEF common
  <2> QED BY CleanOf, CleanBoth
<1> QED BY <1>1, <1>2, <1>3, <1>4

\* What each category is there to see, spelled out
LEMMA DeliversMeans ==
  ASSUME NEW category, NEW replies
  PROVE  LET one == replies[1].events
             delivers == Delivers(category, replies)
         IN /\ category = "messages" => (delivers <=> Occurs(Marker, TextSaid(one)))
            /\ category = "json" => (delivers <=> TextSaid(one) = Json)
            /\ category = "sse" =>
                 (delivers <=>
                    /\ SpeaksInOrder(one)
                    /\ \E i \in DOMAIN one : IsText(one[i])
                    /\ \E i \in DOMAIN one : Is(one[i], "message_delta"))
            /\ category = "usage" =>
                 (delivers <=>
                    /\ \E i \in DOMAIN one : Counts(one[i], "input")
                    /\ \E i \in DOMAIN one : Counts(one[i], "output")
                    /\ \A i \in 2 .. Len(replies) : InputSaid(replies[i].events) > InputSaid(one))
            /\ category = "cache" =>
                 (delivers <=> \A i \in DOMAIN replies : SaysCache(replies[i].events))
            /\ category = "tool_call" =>
                 (delivers <=>
                    /\ \E i \in DOMAIN one : StartsTool(one[i])
                    /\ \E i \in DOMAIN one : FillsTool(one[i]))
            /\ category \notin {"messages", "usage", "sse", "json", "cache", "tool_call"} =>
                 delivers
<1>1. CASE category = "messages"
  BY <1>1 DEF Delivers
<1>2. CASE category = "json"
  BY <1>2 DEF Delivers
<1>3. CASE category = "sse"
  BY <1>3 DEF Delivers, Some
<1>4. CASE category = "usage"
  BY <1>4 DEF Delivers, Some
<1>5. CASE category = "cache"
  BY <1>5 DEF Delivers
<1>6. CASE category = "tool_call"
  BY <1>6 DEF Delivers, Some, StartsTool, FillsTool
<1>7. CASE category \notin {"messages", "usage", "sse", "json", "cache", "tool_call"}
  BY <1>7 DEF Delivers
<1> QED BY <1>1, <1>2, <1>3, <1>4, <1>5, <1>6, <1>7

-----------------------------------------------------------------------------
(* What a judgement rests on                                               *)

\* What was kept of a request, and what came in answer to it
Account(m, reply) ==
  Tells(m, reply.events) /\ m.http = reply.http /\ (reply.whole => m.http = 200)

\* A count that was never given counts as 0, in the metrics as in the events.
LEMMA CountTold ==
  ASSUME NEW m, NEW events, Tells(m, events)
  PROVE  /\ \A f : Count(m.usage, f) = CountSaid(events, f)
         /\ TotalInput(m.usage) = InputSaid(events)
         /\ Reported(m.usage) <=> SaysCache(events)
<1>1. \A f : f \in DOMAIN m.usage <=> \E i \in DOMAIN events : Counts(events[i], f)
  BY DEF Tells
<1>2. \A f \in DOMAIN m.usage : m.usage[f] = CountSaid(events, f)
  BY DEF Tells
<1>3. ASSUME NEW f PROVE Count(m.usage, f) = CountSaid(events, f)
  <2>1. CASE f \in DOMAIN m.usage
    BY <2>1, <1>2 DEF Count
  <2>2. CASE f \notin DOMAIN m.usage
    <3>1. {i \in DOMAIN events : Counts(events[i], f)} = {}
      BY <1>1, <2>2
    <3> QED BY <2>2, <3>1 DEF Count, CountSaid
  <2> QED BY <2>1, <2>2
<1>4. TotalInput(m.usage) = InputSaid(events)
  BY <1>3 DEF TotalInput, InputSaid
<1>5. Reported(m.usage) <=> SaysCache(events)
  <2>1. Reported(m.usage) <=> "creation" \in DOMAIN m.usage \/ "read" \in DOMAIN m.usage
    BY DEF Reported, CacheFields
  <2>2. SaysCache(events) <=>
          \E i \in DOMAIN events : Counts(events[i], "creation") \/ Counts(events[i], "read")
    BY DEF SaysCache, Some
  <2> QED BY <1>1, <2>1, <2>2
<1> QED BY <1>3, <1>4, <1>5

\* Of a conversation as the protocol has it every count was given.
LEMMA EveryCount ==
  ASSUME NEW m, NEW events, Tells(m, events), WellFormed(events)
  PROVE  /\ {"input", "output", "creation", "read"} \subseteq DOMAIN m.usage
         /\ \E i \in DOMAIN events : Is(events[i], "message_delta")
<1> DEFINE first ==
      Min({i \in DOMAIN events : DtypeOf(Meant(events[i])) \notin {"ping", "message"}})
<1>1. /\ Places(events, "message_start") = {first}
      /\ DOMAIN Object(events[first]).usage = {"input", "output", "creation", "read"}
      /\ Places(events, "message_delta") # {}
  BY DEF WellFormed
<1> HIDE DEF first
<1>2. first \in DOMAIN events /\ Is(events[first], "message_start")
  BY <1>1 DEF Places
<1>3. \A f \in {"input", "output", "creation", "read"} : Counts(events[first], f)
  BY <1>1, <1>2 DEF Counts
<1>4. \A f : f \in DOMAIN m.usage <=> \E i \in DOMAIN events : Counts(events[i], f)
  BY DEF Tells
<1>5. \E i \in DOMAIN events : Is(events[i], "message_delta")
  BY <1>1 DEF Places
<1> QED BY <1>2, <1>3, <1>4, <1>5

\* The answers to the requests of a case, as the checks see them
Accounts(ms, replies) ==
  /\ Len(ms) \in Nat /\ Len(ms) # 0
  /\ DOMAIN replies = 1 .. Len(ms) /\ Len(replies) = Len(ms)
  /\ \A i \in 1 .. Len(ms) : Account(ms[i], replies[i])
  /\ \E E : replies[1].events \in Seq(E)
Others(ms) == {ms[i] : i \in 2 .. Len(ms)}

\* A case that passes saw what it is there to see.
LEMMA PassEarned ==
  ASSUME NEW case, NEW ms, NEW replies, Accounts(ms, replies),
         StatusOf(CaseChecks(case, ms[1], Others(ms))) = "PASS"
  PROVE  /\ replies[1].http = 200
         /\ NamedLast(replies[1].events) = Requested
         /\ case.category # "tool_call" => TextSaid(replies[1].events) # <<>>
         /\ Delivers(case.category, replies)
<1> DEFINE m == ms[1]
    one == replies[1].events
    n == Len(ms)
    category == case.category
<1>1. n \in Nat /\ n # 0 /\ Len(replies) = n /\ DOMAIN replies = 1 .. n
  BY DEF Accounts
<1>2. \A i \in 1 .. n : Account(ms[i], replies[i])
  BY DEF Accounts
<1>3. Account(m, replies[1])
  <2>1. 1 \in 1 .. n
    BY <1>1
  <2> QED BY <1>2, <2>1
<1>4. Tells(m, one) /\ m.http = replies[1].http
  BY <1>3 DEF Account
<1>5. m.model = NamedLast(one) /\ m.text = TextSaid(one)
  BY <1>4 DEF Tells
<1>6. PICK E : one \in Seq(E)
  BY DEF Accounts
<1>7. Clean(CaseChecks(case, m, Others(ms)))
  BY PassIsClean
<1> HIDE DEF m, one, n
<1>8. ~ForcedChoiceUnsupported(case, m)
  <2> SUFFICES ASSUME ForcedChoiceUnsupported(case, m) PROVE FALSE
    OBVIOUS
  <2>1. <<"http_status", "WARN">> \in CaseChecks(case, m, Others(ms))
    BY DEF CaseChecks, ForcedChoiceChecks
  <2>2. <<"http_status", "WARN">>[2] = "WARN"
    OBVIOUS
  <2> QED BY <1>7, <2>1, <2>2 DEF Clean
<1>9. Clean(CommonChecks(m, category # "tool_call"))
  BY <1>7, <1>8, ChecksClean
<1>10. m.http = 200 /\ (category # "tool_call" => m.text # <<>>) /\ m.model = Requested
  <2>1. (category # "tool_call") \in BOOLEAN
    OBVIOUS
  <2> QED BY <1>9, <2>1, CommonClean
<1>11. Delivers(category, replies)
  <2>1. CASE category = "messages"
    <3>1. Clean(SubstringChecks(m))
      BY <1>7, <1>8, <2>1, ChecksClean
    <3>2. Occurs(Marker, TextSaid(one))
      BY <3>1, <1>5, SubstringClean
    <3> QED BY <2>1, <3>2, DeliversMeans DEF one
  <2>2. CASE category = "json"
    <3>1. Clean(JsonChecks(m))
      BY <1>7, <1>8, <2>2, ChecksClean
    <3>2. TextSaid(one) = Json
      BY <3>1, <1>5, JsonClean
    <3> QED BY <2>2, <3>2, DeliversMeans DEF one
  <2>3. CASE category = "sse"
    <3>1. Clean(SseChecks(m))
      BY <1>7, <1>8, <2>3, ChecksClean
    <3>2. SseRequired \subseteq ToSet(m.types) /\ SseOrdered(m.types) /\ m.text # <<>>
      BY <3>1, SseClean
    <3>3. PICK T : m.types \in Seq(T)
      BY <1>4 DEF Tells
    <3>4. Placed(m.types, one)
      BY <1>4 DEF Tells
    <3>5. SpeaksInOrder(one)
      BY <1>6, <3>2, <3>3, <3>4, OrderListedWasSpoken
    <3>6. Holds(m.types, "message_delta")
      BY <3>2 DEF SseRequired, Holds
    <3>7. \E i \in DOMAIN one : Is(one[i], "message_delta")
      BY <1>6, <3>3, <3>4, <3>6, ListedWasSaid
    <3>8. \E i \in DOMAIN one : IsText(one[i])
      BY <1>4, <3>2 DEF Tells
    <3> QED BY <2>3, <3>5, <3>7, <3>8, DeliversMeans DEF one
  <2>4. CASE category = "usage"
    <3>1. Clean(UsageChecks(m, Others(ms)))
      BY <1>7, <1>8, <2>4, ChecksClean
    <3>2. /\ {"input", "output"} \subseteq DOMAIN m.usage
          /\ \A other \in Others(ms) : TotalInput(other.usage) > TotalInput(m.usage)
      BY <3>1, UsageClean
    <3>3. \A f : f \in DOMAIN m.usage <=> \E i \in DOMAIN one : Counts(one[i], f)
      BY <1>4 DEF Tells
    <3>4. /\ \E i \in DOMAIN one : Counts(one[i], "input")
          /\ \E i \in DOMAIN one : Counts(one[i], "output")
      BY <3>2, <3>3
    <3>5. ASSUME NEW i \in 2 .. Len(replies)
          PROVE  InputSaid(replies[i].events) > InputSaid(one)
      <4>1. ms[i] \in Others(ms) /\ i \in 1 .. n
        BY <1>1 DEF Others, n
      <4>2. Tells(ms[i], replies[i].events)
        BY <4>1, <1>2 DEF Account
      <4>3. TotalInput(ms[i].usage) = InputSaid(replies[i].events)
        BY <4>2, CountTold
      <4>4. TotalInput(m.usage) = InputSaid(one)
        BY <1>4, CountTold
      <4>5. TotalInput(ms[i].usage) > TotalInput(m.usage)
        BY <3>2, <4>1
      <4> QED BY <4>3, <4>4, <4>5
    <3> QED BY <2>4, <3>4, <3>5, DeliversMeans DEF one
  <2>5. CASE category = "cache"
    <3>1. Clean(CacheChecks(case, m, Others(ms)))
      BY <1>7, <1>8, <2>5, ChecksClean
    <3>2. Reported(m.usage) /\ \A other \in Others(ms) : Reported(other.usage)
      BY <3>1, CacheClean
    <3>3. ASSUME NEW i \in DOMAIN replies PROVE SaysCache(replies[i].events)
      <4>1. i \in 1 .. n
        BY <1>1
      <4>2. Tells(ms[i], replies[i].events)
        BY <4>1, <1>2 DEF Account
      <4>3. i = 1 \/ i \in 2 .. n
        BY <1>1, <4>1
      <4>4. Reported(ms[i].usage)
        <5>1. CASE i = 1
          BY <5>1, <3>2 DEF m
        <5>2. CASE i \in 2 .. n
          BY <5>2, <3>2 DEF Others, n
        <5> QED BY <4>3, <5>1, <5>2
      <4> QED BY <4>2, <4>4, CountTold
    <3> QED BY <2>5, <3>3, DeliversMeans
  <2>6. CASE category = "tool_call"
    <3>1. Clean(ToolChecks(m))
      BY <1>7, <1>8, <2>6, ChecksClean
    <3>2. m.tool /\ m.inputJson
      BY <3>1, ToolClean
    <3>3. /\ \E i \in DOMAIN one : StartsTool(one[i])
          /\ \E i \in DOMAIN one : FillsTool(one[i])
      BY <1>4, <3>2 DEF Tells
    <3> QED BY <2>6, <3>3, DeliversMeans DEF one
  <2>7. CASE category \notin {"messages", "usage", "sse", "json", "cache", "tool_call"}
    BY <2>7, DeliversMeans
  <2> QED BY <2>1, <2>2, <2>3, <2>4, <2>5, <2>6, <2>7
<1> QED BY <1>4, <1>5, <1>10, <1>11 DEF one

\* A case in which another model named itself fails.
LEMMA OtherModelCaught ==
  ASSUME NEW case, NEW ms, NEW replies, Accounts(ms, replies),
         NamedLast(replies[1].events) \notin {"none", Requested}
  PROVE  StatusOf(CaseChecks(case, ms[1], Others(ms))) = "FAIL"
<1> DEFINE m == ms[1]
    found == <<"model_identity", ModelIdentity(m)>>
<1>1. m.model = NamedLast(replies[1].events)
  <2>1. 1 \in 1 .. Len(ms)
    BY DEF Accounts
  <2> QED BY <2>1 DEF Accounts, Account, Tells
<1> HIDE DEF m
<1>2. ModelIdentity(m) = "FAIL"
  BY <1>1 DEF ModelIdentity
<1>3. found \in CaseChecks(case, m, Others(ms))
  BY DEF CaseChecks, ForcedChoiceChecks, CommonChecks
<1>4. found[2] = "FAIL"
  BY <1>2
<1> HIDE DEF found
<1>5. \E pair \in CaseChecks(case, m, Others(ms)) : pair[2] = "FAIL"
  BY <1>3, <1>4
<1> QED BY <1>5, PassIsClean DEF m

\* A sound conversation passes.
LEMMA SoundPasses ==
  ASSUME NEW case, NEW ms, NEW replies, Accounts(ms, replies), AnsweredWell(replies),
         NamedLast(replies[1].events) = Requested,
         case.category # "tool_call" => TextSaid(replies[1].events) # <<>>,
         case.category = "cache" => case.cached,
         Delivers(case.category, replies)
  PROVE  StatusOf(CaseChecks(case, ms[1], Others(ms))) = "PASS"
<1> DEFINE m == ms[1]
    one == replies[1].events
    n == Len(ms)
    category == case.category
<1>1. n \in Nat /\ n # 0 /\ Len(replies) = n /\ DOMAIN replies = 1 .. n
  BY DEF Accounts
<1>2. \A i \in 1 .. n : Account(ms[i], replies[i])
  BY DEF Accounts
<1>3. 1 \in 1 .. n
  BY <1>1
<1>4. Tells(m, one) /\ m.http = 200
  <2>1. Account(m, replies[1]) /\ replies[1].whole
    BY <1>1, <1>2, <1>3 DEF AnsweredWell
  <2> QED BY <2>1 DEF Account
<1>5. m.model = NamedLast(one) /\ m.text = TextSaid(one)
  BY <1>4 DEF Tells
<1>6. PICK E : one \in Seq(E)
  BY DEF Accounts
<1>7. \A i \in 1 .. n : WellFormed(replies[i].events) /\ Tells(ms[i], replies[i].events)
  BY <1>1, <1>2 DEF AnsweredWell, Account
<1>8. \A i \in 1 .. n : {"input", "output", "creation", "read"} \subseteq DOMAIN ms[i].usage
  <2> SUFFICES ASSUME NEW i \in 1 .. n
               PROVE {"input", "output", "creation", "read"} \subseteq DOMAIN ms[i].usage
    OBVIOUS
  <2>1. WellFormed(replies[i].events) /\ Tells(ms[i], replies[i].events)
    BY <1>7
  <2> QED BY <2>1, EveryCount
<1>9. WellFormed(one) /\ {"input", "output", "creation", "read"} \subseteq DOMAIN m.usage
  BY <1>3, <1>7, <1>8
<1>10. (category # "tool_call" => m.text # <<>>) /\ m.model = Requested
  BY <1>5
<1>11. \A other \in Others(ms) : \E i \in 2 .. n : other = ms[i]
  BY DEF Others
<1> HIDE DEF m, one, n
<1>12. ~ForcedChoiceUnsupported(case, m)
  BY <1>4 DEF ForcedChoiceUnsupported
<1>13. Clean(CommonChecks(m, category # "tool_call"))
  <2>1. (category # "tool_call") \in BOOLEAN
    OBVIOUS
  <2> QED BY <1>4, <1>10, <2>1, CommonClean
<1>14. Clean(CaseChecks(case, m, Others(ms)))
  <2>1. CASE category = "messages"
    <3>1. Occurs(Marker, TextSaid(one))
      BY <2>1, DeliversMeans DEF one
    <3>2. Clean(SubstringChecks(m))
      BY <3>1, <1>5, SubstringClean
    <3> QED BY <1>12, <1>13, <2>1, <3>2, ChecksClean
  <2>2. CASE category = "json"
    <3>1. TextSaid(one) = Json
      BY <2>2, DeliversMeans DEF one
    <3>2. Clean(JsonChecks(m))
      BY <3>1, <1>5, JsonClean
    <3> QED BY <1>12, <1>13, <2>2, <3>2, ChecksClean
  <2>3. CASE category = "sse"
    <3>1. SpeaksInOrder(one)
      BY <2>3, DeliversMeans DEF one
    <3>2. PICK T : m.types \in Seq(T)
      BY <1>4 DEF Tells
    <3>3. Placed(m.types, one)
      BY <1>4 DEF Tells
    <3>4. SseOrdered(m.types)
      BY <1>6, <1>9, <3>1, <3>2, <3>3, OrderSpokenIsListed
    <3>5. Holds(m.types, "message_delta")
      <4>1. PICK i \in DOMAIN one : Is(one[i], "message_delta")
        BY <1>4, <1>9, EveryCount
      <4> QED BY <1>6, <3>2, <3>3, <4>1, SaidIsListed
    <3>6. SseRequired \subseteq ToSet(m.types)
      BY <3>4, <3>5 DEF SseRequired, SseOrdered, Holds
    <3>7. m.text # <<>> /\ m.heard
      <4>1. m.text # <<>>
        BY <1>10, <2>3
      <4> QED BY <1>4, <4>1 DEF Tells
    <3>8. Clean(SseChecks(m))
      BY <3>4, <3>6, <3>7, SseClean
    <3> QED BY <1>12, <1>13, <2>3, <3>8, ChecksClean
  <2>4. CASE category = "usage"
    <3>1. \A i \in 2 .. Len(replies) : InputSaid(replies[i].events) > InputSaid(one)
      BY <2>4, DeliversMeans DEF one
    <3>2. ASSUME NEW other \in Others(ms)
          PROVE  /\ Comparable(m.usage) /\ Comparable(other.usage)
                 /\ TotalInput(other.usage) > TotalInput(m.usage)
      <4>1. PICK i \in 2 .. n : other = ms[i]
        BY <1>11
      <4>2. i \in 1 .. n /\ i \in 2 .. Len(replies)
        BY <1>1
      <4>3. TotalInput(other.usage) = InputSaid(replies[i].events)
        BY <1>7, <4>1, <4>2, CountTold
      <4>4. TotalInput(m.usage) = InputSaid(one)
        BY <1>4, CountTold
      <4>5. "input" \in DOMAIN m.usage /\ "input" \in DOMAIN other.usage
        BY <1>8, <1>9, <4>1, <4>2
      <4> QED BY <3>1, <4>2, <4>3, <4>4, <4>5 DEF Comparable, InputFields
    <3>3. Clean(UsageChecks(m, Others(ms)))
      BY <1>9, <3>2, UsageClean DEF CacheFields
    <3> QED BY <1>12, <1>13, <2>4, <3>3, ChecksClean
  <2>5. CASE category = "cache"
    <3>1. \A i \in 1 .. n : Reported(ms[i].usage)
      BY <1>8 DEF Reported, CacheFields
    <3>2. Reported(m.usage)
      BY <1>9 DEF Reported, CacheFields
    <3>3. ASSUME NEW other \in Others(ms) PROVE Reported(other.usage)
      <4>1. PICK i \in 2 .. n : other = ms[i]
        BY <1>11
      <4>2. i \in 1 .. n
        BY <1>1
      <4> QED BY <3>1, <4>1, <4>2
    <3>4. Clean(CacheChecks(case, m, Others(ms)))
      BY <2>5, <3>2, <3>3, CacheClean
    <3> QED BY <1>12, <1>13, <2>5, <3>4, ChecksClean
  <2>6. CASE category = "tool_call"
    <3>1. /\ \E i \in DOMAIN one : StartsTool(one[i])
          /\ \E i \in DOMAIN one : FillsTool(one[i])
      BY <2>6, DeliversMeans DEF one
    <3>2. m.tool /\ m.inputJson
      BY <1>4, <3>1 DEF Tells
    <3>3. Clean(ToolChecks(m))
      BY <3>2, ToolClean
    <3> QED BY <1>12, <1>13, <2>6, <3>3, ChecksClean
  <2>7. CASE category \notin {"messages", "usage", "sse", "json", "cache", "tool_call"}
    BY <1>12, <1>13, <2>7, ChecksClean
  <2> QED BY <2>1, <2>2, <2>3, <2>4, <2>5, <2>6, <2>7
<1> QED BY <1>14, PassIsClean DEF m

-----------------------------------------------------------------------------
(* The requests of a case                                                  *)

(* The inductive invariant of a probe: what was kept of each request, and  *)
(* of the one being read, is what its events say.                          *)
ProbeInv ==
  /\ phase # "idle" => pc = "probing"
  /\ phase = "idle" => answers = <<>> /\ told = <<>>
  /\ phase = "judging" => answers # <<>>
  /\ \E S : answers \in Seq(S)
  /\ \E S : told \in Seq(S)
  /\ Len(told) = Len(answers)
  /\ \A i \in 1 .. Len(answers) :
       Account(answers[i], told[i]) /\ \E E : told[i].events \in Seq(E)
  /\ phase = "reading" => Tells(metrics, Read) /\ metrics.http = 200

\* A step after which no probe is under way
LEMMA NoProbe ==
  ASSUME phase' = "idle", answers' = <<>>, told' = <<>>
  PROVE  ProbeInv'
<1>1. <<>> \in Seq({}) /\ Len(<<>>) = 0
  OBVIOUS
<1>2. (\E S : answers' \in Seq(S)) /\ (\E S : told' \in Seq(S))
  BY <1>1
<1>3. Len(answers') = 0 /\ Len(told') = 0
  BY <1>1
<1> QED BY <1>2, <1>3 DEF ProbeInv

\* A request is over.
LEMMA RequestAccounted ==
  ASSUME ProbeInv, pc = "probing", pc' = pc, NEW m, NEW http, NEW whole, NEW events,
         NEW E, events \in Seq(E),
         FinishRequest(m, http, whole, events), Tells(m, events), m.http = http,
         whole => http = 200
  PROVE  ProbeInv'
<1> DEFINE reply == [http |-> http, whole |-> whole, events |-> events]
    n == Len(answers)
<1>1. PICK S : answers \in Seq(S)
  BY DEF ProbeInv
<1>2. PICK R : told \in Seq(R)
  BY DEF ProbeInv
<1>3. answers' = Append(answers, m) /\ told' = Append(told, reply)
  BY DEF FinishRequest
<1>4. phase' \in {"asking", "judging"}
  BY DEF FinishRequest
<1>5. Len(told) = n
  BY DEF ProbeInv
<1>6. /\ answers' \in Seq(S \cup {m}) /\ Len(answers') = n + 1 /\ answers'[n + 1] = m
      /\ \A i \in 1 .. n : answers'[i] = answers[i]
  <2>1. answers \in Seq(S \cup {m}) /\ m \in S \cup {m}
    BY <1>1
  <2> QED BY <1>3, <2>1, Appended
<1>7. /\ told' \in Seq(R \cup {reply}) /\ Len(told') = n + 1 /\ told'[n + 1] = reply
      /\ \A i \in 1 .. n : told'[i] = told[i]
  <2> HIDE DEF reply
  <2>1. told \in Seq(R \cup {reply}) /\ reply \in R \cup {reply}
    BY <1>2
  <2> QED BY <1>3, <1>5, <2>1, Appended
<1>8. Account(m, reply) /\ reply.events \in Seq(E)
  BY DEF Account
<1>9. n \in Nat
  BY <1>1
<1> HIDE DEF reply, n
<1>10. ASSUME NEW i \in 1 .. n + 1
       PROVE  Account(answers'[i], told'[i]) /\ \E F : told'[i].events \in Seq(F)
  <2>1. CASE i = n + 1
    BY <2>1, <1>6, <1>7, <1>8
  <2>2. CASE i \in 1 .. n
    <3>1. Account(answers[i], told[i]) /\ \E F : told[i].events \in Seq(F)
      BY <2>2 DEF ProbeInv, n
    <3> QED BY <3>1, <2>2, <1>6, <1>7
  <2> QED BY <1>9, <2>1, <2>2
<1>11. answers' # <<>>
  <2>1. Len(answers') # 0
    BY <1>6, <1>9
  <2> QED BY <2>1
<1>12. (\E F : answers' \in Seq(F)) /\ (\E F : told' \in Seq(F))
  BY <1>6, <1>7
<1> QED BY <1>4, <1>6, <1>7, <1>10, <1>11, <1>12 DEF ProbeInv

\* Metrics of which only the error differs tell the same.
LEMMA ErrorTellsTheSame ==
  ASSUME NEW m, NEW events, Tells(m, events), NEW error, NEW changed,
         changed = [m EXCEPT !.error = error]
  PROVE  Tells(changed, events) /\ changed.http = m.http
<1> DEFINE r == [http |-> m.http, error |-> m.error, heard |-> m.heard, types |-> m.types,
         text |-> m.text, tool |-> m.tool, inputJson |-> m.inputJson, usage |-> m.usage,
         model |-> m.model]
<1>1. m = r
  BY DEF Tells, IsMetrics
<1>2. changed = [r EXCEPT !.error = error]
  BY <1>1, Zenon
<1>3. changed = [http |-> m.http, error |-> error, heard |-> m.heard, types |-> m.types,
         text |-> m.text, tool |-> m.tool, inputJson |-> m.inputJson, usage |-> m.usage,
         model |-> m.model]
  BY ONLY <1>2
<1>4. /\ changed.http = m.http /\ changed.heard = m.heard /\ changed.types = m.types
      /\ changed.text = m.text /\ changed.tool = m.tool /\ changed.inputJson = m.inputJson
      /\ changed.usage = m.usage /\ changed.model = m.model /\ changed.error = error
  BY ONLY <1>3
<1>5. IsMetrics(changed)
  BY <1>3, <1>4 DEF IsMetrics
<1>6. Tells(changed, events)
  BY <1>4, <1>5 DEF Tells
<1> QED BY <1>4, <1>6

\* The end of the stream changes the error at most.
LEMMA EndedTells ==
  ASSUME NEW m, NEW events, Tells(m, events)
  PROVE  Tells(Ended(m), events) /\ Ended(m).http = m.http
<1> DEFINE error == "no text"
    changed == [m EXCEPT !.error = error]
<1>1. Ended(m) = m \/ Ended(m) = changed
  BY DEF Ended
<1> HIDE DEF error
<1>2. changed = [m EXCEPT !.error = error]
  OBVIOUS
<1> HIDE DEF changed
<1>3. Tells(changed, events) /\ changed.http = m.http
  BY <1>2, ErrorTellsTheSame
<1> QED BY <1>1, <1>3

\* Metrics of a request nothing was heard of
LEMMA FreshTells ==
  ASSUME NEW http
  PROVE  Tells(Fresh(http), <<>>) /\ Fresh(http).http = http
<1>1. IsMetrics(Fresh(http))
  BY DEF IsMetrics, Fresh
<1>2. /\ Fresh(http).tool = FALSE /\ Fresh(http).inputJson = FALSE /\ Fresh(http).model = "none"
      /\ Fresh(http).text = <<>> /\ Fresh(http).usage = <<>> /\ Fresh(http).types = <<>>
      /\ Fresh(http).http = http
  BY DEF Fresh
<1> QED BY <1>1, <1>2, TellsNothing

\* What was read so far, and with one event more
LEMMA ReadNext ==
  ASSUME StreamInv
  PROVE  /\ Read \in Seq(Range(sent.events))
         /\ taken = 0 => Read = <<>>
         /\ taken < Len(sent.events) =>
              /\ sent.events[taken + 1] \in Range(sent.events)
              /\ SubSeq(sent.events, 1, taken + 1) = Append(Read, sent.events[taken + 1])
<1> DEFINE events == sent.events
    E == Range(sent.events)
    n == taken
<1>1. events \in Seq(E) /\ n \in 0 .. Len(events)
  BY DEF StreamInv, Composed
<1>2. Read = SubSeq(events, 1, n)
  BY DEF Read
<1> HIDE DEF events, E, n
<1>3. Read \in Seq(E) /\ (n = 0 => Read = <<>>)
  BY <1>1, <1>2
<1>4. ASSUME n < Len(events)
      PROVE  events[n + 1] \in E /\ SubSeq(events, 1, n + 1) = Append(Read, events[n + 1])
  <2>1. n \in Nat /\ n + 1 \in 1 .. Len(events) /\ Len(events) \in Nat
    BY <1>1, <1>4
  <2>2. events[n + 1] \in E
    BY <1>1, <2>1, ElementType
  <2>3. SubSeq(events, 1, n + 1) = Append(SubSeq(events, 1, n), events[n + 1])
    BY <1>1, <2>1
  <2> QED BY <1>2, <2>2, <2>3
<1> QED BY <1>3, <1>4 DEF events, E, n

\* No step that leaves the probe alone disturbs it.
LEMMA ProbeUntouched ==
  ProbeInv /\ UNCHANGED <<probeVars, streamVars>> /\ (phase = "idle" \/ pc' = pc) => ProbeInv'
BY DEF ProbeInv, probeVars, streamVars, Account, Read

\* The stream of an answer is read event by event.
LEMMA ReadingKeepsAccounts == StreamInv /\ ProbeInv /\ ReadEvent => ProbeInv'
<1> SUFFICES ASSUME StreamInv, ProbeInv, ReadEvent PROVE ProbeInv'
  OBVIOUS
<1> DEFINE next == sent.events[taken + 1]
    E == Range(sent.events)
<1>1. PICK split \in Splits(buffer) :
        /\ ~Unreadable(Parsed(split.lines)) /\ YieldEvent(split)
        /\ metrics' = Absorbed(metrics, Parsed(split.lines))
  BY DEF ReadEvent
<1>2. /\ phase = "reading" /\ pc = "probing"
      /\ phase' = phase /\ pc' = pc /\ answers' = answers /\ told' = told
  BY DEF ReadEvent, Probing, vars
<1>3. taken < Len(sent.events) /\ Parsed(split.lines) = Meant(next)
  BY <1>1, NextSplit
<1>4. taken' = taken + 1 /\ sent' = sent
  BY <1>1 DEF YieldEvent
<1>5. Read \in Seq(E) /\ next \in E /\ SubSeq(sent.events, 1, taken + 1) = Append(Read, next)
  BY <1>3, ReadNext
<1>6. Read' = Append(Read, next)
  BY <1>4, <1>5 DEF Read
<1>7. Tells(metrics, Read) /\ metrics.http = 200
  BY <1>2 DEF ProbeInv
<1> HIDE DEF next, E
<1>8. ~Unreadable(Meant(next)) /\ metrics' = Absorbed(metrics, Meant(next))
  BY <1>1, <1>3
<1>9. Tells(metrics', Append(Read, next))
  BY <1>5, <1>7, <1>8, TellsNext
<1>10. metrics'.http = 200
  <2>1. IsMetrics(metrics) /\ metrics.tool \in BOOLEAN /\ metrics.inputJson \in BOOLEAN
    BY <1>7 DEF Tells
  <2>2. InStep(metrics, next, metrics')
    BY <1>8, <2>1, AbsorbedInStep
  <2> QED BY <1>7, <2>2 DEF InStep
<1>11. Tells(metrics, Read)'
  BY <1>6, <1>9
<1> QED BY <1>2, <1>10, <1>11 DEF ProbeInv, Account

\* Every step of the suite keeps the invariant of the probe.
LEMMA SuiteKeepsProbe ==
  SuiteInv /\ StreamInv /\ ProbeInv /\ [SuiteNext]_suiteVars => ProbeInv'
<1> SUFFICES ASSUME SuiteInv, StreamInv, ProbeInv, [SuiteNext]_suiteVars PROVE ProbeInv'
  OBVIOUS
<1>1. CASE UNCHANGED suiteVars
  <2>1. UNCHANGED <<probeVars, streamVars>> /\ pc' = pc
    BY <1>1 DEF suiteVars, vars
  <2> QED BY <2>1, ProbeUntouched
<1>2. CASE Operator
  <2>1. UNCHANGED <<probeVars, streamVars>> /\ pc' = pc
    BY <1>2 DEF Operator, Control, Pause, Resume, Stop
  <2> QED BY <2>1, ProbeUntouched
<1>3. CASE Loop
  <2>1. UNCHANGED <<probeVars, streamVars>> /\ (pc # "probing" \/ pc' = pc)
    BY <1>3 DEF Loop, HostStart, CheckStop, TestPause, ReportPaused, TestParked, WaitReturns,
         LeaveWait, ReportResumed, Announce, HostEnd, DropControl
  <2>2. phase = "idle" \/ pc' = pc
    BY <2>1 DEF ProbeInv
  <2> QED BY <2>1, <2>2, ProbeUntouched
<1>4. CASE Save
  <2>1. UNCHANGED <<probeVars, streamVars>> /\ pc = "writing"
    BY <1>4 DEF Save, WriteRecords, WriteSummary, OpenManifest, WriteFile, SaveManifest,
         WriteManifest
  <2>2. phase = "idle"
    BY <2>1 DEF ProbeInv
  <2> QED BY <2>1, <2>2, ProbeUntouched
<1>5. CASE Probe
  <2>1. CASE BeginCase
    <3>1. /\ phase' = "asking" /\ pc = "toStart" /\ pc' = "probing"
          /\ answers' = answers /\ told' = told
      BY <2>1 DEF BeginCase, StartCase
    <3> QED BY <3>1 DEF ProbeInv, Account
  <2>2. CASE KeyMissing \/ ReadRaises
    <3>1. phase' = "idle" /\ answers' = <<>> /\ told' = <<>>
      BY <2>2 DEF KeyMissing, ReadRaises, GiveUp
    <3> QED BY <3>1, NoProbe
  <2>3. CASE ConnectFails
    <3>1. FinishRequest(Refused(0, "transport"), 0, FALSE, <<>>) /\ pc = "probing" /\ pc' = pc
      BY <2>3 DEF ConnectFails, Probing, FinishRequest, vars
    <3>2. Tells(Refused(0, "transport"), <<>>) /\ Refused(0, "transport").http = 0
      BY FreshTells, ErrorTellsTheSame DEF Refused
    <3>3. <<>> \in Seq({})
      OBVIOUS
    <3> QED BY <3>1, <3>2, <3>3, RequestAccounted
  <2>4. CASE Refuse
    <3>0. PICK answer \in Answers[Case.category] : \E reason \in {answer.reason, "transport"} :
            FinishRequest(Refused(answer.http, reason), answer.http, FALSE, <<>>)
      BY <2>4 DEF Refuse
    <3>1. PICK reason : FinishRequest(Refused(answer.http, reason), answer.http, FALSE, <<>>)
      BY <3>0
    <3>2. pc = "probing" /\ pc' = pc
      BY <2>4, <3>1 DEF Refuse, Probing, FinishRequest, vars
    <3>3. /\ Tells(Refused(answer.http, reason), <<>>)
          /\ Refused(answer.http, reason).http = answer.http
      BY FreshTells, ErrorTellsTheSame DEF Refused
    <3>4. <<>> \in Seq({})
      OBVIOUS
    <3> QED BY <3>1, <3>2, <3>3, <3>4, RequestAccounted
  <2>5. CASE Accept
    <3>1. /\ phase' = "reading" /\ pc = "probing" /\ pc' = pc /\ metrics' = Fresh(200)
          /\ answers' = answers /\ told' = told
      BY <2>5 DEF Accept, Probing, vars
    <3>2. taken' = 0
      BY <2>5 DEF Accept, OpenStream
    <3>3. StreamInv'
      BY SuiteKeepsStream
    <3>4. sent'.events \in Seq(Range(sent.events)')
      BY <3>3 DEF StreamInv, Composed
    <3>5. Read' = <<>>
      BY <3>2, <3>4 DEF Read
    <3>6. Tells(metrics', <<>>) /\ metrics'.http = 200
      BY <3>1, FreshTells
    <3>7. Tells(metrics, Read)'
      BY <3>5, <3>6
    <3> QED BY <3>1, <3>6, <3>7 DEF ProbeInv, Account
  <2>6. CASE ReadChunk
    <3>1. /\ sent' = sent /\ taken' = taken /\ pc' = pc /\ phase' = phase
          /\ metrics' = metrics /\ answers' = answers /\ told' = told
      BY <2>6 DEF ReadChunk, Receive, vars, probeVars
    <3> QED BY <3>1 DEF ProbeInv, Account, Read
  <2>7. CASE ReadEvent
    BY <2>7, ReadingKeepsAccounts
  <2>8. CASE StreamBreaks
    <3>1. /\ FinishRequest(Broken(metrics), 200, FALSE, Read) /\ phase = "reading"
          /\ pc = "probing" /\ pc' = pc
      BY <2>8 DEF StreamBreaks, Probing, FinishRequest, vars
    <3>2. Tells(metrics, Read) /\ metrics.http = 200
      BY <3>1 DEF ProbeInv
    <3>3. Tells(Broken(metrics), Read) /\ Broken(metrics).http = 200
      BY <3>2, ErrorTellsTheSame DEF Broken
    <3> QED BY <3>1, <3>3, ReadNext, RequestAccounted
  <2>9. CASE StreamEnds
    <3>1. /\ FinishRequest(Ended(metrics), 200, TRUE, Read) /\ phase = "reading"
          /\ pc = "probing" /\ pc' = pc
      BY <2>9 DEF StreamEnds, Probing, FinishRequest, vars
    <3>2. Tells(metrics, Read) /\ metrics.http = 200
      BY <3>1 DEF ProbeInv
    <3>3. Tells(Ended(metrics), Read) /\ Ended(metrics).http = 200
      BY <3>2, EndedTells
    <3> QED BY <3>1, <3>3, ReadNext, RequestAccounted
  <2>10. CASE JudgeCase
    <3>1. phase' = "idle" /\ answers' = <<>> /\ told' = <<>>
      BY <2>10 DEF JudgeCase
    <3> QED BY <3>1, NoProbe
  <2> QED BY <1>5, <2>1, <2>2, <2>3, <2>4, <2>5, <2>6, <2>7, <2>8, <2>9, <2>10 DEF Probe
<1> QED BY <1>1, <1>2, <1>3, <1>4, <1>5 DEF SuiteNext, SuiteWorker

\* What is kept of a request is what the events sent in answer to it say.
THEOREM ProbeInvariance == SuiteSpec => []ProbeInv
<1>1. SuiteInit => ProbeInv
  <2> SUFFICES ASSUME SuiteInit PROVE ProbeInv
    OBVIOUS
  <2>1. phase = "idle" /\ answers = <<>> /\ told = <<>>
    BY DEF SuiteInit
  <2>2. <<>> \in Seq({}) /\ Len(<<>>) = 0
    OBVIOUS
  <2>3. (\E S : answers \in Seq(S)) /\ (\E S : told \in Seq(S))
    BY <2>1, <2>2
  <2> QED BY <2>1, <2>2, <2>3 DEF ProbeInv
<1> QED BY <1>1, SuiteInvariance, StreamInvariance, SuiteKeepsProbe, PTL DEF SuiteSpec

\* A step that judges a case judges it by what was said.
LEMMA JudgementFair ==
  SuiteInv /\ ProbeInv /\ [SuiteNext]_suiteVars =>
    PassIsEarned /\ SoundAnswerPasses /\ OtherModelFails
<1> SUFFICES ASSUME SuiteInv, ProbeInv, [SuiteNext]_suiteVars
             PROVE  PassIsEarned /\ SoundAnswerPasses /\ OtherModelFails
  OBVIOUS
<1>1. CASE records' = records
  BY <1>1 DEF PassIsEarned, SoundAnswerPasses, OtherModelFails, Judged, Judgement
<1>2. CASE records' # records
  <2> DEFINE status == StatusOf(CaseChecks(Case, answers[1], Others(answers)))
  <2>1. JudgeCase
    BY <1>2 DEF SuiteNext, SuiteWorker, Operator, Loop, Probe, Save, BeginCase, KeyMissing,
         ConnectFails, Refuse, Accept, ReadChunk, ReadEvent, ReadRaises, StreamBreaks, StreamEnds,
         FinishRequest, GiveUp, WriteRecords, WriteSummary, OpenManifest, WriteFile, SaveManifest,
         suiteVars
  <2>2. /\ phase = "judging"
        /\ records' = Append(records, [category |-> Case.category, status |-> status])
    BY <2>1 DEF JudgeCase, Probing, SecondMetrics, Others
  <2>3. records \in Seq(Rows)
    BY DEF SuiteInv, RecordsKept
  <2> HIDE DEF status
  <2>4. Last(records').status = status
    <3> DEFINE row == [category |-> Case.category, status |-> status]
    <3>1. row.status = status
      OBVIOUS
    <3> HIDE DEF row
    <3>2. records \in Seq(Rows \cup {row}) /\ row \in Rows \cup {row}
      BY <2>3
    <3>3. /\ Len(Append(records, row)) = Len(records) + 1
          /\ Append(records, row)[Len(records) + 1] = row
      BY <3>2, Appended
    <3>4. Last(records') = row
      BY <2>2, <3>3 DEF Last, row
    <3> QED BY <3>1, <3>4
  <2>5. \A s : Judged(s) <=> status = s
    BY <1>2, <2>4 DEF Judged
  <2>6. Accounts(answers, told)
    <3>1. /\ \E S : answers \in Seq(S)
          /\ \E S : told \in Seq(S)
          /\ Len(told) = Len(answers) /\ answers # <<>>
          /\ \A i \in 1 .. Len(answers) :
               Account(answers[i], told[i]) /\ \E E : told[i].events \in Seq(E)
      BY <2>2 DEF ProbeInv
    <3>2. Len(answers) \in Nat /\ Len(answers) # 0 /\ DOMAIN told = 1 .. Len(answers)
      BY <3>1
    <3>3. 1 \in 1 .. Len(answers)
      BY <3>2
    <3> QED BY <3>1, <3>2, <3>3 DEF Accounts
  <2>7. PassIsEarned
    BY <2>5, <2>6, PassEarned DEF PassIsEarned, status
  <2>8. SoundAnswerPasses
    BY <2>5, <2>6, SoundPasses DEF SoundAnswerPasses, status
  <2>9. OtherModelFails
    BY <2>5, <2>6, OtherModelCaught DEF OtherModelFails, status
  <2> QED BY <2>7, <2>8, <2>9
<1> QED BY <1>1, <1>2

\* Whatever a provider answers, a case passes only on what was said, a sound answer passes,
\* and another model that names itself fails.
THEOREM CasesAreJudgedRight == SuiteSpec => CaseJudgedRight
<1>1. SuiteInv /\ ProbeInv /\ [SuiteNext]_suiteVars =>
        [PassIsEarned /\ SoundAnswerPasses /\ OtherModelFails]_suiteVars
  BY JudgementFair
<1> QED BY <1>1, SuiteInvariance, ProbeInvariance, PTL DEF SuiteSpec, CaseJudgedRight
=============================================================================
