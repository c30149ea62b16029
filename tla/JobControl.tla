----------------------------- MODULE JobControl -----------------------------
(***************************************************************************)
(* One background job of job_runtime.py under pause, resume and stop, with *)
(* the suite runner of compatibility.py as its worker thread.              *)
(*                                                                         *)
(* control_job and update_progress hold the runtime's lock: each is one    *)
(* step.  The worker reads the job's control flags without the lock,       *)
(* between two controls or in the middle of its own loop, and reports by   *)
(* events that normalize_progress_event_patch turns into patches of the    *)
(* job.  The host that creates the thread is outside the repository: it    *)
(* sets "running" first, applies the patches, and ends the job with a      *)
(* terminal status, as job_runtime's self-test does.  Times, ids and       *)
(* phases are left out.                                                    *)
(***************************************************************************)
EXTENDS Naturals

CONSTANT Total  \* the cases of the suite

ASSUME TotalAssumption == Total \in Nat \ {0}

VARIABLES
  job,       \* the job's entry in JobRuntime.jobs
  control,   \* its entry in JobRuntime.controls: what was requested, and the resume event
  held,      \* whether the runtime still has that control entry
  pc,        \* the worker
  index,     \* the worker's position in the suite: the records it has
  stopped,   \* the worker's flag of the same name
  manifest,  \* the status in compatibility_manifest.json, or "none"
  late       \* history: cases started since the stop was requested

vars == <<job, control, held, pc, index, stopped, manifest, late>>

TerminalStatuses == {"completed", "failed", "stopped"}
ControllableStatuses == {"queued", "running", "pausing", "paused"}
Statuses == TerminalStatuses \cup ControllableStatuses \cup {"stopping"}

WaitSteps == {"parked", "waiting", "woken"}
WorkerSteps ==
  {"new", "check", "testPause", "toPause", "resuming", "toStart", "probing",
   "writing", "announce", "raised", "returned", "gone"} \cup WaitSteps

\* The three controls, as control_job sets the flags and the event
Paused(c) == [c EXCEPT !.pause = TRUE, !.event = FALSE]

\* Slip: clear the flag, but leave the waiting worker to its time-out.
ResumedSilently(c) == [c EXCEPT !.pause = FALSE]
Resumed(c) == [c EXCEPT !.pause = FALSE, !.event = TRUE]

Stopped(c) == [pause |-> FALSE, stop |-> TRUE, event |-> TRUE]

Resumable(status) == status \in {"paused", "pausing"}

\* Slip: let a control through after the job ended.
StoppableAtAnyTime(status) == status # "stopping"
Stoppable(status) == status \in ControllableStatuses

\* normalize_progress_event_patch, applied to the job by update_progress
PatchPaused(j, n) == [j EXCEPT !.status = "paused", !.completed = n]
PatchResumed(j, n) == [j EXCEPT !.status = "running", !.completed = n]
PatchStarted(j, n) == [j EXCEPT !.completed = n]

PatchCompleted(j, n, ok) ==
  [j EXCEPT !.completed = n,
            !.success = @ + (IF ok THEN 1 ELSE 0),
            !.failure = @ + (IF ok THEN 0 ELSE 1)]

\* Slip: report the index of the last case, not the number of records.
PatchStoppedAtLast(j, n) == [j EXCEPT !.status = "stopped", !.completed = IF n = 0 THEN 0 ELSE n - 1]

\* Slip: like run_completed, run_stopped is left to the host.
PatchStoppedByHost(j, n) == [j EXCEPT !.completed = n]
PatchStopped(j, n) == [j EXCEPT !.status = "stopped", !.completed = n]

-----------------------------------------------------------------------------
\* create_job
Init ==
  /\ job = [status |-> "queued", completed |-> 0, success |-> 0, failure |-> 0]
  /\ control = [pause |-> FALSE, stop |-> FALSE, event |-> TRUE]
  /\ held = TRUE
  /\ pc = "new"
  /\ index = 0
  /\ stopped = FALSE
  /\ manifest = "none"
  /\ late = 0

-----------------------------------------------------------------------------
(* control_job.  A terminal job is returned as it is; a control that does  *)
(* not fit the status changes nothing.                                     *)

Pause ==
  /\ job.status \in {"queued", "running"}
  /\ control' = Paused(control)
  /\ job' = [job EXCEPT !.status = "pausing"]
  /\ UNCHANGED <<held, pc, index, stopped, manifest, late>>

Resume ==
  /\ Resumable(job.status)
  /\ control' = Resumed(control)
  /\ job' = [job EXCEPT !.status = "running"]
  /\ UNCHANGED <<held, pc, index, stopped, manifest, late>>

Stop ==
  /\ Stoppable(job.status)
  /\ control' = Stopped(control)
  /\ job' = [job EXCEPT !.status = "stopping"]
  /\ UNCHANGED <<held, pc, index, stopped, manifest, late>>

Control == Pause \/ Resume \/ Stop

-----------------------------------------------------------------------------
(* The worker: run_compatibility_suite, one step per read of the flags,    *)
(* event it reports, or probe.                                             *)

\* The host starts the thread: whatever a control said of a queued job, it now runs.
HostStart ==
  /\ pc = "new"
  /\ job' = [job EXCEPT !.status = "running"]
  /\ pc' = "check"
  /\ UNCHANGED <<control, held, index, stopped, manifest, late>>

\* Slip: the loop looks for a pause only.
StopNeverSeen == FALSE
StopSeen == control.stop

\* The head of the loop over the cases
CheckStop ==
  /\ pc = "check"
  /\ \/ StopSeen /\ stopped' = TRUE /\ pc' = "writing"
     \/ ~StopSeen /\ pc' = "testPause" /\ UNCHANGED stopped
  /\ UNCHANGED <<job, control, held, index, manifest, late>>

\* wait_for_resume: its first test
TestPause ==
  /\ pc = "testPause"
  /\ pc' = IF control.pause THEN "toPause" ELSE "toStart"
  /\ UNCHANGED <<job, control, held, index, stopped, manifest, late>>

ReportPaused ==
  /\ pc = "toPause"
  /\ job' = PatchPaused(job, index)
  /\ pc' = "parked"
  /\ UNCHANGED <<control, held, index, stopped, manifest, late>>

\* Slip: wait for the stop and forget the resume.
WaitForStop == ~control.stop
KeepWaiting == control.pause /\ ~control.stop

\* The condition of the wait loop
TestParked ==
  /\ pc = "parked"
  /\ pc' = IF KeepWaiting THEN "waiting" ELSE "woken"
  /\ UNCHANGED <<job, control, held, index, stopped, manifest, late>>

\* resume_event.wait(0.5) returns: because the event is set, or after the time-out
WaitReturns ==
  /\ pc = "waiting"
  /\ pc' = "parked"
  /\ UNCHANGED <<job, control, held, index, stopped, manifest, late>>

StopAfterWait == control.stop

LeaveWait ==
  /\ pc = "woken"
  /\ \/ StopAfterWait /\ stopped' = TRUE /\ pc' = "writing"
     \/ ~StopAfterWait /\ pc' = "resuming" /\ UNCHANGED stopped
  /\ UNCHANGED <<job, control, held, index, manifest, late>>

ReportResumed ==
  /\ pc = "resuming"
  /\ job' = PatchResumed(job, index)
  /\ pc' = "toStart"
  /\ UNCHANGED <<control, held, index, stopped, manifest, late>>

\* task_started, and the probe's requests go out
StartCase ==
  /\ pc = "toStart"
  /\ job' = PatchStarted(job, index)
  /\ late' = IF control.stop THEN late + 1 ELSE late
  /\ pc' = "probing"
  /\ UNCHANGED <<control, held, index, stopped, manifest>>

LastCase == index + 1 = Total

\* run_probe returns, its record is kept and task_completed reported
FinishCaseAs(ok) ==
  /\ pc = "probing"
  /\ index' = index + 1
  /\ job' = PatchCompleted(job, index + 1, ok)
  /\ pc' = IF LastCase THEN "writing" ELSE "check"
  /\ UNCHANGED <<control, held, stopped, manifest, late>>

FinishCase == \E ok \in BOOLEAN : FinishCaseAs(ok)

\* run_probe raises: the exception leaves the suite, and the host fails the job
CaseRaises ==
  /\ pc = "probing"
  /\ pc' = "raised"
  /\ UNCHANGED <<job, control, held, index, stopped, manifest, late>>

WriteManifest ==
  /\ pc = "writing"
  /\ manifest' = IF stopped THEN "stopped" ELSE "completed"
  /\ pc' = "announce"
  /\ UNCHANGED <<job, control, held, index, stopped, late>>

\* run_stopped patches the status; run_completed has no patch
Announce ==
  /\ pc = "announce"
  /\ job' = IF stopped THEN PatchStopped(job, index) ELSE job
  /\ pc' = "returned"
  /\ UNCHANGED <<control, held, index, stopped, manifest, late>>

\* The host, after the suite returned or raised
HostEnd ==
  /\ pc \in {"returned", "raised"}
  /\ job' = [job EXCEPT !.status =
               IF pc = "raised" THEN "failed" ELSE IF stopped THEN @ ELSE "completed"]
  /\ pc' = "gone"
  /\ UNCHANGED <<control, held, index, stopped, manifest, late>>

\* drop_control_if_terminal
DropControl ==
  /\ held
  /\ pc = "gone"
  /\ job.status \in TerminalStatuses
  /\ held' = FALSE
  /\ UNCHANGED <<job, control, pc, index, stopped, manifest, late>>

Worker ==
  \/ HostStart \/ CheckStop \/ TestPause \/ ReportPaused \/ TestParked \/ WaitReturns
  \/ LeaveWait \/ ReportResumed \/ StartCase \/ FinishCase \/ CaseRaises
  \/ WriteManifest \/ Announce \/ HostEnd \/ DropControl

Next == Control \/ Worker

Spec == Init /\ [][Next]_vars

(* The worker is a thread that keeps running: every wait has a time-out,   *)
(* and a probe's requests have theirs.  Nothing obliges the operator.      *)
FairSpec == Spec /\ WF_vars(Worker)

-----------------------------------------------------------------------------
TypeOK ==
  /\ job \in [status : Statuses, completed : 0 .. Total, success : 0 .. Total, failure : 0 .. Total]
  /\ control \in [pause : BOOLEAN, stop : BOOLEAN, event : BOOLEAN]
  /\ held \in BOOLEAN
  /\ pc \in WorkerSteps
  /\ index \in 0 .. Total
  /\ stopped \in BOOLEAN
  /\ manifest \in {"none", "stopped", "completed"}
  /\ late \in Nat

(* However the stop falls between the worker's two looks at the flags, at  *)
(* most one more case is started: the stop is looked for before the pause, *)
(* and a resume that was under way may still start the case it waited for. *)
StopTakesEffect == late <= 1

(* A worker waiting for a resume is woken by the event, never only by the  *)
(* time-out: nobody clears the pause without setting the event.            *)
WakeUpNotLost == pc \in WaitSteps /\ ~control.pause => control.event

(* A parked worker can be released: whatever sequence of pauses, resumes   *)
(* and late reports led here, the status is one control_job resumes.       *)
ParkedCanBeResumed ==
  pc \in {"parked", "waiting"} /\ control.pause => Resumable(job.status)

(* Nobody who presses resume can find a parked worker out of reach.        *)
ParkedIsReleasable == WakeUpNotLost /\ ParkedCanBeResumed

(* The counters the job shows are those of the records the worker holds,   *)
(* through every pause, resume and stop in between.                        *)
ProgressExact ==
  /\ job.completed = index
  /\ job.success + job.failure = index

(* What the job says at the end is what the manifest says, a stopped job   *)
(* was asked to stop, and a completed one ran every case.                  *)
EndAgrees ==
  /\ job.status = "stopped" => manifest = "stopped" /\ control.stop
  /\ job.status = "completed" => manifest = "completed" /\ index = Total
  /\ manifest = "stopped" => control.stop

(* What the job tells a client while it runs, and at its end               *)
ReportsTrue == ProgressExact /\ EndAgrees

(* A job that ended stays as it ended: neither a control nor a late report *)
(* of the worker changes its status.                                       *)
EndIsFinal == [][job.status \in TerminalStatuses => job'.status = job.status]_vars

(* A stop ends the job, a parked worker included.                          *)
StopEnds == control.stop ~> job.status \in TerminalStatuses

(* A job that is not left paused for ever ends.                            *)
UnpausedEnds == <>[](~control.pause) => <>(job.status \in TerminalStatuses)

(* The only way to keep a job from ending is to leave it paused.           *)
JobEnds == StopEnds /\ UnpausedEnds

(* A report that comes late, after the resume it should have preceded,     *)
(* shows the job as paused only for a while.                               *)
ShownPauseHeals ==
  job.status = "paused" /\ ~control.pause ~> (job.status # "paused" \/ control.pause)
=============================================================================
