------------------------------- MODULE RunJob -------------------------------
(***************************************************************************)
(* One evaluation run: `eval_cli.py run`, which a campaign calls once per  *)
(* round.  The tasks are evaluated in the calling thread or in a pool of   *)
(* max_concurrency threads; the calling thread collects their outcomes,     *)
(* writes the evidence, and asks the trace evaluation and the quality gate *)
(* for their verdicts.                                                     *)
(*                                                                         *)
(* A task asks the tested model and, if that answered, the judge; each     *)
(* call is call_model_with_retries of model_client.py.  Answers, scores    *)
(* and records are kept to what decides the control: whether a call        *)
(* succeeded, may be tried again, or failed for good.                      *)
(***************************************************************************)
EXTENDS Naturals, Sequences, FiniteSets

CONSTANTS TaskCount,       \* tasks the job selects
          Concurrency,     \* what max_concurrency may come to: at most one thread per task
          Retries,         \* request_retries
          TraceEnabled,    \* trace_evaluation_enabled
          RequireGo        \* --require-go

Tasks == 1 .. TaskCount

ASSUME RunJobAssumption ==
  /\ TaskCount \in Nat \ {0}
  /\ Concurrency \subseteq Tasks
  /\ Retries \in Nat
  /\ TraceEnabled \in BOOLEAN
  /\ RequireGo \in BOOLEAN

VARIABLES
  \* on disk
  dir,        \* the run's directory: absent, empty, or the status in state.json
  shown,      \* progress.completed in state.json
  records,    \* run_records.jsonl
  \* the calling thread
  max_concurrency,  \* min(configured_max_concurrency, len(tasks))
  pc,
  submitted,  \* tasks handed to the pool
  outcomes,   \* outcomes collected, as the indices of their tasks
  problems,   \* whether validation_errors holds anything
  decision,   \* the gate's decision, "none" before
  exitCode,
  \* the tasks
  at,         \* at[t]: where its evaluation is
  attempt,    \* attempt[t]: the attempt of the call it is in
  requests,   \* requests[t]: requests sent to the tested model and to the judge
  score       \* score[t]: what its score rests on

caller == <<max_concurrency, pc, submitted, outcomes, problems, decision, exitCode>>
tasks == <<at, attempt, requests, score>>
fixed == <<max_concurrency, tasks>>  \* what most steps of the calling thread leave alone
vars == <<dir, shown, records, caller, tasks>>

FinalStates == {"completed", "partial"}
RunStates == {"absent", "empty", "running", "torn"} \cup FinalStates
TaskSteps == {"waiting", "tested", "judge", "done", "raised"}
Busy == {"tested", "judge"}
Ended == {"returned", "raised", "crashed"}
Decisions == {"GO", "REVIEW", "NO-GO"}

\* Points at which the calling thread is about to write state.json
Writing == {"firstState", "announce", "serial", "collect", "traced", "final"}

Serial == max_concurrency = 1
Next1 == Len(outcomes) + 1
Collected == {outcomes[i] : i \in DOMAIN outcomes}
Running == {t \in Tasks : at[t] \in Busy}

-----------------------------------------------------------------------------
Init ==
  /\ dir \in RunStates
  /\ shown = 0
  /\ records = <<>>
  /\ max_concurrency \in Concurrency
  /\ pc = "mkdir"
  /\ submitted = 0
  /\ outcomes = <<>>
  /\ problems = FALSE
  /\ decision = "none"
  /\ exitCode = 0
  /\ at = [t \in Tasks |-> "waiting"]
  /\ attempt = [t \in Tasks |-> 1]
  /\ requests = [t \in Tasks |-> [tested |-> 0, judge |-> 0]]
  /\ score = [t \in Tasks |-> "none"]

Goto(label) == pc' = label

\* Slip: mkdir(exist_ok=True), so that a run id can be used again.
FreeOrUsed == TRUE
Free == dir = "absent"

\* run_dir.mkdir(exist_ok=False)
MakeDir ==
  /\ pc = "mkdir"
  /\ \/ Free /\ dir' = "empty" /\ Goto("firstState")
     \/ ~Free /\ Goto("raised") /\ UNCHANGED dir
  /\ UNCHANGED <<shown, records, submitted, outcomes, problems, decision, exitCode, fixed>>

FirstState ==
  /\ pc = "firstState"
  /\ dir' = "running"
  /\ Goto(IF Serial THEN "serial" ELSE "announce")
  /\ UNCHANGED <<shown, records, submitted, outcomes, problems, decision, exitCode, fixed>>

-----------------------------------------------------------------------------
(* evaluate_task, in the caller's thread or in a thread of the pool        *)

\* Slip: the first attempt is not counted.
LastAttemptLate(t) == attempt[t] > Retries + 1
LastAttempt(t) == attempt[t] >= Retries + 1

\* What a call of the tested model or of the judge may do next: send a request and have
\* it succeed, fail for good, or fail in a way that is tried again while attempts are left
Call(t, who, succeeded, failed) ==
  /\ at[t] = who
  /\ requests' = [requests EXCEPT ![t][who] = @ + 1]
  /\ \/ succeeded /\ attempt' = [attempt EXCEPT ![t] = 1]
     \/ failed /\ attempt' = [attempt EXCEPT ![t] = 1]
     \/ /\ ~LastAttempt(t)
        /\ attempt' = [attempt EXCEPT ![t] = @ + 1]
        /\ UNCHANGED <<at, score>>

Became(t, step, s) ==
  /\ at' = [at EXCEPT ![t] = step]
  /\ score' = [score EXCEPT ![t] = s]

\* A failed tested call ends the task: no judge, score zero.
TestedFailed(t) == Became(t, "done", "failed")

CallTested(t) ==
  /\ Call(t, "tested", Became(t, "judge", "none"), TestedFailed(t))
  /\ UNCHANGED <<dir, shown, records, caller>>

\* A judge that fails, or whose answer has no score, leaves the rule score or a fallback.
CallJudge(t) ==
  /\ Call(t, "judge", Became(t, "done", "judged") \/ Became(t, "done", "fallback"),
          Became(t, "done", "fallback"))
  /\ UNCHANGED <<dir, shown, records, caller>>

\* auth_value, an events file or a response file raises.
TaskRaises(t) ==
  /\ at[t] \in Busy
  /\ at' = [at EXCEPT ![t] = "raised"]
  /\ UNCHANGED <<dir, shown, records, caller, attempt, requests, score>>

\* The pool takes the tasks in the order they were submitted, as threads get free.
StartInPool(t) ==
  /\ ~Serial
  /\ pc # "crashed"
  /\ t <= submitted
  /\ at[t] = "waiting"
  /\ \A u \in Tasks : u < t => at[u] # "waiting"
  /\ Cardinality(Running) < max_concurrency
  /\ at' = [at EXCEPT ![t] = "tested"]
  /\ UNCHANGED <<dir, shown, records, caller, attempt, requests, score>>

Evaluate(t) ==
  /\ pc # "crashed"
  /\ CallTested(t) \/ CallJudge(t) \/ TaskRaises(t)

-----------------------------------------------------------------------------
(* The calling thread                                                      *)

Finished(t) == at[t] = "done"

\* Slip: leave the pool without waiting for its threads.
RaiseAtOnce == "raised"
RaiseFromPool == "draining"

\* max_concurrency == 1: the task is written to state.json and evaluated right here ...
SerialStart ==
  /\ pc = "serial"
  /\ Next1 <= TaskCount
  /\ at[Next1] = "waiting"
  /\ at' = [at EXCEPT ![Next1] = "tested"]
  /\ UNCHANGED <<dir, shown, records, caller, attempt, requests, score>>

\* ... and its outcome kept, or its exception passed on.
SerialEnd ==
  /\ pc = "serial"
  /\ Next1 <= TaskCount
  /\ \/ /\ Finished(Next1)
        /\ outcomes' = Append(outcomes, Next1)
        /\ shown' = Len(outcomes) + 1
        /\ UNCHANGED pc
     \/ /\ at[Next1] = "raised"
        /\ Goto("raised")
        /\ UNCHANGED <<outcomes, shown>>
  /\ UNCHANGED <<dir, records, submitted, problems, decision, exitCode, fixed>>

\* Else: write_state, and submit every task before waiting for the first
Announce ==
  /\ pc = "announce"
  /\ Goto("submit")
  /\ UNCHANGED <<dir, shown, records, submitted, outcomes, problems, decision, exitCode, fixed>>

Submit ==
  /\ pc = "submit"
  /\ submitted' = submitted + 1
  /\ Goto(IF submitted + 1 = TaskCount THEN "collect" ELSE "submit")
  /\ UNCHANGED <<dir, shown, records, outcomes, problems, decision, exitCode, fixed>>

\* as_completed: the outcomes come in the order the tasks end.  An exception leaves the
\* pool's with statement, which waits for every task that was submitted.
Collect(t) ==
  /\ pc = "collect"
  /\ t \notin Collected
  /\ \/ /\ Finished(t)
        /\ outcomes' = Append(outcomes, t)
        /\ shown' = Len(outcomes) + 1
        /\ UNCHANGED pc
     \/ /\ at[t] = "raised"
        /\ Goto(RaiseFromPool)
        /\ UNCHANGED <<outcomes, shown>>
  /\ UNCHANGED <<dir, records, submitted, problems, decision, exitCode, fixed>>

\* Slip: wait for tasks that were never submitted.
AllTasksOver == \A t \in Tasks : at[t] \in {"done", "raised"}
SubmittedTasksOver == \A t \in 1 .. submitted : at[t] \in {"done", "raised"}

Drained ==
  /\ pc = "draining"
  /\ SubmittedTasksOver
  /\ Goto("raised")
  /\ UNCHANGED <<dir, shown, records, submitted, outcomes, problems, decision, exitCode, fixed>>

\* Slip: keep the outcomes in the order they came.
AsCollected(found) == found

\* The sort of the outcomes by their index: in place i the value that fewer than i of
\* the outcomes are below, and no fewer than i are not above
InTaskOrder(found) ==
  LET below(t) == {j \in DOMAIN found : found[j] < t}
      upTo(t)  == {j \in DOMAIN found : found[j] <= t}
  IN [i \in DOMAIN found |-> CHOOSE t \in Tasks :
                               Cardinality(below(t)) < i /\ i <= Cardinality(upTo(t))]

\* Every outcome is there: run_records.jsonl, and the summaries made from the same list
WriteRecords ==
  /\ pc \in {"serial", "collect"}
  /\ Len(outcomes) = TaskCount
  /\ records' = InTaskOrder(outcomes)
  /\ Goto("validate")
  /\ UNCHANGED <<dir, shown, submitted, outcomes, problems, decision, exitCode, fixed>>

Validate ==
  /\ pc = "validate"
  /\ problems' \in BOOLEAN
  /\ Goto(IF TraceEnabled THEN "trace" ELSE "gate")
  /\ UNCHANGED <<dir, shown, records, submitted, outcomes, decision, exitCode, fixed>>

\* run_trace_evaluation: its id goes into state.json; its exception is a problem.
TraceEvaluation ==
  /\ pc = "trace"
  /\ \/ Goto("traced") /\ UNCHANGED problems
     \/ Goto("gate") /\ problems' = TRUE
  /\ UNCHANGED <<dir, shown, records, submitted, outcomes, decision, exitCode, fixed>>

SaveTraceId ==
  /\ pc = "traced"
  /\ Goto("gate")
  /\ UNCHANGED <<dir, shown, records, submitted, outcomes, problems, decision, exitCode, fixed>>

\* run_quality_gate: the first record's decision; its exception is a problem.
QualityGate ==
  /\ pc = "gate"
  /\ \/ decision' \in Decisions /\ UNCHANGED problems
     \/ decision' = "REVIEW" /\ problems' = TRUE
  /\ Goto("final")
  /\ UNCHANGED <<dir, shown, records, submitted, outcomes, exitCode, fixed>>

\* Slip: the status of the evidence files, whatever the gate had to say.
StatusOfRecords == IF records # <<>> THEN "completed" ELSE "partial"
FinalStatus == IF problems THEN "partial" ELSE "completed"

FinalState ==
  /\ pc = "final"
  /\ dir' = FinalStatus
  /\ Goto("report")
  /\ UNCHANGED <<shown, records, submitted, outcomes, problems, decision, exitCode, fixed>>

Return ==
  /\ pc = "report"
  /\ exitCode' = IF RequireGo /\ decision # "GO" THEN 2 ELSE 0
  /\ Goto("returned")
  /\ UNCHANGED <<dir, shown, records, submitted, outcomes, problems, decision, fixed>>

\* A file cannot be written: the exception leaves run_job, through the pool if inside it.
CallerRaises ==
  /\ pc \notin Ended \cup {"mkdir", "draining"}
  /\ pc = "serial" => Running = {}
  /\ Goto(IF pc \in {"submit", "collect"} THEN RaiseFromPool ELSE "raised")
  /\ UNCHANGED <<dir, shown, records, submitted, outcomes, problems, decision, exitCode, fixed>>

\* The process is killed, in the middle of a write of state.json or elsewhere.
Crash ==
  /\ pc \notin Ended
  /\ \/ UNCHANGED dir
     \/ pc \in Writing /\ dir' = "torn"
  /\ Goto("crashed")
  /\ UNCHANGED <<shown, records, submitted, outcomes, problems, decision, exitCode, fixed>>

Caller ==
  \/ MakeDir \/ FirstState \/ SerialStart \/ SerialEnd \/ Announce \/ Submit
  \/ (\E t \in Tasks : Collect(t)) \/ Drained \/ WriteRecords \/ Validate
  \/ TraceEvaluation \/ SaveTraceId \/ QualityGate \/ FinalState \/ Return

Next ==
  \/ Caller
  \/ \E t \in Tasks : StartInPool(t) \/ Evaluate(t)
  \/ CallerRaises
  \/ Crash

Spec == Init /\ [][Next]_vars

(* The calling thread and the threads of the pool keep running; a request  *)
(* has a time-out, so a call ends.                                         *)
FairSpec ==
  /\ Spec
  /\ WF_vars(Caller)
  /\ \A t \in Tasks : WF_vars(StartInPool(t)) /\ WF_vars(Evaluate(t))

-----------------------------------------------------------------------------
TypeOK ==
  /\ dir \in RunStates
  /\ shown \in 0 .. TaskCount
  /\ records \in Seq(Tasks)
  /\ outcomes \in Seq(Tasks)
  /\ max_concurrency \in Concurrency
  /\ submitted \in 0 .. TaskCount
  /\ problems \in BOOLEAN
  /\ decision \in Decisions \cup {"none"}
  /\ exitCode \in {0, 2}
  /\ at \in [Tasks -> TaskSteps]
  /\ attempt \in [Tasks -> 1 .. Retries + 1]
  /\ requests \in [Tasks -> [tested : 0 .. Retries + 1, judge : 0 .. Retries + 1]]
  /\ score \in [Tasks -> {"none", "failed", "fallback", "judged"}]

(* No model is asked once too often or too seldom: a call under way has    *)
(* sent one request for each attempt before, none sends more than the      *)
(* retries allow, the judge is asked only about an answer, and a score     *)
(* rests on requests that were sent (call_model_with_retries).             *)
CallsAccounted ==
  \A t \in Tasks :
    /\ \A who \in Busy : requests[t][who] <= Retries + 1
    /\ at[t] \in Busy => requests[t][at[t]] = attempt[t] - 1
    /\ requests[t].judge > 0 => requests[t].tested > 0 /\ score[t] # "failed"
    /\ score[t] # "none" => requests[t].tested > 0
    /\ score[t] \in {"judged", "fallback"} => requests[t].judge > 0

(* Whatever order the pool's threads end in, the records are written in    *)
(* the order of the tasks, one for each.                                   *)
RecordsInOrder == records # <<>> => records = [t \in Tasks |-> t]

(* No thread of the pool is still at work once run_job returned or raised: *)
(* the next round's run never shares the models with this one.             *)
QuietAfterEnd ==
  pc \in {"returned", "raised"} => \A t \in 1 .. submitted : at[t] \in {"done", "raised"}

(* A run is "completed" only with a record for every task, a gate that did *)
(* decide, and nothing to complain about.                                  *)
CompletedIsWhole ==
  pc \notin {"mkdir", "raised", "crashed"} /\ dir = "completed" =>
    /\ Len(records) = TaskCount
    /\ \A t \in Tasks : at[t] = "done" /\ score[t] # "none"
    /\ decision # "none" /\ ~problems

(* The progress in state.json is the number of outcomes in hand: no task   *)
(* that raised and no task that is still at work is counted.               *)
ProgressTruthful ==
  /\ shown = Len(outcomes)
  /\ \A t \in Collected : at[t] = "done"
  /\ Cardinality(Collected) = Len(outcomes)

(* What is told of the outcomes of a run, while it goes on and in the end, *)
(* is theirs, one for one, however the pool's threads overtake each other. *)
OutcomesTold == ProgressTruthful /\ RecordsInOrder

(* A run that is not killed ends.                                          *)
RunEnds == <>(pc \in Ended)

\* How run_job ended, as ChildRun has it
EndedAs ==
  CASE pc = "returned" -> "returned"
    [] pc = "raised" -> "raised"
    [] pc = "crashed" -> "killed"
    [] OTHER -> "no"

Child == INSTANCE ChildRun WITH ended <- EndedAs

(* What a campaign relies on: a directory of its own, a status that only   *)
(* moves forward, and a return only after the final status was written.    *)
ImplementsChildRun == Child!ChildSpec
=============================================================================
