---------------------------- MODULE RunJobProofs ----------------------------
(***************************************************************************)
(* What one evaluation run keeps, for any number of tasks, threads and     *)
(* retries: its calls are accounted for, what it tells of the outcomes is  *)
(* theirs, its threads are quiet when it ends, a completed run is whole,   *)
(* and it is a ChildRun to the campaign that started it.                   *)
(***************************************************************************)
EXTENDS RunJob, FiniteSetTheorems, TLAPS

Labels ==
  {"mkdir", "firstState", "serial", "announce", "submit", "collect", "draining", "validate",
   "trace", "traced", "gate", "final", "report"} \cup Ended

\* Every outcome is in hand and the pool is left.
After == {"validate", "trace", "traced", "gate", "final", "report", "returned"}

\* Nothing is handed to the pool's threads or collected yet.
Before == {"mkdir", "firstState", "announce", "submit"}

\* What the tasks of a run have sent, and what their scores rest on, at each of their steps
CallLedger ==
  \A t \in Tasks :
    /\ at[t] = "waiting" => requests[t].tested = 0 /\ attempt[t] = 1
    /\ at[t] \in {"waiting", "tested"} => requests[t].judge = 0
    /\ at[t] \in Busy => requests[t][at[t]] = attempt[t] - 1
    /\ at[t] \in {"judge", "done"} => requests[t].tested > 0
    /\ requests[t].judge > 0 => requests[t].tested > 0
    /\ at[t] = "done" <=> score[t] # "none"
    /\ score[t] = "failed" => requests[t].judge = 0
    /\ score[t] \in {"judged", "fallback"} => requests[t].judge > 0

\* The threads: which tasks may have begun, while the calling thread is where it is
ThreadsInStep ==
  /\ pc \in {"mkdir", "firstState", "serial", "announce"} \/ Serial => submitted = 0
  /\ pc \in {"announce", "submit"} => submitted < TaskCount
  /\ pc \in {"mkdir", "firstState"} => \A t \in Tasks : at[t] = "waiting"
  /\ Serial => pc \notin {"announce", "submit", "collect", "draining"}
  /\ Serial => \A t \in Tasks : at[t] \in Busy => pc \in {"serial", "crashed"}
  /\ pc = "serial" => Serial /\ Collected = 1 .. Len(outcomes)
                      /\ \A t \in Tasks : t > Next1 => at[t] = "waiting"
  /\ ~Serial => \A t \in Tasks : at[t] # "waiting" => t <= submitted
  /\ pc \in {"returned", "raised"} => \A t \in 1 .. submitted : at[t] \in {"done", "raised"}

\* The outcomes: one of each task that is done and collected
OutcomesInStep ==
  /\ shown = Len(outcomes)
  /\ \A t \in Collected : at[t] = "done"
  /\ Cardinality(Collected) = Len(outcomes)
  /\ pc \in Before => outcomes = <<>>
  /\ pc \in After => Len(outcomes) = TaskCount

\* The files: the status, and the records once they are written
FilesInStep ==
  /\ pc = "firstState" => dir = "empty"
  /\ pc \in {"serial", "announce", "submit", "collect", "draining"} \cup (After \ {"report", "returned"})
       => dir = "running"
  /\ pc \in {"report", "returned"} => dir = FinalStatus
  /\ RecordsInOrder
  /\ pc \in After => records # <<>>
  /\ pc \in {"final", "report", "returned"} => decision # "none"

\* The inductive invariant
RunInv == TypeOK /\ pc \in Labels /\ CallLedger /\ ThreadsInStep /\ OutcomesInStep /\ FilesInStep
-----------------------------------------------------------------------------
\* The tasks are finitely many, and so are the outcomes collected.
LEMMA CollectedFinite ==
  ASSUME outcomes \in Seq(Tasks)
  PROVE  /\ Collected \subseteq Tasks /\ IsFiniteSet(Collected)
         /\ IsFiniteSet(Tasks) /\ Cardinality(Tasks) = TaskCount
<1>1. TaskCount \in Nat /\ TaskCount > 0
  BY RunJobAssumption
<1>2. IsFiniteSet(Tasks) /\ Cardinality(Tasks) = TaskCount
  BY <1>1, FS_Interval DEF Tasks
<1>3. Collected \subseteq Tasks
  BY DEF Collected
<1> QED BY <1>2, <1>3, FS_Subset

\* One more outcome is one more task.
LEMMA CollectedGrows ==
  ASSUME outcomes \in Seq(Tasks), NEW t \in Tasks, outcomes' = Append(outcomes, t),
         t \notin Collected, Cardinality(Collected) = Len(outcomes)
  PROVE  /\ Collected' = Collected \cup {t}
         /\ Cardinality(Collected') = Len(outcomes')
         /\ Len(outcomes') = Len(outcomes) + 1
         /\ outcomes' \in Seq(Tasks)
<1>1. /\ outcomes' \in Seq(Tasks) /\ Len(outcomes') = Len(outcomes) + 1
      /\ \A i \in 1 .. Len(outcomes) : outcomes'[i] = outcomes[i]
      /\ outcomes'[Len(outcomes) + 1] = t
  OBVIOUS
<1>2. DOMAIN outcomes = 1 .. Len(outcomes) /\ DOMAIN outcomes' = 1 .. (Len(outcomes) + 1)
  BY <1>1
<1>3. Collected' = Collected \cup {t}
  <2>1. Collected = {outcomes[i] : i \in 1 .. Len(outcomes)}
        /\ Collected' = {outcomes'[i] : i \in 1 .. (Len(outcomes) + 1)}
    BY <1>2 DEF Collected
  <2>2. 1 .. (Len(outcomes) + 1) = (1 .. Len(outcomes)) \cup {Len(outcomes) + 1}
    OBVIOUS
  <2>3. Collected' = {outcomes'[i] : i \in 1 .. Len(outcomes)} \cup {outcomes'[Len(outcomes) + 1]}
    BY <2>1, <2>2
  <2>4. {outcomes'[i] : i \in 1 .. Len(outcomes)} = Collected
    BY <1>1, <2>1
  <2> QED BY <1>1, <2>3, <2>4
<1>4. Cardinality(Collected') = Cardinality(Collected) + 1
  BY <1>3, CollectedFinite, FS_AddElement
<1> QED BY <1>1, <1>3, <1>4

\* When there are as many outcomes as tasks, there is one of each.
LEMMA AllCollected ==
  ASSUME outcomes \in Seq(Tasks), Cardinality(Collected) = Len(outcomes), Len(outcomes) = TaskCount
  PROVE  Collected = Tasks
BY CollectedFinite, FS_Subset

\* Outcomes of all tasks, in whatever order they came, are sorted into the order of the tasks.
LEMMA SortedByTask ==
  ASSUME outcomes \in Seq(Tasks), Collected = Tasks, Len(outcomes) = TaskCount
  PROVE  InTaskOrder(outcomes) = [t \in Tasks |-> t]
<1> DEFINE below(t) == {j \in DOMAIN outcomes : outcomes[j] < t}
           upTo(t)  == {j \in DOMAIN outcomes : outcomes[j] <= t}
<1>1. /\ TaskCount \in Nat /\ DOMAIN outcomes = Tasks /\ IsFiniteSet(Tasks)
      /\ outcomes \in [Tasks -> Tasks] /\ Tasks = 1 .. TaskCount
  BY RunJobAssumption, CollectedFinite DEF Tasks
<1>2. outcomes \in Surjection(Tasks, Tasks)
  BY <1>1 DEF Surjection, Collected
<1>3. outcomes \in Injection(Tasks, Tasks)
  BY <1>1, <1>2, FS_SurjSameCardinalityImpliesInj
<1>4. ASSUME NEW T \in SUBSET Tasks
      PROVE  Cardinality({j \in Tasks : outcomes[j] \in T}) = Cardinality(T)
  <2> DEFINE J == {j \in Tasks : outcomes[j] \in T}
             f == [j \in J |-> outcomes[j]]
  <2>1. f \in Bijection(J, T)
    BY <1>1, <1>2, <1>3 DEF Bijection, Injection, IsInjective, Surjection
  <2>2. IsFiniteSet(J)
    BY <1>1, FS_Subset
  <2> QED BY <2>1, <2>2, FS_Bijection DEF ExistsBijection
<1>5. ASSUME NEW t \in Tasks
      PROVE  Cardinality(below(t)) = t - 1 /\ Cardinality(upTo(t)) = t
  <2>1. t \in Nat /\ t >= 1 /\ t <= TaskCount /\ 1 .. (t - 1) \subseteq Tasks /\ 1 .. t \subseteq Tasks
    BY <1>1
  <2>2. below(t) = {j \in Tasks : outcomes[j] \in 1 .. (t - 1)}
        /\ upTo(t) = {j \in Tasks : outcomes[j] \in 1 .. t}
    BY <1>1, <2>1
  <2>3. Cardinality(1 .. (t - 1)) = t - 1 /\ Cardinality(1 .. t) = t
    <3>1. \A n \in Nat : Cardinality(1 .. n) = n
      BY FS_Interval
    <3> QED BY <2>1, <3>1
  <2> QED BY <1>4, <2>1, <2>2, <2>3
<1>6. ASSUME NEW i \in Tasks
      PROVE  (CHOOSE t \in Tasks : Cardinality(below(t)) < i /\ i <= Cardinality(upTo(t))) = i
  <2>1. \A t \in Tasks : (Cardinality(below(t)) < i /\ i <= Cardinality(upTo(t))) <=> t = i
    <3>1. \A t \in Tasks : Cardinality(below(t)) = t - 1 /\ Cardinality(upTo(t)) = t
      BY <1>5
    <3> HIDE DEF below, upTo
    <3> QED BY <1>1, <3>1
  <2> HIDE DEF below, upTo
  <2> QED BY <2>1
<1> HIDE DEF below, upTo
<1>7. InTaskOrder(outcomes)
        = [i \in Tasks |-> CHOOSE t \in Tasks : Cardinality(below(t)) < i /\ i <= Cardinality(upTo(t))]
  BY <1>1 DEF InTaskOrder, below, upTo
<1> QED BY <1>6, <1>7

-----------------------------------------------------------------------------
(* The invariant, one lemma per part of it.                                *)

LEMMA RunInit == Init => RunInv
<1> SUFFICES ASSUME Init PROVE RunInv
  OBVIOUS
<1>1. TaskCount \in Nat \ {0} /\ Retries \in Nat /\ Concurrency \subseteq Tasks
  BY RunJobAssumption
<1>2. outcomes = <<>> /\ Collected = {} /\ Cardinality(Collected) = 0 /\ outcomes \in Seq(Tasks)
  <2>1. outcomes = <<>> /\ outcomes \in Seq(Tasks)
    BY DEF Init
  <2>2. Collected = {}
    BY <2>1 DEF Collected
  <2> QED BY <2>1, <2>2, FS_EmptySet
<1>3. TypeOK
  <2>1. records \in Seq(Tasks) /\ shown \in 0 .. TaskCount /\ submitted \in 0 .. TaskCount
    BY <1>1 DEF Init
  <2>2. /\ attempt \in [Tasks -> 1 .. Retries + 1]
        /\ requests \in [Tasks -> [tested : 0 .. Retries + 1, judge : 0 .. Retries + 1]]
    BY <1>1 DEF Init
  <2> QED BY <1>2, <2>1, <2>2 DEF Init, TypeOK, TaskSteps, Decisions
<1>4. CallLedger
  BY DEF Init, CallLedger, Busy
<1>5. ThreadsInStep
  BY <1>1 DEF Init, ThreadsInStep, Busy, Ended
<1>6. OutcomesInStep /\ FilesInStep /\ pc \in Labels
  BY <1>2 DEF Init, OutcomesInStep, FilesInStep, RecordsInOrder, After, Labels
<1> QED BY <1>3, <1>4, <1>5, <1>6 DEF RunInv

\* One more request of a task: it stays within the retries.
LEMMA OneMoreRequest ==
  ASSUME TypeOK, CallLedger, NEW t \in Tasks, NEW who \in Busy, at[t] = who,
         requests' = [requests EXCEPT ![t][who] = @ + 1]
  PROVE  /\ requests' \in [Tasks -> [tested : 0 .. Retries + 1, judge : 0 .. Retries + 1]]
         /\ \A u \in Tasks \ {t} : requests'[u] = requests[u]
         /\ \A w \in Busy : requests'[t][w] = IF w = who THEN attempt[t] ELSE requests[t][w]
<1>1. Retries \in Nat /\ attempt[t] \in 1 .. Retries + 1 /\ requests[t][who] = attempt[t] - 1
  BY RunJobAssumption DEF TypeOK, CallLedger
<1>2. requests \in [Tasks -> [tested : 0 .. Retries + 1, judge : 0 .. Retries + 1]]
  BY DEF TypeOK
<1>3. /\ requests'[t] = [requests[t] EXCEPT ![who] = @ + 1]
      /\ \A u \in Tasks \ {t} : requests'[u] = requests[u]
      /\ requests' = [requests EXCEPT ![t] = requests'[t]]
  BY <1>2
<1>4. requests[t] \in [tested : 0 .. Retries + 1, judge : 0 .. Retries + 1]
  BY <1>2
<1>5. /\ requests'[t] \in [tested : 0 .. Retries + 1, judge : 0 .. Retries + 1]
      /\ \A w \in Busy : requests'[t][w] = IF w = who THEN attempt[t] ELSE requests[t][w]
  BY <1>1, <1>3, <1>4 DEF Busy
<1> QED BY <1>2, <1>3, <1>5

\* A step of a call: its requests, its attempts, and what the score rests on
LEMMA CallStep ==
  ASSUME RunInv, NEW t \in Tasks, CallTested(t) \/ CallJudge(t)
  PROVE  TypeOK' /\ CallLedger'
<1> USE RunJobAssumption DEF RunInv
<1> DEFINE who == at[t]
<1>1. /\ who \in Busy /\ requests' = [requests EXCEPT ![t][who] = @ + 1]
      /\ UNCHANGED <<dir, shown, records, caller>>
  BY DEF CallTested, CallJudge, Call, Busy
<1>2. /\ requests' \in [Tasks -> [tested : 0 .. Retries + 1, judge : 0 .. Retries + 1]]
      /\ \A u \in Tasks \ {t} : requests'[u] = requests[u]
      /\ \A w \in Busy : requests'[t][w] = IF w = who THEN attempt[t] ELSE requests[t][w]
  BY <1>1, OneMoreRequest
<1>3. /\ at \in [Tasks -> TaskSteps] /\ attempt \in [Tasks -> 1 .. Retries + 1]
      /\ score \in [Tasks -> {"none", "failed", "fallback", "judged"}]
      /\ attempt[t] \in Nat /\ attempt[t] > 0
  BY DEF TypeOK
<1>4. CASE UNCHANGED <<at, score>> /\ ~LastAttempt(t) /\ attempt' = [attempt EXCEPT ![t] = @ + 1]
  <2>1. attempt' \in [Tasks -> 1 .. Retries + 1]
    BY <1>3, <1>4 DEF LastAttempt
  <2>2. TypeOK'
    BY <1>1, <1>2, <1>4, <2>1 DEF TypeOK, caller
  <2>3. CallLedger'
    BY <1>1, <1>2, <1>3, <1>4 DEF CallLedger, Busy
  <2> QED BY <2>2, <2>3
<1>5. ASSUME NEW step \in {"judge", "done"}, NEW s \in {"none", "failed", "fallback", "judged"},
             Became(t, step, s), attempt' = [attempt EXCEPT ![t] = 1],
             \/ who = "tested" /\ step = "judge" /\ s = "none"
             \/ who = "tested" /\ step = "done" /\ s = "failed"
             \/ who = "judge" /\ step = "done" /\ s \in {"judged", "fallback"}
      PROVE  TypeOK' /\ CallLedger'
  <2>1. /\ attempt' \in [Tasks -> 1 .. Retries + 1] /\ at' \in [Tasks -> TaskSteps]
        /\ score' \in [Tasks -> {"none", "failed", "fallback", "judged"}]
    BY <1>3, <1>5 DEF Became, TaskSteps
  <2>2. TypeOK'
    BY <1>1, <1>2, <2>1 DEF TypeOK, caller
  <2>3. CallLedger'
    BY <1>1, <1>2, <1>3, <1>5 DEF CallLedger, Became, Busy
  <2> QED BY <2>2, <2>3
<1>6. CASE CallTested(t)
  BY <1>4, <1>5, <1>6 DEF CallTested, Call, TestedFailed
<1>7. CASE CallJudge(t)
  BY <1>4, <1>5, <1>7 DEF CallJudge, Call
<1> QED BY <1>6, <1>7

\* Every other step of a task
LEMMA TaskStep ==
  ASSUME RunInv, NEW t \in Tasks, StartInPool(t) \/ SerialStart \/ TaskRaises(t)
  PROVE  TypeOK' /\ CallLedger'
<1> USE RunJobAssumption DEF RunInv, TypeOK, CallLedger, Busy, TaskSteps, caller
<1>1. CASE StartInPool(t)
  BY <1>1 DEF StartInPool
<1>2. CASE SerialStart
  <2>1. Next1 \in Tasks /\ at[Next1] = "waiting" /\ at' = [at EXCEPT ![Next1] = "tested"]
    BY <1>2 DEF SerialStart, Next1, Tasks
  <2> QED BY <1>2, <2>1 DEF SerialStart
<1>3. CASE TaskRaises(t)
  BY <1>3 DEF TaskRaises
<1> QED BY <1>1, <1>2, <1>3

\* The outcome of a task that is done is taken.
LEMMA OutcomeTaken ==
  ASSUME RunInv, NEW t \in Tasks, at[t] = "done", t \notin Collected,
         outcomes' = Append(outcomes, t), shown' = Len(outcomes) + 1, UNCHANGED <<pc, at>>,
         pc \in {"serial", "collect"}
  PROVE  OutcomesInStep' /\ outcomes' \in Seq(Tasks) /\ shown' \in 0 .. TaskCount
<1>1. outcomes \in Seq(Tasks) /\ Cardinality(Collected) = Len(outcomes)
  BY DEF RunInv, TypeOK, OutcomesInStep
<1>2. /\ Collected' = Collected \cup {t} /\ Cardinality(Collected') = Len(outcomes')
      /\ Len(outcomes') = Len(outcomes) + 1 /\ outcomes' \in Seq(Tasks)
  BY <1>1, CollectedGrows
<1>3. Collected' \subseteq Tasks
  BY <1>1, <1>2, CollectedFinite
<1>4. Cardinality(Collected') <= TaskCount
  BY <1>1, <1>3, CollectedFinite, FS_Subset
<1>5. OutcomesInStep'
  BY <1>2 DEF RunInv, OutcomesInStep, Before, After
<1>6. Len(outcomes') \in Nat
  BY <1>2
<1> QED BY <1>1, <1>2, <1>4, <1>5, <1>6, RunJobAssumption

\* The outcomes stay those of tasks that are done, whoever makes a step.
LEMMA OutcomesKept ==
  ASSUME RunInv, [Next]_vars
  PROVE  OutcomesInStep' /\ outcomes' \in Seq(Tasks) /\ shown' \in 0 .. TaskCount
<1> DEFINE Goal == OutcomesInStep' /\ outcomes' \in Seq(Tasks) /\ shown' \in 0 .. TaskCount
<1>1. outcomes \in Seq(Tasks) /\ shown \in 0 .. TaskCount /\ OutcomesInStep
      /\ Collected \subseteq Tasks /\ pc \in Labels
  BY CollectedFinite DEF RunInv, TypeOK
<1>2. ASSUME UNCHANGED <<outcomes, shown>>, \A t \in Tasks : at[t] = "done" => at'[t] = "done",
             pc' \in After => Len(outcomes) = TaskCount, pc' \in Before => outcomes = <<>>
      PROVE  Goal
  BY <1>1, <1>2 DEF OutcomesInStep, Collected
<1>3. CASE UNCHANGED vars
  BY <1>1, <1>2, <1>3 DEF vars, caller, tasks, OutcomesInStep
<1>4. ASSUME NEW t \in Tasks, StartInPool(t) \/ Evaluate(t)
      PROVE  Goal
  <2>1. UNCHANGED <<outcomes, shown, pc>> /\ at[t] \in {"waiting", "tested", "judge"}
    BY <1>4 DEF StartInPool, Evaluate, CallTested, CallJudge, Call, TaskRaises, caller, Busy
  <2>2. \A u \in Tasks : u # t => at'[u] = at[u]
    BY <1>4 DEF StartInPool, Evaluate, CallTested, CallJudge, Call, Became, TestedFailed, TaskRaises,
                RunInv, TypeOK
  <2> QED BY <1>1, <1>2, <2>1, <2>2 DEF OutcomesInStep
<1>5. CASE SerialStart
  BY <1>1, <1>2, <1>5 DEF SerialStart, caller, RunInv, TypeOK, OutcomesInStep
<1>6. CASE SerialEnd
  <2>1. CASE Finished(Next1) /\ outcomes' = Append(outcomes, Next1) /\ shown' = Len(outcomes) + 1
             /\ UNCHANGED pc
    <3>1. Next1 \in Tasks /\ Next1 \notin Collected /\ pc = "serial" /\ at' = at
      BY <1>6, RunJobAssumption DEF SerialEnd, Next1, Tasks, RunInv, ThreadsInStep, fixed, tasks
    <3> QED BY <2>1, <3>1, OutcomeTaken DEF Finished
  <2>2. CASE Goto("raised") /\ UNCHANGED <<outcomes, shown>>
    BY <1>2, <1>6, <2>2 DEF SerialEnd, Goto, Before, After, fixed, tasks
  <2> QED BY <1>6, <2>1, <2>2 DEF SerialEnd
<1>7. ASSUME NEW t \in Tasks, Collect(t)
      PROVE  Goal
  <2>1. CASE Finished(t) /\ outcomes' = Append(outcomes, t) /\ shown' = Len(outcomes) + 1
             /\ UNCHANGED pc
    <3>1. t \notin Collected /\ pc = "collect" /\ at' = at
      BY <1>7 DEF Collect, fixed, tasks
    <3> QED BY <2>1, <3>1, OutcomeTaken DEF Finished
  <2>2. CASE Goto(RaiseFromPool) /\ UNCHANGED <<outcomes, shown>>
    BY <1>2, <1>7, <2>2 DEF Collect, Goto, RaiseFromPool, Before, After, fixed, tasks
  <2> QED BY <1>7, <2>1, <2>2 DEF Collect
<1>8. CASE \/ MakeDir \/ FirstState \/ Announce \/ Submit \/ Drained \/ WriteRecords \/ Validate
           \/ TraceEvaluation \/ SaveTraceId \/ QualityGate \/ FinalState \/ Return
           \/ CallerRaises \/ Crash
  <2>1. UNCHANGED <<outcomes, shown, at>>
    BY <1>8 DEF MakeDir, FirstState, Announce, Submit, Drained, WriteRecords, Validate,
         TraceEvaluation, SaveTraceId, QualityGate, FinalState, Return, CallerRaises, Crash, fixed, tasks
  <2>2. /\ pc' \in After => pc \in After \/ Len(outcomes) = TaskCount
        /\ pc' \in Before => pc \in Before
    BY <1>8 DEF MakeDir, FirstState, Announce, Submit, Drained, WriteRecords, Validate, RaiseFromPool,
         TraceEvaluation, SaveTraceId, QualityGate, FinalState, Return, CallerRaises, Crash, Ended, Before,
         After, Goto
  <2> QED BY <1>1, <1>2, <2>1, <2>2 DEF OutcomesInStep
<1> QED BY <1>3, <1>4, <1>5, <1>6, <1>7, <1>8 DEF Next, Caller

\* The records are those of all the tasks, in order.
LEMMA RecordsKept ==
  ASSUME RunInv, WriteRecords
  PROVE  records' = [t \in Tasks |-> t] /\ records' \in Seq(Tasks) /\ records' # <<>>
<1>1. outcomes \in Seq(Tasks) /\ Cardinality(Collected) = Len(outcomes) /\ Len(outcomes) = TaskCount
  BY DEF RunInv, TypeOK, OutcomesInStep, WriteRecords
<1>2. records' = [t \in Tasks |-> t]
  BY <1>1, AllCollected, SortedByTask DEF WriteRecords
<1>3. Tasks = 1 .. TaskCount /\ TaskCount \in Nat \ {0}
  BY RunJobAssumption DEF Tasks
<1> QED BY <1>2, <1>3

\* A step of the calling thread leaves the tasks alone, except for SerialStart.
LEMMA CallerTypes ==
  ASSUME RunInv,
         \/ MakeDir \/ FirstState \/ SerialEnd \/ Announce \/ Submit
         \/ (\E t \in Tasks : Collect(t)) \/ Drained \/ WriteRecords \/ Validate
         \/ TraceEvaluation \/ SaveTraceId \/ QualityGate \/ FinalState \/ Return
         \/ CallerRaises \/ Crash
  PROVE  TypeOK' /\ CallLedger' /\ UNCHANGED tasks
<1>1. UNCHANGED tasks /\ max_concurrency' = max_concurrency
  BY DEF MakeDir, FirstState, SerialEnd, Announce, Submit, Collect, Drained, WriteRecords, Validate,
         TraceEvaluation, SaveTraceId, QualityGate, FinalState, Return, CallerRaises, Crash, fixed
<1>2. CallLedger'
  BY <1>1 DEF RunInv, CallLedger, tasks
<1>3. /\ max_concurrency' \in Concurrency /\ at' \in [Tasks -> TaskSteps]
      /\ attempt' \in [Tasks -> 1 .. Retries + 1]
      /\ requests' \in [Tasks -> [tested : 0 .. Retries + 1, judge : 0 .. Retries + 1]]
      /\ score' \in [Tasks -> {"none", "failed", "fallback", "judged"}]
  BY <1>1 DEF RunInv, TypeOK, tasks
<1>4. dir' \in RunStates /\ problems' \in BOOLEAN /\ decision' \in Decisions \cup {"none"}
      /\ exitCode' \in {0, 2}
  BY DEF MakeDir, FirstState, SerialEnd, Announce, Submit, Collect, Drained, WriteRecords, Validate,
         TraceEvaluation, SaveTraceId, QualityGate, FinalState, FinalStatus, Return, CallerRaises, Crash,
         RunInv, TypeOK, RunStates, FinalStates, Decisions
<1>5. submitted' \in 0 .. TaskCount
  <2>1. CASE Submit
    BY <2>1, RunJobAssumption DEF Submit, RunInv, TypeOK, ThreadsInStep
  <2>2. CASE ~Submit
    BY <2>2
    DEF MakeDir, FirstState, SerialEnd, Announce, Collect, Drained, WriteRecords, Validate,
         TraceEvaluation, SaveTraceId, QualityGate, FinalState, Return, CallerRaises, Crash,
         RunInv, TypeOK
  <2> QED BY <2>1, <2>2
<1>6. outcomes' \in Seq(Tasks) /\ shown' \in 0 .. TaskCount
  BY OutcomesKept DEF Next, Caller
<1>7. records' \in Seq(Tasks)
  <2>1. CASE WriteRecords
    BY <2>1, RecordsKept
  <2>2. CASE ~WriteRecords
    BY <2>2
    DEF MakeDir, FirstState, SerialEnd, Announce, Submit, Collect, Drained, Validate,
         TraceEvaluation, SaveTraceId, QualityGate, FinalState, Return, CallerRaises, Crash,
         RunInv, TypeOK
  <2> QED BY <2>1, <2>2
<1> QED BY <1>1, <1>2, <1>3, <1>4, <1>5, <1>6, <1>7 DEF TypeOK

\* Every variable keeps its type, and every call its account.
LEMMA TypesKept == ASSUME RunInv, [Next]_vars PROVE TypeOK' /\ CallLedger'
<1>1. CASE UNCHANGED vars
  BY <1>1 DEF RunInv, TypeOK, CallLedger, vars, caller, tasks
<1>2. ASSUME NEW t \in Tasks, StartInPool(t) \/ Evaluate(t)
      PROVE  TypeOK' /\ CallLedger'
  BY <1>2, CallStep, TaskStep DEF Evaluate
<1>3. CASE SerialStart
  <2>1. 1 \in Tasks
    BY RunJobAssumption DEF Tasks
  <2> QED BY <1>3, <2>1, TaskStep
<1> QED BY <1>1, <1>2, <1>3, CallerTypes DEF Next, Caller

\* The threads keep in step with the calling thread.
LEMMA ThreadsKept == ASSUME RunInv, [Next]_vars PROVE ThreadsInStep'
<1>1. /\ TypeOK /\ ThreadsInStep /\ OutcomesInStep /\ outcomes \in Seq(Tasks) /\ pc \in Labels
      /\ TaskCount \in Nat /\ submitted \in Nat /\ submitted <= TaskCount /\ Tasks = 1 .. TaskCount
      /\ TaskCount > 0
  <2>1. TaskCount \in Nat /\ TaskCount > 0 /\ Tasks = 1 .. TaskCount
    BY RunJobAssumption DEF Tasks
  <2>2. submitted \in 0 .. TaskCount
    BY DEF RunInv, TypeOK
  <2> QED BY <2>1, <2>2 DEF RunInv, TypeOK
<1>0. UNCHANGED outcomes => UNCHANGED <<Collected, Next1>>
  BY DEF Collected, Next1
<1>2. CASE UNCHANGED vars
  BY <1>0, <1>1, <1>2 DEF ThreadsInStep, vars, caller, tasks, Serial
<1>3. ASSUME NEW t \in Tasks, StartInPool(t)
      PROVE  ThreadsInStep'
  <2>1. /\ ~Serial /\ t <= submitted /\ at[t] = "waiting" /\ at' = [at EXCEPT ![t] = "tested"]
        /\ UNCHANGED <<pc, submitted, max_concurrency>>
    BY <1>3 DEF StartInPool, caller
  <2>2. \A u \in Tasks : u # t => at'[u] = at[u]
    BY <1>1, <2>1 DEF TypeOK
  <2>3. submitted > 0 /\ pc \notin {"mkdir", "firstState", "serial", "announce"}
        /\ pc \notin {"returned", "raised"}
    BY <1>1, <2>1 DEF ThreadsInStep
  <2> QED BY <1>1, <2>1, <2>2, <2>3 DEF ThreadsInStep, Serial
<1>4. ASSUME NEW t \in Tasks, Evaluate(t)
      PROVE  ThreadsInStep'
  <2>1. /\ at[t] \in Busy /\ at' = [at EXCEPT ![t] = at'[t]] /\ at'[t] \in TaskSteps \ {"waiting"}
        /\ pc # "crashed" /\ UNCHANGED caller
    BY <1>1, <1>4 DEF Evaluate, CallTested, CallJudge, Call, Became, TestedFailed, TaskRaises, Busy,
                      TaskSteps, TypeOK
  <2>2. Serial => pc = "serial"
    BY <1>1, <2>1 DEF ThreadsInStep
  <2>3. pc = "serial" => t <= Next1
    BY <1>1, <2>1 DEF ThreadsInStep, Busy, Next1
  <2>4. \A u \in Tasks : u # t => at'[u] = at[u]
    BY <1>1, <2>1 DEF TypeOK
  <2>5. UNCHANGED <<pc, submitted, max_concurrency, Collected, Next1, outcomes>>
    BY <1>0, <2>1 DEF caller
  <2> QED BY <1>1, <2>1, <2>2, <2>3, <2>4, <2>5 DEF ThreadsInStep, Serial, Busy, Before, Next1
<1>5. CASE SerialStart
  <2>1. /\ pc = "serial" /\ Next1 \in Tasks /\ at' = [at EXCEPT ![Next1] = "tested"] /\ UNCHANGED caller
    BY <1>1, <1>5 DEF SerialStart, Next1
  <2>2. \A u \in Tasks : u # Next1 => at'[u] = at[u]
    BY <1>1, <2>1 DEF TypeOK
  <2>3. UNCHANGED <<pc, submitted, max_concurrency, Collected, Next1, outcomes>>
    BY <1>0, <2>1 DEF caller
  <2> QED BY <1>1, <2>1, <2>2, <2>3 DEF ThreadsInStep, Serial, Next1
<1>6. CASE SerialEnd
  <2>1. /\ pc = "serial" /\ Serial /\ Next1 \in Tasks /\ Next1 = Len(outcomes) + 1
        /\ UNCHANGED <<at, submitted, max_concurrency>> /\ submitted = 0
    BY <1>1, <1>6 DEF SerialEnd, fixed, tasks, Next1, ThreadsInStep
  <2>2. CASE Finished(Next1) /\ outcomes' = Append(outcomes, Next1) /\ UNCHANGED pc
    <3>1. Collected' = Collected \cup {Next1} /\ Len(outcomes') = Len(outcomes) + 1
      BY <1>1, <2>1, <2>2, CollectedGrows DEF ThreadsInStep, OutcomesInStep
    <3>2. Collected' = 1 .. Len(outcomes') /\ Next1' = Next1 + 1
      BY <1>1, <2>1, <3>1 DEF ThreadsInStep, Next1
    <3>3. \A t \in Tasks : t > Next1' => at'[t] = "waiting"
      BY <1>1, <2>1, <3>2 DEF ThreadsInStep
    <3> QED BY <1>1, <2>1, <2>2, <3>2, <3>3 DEF ThreadsInStep, Serial
  <2>3. CASE at[Next1] = "raised" /\ Goto("raised")
    <3>1. \A t \in Tasks : at[t] \notin Busy
      <4> SUFFICES ASSUME NEW t \in Tasks PROVE at[t] \notin Busy
        OBVIOUS
      <4>1. t > Next1 => at[t] = "waiting"
        BY <1>1, <2>1 DEF ThreadsInStep
      <4>2. t < Next1 => at[t] = "done"
        BY <1>1, <2>1 DEF ThreadsInStep, OutcomesInStep
      <4> QED BY <1>1, <2>1, <2>3, <4>1, <4>2 DEF Busy
    <3> QED BY <1>1, <2>1, <2>3, <3>1 DEF ThreadsInStep, Serial, Goto
  <2> QED BY <1>6, <2>2, <2>3 DEF SerialEnd
<1>7. ASSUME NEW t \in Tasks, Collect(t)
      PROVE  ThreadsInStep'
  BY <1>1, <1>7 DEF Collect, ThreadsInStep, Goto, RaiseFromPool, fixed, tasks, Serial
<1>8. CASE WriteRecords
  <2>1. Serial => \A t \in Tasks : at[t] \notin Busy
    <3>1. Collected = Tasks
      BY <1>1, <1>8, AllCollected DEF WriteRecords, OutcomesInStep
    <3> QED BY <1>1, <3>1 DEF OutcomesInStep, Busy
  <2> QED BY <1>1, <1>8, <2>1 DEF WriteRecords, ThreadsInStep, Goto, fixed, tasks, Serial
<1>9. CASE CallerRaises
  <2>1. CASE pc \in {"submit", "collect"}
    BY <1>1, <1>9, <2>1 DEF CallerRaises, ThreadsInStep, Goto, RaiseFromPool, fixed, tasks, Serial
  <2>2. CASE pc \in {"firstState", "announce", "serial"}
    BY <1>1, <1>9, <2>2 DEF CallerRaises, ThreadsInStep, Goto, fixed, tasks, Serial, Running
  <2>3. CASE pc \in After \ {"returned"}
    <3>1. Collected = Tasks
      BY <1>1, <2>3, AllCollected DEF OutcomesInStep
    <3>2. \A t \in Tasks : at[t] = "done"
      BY <1>1, <3>1 DEF OutcomesInStep
    <3> QED BY <1>1, <1>9, <2>3, <3>2 DEF CallerRaises, ThreadsInStep, Goto, After, fixed, tasks, Serial, Busy
  <2> QED BY <1>1, <1>9, <2>1, <2>2, <2>3 DEF CallerRaises, Labels, After, Ended
<1>10. CASE Return
  <2>1. Collected = Tasks
    BY <1>1, <1>10, AllCollected DEF OutcomesInStep, Return, After
  <2>2. \A t \in Tasks : at[t] = "done"
    BY <1>1, <2>1 DEF OutcomesInStep
  <2> QED BY <1>1, <1>10, <2>2 DEF Return, ThreadsInStep, Goto, fixed, tasks, Serial, Busy
<1>11. CASE Submit
  BY <1>1, <1>11 DEF Submit, ThreadsInStep, Goto, fixed, tasks, Serial
<1>12. CASE Drained
  BY <1>1, <1>12 DEF Drained, SubmittedTasksOver, ThreadsInStep, Goto, fixed, tasks, Serial
<1>13. CASE MakeDir \/ FirstState \/ Announce
  <2>1. pc' = "serial" => Collected' = 1 .. Len(outcomes')
    <3>1. outcomes = <<>> /\ outcomes' = <<>>
      BY <1>1, <1>13 DEF MakeDir, FirstState, Announce, OutcomesInStep, Before
    <3>2. Collected' = {} /\ Len(outcomes') = 0
      BY <3>1 DEF Collected
    <3> QED BY <3>2
  <2> QED BY <1>1, <1>13, <2>1 DEF MakeDir, FirstState, Announce, ThreadsInStep, Goto, fixed, tasks, Serial, Busy
<1>14. CASE Validate \/ TraceEvaluation \/ SaveTraceId \/ QualityGate \/ FinalState \/ Crash
  BY <1>1, <1>14 DEF Validate, TraceEvaluation, SaveTraceId, QualityGate, FinalState, Crash,
       ThreadsInStep, Goto, fixed, tasks, Serial
<1> QED BY <1>2, <1>3, <1>4, <1>5, <1>6, <1>7, <1>8, <1>9, <1>10, <1>11, <1>12, <1>13, <1>14 DEF Next, Caller

\* The files keep in step with the calling thread, which alone writes them.
LEMMA FilesKept == ASSUME RunInv, [Next]_vars PROVE FilesInStep' /\ pc' \in Labels
<1> USE DEF FilesInStep, Goto, Labels, After, Ended, RecordsInOrder, FinalStatus
<1>1. FilesInStep /\ pc \in Labels /\ OutcomesInStep
  BY DEF RunInv
<1>2. CASE UNCHANGED vars \/ SerialStart \/ \E t \in Tasks : StartInPool(t) \/ Evaluate(t)
  <2>1. UNCHANGED <<dir, records, pc, problems, decision>>
    BY <1>2 DEF vars, caller, SerialStart, StartInPool, Evaluate, CallTested, CallJudge, TaskRaises
  <2> QED BY <1>1, <2>1
<1>3. CASE MakeDir \/ FirstState \/ SerialEnd \/ Announce \/ Submit \/ Drained \/ CallerRaises
           \/ \E t \in Tasks : Collect(t)
  BY <1>1, <1>3 DEF MakeDir, FirstState, SerialEnd, Announce, Submit, Drained, CallerRaises, Collect,
                    RaiseFromPool, FinalStates
<1>4. CASE WriteRecords
  BY <1>1, <1>4, RecordsKept DEF WriteRecords
<1>5. CASE Validate \/ TraceEvaluation \/ SaveTraceId
  BY <1>1, <1>5 DEF Validate, TraceEvaluation, SaveTraceId
<1>6. CASE QualityGate
  BY <1>1, <1>6 DEF QualityGate, Decisions
<1>7. CASE FinalState \/ Return
  BY <1>1, <1>7 DEF FinalState, Return
<1>8. CASE Crash
  BY <1>1, <1>8 DEF Crash
<1> QED BY <1>2, <1>3, <1>4, <1>5, <1>6, <1>7, <1>8 DEF Next, Caller

\* The invariant holds of every run.
LEMMA RunInvariance == Spec => []RunInv
<1>1. RunInv /\ [Next]_vars => RunInv'
  BY TypesKept, ThreadsKept, OutcomesKept, FilesKept DEF RunInv
<1> QED BY <1>1, RunInit, PTL DEF Spec

-----------------------------------------------------------------------------
(* What follows from it                                                    *)

\* Every variable keeps its type, for any number of tasks, threads and retries.
THEOREM RunTypeCorrect == Spec => []TypeOK
<1>1. RunInv => TypeOK
  BY DEF RunInv
<1> QED BY <1>1, RunInvariance, PTL

\* Every call of a model is accounted for: none is asked once too often or too seldom,
\* the judge only about an answer, and every score rests on requests that were sent.
THEOREM CallsAreAccounted == Spec => []CallsAccounted
<1>1. RunInv => CallsAccounted
  BY DEF RunInv, TypeOK, CallLedger, CallsAccounted, Busy
<1> QED BY <1>1, RunInvariance, PTL

\* When run_job returns or raises, no thread of its pool is at work any more.
THEOREM EndedRunIsQuiet == Spec => []QuietAfterEnd
<1>1. RunInv => QuietAfterEnd
  BY DEF RunInv, ThreadsInStep, QuietAfterEnd
<1> QED BY <1>1, RunInvariance, PTL

\* The progress counts the tasks that are done, and the records have one of each, in
\* the order of the tasks, in whatever order the threads ended.
THEOREM OutcomesAreTold == Spec => []OutcomesTold
<1>1. RunInv => OutcomesTold
  BY DEF RunInv, OutcomesInStep, FilesInStep, OutcomesTold, ProgressTruthful
<1> QED BY <1>1, RunInvariance, PTL

\* A run that says it is completed has everything: records, scores and a decision.
THEOREM CompletedRunIsWhole == Spec => []CompletedIsWhole
<1>1. RunInv => CompletedIsWhole
  <2> SUFFICES ASSUME RunInv, pc \notin {"mkdir", "raised", "crashed"}, dir = "completed"
               PROVE  /\ Len(records) = TaskCount
                      /\ \A t \in Tasks : at[t] = "done" /\ score[t] # "none"
                      /\ decision # "none" /\ ~problems
    BY DEF CompletedIsWhole
  <2>1. pc \in {"report", "returned"} /\ ~problems /\ decision # "none"
    BY DEF RunInv, Labels, Ended, After, FilesInStep, FinalStatus
  <2>2. records = [t \in Tasks |-> t]
    BY <2>1 DEF RunInv, FilesInStep, RecordsInOrder, After
  <2>3. Len(records) = TaskCount
    BY <2>2, RunJobAssumption DEF Tasks
  <2>4. Collected = Tasks
    BY <2>1, AllCollected DEF RunInv, TypeOK, OutcomesInStep, After
  <2> QED BY <2>1, <2>3, <2>4 DEF RunInv, OutcomesInStep, CallLedger
<1> QED BY <1>1, RunInvariance, PTL

\* A step of the run is a step of the child run that its campaign knows, or none.
LEMMA ChildStep == RunInv /\ [Next]_vars => [Child!ChildNext]_(Child!childVars)
<1> SUFFICES ASSUME RunInv, [Next]_vars PROVE [Child!ChildNext]_(Child!childVars)
  OBVIOUS
<1> USE DEF Child!ChildNext, Child!childVars, EndedAs, Goto
<1>1. pc \in Labels /\ FilesInStep
  BY DEF RunInv
<1>2. CASE UNCHANGED vars \/ SerialStart \/ \E t \in Tasks : StartInPool(t) \/ Evaluate(t)
  BY <1>2 DEF vars, caller, SerialStart, StartInPool, Evaluate, CallTested, CallJudge, TaskRaises
<1>3. CASE MakeDir
  BY <1>3 DEF MakeDir, Free, Child!Create, Child!Raise
<1>4. CASE FirstState
  BY <1>1, <1>4 DEF FirstState, FilesInStep, Child!Open
<1>5. CASE \/ Announce \/ Submit \/ WriteRecords \/ Validate \/ TraceEvaluation \/ SaveTraceId \/ QualityGate
  BY <1>5 DEF Announce, Submit, WriteRecords, Validate, TraceEvaluation, SaveTraceId, QualityGate
<1>6. CASE SerialEnd \/ Drained \/ CallerRaises \/ \E t \in Tasks : Collect(t)
  BY <1>6 DEF SerialEnd, Drained, CallerRaises, Collect, RaiseFromPool, Ended, Child!Raise
<1>7. CASE FinalState
  BY <1>1, <1>7 DEF FinalState, FilesInStep, After, FinalStatus, Child!Finish, Child!FinalStates
<1>8. CASE Return
  BY <1>1, <1>8 DEF Return, FilesInStep, FinalStatus, Child!Return, Child!FinalStates
<1>9. CASE Crash
  BY <1>1, <1>9 DEF Crash, Writing, Ended, FilesInStep, After, Child!Kill
<1> QED BY <1>2, <1>3, <1>4, <1>5, <1>6, <1>7, <1>8, <1>9 DEF Next, Caller

\* A run implements what its campaign relies on: a directory of its own, a status that
\* only moves forward, and a return only after the final status was written.
THEOREM RunImplementsChild == Spec => ImplementsChildRun
<1>1. Init => Child!ChildInit
  BY DEF Init, Child!ChildInit, EndedAs, RunStates, FinalStates, Child!RunStates, Child!FinalStates
<1> QED BY <1>1, ChildStep, RunInvariance, PTL DEF Spec, ImplementsChildRun, Child!ChildSpec
=============================================================================
