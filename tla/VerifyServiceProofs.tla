------------------------- MODULE VerifyServiceProofs -------------------------
(***************************************************************************)
(* What one call at a time is enough for: when no call starts before the   *)
(* one before it left run_web_verify, every request carries the key of its *)
(* own call and the environment is left as it was, for any number of calls *)
(* and whatever fails in them.                                             *)
(***************************************************************************)
EXTENDS VerifyService, TLAPS

\* The types of the state that two calls share, or that decides who shares it
SharedTypes ==
  /\ pc \in [Calls -> WorkerSteps]
  /\ prior \in [Calls -> Values]
  /\ used \in [Calls -> SUBSET Values]
  /\ env \in Values
  /\ live \subseteq Calls

\* No two calls are inside run_web_verify.
OneAtATime == \A c, e \in Calls : Active(c) /\ Active(e) => c = e

\* What the call that is inside finds in the variable, and will put back
BindingShape ==
  \A c \in Calls :
    /\ pc[c] \in {"validating", "reading", "binding"} => env = shellEnv
    /\ pc[c] \in {"binding", "requesting", "judging", "restoring"} => prior[c] = shellEnv
    /\ pc[c] = "requesting" => Live(c) /\ env = c

\* The inductive invariant
SerialInv == SharedTypes /\ OneAtATime /\ BindingShape /\ EnvAsStarted /\ OwnKeys
-----------------------------------------------------------------------------
\* The invariant as one of the specification, in which calls may overlap
SerialSoFar == ~overlapped => SerialInv

\* No call has started, and the variable is the shell's.
LEMMA SerialInit == Init => SerialInv
<1> SUFFICES ASSUME Init PROVE SerialInv
  OBVIOUS
<1>1. SharedTypes
  BY DEF Init, SharedTypes, WorkerSteps, Values
<1>2. OneAtATime /\ BindingShape /\ EnvAsStarted /\ OwnKeys
  BY CallsAssumption DEF Init, OneAtATime, BindingShape, EnvAsStarted, OwnKeys, Active
<1> QED BY <1>1, <1>2 DEF SerialInv

\* The stream of a call is none of the environment's business.
LEMMA StreamKeeps ==
  ASSUME SerialInv, UNCHANGED <<worker, server>>
  PROVE  SerialInv'
BY DEF SerialInv, SharedTypes, OneAtATime, BindingShape, EnvAsStarted, OwnKeys, Active, Live, worker, server

\* A call enters only when no other is inside.
LEMMA SubmitKeeps ==
  ASSUME ~overlapped', SerialInv, NEW c \in Calls, Submit(c)
  PROVE  SerialInv'
<1> USE DEF SerialInv
<1>1. /\ pc[c] = "idle" /\ pc' = [pc EXCEPT ![c] = "validating"]
      /\ \A e \in Calls : ~Active(e)
      /\ env' = env /\ shellEnv' = shellEnv /\ live' = live /\ prior' = prior /\ used' = used
  BY DEF Submit
<1>2. SharedTypes'
  BY <1>1 DEF SharedTypes, WorkerSteps
<1>3. \A e \in Calls : Active(e)' => e = c
  BY <1>1 DEF SharedTypes, Active
<1>4. OneAtATime'
  BY <1>3 DEF OneAtATime
<1>5. env' = shellEnv'
  BY <1>1 DEF EnvAsStarted
<1>6. BindingShape'
  <2> SUFFICES ASSUME NEW e \in Calls, Active(e)'
               PROVE  e = c
    BY <1>1, <1>5 DEF BindingShape, Active, SharedTypes, Live
  <2> QED BY <1>3
<1>7. EnvAsStarted' /\ OwnKeys'
  BY <1>1, <1>5 DEF EnvAsStarted, OwnKeys
<1> QED BY <1>2, <1>4, <1>6, <1>7

\* A step of the call that is inside: nobody else reads or writes the variable.
LEMMA WorkerKeeps ==
  ASSUME SerialInv, NEW c \in Calls, WorkerStep(c)
  PROVE  SerialInv'
<1> USE DEF SerialInv
<1>1. CASE Validate(c)
  BY <1>1, CallsAssumption DEF Validate,
         SharedTypes, OneAtATime, BindingShape, EnvAsStarted, OwnKeys, Active, Live, WorkerSteps, server
<1>2. CASE ReadPrior(c)
  BY <1>2, CallsAssumption DEF ReadPrior,
         SharedTypes, OneAtATime, BindingShape, EnvAsStarted, OwnKeys, Active, Live, WorkerSteps, server
<1>3. CASE Bind(c)
  BY <1>3, CallsAssumption DEF Bind, BoundFor, Values,
         SharedTypes, OneAtATime, BindingShape, EnvAsStarted, OwnKeys, Active, Live, WorkerSteps, server
<1>4. CASE Request(c)
  BY <1>4, CallsAssumption DEF Request, LastRequest, Values,
         SharedTypes, OneAtATime, BindingShape, EnvAsStarted, OwnKeys, Active, Live, WorkerSteps, server
<1>5. CASE RequestRaises(c)
  BY <1>5, CallsAssumption DEF RequestRaises, Values,
         SharedTypes, OneAtATime, BindingShape, EnvAsStarted, OwnKeys, Active, Live, WorkerSteps, server
<1>6. CASE Judge(c)
  BY <1>6, CallsAssumption DEF Judge,
         SharedTypes, OneAtATime, BindingShape, EnvAsStarted, OwnKeys, Active, Live, WorkerSteps, server
<1>7. CASE Restore(c)
  BY <1>7, CallsAssumption DEF Restore, Restored,
         SharedTypes, OneAtATime, BindingShape, EnvAsStarted, OwnKeys, Active, Live, WorkerSteps, server
<1>8. CASE QueueAnswer(c)
  BY <1>8, CallsAssumption DEF QueueAnswer,
         SharedTypes, OneAtATime, BindingShape, EnvAsStarted, OwnKeys, Active, Live, WorkerSteps, server
<1>9. CASE QueueDone(c)
  BY <1>9, CallsAssumption DEF QueueDone,
         SharedTypes, OneAtATime, BindingShape, EnvAsStarted, OwnKeys, Active, Live, WorkerSteps, server
<1> QED BY <1>1, <1>2, <1>3, <1>4, <1>5, <1>6, <1>7, <1>8, <1>9 DEF WorkerStep

\* That two calls overlapped is not forgotten.
LEMMA OverlapStays == ASSUME overlapped, [Next]_vars PROVE overlapped'
BY DEF Next, WorkerStep, Submit, Validate, ReadPrior, Bind, Request, RequestRaises, Judge,
       Restore, QueueAnswer, QueueDone, Forward, Disconnect, server, vars

\* The invariant holds for as long as no two calls have overlapped.
LEMMA SerialInvariance == Spec => []SerialSoFar
<1>1. SerialInv /\ [Next]_vars /\ ~overlapped' => SerialInv'
  <2> SUFFICES ASSUME SerialInv, [Next]_vars, ~overlapped' PROVE SerialInv'
    OBVIOUS
  <2>1. CASE UNCHANGED vars
    BY <2>1, StreamKeeps DEF vars
  <2>2. CASE Next
    <3>1. PICK c \in Calls : Submit(c) \/ WorkerStep(c) \/ Forward(c) \/ Disconnect(c)
      BY <2>2 DEF Next
    <3>2. CASE Submit(c)
      BY <3>2, SubmitKeeps
    <3>3. CASE WorkerStep(c)
      BY <3>3, WorkerKeeps
    <3>4. CASE Forward(c) \/ Disconnect(c)
      BY <3>4, StreamKeeps DEF Forward, Disconnect
    <3> QED BY <3>1, <3>2, <3>3, <3>4
  <2> QED BY <2>1, <2>2
<1>2. SerialSoFar /\ [Next]_vars => SerialSoFar'
  BY <1>1, OverlapStays DEF SerialSoFar
<1>3. Init => SerialSoFar
  BY SerialInit DEF SerialSoFar
<1> QED BY <1>2, <1>3, PTL DEF Spec

\* Calls that do not overlap leave the environment as the server was started with, whether
\* they end in a verdict, in an exception, or with a client that went away ...
THEOREM SerialCallsRestore == Spec => []EnvRestored
<1>1. SerialSoFar => EnvRestored
  BY DEF SerialSoFar, SerialInv, EnvRestored
<1> QED BY <1>1, SerialInvariance, PTL

\* ... and send their own key with every request of theirs, and no other.
THEOREM SerialCallsUseOwnKey == Spec => []OwnKeyOnly
<1>1. SerialSoFar => OwnKeyOnly
  BY DEF SerialSoFar, SerialInv, OwnKeyOnly
<1> QED BY <1>1, SerialInvariance, PTL

-----------------------------------------------------------------------------
(* The types, whether calls overlap or not.                                *)

\* A call that may still ask has not made all of its requests.
RequestsLeft ==
  \A c \in Calls :
    pc[c] \in {"idle", "validating", "reading", "binding", "requesting"} => sent[c] < Requests

\* What a worker adds to its queue are events.
LEMMA QueueKeeps ==
  ASSUME TypeOK, NEW c \in Calls, NEW event \in Events
  PROVE  Queued(c, event) \in [Calls -> Seq(Events)]
BY DEF TypeOK, Queued

\* A step of a worker keeps the types, and counts its requests.
LEMMA WorkerTypes ==
  ASSUME TypeOK, RequestsLeft, NEW c \in Calls, WorkerStep(c)
  PROVE  TypeOK' /\ RequestsLeft'
<1> USE CallsAssumption DEF TypeOK, RequestsLeft, WorkerSteps
<1>1. CASE Validate(c)
  BY <1>1 DEF Validate, server
<1>2. CASE ReadPrior(c)
  BY <1>2 DEF ReadPrior, server
<1>3. CASE Bind(c)
  <2>1. queue' \in [Calls -> Seq(Events)]
    BY <1>3, QueueKeeps DEF Bind, Events
  <2> QED BY <1>3, <2>1 DEF Bind, BoundFor, Values, server
<1>4. CASE Request(c)
  <2>1. queue' \in [Calls -> Seq(Events)]
    BY <1>4, QueueKeeps DEF Request, Events
  <2>2. sent' \in [Calls -> 0 .. Requests] /\ RequestsLeft'
    BY <1>4 DEF Request, LastRequest
  <2> QED BY <1>4, <2>1, <2>2 DEF Request, LastRequest, Values, server
<1>5. CASE RequestRaises(c)
  BY <1>5 DEF RequestRaises, server
<1>6. CASE Judge(c)
  <2>1. queue' \in [Calls -> Seq(Events)]
    BY <1>6, QueueKeeps DEF Judge, Events
  <2> QED BY <1>6, <2>1 DEF Judge, server
<1>7. CASE Restore(c)
  BY <1>7 DEF Restore, Restored, Values, server
<1>8. CASE QueueAnswer(c)
  <2>1. Answer(c) \in Seq(Events)
    <3>1. <<"result">> \in Seq(Events) /\ <<"error">> \in Seq(Events)
      BY DEF Events
    <3> QED BY <3>1 DEF Answer
  <2>2. queue[c] \o Answer(c) \in Seq(Events)
    BY <2>1
  <2>3. queue' \in [Calls -> Seq(Events)]
    BY <1>8, <2>2 DEF QueueAnswer
  <2>4. stream' \in [Calls -> Seq(Events)]
    BY <1>8, <2>1 DEF QueueAnswer
  <2>5. /\ handler' \in [Calls -> {"none", "open", "gone", "closed", "left"}]
        /\ pc' \in [Calls -> WorkerSteps]
    BY <1>8 DEF QueueAnswer
  <2>6. UNCHANGED <<env, server, prior, sent, used, outcome>> /\ pc'[c] = "closing"
    BY <1>8 DEF QueueAnswer
  <2>7. RequestsLeft'
    BY <1>8 DEF QueueAnswer
  <2> QED BY <2>3, <2>4, <2>5, <2>6, <2>7 DEF server
<1>9. CASE QueueDone(c)
  <2>1. queue[c] \o Done(c) \in Seq(Events)
    BY DEF Done, Events
  <2> QED BY <1>9, <2>1 DEF QueueDone, server
<1> HIDE DEF TypeOK, RequestsLeft, WorkerSteps
<1> QED BY <1>1, <1>2, <1>3, <1>4, <1>5, <1>6, <1>7, <1>8, <1>9 DEF WorkerStep

\* The types and the count of requests hold of every behaviour.
LEMMA TypeInvariance == Spec => [](TypeOK /\ RequestsLeft)
<1>1. Init => TypeOK /\ RequestsLeft
  <2> SUFFICES ASSUME Init PROVE TypeOK /\ RequestsLeft
    OBVIOUS
  <2>1. <<>> \in Seq(Events)
    OBVIOUS
  <2>2. /\ queue \in [Calls -> Seq(Events)] /\ stream \in [Calls -> Seq(Events)]
        /\ sent \in [Calls -> 0 .. Requests] /\ RequestsLeft
    BY <2>1, CallsAssumption DEF Init, RequestsLeft
  <2>3. /\ env \in Values /\ shellEnv \in {Unset, Shell} /\ live \subseteq Calls
        /\ overlapped \in BOOLEAN /\ prior \in [Calls -> Values]
    BY DEF Init, Values
  <2>4. /\ pc \in [Calls -> WorkerSteps]
        /\ used \in [Calls -> SUBSET (Calls \cup {Shell})]
        /\ outcome \in [Calls -> {"none", "verdict", "error"}]
        /\ handler \in [Calls -> {"none", "open", "gone", "closed", "left"}]
    BY DEF Init, WorkerSteps
  <2> QED BY <2>2, <2>3, <2>4 DEF TypeOK
<1>2. TypeOK /\ RequestsLeft /\ [Next]_vars => TypeOK' /\ RequestsLeft'
  <2> SUFFICES ASSUME TypeOK, RequestsLeft, [Next]_vars PROVE TypeOK' /\ RequestsLeft'
    OBVIOUS
  <2>1. CASE UNCHANGED vars
    BY <2>1 DEF vars, worker, server, TypeOK, RequestsLeft
  <2>2. CASE Next
    <3>1. PICK c \in Calls : Submit(c) \/ WorkerStep(c) \/ Forward(c) \/ Disconnect(c)
      BY <2>2 DEF Next
    <3>2. CASE Submit(c)
      BY <3>2 DEF Submit, TypeOK, RequestsLeft, WorkerSteps
    <3>3. CASE WorkerStep(c)
      BY <3>3, WorkerTypes
    <3>4. CASE Forward(c)
      <4>1. Head(queue[c]) \in Events /\ Tail(queue[c]) \in Seq(Events)
        BY <3>4 DEF Forward, TypeOK
      <4>2. Append(stream[c], Head(queue[c])) \in Seq(Events)
        BY <4>1 DEF TypeOK
      <4> QED BY <3>4, <4>1, <4>2 DEF Forward, worker, server, TypeOK, RequestsLeft
    <3>5. CASE Disconnect(c)
      BY <3>5 DEF Disconnect, worker, server, TypeOK, RequestsLeft
    <3> QED BY <3>1, <3>2, <3>3, <3>4, <3>5
  <2> QED BY <2>1, <2>2
<1> QED BY <1>1, <1>2, PTL DEF Spec

\* Every variable keeps its type, for any number of calls, overlapping or not; no
\* call makes more requests than its probes do.
THEOREM ServiceTypeCorrect == Spec => []TypeOK
BY TypeInvariance, PTL

-----------------------------------------------------------------------------
(* The stream of a call, whether calls overlap or not.                     *)

\* All that the client of a live call is told, or will be if it stays
Told(c) == stream[c] \o queue[c]

\* The one event that fits the outcome
Verdict(c) == IF outcome[c] = "verdict" THEN "result" ELSE "error"

OnlyProgress(events) == \A i \in 1 .. Len(events) : events[i] = "progress"

\* Progress, and then the answer
Answered(events, c) ==
  /\ Len(events) > 0 /\ events[Len(events)] = Verdict(c)
  /\ \A i \in 1 .. Len(events) - 1 : events[i] = "progress"

\* Progress, the answer, and the sign that the worker is done
Closed(events, c) ==
  /\ Len(events) > 1 /\ events[Len(events)] = "done" /\ events[Len(events) - 1] = Verdict(c)
  /\ \A i \in 1 .. Len(events) - 2 : events[i] = "progress"

\* The steps at which a worker has not answered
Unanswered == WorkerSteps \ {"closing", "ended"}

\* The stream and the queue of a call, at each step of its two threads
StreamOf(c) ==
  /\ pc[c] \in {"restoring", "answering", "closing", "ended"} => outcome[c] # "none"
  /\ handler[c] = "none" <=> pc[c] = "idle"
  /\ pc[c] = "idle" => stream[c] = <<>> /\ queue[c] = <<>>
  /\ Live(c) /\ handler[c] = "open" =>
       /\ pc[c] \in Unanswered => OnlyProgress(Told(c))
       /\ pc[c] = "closing" => Answered(Told(c), c)
       /\ pc[c] = "ended" => Closed(Told(c), c)
  /\ Live(c) /\ handler[c] = "closed" => pc[c] = "ended" /\ Answered(stream[c], c)
  /\ ~Live(c) /\ handler[c] = "closed" => pc[c] \in {"closing", "ended"} /\ Answered(stream[c], c)

StreamInv == \A c \in Calls : StreamOf(c)

\* What is queued comes at the end of what is told, ...
LEMMA QueuedLast ==
  ASSUME NEW s \in Seq(Events), NEW q \in Seq(Events), NEW e \in Events
  PROVE  s \o Append(q, e) = Append(s \o q, e)
OBVIOUS

\* so that one more event is told, ...
LEMMA QueuedTold ==
  ASSUME TypeOK, NEW c \in Calls, NEW e \in Events, queue'[c] = Append(queue[c], e), stream' = stream
  PROVE  Told(c)' = Append(Told(c), e)
<1>1. stream[c] \in Seq(Events) /\ queue[c] \in Seq(Events)
  BY DEF TypeOK
<1>2. stream[c] \o Append(queue[c], e) = Append(stream[c] \o queue[c], e)
  BY <1>1, QueuedLast
<1> QED BY <1>2 DEF Told

\* ... and what is forwarded has been told already.
LEMMA ForwardedFirst ==
  ASSUME NEW S, NEW s \in Seq(S), NEW q \in Seq(S), q # <<>>
  PROVE  Append(s, Head(q)) \o Tail(q) = s \o q
OBVIOUS

\* A further event of each kind, at the end of what is told
LEMMA OneMoreEvent ==
  ASSUME NEW c \in Calls, NEW told \in Seq(Events)
  PROVE  /\ OnlyProgress(told) => OnlyProgress(Append(told, "progress"))
         /\ OnlyProgress(told) => Answered(Append(told, Verdict(c)), c)
         /\ Answered(told, c) => Closed(Append(told, "done"), c)
<1>1. OnlyProgress(told) => OnlyProgress(Append(told, "progress"))
  BY DEF OnlyProgress
<1>2. OnlyProgress(told) => Answered(Append(told, Verdict(c)), c)
  BY DEF OnlyProgress, Answered
<1>3. Answered(told, c) => Closed(Append(told, "done"), c)
  BY DEF Answered, Closed
<1> QED BY <1>1, <1>2, <1>3

\* The sign that the worker is done is the last thing in the queue, and is taken last.
LEMMA DoneIsLast ==
  ASSUME NEW c \in Calls, NEW s \in Seq(Events), NEW q \in Seq(Events), q # <<>>, Head(q) = "done"
  PROVE  /\ ~OnlyProgress(s \o q) /\ ~Answered(s \o q, c)
         /\ Closed(s \o q, c) => Answered(s, c)
<1> DEFINE told == s \o q
<1>1. /\ Len(q) > 0 /\ Len(told) = Len(s) + Len(q) /\ told[Len(s) + 1] = "done"
      /\ Len(s) \in Nat /\ Len(q) \in Nat
      /\ \A i \in 1 .. Len(s) : told[i] = s[i]
  OBVIOUS
<1>2. Verdict(c) \in {"result", "error"}
  BY DEF Verdict
<1> HIDE DEF told
<1>3. ~OnlyProgress(told) /\ ~Answered(told, c)
  BY <1>1, <1>2 DEF OnlyProgress, Answered
<1>4. Closed(told, c) => Answered(s, c)
  <2> SUFFICES ASSUME Closed(told, c) PROVE Answered(s, c)
    OBVIOUS
  <2>1. Len(told) = Len(s) + 1
    <3> DEFINE n == Len(told)
               k == Len(s) + 1
    <3>1. n \in Nat /\ k \in 1 .. n /\ told[k] = "done"
      BY <1>1
    <3>2. told[n - 1] # "done" /\ \A i \in 1 .. n - 2 : told[i] # "done"
      BY <1>2 DEF Closed
    <3>3. k # n - 1 /\ k \notin 1 .. n - 2
      BY <3>1, <3>2
    <3> HIDE DEF n, k
    <3>4. k = n
      BY <3>1, <3>3
    <3> QED BY <3>4 DEF n, k
  <2> QED BY <1>1, <2>1 DEF Closed, Answered
<1> QED BY <1>3, <1>4 DEF told

\* What decides about the stream of a call is left alone.
Untouched(d) ==
  pc'[d] = pc[d] /\ outcome'[d] = outcome[d] /\ stream'[d] = stream[d] /\ queue'[d] = queue[d]
  /\ handler'[d] = handler[d]

\* A step of one call is no step of another's stream.
LEMMA OthersUntouched ==
  ASSUME TypeOK, NEW c \in Calls, Submit(c) \/ WorkerStep(c) \/ Forward(c) \/ Disconnect(c),
         NEW d \in Calls, d # c
  PROVE  Untouched(d) /\ live' = live
<1> USE DEF TypeOK, Untouched, worker, server
<1>1. CASE Submit(c)
  BY <1>1 DEF Submit
<1>2. CASE WorkerStep(c)
  BY <1>2 DEF WorkerStep, Validate, ReadPrior, Bind, Request, RequestRaises, Judge, Restore,
              QueueAnswer, QueueDone, Queued
<1>3. CASE Forward(c) \/ Disconnect(c)
  BY <1>3 DEF Forward, Disconnect
<1> QED BY <1>1, <1>2, <1>3

LEMMA UntouchedKeeps ==
  ASSUME NEW d \in Calls, StreamOf(d), Untouched(d), live' = live
  PROVE  StreamOf(d)'
BY DEF StreamOf, Untouched, Told, OnlyProgress, Answered, Closed, Verdict, Live

\* The worker goes on, and tells of its progress or not.
LEMMA ProgressKeeps ==
  ASSUME TypeOK, NEW c \in Calls, StreamOf(c), pc[c] \in Unanswered \ {"idle", "answering"},
         pc'[c] \in Unanswered \ {"idle"}, pc'[c] \in {"restoring", "answering"} => outcome'[c] # "none",
         UNCHANGED <<live, stream, handler>>,
         queue' = queue \/ queue' = Queued(c, "progress")
  PROVE  StreamOf(c)'
<1>1. stream[c] \in Seq(Events) /\ queue[c] \in Seq(Events) /\ "progress" \in Events
  BY DEF TypeOK, Events
<1>2. handler[c] # "none" /\ handler[c] # "closed"
  BY DEF StreamOf, Unanswered
<1>3. ASSUME Live(c), handler[c] = "open" PROVE OnlyProgress(Told(c)')
  <2>1. OnlyProgress(Told(c)) /\ Told(c) \in Seq(Events)
    BY <1>1, <1>3 DEF StreamOf, Told
  <2>2. CASE queue' = queue
    BY <2>1, <2>2 DEF Told
  <2>3. CASE queue' = Queued(c, "progress")
    <3>1. queue'[c] = Append(queue[c], "progress")
      BY <1>3, <2>3 DEF Queued, TypeOK
    <3>2. Told(c)' = Append(Told(c), "progress")
      BY <1>1, <3>1, QueuedTold
    <3> QED BY <2>1, <3>2, OneMoreEvent
  <2> QED BY <2>2, <2>3
<1> QED BY <1>2, <1>3 DEF StreamOf, Live, Unanswered, OnlyProgress

\* The step of a call's two threads and of its client
LEMMA StreamStep ==
  ASSUME TypeOK, NEW c \in Calls, StreamOf(c),
         Submit(c) \/ WorkerStep(c) \/ Forward(c) \/ Disconnect(c)
  PROVE  StreamOf(c)'
<1>1. /\ stream[c] \in Seq(Events) /\ queue[c] \in Seq(Events) /\ Told(c) \in Seq(Events)
      /\ pc \in [Calls -> WorkerSteps] /\ outcome \in [Calls -> {"none", "verdict", "error"}]
      /\ handler \in [Calls -> {"none", "open", "gone", "closed", "left"}]
      /\ queue \in [Calls -> Seq(Events)] /\ stream \in [Calls -> Seq(Events)]
  BY DEF TypeOK, Told
<1>2. CASE Submit(c)
  <2>1. /\ handler'[c] = "open" /\ pc'[c] = "validating" /\ live' = live
        /\ stream'[c] = <<>> /\ queue'[c] = <<>>
    BY <1>1, <1>2 DEF Submit, StreamOf
  <2>2. OnlyProgress(Told(c)')
    BY <2>1 DEF OnlyProgress, Told
  <2> QED BY <2>1, <2>2 DEF StreamOf, Live, OnlyProgress
<1>3. CASE Validate(c) \/ ReadPrior(c) \/ Bind(c) \/ Request(c) \/ RequestRaises(c) \/ Judge(c) \/ Restore(c)
  <2>1. /\ pc[c] \in Unanswered \ {"idle", "answering"} /\ UNCHANGED <<live, stream, handler>>
        /\ queue' = queue \/ queue' = Queued(c, "progress")
    BY <1>3 DEF Validate, ReadPrior, Bind, Request, RequestRaises, Judge, Restore, Unanswered,
                WorkerSteps, server
  <2>2. pc'[c] \in Unanswered \ {"idle"}
    BY <1>1, <1>3 DEF Validate, ReadPrior, Bind, Request, RequestRaises, Judge, Restore, Unanswered,
                WorkerSteps
  <2>3. pc'[c] \in {"restoring", "answering"} => outcome'[c] # "none"
    BY <1>1, <1>3 DEF Validate, ReadPrior, Bind, Request, RequestRaises, Judge, Restore, StreamOf
  <2> QED BY <2>1, <2>2, <2>3, ProgressKeeps
<1>4. CASE QueueAnswer(c)
  <2>1. /\ pc[c] = "answering" /\ pc'[c] = "closing" /\ UNCHANGED <<live, outcome>>
        /\ handler[c] \notin {"none", "closed"} /\ Answer(c) = <<Verdict(c)>> /\ Verdict(c)' = Verdict(c)
        /\ outcome[c] # "none" /\ Verdict(c) \in Events
    BY <1>1, <1>4 DEF QueueAnswer, StreamOf, Answer, Verdict, server, Events
  <2>2. CASE Live(c)
    <3>1. queue'[c] = Append(queue[c], Verdict(c)) /\ UNCHANGED <<stream, handler>>
      BY <1>1, <1>4, <2>1, <2>2 DEF QueueAnswer
    <3>2. Told(c)' = Append(Told(c), Verdict(c))
      BY <2>1, <3>1, QueuedTold
    <3>3. handler[c] = "open" => Answered(Told(c)', c)
      BY <1>1, <2>1, <2>2, <3>2, OneMoreEvent DEF StreamOf, Unanswered, WorkerSteps
    <3> QED BY <2>1, <2>2, <3>1, <3>3 DEF StreamOf, Live, Answered, Unanswered
  <2>3. CASE ~Live(c)
    <3>1. handler'[c] = "closed" => stream'[c] = <<Verdict(c)>>
      BY <1>1, <1>4, <2>1, <2>3 DEF QueueAnswer
    <3>2. handler'[c] # "none"
      BY <1>1, <1>4, <2>1, <2>3 DEF QueueAnswer
    <3>3. Answered(<<Verdict(c)>>, c)
      BY <2>1 DEF Answered
    <3> QED BY <2>1, <2>3, <3>1, <3>2, <3>3 DEF StreamOf, Live, Answered
  <2> QED BY <2>2, <2>3
<1>5. CASE QueueDone(c)
  <2>1. /\ pc[c] = "closing" /\ pc'[c] = "ended" /\ UNCHANGED <<live, outcome, stream, handler>>
        /\ handler[c] # "none" /\ Verdict(c)' = Verdict(c) /\ outcome[c] # "none"
    BY <1>1, <1>5 DEF QueueDone, StreamOf, Verdict, server
  <2>2. CASE Live(c)
    <3>1. queue'[c] = Append(queue[c], "done")
      BY <1>1, <1>5, <2>2 DEF QueueDone, Done
    <3>2. Told(c)' = Append(Told(c), "done")
      BY <2>1, <3>1, QueuedTold DEF Events
    <3>3. handler[c] = "open" => Closed(Told(c)', c)
      BY <1>1, <2>1, <2>2, <3>2, OneMoreEvent DEF StreamOf
    <3> QED BY <2>1, <2>2, <3>3 DEF StreamOf, Live, Closed, Unanswered
  <2>3. CASE ~Live(c)
    BY <2>1, <2>3 DEF StreamOf, Live, Answered
  <2> QED BY <2>2, <2>3
<1>6. CASE Forward(c)
  <2>1. /\ Live(c) /\ handler[c] \in {"open", "gone"} /\ queue[c] # <<>> /\ queue'[c] = Tail(queue[c])
        /\ UNCHANGED <<pc, outcome, live>> /\ Verdict(c)' = Verdict(c)
    BY <1>1, <1>6 DEF Forward, worker, server, Verdict
  <2>2. CASE handler[c] = "gone"
    <3>1. handler'[c] \in {"gone", "left"}
      BY <1>1, <1>6, <2>1, <2>2 DEF Forward
    <3> QED BY <2>1, <3>1 DEF StreamOf, Live
  <2>3. CASE handler[c] = "open" /\ Head(queue[c]) = "done"
    <3>1. handler'[c] = "closed" /\ stream' = stream
      BY <1>1, <1>6, <2>1, <2>3 DEF Forward
    <3>2. pc[c] = "ended" /\ Answered(stream[c], c)
      BY <1>1, <2>1, <2>3, DoneIsLast DEF StreamOf, Told, Unanswered
    <3> QED BY <2>1, <3>1, <3>2 DEF StreamOf, Live, Answered
  <2>4. CASE handler[c] = "open" /\ Head(queue[c]) # "done"
    <3>1. handler' = handler /\ stream'[c] = Append(stream[c], Head(queue[c]))
      BY <1>1, <1>6, <2>1, <2>4 DEF Forward
    <3>2. Told(c)' = Told(c)
      BY <1>1, <2>1, <3>1, ForwardedFirst DEF Told
    <3> QED BY <2>1, <2>4, <3>1, <3>2 DEF StreamOf, Live, Answered, Closed, OnlyProgress
  <2> QED BY <2>1, <2>2, <2>3, <2>4
<1>7. CASE Disconnect(c)
  BY <1>1, <1>7 DEF Disconnect, worker, server, StreamOf, Live
<1> QED BY <1>2, <1>3, <1>4, <1>5, <1>6, <1>7 DEF WorkerStep

\* A client that stayed to the end got exactly one answer, after all progress, and the
\* one that fits the outcome, for any number of calls and of requests in them.
THEOREM ClientGetsOneAnswer == Spec => []OneAnswer
<1>1. Init => StreamInv
  BY DEF Init, StreamInv, StreamOf, Live
<1>2. TypeOK /\ StreamInv /\ [Next]_vars => StreamInv'
  <2> SUFFICES ASSUME TypeOK, StreamInv, [Next]_vars, NEW d \in Calls
               PROVE  StreamOf(d)'
    BY DEF StreamInv
  <2>1. CASE UNCHANGED vars
    BY <2>1, UntouchedKeeps DEF vars, worker, server, Untouched, StreamInv
  <2>2. ASSUME NEW c \in Calls, Submit(c) \/ WorkerStep(c) \/ Forward(c) \/ Disconnect(c)
        PROVE  StreamOf(d)'
    <3>1. StreamOf(c) /\ StreamOf(d)
      BY DEF StreamInv
    <3> QED BY <2>2, <3>1, StreamStep, OthersUntouched, UntouchedKeeps
  <2> QED BY <2>1, <2>2 DEF Next
<1>3. TypeOK /\ StreamInv => OneAnswer
  <2> SUFFICES ASSUME StreamInv, NEW c \in Calls, handler[c] = "closed"
               PROVE  /\ Len(stream[c]) > 0
                      /\ \A i \in 1 .. Len(stream[c]) : stream[c][i] \in Answers <=> i = Len(stream[c])
                      /\ stream[c][Len(stream[c])] = "result" <=> outcome[c] = "verdict"
    BY DEF OneAnswer
  <2>1. Answered(stream[c], c)
    BY DEF StreamInv, StreamOf
  <2> QED BY <2>1 DEF Answered, Verdict, Answers
<1> QED BY <1>1, <1>2, <1>3, TypeInvariance, PTL DEF Spec
=============================================================================
