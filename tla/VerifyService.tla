---------------------------- MODULE VerifyService ----------------------------
(***************************************************************************)
(* POST /api/authenticity/verify of api_server.py: each call runs in its   *)
(* request's thread (dry run) or in a worker thread whose events the       *)
(* request's thread streams to the client (live).                          *)
(*                                                                         *)
(* The calls share one process environment.  A live call binds the key it  *)
(* was given to the variable WEB_VERIFY_API_KEY, every request of its      *)
(* probes reads the variable again, and a finally clause puts back what    *)
(* the call found.  Nothing orders two calls: ThreadingHTTPServer starts a *)
(* thread per request, and the worker of a client that went away goes on.  *)
(* Refused requests (no risk_ack, live not enabled) never reach this code. *)
(***************************************************************************)
EXTENDS Naturals, Sequences

CONSTANTS Calls,     \* the requests; a call also stands for the key it brings
          Requests,  \* the requests verify_core makes for a live call
          Unset,     \* the variable is not set
          Shell      \* a value the server was started with

ASSUME CallsAssumption ==
  /\ Requests \in Nat \ {0}
  /\ Unset \notin Calls
  /\ Shell \notin Calls \cup {Unset}

VARIABLES
  env,       \* os.environ[WEB_VERIFY_API_KEY]
  shellEnv,  \* its value when the server started
  live,      \* the calls with live = true
  overlapped,  \* history: a call started while another was inside run_web_verify
  pc,        \* pc[c]: the thread that runs run_web_verify
  prior,     \* prior[c]: what _invoke_verify_core found in the variable
  sent,      \* sent[c]: requests made so far
  used,      \* used[c]: the keys they carried
  outcome,   \* outcome[c]: a verdict, or an exception
  queue,     \* queue[c]: the events between the worker and the stream
  stream,    \* stream[c]: what the client has received
  handler    \* handler[c]: the request's thread, and whether its client is there

worker == <<env, pc, prior, sent, used, outcome>>
server == <<shellEnv, live, overlapped>>
vars == <<worker, server, queue, stream, handler>>

Values == Calls \cup {Unset, Shell}
WorkerSteps ==
  {"idle", "validating", "reading", "binding", "requesting", "judging", "restoring",
   "answering", "closing", "ended"}
Events == {"progress", "result", "error", "done"}
Answers == {"result", "error"}

Live(c) == c \in live

\* The worker is inside run_web_verify.
Active(c) == pc[c] \notin {"idle", "answering", "closing", "ended"}

\* progress callback: a live call's events go to its queue; a dry run has none
Queued(c, event) == IF Live(c) THEN [queue EXCEPT ![c] = Append(@, event)] ELSE queue

-----------------------------------------------------------------------------
Init ==
  /\ shellEnv \in {Unset, Shell}
  /\ env = shellEnv
  /\ live \in SUBSET Calls
  /\ overlapped = FALSE
  /\ pc = [c \in Calls |-> "idle"]
  /\ prior = [c \in Calls |-> Unset]
  /\ sent = [c \in Calls |-> 0]
  /\ used = [c \in Calls |-> {}]
  /\ outcome = [c \in Calls |-> "none"]
  /\ queue = [c \in Calls |-> <<>>]
  /\ stream = [c \in Calls |-> <<>>]
  /\ handler = [c \in Calls |-> "none"]

\* _handle_verify_post: a live call gets its stream and a worker of its own
Submit(c) ==
  /\ pc[c] = "idle"
  /\ overlapped' = (overlapped \/ \E d \in Calls : Active(d))
  /\ pc' = [pc EXCEPT ![c] = "validating"]
  /\ handler' = [handler EXCEPT ![c] = "open"]
  /\ UNCHANGED <<env, shellEnv, live, prior, sent, used, outcome, queue, stream>>

\* run_web_verify: a bad field or an unknown baseline raises before the key is bound
Validate(c) ==
  /\ pc[c] = "validating"
  /\ \/ /\ pc' = [pc EXCEPT ![c] = "reading"]
        /\ UNCHANGED outcome
     \/ /\ pc' = [pc EXCEPT ![c] = "answering"]
        /\ outcome' = [outcome EXCEPT ![c] = "error"]
  /\ UNCHANGED <<env, server, prior, sent, used, queue, stream, handler>>

\* _invoke_verify_core: remember the variable ...
ReadPrior(c) ==
  /\ pc[c] = "reading"
  /\ prior' = [prior EXCEPT ![c] = env]
  /\ pc' = [pc EXCEPT ![c] = "binding"]
  /\ UNCHANGED <<env, server, sent, used, outcome, queue, stream, handler>>

\* Slip: bind only a variable that is not set.
BoundIfUnset(c) == IF env = Unset THEN c ELSE env

\* The variable while a live call's probes run
BoundFor(c) == c

\* ... and bind it to the call's key.  verify_core reports its first stage.
Bind(c) ==
  /\ pc[c] = "binding"
  /\ env' = IF Live(c) THEN BoundFor(c) ELSE env
  /\ queue' = Queued(c, "progress")
  /\ pc' = [pc EXCEPT ![c] = IF Live(c) THEN "requesting" ELSE "judging"]
  /\ UNCHANGED <<server, prior, sent, used, outcome, stream, handler>>

LastRequest(c) == sent[c] + 1 = Requests

\* One request of a live call: auth_value reads the variable, now.
Request(c) ==
  /\ pc[c] = "requesting"
  /\ env # Unset
  /\ sent' = [sent EXCEPT ![c] = @ + 1]
  /\ used' = [used EXCEPT ![c] = @ \cup {env}]
  /\ queue' = Queued(c, "progress")
  /\ pc' = [pc EXCEPT ![c] = IF LastRequest(c) THEN "judging" ELSE @]
  /\ UNCHANGED <<env, server, prior, outcome, stream, handler>>

\* auth_value finds no key and raises.
RequestRaises(c) ==
  /\ pc[c] = "requesting"
  /\ env = Unset
  /\ outcome' = [outcome EXCEPT ![c] = "error"]
  /\ pc' = [pc EXCEPT ![c] = "restoring"]
  /\ UNCHANGED <<env, server, prior, sent, used, queue, stream, handler>>

\* The last stage of verify_core; anything it raises goes through the same finally.
Judge(c) ==
  /\ pc[c] = "judging"
  /\ outcome' \in {[outcome EXCEPT ![c] = o] : o \in {"verdict", "error"}}
  /\ queue' = Queued(c, "progress")
  /\ pc' = [pc EXCEPT ![c] = "restoring"]
  /\ UNCHANGED <<env, server, prior, sent, used, stream, handler>>

\* Slip: always remove the variable, whatever was there before the call.
RestoredByPop(c) == Unset
Restored(c) == prior[c]

\* The finally clause
Restore(c) ==
  /\ pc[c] = "restoring"
  /\ env' = Restored(c)
  /\ pc' = [pc EXCEPT ![c] = "answering"]
  /\ UNCHANGED <<server, prior, sent, used, outcome, queue, stream, handler>>

\* Slip: an exception puts its event and falls through to the result.
AnswerFallingThrough(c) ==
  IF outcome[c] = "verdict" THEN <<"result">> ELSE <<"error", "result">>
Answer(c) == IF outcome[c] = "verdict" THEN <<"result">> ELSE <<"error">>

\* The worker queues its answer; the thread of a dry run sends it.
QueueAnswer(c) ==
  /\ pc[c] = "answering"
  /\ IF Live(c)
       THEN /\ queue' = [queue EXCEPT ![c] = @ \o Answer(c)]
            /\ UNCHANGED <<stream, handler>>
       ELSE /\ stream' = IF handler[c] = "open" THEN [stream EXCEPT ![c] = Answer(c)] ELSE stream
            /\ handler' = [handler EXCEPT ![c] = IF @ = "open" THEN "closed" ELSE "left"]
            /\ UNCHANGED queue
  /\ pc' = [pc EXCEPT ![c] = "closing"]
  /\ UNCHANGED <<env, server, prior, sent, used, outcome>>

\* Slip: only a worker that has an answer says that it is done.
DoneIfVerdict(c) == IF outcome[c] = "verdict" THEN <<"done">> ELSE <<>>
Done(c) == <<"done">>

\* The worker's own finally clause: __done__
QueueDone(c) ==
  /\ pc[c] = "closing"
  /\ queue' = IF Live(c) THEN [queue EXCEPT ![c] = @ \o Done(c)] ELSE queue
  /\ pc' = [pc EXCEPT ![c] = "ended"]
  /\ UNCHANGED <<env, server, prior, sent, used, outcome, stream, handler>>

\* The loop of _stream_verify: take one event and write it, or see that the client left.
Forward(c) ==
  /\ Live(c)
  /\ handler[c] \in {"open", "gone"}
  /\ queue[c] # <<>>
  /\ queue' = [queue EXCEPT ![c] = Tail(@)]
  /\ IF Head(queue[c]) = "done"
       THEN /\ handler' = [handler EXCEPT ![c] = IF @ = "open" THEN "closed" ELSE "left"]
            /\ UNCHANGED stream
       ELSE IF handler[c] = "open"
       THEN /\ stream' = [stream EXCEPT ![c] = Append(@, Head(queue[c]))]
            /\ UNCHANGED handler
       ELSE /\ handler' = [handler EXCEPT ![c] = "left"]
            /\ UNCHANGED stream
  /\ UNCHANGED <<worker, server>>

\* The client closes the connection; only a later write notices.
Disconnect(c) ==
  /\ handler[c] = "open"
  /\ handler' = [handler EXCEPT ![c] = "gone"]
  /\ UNCHANGED <<worker, server, queue, stream>>

WorkerStep(c) ==
  \/ Validate(c) \/ ReadPrior(c) \/ Bind(c) \/ Request(c) \/ RequestRaises(c)
  \/ Judge(c) \/ Restore(c) \/ QueueAnswer(c) \/ QueueDone(c)

Next ==
  \E c \in Calls : Submit(c) \/ WorkerStep(c) \/ Forward(c) \/ Disconnect(c)

Spec == Init /\ [][Next]_vars

(* Both threads of a call keep running: requests have time-outs, and the   *)
(* stream's get returns as soon as there is an event.                      *)
FairSpec == Spec /\ \A c \in Calls : WF_vars(WorkerStep(c)) /\ WF_vars(Forward(c))

-----------------------------------------------------------------------------
TypeOK ==
  /\ env \in Values
  /\ shellEnv \in {Unset, Shell}
  /\ live \subseteq Calls
  /\ overlapped \in BOOLEAN
  /\ pc \in [Calls -> WorkerSteps]
  /\ prior \in [Calls -> Values]
  /\ sent \in [Calls -> 0 .. Requests]
  /\ used \in [Calls -> SUBSET (Calls \cup {Shell})]
  /\ outcome \in [Calls -> {"none", "verdict", "error"}]
  /\ queue \in [Calls -> Seq(Events)]
  /\ stream \in [Calls -> Seq(Events)]
  /\ handler \in [Calls -> {"none", "open", "gone", "closed", "left"}]

\* Once no call is inside run_web_verify, the variable is as the server was started with.
EnvAsStarted == (\A c \in Calls : ~Active(c)) => env = shellEnv

\* Every request of a live call carries the key of that call.
OwnKeys == \A c \in live : used[c] \subseteq {c}

(* As long as no two calls overlapped, every binding lasted for its call   *)
(* only, whether the call ended in a verdict or in an exception, ...       *)
EnvRestored == ~overlapped => EnvAsStarted

(* ... and no call spent the key of another, or of the shell.              *)
OwnKeyOnly == ~overlapped => OwnKeys

(* "Ephemeral env var name the supplied key is bound to only for the       *)
(* duration of a single verify call" (WEB_VERIFY_KEY_ENV), overlap or not. *)
EnvAlwaysRestored == EnvAsStarted

(* A client that stayed to the end got exactly one answer, after all       *)
(* progress, and the one that fits the outcome.                            *)
OneAnswer ==
  \A c \in Calls : handler[c] = "closed" =>
    /\ Len(stream[c]) > 0
    /\ \A i \in 1 .. Len(stream[c]) : stream[c][i] \in Answers <=> i = Len(stream[c])
    /\ stream[c][Len(stream[c])] = "result" <=> outcome[c] = "verdict"

(* Every call that was accepted ends, and its stream is closed, whether or *)
(* not the client stays.                                                   *)
CallsEnd ==
  \A c \in Calls :
    handler[c] # "none" ~> pc[c] = "ended" /\ handler[c] \in {"closed", "left"}
=============================================================================
