---------------------------- MODULE CompatSuite -----------------------------
(***************************************************************************)
(* The compatibility suite of compatibility.py as the worker of a          *)
(* background job: what JobControl leaves open between the start and the   *)
(* end of a case, and in the writing of the files, is filled in here.      *)
(*                                                                         *)
(* A case sends one request or two.  Each answer is read event by event    *)
(* from its stream (SseStream) into metrics, and the metrics are judged by *)
(* the rules of the case's category (CompatRules).  A connection may fail  *)
(* at any time.  The records are written at the end only, and the manifest *)
(* last; a reader lists the runs that have one.  Response and event files  *)
(* of a probe are left out.                                                *)
(***************************************************************************)
EXTENDS JobControl, SseStream, CompatRules

CONSTANTS
  Suites,   \* suites of Total cases [id, category, second, cached]
  Answers   \* what the provider may answer to a request, for each category

ASSUME AnswersAssumption ==
  \A category \in DOMAIN Answers : \A answer \in Answers[category] : Composed(answer)
ASSUME SuitesAssumption ==
  \A s \in Suites :
    DOMAIN s = 1 .. Total /\ \A i \in 1 .. Total : s[i].category \in DOMAIN Answers

VARIABLES
  suite,    \* the cases of this run
  phase,    \* where the probe under way is
  metrics,  \* of the request under way
  answers,  \* the metrics of the finished requests of this case
  told,     \* history: what came in answer to each of them
  records,  \* category and status of each finished case
  disk,     \* the files of the run that are written; "torn" is a manifest half written, and
            \* "earlier" the manifest of an earlier run under the same --run-id
  verdict   \* what the manifest says: suite_status and status_counts

probeVars == <<phase, metrics, answers, told>>
fileVars == <<disk, verdict>>
suiteVars == <<vars, streamVars, probeVars, fileVars, suite, records>>

NoAnswer == [http |-> 0, reason |-> "none", style |-> "lf", events |-> <<>>, unsent |-> 0]
NoVerdict == [status |-> "none", passed |-> 0, warned |-> 0, failed |-> 0]

\* run_compatibility_suite up to its loop; load_suite refuses a suite without cases.
\* The directory of a --run-id may be there already, with the files of an earlier run.
SuiteInit ==
  /\ Init
  /\ suite \in Suites
  /\ Idle(NoAnswer)
  /\ phase = "idle"
  /\ metrics = Fresh(0)
  /\ answers = <<>>
  /\ told = <<>>
  /\ records = <<>>
  /\ disk \in {{}, {"earlier"}}
  /\ verdict = NoVerdict

-----------------------------------------------------------------------------
(* run_probe: one request or two, then the checks.                         *)

Case == suite[index + 1]
Probing(step) == pc = "probing" /\ phase = step

BeginCase ==
  /\ StartCase
  /\ phase' = "asking"
  /\ UNCHANGED <<streamVars, fileVars, suite, records, metrics, answers, told>>

\* A request is over, with its metrics, after these events of the answer were read
FinishRequest(m, http, whole, events) ==
  /\ answers' = Append(answers, m)
  /\ told' = Append(told, [http |-> http, whole |-> whole, events |-> events])
  /\ phase' = IF Case.second /\ answers = <<>> THEN "asking" ELSE "judging"
  /\ metrics' = Fresh(0)
  /\ CloseStream(NoAnswer)
  /\ UNCHANGED <<vars, fileVars, suite, records>>

\* An exception that is not one of httpx leaves the suite with all it had recorded.
GiveUp ==
  /\ CaseRaises
  /\ phase' = "idle"
  /\ metrics' = Fresh(0)
  /\ answers' = <<>>
  /\ told' = <<>>
  /\ CloseStream(NoAnswer)
  /\ UNCHANGED <<fileVars, suite, records>>

\* auth_header finds no key in the environment
KeyMissing == Probing("asking") /\ GiveUp

\* No connection, or none in time
ConnectFails ==
  /\ Probing("asking")
  /\ FinishRequest(Refused(0, "transport"), 0, FALSE, <<>>)

\* Another status than 200: its body is the reason, unless reading it fails
Refuse ==
  /\ Probing("asking")
  /\ \E answer \in Answers[Case.category] :
       /\ answer.http # 200
       /\ \E reason \in {answer.reason, "transport"} :
            FinishRequest(Refused(answer.http, reason), answer.http, FALSE, <<>>)

Accept ==
  /\ Probing("asking")
  /\ \E answer \in Answers[Case.category] : answer.http = 200 /\ OpenStream(answer)
  /\ metrics' = Fresh(200)
  /\ phase' = "reading"
  /\ UNCHANGED <<vars, fileVars, suite, records, answers, told>>

ReadChunk ==
  /\ Probing("reading")
  /\ Receive
  /\ UNCHANGED <<vars, probeVars, fileVars, suite, records>>

ReadEvent ==
  /\ Probing("reading")
  /\ \E split \in Splits(buffer) : \E event \in {Parsed(split.lines)} :
       /\ ~Unreadable(event)
       /\ YieldEvent(split)
       /\ metrics' = Absorbed(metrics, event)
  /\ UNCHANGED <<vars, fileVars, suite, records, phase, answers, told>>

\* The data of an event is JSON, but no object: its get() raises
ReadRaises ==
  /\ Probing("reading")
  /\ \E split \in Splits(buffer) : Unreadable(Parsed(split.lines))
  /\ GiveUp

Read == SubSeq(sent.events, 1, taken)

\* A read that fails or takes too long, wherever the stream stands: what was read is kept
StreamBreaks ==
  /\ Probing("reading")
  /\ ~Splittable(buffer)
  /\ FinishRequest(Broken(metrics), 200, FALSE, Read)

StreamEnds ==
  /\ Probing("reading")
  /\ Exhausted
  /\ FinishRequest(Ended(metrics), 200, TRUE, Read)

SecondMetrics == {answers[i] : i \in 2 .. Len(answers)}

\* The checks, the record, and task_completed; a warning counts as success
JudgeCase ==
  /\ Probing("judging")
  /\ \E status \in {StatusOf(CaseChecks(Case, answers[1], SecondMetrics))} :
       /\ FinishCaseAs(status # "FAIL")
       /\ records' = Append(records, [category |-> Case.category, status |-> status])
  /\ phase' = "idle"
  /\ answers' = <<>>
  /\ told' = <<>>
  /\ UNCHANGED <<streamVars, fileVars, suite, metrics>>

Probe ==
  \/ BeginCase \/ KeyMissing \/ ConnectFails \/ Refuse \/ Accept \/ ReadChunk
  \/ ReadEvent \/ ReadRaises \/ StreamBreaks \/ StreamEnds \/ JudgeCase

-----------------------------------------------------------------------------
(* The end of run_compatibility_suite: three files, the manifest last.     *)

\* Once the files before it are written, the file takes the place of an earlier one.
WriteFile(before, file, replaced) ==
  /\ pc = "writing"
  /\ disk \ {"earlier"} = before
  /\ disk' = (disk \ replaced) \cup {file}
  /\ UNCHANGED <<vars, streamVars, probeVars, suite, records, verdict>>

WriteRecords == WriteFile({}, "records", {})
WriteSummary == WriteFile({"records"}, "summary", {})
OpenManifest == WriteFile({"records", "summary"}, "torn", {"earlier"})

StatusCount(status) == Cardinality({i \in DOMAIN records : records[i].status = status})
Recorded == {records[i].status : i \in DOMAIN records}

\* Slip: the worst of the records, whether there are any or not.
WorstOfRecords == Worst(Recorded)
SuiteStatus ==
  IF records # <<>> THEN Worst(Recorded) ELSE IF stopped THEN "WARN" ELSE "FAIL"

SaveManifest ==
  /\ "torn" \in disk
  /\ WriteManifest
  /\ disk' = {"records", "summary", "manifest"}
  /\ verdict' = [status |-> SuiteStatus, passed |-> StatusCount("PASS"),
                 warned |-> StatusCount("WARN"), failed |-> StatusCount("FAIL")]
  /\ UNCHANGED <<streamVars, probeVars, suite, records>>

Save == WriteRecords \/ WriteSummary \/ OpenManifest \/ SaveManifest

\* list_compatibility_runs passes over a run without a manifest, or with a torn one.  The
\* manifest of an earlier run is no word of this one.
Listed == "manifest" \in disk

-----------------------------------------------------------------------------
\* The steps of the loop and of the host, which touch nothing of the probe
Loop ==
  /\ \/ HostStart \/ CheckStop \/ TestPause \/ ReportPaused \/ TestParked \/ WaitReturns
     \/ LeaveWait \/ ReportResumed \/ Announce \/ HostEnd \/ DropControl
  /\ UNCHANGED <<streamVars, probeVars, fileVars, suite, records>>

Operator == Control /\ UNCHANGED <<streamVars, probeVars, fileVars, suite, records>>

SuiteWorker == Loop \/ Probe \/ Save
SuiteNext == Operator \/ SuiteWorker

SuiteSpec == SuiteInit /\ [][SuiteNext]_suiteVars

(* As for JobControl: the thread runs on, every wait and every read has a  *)
(* time-out, and an answer is finite.                                      *)
FairSuite == SuiteSpec /\ WF_suiteVars(SuiteWorker)

-----------------------------------------------------------------------------
(* What came in answer to a request, told in terms of the events sent.     *)

Object(event) == Decoded(event.data)
Is(event, dtype) == Object(event).shape = "object" /\ DtypeOf(Meant(event)) = dtype
Some(events, Test(_)) == \E i \in DOMAIN events : Test(events[i])
Places(events, dtype) == {i \in DOMAIN events : Is(events[i], dtype)}
NamedLast(events) ==
  LET starts == Places(events, "message_start")
  IN IF starts = {} THEN "none" ELSE Object(events[Max(starts)]).model

IsText(event) ==
  Is(event, "content_block_delta") /\ Object(event).kind = "text_delta" /\ Object(event).text # ""
Saying(text, event) == IF IsText(event) THEN Append(text, Object(event).text) ELSE text
TextSaid(events) ==
  LET said[i \in 0 .. Len(events)] == IF i = 0 THEN <<>> ELSE Saying(said[i - 1], events[i])
  IN said[Len(events)]

Counts(event, field) ==
  (Is(event, "message_start") \/ Is(event, "message_delta")) /\ field \in DOMAIN Object(event).usage
CountSaid(events, field) ==
  LET counts == {i \in DOMAIN events : Counts(events[i], field)}
  IN IF counts = {} THEN 0 ELSE Object(events[Max(counts)]).usage[field]
InputSaid(events) ==
  CountSaid(events, "input") + CountSaid(events, "creation") + CountSaid(events, "read")
SaysCache(events) == Some(events, LAMBDA e : Counts(e, "creation") \/ Counts(e, "read"))

SpeaksInOrder(events) ==
  \E i, j, k \in DOMAIN events :
    /\ i < j /\ j < k
    /\ Is(events[i], "message_start")
    /\ Is(events[j], "content_block_delta")
    /\ Is(events[k], "message_stop")

\* What each category of case is there to see
Delivers(category, replies) ==
  LET one == replies[1].events
  IN CASE category = "messages" -> Occurs(Marker, TextSaid(one))
       [] category = "json" -> TextSaid(one) = Json
       [] category = "sse" ->
            SpeaksInOrder(one) /\ Some(one, IsText) /\ Some(one, LAMBDA e : Is(e, "message_delta"))
       [] category = "usage" ->
            /\ Some(one, LAMBDA e : Counts(e, "input"))
            /\ Some(one, LAMBDA e : Counts(e, "output"))
            /\ \A i \in 2 .. Len(replies) : InputSaid(replies[i].events) > InputSaid(one)
       [] category = "cache" -> \A i \in DOMAIN replies : SaysCache(replies[i].events)
       [] category = "tool_call" ->
            /\ Some(one, LAMBDA e : Is(e, "content_block_start") /\ Object(e).kind = "tool_use")
            /\ Some(one, LAMBDA e :
                 Is(e, "content_block_delta") /\ Object(e).kind = "input_json_delta")
       [] OTHER -> TRUE

\* A conversation as the protocol has it, one start first and one stop last, whatever pings
\* and comments lie between
WellFormed(events) ==
  LET talk == {i \in DOMAIN events : DtypeOf(Meant(events[i])) \notin {"ping", "message"}}
  IN /\ talk # {}
     /\ Places(events, "message_start") = {Min(talk)}
     /\ DOMAIN Object(events[Min(talk)]).usage = {"input", "output", "creation", "read"}
     /\ Places(events, "message_delta") # {}
     /\ Places(events, "message_stop") = {Max(talk)}

AnsweredWell(replies) ==
  \A i \in DOMAIN replies : replies[i].whole /\ WellFormed(replies[i].events)

Judged(status) == records' # records /\ Last(records').status = status
Judgement == records' # records

(* A case passes only on what it is there to see: text of the model that   *)
(* was asked for, with the marker, the whole JSON object, the conversation *)
(* up to its end, the growing token counts.  The connection may have been  *)
(* lost, but then only after all of this had arrived.                      *)
PassIsEarned ==
  Judged("PASS") =>
    /\ told[1].http = 200
    /\ NamedLast(told[1].events) = Requested
    /\ Case.category # "tool_call" => TextSaid(told[1].events) # <<>>
    /\ Delivers(Case.category, told)

(* A provider that answers as the protocol has it, and with what the case  *)
(* is there to see, passes, wherever its chunks are cut and whatever       *)
(* keep-alives it sends in between.                                        *)
SoundAnswerPasses ==
  /\ Judgement /\ AnsweredWell(told)
  /\ NamedLast(told[1].events) = Requested
  /\ Case.category # "tool_call" => TextSaid(told[1].events) # <<>>
  /\ Case.category = "cache" => Case.cached
  /\ Delivers(Case.category, told)
  => Judged("PASS")

\* An answer in which another model names itself fails the case, however good it is.
OtherModelFails ==
  Judgement /\ NamedLast(told[1].events) \notin {"none", Requested} => Judged("FAIL")

CaseJudgedRight == [][PassIsEarned /\ SoundAnswerPasses /\ OtherModelFails]_suiteVars

(* A run that the list shows has all its files, and its manifest, the      *)
(* records and the counters of the job tell one story: the same cases in   *)
(* the order of the suite, the same successes and failures, a failed suite *)
(* exactly when a case failed, and never a pass of nothing.                *)
ListedTellsTruth ==
  Listed =>
    /\ {"records", "summary"} \subseteq disk
    /\ job.status # "failed"
    /\ Len(records) = job.completed
    /\ \A i \in DOMAIN records : records[i].category = suite[i].category
    /\ verdict.passed + verdict.warned = job.success
    /\ verdict.failed = job.failure
    /\ verdict.status = "FAIL" <=> job.failure > 0
    /\ verdict.status = "PASS" => verdict.passed = job.completed /\ job.completed > 0
=============================================================================
