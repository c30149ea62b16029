---------------------------- MODULE CompatRules -----------------------------
(***************************************************************************)
(* How compatibility.py reads one streamed answer into metrics, and which  *)
(* checks it derives from them for each category of case.                  *)
(*                                                                         *)
(* The JSON text of a data line is a record: "shape" tells whether it is   *)
(* an object of the expected kind, some other JSON, or none at all.  Text  *)
(* is a sequence of pieces, one for each delta.  Token counts the provider *)
(* left out are not in the domain of "usage".  Messages, latencies and     *)
(* counters that only fill the report are left out.                        *)
(***************************************************************************)
EXTENDS Naturals, SequencesExt

CONSTANTS
  Requested,  \* provider.model
  Marker,     \* the pieces of the text a case asks for (expected_substring)
  Json,       \* the pieces of the JSON object a case asks for (expected_json)
  OtherJson   \* texts that parse, to another object or to no object

\* A provider is configured with the name of a model, which "none" is not.
ASSUME RequestedAssumption == Requested # "none"

Grades == {"PASS", "WARN", "FAIL"}
Graded(ok, otherwise) == IF ok THEN "PASS" ELSE otherwise

\* worst_status
Worst(statuses) ==
  IF "FAIL" \in statuses THEN "FAIL" ELSE IF "WARN" \in statuses THEN "WARN" ELSE "PASS"

-----------------------------------------------------------------------------
\* ProbeMetrics
Fresh(http) ==
  [http |-> http, error |-> "none", heard |-> FALSE, types |-> <<>>, text |-> <<>>,
   tool |-> FALSE, inputJson |-> FALSE, usage |-> <<>>, model |-> "none"]

EmptyObject ==
  [shape |-> "object", type |-> "", model |-> "none", usage |-> <<>>, kind |-> "", text |-> ""]

\* json.loads of the joined data lines; two texts joined are none
Decoded(data) ==
  CASE Len(data) = 0 -> EmptyObject
    [] Len(data) = 1 -> data[1].object[1]
    [] OTHER -> [EmptyObject EXCEPT !.shape = "text"]

DtypeOf(event) ==
  LET object == Decoded(event.data) IN IF object.type = "" THEN event.name ELSE object.type

\* update_usage: a count that is there replaces the earlier one
Updated(usage, news) ==
  [field \in DOMAIN usage \cup DOMAIN news |->
     IF field \in DOMAIN news THEN news[field] ELSE usage[field]]

\* An object without the methods the loop calls raises out of the whole suite.
Unreadable(event) == Decoded(event.data).shape \notin {"object", "text"}

\* The body of the loop over the events
Absorbed(m, event) ==
  LET object == Decoded(event.data)
      dtype == DtypeOf(event)
      typed == [m EXCEPT !.heard = TRUE, !.types = Append(@, dtype)]
  IN CASE object.shape = "text" -> [m EXCEPT !.heard = TRUE]
       [] object.shape = "object" /\ dtype = "message_start" ->
            [typed EXCEPT !.model = object.model, !.usage = Updated(@, object.usage)]
       [] object.shape = "object" /\ dtype = "content_block_start" ->
            [typed EXCEPT !.tool = @ \/ object.kind = "tool_use"]
       [] object.shape = "object" /\ dtype = "content_block_delta" ->
            [typed EXCEPT
               !.text = IF object.kind = "text_delta" /\ object.text # ""
                          THEN Append(@, object.text) ELSE @,
               !.inputJson = @ \/ object.kind = "input_json_delta"]
       [] object.shape = "object" /\ dtype = "message_delta" ->
            [typed EXCEPT !.usage = Updated(@, object.usage)]
       [] OTHER -> typed

\* The end of the stream, of the connection, and of a request that was refused
Ended(m) ==
  IF m.text = <<>> /\ ~m.tool THEN [m EXCEPT !.error = "no text"] ELSE m
Broken(m) == [m EXCEPT !.error = "transport"]
Refused(http, reason) == [Fresh(http) EXCEPT !.error = reason]

-----------------------------------------------------------------------------
\* Checks are pairs of a name and a status.

ModelIdentity(m) ==
  CASE m.model = "none" -> "WARN"
    [] m.model # Requested -> "FAIL"
    [] OTHER -> "PASS"

CommonChecks(m, requireText) ==
  {<<"http_status", Graded(m.http = 200, "FAIL")>>,
   <<"displayable_text", Graded(~requireText \/ m.text # <<>>, "FAIL")>>,
   <<"model_identity", ModelIdentity(m)>>}

ForcedChoiceUnsupported(case, m) ==
  case.id = "tool_call_probe" /\ case.category = "tool_call" /\ m.http = 400 /\ m.error = "tool_choice"

ForcedChoiceChecks(m) ==
  {<<"http_status", "WARN">>, <<"tool_choice_support", "WARN">>,
   <<"model_identity", ModelIdentity(m)>>}

Occurs(piece, text) ==
  \E i \in 1 .. Len(text) + 1, j \in 0 .. Len(text) : SubSeq(text, i, j) = piece

SubstringChecks(m) == {<<"expected_substring", Graded(Occurs(Marker, m.text), "WARN")>>}

Count(usage, field) == IF field \in DOMAIN usage THEN usage[field] ELSE 0
InputFields == {"input", "creation", "read"}
CacheFields == {"creation", "read"}

\* Slip: compare the prompts by the uncached tokens alone.
UncachedInput(usage) == Count(usage, "input")

\* total_input, of counts of which at least one is there
TotalInput(usage) == Count(usage, "input") + Count(usage, "creation") + Count(usage, "read")
Comparable(usage) == InputFields \cap DOMAIN usage # {}

UsageChecks(m, second) ==
  {<<"usage_required_fields", Graded({"input", "output"} \subseteq DOMAIN m.usage, "FAIL")>>,
   <<"usage_cache_fields", Graded(CacheFields \subseteq DOMAIN m.usage, "WARN")>>}
  \cup {<<"usage_prompt_scale",
          Graded(/\ Comparable(m.usage) /\ Comparable(other.usage)
                 /\ TotalInput(other.usage) > TotalInput(m.usage), "FAIL")>> : other \in second}

Holds(types, dtype) == dtype \in ToSet(types)
FirstOf(types, dtype) == Min({i \in DOMAIN types : types[i] = dtype})

SseOrdered(types) ==
  /\ \A dtype \in {"message_start", "content_block_delta", "message_stop"} : Holds(types, dtype)
  /\ FirstOf(types, "message_start") < FirstOf(types, "content_block_delta")
  /\ FirstOf(types, "content_block_delta") < FirstOf(types, "message_stop")

SseRequired == {"message_start", "content_block_delta", "message_delta", "message_stop"}

SseChecks(m) ==
  {<<"sse_required_events", Graded(SseRequired \subseteq ToSet(m.types), "FAIL")>>,
   <<"sse_event_order", Graded(SseOrdered(m.types), "FAIL")>>,
   <<"sse_latency", Graded(m.heard /\ m.text # <<>>, "FAIL")>>}

Fenced(text) == text # <<>> /\ ("fence" \in {text[1], Last(text)})

\* The text of a JSON object begins and ends with a brace.
ASSUME JsonAssumption == ~Fenced(Json)

Parses(text) == text = Json \/ text \in OtherJson

JsonChecks(m) ==
  {<<"json_no_markdown", Graded(~Fenced(m.text), "FAIL")>>,
   <<"json_parse", Graded(Parses(m.text), "FAIL")>>}
  \cup (IF Parses(m.text) THEN {<<"json_schema", Graded(m.text = Json, "FAIL")>>} ELSE {})

Reported(usage) == CacheFields \cap DOMAIN usage # {}

CacheChecks(case, m, second) ==
  {<<"cache_control_sent", Graded(case.cached, "FAIL")>>,
   <<"cache_usage_observed", Graded(Reported(m.usage), "WARN")>>}
  \cup {<<"cache_repeat_usage_observed", Graded(Reported(other.usage), "WARN")>> : other \in second}

ToolChecks(m) ==
  {<<"tool_use_event", Graded(m.tool, "FAIL")>>,
   <<"tool_input_delta", Graded(m.inputJson, "WARN")>>}

\* evaluate_case; second is empty or holds the metrics of the secondary request
CaseChecks(case, m, second) ==
  IF ForcedChoiceUnsupported(case, m) THEN ForcedChoiceChecks(m)
  ELSE CommonChecks(m, case.category # "tool_call")
         \cup (CASE case.category = "messages" -> SubstringChecks(m)
                 [] case.category = "usage" -> UsageChecks(m, second)
                 [] case.category = "sse" -> SseChecks(m)
                 [] case.category = "json" -> JsonChecks(m)
                 [] case.category = "cache" -> CacheChecks(case, m, second)
                 [] case.category = "tool_call" -> ToolChecks(m)
                 [] OTHER -> {})

StatusOf(checks) == Worst({pair[2] : pair \in checks})
=============================================================================
