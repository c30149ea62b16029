--------------------------- MODULE MCCompatSuite ----------------------------
(* Suites and answers for the run: a good answer for each category, and    *)
(* those that miss what its cases are there to see in one way each.        *)
EXTENDS CompatSuite

CaseOf(category) ==
  [id |-> IF category = "tool_call" THEN "tool_call_probe" ELSE category,
   category |-> category, second |-> category \in {"usage", "cache"}, cached |-> category = "cache"]

MCSuites ==
  {<<CaseOf("usage"), CaseOf("sse"), CaseOf("messages")>>,
   <<CaseOf("cache"), CaseOf("tool_call"), CaseOf("json")>>}

MCMarker == <<"compat", "ok">>
MCJson == <<"{count", "3}">>
MCOtherJson == {<<"[]">>}

-----------------------------------------------------------------------------
\* JSON texts, and events that carry one
Typed(type) == [EmptyObject EXCEPT !.type = type]
Event(object) == [comment |-> FALSE, name |-> "", data |-> <<DataLine(object)>>]

AllCounts(input) == [input |-> input, output |-> 1, creation |-> 0, read |-> 0]
NoCounts == [field \in {} |-> 0]
Start(model, usage) == Event([Typed("message_start") EXCEPT !.model = model, !.usage = usage])
Text(piece) == Event([Typed("content_block_delta") EXCEPT !.kind = "text_delta", !.text = piece])
ToolBlock == Event([Typed("content_block_start") EXCEPT !.kind = "tool_use"])
ToolInput == Event([Typed("content_block_delta") EXCEPT !.kind = "input_json_delta"])
Thinking == Event([Typed("content_block_delta") EXCEPT !.kind = "thinking_delta"])
Delta(usage) == Event([Typed("message_delta") EXCEPT !.usage = usage])
KeepAlive == [comment |-> TRUE, name |-> "", data |-> <<>>]
\* The name of this event stands in for the type its data lack.
NamedStop == [comment |-> FALSE, name |-> "message_stop", data |-> <<DataLine(Typed(""))>>]
NotJson == Event([EmptyObject EXCEPT !.shape = "text"])
JsonList == Event([EmptyObject EXCEPT !.shape = "other"])

-----------------------------------------------------------------------------
Answer(style, events) ==
  [http |-> 200, reason |-> "none", style |-> style, events |-> events, unsent |-> 0]
Refusal(http, reason) == [NoAnswer EXCEPT !.http = http, !.reason = reason]

OutputLater == [output |-> 2]
Good == Start("m", AllCounts(5))

MCAnswers ==
  [sse |->
     {Answer("crlf", <<KeepAlive, Good, Thinking, Text("a"), Delta(OutputLater), NamedStop>>),
      [Answer("lf", <<Good, Text("a"), Delta(OutputLater), NamedStop>>) EXCEPT !.unsent = 1],
      Answer("lf", <<Start("other", AllCounts(5)), Text("a"), Delta(OutputLater), NamedStop>>),
      Answer("lf", <<Text("a"), Good, Delta(OutputLater), NamedStop>>)},
   messages |->
     {Answer("lf", <<Good, Text("compat"), NotJson, Text("ok")>>),
      Answer("crlf", <<Start("none", NoCounts), Text("ok"), JsonList>>),
      Refusal(500, "other")},
   json |->
     {Answer("lf", <<Good, Text("{count"), Text(""), Text("3}"), Delta(NoCounts), NamedStop>>),
      Answer("lf", <<Good, Text("fence"), Text("{count"), Text("3}"), Text("fence")>>),
      Answer("lf", <<Good, Text("[]")>>)},
   tool_call |->
     {Answer("lf", <<Good, ToolBlock, ToolInput, Delta(OutputLater), NamedStop>>),
      Answer("lf", <<Good, Text("no")>>),
      Refusal(400, "tool_choice")},
   usage |->
     {Answer("lf", <<Good, Text("a"), Delta(NoCounts), NamedStop>>),
      Answer("lf", <<Start("m", [input |-> 9, output |-> 1]), Text("a")>>),
      Answer("lf", <<Start("m", [AllCounts(5) EXCEPT !.read = 7]), Text("a"), Delta(OutputLater),
                     NamedStop>>)},
   cache |->
     {Answer("lf", <<Good, Text("a")>>),
      Answer("lf", <<Start("m", OutputLater), Text("a")>>)}]
=============================================================================
