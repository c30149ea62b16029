----------------------------- MODULE SseStream ------------------------------
(***************************************************************************)
(* The reader of event streams, run_eval.iter_sse_events: bytes arrive in  *)
(* chunks cut anywhere, and events are split off at blank lines.           *)
(*                                                                         *)
(* A token is a line without its end, or one byte of a line end; a cut in  *)
(* the middle of a line tells the reader no more than a cut before it.     *)
(* The provider is external: it composes events and sends them with one    *)
(* style of line ends.  A stream that mixes the two styles is left out.    *)
(***************************************************************************)
EXTENDS Naturals, SequencesExt

VARIABLES
  sent,    \* the answer as the provider composed it: its events and how they are written
  wire,    \* tokens under way
  buffer,  \* the reader's buffer
  taken    \* history: events the reader yielded

streamVars == <<sent, wire, buffer, taken>>

\* A line says what field it is; a name has a value, and a data line an object.
Line(field, value, object) == [field |-> field, value |-> value, object |-> object]
DataLine(object) == Line("data", "", <<object>>)
CommentLine == Line("comment", "", <<>>)
NameLine(name) == Line("event", name, <<>>)
LineFeed == Line("lf", "", <<>>)
CarriageReturn == Line("cr", "", <<>>)

LineEnd(style) == IF style = "lf" THEN <<LineFeed>> ELSE <<CarriageReturn, LineFeed>>

\* An event as composed has perhaps a comment line, a name or "", and data lines.
Lines(event) ==
  (IF event.comment THEN <<CommentLine>> ELSE <<>>)
    \o (IF event.name = "" THEN <<>> ELSE <<NameLine(event.name)>>)
    \o event.data

Encoded(event, style) ==
  LET rows == [i \in DOMAIN Lines(event) |-> <<Lines(event)[i]>> \o LineEnd(style)]
  IN FlattenSeq(rows) \o LineEnd(style)

Encoding(events, style) == FlattenSeq([i \in DOMAIN events |-> Encoded(events[i], style)])

\* A connection may be closed in good order before everything was sent.
Written(answer) ==
  LET whole == Encoding(answer.events, answer.style)
  IN SubSeq(whole, 1, Len(whole) - answer.unsent)

\* What a provider may compose: events that say something, data lines that are data
Composed(answer) ==
  /\ answer.events \in Seq(Range(answer.events))
  /\ answer.unsent \in Nat
  /\ \A event \in Range(answer.events) :
       /\ event.data \in Seq(Range(event.data))
       /\ \A line \in Range(event.data) : line.field = "data"
       /\ Lines(event) # <<>>

-----------------------------------------------------------------------------
\* The two blank lines the reader knows, and where the first of a kind begins
LfBlank == <<"lf", "lf">>
CrlfBlank == <<"cr", "lf", "cr", "lf">>

BlankAt(bytes, blank, i) ==
  i + Len(blank) <= Len(bytes) /\ \A k \in DOMAIN blank : bytes[i + k].field = blank[k]
FirstBlank(bytes, blank) ==
  {i \in 0 .. Len(bytes) :
     BlankAt(bytes, blank, i) /\ \A j \in 0 .. i - 1 : ~BlankAt(bytes, blank, j)}

\* Slip: start afresh after an event, losing what else its chunk had brought.
NothingLeft(bytes, n) == <<>>
Remainder(bytes, n) == SubSeq(bytes, n + 1, Len(bytes))

SplitBy(bytes, blank) ==
  {[lines |-> SubSeq(bytes, 1, i), rest |-> Remainder(bytes, i + Len(blank))]
     : i \in FirstBlank(bytes, blank)}

\* How this turn of the loop splits, if it does: at a CRLF blank line wherever it is,
\* before any LF one
Splits(bytes) ==
  IF SplitBy(bytes, CrlfBlank) # {} THEN SplitBy(bytes, CrlfBlank) ELSE SplitBy(bytes, LfBlank)
Splittable(bytes) == Splits(bytes) # {}

\* What a line adds to what the event said so far: the last name counts, and every data line
Hearing(event, line) ==
  CASE line.field = "event" -> [name |-> line.value, data |-> event.data]
    [] line.field = "data" -> [name |-> event.name, data |-> Append(event.data, line)]
    [] OTHER -> event

Parsed(lines) ==
  LET heard[i \in 0 .. Len(lines)] ==
        IF i = 0 THEN [name |-> "message", data |-> <<>>] ELSE Hearing(heard[i - 1], lines[i])
  IN heard[Len(lines)]

-----------------------------------------------------------------------------
Idle(answer) == sent = answer /\ wire = <<>> /\ buffer = <<>> /\ taken = 0

OpenStream(answer) ==
  /\ sent' = answer
  /\ wire' = Written(answer)
  /\ buffer' = <<>>
  /\ taken' = 0

CloseStream(none) == sent' = none /\ wire' = <<>> /\ buffer' = <<>> /\ taken' = 0

\* The next chunk, of any length; the loop asks for it when no event is left to split off
Receive ==
  /\ ~Splittable(buffer)
  /\ \E n \in 1 .. Len(wire) :
       /\ wire' = SubSeq(wire, n + 1, Len(wire))
       /\ buffer' = buffer \o SubSeq(wire, 1, n)
  /\ UNCHANGED <<sent, taken>>

\* One event is split off and handed to the caller.
YieldEvent(split) ==
  /\ split \in Splits(buffer)
  /\ buffer' = split.rest
  /\ taken' = taken + 1
  /\ UNCHANGED <<sent, wire>>

\* The stream is over; what is left in the buffer, an event without its blank line, is dropped
Exhausted == wire = <<>> /\ ~Splittable(buffer)

-----------------------------------------------------------------------------
\* The event a reader should make of what the provider composed
Meant(event) ==
  [name |-> IF event.name = "" THEN "message" ELSE event.name, data |-> event.data]

(* Wherever the chunks were cut, the reader yields the provider's events,  *)
(* each once and in their order, none merged with its neighbour and none   *)
(* in part: what it would split off is the next event composed, and what   *)
(* it holds together with what is under way begins with the writing of     *)
(* that event, of which only a closed connection may have cut off the end. *)
EventsAsSent ==
  LET ahead == buffer \o wire
  IN IF taken >= Len(sent.events)
       THEN taken = Len(sent.events) /\ ahead = <<>>
       ELSE LET next == sent.events[taken + 1]
                writing == Encoded(next, sent.style)
            IN /\ IsPrefix(writing, ahead) \/ (sent.unsent > 0 /\ IsStrictPrefix(ahead, writing))
               /\ \A split \in Splits(buffer) : Parsed(split.lines) = Meant(next)
=============================================================================
