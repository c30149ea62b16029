------------------------- MODULE MCEvidencePipeline -------------------------
(* Two rescorings, a trace evaluation, a gate and an export about a run of *)
(* one or two records.                                                     *)
EXTENDS EvidencePipeline, TLC

CONSTANTS r1, r2, t1, g1, x1, c1, c2

CleanTrace ==
  [events |-> "sse", marks |-> AllMarks, ordered |-> TRUE, text |-> TRUE,
   thinking |-> "some", terminal |-> TRUE, garbled |-> FALSE, tools |-> "valid"]

Clean ==
  [ok |-> TRUE, json |-> TRUE, judgeError |-> FALSE, capped |-> FALSE,
   latency |-> "fast", returned |-> "same",
   original |-> [score |-> 8, format |-> TRUE], scorable |-> TRUE,
   fresh |-> [score |-> 9, format |-> TRUE],
   trace |-> CleanTrace]

\* A record whose response is gone, with a trace that broke off
Broken == [Clean EXCEPT !.scorable = FALSE, !.trace.marks = {"start", "delta"}]
Other == [Clean EXCEPT !.returned = "other"]

RunOf(records) ==
  [records |-> records, benchmark |-> NoScore, artifact |-> "none", suite |-> "PASS",
   compatCompleted |-> TRUE]

MCRuns ==
  [clean  |-> RunOf(<<Clean>>),
   broken |-> RunOf(<<Clean, Broken>>),
   other  |-> [RunOf(<<Other>>) EXCEPT !.artifact = "unreadable"]]

ClerksAlike == Permutations({c1, c2})

MCGateRequests ==
  {[rescore |-> None, trace |-> None, require |-> TRUE],
   [rescore |-> r1, trace |-> t1, require |-> FALSE]}

MCExportRequests ==
  {[gate |-> None, rescore |-> None], [gate |-> g1, rescore |-> r1]}
=============================================================================
