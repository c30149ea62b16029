--------------------------- MODULE EvidenceRules ---------------------------
(***************************************************************************)
(* The rules that turn evidence about a finished run into a release        *)
(* decision: evaluate_source of trace_evaluation.py, which grades the      *)
(* trace of one record, and aggregate_metrics and evaluate_policy of       *)
(* quality_gate.py, which grade the run.                                   *)
(*                                                                         *)
(* A run is a sequence of records of one provider.  A record keeps what    *)
(* the rules look at; its original and fresh grades are the scores of the  *)
(* run and of a rescoring.  Thresholds are those of                        *)
(* quality_gate.policy.json, rates are compared by cross multiplication.   *)
(***************************************************************************)
EXTENDS Integers, Sequences, FiniteSets, FiniteSetsExt

\* The score of a grade that has none
NoScore == -1

Grades == [score : NoScore .. 10, format : BOOLEAN]

Traces ==
  [ events   : {"missing", "sse", "plain"},      \* plain: a non-streaming runner
    marks    : SUBSET {"start", "delta", "stop"},
    ordered  : BOOLEAN,
    text     : BOOLEAN,                          \* visible text deltas
    thinking : {"none", "some", "long"},
    terminal : BOOLEAN,                          \* response_completed, dry_completion
    garbled  : BOOLEAN,                          \* rows that are not JSON
    tools    : {"none", "valid", "invalid"} ]

RecordsOfRun ==
  [ ok : BOOLEAN, json : BOOLEAN, judgeError : BOOLEAN, capped : BOOLEAN,
    latency : {"none", "fast", "slow"}, returned : {"none", "same", "other"},
    original : Grades, scorable : BOOLEAN, fresh : Grades, trace : Traces ]

Decisions == {"GO", "REVIEW", "NO-GO"}

-----------------------------------------------------------------------------
(* The trace of a record                                                   *)

AllMarks == {"start", "delta", "stop"}

\* Some event of a streamed answer is missing, and the runner did not stream.
NoStream(t) == t.events = "plain" /\ t.marks # AllMarks

\* required_sse_events and event_order
StreamStatus(t) ==
  IF NoStream(t) THEN "NOT_APPLICABLE"
  ELSE IF t.marks = AllMarks /\ t.ordered THEN "PASS" ELSE "FAIL"

\* visible_text_path
TextStatus(t) ==
  IF NoStream(t) THEN "NOT_APPLICABLE"
  ELSE IF ~t.text THEN "FAIL"
  ELSE IF t.thinking = "long" THEN "WARN" ELSE "PASS"

\* terminal_state
TerminalStatus(t, ok) ==
  IF t.events = "plain"
  THEN IF ~ok THEN "FAIL" ELSE IF t.terminal THEN "PASS" ELSE "WARN"
  ELSE IF "stop" \in t.marks /\ ok THEN "PASS" ELSE "FAIL"

\* latency_trace
LatencyStatus(latency) == IF latency = "fast" THEN "PASS" ELSE "WARN"

\* validate_tool_calls
ToolStatus(tools) ==
  CASE tools = "none" -> "NOT_APPLICABLE"
    [] tools = "valid" -> "PASS"
    [] tools = "invalid" -> "FAIL"

WorstStatus(statuses) ==
  IF "FAIL" \in statuses THEN "FAIL" ELSE IF "WARN" \in statuses THEN "WARN" ELSE "PASS"

\* evaluate_source.  A record whose evaluation raises is graded FAIL, like one
\* with invalid tool calls.
EvaluateSource(r) ==
  WorstStatus(
    (IF r.trace.events = "missing" THEN {"WARN"}
     ELSE {StreamStatus(r.trace), TextStatus(r.trace), TerminalStatus(r.trace, r.ok)}
          \cup (IF r.trace.garbled THEN {"FAIL"} ELSE {}))
    \cup {IF r.capped THEN "WARN" ELSE "PASS", LatencyStatus(r.latency), ToolStatus(r.trace.tools)})

-----------------------------------------------------------------------------
(* The metrics of the gate                                                 *)

\* apply_rescore: the records whose score a rescoring replaces.  A record it
\* could not score keeps its own.
Applied(marks, run) ==
  {i \in DOMAIN marks : marks[i] # "unscored" /\ run[i].fresh.score # NoScore}

GradeOf(run, applied, i) == IF i \in applied THEN run[i].fresh ELSE run[i].original

\* effective_score_1000 over the records that have a score
SampleScore(run, applied) ==
  LET scored == {i \in DOMAIN run : GradeOf(run, applied, i).score # NoScore}
  IN IF scored = {} THEN NoScore
     ELSE (100 * MapThenSumSet(LAMBDA i : GradeOf(run, applied, i).score, scored))
            \div Cardinality(scored)

\* gate_score: a rescoring of every record replaces the benchmark score, one
\* of some records does not.
GateScore(run, benchmark, applied) ==
  IF applied # {} /\ applied = DOMAIN run THEN SampleScore(run, applied)
  ELSE IF benchmark # NoScore THEN benchmark
  ELSE SampleScore(run, applied)

FailedJson(run, applied) ==
  {i \in DOMAIN run : run[i].json /\ (~run[i].ok \/ ~GradeOf(run, applied, i).format)}

\* part/whole is above percent/100; nothing is above anything in an empty run
RateAbove(part, whole, percent) == 100 * part > percent * whole

\* The nearest-rank 95th percentile of the known latencies is a slow one.
SlowAtP95(run) ==
  LET known == {i \in DOMAIN run : run[i].latency # "none"}
      fast  == {i \in known : run[i].latency = "fast"}
  IN known # {} /\ 100 * Cardinality(fast) < 95 * Cardinality(known)

-----------------------------------------------------------------------------
(* The policy                                                              *)

\* load_authenticity_evidence: what stands for the artifact of the run
VerdictRead(artifact) ==
  IF artifact \in {"unreadable", "no verdict"} THEN "insufficient_evidence" ELSE artifact

Suspected == {"suspected_wrapper", "suspected_downgrade"}

\* evaluate_policy's blockers.  aggregate_metrics never supplies the count of
\* silent truncations, so that rule has nothing to block on.
Blocks(g) ==
  [ compatibility |-> g.compat.suite = "FAIL",
    identity      |-> \E r \in g.records : r.returned = "other",
    authenticity  |-> g.verdict \in Suspected,
    success       |-> RateAbove(g.failures, g.samples, 5),
    json          |-> RateAbove(g.jsonFailures, g.jsonSamples, 5),
    score         |-> g.score # NoScore /\ g.score < 600 ]

Blockers(g) == {rule \in DOMAIN Blocks(g) : Blocks(g)[rule]}

CompatReview(c) ==
  c.suite # "FAIL" /\ (~c.found \/ c.suite = "WARN" \/ ~c.completed)

\* Slip: whatever part of the run was rescored is good enough.
RescoreReviewAny(s, required, samples) == required /\ ~s.found

\* A rescoring that was asked for is there, whole, and covers every record.
RescoreReview(s, required, samples) ==
  required /\ (~s.found \/ s.stopped \/ s.covered < samples)

\* Only an evaluation that was asked for has to be there, whole and covering;
\* the failures and warnings of any that is found count.
TraceReview(t, samples) ==
  \/ t.requested /\ (~t.found \/ t.stopped \/ t.count < samples)
  \/ t.found /\ (t.fails > 0 \/ t.warns > 0)

\* evaluate_policy's review items
Reviews(g) ==
  [ compatibility |-> CompatReview(g.compat),
    authenticity  |-> g.verdict = "insufficient_evidence",
    success       |-> g.samples = 0 \/ (RateAbove(g.failures, g.samples, 2)
                                        /\ ~RateAbove(g.failures, g.samples, 5)),
    score         |-> g.score = NoScore \/ (g.score >= 600 /\ g.score < 750),
    judge         |-> RateAbove(g.judgeErrors, g.samples, 5),
    capped        |-> RateAbove(g.capped, g.samples, 10),
    latency       |-> g.slow,
    stale         |-> g.stale,
    rescore       |-> RescoreReview(g.rescore, g.required, g.samples),
    trace         |-> TraceReview(g.trace, g.samples) ]

ReviewItems(g) == {rule \in DOMAIN Reviews(g) : Reviews(g)[rule]}

Decide(g) ==
  IF Blockers(g) # {} THEN "NO-GO" ELSE IF ReviewItems(g) # {} THEN "REVIEW" ELSE "GO"

\* aggregate_metrics: what the policy sees of a run and of the evidence found.
\* stale tells whether any of it is older than evidence_max_age_days.
Gather(run, benchmark, artifact, compat, rescore, required, trace, stale) ==
  LET applied == IF rescore.found THEN Applied(rescore.marks, run) ELSE {}
      number(P(_)) == Cardinality({i \in DOMAIN run : P(i)})
  IN [ compat       |-> compat,
       records      |-> {run[i] : i \in DOMAIN run},
       verdict      |-> VerdictRead(artifact),
       samples      |-> Len(run),
       failures     |-> number(LAMBDA i : ~run[i].ok),
       jsonSamples  |-> number(LAMBDA i : run[i].json),
       jsonFailures |-> Cardinality(FailedJson(run, applied)),
       score        |-> GateScore(run, benchmark, applied),
       judgeErrors  |-> number(LAMBDA i : run[i].judgeError
                                          \/ (i \in applied /\ rescore.marks[i] = "judge_failed")),
       capped       |-> number(LAMBDA i : run[i].capped),
       slow         |-> SlowAtP95(run),
       stale        |-> stale,
       required     |-> required,
       rescore      |-> [found |-> rescore.found, stopped |-> rescore.stopped,
                         covered |-> Cardinality(applied)],
       trace        |-> trace ]
=============================================================================
