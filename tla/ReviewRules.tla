---------------------------- MODULE ReviewRules ----------------------------
(***************************************************************************)
(* How the records of a campaign become decisions: summarize_campaign and  *)
(* the decisions it takes (campaigns.py, decisions.py), and the trust      *)
(* report over the same records (authenticity.py).                         *)
(*                                                                         *)
(* A rate is a pair, part and whole, and is missing when the whole is      *)
(* zero; averages of rates are exact fractions, where the code rounds to   *)
(* three or six places.  Latencies are in seconds.                         *)
(*                                                                         *)
(* The records of a campaign are a function of their positions: a position *)
(* is a reference of run_ids.json (its place in the list, and its round),  *)
(* and a place in what its run wrote.                                      *)
(***************************************************************************)
EXTENDS Integers, Sequences, FiniteSets, FiniteSetsExt, Functions

NoScore == -1
NoLatency == -1

\* What a record may show of how the provider answered
Features == {"usage", "stop", "hash", "path", "raw", "upstream", "route", "retry", "processing"}

RecordsOfRun(Tasks) ==
  [ task : Tasks, ok : BOOLEAN, text : BOOLEAN, protocol : BOOLEAN,
    score : NoScore .. 10, latency : {NoLatency} \cup Nat,
    returned : {"none", "same", "other"}, has : SUBSET Features ]

-----------------------------------------------------------------------------
(* Rates                                                                   *)

Missing(rate) == rate[2] = 0

\* part/whole < percent/100
Below(rate, percent) == 100 * rate[1] < percent * rate[2]

Gcd[a \in Nat, b \in Nat] == IF b = 0 THEN a ELSE Gcd[b, a % b]

Lowest(rate) == LET g == Gcd[rate[1], rate[2]] IN <<rate[1] \div g, rate[2] \div g>>

Plus(p, q) == <<p[1] * q[2] + q[1] * p[2], p[2] * q[2]>>

\* A rate that is missing adds nothing.
Add(p, q) == IF Missing(q) THEN p ELSE Plus(p, q)

Times(rate, n) == <<rate[1] * n, rate[2]>>

Zero == <<0, 1>>

\* The mean of those of five rates that are there
Mean(rates) ==
  LET sum == Add(Add(Add(Add(Add(Zero, rates[1]), rates[2]), rates[3]), rates[4]), rates[5])
  IN <<sum[1], sum[2] * Cardinality({i \in 1 .. 5 : ~Missing(rates[i])})>>

\* 1 - |p - q| / span, and zero beyond the span; missing if either is
Closeness(p, q, span) ==
  LET gap == LET d == p[1] * q[2] - q[1] * p[2] IN IF d < 0 THEN -d ELSE d
      far == span[1] * p[2] * q[2]
  IN IF Missing(p) \/ Missing(q) THEN <<0, 0>>
     ELSE IF gap * span[2] >= far THEN Zero
     ELSE Lowest(<<far - gap * span[2], far>>)

-----------------------------------------------------------------------------
(* Decisions                                                               *)

\* worst_decision
Worst(decisions) ==
  IF "NO-GO" \in decisions THEN "NO-GO" ELSE IF "REVIEW" \in decisions THEN "REVIEW" ELSE "GO"

\* Slip: a measurement that is missing is not held against anybody.
GradeLenient(rate, review, go) ==
  IF Missing(rate) THEN "GO"
  ELSE IF Below(rate, review) THEN "NO-GO" ELSE IF Below(rate, go) THEN "REVIEW" ELSE "GO"

\* decision_from_score, and the like in campaigns.py: a missing score is for
\* review, the thresholds are inclusive.
Grade(rate, review, go) ==
  IF Missing(rate) THEN "REVIEW"
  ELSE IF Below(rate, review) THEN "NO-GO" ELSE IF Below(rate, go) THEN "REVIEW" ELSE "GO"

-----------------------------------------------------------------------------
(* The metrics of a campaign                                               *)

Size(records) == Cardinality(DOMAIN records)

Count(records, P(_)) == Cardinality({p \in DOMAIN records : P(records[p])})

Share(records, P(_)) == <<Count(records, P), Size(records)>>

\* The positions whose scores count, and the sum of the scores: a score is as many
\* as the numbers from one up to it.
Scored(records) == {p \in DOMAIN records : records[p].ok /\ records[p].score # NoScore}

SumOfScores(records) ==
  Cardinality(UNION {{p} \X (1 .. records[p].score) : p \in Scored(records)})

\* The k-th of the latencies in ascending order
AtRank(latency, k) ==
  Min({x \in Range(latency) : Cardinality({p \in DOMAIN latency : latency[p] <= x}) >= k})

\* percentile: linear between the neighbours of the rank, in hundredths
Percentile95(latency) ==
  LET rank   == (Size(latency) - 1) * 95
      lower  == rank \div 100 + 1
      upper  == IF lower = Size(latency) THEN lower ELSE lower + 1
      weight == rank % 100
  IN IF latency = <<>> THEN <<0, 0>>
     ELSE <<AtRank(latency, lower) * (100 - weight) + AtRank(latency, upper) * weight, 100>>

After(p, q) == p[1][1] > q[1][1] \/ (p[1] = q[1] /\ p[2] > q[2])

Last(positions) == CHOOSE p \in positions : \A q \in positions \ {p} : After(p, q)

\* record_task_scores: the last score of each task
TaskScores(records) ==
  LET scored == {p \in DOMAIN records : records[p].score # NoScore}
  IN [t \in {records[p].task : p \in scored} |->
        records[Last({p \in scored : records[p].task = t})].score]

Metrics(records) ==
  LET timed == {p \in DOMAIN records : records[p].latency # NoLatency}
      named == Count(records, LAMBDA r : r.returned # "none")
  IN [ cases       |-> Size(records),
       transport   |-> Share(records, LAMBDA r : r.ok),
       response    |-> Share(records, LAMBDA r : r.ok /\ r.text),
       protocol    |-> Share(records, LAMBDA r : r.protocol),
       quality     |-> <<SumOfScores(records), Cardinality(Scored(records))>>,
       named       |-> named,
       consistency |-> <<Count(records, LAMBDA r : r.returned = "same"), named>>,
       p95         |-> Percentile95([p \in timed |-> records[p].latency]),
       tasks       |-> TaskScores(records) ]

\* model_confidence_decision
ModelConfidence(m) ==
  Worst({Grade(m.consistency, 98, 98), Grade(m.quality, 600, 750), Grade(m.protocol, 0, 100)})

\* gateway_reliability_decision
GatewayReliability(m) ==
  Worst({Grade(m.transport, 95, 98),
         IF Missing(m.p95) \/ m.p95[1] > 15 * m.p95[2] THEN "REVIEW" ELSE "GO"})

Overall(m) == Worst({ModelConfidence(m), GatewayReliability(m)})

-----------------------------------------------------------------------------
(* The trust report                                                        *)

\* record_feature_metrics: how many of the records show something
Showing(records, feature) == Count(records, LAMBDA r : feature \in r.has)

Presence(records, feature) == <<Showing(records, feature), Size(records)>>

\* The rate of answers that named their model.  The count is that of the
\* summary; so is the total, unless the summary has no case.
NamedRate(m, records) == <<m.named, IF m.cases # 0 THEN m.cases ELSE Size(records)>>

\* build_protocol_fingerprint
Fingerprint(live, m, records) ==
  IF ~live THEN "REVIEW"
  ELSE IF \/ ~Missing(m.protocol) /\ Below(m.protocol, 95)
          \/ ~Missing(m.consistency) /\ Below(m.consistency, 98)
       THEN "NO-GO"
  ELSE Grade(Mean(<<m.protocol, m.consistency, NamedRate(m, records),
                    Presence(records, "usage"), Presence(records, "stop")>>), 60, 85)

\* The p95 of a campaign in multiples of the baseline's
LatencyRatio(m, base) ==
  IF Missing(m.p95) \/ Missing(base.p95) \/ base.p95[1] = 0 THEN <<0, 0>>
  ELSE Lowest(<<m.p95[1] * base.p95[2], m.p95[2] * base.p95[1]>>)

TaskGap(m, base, t) ==
  LET d == m.tasks[t] - base.tasks[t] IN IF d < 0 THEN -d ELSE d

CommonTasks(m, base) == DOMAIN m.tasks \cap DOMAIN base.tasks

\* build_baseline_comparison, with a baseline
Similarity(m, base) ==
  LET common == CommonTasks(m, base)
      gaps   == <<MapThenSumSet(LAMBDA t : TaskGap(m, base, t), common), Cardinality(common)>>
  IN Worst({Grade(Mean(<<Closeness(m.quality, base.quality, <<4, 1>>),
                         Closeness(m.transport, base.transport, <<1, 4>>),
                         Closeness(m.response, base.response, <<1, 4>>),
                         Closeness(LatencyRatio(m, base), <<1, 1>>, <<3, 1>>),
                         Closeness(gaps, Zero, <<4, 1>>)>>), 62, 82)}
           \cup (IF common = {} THEN {"REVIEW"} ELSE {}))

\* What the records show of where answers come from, by the weights of
\* build_auditability, in hundredths
Traces(records) ==
  LET shown(f) == Showing(records, f)
  IN 15 * shown("hash") + 10 * shown("path") + 10 * shown("raw") + 20 * shown("upstream")
       + 10 * shown("route") + 5 * shown("retry") + 5 * shown("processing")

\* build_auditability: what is missing counts as zero.  The fingerprint of the
\* key is always there, and weighs five: a live campaign has a key, and a dry one
\* needs none.
Auditability(live, m, records) ==
  LET traces == <<Traces(records), Size(records)>>
      score  == Add(Add(<<5, 1>>, traces), Times(NamedRate(m, records), 20))
  IN Worst({Grade(<<score[1], 100 * score[2]>>, 50, 80)} \cup (IF live THEN {} ELSE {"REVIEW"}))
=============================================================================
