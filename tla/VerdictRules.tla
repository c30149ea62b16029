---------------------------- MODULE VerdictRules ----------------------------
(***************************************************************************)
(* The scoring rules of baseline_registry.py, and compare_to_baseline,     *)
(* which turns the scores of a suspect endpoint into a verdict.            *)
(*                                                                         *)
(* A score is kept as what it means to compare_to_baseline: the dicts with *)
(* score 10, 5, 0 and None, sse families and dialects all become one of    *)
(* the Outcomes.  Confidences are percentages.  Pass rates are compared    *)
(* exactly; the code rounds them to four decimals, which decides nothing   *)
(* for item sets as large as the ones shipped.                             *)
(***************************************************************************)
EXTENDS Integers

Signals ==
  {"tokenizer", "sse", "error_envelope", "needle", "capability", "variance", "identity"}

\* absent: not supplied; mute: a dict without the field the rule looks for;
\* advisory: shown only; neutral: checked, no vote
Outcomes ==
  {"absent", "crashed", "mute", "advisory", "neutral", "agrees", "weakens", "convicts"}

Verdicts ==
  {"matches_official", "suspected_downgrade", "suspected_wrapper", "insufficient_evidence"}

-----------------------------------------------------------------------------
(* The scores                                                              *)

\* verify_core's tokenizer block; fewer is the smaller sample count of the two canaries
TokenizerOutcome(fewer, within) ==
  IF fewer = 0 THEN "absent"
  ELSE IF fewer < 3 THEN "advisory"
  ELSE IF within THEN "agrees" ELSE "weakens"

\* classify_sse_event_order: a family, or none because the stream failed
SseOutcome(family) ==
  CASE family = "openai" -> "convicts"
    [] family = "claude" -> "agrees"
    [] family = "unordered" -> "neutral"
    [] OTHER -> "mute"

\* The dialect of the first refused request, or none because all were accepted
EnvelopeOutcome(dialect) ==
  CASE dialect = "anthropic" -> "agrees"
    [] dialect = "none" -> "crashed"
    [] OTHER -> "advisory"

\* evaluate_silent_truncation and score_needle_recall
NeedleOutcome(answered, recalled, short) ==
  IF answered /\ recalled THEN "agrees"
  ELSE IF answered /\ short THEN "convicts" ELSE "neutral"

\* The gap to the baseline's pass rate is at least percent/100.
GapReaches(percent, passed, answered, basePassed, baseAnswered) ==
  100 * (basePassed * answered - passed * baseAnswered) >= percent * (baseAnswered * answered)

\* score_capability_vs_baseline, with its default margins and sample sizes
CapabilityOutcome(passed, answered, basePassed, baseAnswered) ==
  IF baseAnswered = 0 \/ answered < 5 THEN "advisory"
  ELSE IF answered >= 10 /\ GapReaches(15, passed, answered, basePassed, baseAnswered)
       THEN "convicts"
  ELSE IF GapReaches(6, passed, answered, basePassed, baseAnswered)
       THEN "weakens" ELSE "agrees"

\* score_consistency_variance.  verify_core leaves the null at a pass rate of
\* 1.0, under which a single wrong answer has p-value 0 and none has 1.
VarianceOutcome(answered, passed, varied, minRepeats) ==
  IF answered < minRepeats THEN "advisory"
  ELSE IF passed < answered THEN "convicts"
  ELSE IF varied THEN "weakens" ELSE "agrees"

\* Slip: both envelope facts have to contradict, not either.
IdentityOutcomeOfBoth(returned, family) ==
  IF returned = "absent" /\ family = "absent" THEN "advisory"
  ELSE IF family = "relay" /\ returned = "other" THEN "convicts"
  ELSE IF family = "unclear" \/ returned = "absent" THEN "weakens" ELSE "agrees"

\* score_identity_coherence: the returned model field against the baseline's
\* model, and the family of the response id
IdentityOutcome(returned, family) ==
  IF returned = "absent" /\ family = "absent" THEN "advisory"
  ELSE IF family = "relay" \/ returned = "other" THEN "convicts"
  ELSE IF family = "unclear" \/ returned = "absent" THEN "weakens" ELSE "agrees"

-----------------------------------------------------------------------------
(* compare_to_baseline.  An observed fingerprint is                        *)
(*   live, failed (most requests failed, or none that came back had a stop *)
(*   reason), openaiStop, openaiUsage, idsLow, headersLow, sameModel.      *)

HardFail(o, s) ==
  \/ o.openaiStop
  \/ o.openaiUsage
  \/ "convicts" \in {s["sse"], s["needle"], s["identity"]}

CapabilityDowngrade(s) == "convicts" \in {s["capability"], s["variance"]}

\* One flag for both
CapabilityBorderline(s) == "weakens" \in {s["capability"], s["variance"]}

One(b) == IF b THEN 1 ELSE 0

SoftMisses(o) == One(o.idsLow) + One(o.headersLow)

BehaviorSoftMisses(s) ==
  One(s["tokenizer"] = "weakens") + One(s["identity"] = "weakens") + One(CapabilityBorderline(s))

BehaviorVotes(s) ==
  One(s["tokenizer"] = "agrees") + One(s["sse"] = "agrees") + One(s["error_envelope"] = "agrees")
    + One(s["needle"] = "agrees") + One(s["capability"] = "agrees")
    + One(s["variance"] = "agrees") + One(s["identity"] = "agrees")

BehaviorChecked(s) ==
  \E p \in Signals : s[p] \in {"neutral", "agrees", "weakens", "convicts"}

Insufficient(o) == ~o.live \/ o.failed

VerdictOf(o, s) ==
  IF Insufficient(o) THEN "insufficient_evidence"
  ELSE IF HardFail(o, s) THEN "suspected_wrapper"
  ELSE IF CapabilityDowngrade(s) \/ ~o.sameModel THEN "suspected_downgrade"
  ELSE IF SoftMisses(o) >= 2 \/ BehaviorSoftMisses(s) >= 2 THEN "suspected_downgrade"
  ELSE "matches_official"

MatchConfidence(s) ==
  LET raw == 70 + 8 * BehaviorVotes(s) - 10 * BehaviorSoftMisses(s)
  IN IF raw > 97 THEN 97 ELSE IF raw < 40 THEN 40 ELSE raw

UncappedConfidence(o, s) ==
  IF Insufficient(o) THEN 0
  ELSE IF HardFail(o, s) THEN (IF BehaviorChecked(s) THEN 90 ELSE 85)
  ELSE IF CapabilityDowngrade(s) THEN 80
  ELSE IF ~o.sameModel THEN 60
  ELSE IF SoftMisses(o) >= 2 \/ BehaviorSoftMisses(s) >= 2 THEN 50
  ELSE MatchConfidence(s)

ProbeErrors(s) == {p \in Signals : s[p] = "crashed"}

Confidence(o, s) ==
  IF ProbeErrors(s) # {} /\ UncappedConfidence(o, s) > 50 THEN 50 ELSE UncappedConfidence(o, s)

\* The checks a reader finds in the evidence chain
Evidence(s) == {p \in Signals : s[p] \notin {"absent", "mute"}}

CompareToBaseline(o, s) ==
  [verdict |-> VerdictOf(o, s), confidence |-> Confidence(o, s),
   evidence |-> IF Insufficient(o) THEN {} ELSE Evidence(s)]
=============================================================================
