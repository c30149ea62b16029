-------------------------- MODULE VerifyCoreProofs --------------------------
(***************************************************************************)
(* What verify_core never does, for any number of samples, anchors and     *)
(* repeats: convict an official endpoint, lose what a wrapper gave away,   *)
(* or hide a probe that crashed.                                           *)
(***************************************************************************)
EXTENDS VerifyCore, TLAPS

-----------------------------------------------------------------------------
(* Facts about the rules                                                   *)

(* The scores are outcomes.                                                *)
LEMMA OutcomesTyped ==
  /\ \A f, w : TokenizerOutcome(f, w) \in Outcomes
  /\ \A f : SseOutcome(f) \in Outcomes
  /\ \A d : EnvelopeOutcome(d) \in Outcomes
  /\ \A a, r, s : NeedleOutcome(a, r, s) \in Outcomes
  /\ \A p, a, bp, ba : CapabilityOutcome(p, a, bp, ba) \in Outcomes
  /\ \A a, p, v, m : VarianceOutcome(a, p, v, m) \in Outcomes
  /\ \A r, f : IdentityOutcome(r, f) \in Outcomes
BY DEF TokenizerOutcome, SseOutcome, EnvelopeOutcome, NeedleOutcome, CapabilityOutcome,
   VarianceOutcome, IdentityOutcome, Outcomes

(* An endpoint that passes every anchor it answers, against a baseline     *)
(* that did the same, is neither convicted nor borderline.                 *)
LEMMA FullMarks ==
  ASSUME NEW n \in Nat, NEW b \in Nat
  PROVE  CapabilityOutcome(n, n, b, b) \in {"advisory", "agrees"}
<1>1. CASE b = 0 \/ n < 5
  BY <1>1 DEF CapabilityOutcome
<1>2. CASE b > 0 /\ n >= 5
  <2>1. 100 * (b * n - n * b) = 0
    OBVIOUS
  <2>2. b * n > 0
    BY <1>2
  <2>3. ~GapReaches(15, n, n, b, b) /\ ~GapReaches(6, n, n, b, b)
    <3> DEFINE w == b * n
    <3>1. w \in Nat /\ w > 0
      BY <2>2
    <3> HIDE DEF w
    <3>2. ~(0 >= 15 * w) /\ ~(0 >= 6 * w)
      BY <3>1
    <3> QED BY <3>2, <2>1 DEF GapReaches, w
  <2> QED BY <1>2, <2>3 DEF CapabilityOutcome
<1> QED BY <1>1, <1>2

(* The confidence before the cap is a percentage.                          *)
LEMMA ConfidenceTyped ==
  ASSUME NEW o, NEW s
  PROVE  UncappedConfidence(o, s) \in 0 .. 97
<1>1. \A b : One(b) \in {0, 1}
  BY DEF One
<1>2. BehaviorVotes(s) \in Nat /\ BehaviorSoftMisses(s) \in Nat
  BY <1>1 DEF BehaviorVotes, BehaviorSoftMisses
<1>3. MatchConfidence(s) \in 40 .. 97
  BY <1>2 DEF MatchConfidence
<1> QED BY <1>3 DEF UncappedConfidence

(* What compare_to_baseline returns is a verdict with a confidence.        *)
LEMMA ComparisonTyped ==
  ASSUME NEW o, NEW s
  PROVE  CompareToBaseline(o, s) \in
           [verdict : Verdicts \cup {"none"}, confidence : 0 .. 97, evidence : SUBSET Signals]
<1>1. VerdictOf(o, s) \in Verdicts
  BY DEF VerdictOf, Verdicts
<1>2. Confidence(o, s) \in 0 .. 97
  BY ConfidenceTyped DEF Confidence
<1>3. Evidence(s) \subseteq Signals
  BY DEF Evidence
<1> QED BY <1>1, <1>2, <1>3 DEF CompareToBaseline

-----------------------------------------------------------------------------
(* Types, and the order of the probes                                      *)

\* The stages at which a probe has no signal yet
Before(p) ==
  CASE p = "sse" -> {"sampling", "fingerprint", "sse"}
    [] p = "error_envelope" -> {"sampling", "fingerprint", "sse", "error_envelope"}
    [] p = "needle" -> {"sampling", "fingerprint", "sse", "error_envelope", "needle"}
    [] p = "capability" -> Stages \ {"variance", "identity", "judging", "done", "raised"}
    [] p = "variance" -> Stages \ {"identity", "judging", "done", "raised"}
    [] p = "identity" -> Stages \ {"judging", "done", "raised"}
    [] OTHER -> {}

PendingAbsent == \A p \in Optional : pc \in Before(p) => signals[p] = "absent"

Ordered == TypeOK /\ PendingAbsent

(* The types hold at first and no probe has a signal.                      *)
LEMMA OrderedInit == Init => Ordered
BY DEF Init, Ordered, TypeOK, PendingAbsent, Before, Optional, Signals, Fresh, NoSamples, NoFingerprint, NoVerdict, Stages,
   Outcomes, Verdicts, Noises, WrapperTells

(* No step breaks the types.                                               *)
LEMMA TypeStep ==
  ASSUME TypeOK, [Next]_vars
  PROVE  TypeOK'
<1> USE CountAssumption DEF TypeOK, Stages
<1>1. CASE SampleFails
  BY <1>1
  DEF SampleFails, Sampling, Sampled
<1>2. CASE SampleAnswered
  BY <1>2
  DEF SampleAnswered, Sampling, Sampled, ProtocolTells, One, ShapesOf, OfficialShape,
    BlankShape, AllShapes, WrapperTells
<1>3. CASE SampleRaises
  BY <1>3
  DEF SampleRaises, Sampling
<1>4. CASE SamplesDone
  BY <1>4
  DEF SamplesDone, Fresh
<1>5. CASE Fingerprint
  BY <1>5, OutcomesTyped
  DEF Fingerprint, Observed, NoSamples, After, Signals, MostlyFailed, Low
<1>6. ASSUME NEW p \in Optional, Skip(p) PROVE TypeOK'
  BY <1>6
  DEF Skip, After
<1>7. ASSUME NEW p \in Optional, ProbeRaises(p) PROVE TypeOK'
  BY <1>7
  DEF ProbeRaises, Probing, Ends, Fresh, After, Outcomes, Optional, Signals
<1>8. CASE SseAnswered
  BY <1>8, OutcomesTyped
  DEF SseAnswered, Probing, Ends, Fresh, After, Signals, WrapperTells
<1>9. CASE SseFails
  BY <1>9, OutcomesTyped
  DEF SseFails, Probing, Ends, Fresh, After, Signals, Optional
<1>10. CASE EnvelopeAnswered
  BY <1>10, OutcomesTyped
  DEF EnvelopeAnswered, Probing, Ends, Fresh, After, Signals
<1>11. CASE EnvelopeUnanswered
  BY <1>11, OutcomesTyped
  DEF EnvelopeUnanswered, Probing, Ends, Fresh, After, Signals, Optional
<1>12. CASE Needle
  BY <1>12, OutcomesTyped
  DEF Needle, Probing, Ends, Fresh, After, Signals, WrapperTells
<1>13. CASE CapabilityItem
  BY <1>13
  DEF CapabilityItem, Counting, Probing, One
<1>14. CASE CapabilityScored
  BY <1>14, OutcomesTyped
  DEF CapabilityScored, Probing, Ends, Fresh, After, Signals
<1>15. CASE RepeatFails
  BY <1>15
  DEF RepeatFails, Counting, Repeating, Probing
<1>16. CASE RepeatAnswered
  BY <1>16
  DEF RepeatAnswered, Counting, Repeating, Probing, One, WrapperTells
<1>17. CASE VarianceScored
  BY <1>17, OutcomesTyped
  DEF VarianceScored, Probing, Ends, Fresh, After, Signals
<1>18. CASE IdentityFails
  BY <1>18
  DEF IdentityFails, Probing
<1>19. CASE IdentityAnswered
  BY <1>19, OutcomesTyped
  DEF IdentityAnswered, Probing, Ends, Fresh, After, Signals, WrapperTells
<1>20. CASE Judge
  BY <1>20, ComparisonTyped
  DEF Judge
<1>21. CASE UNCHANGED vars
  BY <1>21 DEF vars
<1> QED
  BY <1>1, <1>2, <1>3, <1>4, <1>5, <1>6, <1>7, <1>8, <1>9, <1>10, <1>11, <1>12, <1>13, <1>14,
    <1>15, <1>16, <1>17, <1>18, <1>19, <1>20, <1>21 DEF Next, Sample, Probe

(* No probe ends before its stage.                                         *)
LEMMA PendingStep ==
  ASSUME Ordered, [Next]_vars
  PROVE  PendingAbsent'
<1> USE DEF Ordered, TypeOK, PendingAbsent, Before, Optional, Stages
<1>1. CASE SampleFails
  BY <1>1
  DEF SampleFails, Sampling, Sampled
<1>2. CASE SampleAnswered
  BY <1>2
  DEF SampleAnswered, Sampling, Sampled, ProtocolTells, One, ShapesOf, OfficialShape, BlankShape
<1>3. CASE SampleRaises
  BY <1>3
  DEF SampleRaises, Sampling
<1>4. CASE SamplesDone
  BY <1>4
  DEF SamplesDone, Fresh
<1>5. CASE Fingerprint
  BY <1>5
  DEF Fingerprint, Observed, NoSamples, After, Signals
<1>6. ASSUME NEW p \in Optional, Skip(p) PROVE PendingAbsent'
  BY <1>6
  DEF Skip, After
<1>7. ASSUME NEW p \in Optional, ProbeRaises(p) PROVE PendingAbsent'
  BY <1>7
  DEF ProbeRaises, Probing, Ends, Fresh, After, Signals
<1>8. CASE SseAnswered
  BY <1>8
  DEF SseAnswered, Probing, Ends, Fresh, After, Signals
<1>9. CASE SseFails
  BY <1>9
  DEF SseFails, Probing, Ends, Fresh, After, Signals
<1>10. CASE EnvelopeAnswered
  BY <1>10
  DEF EnvelopeAnswered, Probing, Ends, Fresh, After, Signals
<1>11. CASE EnvelopeUnanswered
  BY <1>11
  DEF EnvelopeUnanswered, Probing, Ends, Fresh, After, Signals
<1>12. CASE Needle
  BY <1>12
  DEF Needle, Probing, Ends, Fresh, After, Signals
<1>13. CASE CapabilityItem
  BY <1>13
  DEF CapabilityItem, Counting, Probing, One
<1>14. CASE CapabilityScored
  BY <1>14
  DEF CapabilityScored, Probing, Ends, Fresh, After, Signals
<1>15. CASE RepeatFails
  BY <1>15
  DEF RepeatFails, Counting, Repeating, Probing
<1>16. CASE RepeatAnswered
  BY <1>16
  DEF RepeatAnswered, Counting, Repeating, Probing, One
<1>17. CASE VarianceScored
  BY <1>17
  DEF VarianceScored, Probing, Ends, Fresh, After, Signals
<1>18. CASE IdentityFails
  BY <1>18
  DEF IdentityFails, Probing
<1>19. CASE IdentityAnswered
  BY <1>19
  DEF IdentityAnswered, Probing, Ends, Fresh, After, Signals
<1>20. CASE Judge
  BY <1>20
  DEF Judge
<1>21. CASE UNCHANGED vars
  BY <1>21 DEF vars
<1> QED
  BY <1>1, <1>2, <1>3, <1>4, <1>5, <1>6, <1>7, <1>8, <1>9, <1>10, <1>11, <1>12, <1>13, <1>14,
    <1>15, <1>16, <1>17, <1>18, <1>19, <1>20, <1>21 DEF Next, Sample, Probe

(* Types hold, and probes report in their order, in every reachable state. *)
THEOREM Ordering == Spec => []Ordered
<1>1. Ordered /\ [Next]_vars => Ordered'
  BY TypeStep, PendingStep DEF Ordered
<1> QED BY OrderedInit, <1>1, PTL DEF Spec

(* Every variable of VerifyCore keeps its type.                            *)
THEOREM VerifyTypeCorrect == Spec => []TypeOK
<1>1. Ordered => TypeOK
  BY DEF Ordered
<1> QED BY <1>1, Ordering, PTL

-----------------------------------------------------------------------------
(* An official endpoint                                                    *)

\* Nothing in the samples is foreign, and only the failed ones lack the headers.
SamplesOfficial ==
  pc \in {"sampling", "fingerprint"} =>
    /\ ~samples.openaiStop /\ ~samples.openaiUsage
    /\ live => /\ samples.headers = samples.ids
               /\ samples.failed + samples.ids = IF pc = "sampling" THEN count.done ELSE Planned

ObservedOfficial ==
  pc \notin {"sampling", "fingerprint", "raised"} =>
    /\ ~observed.openaiStop /\ ~observed.openaiUsage
    /\ observed.sameModel = endpoint.sameModel
    /\ Insufficient(observed) \/ (~observed.idsLow /\ ~observed.headersLow)

CountOfficial ==
  /\ count.passed = count.answered
  /\ count.varied => endpoint.noise = "wording"

\* No signal convicts, and each that may weaken has a noise of its own.
SignalsOfficial ==
  /\ \A p \in Signals : signals[p] # "convicts"
  /\ signals["tokenizer"] = "weakens" => endpoint.noise = "tokenizer"
  /\ signals["variance"] = "weakens" => endpoint.noise = "wording"
  /\ signals["identity"] = "weakens" => endpoint.noise = "envelope"
  /\ signals["capability"] # "weakens"

OfficialOK ==
  endpoint.official =>
    SamplesOfficial /\ ObservedOfficial /\ CountOfficial /\ SignalsOfficial

\* The verdict is what the rules make of the fingerprint and the signals.
VerdictIs == pc = "done" => verdict = CompareToBaseline(observed, signals)

(* A verdict comes from Judge only.                                        *)
LEMMA VerdictStep ==
  ASSUME Ordered, VerdictIs, [Next]_vars
  PROVE  VerdictIs'
<1> USE DEF VerdictIs
<1>1. CASE SampleFails
  BY <1>1
  DEF SampleFails, Sampling, Sampled
<1>2. CASE SampleAnswered
  BY <1>2
  DEF SampleAnswered, Sampling, Sampled, ProtocolTells, One, ShapesOf, OfficialShape, BlankShape
<1>3. CASE SampleRaises
  BY <1>3
  DEF SampleRaises, Sampling
<1>4. CASE SamplesDone
  BY <1>4
  DEF SamplesDone, Fresh
<1>5. CASE Fingerprint
  BY <1>5
  DEF Fingerprint, Observed, NoSamples, After
<1>6. ASSUME NEW p \in Optional, Skip(p) PROVE VerdictIs'
  BY <1>6
  DEF Skip, After
<1>7. ASSUME NEW p \in Optional, ProbeRaises(p) PROVE VerdictIs'
  BY <1>7
  DEF ProbeRaises, Probing, Ends, Fresh, After
<1>8. CASE SseAnswered
  BY <1>8
  DEF SseAnswered, Probing, Ends, Fresh, After
<1>9. CASE SseFails
  BY <1>9
  DEF SseFails, Probing, Ends, Fresh, After
<1>10. CASE EnvelopeAnswered
  BY <1>10
  DEF EnvelopeAnswered, Probing, Ends, Fresh, After
<1>11. CASE EnvelopeUnanswered
  BY <1>11
  DEF EnvelopeUnanswered, Probing, Ends, Fresh, After
<1>12. CASE Needle
  BY <1>12
  DEF Needle, Probing, Ends, Fresh, After
<1>13. CASE CapabilityItem
  BY <1>13
  DEF CapabilityItem, Counting, Probing, One
<1>14. CASE CapabilityScored
  BY <1>14
  DEF CapabilityScored, Probing, Ends, Fresh, After
<1>15. CASE RepeatFails
  BY <1>15
  DEF RepeatFails, Counting, Repeating, Probing
<1>16. CASE RepeatAnswered
  BY <1>16
  DEF RepeatAnswered, Counting, Repeating, Probing, One
<1>17. CASE VarianceScored
  BY <1>17
  DEF VarianceScored, Probing, Ends, Fresh, After
<1>18. CASE IdentityFails
  BY <1>18
  DEF IdentityFails, Probing
<1>19. CASE IdentityAnswered
  BY <1>19
  DEF IdentityAnswered, Probing, Ends, Fresh, After
<1>20. CASE Judge
  BY <1>20
  DEF Judge
<1>21. CASE UNCHANGED vars
  BY <1>21 DEF vars
<1> QED
  BY <1>1, <1>2, <1>3, <1>4, <1>5, <1>6, <1>7, <1>8, <1>9, <1>10, <1>11, <1>12, <1>13, <1>14,
    <1>15, <1>16, <1>17, <1>18, <1>19, <1>20, <1>21 DEF Next, Sample, Probe

(* A run begins with nothing held against the endpoint.                    *)
LEMMA OfficialInit == Init => OfficialOK /\ VerdictIs
BY CountAssumption DEF Init, OfficialOK, SamplesOfficial, ObservedOfficial, CountOfficial,
   SignalsOfficial, VerdictIs, Fresh, NoSamples, Signals, Planned

(* An official endpoint stays beyond suspicion at every step, provided the *)
(* baseline passed what it answered.                                       *)
LEMMA OfficialStep ==
  ASSUME BasePassed = BaseAnswered, Ordered, OfficialOK, [Next]_vars
  PROVE  OfficialOK'
<1> USE CountAssumption
   DEF Ordered, TypeOK, OfficialOK, SamplesOfficial, ObservedOfficial, CountOfficial, SignalsOfficial
<1>1. CASE SampleFails
  BY <1>1
  DEF SampleFails, Sampling, Sampled
<1>2. CASE SampleAnswered
  BY <1>2
  DEF SampleAnswered, Sampling, Sampled, ProtocolTells, One, ShapesOf, OfficialShape,
    BlankShape, Planned
<1>3. CASE SampleRaises
  BY <1>3
  DEF SampleRaises, Sampling
<1>4. CASE SamplesDone
  BY <1>4
  DEF SamplesDone, Fresh, Planned
<1>5. CASE Fingerprint
  <2>1. observed' = Observed /\ pc' \in {"sse", "judging"}
    BY <1>5 DEF Fingerprint, After
  <2>2. endpoint.official => ObservedOfficial'
    <3> SUFFICES ASSUME endpoint.official PROVE ObservedOfficial'
      OBVIOUS
    <3>1. Observed.live = live /\ Observed.failed = MostlyFailed
      BY DEF Observed
    <3>2. CASE ~live \/ MostlyFailed
      BY <1>5, <2>1, <3>1, <3>2 DEF Fingerprint, Observed, Insufficient
    <3>3. CASE live /\ ~MostlyFailed
      <4>1. 2 * samples.failed < Planned /\ samples.failed + samples.ids = Planned
        BY <1>5, <3>3 DEF Fingerprint, MostlyFailed, Planned
      <4>2. ~Low(samples.ids) /\ ~Low(samples.headers)
        BY <1>5, <3>3, <4>1 DEF Fingerprint, Low, Planned
      <4> QED BY <1>5, <2>1, <4>2 DEF Fingerprint, Observed
    <3> QED BY <3>2, <3>3
  <2>3. endpoint.official => SignalsOfficial'
    BY <1>5 DEF Fingerprint, Signals, TokenizerOutcome
  <2> QED BY <1>5, <2>1, <2>2, <2>3 DEF Fingerprint
<1>6. ASSUME NEW p \in Optional, Skip(p) PROVE OfficialOK'
  <2>1. pc \notin {"sampling", "fingerprint", "raised"}
    BY <1>6 DEF Skip, Optional, Signals
  <2>2. pc' \notin {"sampling", "fingerprint", "raised"}
    BY <1>6 DEF Skip, After, Optional, Signals
  <2>3. endpoint' = endpoint /\ count' = count /\ observed' = observed /\ signals' = signals
    BY <1>6 DEF Skip
  <2>4. SamplesOfficial'
    BY <2>2
  <2>5. endpoint.official => ObservedOfficial'
    BY <2>1, <2>3 DEF Insufficient
  <2>6. endpoint.official => CountOfficial' /\ SignalsOfficial'
    BY <2>3
  <2> QED BY <2>3, <2>4, <2>5, <2>6
<1>7. ASSUME NEW p \in Optional, ProbeRaises(p) PROVE OfficialOK'
  <2>1. pc \notin {"sampling", "fingerprint", "raised"}
    BY <1>7 DEF ProbeRaises, Probing, Optional, Signals
  <2>2. pc' \notin {"sampling", "fingerprint", "raised"}
    BY <1>7 DEF ProbeRaises, Ends, After, Optional, Signals
  <2>3. /\ endpoint' = endpoint /\ observed' = observed /\ count' = Fresh
        /\ signals' = [signals EXCEPT ![p] = "crashed"]
    BY <1>7 DEF ProbeRaises, Ends
  <2>4. SamplesOfficial'
    BY <2>2
  <2>5. endpoint.official => ObservedOfficial'
    BY <2>1, <2>3 DEF Insufficient
  <2>6. endpoint.official => CountOfficial' /\ SignalsOfficial'
    BY <2>3 DEF Fresh, Signals
  <2> QED BY <2>3, <2>4, <2>5, <2>6
<1>8. CASE SseAnswered
  BY <1>8
  DEF SseAnswered, Probing, Ends, Fresh, After, Signals, SseOutcome
<1>9. CASE SseFails
  BY <1>9
  DEF SseFails, Probing, Ends, Fresh, After, Signals, SseOutcome
<1>10. CASE EnvelopeAnswered
  BY <1>10
  DEF EnvelopeAnswered, Probing, Ends, Fresh, After, Signals, EnvelopeOutcome
<1>11. CASE EnvelopeUnanswered
  BY <1>11
  DEF EnvelopeUnanswered, Probing, Ends, Fresh, After, Signals, EnvelopeOutcome
<1>12. CASE Needle
  BY <1>12
  DEF Needle, Probing, Ends, Fresh, After, Signals, NeedleOutcome
<1>13. CASE CapabilityItem
  BY <1>13
  DEF CapabilityItem, Counting, Probing, One
<1>14. CASE CapabilityScored
  BY <1>14, FullMarks
  DEF CapabilityScored, Probing, Ends, Fresh, After, Signals, Rated
<1>15. CASE RepeatFails
  BY <1>15
  DEF RepeatFails, Counting, Repeating, Probing
<1>16. CASE RepeatAnswered
  BY <1>16
  DEF RepeatAnswered, Counting, Repeating, Probing, One
<1>17. CASE VarianceScored
  BY <1>17
  DEF VarianceScored, Probing, Ends, Fresh, After, Signals, VarianceOutcome, Counted
<1>18. CASE IdentityFails
  BY <1>18
  DEF IdentityFails, Probing
<1>19. CASE IdentityAnswered
  BY <1>19
  DEF IdentityAnswered, Probing, Ends, Fresh, After, Signals, IdentityOutcome
<1>20. CASE Judge
  BY <1>20
  DEF Judge
<1>21. CASE UNCHANGED vars
  BY <1>21 DEF vars
<1> QED
  BY <1>1, <1>2, <1>3, <1>4, <1>5, <1>6, <1>7, <1>8, <1>9, <1>10, <1>11, <1>12, <1>13, <1>14,
    <1>15, <1>16, <1>17, <1>18, <1>19, <1>20, <1>21 DEF Next, Sample, Probe

(* Whatever fails, and however noisy one soft signal is, an official       *)
(* endpoint is not convicted: for any number of samples, anchors, repeats. *)
THEOREM OfficialIsSafe ==
  ASSUME BasePassed = BaseAnswered
  PROVE  Spec => []OfficialNeverConvicted
<1>1. Ordered /\ OfficialOK /\ VerdictIs /\ [Next]_vars => OfficialOK' /\ VerdictIs'
  BY OfficialStep, VerdictStep
<1>2. Ordered /\ OfficialOK /\ VerdictIs => OfficialNeverConvicted
  <2> SUFFICES ASSUME Ordered, OfficialOK, VerdictIs, endpoint.official, endpoint.sameModel, pc = "done"
               PROVE  verdict.verdict \in {"matches_official", "insufficient_evidence"}
    BY DEF OfficialNeverConvicted
  <2>1. verdict.verdict = VerdictOf(observed, signals)
    BY DEF VerdictIs, CompareToBaseline
  <2>2. ~HardFail(observed, signals) /\ ~CapabilityDowngrade(signals) /\ observed.sameModel
    BY DEF OfficialOK, ObservedOfficial, SignalsOfficial, HardFail, CapabilityDowngrade, Signals
  <2>3. BehaviorSoftMisses(signals) <= 1
    BY DEF OfficialOK, SignalsOfficial, BehaviorSoftMisses, CapabilityBorderline, One
  <2>4. CASE Insufficient(observed)
    BY <2>1, <2>4 DEF VerdictOf
  <2>5. CASE ~Insufficient(observed)
    <3>1. SoftMisses(observed) = 0
      BY <2>5 DEF OfficialOK, ObservedOfficial, SoftMisses, One
    <3> QED BY <2>1, <2>2, <2>3, <3>1, <2>5 DEF VerdictOf, BehaviorSoftMisses, One
  <2> QED BY <2>4, <2>5
<1> QED BY OfficialInit, Ordering, <1>1, <1>2, PTL DEF Spec


-----------------------------------------------------------------------------
(* What an endpoint gave away                                              *)

\* A tell of the protocol is in the samples or in the fingerprint made of them.
ProtocolKept ==
  /\ "openai_stop" \in tells =>
       IF pc \in {"sampling", "fingerprint"} THEN samples.openaiStop ELSE pc = "raised" \/ observed.openaiStop
  /\ "openai_usage" \in tells =>
       IF pc \in {"sampling", "fingerprint"} THEN samples.openaiUsage ELSE pc = "raised" \/ observed.openaiUsage

\* A tell of a probe is in its signal.
SignalsKept ==
  /\ "openai_sse" \in tells => signals["sse"] = "convicts"
  /\ "truncated" \in tells => signals["needle"] = "convicts"
  /\ "relay_id" \in tells \/ "other_model" \in tells => signals["identity"] = "convicts"

\* A wrong repeat is in the counters, until they are scored.
RepeatsKept ==
  /\ count.passed <= count.answered
  /\ "wrong_repeat" \in tells =>
       IF pc = "variance" THEN count.passed < count.answered /\ "variance" \in requested
       ELSE signals["variance"] \in {"advisory", "crashed", "convicts"}

TellsKept == ProtocolKept /\ SignalsKept /\ RepeatsKept

(* Nothing was given away before the first sample.                         *)
LEMMA TellsInit == Init => TellsKept
BY DEF Init, TellsKept, ProtocolKept, SignalsKept, RepeatsKept, Fresh

(* No step loses a tell: a signal is set once, when its probe ends.        *)
LEMMA TellsStep ==
  ASSUME Ordered, TellsKept, [Next]_vars
  PROVE  TellsKept'
<1> USE CountAssumption
   DEF Ordered, TypeOK, PendingAbsent, Before, Optional, Stages, TellsKept, ProtocolKept,
       SignalsKept, RepeatsKept
<1>1. CASE SampleFails
  BY <1>1
  DEF SampleFails, Sampling, Sampled
<1>2. CASE SampleAnswered
  BY <1>2
  DEF SampleAnswered, Sampling, Sampled, ProtocolTells, One, ShapesOf, OfficialShape, BlankShape
<1>3. CASE SampleRaises
  BY <1>3
  DEF SampleRaises, Sampling
<1>4. CASE SamplesDone
  BY <1>4
  DEF SamplesDone, Fresh
<1>5. CASE Fingerprint
  BY <1>5
  DEF Fingerprint, Observed, NoSamples, After, Signals
<1>6. ASSUME NEW p \in Optional, Skip(p) PROVE TellsKept'
  BY <1>6
  DEF Skip, After, Signals
<1>7. ASSUME NEW p \in Optional, ProbeRaises(p) PROVE TellsKept'
  BY <1>7
  DEF ProbeRaises, Probing, Ends, Fresh, After, Signals
<1>8. CASE SseAnswered
  BY <1>8
  DEF SseAnswered, Probing, Ends, Fresh, After, Signals, SseOutcome
<1>9. CASE SseFails
  BY <1>9
  DEF SseFails, Probing, Ends, Fresh, After, Signals, SseOutcome
<1>10. CASE EnvelopeAnswered
  BY <1>10
  DEF EnvelopeAnswered, Probing, Ends, Fresh, After, Signals
<1>11. CASE EnvelopeUnanswered
  BY <1>11
  DEF EnvelopeUnanswered, Probing, Ends, Fresh, After, Signals
<1>12. CASE Needle
  BY <1>12
  DEF Needle, Probing, Ends, Fresh, After, Signals, NeedleOutcome
<1>13. CASE CapabilityItem
  BY <1>13
  DEF CapabilityItem, Counting, Probing, One
<1>14. CASE CapabilityScored
  BY <1>14
  DEF CapabilityScored, Probing, Ends, Fresh, After, Signals
<1>15. CASE RepeatFails
  BY <1>15
  DEF RepeatFails, Counting, Repeating, Probing
<1>16. CASE RepeatAnswered
  BY <1>16
  DEF RepeatAnswered, Counting, Repeating, Probing, One
<1>17. CASE VarianceScored
  BY <1>17
  DEF VarianceScored, Probing, Ends, Fresh, After, Signals, VarianceOutcome, Counted
<1>18. CASE IdentityFails
  BY <1>18
  DEF IdentityFails, Probing
<1>19. CASE IdentityAnswered
  BY <1>19
  DEF IdentityAnswered, Probing, Ends, Fresh, After, Signals, IdentityOutcome
<1>20. CASE Judge
  BY <1>20
  DEF Judge
<1>21. CASE UNCHANGED vars
  BY <1>21 DEF vars
<1> QED
  BY <1>1, <1>2, <1>3, <1>4, <1>5, <1>6, <1>7, <1>8, <1>9, <1>10, <1>11, <1>12, <1>13, <1>14,
    <1>15, <1>16, <1>17, <1>18, <1>19, <1>20, <1>21 DEF Next, Sample, Probe

(* What no official endpoint sends ends in a conviction, wherever in the   *)
(* verification it came back.                                              *)
THEOREM TellsAreHeld == Spec => []TellsConvict
<1>1. Init => VerdictIs
  BY DEF Init, VerdictIs
<1>2. Ordered /\ TellsKept /\ VerdictIs /\ [Next]_vars => TellsKept' /\ VerdictIs'
  BY TellsStep, VerdictStep
<1>3. Ordered /\ TellsKept /\ VerdictIs => TellsConvict
  <2> SUFFICES ASSUME Ordered, TellsKept, VerdictIs, pc = "done",
                      verdict.verdict # "insufficient_evidence"
               PROVE  /\ tells \cap WrapperTells # {} => verdict.verdict = "suspected_wrapper"
                      /\ "wrong_repeat" \in tells /\ signals["variance"] \notin {"advisory", "crashed"} =>
                           verdict.verdict # "matches_official"
    BY DEF TellsConvict
  <2>1. verdict.verdict = VerdictOf(observed, signals) /\ ~Insufficient(observed)
    BY DEF VerdictIs, CompareToBaseline, VerdictOf
  <2>2. ASSUME tells \cap WrapperTells # {} PROVE verdict.verdict = "suspected_wrapper"
    <3>1. HardFail(observed, signals)
      BY <2>2 DEF TellsKept, ProtocolKept, SignalsKept, WrapperTells, HardFail
    <3> QED BY <2>1, <3>1 DEF VerdictOf
  <2>3. ASSUME "wrong_repeat" \in tells, signals["variance"] \notin {"advisory", "crashed"}
        PROVE  verdict.verdict # "matches_official"
    <3>1. CapabilityDowngrade(signals)
      BY <2>3 DEF TellsKept, RepeatsKept, CapabilityDowngrade
    <3> QED BY <2>1, <3>1 DEF VerdictOf
  <2> QED BY <2>2, <2>3
<1> QED BY TellsInit, Ordering, <1>1, <1>2, <1>3, PTL DEF Spec

-----------------------------------------------------------------------------
(* Probes that crashed                                                     *)

CrashesKept == \A p \in crashed \ {"sse"} : p \in requested /\ signals[p] = "crashed"

(* No step loses a crash.                                                  *)
LEMMA CrashesStep ==
  ASSUME Ordered, CrashesKept, [Next]_vars
  PROVE  CrashesKept'
<1> USE DEF Ordered, TypeOK, PendingAbsent, Before, Optional, Stages, CrashesKept
<1>1. CASE SampleFails
  BY <1>1
  DEF SampleFails, Sampling, Sampled
<1>2. CASE SampleAnswered
  BY <1>2
  DEF SampleAnswered, Sampling, Sampled, ProtocolTells, One, ShapesOf, OfficialShape, BlankShape
<1>3. CASE SampleRaises
  BY <1>3
  DEF SampleRaises, Sampling
<1>4. CASE SamplesDone
  BY <1>4
  DEF SamplesDone, Fresh
<1>5. CASE Fingerprint
  BY <1>5
  DEF Fingerprint, Observed, NoSamples, After, Signals
<1>6. ASSUME NEW p \in Optional, Skip(p) PROVE CrashesKept'
  BY <1>6
  DEF Skip, After
<1>7. ASSUME NEW p \in Optional, ProbeRaises(p) PROVE CrashesKept'
  BY <1>7
  DEF ProbeRaises, Probing, Ends, Fresh, After, Signals
<1>8. CASE SseAnswered
  BY <1>8
  DEF SseAnswered, Probing, Ends, Fresh, After, Signals
<1>9. CASE SseFails
  BY <1>9
  DEF SseFails, Probing, Ends, Fresh, After, Signals
<1>10. CASE EnvelopeAnswered
  BY <1>10
  DEF EnvelopeAnswered, Probing, Ends, Fresh, After, Signals
<1>11. CASE EnvelopeUnanswered
  BY <1>11
  DEF EnvelopeUnanswered, Probing, Ends, Fresh, After, Signals, EnvelopeOutcome
<1>12. CASE Needle
  BY <1>12
  DEF Needle, Probing, Ends, Fresh, After, Signals
<1>13. CASE CapabilityItem
  BY <1>13
  DEF CapabilityItem, Counting, Probing, One
<1>14. CASE CapabilityScored
  BY <1>14
  DEF CapabilityScored, Probing, Ends, Fresh, After, Signals
<1>15. CASE RepeatFails
  BY <1>15
  DEF RepeatFails, Counting, Repeating, Probing
<1>16. CASE RepeatAnswered
  BY <1>16
  DEF RepeatAnswered, Counting, Repeating, Probing, One
<1>17. CASE VarianceScored
  BY <1>17
  DEF VarianceScored, Probing, Ends, Fresh, After, Signals
<1>18. CASE IdentityFails
  BY <1>18
  DEF IdentityFails, Probing
<1>19. CASE IdentityAnswered
  BY <1>19
  DEF IdentityAnswered, Probing, Ends, Fresh, After, Signals
<1>20. CASE Judge
  BY <1>20
  DEF Judge
<1>21. CASE UNCHANGED vars
  BY <1>21 DEF vars
<1> QED
  BY <1>1, <1>2, <1>3, <1>4, <1>5, <1>6, <1>7, <1>8, <1>9, <1>10, <1>11, <1>12, <1>13, <1>14,
    <1>15, <1>16, <1>17, <1>18, <1>19, <1>20, <1>21 DEF Next, Sample, Probe

(* A probe that crashed is in the evidence and caps the confidence, unless *)
(* it is the sse probe, which does not tell.                               *)
THEOREM CrashesAreShown == Spec => []CrashedProbesShow
<1>1. Init => CrashesKept /\ VerdictIs
  BY DEF Init, CrashesKept, VerdictIs
<1>2. Ordered /\ CrashesKept /\ VerdictIs /\ [Next]_vars => CrashesKept' /\ VerdictIs'
  BY CrashesStep, VerdictStep
<1>3. Ordered /\ CrashesKept /\ VerdictIs => CrashedProbesShow
  <2> SUFFICES ASSUME Ordered, CrashesKept, VerdictIs, pc = "done",
                      verdict.verdict # "insufficient_evidence"
               PROVE  /\ crashed \ {"sse"} \subseteq verdict.evidence
                      /\ crashed \ {"sse"} # {} => verdict.confidence <= 50
    BY DEF CrashedProbesShow, Shown
  <2>1. verdict = CompareToBaseline(observed, signals)
    BY DEF VerdictIs
  <2>2. ~Insufficient(observed)
    BY <2>1 DEF CompareToBaseline, VerdictOf
  <2>3. crashed \ {"sse"} \subseteq ProbeErrors(signals)
    BY DEF CrashesKept, ProbeErrors, Ordered, TypeOK, Optional
  <2>4. crashed \ {"sse"} \subseteq verdict.evidence
    BY <2>1, <2>2, <2>3 DEF CompareToBaseline, Evidence, ProbeErrors
  <2>5. UncappedConfidence(observed, signals) \in 0 .. 97
    BY ConfidenceTyped
  <2>6. crashed \ {"sse"} # {} => Confidence(observed, signals) <= 50
    BY <2>3, <2>5 DEF Confidence
  <2> QED BY <2>1, <2>4, <2>6 DEF CompareToBaseline
<1> QED BY Ordering, <1>1, <1>2, <1>3, PTL DEF Spec
=============================================================================
