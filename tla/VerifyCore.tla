----------------------------- MODULE VerifyCore -----------------------------
(***************************************************************************)
(* verify_core of eval_cli.py: one verification of a suspect endpoint      *)
(* against a trusted baseline.  It samples the endpoint's protocol         *)
(* fingerprint, runs the probes the caller requested one after another,    *)
(* each request of which may fail, and hands everything to                 *)
(* compare_to_baseline.                                                    *)
(*                                                                         *)
(* The endpoint is official, and then answers whatever it does answer as   *)
(* the baseline did, but for at most one source of noise; or it is not,    *)
(* and may answer anything.  A request stands for a call and its retries   *)
(* (call_model_with_retries).  The baseline is live, carries every header, *)
(* and has a capability pass rate.                                         *)
(***************************************************************************)
EXTENDS VerdictRules, FiniteSets

CONSTANTS
  Samples,       \* samples_per_probe
  Items,         \* the capability anchors
  BasePassed,    \* anchors the baseline passed ...
  BaseAnswered,  \* ... of those it answered
  Repeats,       \* variance_repeats
  MinRepeats,    \* min_repeats of score_consistency_variance
  FailFast,      \* fail_fast of the variance probe
  IdAttempts,    \* attempts of the identity probe
  Requests,      \* the sets of probes a caller may request
  Shapes         \* what answers from an endpoint that is not official look like

Optional == Signals \ {"tokenizer"}

AllShapes ==
  [stop : {"claude", "openai", "none"}, usage : {"anthropic", "openai", "none"},
   id : BOOLEAN, headers : BOOLEAN, tokens : BOOLEAN]

ASSUME CountAssumption ==
  /\ {Samples, Items, Repeats, MinRepeats, FailFast, IdAttempts} \subseteq Nat \ {0}
  /\ BaseAnswered \in Nat
  /\ BasePassed \in 0 .. BaseAnswered
  /\ Requests \subseteq SUBSET Optional
  /\ Shapes \subseteq AllShapes

\* Three canary probes: canary_mixed and canary_zh, which the tokenizer signal uses, and canary_code
Planned == 3 * Samples

VARIABLES
  endpoint,   \* what is being verified
  requested,  \* the with_* arguments
  live,       \* the argument of the same name
  pc,         \* the stage
  count,      \* the counters of the stage under way
  samples,    \* what the samples show
  observed,   \* the fingerprint built from them
  signals,    \* behavior, the signals gathered so far
  verdict,    \* what compare_to_baseline returned
  tells,      \* history: what came back that no official endpoint sends
  crashed     \* history: requested probes that ended in an error

vars == <<endpoint, requested, live, pc, count, samples, observed, signals, verdict, tells, crashed>>

Stages ==
  {"sampling", "fingerprint", "sse", "error_envelope", "needle", "capability",
   "variance", "identity", "judging", "done", "raised"}

After(stage) ==
  CASE stage = "fingerprint" -> IF live THEN "sse" ELSE "judging"
    [] stage = "sse" -> "error_envelope"
    [] stage = "error_envelope" -> "needle"
    [] stage = "needle" -> "capability"
    [] stage = "capability" -> "variance"
    [] stage = "variance" -> "identity"
    [] OTHER -> "judging"

Noises == {"none", "tokenizer", "wording", "envelope"}

Fresh == [done |-> 0, answered |-> 0, passed |-> 0, varied |-> FALSE, streak |-> 0]

NoSamples ==
  [failed |-> 0, ids |-> 0, headers |-> 0, mixed |-> 0, zh |-> 0,
   stop |-> FALSE, openaiStop |-> FALSE, openaiUsage |-> FALSE]

NoFingerprint ==
  [live |-> FALSE, failed |-> FALSE, openaiStop |-> FALSE, openaiUsage |-> FALSE,
   idsLow |-> FALSE, headersLow |-> FALSE, sameModel |-> FALSE]

NoVerdict == [verdict |-> "none", confidence |-> 0, evidence |-> {}]

-----------------------------------------------------------------------------
(* What an endpoint may answer                                             *)

OfficialShape == [stop |-> "claude", usage |-> "anthropic", id |-> TRUE, headers |-> TRUE, tokens |-> TRUE]

\* A dry run sends nothing: its stub has none of the fields.
BlankShape == [stop |-> "none", usage |-> "none", id |-> FALSE, headers |-> FALSE, tokens |-> FALSE]

ShapesOf(e) ==
  IF ~live THEN {BlankShape} ELSE IF e.official THEN {OfficialShape} ELSE Shapes

ProtocolTells(shape) ==
  (IF shape.stop = "openai" THEN {"openai_stop"} ELSE {})
    \cup (IF shape.usage = "openai" THEN {"openai_usage"} ELSE {})

-----------------------------------------------------------------------------
Init ==
  /\ endpoint \in [official : BOOLEAN, noise : Noises, sameModel : BOOLEAN]
  /\ endpoint.official \/ endpoint.noise = "none"
  /\ requested \in Requests
  /\ live \in BOOLEAN
  /\ pc = "sampling"
  /\ count = Fresh
  /\ samples = NoSamples
  /\ observed = NoFingerprint
  /\ signals = [p \in Signals |-> "absent"]
  /\ verdict = NoVerdict
  /\ tells = {}
  /\ crashed = {}

-----------------------------------------------------------------------------
(* _collect_baseline_samples, one request at a time                        *)

Sampling == pc = "sampling" /\ count.done < Planned

Sampled ==
  /\ count' = [count EXCEPT !.done = @ + 1]
  /\ UNCHANGED <<endpoint, requested, live, pc, observed, signals, verdict, crashed>>

\* A request that failed leaves a sample without any field.
SampleFails ==
  /\ Sampling
  /\ live
  /\ samples' = [samples EXCEPT !.failed = @ + 1]
  /\ Sampled
  /\ UNCHANGED tells

SampleAnswered ==
  /\ Sampling
  /\ \E shape \in ShapesOf(endpoint) :
       /\ samples' =
            [failed |-> samples.failed,
             ids |-> samples.ids + One(shape.id),
             headers |-> samples.headers + One(shape.headers),
             mixed |-> samples.mixed + One(shape.tokens /\ count.done < Samples),
             zh |-> samples.zh + One(shape.tokens /\ count.done \in Samples .. 2 * Samples - 1),
             stop |-> samples.stop \/ shape.stop # "none",
             openaiStop |-> samples.openaiStop \/ shape.stop = "openai",
             openaiUsage |-> samples.openaiUsage \/ shape.usage = "openai"]
       /\ tells' = tells \cup ProtocolTells(shape)
  /\ Sampled

\* auth_value, or an answer no caller expects: nothing catches it here.
SampleRaises ==
  /\ Sampling
  /\ live
  /\ pc' = "raised"
  /\ UNCHANGED <<endpoint, requested, live, count, samples, observed, signals, verdict, tells, crashed>>

SamplesDone ==
  /\ pc = "sampling"
  /\ count.done = Planned
  /\ pc' = "fingerprint"
  /\ count' = Fresh
  /\ UNCHANGED <<endpoint, requested, live, samples, observed, signals, verdict, tells, crashed>>

\* Slip: only an outage from the first sample to the last is inconclusive.
AllFailed == samples.failed = Planned

\* build_baseline_from_samples' failure rate, and the test compare_to_baseline makes of it
MostlyFailed == 2 * samples.failed >= Planned \/ (~samples.stop /\ samples.failed > 0)

Low(seen) == 2 * seen < Planned

Observed ==
  [live |-> live, failed |-> MostlyFailed,
   openaiStop |-> samples.openaiStop, openaiUsage |-> samples.openaiUsage,
   idsLow |-> Low(samples.ids), headersLow |-> Low(samples.headers),
   sameModel |-> endpoint.sameModel]

Fewer(a, b) == IF a < b THEN a ELSE b

\* build_baseline_from_samples, and the tokenizer signal from the first two canaries
Fingerprint ==
  /\ pc = "fingerprint"
  /\ observed' = Observed
  /\ samples' = NoSamples
  /\ \E within \in BOOLEAN :
       /\ endpoint.official => within = (endpoint.noise # "tokenizer")
       /\ signals' = IF live
            THEN [signals EXCEPT !["tokenizer"] =
                    TokenizerOutcome(Fewer(samples.mixed, samples.zh), within)]
            ELSE signals
  /\ pc' = After("fingerprint")
  /\ UNCHANGED <<endpoint, requested, live, count, verdict, tells, crashed>>

-----------------------------------------------------------------------------
(* The probes                                                              *)

Ends(probe, outcome) ==
  /\ signals' = [signals EXCEPT ![probe] = outcome]
  /\ pc' = After(probe)
  /\ count' = Fresh
  /\ UNCHANGED <<endpoint, requested, live, samples, observed, verdict>>

Skip(probe) ==
  /\ pc = probe
  /\ probe \notin requested
  /\ pc' = After(probe)
  /\ UNCHANGED <<endpoint, requested, live, count, samples, observed, signals, verdict, tells, crashed>>

Probing(probe) == pc = probe /\ probe \in requested

\* Slip: the except clause passes, and the signal is simply missing.
ProbeVanishes(probe) ==
  /\ Probing(probe)
  /\ Ends(probe, "absent")
  /\ crashed' = crashed \cup {probe}
  /\ UNCHANGED tells

\* The except clause around every probe: it is recorded as a probe_error.
ProbeRaises(probe) ==
  /\ Probing(probe)
  /\ Ends(probe, "crashed")
  /\ crashed' = crashed \cup {probe}
  /\ UNCHANGED tells

SseAnswered ==
  /\ Probing("sse")
  /\ \E family \in {"claude", "openai", "unordered"} :
       /\ endpoint.official => family # "openai"
       /\ Ends("sse", SseOutcome(family))
       /\ tells' = IF family = "openai" THEN tells \cup {"openai_sse"} ELSE tells
  /\ UNCHANGED crashed

\* sse_fingerprint catches the error itself and prints a result without a family.
SseFails ==
  /\ Probing("sse")
  /\ Ends("sse", SseOutcome("none"))
  /\ crashed' = crashed \cup {"sse"}
  /\ UNCHANGED tells

EnvelopeAnswered ==
  /\ Probing("error_envelope")
  /\ \E dialect \in {"anthropic", "openai", "gateway_generic", "unknown"} :
       Ends("error_envelope", EnvelopeOutcome(dialect))
  /\ UNCHANGED <<tells, crashed>>

\* No malformed request was refused, or none came back
EnvelopeUnanswered ==
  /\ Probing("error_envelope")
  /\ Ends("error_envelope", EnvelopeOutcome("none"))
  /\ crashed' = crashed \cup {"error_envelope"}
  /\ UNCHANGED tells

Needle ==
  /\ Probing("needle")
  /\ \E answered, recalled, short \in BOOLEAN :
       /\ endpoint.official /\ answered => recalled
       /\ Ends("needle", NeedleOutcome(answered, recalled, short))
       /\ tells' = IF answered /\ ~recalled /\ short THEN tells \cup {"truncated"} ELSE tells
  /\ UNCHANGED crashed

\* One more request of a probe: answers, passes, a different answer, failures in a row
Counting(answers, passes, differs, streak) ==
  [done |-> count.done + 1, answered |-> count.answered + answers,
   passed |-> count.passed + passes, varied |-> count.varied \/ differs, streak |-> streak]

-----------------------------------------------------------------------------
(* The capability anchors: _run_capability_items                           *)

CapabilityItem ==
  /\ Probing("capability")
  /\ count.done < Items
  /\ \E answered, passed \in BOOLEAN :
       /\ passed => answered
       /\ endpoint.official /\ answered => passed
       /\ count' = Counting(One(answered), One(passed), FALSE, 0)
  /\ UNCHANGED <<endpoint, requested, live, pc, samples, observed, signals, verdict, tells, crashed>>

Rated == count.answered

CapabilityScored ==
  /\ Probing("capability")
  /\ count.done = Items
  /\ Ends("capability", CapabilityOutcome(count.passed, Rated, BasePassed, BaseAnswered))
  /\ UNCHANGED <<tells, crashed>>

-----------------------------------------------------------------------------
(* One anchor again and again: _run_variance_probe                         *)

Broken == count.streak >= FailFast

Repeating == Probing("variance") /\ count.done < Repeats /\ ~Broken

RepeatFails ==
  /\ Repeating
  /\ count' = Counting(0, 0, FALSE, count.streak + 1)
  /\ UNCHANGED <<endpoint, requested, live, pc, samples, observed, signals, verdict, tells, crashed>>

RepeatAnswered ==
  /\ Repeating
  /\ \E passed, differs \in BOOLEAN :
       /\ endpoint.official => passed
       /\ endpoint.official /\ differs => endpoint.noise = "wording"
       /\ differs => count.answered > 0
       /\ count' = Counting(1, One(passed), differs, 0)
       /\ tells' = IF passed THEN tells ELSE tells \cup {"wrong_repeat"}
  /\ UNCHANGED <<endpoint, requested, live, pc, samples, observed, signals, verdict, crashed>>

Counted == count.answered

VarianceScored ==
  /\ Probing("variance")
  /\ count.done = Repeats \/ Broken
  /\ Ends("variance", VarianceOutcome(Counted, count.passed, count.varied, MinRepeats))
  /\ UNCHANGED <<tells, crashed>>

-----------------------------------------------------------------------------
(* The identity question: _run_identity_probe                              *)

IdentityFails ==
  /\ Probing("identity")
  /\ count.done + 1 < IdAttempts
  /\ count' = [count EXCEPT !.done = @ + 1]
  /\ UNCHANGED <<endpoint, requested, live, pc, samples, observed, signals, verdict, tells, crashed>>

\* The last attempt, or an exception, ends in a probe_error: ProbeRaises.

IdentityAnswered ==
  /\ Probing("identity")
  /\ \E returned \in {"same", "other", "absent"}, family \in {"claude", "relay", "unclear", "absent"} :
       /\ endpoint.official =>
            returned = "same" /\ family = (IF endpoint.noise = "envelope" THEN "unclear" ELSE "claude")
       /\ Ends("identity", IdentityOutcome(returned, family))
       /\ tells' = tells \cup (IF family = "relay" THEN {"relay_id"} ELSE {})
                         \cup (IF returned = "other" THEN {"other_model"} ELSE {})
  /\ UNCHANGED crashed

-----------------------------------------------------------------------------
Judge ==
  /\ pc = "judging"
  /\ verdict' = CompareToBaseline(observed, signals)
  /\ pc' = "done"
  /\ UNCHANGED <<endpoint, requested, live, count, samples, observed, signals, tells, crashed>>

Sample == SampleFails \/ SampleAnswered \/ SampleRaises \/ SamplesDone

Probe ==
  \/ \E p \in Optional : Skip(p) \/ ProbeRaises(p)
  \/ SseAnswered \/ SseFails
  \/ EnvelopeAnswered \/ EnvelopeUnanswered
  \/ Needle
  \/ CapabilityItem \/ CapabilityScored
  \/ RepeatFails \/ RepeatAnswered \/ VarianceScored
  \/ IdentityFails \/ IdentityAnswered

Next == Sample \/ Fingerprint \/ Probe \/ Judge

Spec == Init /\ [][Next]_vars
-----------------------------------------------------------------------------
WrapperTells == {"openai_stop", "openai_usage", "openai_sse", "truncated", "relay_id", "other_model"}

TypeOK ==
  /\ endpoint \in [official : BOOLEAN, noise : Noises, sameModel : BOOLEAN]
  /\ requested \in Requests
  /\ live \in BOOLEAN
  /\ pc \in Stages
  /\ count \in [done : Nat, answered : Nat, passed : Nat, varied : BOOLEAN, streak : Nat]
  /\ samples \in [failed : Nat, ids : Nat, headers : Nat, mixed : Nat, zh : Nat,
                  stop : BOOLEAN, openaiStop : BOOLEAN, openaiUsage : BOOLEAN]
  /\ observed \in [live : BOOLEAN, failed : BOOLEAN, openaiStop : BOOLEAN, openaiUsage : BOOLEAN,
                   idsLow : BOOLEAN, headersLow : BOOLEAN, sameModel : BOOLEAN]
  /\ signals \in [Signals -> Outcomes]
  /\ verdict \in [verdict : Verdicts \cup {"none"}, confidence : 0 .. 97, evidence : SUBSET Signals]
  /\ tells \subseteq WrapperTells \cup {"wrong_repeat"}
  /\ crashed \subseteq Optional

(* An official endpoint whose baseline passed every anchor is never       *)
(* convicted, whichever of its requests fail and in whichever order, and  *)
(* even if one soft signal disagrees.                                     *)
OfficialNeverConvicted ==
  /\ endpoint.official
  /\ endpoint.sameModel
  /\ pc = "done"
  => verdict.verdict \in {"matches_official", "insufficient_evidence"}

(* What no official endpoint sends is not lost between the request it came *)
(* back on and the verdict: it convicts, unless most samples failed.       *)
TellsConvict ==
  pc = "done" /\ verdict.verdict # "insufficient_evidence" =>
    /\ tells \cap WrapperTells # {} => verdict.verdict = "suspected_wrapper"
    /\ "wrong_repeat" \in tells /\ signals["variance"] \notin {"advisory", "crashed"} =>
         verdict.verdict # "matches_official"

\* What a probe that ended in an error leaves behind: an entry in the evidence, and a
\* confidence that says the verdict is provisional
Shown(probes) ==
  pc = "done" /\ verdict.verdict # "insufficient_evidence" =>
    /\ probes \subseteq verdict.evidence
    /\ probes # {} => verdict.confidence <= 50

(* A requested probe that ended in an error shows in the verdict, whichever *)
(* probes came before and after it and whatever those found.                *)
CrashedProbesShow == Shown(crashed \ {"sse"})

(* "A requested probe that crashed must NOT vanish silently" (verify_core):  *)
(* the same for every probe, the one that catches its own errors included.   *)
EveryCrashShows == Shown(crashed)
=============================================================================
