------------------------ MODULE CampaignReviewProofs ------------------------
(***************************************************************************)
(* What holds of everything that is published about campaigns, for any     *)
(* number of campaigns, rounds, attempts, records, reviewers and kills.    *)
(*                                                                         *)
(* The argument: a campaign is called completed only when every round has  *)
(* its completed run, and from then on neither its references nor its runs *)
(* change, so that what anybody has gathered about it stays true however   *)
(* late it is written.  And every decision was made of the runs it names,  *)
(* so that what a decision says of records in general it says of theirs.   *)
(***************************************************************************)
EXTENDS CampaignReview, FiniteSetTheorems, WellFoundedInduction, TLAPS

\* The runner is in a round that it has opened.
InRun == {"opened", "run", "records", "returned", "raised", "fail"}

\* What the place of a runner says of the rounds of its campaign: those before it
\* are opened, and its own run is as far as it is; and a run has its reference.
InStep(c, at, counts, last, there) ==
  /\ at.pc # "idle" => there
  /\ at.pc \in InRun \cup {"round"} =>
       at.round \in Rounds(c) /\ \A q \in 1 .. at.round - 1 : counts[q] > 0
  /\ at.pc \in InRun => counts[at.round] > 0
  /\ at.pc \in {"opened", "run"} => last[at.round].status = "none"
  /\ at.pc = "records" => last[at.round].status = "running"
  /\ at.pc = "close" => \A q \in Rounds(c) : counts[q] > 0
  /\ \A r \in Rounds(c) : counts[r] = 0 => last[r].status = "none"
  /\ ~there => \A r \in Rounds(c) : counts[r] = 0

RunnersInStep ==
  \A c \in Campaigns : InStep(c, runner[c], opened[c], runs[c], Exists(c))

\* Nothing is published about a campaign that is not there.
NothingBefore == \A c \in Campaigns : ~Exists(c) => summary[c] = None /\ trust[c] = None

\* campaign.json says completed of settled campaigns only.
DocFinal == \A c \in Campaigns : doc[c].status = "completed" => Settled(c)

\* A summary of c is of its provider, and of its last runs if it says completed.
SummaryFinal(c, s) ==
  /\ s.live = doc[c].live
  /\ s.status = "completed" => Settled(c) /\ s.of = Evidence(c)

SummariesFinal == \A c \in Campaigns : summary[c] # None => SummaryFinal(c, summary[c])

TrustFinal ==
  \A c \in Campaigns : trust[c] # None /\ trust[c].status = "completed" =>
    Settled(c) /\ trust[c].of = Evidence(c) /\ trust[c].records = Evidence(c)

\* What is good of a campaign that is there: what was read of its campaign.json, a
\* summary, and a report, which is made of all of a settled campaign's last runs if
\* it says completed
GoodDoc(c, d) ==
  /\ d \in CampaignRecord /\ d.live = doc[c].live /\ d.status # "none"
  /\ d.status = "completed" => Settled(c)

GoodSummary(c, s) == Exists(c) /\ Published(s) /\ SummaryFinal(c, s)

GoodReport(c, t) ==
  /\ Exists(c) /\ Published(t)
  /\ t.status = "completed" => Settled(c) /\ t.of = Evidence(c) /\ t.records = Evidence(c)

\* What a reviewer holds at a step of its command is good.
HeldGood(c, step, held) ==
  /\ step = "pack" => GoodDoc(c, held)
  /\ step \in {"gather", "report", "read"} => GoodSummary(c, held)
  /\ step = "compare" =>
       /\ GoodSummary(c, held.summary)
       /\ held.summary.status = "completed" => held.records = Evidence(c)
  /\ step = "write" => GoodReport(c, held)

\* What a reviewer has gathered and not yet written is as good.
HandsFinal ==
  \A p \in Reviewers :
    LET c == review[p].campaign
    IN /\ review[p].steps # <<>> => c \in Campaigns /\ Exists(c)
       /\ review[p].steps = <<>> => hand[p] = None
       /\ hand[p] # None => HeldGood(c, Head(review[p].steps), hand[p])

\* The inductive invariant
ReviewInv ==
  /\ TypeOK /\ RunnersInStep /\ NothingBefore
  /\ DocFinal /\ SummariesFinal /\ TrustFinal /\ HandsFinal

-----------------------------------------------------------------------------
(* Numbers                                                                 *)

\* A set of numbers has a least one.
LEMMA LeastOf ==
  ASSUME NEW U, U \subseteq Nat, U # {}
  PROVE  Min(U) \in U /\ \A y \in U : Min(U) <= y
<1>1. PICK x \in U : \A y \in U : ~ (<<y, x>> \in OpToRel(<, Nat))
  BY NatLessThanWellFounded, WFMin
<1>2. \A y \in U : ~ (y < x)
  BY <1>1 DEF OpToRel
<1>3. \A y \in U : x <= y
  BY <1>2
<1> QED BY <1>3 DEF Min

\* Finitely many numbers have a greatest.
LEMMA GreatestOfFinite ==
  ASSUME NEW S, S \subseteq Nat, IsFiniteSet(S), S # {}
  PROVE  \E x \in S : \A y \in S : y <= x
<1> DEFINE Topless(T) == T \subseteq S /\ T # {} /\ \A x \in T : \E y \in T : ~(y <= x)
           sizes == {n \in Nat : \E T : Topless(T) /\ Cardinality(T) = n}
<1>1. SUFFICES ASSUME Topless(S)
               PROVE  FALSE
  OBVIOUS
<1>2. Cardinality(S) \in sizes
  BY <1>1, FS_CardinalityType
<1>3. Min(sizes) \in sizes /\ \A n \in sizes : Min(sizes) <= n
  BY <1>2, LeastOf
<1>4. PICK T : Topless(T) /\ Cardinality(T) = Min(sizes)
  BY <1>3
<1>5. PICK x \in T : TRUE
  BY <1>4
<1> DEFINE rest == T \ {x}
<1>6. IsFiniteSet(T) /\ IsFiniteSet(rest)
  BY <1>4, FS_Subset
<1>7. Cardinality(rest) \in Nat /\ Cardinality(T) = Cardinality(rest) + 1
  <2>1. T = rest \cup {x} /\ x \notin rest
    OBVIOUS
  <2> HIDE DEF rest
  <2> QED BY <1>6, <2>1, FS_AddElement, FS_CardinalityType
<1>8. Topless(rest)
  <2>1. rest \subseteq S
    BY <1>4
  <2>2. PICK z \in T : ~(z <= x)
    BY <1>4
  <2>3. x \in Nat /\ z \in Nat
    BY <1>4, <2>2
  <2>4. z \in rest
    BY <2>2, <2>3
  <2>5. ASSUME NEW u \in rest
        PROVE  \E v \in rest : ~(v <= u)
    <3>1. u \in Nat
      BY <2>1
    <3>2. PICK v \in T : ~(v <= u)
      BY <1>4
    <3>3. v \in Nat
      BY <1>4, <3>2
    <3>4. CASE v # x
      BY <3>2, <3>4
    <3>5. CASE v = x
      <4>1. ~(z <= u)
        BY <2>2, <2>3, <3>1, <3>2, <3>5
      <4> QED BY <2>4, <4>1
    <3> QED BY <3>4, <3>5
  <2> QED BY <2>1, <2>4, <2>5
<1>9. Cardinality(rest) \in sizes
  BY <1>7, <1>8
<1> HIDE DEF sizes, rest
<1>10. Min(sizes) <= Cardinality(rest)
  BY <1>3, <1>9
<1> QED BY <1>4, <1>7, <1>10

\* A reference that is appended comes after all the others.
LEMMA PlacesGrow ==
  ASSUME NEW c \in Campaigns, NEW places \in [Rounds(c) -> Nat]
  PROVE  /\ NextPlace(places) \in Nat \ {0}
         /\ \A r \in Rounds(c) : places[r] < NextPlace(places)
<1> DEFINE all == {places[r] : r \in Rounds(c)}
<1>1. Repeat[c] \in Int /\ 1 \in Int
  BY ReviewAssumption
<1>2. IsFiniteSet(Rounds(c))
  BY <1>1, FS_Interval DEF Rounds
<1>3. all \subseteq Nat /\ all # {}
  <2>1. Repeat[c] \in Nat \ {0}
    BY ReviewAssumption
  <2>2. 1 \in Rounds(c)
    BY <2>1 DEF Rounds
  <2>3. places[1] \in all
    BY <2>2
  <2> QED BY <2>3
<1>4. IsFiniteSet(all)
  <2>1. places \in Surjection(Rounds(c), all)
    BY DEF Surjection
  <2> HIDE DEF all
  <2> QED BY <1>2, <2>1, FS_Surjection
<1>5. PICK x \in all : \A y \in all : y <= x
  BY <1>3, <1>4, GreatestOfFinite
<1>6. Max(all) \in all /\ \A y \in all : Max(all) >= y
  <2> HIDE DEF all
  <2>1. \A y \in all : x >= y
    BY <1>3, <1>5
  <2> QED BY <2>1 DEF Max
<1>7. NextPlace(places) = Max(all) + 1
  BY DEF NextPlace
<1>8. \A r \in Rounds(c) : places[r] \in all
  OBVIOUS
<1> DEFINE last == Max(all)
<1>9. last \in Nat /\ \A y \in all : last >= y
  <2> HIDE DEF all
  <2> QED BY <1>3, <1>6
<1>10. NextPlace(places) = last + 1
  BY <1>7
<1>11. \A r \in Rounds(c) : places[r] \in Nat
  OBVIOUS
<1> HIDE DEF all, last
<1>12. ASSUME NEW r \in Rounds(c)
       PROVE  places[r] < last + 1
  BY <1>8, <1>9, <1>11
<1> QED BY <1>9, <1>10, <1>12

-----------------------------------------------------------------------------
(* What is gathered                                                        *)

\* The worst of some decisions is a decision.
LEMMA WorstDecides == \A S : Worst(S) \in Decisions
BY DEF Worst, Decisions

\* Rounds have runs and counts of their type.
LEMMA RoundTypes ==
  ASSUME TypeOK, NEW c \in Campaigns, NEW r \in Rounds(c)
  PROVE  opened[c][r] \in Nat /\ runs[c][r] \in RunRecord
<1>1. opened[c] \in [Rounds(c) -> Nat]
  BY DEF TypeOK, RunnerTypes
<1>2. runs[c] \in [Rounds(c) -> RunRecord]
  BY DEF TypeOK, RunnerTypes
<1> QED BY <1>1, <1>2

\* When every round is opened, all runs completed means all rounds settled.
LEMMA AllOpenedAllSettled ==
  ASSUME NEW c \in Campaigns, \A r \in Rounds(c) : opened[c][r] > 0, AllCompleted(c)
  PROVE  Settled(c)
BY DEF AllCompleted, Settled

\* A summary made now is good now.
LEMMA SummarizedIsFinal ==
  ASSUME ReviewInv, NEW c \in Campaigns, Exists(c)
  PROVE  Published(Summarize(c)) /\ SummaryFinal(c, Summarize(c))
<1>1. doc[c] \in CampaignRecord
  BY DEF ReviewInv, TypeOK, RunnerTypes
<1>2. doc[c].status \in DocStatuses /\ doc[c].live \in BOOLEAN
  BY <1>1 DEF CampaignRecord, Exists
<1>3. SummaryStatus(c) \in DocStatuses
  BY <1>2 DEF SummaryStatus, DocStatuses
<1>4. SummaryStatus(c) = "completed" => doc[c].status = "completed"
  BY <1>2 DEF SummaryStatus, DocStatuses
<1>5. doc[c].status = "completed" => Settled(c)
  BY DEF ReviewInv, DocFinal
<1>6. Overall(Metrics(RecordsOf(Evidence(c)))) \in Decisions
  BY WorstDecides DEF Overall
<1> DEFINE s == Summarize(c)
<1>7. /\ s.status = SummaryStatus(c) /\ s.live = doc[c].live /\ s.of = Evidence(c)
      /\ s.decision = Overall(Metrics(RecordsOf(Evidence(c))))
  BY DEF Summarize
<1> HIDE DEF s
<1>8. Published(s)
  BY <1>2, <1>3, <1>6, <1>7 DEF Published
<1>9. SummaryFinal(c, s)
  BY <1>4, <1>5, <1>7 DEF SummaryFinal
<1> QED BY <1>8, <1>9 DEF s

\* A report says of itself what its summary says.
LEMMA ReportRepeats ==
  ASSUME NEW c, NEW s, NEW yields, NEW base, Published(s)
  PROVE  LET t == Report(c, s, yields, base)
         IN Published(t) /\ t.status = s.status /\ t.of = s.of /\ t.records = yields
<1> DEFINE t == Report(c, s, yields, base)
<1>1. t.status = s.status /\ t.live = s.live /\ t.of = s.of /\ t.records = yields
  BY DEF Report, ReportStatus
<1>2. t.decision \in Decisions
  BY WorstDecides DEF Report
<1> HIDE DEF t
<1>3. Published(t)
  BY <1>1, <1>2 DEF Published
<1> QED BY <1>1, <1>3 DEF t

-----------------------------------------------------------------------------
(* What stays                                                              *)

\* A settled campaign has no round for its runner to open or to run.
LEMMA SettledRunsStay ==
  ASSUME ReviewInv, Next, NEW c \in Campaigns, Settled(c)
  PROVE  UNCHANGED <<opened[c], runs[c]>>
<1> DEFINE r(d) == runner[d].round
<1>1. \A d \in Campaigns : runner[d].pc \in InRun \cup {"round"} => r(d) \in Rounds(d)
  BY DEF ReviewInv, RunnersInStep, InStep
<1>2. \A d \in Campaigns : r(d) \in Rounds(d) =>
        (d = c => runs[d][r(d)].status = "completed")
  BY DEF Settled
<1>3. \A d \in Campaigns :
        /\ runner[d].pc \in {"opened", "run"} => runs[d][r(d)].status = "none"
        /\ runner[d].pc = "records" => runs[d][r(d)].status = "running"
  BY DEF ReviewInv, RunnersInStep, InStep
<1>4. ASSUME NEW d \in Campaigns, RunnerNext(d)
      PROVE  UNCHANGED <<opened[c], runs[c]>>
  <2>1. CASE OpenRound(d)
    <3>1. d # c
      BY <1>1, <1>2, <2>1 DEF OpenRound, RunnerAt, InRun
    <3> QED BY <2>1, <3>1 DEF OpenRound, ReviewInv, TypeOK, RunnerTypes
  <2>2. ASSUME NEW y, WriteRecords(d, y)
        PROVE  UNCHANGED <<opened[c], runs[c]>>
    <3>1. d # c
      BY <1>1, <1>2, <1>3, <2>2 DEF WriteRecords, RunnerAt, InRun
    <3> QED BY <2>2, <3>1 DEF WriteRecords, ReviewInv, TypeOK, RunnerTypes
  <2>3. ASSUME NEW status, FinishRun(d, status)
        PROVE  UNCHANGED <<opened[c], runs[c]>>
    <3>1. d # c
      BY <1>1, <1>2, <1>3, <2>3 DEF FinishRun, RunnerAt, InRun
    <3> QED BY <2>3, <3>1 DEF FinishRun, ReviewInv, TypeOK, RunnerTypes
  <2>4. ASSUME \/ \E live \in Modes[d] : Start(d, live)
               \/ Resume(d) \/ SkipRound(d) \/ RunRaises(d) \/ SummarizeOwn(d) \/ Close(d)
        PROVE  UNCHANGED <<opened[c], runs[c]>>
    BY <2>4 DEF Start, Resume, SkipRound, RunRaises, SummarizeOwn, Close, OnlyRunner
  <2> QED BY <1>4, <2>1, <2>2, <2>3, <2>4 DEF RunnerNext
<1>5. ASSUME NEW d \in Campaigns, Kill(d)
      PROVE  UNCHANGED <<opened[c], runs[c]>>
  BY <1>5 DEF Kill
<1>6. ASSUME NEW p \in Reviewers, ReviewNext(p)
      PROVE  UNCHANGED <<opened[c], runs[c]>>
  BY <1>6 DEF ReviewNext, Begin, Gather, WriteSummary, LoadSummary, MakeSummary, SaveSummary,
     ReadRecords, Compare, WriteReport, LoadCampaign, WriteBack
<1> QED BY <1>4, <1>5, <1>6 DEF Next

\* A campaign that is there stays there, and live or dry.
LEMMA CampaignsStay ==
  ASSUME ReviewInv, Next, NEW c \in Campaigns, Exists(c)
  PROVE  Exists(c)' /\ doc'[c].live = doc[c].live
<1> USE DEF Exists
<1>1. DOMAIN doc = Campaigns /\ \A d \in Campaigns : doc[d] \in CampaignRecord
  BY DEF ReviewInv, TypeOK, RunnerTypes
<1>2. ASSUME NEW d \in Campaigns, RunnerNext(d)
      PROVE  Exists(c)' /\ doc'[c].live = doc[c].live
  <2>1. ASSUME NEW live, Start(d, live)
        PROVE  Exists(c)' /\ doc'[c].live = doc[c].live
    BY <1>1, <2>1 DEF Start
  <2>2. CASE Resume(d)
    BY <1>1, <2>2 DEF Resume, CampaignRecord
  <2>3. CASE Close(d)
    BY <1>1, <2>3 DEF Close, CampaignRecord
  <2>4. ASSUME \/ SkipRound(d) \/ OpenRound(d) \/ RunRaises(d) \/ SummarizeOwn(d)
               \/ \E y \in Outcomes[d][doc[d].live] : WriteRecords(d, y)
               \/ \E status \in {"completed", "partial"} : FinishRun(d, status)
        PROVE  UNCHANGED doc
    BY <2>4 DEF SkipRound, OpenRound, RunRaises, SummarizeOwn, WriteRecords, FinishRun, OnlyRunner
  <2> QED BY <1>2, <2>1, <2>2, <2>3, <2>4 DEF RunnerNext
<1>3. ASSUME NEW d \in Campaigns, Kill(d)
      PROVE  Exists(c)' /\ doc'[c].live = doc[c].live
  BY <1>3 DEF Kill
<1>4. ASSUME NEW p \in Reviewers, ReviewNext(p)
      PROVE  Exists(c)' /\ doc'[c].live = doc[c].live
  <2>1. CASE WriteBack(p)
    <3>1. hand[p].status # "none" /\ hand[p].live = doc[review[p].campaign].live
      BY <2>1 DEF WriteBack, ReviewInv, HandsFinal, HeldGood, GoodDoc, At
    <3> QED BY <1>1, <2>1, <3>1 DEF WriteBack
  <2>2. CASE ~WriteBack(p)
    BY <1>4, <2>2 DEF ReviewNext, Begin, Gather, WriteSummary, LoadSummary, MakeSummary,
       SaveSummary, ReadRecords, Compare, WriteReport, LoadCampaign
  <2> QED BY <2>1, <2>2
<1> QED BY <1>2, <1>3, <1>4 DEF Next

\* What was gathered of a campaign stays as good as it was.
LEMMA GatheredStays ==
  ASSUME ReviewInv, Next, NEW c \in Campaigns, Exists(c)
  PROVE  /\ Exists(c)' /\ doc'[c].live = doc[c].live
         /\ Settled(c) => Settled(c)' /\ Evidence(c)' = Evidence(c)
<1>1. Settled(c) => UNCHANGED <<opened[c], runs[c]>>
  BY SettledRunsStay
<1>2. UNCHANGED <<opened[c], runs[c]>> => Evidence(c)' = Evidence(c)
  BY DEF Evidence
<1>3. UNCHANGED <<opened[c], runs[c]>> => (Settled(c) => Settled(c)')
  BY DEF Settled
<1> QED BY <1>1, <1>2, <1>3, CampaignsStay

-----------------------------------------------------------------------------
(* The runner                                                              *)

\* A runner whose round is over and was opened may go on.
LEMMA GoesOn ==
  ASSUME ReviewInv, NEW c \in Campaigns, NEW r, r = runner[c].round, r \in Rounds(c),
         \A q \in 1 .. r : opened[c][q] > 0, Exists(c)
  PROVE  InStep(c, NextRound(c), opened[c], runs[c], TRUE) /\ NextRound(c) \in RunnerRecord
<1>1. Repeat[c] \in Nat \ {0} /\ r \in Nat
  BY ReviewAssumption DEF Rounds
<1>2. \A q \in Rounds(c) : opened[c][q] = 0 => runs[c][q].status = "none"
  BY DEF ReviewInv, RunnersInStep, InStep
<1>3. CASE r = Repeat[c]
  <2>1. NextRound(c) = [pc |-> "close", round |-> 0]
    BY <1>3 DEF NextRound
  <2>2. \A q \in Rounds(c) : opened[c][q] > 0
    BY <1>3 DEF Rounds
  <2> QED BY <1>2, <2>1, <2>2 DEF InStep, InRun, RunnerRecord
<1>4. CASE r # Repeat[c]
  <2>1. NextRound(c) = [pc |-> "round", round |-> r + 1]
    BY <1>4 DEF NextRound
  <2>2. r + 1 \in Rounds(c) /\ \A q \in 1 .. r + 1 - 1 : opened[c][q] > 0
    BY <1>1, <1>4 DEF Rounds
  <2> QED BY <1>1, <1>2, <2>1, <2>2 DEF InStep, InRun, RunnerRecord
<1> QED BY <1>3, <1>4

\* One campaign moves, and the types of all stay.
LEMMA OneRunnerMoves ==
  ASSUME ReviewInv, NEW c \in Campaigns, NEW at \in RunnerRecord,
         NEW counts \in [Rounds(c) -> Nat], NEW last \in [Rounds(c) -> RunRecord],
         runner' = [runner EXCEPT ![c] = at],
         opened' = [opened EXCEPT ![c] = counts], runs' = [runs EXCEPT ![c] = last],
         InStep(c, at, counts, last, TRUE), Exists(c)',
         \A d \in Campaigns : Exists(d) => Exists(d)'
  PROVE  RunnersInStep' /\ RunnerTypes'
<1>1. /\ opened = [d \in Campaigns |-> opened[d]] /\ runs = [d \in Campaigns |-> runs[d]]
      /\ runner \in [Campaigns -> RunnerRecord]
  BY DEF ReviewInv, TypeOK, RunnerTypes
<1>2. \A d \in Campaigns : /\ opened[d] \in [Rounds(d) -> Nat]
                           /\ runs[d] \in [Rounds(d) -> RunRecord]
  BY DEF ReviewInv, TypeOK, RunnerTypes
<1>3. /\ runner'[c] = at /\ opened'[c] = counts /\ runs'[c] = last
      /\ \A d \in Campaigns \ {c} : UNCHANGED <<runner[d], opened[d], runs[d]>>
  BY <1>1
<1>4. RunnerTypes'
  <2>1. opened' = [d \in Campaigns |-> opened'[d]] /\ runs' = [d \in Campaigns |-> runs'[d]]
    BY <1>1
  <2>2. runner' \in [Campaigns -> RunnerRecord]
    BY <1>1
  <2>3. \A d \in Campaigns : /\ opened'[d] \in [Rounds(d) -> Nat]
                             /\ runs'[d] \in [Rounds(d) -> RunRecord]
    BY <1>2, <1>3
  <2> QED BY <2>1, <2>2, <2>3 DEF RunnerTypes
<1>5. ASSUME NEW d \in Campaigns
      PROVE  InStep(d, runner[d], opened[d], runs[d], Exists(d))'
  <2>1. CASE d = c
    BY <1>3, <2>1 DEF InStep
  <2>2. CASE d # c
    <3>1. InStep(d, runner[d], opened[d], runs[d], Exists(d))
      BY DEF ReviewInv, RunnersInStep
    <3>2. UNCHANGED <<runner[d], opened[d], runs[d]>> /\ (Exists(d) => Exists(d)')
      BY <1>3, <2>2
    <3> QED BY <3>1, <3>2 DEF InStep
  <2> QED BY <2>1, <2>2
<1> QED BY <1>4, <1>5 DEF RunnersInStep

\* Whatever happens, the runners stay in step.
LEMMA RunnersKept == ReviewInv /\ Next => RunnersInStep' /\ RunnerTypes'
<1> SUFFICES ASSUME ReviewInv, Next
             PROVE  RunnersInStep' /\ RunnerTypes'
  OBVIOUS
<1>1. \A d \in Campaigns : Exists(d) => Exists(d)'
  BY CampaignsStay
<1>2. /\ runner \in [Campaigns -> RunnerRecord]
      /\ opened = [d \in Campaigns |-> opened[d]] /\ runs = [d \in Campaigns |-> runs[d]]
  BY DEF ReviewInv, TypeOK, RunnerTypes
<1>3. ASSUME NEW c \in Campaigns
      PROVE  /\ runner[c] \in RunnerRecord
             /\ opened[c] \in [Rounds(c) -> Nat] /\ runs[c] \in [Rounds(c) -> RunRecord]
             /\ InStep(c, runner[c], opened[c], runs[c], Exists(c))
             /\ doc[c] \in CampaignRecord
  BY DEF ReviewInv, TypeOK, RunnerTypes, RunnersInStep
<1>4. ASSUME NEW c \in Campaigns, RunnerNext(c)
      PROVE  RunnersInStep' /\ RunnerTypes'
  <2> DEFINE r == runner[c].round
             Moves(at, counts, last) ==
               /\ at \in RunnerRecord /\ counts \in [Rounds(c) -> Nat]
               /\ last \in [Rounds(c) -> RunRecord]
               /\ runner' = [runner EXCEPT ![c] = at]
               /\ opened' = [opened EXCEPT ![c] = counts] /\ runs' = [runs EXCEPT ![c] = last]
               /\ InStep(c, at, counts, last, TRUE) /\ Exists(c)'
  <2>0. SUFFICES \E at, counts, last : Moves(at, counts, last)
    BY <1>1, OneRunnerMoves
  <2>1. UNCHANGED opened => opened' = [opened EXCEPT ![c] = opened[c]]
    BY <1>2
  <2>2. UNCHANGED runs => runs' = [runs EXCEPT ![c] = runs[c]]
    BY <1>2
  <2>3. ASSUME NEW pc, runner' = [runner EXCEPT ![c].pc = pc],
               pc \in {"opened", "run", "records", "returned", "raised", "fail", "closed"}
        PROVE  /\ [pc |-> pc, round |-> r] \in RunnerRecord
               /\ runner' = [runner EXCEPT ![c] = [pc |-> pc, round |-> r]]
    <3>1. /\ [pc |-> pc, round |-> r] \in RunnerRecord
          /\ [runner[c] EXCEPT !.pc = pc] = [pc |-> pc, round |-> r]
      BY <1>3, <2>3 DEF RunnerRecord
    <3>2. runner' = [runner EXCEPT ![c] = [runner[c] EXCEPT !.pc = pc]]
      BY <1>2, <2>3
    <3> QED BY <3>1, <3>2
  <2>4. ASSUME NEW live \in Modes[c], Start(c, live)
        PROVE  \E at, counts, last : Moves(at, counts, last)
    <3> DEFINE at == [pc |-> "round", round |-> 1]
    <3>1. at \in RunnerRecord /\ 1 \in Rounds(c)
      BY ReviewAssumption DEF RunnerRecord, Rounds
    <3>2. InStep(c, at, opened[c], runs[c], TRUE)
      BY <1>3, <3>1 DEF InStep, InRun
    <3>3. Exists(c)' /\ runner' = [runner EXCEPT ![c] = at] /\ UNCHANGED <<opened, runs>>
      BY <1>3, <2>4 DEF Start, Exists, ReviewInv, TypeOK
    <3>4. Moves(at, opened[c], runs[c])
      BY <1>3, <2>1, <2>2, <3>1, <3>2, <3>3
    <3> QED BY <3>4
  <2>5. CASE Resume(c)
    <3> DEFINE at == [pc |-> "round", round |-> 1]
    <3>1. at \in RunnerRecord /\ 1 \in Rounds(c)
      BY ReviewAssumption DEF RunnerRecord, Rounds
    <3>2. InStep(c, at, opened[c], runs[c], TRUE)
      BY <1>3, <3>1 DEF InStep, InRun
    <3>3. Exists(c)' /\ runner' = [runner EXCEPT ![c] = at] /\ UNCHANGED <<opened, runs>>
      BY <1>1, <2>5 DEF Resume
    <3>4. Moves(at, opened[c], runs[c])
      BY <1>3, <2>1, <2>2, <3>1, <3>2, <3>3
    <3> QED BY <3>4
  <2>6. CASE SkipRound(c)
    <3>1. r \in Rounds(c) /\ Exists(c) /\ \A q \in 1 .. r - 1 : opened[c][q] > 0
      BY <1>3, <2>6 DEF SkipRound, RunnerAt, InStep
    <3>2. opened[c][r] > 0
      BY <1>3, <2>6, <3>1 DEF SkipRound, InStep
    <3>3. \A q \in 1 .. r : opened[c][q] > 0
      BY <3>1, <3>2, ReviewAssumption DEF Rounds
    <3>4. InStep(c, NextRound(c), opened[c], runs[c], TRUE) /\ NextRound(c) \in RunnerRecord
      BY <3>1, <3>3, GoesOn
    <3>5. Moves(NextRound(c), opened[c], runs[c])
      BY <1>1, <1>3, <2>1, <2>2, <2>6, <3>1, <3>4 DEF SkipRound, OnlyRunner
    <3> QED BY <3>5
  <2>7. CASE OpenRound(c)
    <3> DEFINE at == [pc |-> "opened", round |-> r]
               place == NextPlace(opened[c])
               counts == [opened[c] EXCEPT ![r] = place]
               last == [runs[c] EXCEPT ![r] = NoRun]
    <3>1. at \in RunnerRecord /\ runner' = [runner EXCEPT ![c] = at]
      BY <2>3, <2>7 DEF OpenRound, Goto
    <3>2. r \in Rounds(c) /\ Exists(c) /\ \A q \in 1 .. r - 1 : opened[c][q] > 0
      BY <1>3, <2>7 DEF OpenRound, RunnerAt, InStep
    <3>3. NoRun \in RunRecord /\ NoRun.status = "none"
      BY DEF NoRun, RunRecord
    <3>4. place \in Nat \ {0}
      BY <1>3, PlacesGrow
    <3>5. /\ opened' = [opened EXCEPT ![c][r] = place]
           /\ runs' = [runs EXCEPT ![c][r] = NoRun]
      BY <2>7 DEF OpenRound
    <3> HIDE DEF place
    <3>6. counts \in [Rounds(c) -> Nat] /\ last \in [Rounds(c) -> RunRecord]
      BY <1>3, <3>2, <3>3, <3>4
    <3>7. /\ opened' = [opened EXCEPT ![c] = counts]
          /\ runs' = [runs EXCEPT ![c] = last]
      BY <1>2, <3>5
    <3>8. /\ counts[r] > 0 /\ last[r].status = "none"
          /\ \A q \in Rounds(c) \ {r} : counts[q] = opened[c][q] /\ last[q] = runs[c][q]
      BY <1>3, <3>2, <3>3, <3>4
    <3>9. r \in Nat /\ 1 .. r - 1 \subseteq Rounds(c) \ {r}
      BY <3>2, ReviewAssumption DEF Rounds
    <3> HIDE DEF counts, last
    <3>10. InStep(c, at, counts, last, TRUE)
      BY <1>3, <3>2, <3>8, <3>9 DEF InStep, InRun
    <3>11. Moves(at, counts, last)
      BY <1>1, <3>1, <3>2, <3>6, <3>7, <3>10
    <3> QED BY <3>11
  <2>8. CASE RunRaises(c)
    <3> DEFINE at == [pc |-> "raised", round |-> r]
    <3>1. at \in RunnerRecord /\ runner' = [runner EXCEPT ![c] = at]
      BY <2>3, <2>8 DEF RunRaises, Goto
    <3>2. InStep(c, at, opened[c], runs[c], TRUE) /\ Exists(c)
      BY <1>3, <2>8 DEF RunRaises, InStep, InRun
    <3>3. Moves(at, opened[c], runs[c])
      BY <1>1, <1>3, <2>1, <2>2, <2>8, <3>1, <3>2 DEF RunRaises, OnlyRunner
    <3> QED BY <3>3
  <2>9. ASSUME NEW y \in Outcomes[c][doc[c].live], WriteRecords(c, y)
        PROVE  \E at, counts, last : Moves(at, counts, last)
    <3> DEFINE at == [pc |-> "records", round |-> r]
               run == [status |-> "running", yield |-> y]
               last == [runs[c] EXCEPT ![r] = run]
    <3>1. at \in RunnerRecord /\ runner' = [runner EXCEPT ![c] = at]
      BY <2>3, <2>9 DEF WriteRecords, Goto
    <3>2. /\ r \in Rounds(c) /\ Exists(c) /\ \A q \in 1 .. r - 1 : opened[c][q] > 0
          /\ opened[c][r] > 0
      BY <1>3, <2>9 DEF WriteRecords, RunnerAt, InStep, InRun
    <3>3. y \in DOMAIN Yields
      BY <1>3, ReviewAssumption DEF CampaignRecord
    <3>4. run \in RunRecord /\ run.status = "running"
      BY <3>3 DEF RunRecord
    <3> HIDE DEF run
    <3>5. last \in [Rounds(c) -> RunRecord] /\ last[r].status = "running"
      BY <1>3, <3>2, <3>4
    <3>6. runs' = [runs EXCEPT ![c] = last] /\ UNCHANGED opened
      BY <1>2, <2>9 DEF WriteRecords, run
    <3>7. \A q \in Rounds(c) \ {r} : last[q] = runs[c][q]
      BY <1>3
    <3> HIDE DEF last
    <3>8. InStep(c, at, opened[c], last, TRUE)
      BY <1>3, <3>2, <3>5, <3>7 DEF InStep, InRun
    <3>9. Moves(at, opened[c], last)
      BY <1>1, <1>3, <2>1, <3>1, <3>2, <3>5, <3>6, <3>8
    <3> QED BY <3>9
  <2>10. ASSUME NEW status \in {"completed", "partial"}, FinishRun(c, status)
         PROVE  \E at, counts, last : Moves(at, counts, last)
    <3> DEFINE at == [pc |-> "returned", round |-> r]
               run == [runs[c][r] EXCEPT !.status = status]
               last == [runs[c] EXCEPT ![r] = run]
    <3>1. at \in RunnerRecord /\ runner' = [runner EXCEPT ![c] = at]
      BY <2>3, <2>10 DEF FinishRun, Goto
    <3>2. /\ r \in Rounds(c) /\ Exists(c) /\ \A q \in 1 .. r - 1 : opened[c][q] > 0
          /\ opened[c][r] > 0
      BY <1>3, <2>10 DEF FinishRun, RunnerAt, InStep, InRun
    <3>3. run \in RunRecord
      BY <1>3, <3>2 DEF RunRecord
    <3>4. runs' = [runs EXCEPT ![c] = last] /\ UNCHANGED opened
      BY <1>2, <2>10 DEF FinishRun
    <3> HIDE DEF run
    <3>5. last \in [Rounds(c) -> RunRecord]
      BY <1>3, <3>2, <3>3
    <3>6. \A q \in Rounds(c) \ {r} : last[q] = runs[c][q]
      BY <1>3
    <3> HIDE DEF last
    <3>7. InStep(c, at, opened[c], last, TRUE)
      BY <1>3, <3>2, <3>5, <3>6 DEF InStep, InRun
    <3>8. Moves(at, opened[c], last)
      BY <1>1, <1>3, <2>1, <3>1, <3>2, <3>4, <3>5, <3>7
    <3> QED BY <3>8
  <2>11. CASE SummarizeOwn(c)
    <3>1. UNCHANGED <<opened, runs, doc>>
      BY <2>11 DEF SummarizeOwn
    <3>2. Exists(c) /\ Exists(c)'
      BY <1>1, <1>3, <2>11 DEF SummarizeOwn, Summarizing, InStep
    <3>3. CASE RunnerAt(c, "opened")
      <4> DEFINE at == [pc |-> "run", round |-> r]
      <4>0. at \in RunnerRecord /\ [runner[c] EXCEPT !.pc = "run"] = at
        BY <1>3 DEF RunnerRecord
      <4>1. runner' = [runner EXCEPT ![c] = [runner[c] EXCEPT !.pc = "run"]]
        BY <2>11, <3>3 DEF SummarizeOwn, Summarizing, RunnerAt
      <4>2. runner' = [runner EXCEPT ![c] = at]
        BY <4>0, <4>1
      <4>3. InStep(c, at, opened[c], runs[c], TRUE)
        BY <1>3, <3>3 DEF InStep, InRun, RunnerAt
      <4>4. Moves(at, opened[c], runs[c])
        BY <1>3, <2>1, <2>2, <3>1, <3>2, <4>0, <4>2, <4>3
      <4> QED BY <4>4
    <3>4. CASE RunnerAt(c, "raised")
      <4> DEFINE at == [pc |-> "fail", round |-> r]
      <4>0. at \in RunnerRecord /\ [runner[c] EXCEPT !.pc = "fail"] = at
        BY <1>3 DEF RunnerRecord
      <4>1. runner' = [runner EXCEPT ![c] = [runner[c] EXCEPT !.pc = "fail"]]
        BY <2>11, <3>4 DEF SummarizeOwn, Summarizing, RunnerAt
      <4>2. runner' = [runner EXCEPT ![c] = at]
        BY <4>0, <4>1
      <4>3. InStep(c, at, opened[c], runs[c], TRUE)
        BY <1>3, <3>4 DEF InStep, InRun, RunnerAt
      <4>4. Moves(at, opened[c], runs[c])
        BY <1>3, <2>1, <2>2, <3>1, <3>2, <4>0, <4>2, <4>3
      <4> QED BY <4>4
    <3>5. CASE RunnerAt(c, "returned")
      <4>1. runner' = [runner EXCEPT ![c] = NextRound(c)]
        BY <2>11, <3>5 DEF SummarizeOwn, Summarizing, RunnerAt
      <4>2. /\ r \in Rounds(c) /\ \A q \in 1 .. r - 1 : opened[c][q] > 0
            /\ opened[c][r] > 0
        BY <1>3, <3>5 DEF RunnerAt, InStep, InRun
      <4>3. \A q \in 1 .. r : opened[c][q] > 0
        BY <4>2, ReviewAssumption DEF Rounds
      <4>4. InStep(c, NextRound(c), opened[c], runs[c], TRUE) /\ NextRound(c) \in RunnerRecord
        BY <3>2, <4>2, <4>3, GoesOn
      <4>5. Moves(NextRound(c), opened[c], runs[c])
        BY <1>3, <2>1, <2>2, <3>1, <3>2, <4>1, <4>4
      <4> QED BY <4>5
    <3>6. CASE RunnerAt(c, "closed")
      <4>1. runner' = [runner EXCEPT ![c] = RunnerIdle]
        BY <2>11, <3>6 DEF SummarizeOwn, Summarizing, RunnerAt
      <4>2. RunnerIdle \in RunnerRecord /\ InStep(c, RunnerIdle, opened[c], runs[c], TRUE)
        BY <1>3 DEF RunnerIdle, RunnerRecord, InStep, InRun
      <4>3. Moves(RunnerIdle, opened[c], runs[c])
        BY <1>3, <2>1, <2>2, <3>1, <3>2, <4>1, <4>2
      <4> QED BY <4>3
    <3> QED BY <2>11, <3>3, <3>4, <3>5, <3>6 DEF SummarizeOwn, Summarizing, RunnerAt
  <2>12. CASE Close(c)
    <3> DEFINE at == [pc |-> "closed", round |-> r]
    <3>1. at \in RunnerRecord /\ runner' = [runner EXCEPT ![c] = at]
      BY <2>3, <2>12 DEF Close, Goto
    <3>2. InStep(c, at, opened[c], runs[c], TRUE) /\ Exists(c)
      BY <1>3, <2>12 DEF Close, InStep, InRun
    <3>3. UNCHANGED <<opened, runs>>
      BY <2>12 DEF Close
    <3>4. Moves(at, opened[c], runs[c])
      BY <1>1, <1>3, <2>1, <2>2, <3>1, <3>2, <3>3
    <3> QED BY <3>4
  <2> QED BY <1>4, <2>4, <2>5, <2>6, <2>7, <2>8, <2>9, <2>10, <2>11, <2>12 DEF RunnerNext
<1>5. ASSUME NEW c \in Campaigns, Kill(c)
      PROVE  RunnersInStep' /\ RunnerTypes'
  <2>1. RunnerIdle \in RunnerRecord /\ InStep(c, RunnerIdle, opened[c], runs[c], TRUE)
    BY <1>3 DEF RunnerIdle, RunnerRecord, InStep, InRun
  <2>2. runner' = [runner EXCEPT ![c] = RunnerIdle] /\ UNCHANGED <<opened, runs>>
    BY <1>5 DEF Kill
  <2>3. opened' = [opened EXCEPT ![c] = opened[c]] /\ runs' = [runs EXCEPT ![c] = runs[c]]
    BY <1>2, <2>2
  <2>4. Exists(c)'
    BY <1>1, <1>3, <1>5 DEF Kill, RunnerAt, InStep
  <2> QED BY <1>1, <1>3, <2>1, <2>2, <2>3, <2>4, OneRunnerMoves
<1>6. ASSUME NEW p \in Reviewers, ReviewNext(p)
      PROVE  RunnersInStep' /\ RunnerTypes'
  <2>1. UNCHANGED <<runner, opened, runs>>
    BY <1>6 DEF ReviewNext, Begin, Gather, WriteSummary, LoadSummary, MakeSummary, SaveSummary,
       ReadRecords, Compare, WriteReport, LoadCampaign, WriteBack
  <2>2. ASSUME NEW c \in Campaigns
        PROVE  InStep(c, runner[c], opened[c], runs[c], Exists(c))'
    <3>1. InStep(c, runner[c], opened[c], runs[c], Exists(c)) /\ (Exists(c) => Exists(c)')
      BY <1>1, <1>3
    <3> QED BY <2>1, <3>1 DEF InStep
  <2>3. RunnerTypes'
    BY <2>1 DEF RunnerTypes, ReviewInv, TypeOK
  <2> QED BY <2>2, <2>3 DEF RunnersInStep
<1> QED BY <1>4, <1>5, <1>6 DEF Next

-----------------------------------------------------------------------------
(* What is written                                                         *)

\* campaign.json keeps its type, and says completed of settled campaigns only.
LEMMA DocsKept == ReviewInv /\ Next => DocFinal' /\ doc' \in [Campaigns -> CampaignRecord]
<1> SUFFICES ASSUME ReviewInv, Next
             PROVE  DocFinal' /\ doc' \in [Campaigns -> CampaignRecord]
  OBVIOUS
<1>1. doc \in [Campaigns -> CampaignRecord]
  BY DEF ReviewInv, TypeOK
<1> DEFINE Kept(c, d) == d \in CampaignRecord /\ (d.status = "completed" => Settled(c) /\ Exists(c))
<1>2. ASSUME NEW c \in Campaigns
      PROVE  Kept(c, doc[c])
  BY <1>1 DEF ReviewInv, DocFinal, Exists
<1>3. SUFFICES \/ UNCHANGED doc
               \/ \E c \in Campaigns, d \in CampaignRecord :
                    doc' = [doc EXCEPT ![c] = d] /\ Kept(c, d)
  <2>1. doc' \in [Campaigns -> CampaignRecord]
    BY <1>1, <1>3
  <2>2. ASSUME NEW c \in Campaigns
        PROVE  Kept(c, doc'[c])
    BY <1>1, <1>2, <1>3
  <2>3. ASSUME NEW c \in Campaigns, doc'[c].status = "completed"
        PROVE  Settled(c)'
    BY <2>2, <2>3, GatheredStays
  <2> QED BY <2>1, <2>3 DEF DocFinal
<1>4. ASSUME NEW c \in Campaigns, RunnerNext(c)
      PROVE  \/ UNCHANGED doc
             \/ \E d \in CampaignRecord : doc' = [doc EXCEPT ![c] = d] /\ Kept(c, d)
  <2>1. ASSUME NEW live \in Modes[c], Start(c, live)
        PROVE  \E d \in CampaignRecord : doc' = [doc EXCEPT ![c] = d] /\ Kept(c, d)
    <3> DEFINE d == [status |-> "running", live |-> live]
    <3>1. live \in BOOLEAN
      BY ReviewAssumption
    <3>2. d \in CampaignRecord /\ Kept(c, d)
      BY <3>1 DEF CampaignRecord, DocStatuses
    <3> QED BY <2>1, <3>2 DEF Start
  <2>2. CASE Resume(c)
    <3> DEFINE d == [doc[c] EXCEPT !.status = "running"]
    <3>1. d \in CampaignRecord /\ Kept(c, d)
      BY <1>1 DEF CampaignRecord, DocStatuses
    <3>2. doc' = [doc EXCEPT ![c] = d]
      BY <2>2 DEF Resume
    <3> QED BY <3>1, <3>2
  <2>3. CASE Close(c)
    <3> DEFINE status == IF RunnerAt(c, "fail") THEN "failed"
                         ELSE IF AllCompleted(c) THEN "completed" ELSE "partial"
               d == [doc[c] EXCEPT !.status = status]
    <3>1. status \in {"failed", "completed", "partial"}
      OBVIOUS
    <3>2. status = "completed" => RunnerAt(c, "close") /\ AllCompleted(c)
      BY <2>3 DEF Close, RunnerAt
    <3>3. InStep(c, runner[c], opened[c], runs[c], Exists(c))
      BY DEF ReviewInv, RunnersInStep
    <3>4. status = "completed" => Settled(c)
      BY <3>2, <3>3, AllOpenedAllSettled DEF InStep, RunnerAt
    <3>5. doc' = [doc EXCEPT ![c] = d]
      BY <2>3 DEF Close
    <3>6. Exists(c)
      BY <2>3, <3>3 DEF Close, InStep
    <3> HIDE DEF status
    <3>7. d \in CampaignRecord /\ d.status = status
      BY <1>1, <3>1 DEF CampaignRecord, DocStatuses
    <3> QED BY <3>4, <3>5, <3>6, <3>7
  <2>4. ASSUME \/ SkipRound(c) \/ OpenRound(c) \/ RunRaises(c) \/ SummarizeOwn(c)
               \/ \E y \in Outcomes[c][doc[c].live] : WriteRecords(c, y)
               \/ \E status \in {"completed", "partial"} : FinishRun(c, status)
        PROVE  UNCHANGED doc
    BY <2>4 DEF SkipRound, OpenRound, RunRaises, SummarizeOwn, WriteRecords, FinishRun, OnlyRunner
  <2> QED BY <1>4, <2>1, <2>2, <2>3, <2>4 DEF RunnerNext
<1>5. ASSUME NEW c \in Campaigns, Kill(c)
      PROVE  UNCHANGED doc
  BY <1>5 DEF Kill
<1>6. ASSUME NEW p \in Reviewers, WriteBack(p)
      PROVE  \E c \in Campaigns, d \in CampaignRecord :
               doc' = [doc EXCEPT ![c] = d] /\ Kept(c, d)
  <2>1. At(p, "pack") /\ hand[p] # None
    BY <1>6 DEF WriteBack
  <2>2. review[p].campaign \in Campaigns /\ Kept(review[p].campaign, hand[p])
    BY <2>1 DEF ReviewInv, HandsFinal, HeldGood, GoodDoc, At
  <2>3. doc' = [doc EXCEPT ![review[p].campaign] = hand[p]]
    BY <1>6 DEF WriteBack
  <2> QED BY <2>2, <2>3
<1>7. ASSUME NEW p \in Reviewers, ReviewNext(p), ~WriteBack(p)
      PROVE  UNCHANGED doc
  BY <1>7 DEF ReviewNext, Begin, Gather, WriteSummary, LoadSummary, MakeSummary, SaveSummary,
     ReadRecords, Compare, WriteReport, LoadCampaign
<1> QED BY <1>4, <1>5, <1>6, <1>7 DEF Next

\* What a reviewer holds is good, of a campaign that is there.
LEMMA HandIsGood ==
  ASSUME ReviewInv, NEW p \in Reviewers, NEW step, At(p, step)
  PROVE  /\ review[p].campaign \in Campaigns /\ Exists(review[p].campaign)
         /\ hand[p] # None => HeldGood(review[p].campaign, step, hand[p])
BY DEF ReviewInv, HandsFinal, At

\* The summary that write_authenticity_evidence finds is good.
LEMMA FoundIsGood ==
  ASSUME ReviewInv, NEW c \in Campaigns, Exists(c), summary[c] # None
  PROVE  GoodSummary(c, summary[c])
BY DEF ReviewInv, TypeOK, SummariesFinal, GoodSummary

\* Whoever writes a summary writes a good one.
LEMMA SummariesWritten ==
  ReviewInv /\ Next =>
    \/ UNCHANGED summary
    \/ \E c \in Campaigns : \E s : summary' = [summary EXCEPT ![c] = s] /\ GoodSummary(c, s)
<1> SUFFICES ASSUME ReviewInv, Next
             PROVE  \/ UNCHANGED summary
                    \/ \E c \in Campaigns : \E s :
                         summary' = [summary EXCEPT ![c] = s] /\ GoodSummary(c, s)
  OBVIOUS
<1>1. ASSUME NEW c \in Campaigns, SummarizeOwn(c)
      PROVE  summary' = [summary EXCEPT ![c] = Summarize(c)] /\ GoodSummary(c, Summarize(c))
  <2>1. Exists(c)
    BY <1>1 DEF SummarizeOwn, Summarizing, ReviewInv, RunnersInStep, InStep
  <2> QED BY <1>1, <2>1, SummarizedIsFinal DEF SummarizeOwn, GoodSummary
<1>2. ASSUME NEW c \in Campaigns, RunnerNext(c), ~SummarizeOwn(c)
      PROVE  UNCHANGED summary
  BY <1>2 DEF RunnerNext, Start, Resume, SkipRound, OpenRound, RunRaises, WriteRecords, FinishRun,
     Close, OnlyRunner
<1>3. ASSUME NEW c \in Campaigns, Kill(c)
      PROVE  UNCHANGED summary
  BY <1>3 DEF Kill
<1>4. ASSUME NEW p \in Reviewers, WriteSummary(p) \/ SaveSummary(p)
      PROVE  \E c \in Campaigns : \E s :
               summary' = [summary EXCEPT ![c] = s] /\ GoodSummary(c, s)
  <2>1. hand[p] # None /\ (At(p, "gather") \/ At(p, "report"))
    BY <1>4 DEF WriteSummary, SaveSummary
  <2>2. review[p].campaign \in Campaigns /\ GoodSummary(review[p].campaign, hand[p])
    BY <2>1, HandIsGood DEF HeldGood
  <2> QED BY <1>4, <2>2 DEF WriteSummary, SaveSummary
<1>5. ASSUME NEW p \in Reviewers, ReviewNext(p), ~WriteSummary(p), ~SaveSummary(p)
      PROVE  UNCHANGED summary
  BY <1>5 DEF ReviewNext, Begin, Gather, LoadSummary, MakeSummary, ReadRecords, Compare,
     WriteReport, LoadCampaign, WriteBack
<1> QED BY <1>1, <1>2, <1>3, <1>4, <1>5 DEF Next

\* Whoever writes a trust report writes a good one.
LEMMA ReportsWritten ==
  ReviewInv /\ Next =>
    \/ UNCHANGED trust
    \/ \E c \in Campaigns : \E t : trust' = [trust EXCEPT ![c] = t] /\ GoodReport(c, t)
<1> SUFFICES ASSUME ReviewInv, Next
             PROVE  \/ UNCHANGED trust
                    \/ \E c \in Campaigns : \E t :
                         trust' = [trust EXCEPT ![c] = t] /\ GoodReport(c, t)
  OBVIOUS
<1>1. ASSUME NEW c \in Campaigns, RunnerNext(c) \/ Kill(c)
      PROVE  UNCHANGED trust
  BY <1>1 DEF RunnerNext, Start, Resume, SkipRound, OpenRound, RunRaises, WriteRecords, FinishRun,
     SummarizeOwn, Close, OnlyRunner, Kill
<1>2. ASSUME NEW p \in Reviewers, WriteReport(p)
      PROVE  \E c \in Campaigns : \E t : trust' = [trust EXCEPT ![c] = t] /\ GoodReport(c, t)
  <2>1. hand[p] # None /\ At(p, "write")
    BY <1>2 DEF WriteReport
  <2>2. review[p].campaign \in Campaigns /\ GoodReport(review[p].campaign, hand[p])
    BY <2>1, HandIsGood DEF HeldGood
  <2> QED BY <1>2, <2>2 DEF WriteReport
<1>3. ASSUME NEW p \in Reviewers, ReviewNext(p), ~WriteReport(p)
      PROVE  UNCHANGED trust
  BY <1>3 DEF ReviewNext, Begin, Gather, WriteSummary, LoadSummary, MakeSummary, SaveSummary,
     ReadRecords, Compare, LoadCampaign, WriteBack
<1> QED BY <1>1, <1>2, <1>3 DEF Next

\* Summaries and reports stay good.
LEMMA PublishedKept ==
  ASSUME ReviewInv, Next
  PROVE  /\ SummariesFinal' /\ TrustFinal' /\ NothingBefore'
         /\ summary' = [c \in Campaigns |-> summary'[c]] /\ trust' = [c \in Campaigns |-> trust'[c]]
         /\ \A c \in Campaigns : /\ summary'[c] # None => Published(summary'[c])
                                 /\ trust'[c] # None => Published(trust'[c])
<1>1. summary = [c \in Campaigns |-> summary[c]] /\ trust = [c \in Campaigns |-> trust[c]]
  BY DEF ReviewInv, TypeOK
<1>2. ASSUME NEW c \in Campaigns
      PROVE  /\ summary[c] # None => GoodSummary(c, summary[c])
             /\ trust[c] # None => GoodReport(c, trust[c])
  BY DEF ReviewInv, TypeOK, SummariesFinal, TrustFinal, NothingBefore, GoodSummary, GoodReport
<1>3. \/ UNCHANGED summary
      \/ \E c \in Campaigns : \E s : summary' = [summary EXCEPT ![c] = s] /\ GoodSummary(c, s)
  BY SummariesWritten
<1>4. \/ UNCHANGED trust
      \/ \E c \in Campaigns : \E t : trust' = [trust EXCEPT ![c] = t] /\ GoodReport(c, t)
  BY ReportsWritten
<1>5. ASSUME NEW c \in Campaigns, summary'[c] # None
      PROVE  GoodSummary(c, summary'[c])
  BY <1>1, <1>2, <1>3, <1>5
<1>6. ASSUME NEW c \in Campaigns, trust'[c] # None
      PROVE  GoodReport(c, trust'[c])
  BY <1>1, <1>2, <1>4, <1>6
<1>7. SummariesFinal'
  <2> SUFFICES ASSUME NEW c \in Campaigns, summary'[c] # None
               PROVE  SummaryFinal(c, summary[c])'
    BY DEF SummariesFinal
  <2>1. GoodSummary(c, summary'[c])
    BY <1>5
  <2> QED BY <2>1, GatheredStays DEF GoodSummary, SummaryFinal
<1>8. TrustFinal'
  <2> SUFFICES ASSUME NEW c \in Campaigns, trust'[c] # None, trust'[c].status = "completed"
               PROVE  (Settled(c) /\ trust[c].of = Evidence(c) /\ trust[c].records = Evidence(c))'
    BY DEF TrustFinal
  <2>1. GoodReport(c, trust'[c])
    BY <1>6
  <2> QED BY <2>1, GatheredStays DEF GoodReport
<1>9. NothingBefore'
  BY <1>5, <1>6, CampaignsStay DEF NothingBefore, GoodSummary, GoodReport
<1>10. summary' = [c \in Campaigns |-> summary'[c]] /\ trust' = [c \in Campaigns |-> trust'[c]]
  BY <1>1, <1>3, <1>4
<1> QED BY <1>5, <1>6, <1>7, <1>8, <1>9, <1>10 DEF GoodSummary, GoodReport

-----------------------------------------------------------------------------
(* The reviewers                                                           *)

\* A reviewer that is at work on a campaign, and what it holds
HandFits(at, held) ==
  /\ at \in ReviewerRecord
  /\ at.steps # <<>> => at.campaign \in Campaigns /\ Exists(at.campaign)
  /\ at.steps = <<>> => held = None
  /\ held # None => HeldGood(at.campaign, Head(at.steps), held)

\* Steps that are left after the first are steps.
LEMMA StepsLeft ==
  ASSUME NEW S, NEW steps \in Seq(S), steps # <<>>
  PROVE  /\ Len(steps) \in Nat \ {0}
         /\ Len(steps) # 1 => Tail(steps) \in Seq(S) /\ Tail(steps) # <<>>
<1>1. Len(steps) \in Nat \ {0}
  OBVIOUS
<1>2. Tail(steps) \in Seq(S) /\ Len(Tail(steps)) = Len(steps) - 1
  OBVIOUS
<1>3. Len(steps) # 1 => Len(Tail(steps)) # 0
  BY <1>1, <1>2
<1>4. Len(<<>>) = 0
  OBVIOUS
<1>5. Len(steps) # 1 => Tail(steps) # <<>>
  BY ONLY <1>3, <1>4
<1> QED BY ONLY <1>1, <1>2, <1>5

\* A reviewer whose step has a next part is at that part, of the same campaign.
LEMMA TurnsTo ==
  ASSUME TypeOK, NEW p \in Reviewers, review[p].steps # <<>>, NEW part \in Steps, Turn(p, part)
  PROVE  \E at \in ReviewerRecord :
           /\ review' = [review EXCEPT ![p] = at]
           /\ at.steps # <<>> /\ Head(at.steps) = part /\ at.campaign = review[p].campaign
<1> DEFINE steps == [review[p].steps EXCEPT ![1] = part]
           at == [review[p] EXCEPT !.steps = steps]
<1>1. review[p] \in ReviewerRecord /\ review[p].steps \in Seq(Steps)
  BY DEF TypeOK, ReviewerRecord
<1>2. steps \in Seq(Steps) /\ steps # <<>> /\ Head(steps) = part
  BY <1>1
<1>3. review' = [review EXCEPT ![p] = at]
  BY DEF Turn
<1> HIDE DEF steps
<1>4. at \in ReviewerRecord /\ at.steps = steps /\ at.campaign = review[p].campaign
  BY <1>1, <1>2 DEF ReviewerRecord
<1> HIDE DEF at
<1> QED BY <1>2, <1>3, <1>4

\* A reviewer whose step is over goes on with empty hands.
LEMMA GoesOnFits ==
  ASSUME ReviewInv, NEW p \in Reviewers, review[p].steps # <<>>, GoOn(p)
  PROVE  \E at : review' = [review EXCEPT ![p] = at] /\ HandFits(at, None)
<1> DEFINE left == [review[p] EXCEPT !.steps = Tail(review[p].steps)]
           at == IF Len(review[p].steps) = 1 THEN ReviewerIdle ELSE left
<1>1. review[p] \in ReviewerRecord /\ review[p].campaign \in Campaigns /\ Exists(review[p].campaign)
  BY DEF ReviewInv, TypeOK, HandsFinal
<1>2. review[p].steps \in Seq(Steps)
  BY <1>1 DEF ReviewerRecord
<1>3. ReviewerIdle \in ReviewerRecord /\ ReviewerIdle.steps = <<>>
  BY DEF ReviewerIdle, ReviewerRecord
<1>4. Len(review[p].steps) # 1 =>
        left \in ReviewerRecord /\ left.steps # <<>> /\ left.campaign = review[p].campaign
  BY <1>1, <1>2, StepsLeft DEF ReviewerRecord
<1> HIDE DEF left
<1>5. HandFits(at, None)
  BY <1>1, <1>3, <1>4 DEF HandFits
<1>6. review' = [review EXCEPT ![p] = at]
  BY Zenon DEF GoOn, left
<1> QED BY <1>5, <1>6

\* Each step is that of one reviewer, or of none, and leaves it in order.
LEMMA ReviewersStep ==
  ASSUME ReviewInv, Next
  PROVE  \/ UNCHANGED <<review, hand>>
         \/ \E p \in Reviewers : \E at, held :
              /\ review' = [review EXCEPT ![p] = at] /\ hand' = [hand EXCEPT ![p] = held]
              /\ HandFits(at, held)
<1> DEFINE Moves(p) == \E at, held :
              /\ review' = [review EXCEPT ![p] = at] /\ hand' = [hand EXCEPT ![p] = held]
              /\ HandFits(at, held)
<1>1. ASSUME NEW c \in Campaigns, RunnerNext(c) \/ Kill(c)
      PROVE  UNCHANGED <<review, hand>>
  BY <1>1 DEF RunnerNext, Start, Resume, SkipRound, OpenRound, RunRaises, WriteRecords, FinishRun,
     SummarizeOwn, Close, OnlyRunner, Kill
<1>2. ASSUME NEW p \in Reviewers
      PROVE  /\ review[p] \in ReviewerRecord
             /\ review[p].steps # <<>> =>
                  review[p].campaign \in Campaigns /\ Exists(review[p].campaign)
             /\ review[p].steps = <<>> => hand[p] = None
             /\ review = [review EXCEPT ![p] = review[p]]
             /\ hand = [hand EXCEPT ![p] = hand[p]]
  <2>1. review \in [Reviewers -> ReviewerRecord] /\ hand = [q \in Reviewers |-> hand[q]]
    BY DEF ReviewInv, TypeOK
  <2> QED BY <2>1 DEF ReviewInv, HandsFinal
<1>3. ASSUME NEW p \in Reviewers, NEW c \in Campaigns, NEW command \in DOMAIN Commands,
             Begin(p, c, command)
      PROVE  Moves(p)
  <2> DEFINE steps == Commands[command].steps
             at == [steps |-> steps, compares |-> Commands[command].compares, campaign |-> c]
  <2>1. /\ steps \in Seq(Steps) /\ steps # <<>>
        /\ Commands[command].compares \in BOOLEAN
    <3>0. "gather" \in Steps /\ "report" \in Steps /\ "pack" \in Steps
      BY DEF Steps
    <3>1. CASE command = "authenticity"
      <4>1. steps = <<"gather", "report">> /\ Commands[command].compares = TRUE
        BY <3>1 DEF Commands
      <4>2. <<"gather", "report">> \in Seq(Steps) /\ <<"gather", "report">> # <<>>
        BY <3>0
      <4> QED BY <4>1, <4>2
    <3>2. CASE command = "campaign_export"
      <4>1. steps = <<"gather", "report", "pack">> /\ Commands[command].compares = FALSE
        BY <3>2 DEF Commands
      <4>2. <<"gather", "report", "pack">> \in Seq(Steps) /\ <<"gather", "report", "pack">> # <<>>
        BY <3>0
      <4> QED BY <4>1, <4>2
    <3>3. CASE command = "authenticity_export"
      <4>1. steps = <<"report", "pack">> /\ Commands[command].compares = TRUE
        BY <3>3 DEF Commands
      <4>2. <<"report", "pack">> \in Seq(Steps) /\ <<"report", "pack">> # <<>>
        BY <3>0
      <4> QED BY <4>1, <4>2
    <3>4. CASE command = "fingerprint"
      <4>1. steps = <<"report">> /\ Commands[command].compares = FALSE
        BY <3>4 DEF Commands
      <4>2. <<"report">> \in Seq(Steps) /\ <<"report">> # <<>>
        BY <3>0
      <4> QED BY <4>1, <4>2
    <3>5. CASE command = "status"
      <4>1. steps = <<"gather">> /\ Commands[command].compares = FALSE
        BY <3>5 DEF Commands
      <4>2. <<"gather">> \in Seq(Steps) /\ <<"gather">> # <<>>
        BY <3>0
      <4> QED BY <4>1, <4>2
    <3>6. command \in {"authenticity", "campaign_export", "authenticity_export", "fingerprint",
                     "status"}
      BY DEF Commands
    <3> QED BY <3>1, <3>2, <3>3, <3>4, <3>5, <3>6
  <2>2. at \in ReviewerRecord
    BY <2>1 DEF ReviewerRecord
  <2>3. hand[p] = None /\ Exists(c)
    BY <1>2, <1>3 DEF Begin, ReviewerIdle
  <2>4. HandFits(at, hand[p])
    BY <2>1, <2>2, <2>3 DEF HandFits
  <2>5. review' = [review EXCEPT ![p] = at] /\ hand' = [hand EXCEPT ![p] = hand[p]]
    BY <1>2, <1>3 DEF Begin
  <2> QED BY <2>4, <2>5
<1>4. ASSUME NEW p \in Reviewers, Gather(p)
      PROVE  Moves(p)
  <2> DEFINE c == review[p].campaign
  <2>1. review[p].steps # <<>> /\ Head(review[p].steps) = "gather"
    BY <1>4 DEF Gather, At
  <2>2. GoodSummary(c, Summarize(c))
    BY <1>2, <2>1, SummarizedIsFinal DEF GoodSummary
  <2>3. HandFits(review[p], Summarize(c))
    BY <1>2, <2>1, <2>2 DEF HandFits, HeldGood
  <2>4. review' = [review EXCEPT ![p] = review[p]] /\ hand' = [hand EXCEPT ![p] = Summarize(c)]
    BY <1>2, <1>4 DEF Gather
  <2> QED BY <2>3, <2>4
<1>5. ASSUME NEW p \in Reviewers, NEW part \in Steps, NEW held,
             review[p].steps # <<>>, Turn(p, part), hand' = [hand EXCEPT ![p] = held],
             held # None => HeldGood(review[p].campaign, part, held)
      PROVE  Moves(p)
  <2>1. PICK at \in ReviewerRecord :
          /\ review' = [review EXCEPT ![p] = at]
          /\ at.steps # <<>> /\ Head(at.steps) = part /\ at.campaign = review[p].campaign
    BY <1>5, TurnsTo DEF ReviewInv
  <2>2. HandFits(at, held)
    BY <1>2, <1>5, <2>1 DEF HandFits
  <2> QED BY <1>5, <2>1, <2>2
<1>6. ASSUME NEW p \in Reviewers, LoadSummary(p)
      PROVE  Moves(p)
  <2> DEFINE c == review[p].campaign
  <2>1. review[p].steps # <<>> /\ summary[c] # None
    BY <1>6 DEF LoadSummary, At
  <2>2. HeldGood(c, "read", summary[c])
    BY <1>2, <2>1, FoundIsGood DEF HeldGood
  <2>3. "read" \in Steps /\ Turn(p, "read") /\ hand' = [hand EXCEPT ![p] = summary[c]]
    BY <1>6 DEF LoadSummary, Steps
  <2> QED BY <1>5, <2>1, <2>2, <2>3
<1>7. ASSUME NEW p \in Reviewers, MakeSummary(p)
      PROVE  Moves(p)
  <2> DEFINE c == review[p].campaign
  <2>1. review[p].steps # <<>> /\ Head(review[p].steps) = "report"
    BY <1>7 DEF MakeSummary, At
  <2>2. GoodSummary(c, Summarize(c))
    BY <1>2, <2>1, SummarizedIsFinal DEF GoodSummary
  <2>3. HandFits(review[p], Summarize(c))
    BY <1>2, <2>1, <2>2 DEF HandFits, HeldGood
  <2>4. review' = [review EXCEPT ![p] = review[p]] /\ hand' = [hand EXCEPT ![p] = Summarize(c)]
    BY <1>2, <1>7 DEF MakeSummary
  <2> QED BY <2>3, <2>4
<1>8. ASSUME NEW p \in Reviewers, SaveSummary(p)
      PROVE  Moves(p)
  <2>1. At(p, "report") /\ review[p].steps # <<>>
    BY <1>8 DEF SaveSummary, At
  <2>2. hand[p] # None => HeldGood(review[p].campaign, "read", hand[p])
    BY <2>1, HandIsGood DEF HeldGood
  <2>3. "read" \in Steps /\ Turn(p, "read") /\ hand' = [hand EXCEPT ![p] = hand[p]]
    BY <1>2, <1>8 DEF SaveSummary, Steps
  <2> QED BY <1>5, <2>1, <2>2, <2>3
<1>9. ASSUME NEW p \in Reviewers, ReadRecords(p)
      PROVE  Moves(p)
  <2> DEFINE c == review[p].campaign
             held == [summary |-> hand[p], records |-> Evidence(c)]
  <2>1. At(p, "read") /\ hand[p] # None /\ review[p].steps # <<>>
    BY <1>9 DEF ReadRecords, At
  <2>2. GoodSummary(c, hand[p])
    BY <2>1, HandIsGood DEF HeldGood
  <2>3. HeldGood(c, "compare", held)
    BY <2>2 DEF HeldGood
  <2>4. "compare" \in Steps /\ Turn(p, "compare") /\ hand' = [hand EXCEPT ![p] = held]
    BY <1>9 DEF ReadRecords, Steps
  <2> HIDE DEF held
  <2> QED BY <1>5, <2>1, <2>3, <2>4
<1>10. ASSUME NEW p \in Reviewers, NEW b, Compare(p, b)
       PROVE  Moves(p)
  <2> DEFINE c == review[p].campaign
             s == hand[p].summary
             t == Report(c, s, hand[p].records, SummaryOf(b))
  <2>1. At(p, "compare") /\ hand[p] # None /\ review[p].steps # <<>>
    BY <1>10 DEF Compare, At
  <2>2. GoodSummary(c, s) /\ (s.status = "completed" => hand[p].records = Evidence(c))
    BY <2>1, HandIsGood DEF HeldGood
  <2>3. /\ Published(t) /\ t.status = s.status /\ t.of = s.of /\ t.records = hand[p].records
    BY <2>2, ReportRepeats DEF GoodSummary
  <2>4. "write" \in Steps /\ Turn(p, "write") /\ hand' = [hand EXCEPT ![p] = t]
    BY <1>10 DEF Compare, Steps
  <2> HIDE DEF c, s, t
  <2>5. GoodReport(c, t)
    BY <2>2, <2>3 DEF GoodReport, GoodSummary, SummaryFinal
  <2>6. HeldGood(c, "write", t)
    BY <2>5 DEF HeldGood
  <2>7. HeldGood(review[p].campaign, "write", t)
    BY <2>6 DEF c
  <2> QED BY <1>5, <2>1, <2>4, <2>7
<1>11. ASSUME NEW p \in Reviewers, LoadCampaign(p)
       PROVE  Moves(p)
  <2> DEFINE c == review[p].campaign
  <2>1. review[p].steps # <<>> /\ Head(review[p].steps) = "pack"
    BY <1>11 DEF LoadCampaign, At
  <2>2. GoodDoc(c, doc[c])
    BY <1>2, <2>1 DEF GoodDoc, ReviewInv, TypeOK, DocFinal, Exists
  <2>3. HandFits(review[p], doc[c])
    BY <1>2, <2>1, <2>2 DEF HandFits, HeldGood
  <2>4. review' = [review EXCEPT ![p] = review[p]] /\ hand' = [hand EXCEPT ![p] = doc[c]]
    BY <1>2, <1>11 DEF LoadCampaign
  <2> QED BY <2>3, <2>4
<1>12. ASSUME NEW p \in Reviewers, WriteSummary(p) \/ WriteBack(p) \/ WriteReport(p)
       PROVE  Moves(p)
  <2>1. review[p].steps # <<>> /\ GoOn(p) /\ hand' = [hand EXCEPT ![p] = None]
    BY <1>12 DEF WriteSummary, WriteBack, WriteReport, At
  <2> QED BY <2>1, GoesOnFits
<1> QED BY <1>1, <1>3, <1>4, <1>6, <1>7, <1>8, <1>9, <1>10, <1>11, <1>12 DEF Next, ReviewNext

\* What is held of a campaign stays good.
LEMMA HeldStays ==
  ASSUME ReviewInv, Next, NEW c \in Campaigns, Exists(c), NEW step, NEW held,
         HeldGood(c, step, held)
  PROVE  HeldGood(c, step, held)'
<1>1. /\ Exists(c)' /\ doc'[c].live = doc[c].live
      /\ Settled(c) => Settled(c)' /\ Evidence(c)' = Evidence(c)
  BY GatheredStays
<1>2. step = "pack" => GoodDoc(c, held)'
  BY <1>1 DEF HeldGood, GoodDoc
<1>3. \A s : GoodSummary(c, s) => GoodSummary(c, s)'
  BY <1>1 DEF GoodSummary, SummaryFinal
<1>4. step = "write" => GoodReport(c, held)'
  BY <1>1 DEF HeldGood, GoodReport
<1>5. step \in {"gather", "report", "read"} => GoodSummary(c, held)'
  BY <1>3 DEF HeldGood
<1>6. step = "compare" => /\ GoodSummary(c, held.summary)'
                          /\ held.summary.status = "completed" => held.records = Evidence(c)'
  BY <1>1, <1>3 DEF HeldGood, GoodSummary, SummaryFinal
<1> QED BY <1>2, <1>4, <1>5, <1>6 DEF HeldGood

\* What the reviewers hold stays good while they hold it.
LEMMA HandsKept ==
  ASSUME ReviewInv, Next
  PROVE  /\ HandsFinal' /\ review' \in [Reviewers -> ReviewerRecord]
         /\ hand' = [p \in Reviewers |-> hand'[p]]
         /\ \A p \in Reviewers : hand'[p] # None =>
              review'[p].steps # <<>> /\ HoldsAt(Head(review'[p].steps), hand'[p])
<1>1. review \in [Reviewers -> ReviewerRecord] /\ hand = [p \in Reviewers |-> hand[p]]
  BY DEF ReviewInv, TypeOK
<1>2. ASSUME NEW p \in Reviewers
      PROVE  HandFits(review[p], hand[p])
  BY <1>1 DEF ReviewInv, HandsFinal, HandFits
<1>3. \/ UNCHANGED <<review, hand>>
      \/ \E p \in Reviewers : \E at, held :
           /\ review' = [review EXCEPT ![p] = at] /\ hand' = [hand EXCEPT ![p] = held]
           /\ HandFits(at, held)
  BY ReviewersStep
<1>4. ASSUME NEW p \in Reviewers
      PROVE  HandFits(review'[p], hand'[p])
  BY <1>1, <1>2, <1>3
<1>5. review' \in [Reviewers -> ReviewerRecord] /\ hand' = [p \in Reviewers |-> hand'[p]]
  BY <1>1, <1>3 DEF HandFits
<1>6. ASSUME NEW p \in Reviewers, hand'[p] # None
      PROVE  review'[p].steps # <<>> /\ HoldsAt(Head(review'[p].steps), hand'[p])
  BY <1>4, <1>6 DEF HandFits, HeldGood, GoodDoc, GoodSummary, GoodReport, HoldsAt
<1>7. ASSUME NEW p \in Reviewers, NEW c, c = review'[p].campaign, review'[p].steps # <<>>,
             NEW step, step = Head(review'[p].steps), NEW held, held = hand'[p]
      PROVE  c \in Campaigns /\ Exists(c)' /\ (held # None => HeldGood(c, step, held)')
  <2>1. /\ c \in Campaigns /\ Exists(c) /\ (held # None => HeldGood(c, step, held))
    BY <1>4, <1>7 DEF HandFits
  <2> QED BY <2>1, HeldStays, CampaignsStay
<1>8. \A p \in Reviewers : review'[p].steps = <<>> => hand'[p] = None
  BY <1>4 DEF HandFits
<1>9. HandsFinal'
  BY <1>7, <1>8 DEF HandsFinal
<1> QED BY <1>5, <1>6, <1>9

-----------------------------------------------------------------------------
(* The invariant and the theorems                                          *)

\* The bounds used are counted.
LEMMA UsedCounted == ReviewInv /\ Next => used' \in [invocations : Nat, commands : Nat, kills : Nat]
<1> SUFFICES ASSUME ReviewInv, Next
             PROVE  used' \in [invocations : Nat, commands : Nat, kills : Nat]
  OBVIOUS
<1>1. used \in [invocations : Nat, commands : Nat, kills : Nat]
  BY DEF ReviewInv, TypeOK
<1>2. \/ UNCHANGED used \/ used' = [used EXCEPT !.invocations = @ + 1]
      \/ used' = [used EXCEPT !.commands = @ + 1] \/ used' = [used EXCEPT !.kills = @ + 1]
  BY DEF Next, RunnerNext, Start, Resume, Invoke, SkipRound, OpenRound, RunRaises, WriteRecords,
     FinishRun, SummarizeOwn, Close, OnlyRunner, Kill, ReviewNext, Begin, Gather, WriteSummary,
     LoadSummary, MakeSummary, SaveSummary, ReadRecords, Compare, WriteReport, LoadCampaign,
     WriteBack
<1> QED BY <1>1, <1>2

\* The invariant holds at the start.
LEMMA InitReviewInv == Init => ReviewInv
<1> SUFFICES ASSUME Init
             PROVE  ReviewInv
  OBVIOUS
<1>1. TypeOK
  <2>1. RunnerTypes
    <3>1. RunnerIdle \in RunnerRecord /\ NoRun \in RunRecord
      BY DEF RunnerIdle, RunnerRecord, NoRun, RunRecord
    <3> QED BY <3>1 DEF Init, RunnerTypes
  <2>2. ReviewerIdle \in ReviewerRecord
    BY DEF ReviewerIdle, ReviewerRecord
  <2>3. doc \in [Campaigns -> CampaignRecord] /\ review \in [Reviewers -> ReviewerRecord]
    BY <2>2 DEF Init, CampaignRecord
  <2>4. used \in [invocations : Nat, commands : Nat, kills : Nat]
    BY DEF Init
  <2>5. /\ summary = [c \in Campaigns |-> summary[c]] /\ trust = [c \in Campaigns |-> trust[c]]
        /\ hand = [p \in Reviewers |-> hand[p]]
        /\ \A c \in Campaigns : summary[c] = None /\ trust[c] = None
        /\ \A p \in Reviewers : hand[p] = None
    BY DEF Init
  <2> QED BY <2>1, <2>3, <2>4, <2>5 DEF TypeOK
<1>2. RunnersInStep /\ NothingBefore
  BY DEF Init, RunnersInStep, InStep, InRun, NothingBefore, RunnerIdle, NoRun, Exists
<1>3. DocFinal /\ SummariesFinal /\ TrustFinal
  BY DEF Init, DocFinal, SummariesFinal, TrustFinal
<1>4. HandsFinal
  BY DEF Init, HandsFinal, ReviewerIdle
<1> QED BY <1>1, <1>2, <1>3, <1>4 DEF ReviewInv

\* The invariant holds in every reachable state.
LEMMA ReviewInvariance == Spec => []ReviewInv
<1>1. ASSUME ReviewInv, Next
      PROVE  ReviewInv'
  <2>1. RunnersInStep' /\ RunnerTypes'
    BY <1>1, RunnersKept
  <2>2. DocFinal' /\ doc' \in [Campaigns -> CampaignRecord]
    BY <1>1, DocsKept
  <2>3. /\ SummariesFinal' /\ TrustFinal' /\ NothingBefore'
        /\ summary' = [c \in Campaigns |-> summary'[c]] /\ trust' = [c \in Campaigns |-> trust'[c]]
        /\ \A c \in Campaigns : /\ summary'[c] # None => Published(summary'[c])
                                /\ trust'[c] # None => Published(trust'[c])
    BY <1>1, PublishedKept
  <2>4. /\ HandsFinal' /\ review' \in [Reviewers -> ReviewerRecord]
        /\ hand' = [p \in Reviewers |-> hand'[p]]
        /\ \A p \in Reviewers : hand'[p] # None =>
             review'[p].steps # <<>> /\ HoldsAt(Head(review'[p].steps), hand'[p])
    BY <1>1, HandsKept
  <2>5. used' \in [invocations : Nat, commands : Nat, kills : Nat]
    BY <1>1, UsedCounted
  <2>6. TypeOK'
    BY <2>1, <2>2, <2>3, <2>4, <2>5 DEF TypeOK
  <2> QED BY <2>1, <2>2, <2>3, <2>4, <2>6 DEF ReviewInv
<1>2. ASSUME ReviewInv, UNCHANGED vars
      PROVE  ReviewInv'
  <2>1. UNCHANGED <<doc, opened, runs, summary, trust, runner, review, hand, used>>
    BY <1>2 DEF vars
  <2>2. \A c \in Campaigns : /\ Exists(c)' = Exists(c) /\ Settled(c)' = Settled(c)
                             /\ Evidence(c)' = Evidence(c)
    BY <2>1 DEF Exists, Settled, Evidence
  <2>3. TypeOK'
    BY <1>2, <2>1 DEF ReviewInv, TypeOK, RunnerTypes
  <2>4. RunnersInStep' /\ NothingBefore'
    BY <1>2, <2>1, <2>2 DEF ReviewInv, RunnersInStep, NothingBefore
  <2>5. DocFinal' /\ SummariesFinal' /\ TrustFinal'
    BY <1>2, <2>1, <2>2 DEF ReviewInv, DocFinal, SummariesFinal, SummaryFinal, TrustFinal
  <2>6. HandsFinal'
    <3>1. HandsFinal
      BY <1>2 DEF ReviewInv
    <3> QED BY <2>1, <2>2, <3>1
      DEF HandsFinal, HeldGood, GoodDoc, GoodSummary, GoodReport, SummaryFinal, Exists
  <2> QED BY <2>3, <2>4, <2>5, <2>6 DEF ReviewInv
<1> QED BY <1>1, <1>2, InitReviewInv, PTL DEF Spec

\* Every variable of CampaignReview keeps its type, for any number of campaigns
\* and reviewers.
THEOREM ReviewTypeCorrect == Spec => []TypeOK
<1>1. ReviewInv => TypeOK
  BY DEF ReviewInv
<1> QED BY <1>1, ReviewInvariance, PTL

\* No records come of no runs.
LEMMA NothingOfNothing ==
  ASSUME NEW yields, DOMAIN yields = {}
  PROVE  Size(RecordsOf(yields)) = 0
<1>1. DOMAIN RecordsOf(yields) = {}
  BY DEF RecordsOf
<1> QED BY <1>1, FS_EmptySet DEF Size

\* A leaderboard has settled campaigns only, that it knows by their last runs.
LEMMA RankedAreFinal ==
  ASSUME ReviewInv, NEW live, NEW c \in Ranked(live, 1)
  PROVE  /\ c \in Campaigns /\ Settled(c) /\ DOMAIN Evidence(c) # {}
         /\ summary[c].of = Evidence(c) /\ summary[c].live = doc[c].live
<1>1. c \in Campaigns /\ summary[c] # None /\ summary[c].status = "completed"
  BY DEF Ranked
<1>2. Settled(c) /\ summary[c].of = Evidence(c) /\ summary[c].live = doc[c].live
  BY <1>1 DEF ReviewInv, SummariesFinal, SummaryFinal
<1>3. Size(RecordsOf(summary[c].of)) >= 1
  BY DEF Ranked
<1>4. DOMAIN Evidence(c) # {}
  <2> SUFFICES ASSUME DOMAIN Evidence(c) = {}
               PROVE  FALSE
    OBVIOUS
  <2>1. Size(RecordsOf(summary[c].of)) = 0
    BY <1>2, NothingOfNothing
  <2> QED BY <1>3, <2>1
<1> QED BY <1>1, <1>2, <1>4

\* Whatever a summary or a trust report publishes as completed is final, and a
\* leaderboard ranks by it (PublishedFinal): the invariant speaks of one campaign
\* at a time, and two of a board are compared by what it says of each.
THEOREM WhatIsPublishedIsFinal == Spec => []PublishedFinal
<1>1. ASSUME ReviewInv
      PROVE  PublishedFinal
  <2>1. ASSUME NEW c \in Campaigns
        PROVE  /\ summary[c] # None /\ summary[c].status = "completed" =>
                    Settled(c) /\ summary[c].of = Evidence(c)
               /\ trust[c] # None /\ trust[c].status = "completed" =>
                    Settled(c) /\ trust[c].of = Evidence(c) /\ trust[c].records = Evidence(c)
    BY <1>1 DEF ReviewInv, SummariesFinal, SummaryFinal, TrustFinal
  <2>2. ASSUME NEW live \in {"live", "dry", "any"}, NEW board \in Boards(live, 1)
        PROVE  /\ \A c \in board : Settled(c) /\ DOMAIN Evidence(c) # {}
               /\ \A c \in board : \A d \in board \ {c} :
                    /\ Benchmark[c] = Benchmark[d] /\ doc[c].live = doc[d].live
                    /\ Above(c, d) = FinalAbove(c, d)
    <3>1. PICK e \in Ranked(live, 1) : board = {c \in Ranked(live, 1) : Key(c) = Key(e)}
      BY DEF Boards
    <3>2. ASSUME NEW c \in board
          PROVE  /\ Settled(c) /\ DOMAIN Evidence(c) # {} /\ summary[c].of = Evidence(c)
                 /\ Benchmark[c] = Benchmark[e] /\ doc[c].live = summary[e].live
      <4>1. c \in Ranked(live, 1) /\ Key(c) = Key(e)
        BY <3>1
      <4>2. Benchmark[c] = Benchmark[e] /\ summary[c].live = summary[e].live
        BY <4>1 DEF Key
      <4> QED BY <1>1, <4>1, <4>2, RankedAreFinal
    <3>3. ASSUME NEW c \in board, NEW d \in board
          PROVE  Above(c, d) = FinalAbove(c, d)
      BY <3>2 DEF Above, FinalAbove
    <3> QED BY <3>2, <3>3
  <2> QED BY <2>1, <2>2 DEF PublishedFinal
<1> QED BY <1>1, ReviewInvariance, PTL

-----------------------------------------------------------------------------
(* Sums and means of rates                                                 *)

\* Parts of a whole that is not zero
Fraction == Nat \X (Nat \ {0})

\* s is at most p and k more.
AtMost(s, p, k) == s[1] * p[2] <= (p[1] + k * p[2]) * s[2]

\* What is larger stays larger, times a number.
LEMMA LargerTimes ==
  ASSUME NEW a \in Int, NEW b \in Int, NEW c \in Nat, a <= b
  PROVE  a * c <= b * c
<1>1. (b - a) * c >= 0
  OBVIOUS
<1>2. (b - a) * c = b * c - a * c
  OBVIOUS
<1>3. a * c \in Int /\ b * c \in Int
  OBVIOUS
<1> QED BY ONLY <1>1, <1>2, <1>3

\* What is larger times a number was larger.
LEMMA SmallerParts ==
  ASSUME NEW a \in Int, NEW b \in Int, NEW c \in Nat, c > 0, a * c <= b * c
  PROVE  a <= b
<1> SUFFICES ASSUME b + 1 <= a
             PROVE  FALSE
  OBVIOUS
<1>1. (b + 1) * c <= a * c
  BY LargerTimes
<1>2. (b + 1) * c = b * c + c
  OBVIOUS
<1>3. a * c \in Int /\ b * c \in Int
  OBVIOUS
<1> QED BY ONLY <1>1, <1>2, <1>3, c > 0, c \in Nat, a * c <= b * c

\* A sum of rates is a fraction, whatever is missing.
LEMMA AddStays ==
  ASSUME NEW s \in Fraction, NEW q \in Nat \X Nat
  PROVE  Add(s, q) \in Fraction
<1>1. CASE Missing(q)
  BY <1>1 DEF Add
<1>2. CASE ~Missing(q)
  <2>1. /\ s[1] \in Nat /\ s[2] \in Nat /\ s[2] > 0
        /\ q[1] \in Nat /\ q[2] \in Nat /\ q[2] > 0
    BY <1>2 DEF Fraction, Missing
  <2>2. s[1] * q[2] \in Nat /\ q[1] * s[2] \in Nat /\ s[2] * q[2] \in Nat /\ s[2] * q[2] > 0
    BY <2>1
  <2>3. Add(s, q) = <<s[1] * q[2] + q[1] * s[2], s[2] * q[2]>>
    BY <1>2 DEF Add, Plus
  <2> QED BY <2>2, <2>3 DEF Fraction
<1> QED BY <1>1, <1>2

\* What a rate counts in a mean
One(q) == IF Missing(q) THEN 0 ELSE 1

\* What is at most p and k is at most p and one more, with a part of one added.
LEMMA MoreAtMost ==
  ASSUME NEW s1 \in Nat, NEW s2 \in Nat, NEW p1 \in Nat, NEW p2 \in Nat, NEW k \in Nat,
         NEW q1 \in Nat, NEW q2 \in Nat, q1 <= q2,
         s1 * p2 <= (p1 + k * p2) * s2
  PROVE  (s1 * q2 + q1 * s2) * p2 <= (p1 + (k + 1) * p2) * (s2 * q2)
<1> DEFINE a == s1 * p2
           b == (p1 + k * p2) * s2
           c == s2 * p2
<1>1. a \in Nat /\ b \in Nat /\ c \in Nat
  OBVIOUS
<1>2. (s1 * q2 + q1 * s2) * p2 = a * q2 + q1 * c
  OBVIOUS
<1>3. (p1 + (k + 1) * p2) * (s2 * q2) = b * q2 + q2 * c
  OBVIOUS
<1>4. a * q2 <= b * q2
  <2>1. a <= b
    OBVIOUS
  <2> HIDE DEF a, b
  <2> QED BY <1>1, <2>1, LargerTimes
<1>5. q1 * c <= q2 * c
  <2> HIDE DEF c
  <2> QED BY <1>1, LargerTimes
<1> HIDE DEF a, b, c
<1>6. a * q2 \in Int /\ b * q2 \in Int /\ q1 * c \in Int /\ q2 * c \in Int
  BY <1>1
<1> QED BY ONLY <1>2, <1>3, <1>4, <1>5, <1>6

\* A rate that is added brings one at most, and one that is missing nothing.
LEMMA AddAtMost ==
  ASSUME NEW s \in Fraction, NEW p \in Fraction, NEW k \in Nat, AtMost(s, p, k),
         NEW q \in Nat \X Nat, q[1] <= q[2]
  PROVE  AtMost(Add(s, q), p, k + One(q))
<1>1. CASE Missing(q)
  <2>1. k + One(q) = k
    BY <1>1 DEF One
  <2> QED BY <1>1, <2>1 DEF Add
<1>2. CASE ~Missing(q)
  <2>1. /\ s[1] \in Nat /\ s[2] \in Nat /\ p[1] \in Nat /\ p[2] \in Nat
        /\ q[1] \in Nat /\ q[2] \in Nat
    BY DEF Fraction
  <2>2. s[1] * p[2] <= (p[1] + k * p[2]) * s[2]
    BY DEF AtMost
  <2>3. (s[1] * q[2] + q[1] * s[2]) * p[2] <= (p[1] + (k + 1) * p[2]) * (s[2] * q[2])
    BY <2>1, <2>2, MoreAtMost
  <2>4. Add(s, q) = <<s[1] * q[2] + q[1] * s[2], s[2] * q[2]>> /\ One(q) = 1
    BY <1>2 DEF Add, Plus, One
  <2> QED BY <2>3, <2>4 DEF AtMost
<1> QED BY <1>1, <1>2

\* What is at most k is at most p and k when p is added.
LEMMA AddTaken ==
  ASSUME NEW s \in Fraction, NEW p \in Fraction, NEW k \in Nat, AtMost(s, Zero, k)
  PROVE  AtMost(Add(s, p), p, k)
<1>1. /\ s[1] \in Nat /\ s[2] \in Nat /\ p[1] \in Nat /\ p[2] \in Nat /\ p[2] > 0
  BY DEF Fraction
<1>2. Add(s, p) = <<s[1] * p[2] + p[1] * s[2], s[2] * p[2]>>
  BY <1>1 DEF Add, Plus, Missing
<1>3. s[1] <= k * s[2]
  <2>1. s[1] * 1 <= (0 + k * 1) * s[2]
    BY DEF AtMost, Zero
  <2> QED BY <1>1, <2>1
<1> DEFINE a == s[1]
           b == k * s[2]
           c == p[1] * s[2]
           d == p[2]
<1>4. a \in Nat /\ b \in Nat /\ c \in Nat /\ d \in Nat /\ a <= b
  BY <1>1, <1>3
<1>5. (p[1] + k * d) * (s[2] * d) = (c + b * d) * d
  BY <1>1
<1>6. (a * d + c) * d <= (c + b * d) * d
  <2> HIDE DEF a, b, c, d
  <2>1. a * d <= b * d
    BY <1>4, LargerTimes
  <2>2. a * d \in Int /\ b * d \in Int
    BY <1>4
  <2>3. a * d + c <= c + b * d
    BY <1>4, <2>1, <2>2
  <2> QED BY <1>4, <2>2, <2>3, LargerTimes
<1> QED BY <1>2, <1>5, <1>6 DEF AtMost

\* A full rate that is added brings one.
LEMMA AddAtLeast ==
  ASSUME NEW s \in Fraction, NEW k \in Nat, s[1] >= k * s[2],
         NEW q \in Nat \X Nat, q[1] >= q[2]
  PROVE  Add(s, q)[1] >= (k + One(q)) * Add(s, q)[2]
<1>1. CASE Missing(q)
  <2>1. k + One(q) = k
    BY <1>1 DEF One
  <2> QED BY <1>1, <2>1 DEF Add
<1>2. CASE ~Missing(q)
  <2> DEFINE a == s[1]
             b == s[2]
             x == q[1]
             y == q[2]
  <2>1. a \in Nat /\ b \in Nat /\ x \in Nat /\ y \in Nat /\ a >= k * b /\ x >= y
    BY DEF Fraction
  <2>2. Add(s, q) = <<a * y + x * b, b * y>> /\ One(q) = 1
    BY <1>2 DEF Add, Plus, One
  <2> HIDE DEF a, b, x, y
  <2>3. (k * b) * y <= a * y /\ y * b <= x * b
    BY <2>1, LargerTimes
  <2>4. (k + 1) * (b * y) = (k * b) * y + y * b
    BY <2>1
  <2>5. (k * b) * y \in Int /\ a * y \in Int /\ y * b \in Int /\ x * b \in Int
    BY <2>1
  <2>6. a * y + x * b >= (k + 1) * (b * y)
    BY ONLY <2>3, <2>4, <2>5
  <2> QED BY <2>2, <2>6
<1> QED BY <1>1, <1>2

\* The rates up to a place that are there
KnownUpTo(rates, n) == {i \in 1 .. n : ~Missing(rates[i])}

\* They are counted one by one.
LEMMA KnownCounted ==
  ASSUME NEW rates, NEW n \in Nat
  PROVE  /\ Cardinality(KnownUpTo(rates, 0)) = 0
         /\ Cardinality(KnownUpTo(rates, n)) \in Nat
         /\ Cardinality(KnownUpTo(rates, n + 1))
              = Cardinality(KnownUpTo(rates, n)) + One(rates[n + 1])
<1>1. KnownUpTo(rates, 0) = {}
  BY DEF KnownUpTo
<1>2. IsFiniteSet(KnownUpTo(rates, n))
  <2>1. IsFiniteSet(1 .. n)
    BY FS_Interval
  <2> QED BY <2>1, FS_Subset DEF KnownUpTo
<1>3. Cardinality(KnownUpTo(rates, n)) \in Nat
  BY <1>2, FS_CardinalityType
<1>4. CASE Missing(rates[n + 1])
  <2>1. KnownUpTo(rates, n + 1) = KnownUpTo(rates, n)
    BY <1>4 DEF KnownUpTo
  <2> QED BY <1>1, <1>3, <1>4, <2>1, FS_EmptySet DEF One
<1>5. CASE ~Missing(rates[n + 1])
  <2>1. KnownUpTo(rates, n + 1) = KnownUpTo(rates, n) \cup {n + 1}
    BY <1>5 DEF KnownUpTo
  <2>2. n + 1 \notin KnownUpTo(rates, n)
    BY DEF KnownUpTo
  <2>3. Cardinality(KnownUpTo(rates, n + 1)) = Cardinality(KnownUpTo(rates, n)) + 1
    BY <1>2, <2>1, <2>2, FS_AddElement
  <2>4. One(rates[n + 1]) = 1
    BY <1>5 DEF One
  <2> QED BY <1>1, <1>3, <2>3, <2>4, FS_EmptySet
<1> QED BY <1>4, <1>5

\* Five rates of which none is more than the whole
FiveRates(rates) ==
  \A i \in 1 .. 5 : rates[i] \in Nat \X Nat /\ rates[i][1] <= rates[i][2]

\* Their sum
SumOf(rates) ==
  Add(Add(Add(Add(Add(Zero, rates[1]), rates[2]), rates[3]), rates[4]), rates[5])

\* How many of the first n rates are there besides rate j
Others(rates, j, n) ==
  Cardinality(KnownUpTo(rates, n)) - (IF j <= n THEN 1 ELSE 0)

\* One rate further, the sum is at most rate j, once it is reached, and one for each
\* of the others that are there.
LEMMA StepAtMost ==
  ASSUME NEW rates, NEW n \in Nat, NEW j \in Nat, NEW s \in Fraction,
         rates[n + 1] \in Nat \X Nat, rates[n + 1][1] <= rates[n + 1][2],
         rates[j] \in Fraction,
         Others(rates, j, n) \in Nat,
         AtMost(s, IF j <= n THEN rates[j] ELSE Zero, Others(rates, j, n))
  PROVE  /\ Others(rates, j, n + 1) \in Nat
         /\ Add(s, rates[n + 1]) \in Fraction
         /\ AtMost(Add(s, rates[n + 1]), IF j <= n + 1 THEN rates[j] ELSE Zero,
                   Others(rates, j, n + 1))
<1> DEFINE known == Cardinality(KnownUpTo(rates, n))
<1>1. known \in Nat /\ Cardinality(KnownUpTo(rates, n + 1)) = known + One(rates[n + 1])
  BY KnownCounted
<1>2. Zero \in Fraction
  BY DEF Zero, Fraction
<1>3. Add(s, rates[n + 1]) \in Fraction
  BY AddStays
<1>4. CASE j = n + 1
  <2>1. Others(rates, j, n) = known /\ AtMost(s, Zero, known)
    BY <1>1, <1>4 DEF Others
  <2>2. One(rates[n + 1]) = 1
    BY <1>4 DEF One, Missing, Fraction
  <2>3. Others(rates, j, n + 1) = known
    BY <1>1, <1>4, <2>2 DEF Others
  <2>4. AtMost(Add(s, rates[j]), rates[j], known)
    BY <1>1, <2>1, AddTaken
  <2> QED BY <1>1, <1>3, <1>4, <2>3, <2>4
<1>5. CASE j # n + 1
  <2> DEFINE p == IF j <= n THEN rates[j] ELSE Zero
             k == Others(rates, j, n)
  <2>1. p \in Fraction /\ p = (IF j <= n + 1 THEN rates[j] ELSE Zero)
    BY <1>2, <1>5
  <2>2. Others(rates, j, n + 1) = k + One(rates[n + 1]) /\ One(rates[n + 1]) \in Nat
    <3>1. (j <= n + 1) <=> (j <= n)
      BY <1>5
    <3>2. One(rates[n + 1]) \in Nat
      BY DEF One
    <3> QED BY <1>1, <3>1, <3>2 DEF Others
  <2> HIDE DEF p, k
  <2>3. k \in Nat /\ AtMost(s, p, k)
    BY DEF p, k
  <2>4. AtMost(Add(s, rates[n + 1]), p, k + One(rates[n + 1]))
    BY <2>1, <2>3, AddAtMost
  <2> QED BY <1>3, <2>1, <2>2, <2>3, <2>4
<1> QED BY <1>4, <1>5

\* The sum of five is at most any of them and one for each of the others.
LEMMA SumAtMost ==
  ASSUME NEW rates, FiveRates(rates), NEW j \in 1 .. 5, ~Missing(rates[j])
  PROVE  /\ SumOf(rates) \in Fraction
         /\ Others(rates, j, 5) \in Nat /\ AtMost(SumOf(rates), rates[j], Others(rates, j, 5))
<1>1. rates[j] \in Fraction /\ j \in Nat /\ j >= 1 /\ j <= 5
  BY DEF FiveRates, Missing, Fraction
<1>2. \A i \in 1 .. 5 : rates[i] \in Nat \X Nat /\ rates[i][1] <= rates[i][2]
  BY DEF FiveRates
<1> DEFINE Holds(s, n) ==
             /\ s \in Fraction /\ Others(rates, j, n) \in Nat
             /\ AtMost(s, IF j <= n THEN rates[j] ELSE Zero, Others(rates, j, n))
<1>3. Holds(Zero, 0)
  <2>1. Others(rates, j, 0) = 0
    BY <1>1, KnownCounted DEF Others
  <2>2. AtMost(Zero, Zero, 0)
    BY DEF AtMost, Zero
  <2> QED BY <1>1, <2>1, <2>2 DEF Zero, Fraction
<1>4. ASSUME NEW n \in 0 .. 4, NEW s, Holds(s, n)
      PROVE  Holds(Add(s, rates[n + 1]), n + 1)
  <2>1. n \in Nat /\ n + 1 \in 1 .. 5
    OBVIOUS
  <2>2. rates[n + 1] \in Nat \X Nat /\ rates[n + 1][1] <= rates[n + 1][2]
    BY <1>2, <2>1
  <2> QED BY <1>1, <1>4, <2>1, <2>2, StepAtMost
<1> HIDE DEF Holds
<1> DEFINE s1 == Add(Zero, rates[1])
           s2 == Add(s1, rates[2])
           s3 == Add(s2, rates[3])
           s4 == Add(s3, rates[4])
           s5 == Add(s4, rates[5])
<1>5. Holds(s1, 1)
  BY <1>3, <1>4
<1> HIDE DEF s1
<1>6. Holds(s2, 2)
  BY <1>4, <1>5
<1> HIDE DEF s2
<1>7. Holds(s3, 3)
  BY <1>4, <1>6
<1> HIDE DEF s3
<1>8. Holds(s4, 4)
  BY <1>4, <1>7
<1> HIDE DEF s4
<1>9. Holds(s5, 5)
  BY <1>4, <1>8
<1> QED BY <1>1, <1>9 DEF Holds, SumOf, s1, s2, s3, s4

\* No rate that is there is below a quarter when the mean is not below 85 percent.
LEMMA MeanReached ==
  ASSUME NEW rates, FiveRates(rates), ~Below(Mean(rates), 85),
         NEW j \in 1 .. 5, ~Missing(rates[j])
  PROVE  4 * rates[j][1] >= rates[j][2]
<1> DEFINE s == SumOf(rates)
           c == Cardinality(KnownUpTo(rates, 5))
           x == s[1]
           y == s[2]
           a == rates[j][1]
           b == rates[j][2]
           o == Others(rates, j, 5)
<1>1. s \in Fraction /\ o \in Nat /\ AtMost(s, rates[j], o)
  BY SumAtMost
<1>2. o + 1 = c /\ c \in Nat
  BY <1>1, KnownCounted DEF Others
<1>3. c <= 5
  <2>1. IsFiniteSet(1 .. 5) /\ Cardinality(1 .. 5) = 5
    <3>1. 1 \in Int /\ 5 \in Int
      OBVIOUS
    <3>2. /\ IsFiniteSet(1 .. 5)
          /\ Cardinality(1 .. 5) = IF 1 > 5 THEN 0 ELSE 5 - 1 + 1
      BY <3>1, FS_Interval, Zenon
    <3> QED BY <3>2
  <2>2. KnownUpTo(rates, 5) \subseteq 1 .. 5
    BY DEF KnownUpTo
  <2> QED BY <2>1, <2>2, FS_Subset
<1>4. a \in Nat /\ b \in Nat /\ x \in Nat /\ y \in Nat /\ y > 0
  BY <1>1 DEF FiveRates, Fraction
<1>5. 100 * x >= 85 * (y * c)
  <2>1. Mean(rates) = <<x, y * c>>
    BY DEF Mean, SumOf, KnownUpTo
  <2> HIDE DEF x, y, c
  <2>2. ~(100 * x < 85 * (y * c))
    BY <2>1 DEF Below
  <2> QED BY <1>2, <1>4, <2>2
<1>6. x * b <= (a + o * b) * y
  BY <1>1 DEF AtMost
<1> HIDE DEF s, c, x, y, a, b, o
<1>7. (85 * (y * c)) * b <= (100 * x) * b
  <2>1. 85 * (y * c) \in Int /\ 100 * x \in Int
    BY <1>2, <1>4
  <2> QED BY <1>4, <1>5, <2>1, LargerTimes
<1>8. (100 * x) * b = 100 * (x * b) /\ (85 * (y * c)) * b = (85 * (c * b)) * y
  BY <1>2, <1>4
<1>9. 100 * ((a + o * b) * y) = (100 * (a + o * b)) * y
  BY <1>1, <1>4
<1>10. (85 * (c * b)) * y <= (100 * (a + o * b)) * y
  <2>1. /\ x * b \in Int /\ (a + o * b) * y \in Int
        /\ (85 * (c * b)) * y \in Int /\ (100 * (a + o * b)) * y \in Int
    BY <1>1, <1>2, <1>4
  <2> QED BY ONLY <1>6, <1>7, <1>8, <1>9, <2>1
<1>11. 85 * (c * b) <= 100 * (a + o * b)
  <2>1. 85 * (c * b) \in Int /\ 100 * (a + o * b) \in Int
    BY <1>1, <1>2, <1>4
  <2> QED BY <1>4, <1>10, <2>1, SmallerParts
<1>12. c * b = o * b + b
  BY <1>1, <1>2, <1>4
<1>13. o * b <= 4 * b
  <2>1. o <= 4
    BY <1>1, <1>2, <1>3
  <2> QED BY <1>1, <1>4, <2>1, LargerTimes
<1>14. o * b \in Int
  BY <1>1, <1>4
<1>15. 4 * a >= b
  BY ONLY <1>4, <1>11, <1>12, <1>13, <1>14
<1> QED BY <1>15 DEF a, b

\* The mean of full rates is not below any threshold of a NO-GO.
LEMMA MeanFull ==
  ASSUME NEW rates, \A i \in 1 .. 5 : rates[i] \in Nat \X Nat /\ rates[i][1] >= rates[i][2]
  PROVE  ~Below(Mean(rates), 60)
<1> DEFINE known(n) == Cardinality(KnownUpTo(rates, n))
           Holds(s, n) == s \in Fraction /\ known(n) \in Nat /\ s[1] >= known(n) * s[2]
<1>1. Holds(Zero, 0)
  <2>1. known(0) = 0
    BY KnownCounted
  <2> QED BY <2>1 DEF Zero, Fraction
<1>2. ASSUME NEW n \in 0 .. 4, NEW s, Holds(s, n)
      PROVE  Holds(Add(s, rates[n + 1]), n + 1)
  <2>1. n \in Nat /\ n + 1 \in 1 .. 5
    OBVIOUS
  <2>2. rates[n + 1] \in Nat \X Nat /\ rates[n + 1][1] >= rates[n + 1][2]
    BY <2>1
  <2>3. known(n + 1) = known(n) + One(rates[n + 1]) /\ One(rates[n + 1]) \in Nat
    BY <2>1, KnownCounted DEF One
  <2>4. s \in Fraction /\ known(n) \in Nat /\ s[1] >= known(n) * s[2]
    BY <1>2
  <2> HIDE DEF known
  <2>5. Add(s, rates[n + 1]) \in Fraction
    BY <2>2, <2>4, AddStays
  <2>6. /\ Add(s, rates[n + 1])[1]
             >= (known(n) + One(rates[n + 1])) * Add(s, rates[n + 1])[2]
    BY <2>2, <2>4, AddAtLeast
  <2> QED BY <2>3, <2>4, <2>5, <2>6
<1> HIDE DEF Holds
<1> DEFINE s1 == Add(Zero, rates[1])
           s2 == Add(s1, rates[2])
           s3 == Add(s2, rates[3])
           s4 == Add(s3, rates[4])
           s5 == Add(s4, rates[5])
<1>3. Holds(s1, 1)
  BY <1>1, <1>2
<1> HIDE DEF s1
<1>4. Holds(s2, 2)
  BY <1>2, <1>3
<1> HIDE DEF s2
<1>5. Holds(s3, 3)
  BY <1>2, <1>4
<1> HIDE DEF s3
<1>6. Holds(s4, 4)
  BY <1>2, <1>5
<1> HIDE DEF s4
<1>7. Holds(s5, 5)
  BY <1>2, <1>6
<1>8. Mean(rates) = <<s5[1], s5[2] * known(5)>>
  BY DEF Mean, KnownUpTo, s1, s2, s3, s4
<1> DEFINE x == s5[1]
           y == s5[2] * known(5)
<1>9. x \in Nat /\ y \in Nat /\ x >= y
  <2>1. /\ s5 \in Fraction /\ known(5) \in Nat /\ s5[1] >= known(5) * s5[2]
    BY <1>7 DEF Holds
  <2> HIDE DEF s5, known
  <2>2. s5[1] \in Nat /\ s5[2] \in Nat
    BY <2>1 DEF Fraction
  <2> QED BY <2>1, <2>2
<1> HIDE DEF s5, x, y
<1>10. Mean(rates) = <<x, y>>
  BY <1>8 DEF x, y
<1> QED BY <1>9, <1>10 DEF Below

-----------------------------------------------------------------------------
(* Latencies in ascending order                                            *)

\* The k-th latency: it is one of them, and at least k are no longer.
LEMMA RankReached ==
  ASSUME NEW D, IsFiniteSet(D), NEW latency \in [D -> Nat], NEW k \in Nat,
         k >= 1, k <= Cardinality(D)
  PROVE  /\ AtRank(latency, k) \in Nat
         /\ Cardinality({p \in D : latency[p] <= AtRank(latency, k)}) >= k
         /\ \E p \in D : AtRank(latency, k) = latency[p]
         /\ \A p \in D : Cardinality({q \in D : latency[q] <= latency[p]}) >= k =>
              AtRank(latency, k) <= latency[p]
<1> DEFINE values == {latency[p] : p \in D}
           enough == {x \in values : Cardinality({p \in D : latency[p] <= x}) >= k}
<1>1. AtRank(latency, k) = Min(enough)
  BY DEF AtRank, Range
<1>2. D # {}
  BY FS_EmptySet
<1>3. values \subseteq Nat /\ values # {}
  BY <1>2
<1>4. IsFiniteSet(values)
  <2>1. latency \in Surjection(D, values)
    BY DEF Surjection
  <2> QED BY <2>1, FS_Surjection
<1>5. PICK x \in values : \A y \in values : y <= x
  BY <1>3, <1>4, GreatestOfFinite
<1>6. {p \in D : latency[p] <= x} = D
  BY <1>5
<1>7. x \in enough
  BY <1>6
<1>8. Min(enough) \in enough /\ \A y \in enough : Min(enough) <= y
  BY <1>3, <1>7, LeastOf
<1>9. Min(enough) \in values /\ Cardinality({p \in D : latency[p] <= Min(enough)}) >= k
  BY <1>8
<1>10. \A p \in D : Cardinality({q \in D : latency[q] <= latency[p]}) >= k =>
         Min(enough) <= latency[p]
  BY <1>8
<1> QED BY <1>1, <1>3, <1>9, <1>10

\* A higher rank is no shorter latency.
LEMMA RanksAscend ==
  ASSUME NEW D, IsFiniteSet(D), NEW latency \in [D -> Nat], NEW k \in Nat, NEW l \in Nat,
         k >= 1, k <= l, l <= Cardinality(D)
  PROVE  AtRank(latency, k) <= AtRank(latency, l)
<1>1. Cardinality(D) \in Nat /\ l >= 1 /\ k <= Cardinality(D)
  BY FS_CardinalityType
<1>2. PICK p \in D : AtRank(latency, l) = latency[p]
  BY <1>1, RankReached
<1>3. Cardinality({q \in D : latency[q] <= latency[p]}) >= l
  BY <1>1, <1>2, RankReached
<1>4. Cardinality({q \in D : latency[q] <= latency[p]}) \in Nat
  <2>1. IsFiniteSet({q \in D : latency[q] <= latency[p]})
    BY FS_Subset
  <2> QED BY <2>1, FS_CardinalityType
<1>5. Cardinality({q \in D : latency[q] <= latency[p]}) >= k
  BY <1>3, <1>4
<1>6. AtRank(latency, k) <= latency[p]
  BY <1>1, <1>5, RankReached
<1> QED BY <1>2, <1>6

\* When the p95 is 15 seconds or less, few latencies are longer: one in twenty, but
\* for the rank's rounding.
LEMMA FewAreLong ==
  ASSUME NEW D, IsFiniteSet(D), NEW latency \in [D -> Nat],
         ~Missing(Percentile95(latency)),
         ~(Percentile95(latency)[1] > 15 * Percentile95(latency)[2])
  PROVE  /\ Cardinality(D) > 0
         /\ 20 * Cardinality({p \in D : latency[p] > 15}) <= Cardinality(D) + 18
<1> DEFINE n == Cardinality(D)
           rank == (n - 1) * 95
           lower == rank \div 100 + 1
           upper == IF lower = n THEN lower ELSE lower + 1
           w == rank % 100
           lo == AtRank(latency, lower)
           hi == AtRank(latency, upper)
           fast == {p \in D : latency[p] <= lo}
           slow == {p \in D : latency[p] > 15}
<1>1. n \in Nat
  BY FS_CardinalityType
<1>2. latency # <<>>
  BY DEF Percentile95, Missing
<1>3. n > 0
  <2>1. CASE n = 0
    <3>1. D = {}
      BY <2>1, FS_EmptySet
    <3>2. latency = <<>>
      BY <3>1
    <3> QED BY <1>2, <3>2
  <2> QED BY <1>1, <2>1
<1>4. DOMAIN latency = D
  OBVIOUS
<1>5. Percentile95(latency) = <<lo * (100 - w) + hi * w, 100>>
  BY <1>2, <1>4 DEF Percentile95, Size
<1>6. rank \in Nat /\ w \in Nat /\ w < 100 /\ lower \in Nat /\ lower >= 1 /\ lower <= n
      /\ 20 * (n - lower) <= n + 18
  <2> HIDE DEF n
  <2> QED BY <1>1, <1>3
<1>7. upper \in Nat /\ upper >= lower /\ upper <= n
  <2> HIDE DEF n, lower
  <2> QED BY <1>1, <1>6
<1>8. /\ lo \in Nat /\ hi \in Nat /\ lo <= hi /\ Cardinality(fast) >= lower
  <2> HIDE DEF lower, upper
  <2>1. upper >= 1
    BY <1>6, <1>7
  <2>2. lo \in Nat /\ Cardinality({p \in D : latency[p] <= AtRank(latency, lower)}) >= lower
    BY <1>6, RankReached
  <2>3. hi \in Nat
    BY <1>7, <2>1, RankReached
  <2>4. lo <= hi
    BY <1>6, <1>7, RanksAscend
  <2> QED BY <2>2, <2>3, <2>4
<1>9. lo <= 15
  <2> HIDE DEF lo, hi, w
  <2>1. ~(lo * (100 - w) + hi * w > 15 * 100)
    BY <1>5
  <2>2. lo * w <= hi * w
    BY <1>6, <1>8, LargerTimes
  <2>3. lo * (100 - w) = 100 * lo - lo * w
    BY <1>6, <1>8
  <2>4. lo * w \in Int /\ hi * w \in Int
    BY <1>6, <1>8
  <2> QED BY ONLY <1>8, <2>1, <2>2, <2>3, <2>4
<1>10. Cardinality(slow) + Cardinality(fast) <= n /\ Cardinality(slow) \in Nat
       /\ Cardinality(fast) \in Nat
  <2>1. IsFiniteSet(slow) /\ IsFiniteSet(fast)
    BY FS_Subset
  <2>2. slow \cap fast = {} /\ slow \cup fast \subseteq D
    <3> HIDE DEF lo
    <3> QED BY <1>8, <1>9
  <2> HIDE DEF slow, fast
  <2>3. Cardinality(slow \cup fast) = Cardinality(slow) + Cardinality(fast)
    <3>1. Cardinality(slow) \in Nat /\ Cardinality(fast) \in Nat
      BY <2>1, FS_CardinalityType
    <3>2. Cardinality(slow \cup fast)
            = Cardinality(slow) + Cardinality(fast) - Cardinality(slow \cap fast)
      BY <2>1, FS_Union
    <3>3. Cardinality(slow \cap fast) = 0
      BY <2>2, FS_EmptySet
    <3> QED BY <3>1, <3>2, <3>3
  <2>4. Cardinality(slow \cup fast) <= n
    BY <2>2, FS_Subset
  <2> QED BY <2>1, <2>3, <2>4, FS_CardinalityType
<1> HIDE DEF n, lower, slow, fast
<1>11. 20 * Cardinality(slow) <= n + 18
  BY <1>1, <1>6, <1>8, <1>10
<1> QED BY <1>3, <1>11 DEF n, slow

-----------------------------------------------------------------------------
(* The decisions of a summary                                              *)

\* What consists of two parts is as much as both.
LEMMA PartsCounted ==
  ASSUME NEW D, IsFiniteSet(D), NEW A, NEW B, D = A \cup B, A \cap B = {}
  PROVE  /\ Cardinality(A) \in Nat /\ Cardinality(B) \in Nat
         /\ Cardinality(D) = Cardinality(A) + Cardinality(B)
         /\ Cardinality(B) = 0 => B = {}
<1>1. IsFiniteSet(A) /\ IsFiniteSet(B)
  BY FS_Subset
<1>2. Cardinality(A) \in Nat /\ Cardinality(B) \in Nat
  BY <1>1, FS_CardinalityType
<1>3. Cardinality(D) = Cardinality(A) + Cardinality(B) - Cardinality({})
  BY <1>1, FS_Union
<1>4. Cardinality({}) = 0 /\ (Cardinality(B) = 0 => B = {})
  BY <1>1, FS_EmptySet
<1> QED BY <1>2, <1>3, <1>4

\* A rate that is graded GO was measured, and reaches the threshold.
LEMMA GoIsReached ==
  \A rate, least, go : Grade(rate, least, go) = "GO" =>
    ~Missing(rate) /\ ~Below(rate, least) /\ ~Below(rate, go)
BY DEF Grade

\* The points of the scores, one by one
LEMMA ScoresInPoints ==
  ASSUME NEW D, NEW records \in [D -> RecordsOfRun(Tasks)]
  PROVE  SumOfScores(records)
           = Cardinality({q \in Scored(records) \X (1 .. 10) : q[2] <= records[q[1]].score})
<1> DEFINE points == {q \in Scored(records) \X (1 .. 10) : q[2] <= records[q[1]].score}
           heaps == {{p} \X (1 .. records[p].score) : p \in Scored(records)}
<1>1. \A p \in Scored(records) : records[p].score \in 0 .. 10
  BY DEF Scored, RecordsOfRun, NoScore
<1>2. ASSUME NEW q \in points
      PROVE  q \in UNION heaps
  <2>1. q[1] \in Scored(records) /\ q[2] \in 1 .. 10 /\ q = <<q[1], q[2]>>
    OBVIOUS
  <2>2. q[2] \in 1 .. records[q[1]].score
    BY <1>1, <2>1
  <2>3. q \in {q[1]} \X (1 .. records[q[1]].score)
    BY <2>1, <2>2
  <2> QED BY <2>1, <2>3
<1>3. ASSUME NEW q \in UNION heaps
      PROVE  q \in points
  <2>1. PICK p \in Scored(records) : q \in {p} \X (1 .. records[p].score)
    OBVIOUS
  <2>2. q[1] = p /\ q[2] \in 1 .. records[p].score /\ q = <<q[1], q[2]>>
    BY <2>1
  <2>3. q[2] \in 1 .. 10 /\ q[2] <= records[p].score
    BY <1>1, <2>2
  <2> QED BY <2>2, <2>3
<1>4. UNION heaps = points
  <2> HIDE DEF heaps, points
  <2> QED BY <1>2, <1>3
<1> QED BY <1>4 DEF SumOfScores

\* The scores add up to a number.
LEMMA ScoresAddUp ==
  ASSUME NEW D, IsFiniteSet(D), NEW records \in [D -> RecordsOfRun(Tasks)]
  PROVE  /\ IsFiniteSet(Scored(records)) /\ Cardinality(Scored(records)) \in Nat
         /\ SumOfScores(records) \in Nat
<1>1. Scored(records) \subseteq D
  BY DEF Scored
<1>2. IsFiniteSet(Scored(records))
  BY <1>1, FS_Subset
<1>3. IsFiniteSet(Scored(records) \X (1 .. 10))
  <2>1. 1 \in Int /\ 10 \in Int
    OBVIOUS
  <2>2. IsFiniteSet(1 .. 10)
    BY <2>1, FS_Interval, Zenon
  <2> QED BY <1>2, <2>2, FS_Product
<1> DEFINE points == {q \in Scored(records) \X (1 .. 10) : q[2] <= records[q[1]].score}
<1>4. IsFiniteSet(points)
  BY <1>3, FS_Subset
<1> HIDE DEF points
<1>5. SumOfScores(records) = Cardinality(points)
  BY ScoresInPoints DEF points
<1> QED BY <1>2, <1>4, <1>5, FS_CardinalityType

\* Of the latencies of a campaign that is GO few are long.
LEMMA GoIsFast ==
  ASSUME NEW D, IsFiniteSet(D), NEW records \in [D -> RecordsOfRun(Tasks)],
         GatewayReliability(Metrics(records)) = "GO"
  PROVE  LET timed == Count(records, LAMBDA r : r.latency # NoLatency)
         IN timed > 0 /\ 20 * Count(records, LAMBDA r : r.latency > 15) <= timed + 18
<1> DEFINE timed == {p \in DOMAIN records : records[p].latency # NoLatency}
           latency == [p \in timed |-> records[p].latency]
           slow == {p \in timed : latency[p] > 15}
           p95 == Percentile95(latency)
<1>1. Metrics(records).p95 = p95
  BY DEF Metrics
<1> HIDE DEF p95
<1>2. ~Missing(p95) /\ ~(p95[1] > 15 * p95[2])
  BY <1>1 DEF GatewayReliability, Worst
<1>3. DOMAIN records = D /\ \A p \in D : records[p] \in RecordsOfRun(Tasks)
  OBVIOUS
<1>4. timed \subseteq D /\ IsFiniteSet(timed)
  <2>1. timed \subseteq D
    OBVIOUS
  <2> QED BY <2>1, FS_Subset
<1>5. \A p \in D : records[p].latency \in {NoLatency} \cup Nat
  BY <1>3 DEF RecordsOfRun
<1>6. latency \in [timed -> Nat]
  BY <1>5
<1>7. slow = {p \in DOMAIN records : records[p].latency > 15}
  BY <1>5 DEF NoLatency
<1>8. Cardinality(timed) > 0 /\ 20 * Cardinality(slow) <= Cardinality(timed) + 18
  <2> HIDE DEF timed, latency
  <2> QED BY <1>2, <1>4, <1>6, FewAreLong DEF p95
<1> QED BY <1>7, <1>8 DEF Count

\* A GO of a campaign is earned by answers and never by their absence (GoOfRecords;
\* model_confidence_decision, gateway_reliability_decision): some answer named its
\* model and one in fifty at most another one, one request in fifty at most failed,
\* every answer kept to the protocol, the scores are 7.5 on average, and few latencies
\* are longer than fifteen seconds.
THEOREM GoIsEarned ==
  ASSUME NEW D, IsFiniteSet(D), NEW records \in [D -> RecordsOfRun(Tasks)],
         Overall(Metrics(records)) = "GO"
  PROVE  GoOfRecords(records)
<1> DEFINE all == DOMAIN records
           same == {i \in all : records[i].returned = "same"}
           other == {i \in all : records[i].returned = "other"}
           given == {i \in all : records[i].returned # "none"}
           fine == {i \in all : records[i].ok}
           failed == {i \in all : ~records[i].ok}
           kept == {i \in all : records[i].protocol}
           broken == {i \in all : ~records[i].protocol}
           scored == Scored(records)
           sum == SumOfScores(records)
           m == Metrics(records)
<1>1. /\ m.consistency = <<Cardinality(same), Cardinality(given)>>
      /\ m.transport = <<Cardinality(fine), Cardinality(all)>>
      /\ m.protocol = <<Cardinality(kept), Cardinality(all)>>
      /\ m.quality = <<sum, Cardinality(scored)>>
  BY DEF Metrics, Share, Count, Size
<1>2. ModelConfidence(m) = "GO" /\ GatewayReliability(m) = "GO"
  <2> HIDE DEF m
  <2> QED BY DEF Overall, Worst, ModelConfidence, GatewayReliability, m
<1>3. /\ Grade(m.consistency, 98, 98) = "GO" /\ Grade(m.quality, 600, 750) = "GO"
      /\ Grade(m.protocol, 0, 100) = "GO" /\ Grade(m.transport, 95, 98) = "GO"
  <2> HIDE DEF m
  <2> QED BY <1>2 DEF ModelConfidence, GatewayReliability, Worst, Grade
<1>4. /\ Count(records, LAMBDA r : r.latency # NoLatency) > 0
      /\ 20 * Count(records, LAMBDA r : r.latency > 15)
           <= Count(records, LAMBDA r : r.latency # NoLatency) + 18
  BY <1>2, GoIsFast
<1> HIDE DEF m
<1>5. IsFiniteSet(all) /\ Cardinality(all) \in Nat
  BY FS_CardinalityType
<1>6. \A i \in all : records[i] \in RecordsOfRun(Tasks)
  OBVIOUS
<1>7. IsFiniteSet(given)
  BY <1>5, FS_Subset
<1>8. /\ Cardinality(given) = Cardinality(same) + Cardinality(other)
      /\ Cardinality(same) \in Nat /\ Cardinality(other) \in Nat
  <2>1. given = same \cup other /\ same \cap other = {}
    BY <1>6 DEF RecordsOfRun
  <2> HIDE DEF given, same, other
  <2> QED BY <1>7, <2>1, PartsCounted
<1>9. /\ Cardinality(all) = Cardinality(fine) + Cardinality(failed)
      /\ Cardinality(fine) \in Nat /\ Cardinality(failed) \in Nat
  <2>1. all = fine \cup failed /\ fine \cap failed = {}
    BY <1>6 DEF RecordsOfRun
  <2> HIDE DEF all, fine, failed
  <2> QED BY <1>5, <2>1, PartsCounted
<1>10. /\ Cardinality(all) = Cardinality(kept) + Cardinality(broken)
       /\ Cardinality(kept) \in Nat /\ Cardinality(broken) \in Nat
       /\ Cardinality(broken) = 0 => broken = {}
  <2>1. all = kept \cup broken /\ kept \cap broken = {}
    BY <1>6 DEF RecordsOfRun
  <2> HIDE DEF all, kept, broken
  <2> QED BY <1>5, <2>1, PartsCounted
<1>11. Cardinality(given) > 0 /\ 100 * Cardinality(other) <= 2 * Cardinality(given)
  <2>1. ~Missing(m.consistency) /\ ~Below(m.consistency, 98)
    BY <1>3, GoIsReached
  <2> HIDE DEF given, same, other
  <2>2. /\ Cardinality(given) # 0
        /\ ~(100 * Cardinality(same) < 98 * Cardinality(given))
    BY <1>1, <2>1 DEF Missing, Below
  <2> QED BY <1>8, <2>2
<1>12. 100 * Cardinality(failed) <= 2 * Cardinality(all)
  <2>1. ~Below(m.transport, 98)
    BY <1>3, GoIsReached
  <2> HIDE DEF fine, failed, all
  <2>2. ~(100 * Cardinality(fine) < 98 * Cardinality(all))
    BY <1>1, <2>1 DEF Below
  <2> QED BY <1>9, <2>2
<1>13. broken = {}
  <2>1. ~Below(m.protocol, 100)
    BY <1>3, GoIsReached
  <2> HIDE DEF kept, broken, all
  <2>2. ~(100 * Cardinality(kept) < 100 * Cardinality(all))
    BY <1>1, <2>1 DEF Below
  <2> QED BY <1>10, <2>2
<1>14. scored # {} /\ 2 * sum >= 15 * Cardinality(scored)
  <2>1. ~Missing(m.quality) /\ ~Below(m.quality, 750)
    BY <1>3, GoIsReached
  <2>2. sum \in Nat /\ Cardinality(scored) \in Nat
    BY ScoresAddUp
  <2> HIDE DEF scored, sum
  <2>3. Cardinality(scored) # 0 /\ ~(100 * sum < 750 * Cardinality(scored))
    BY <1>1, <2>1 DEF Missing, Below
  <2>4. scored # {}
    BY <2>3, FS_EmptySet
  <2> QED BY <2>2, <2>3, <2>4
<1>15. records # <<>>
  <2>1. all # {}
    BY <1>14 DEF Scored
  <2> QED BY <2>1
<1>16. /\ Count(records, LAMBDA r : r.returned # "none") = Cardinality(given)
       /\ Count(records, LAMBDA r : r.returned = "other") = Cardinality(other)
       /\ Count(records, LAMBDA r : ~r.ok) = Cardinality(failed)
       /\ Size(records) = Cardinality(all)
  BY DEF Count, Size
<1>17. \A i \in DOMAIN records : records[i].protocol
  BY <1>13
<1> HIDE DEF all, given, other, failed, scored, sum
<1> QED BY <1>4, <1>11, <1>12, <1>14, <1>15, <1>16, <1>17 DEF GoOfRecords, scored, sum

-----------------------------------------------------------------------------
(* The decisions of a trust report                                         *)

\* A part of the records is as many as all or fewer.
LEMMA PartCounted ==
  ASSUME NEW D, IsFiniteSet(D), NEW part, part \subseteq D
  PROVE  /\ Cardinality(part) \in Nat /\ Cardinality(D) \in Nat
         /\ Cardinality(part) <= Cardinality(D)
<1>1. IsFiniteSet(part)
  BY FS_Subset
<1>2. Cardinality(part) \in Nat /\ Cardinality(D) \in Nat
  BY <1>1, FS_CardinalityType
<1>3. Cardinality(part) <= Cardinality(D)
  BY FS_Subset
<1> QED BY <1>2, <1>3

\* Records that show something are counted.
LEMMA ShowingCounted ==
  ASSUME NEW records, IsFiniteSet(DOMAIN records), NEW f
  PROVE  LET shown == Showing(records, f)
         IN /\ shown \in Nat /\ Size(records) \in Nat /\ shown <= Size(records)
            /\ Presence(records, f) = <<shown, Size(records)>>
<1> DEFINE part == {p \in DOMAIN records : f \in records[p].has}
<1>1. part \subseteq DOMAIN records
  OBVIOUS
<1>2. /\ Cardinality(part) \in Nat /\ Cardinality(DOMAIN records) \in Nat
      /\ Cardinality(part) <= Cardinality(DOMAIN records)
  <2> HIDE DEF part
  <2> QED BY <1>1, PartCounted
<1> QED BY <1>2 DEF Showing, Count, Size, Presence

\* The rates of a protocol fingerprint are parts of their wholes.
LEMMA FingerprintRates ==
  ASSUME NEW D, IsFiniteSet(D), NEW summarized \in [D -> RecordsOfRun(Tasks)],
         NEW E, IsFiniteSet(E), NEW records \in [E -> RecordsOfRun(Tasks)]
  PROVE  LET m     == Metrics(summarized)
             named == Count(summarized, LAMBDA r : r.returned # "none")
         IN /\ FiveRates(<<m.protocol, m.consistency, NamedRate(m, records),
                           Presence(records, "usage"), Presence(records, "stop")>>)
            /\ NamedRate(m, records)
                 = <<named, IF Size(summarized) # 0 THEN Size(summarized) ELSE Size(records)>>
            /\ named \in Nat /\ Size(summarized) \in Nat /\ named <= Size(summarized)
<1> DEFINE all == DOMAIN summarized
           same == {p \in all : summarized[p].returned = "same"}
           given == {p \in all : summarized[p].returned # "none"}
           kept == {p \in all : summarized[p].protocol}
           m == Metrics(summarized)
           usage == Showing(records, "usage")
           stop == Showing(records, "stop")
<1>0. IsFiniteSet(DOMAIN records)
  OBVIOUS
<1>1. /\ m.consistency = <<Cardinality(same), Cardinality(given)>>
      /\ m.protocol = <<Cardinality(kept), Cardinality(all)>>
      /\ m.named = Cardinality(given) /\ m.cases = Cardinality(all)
  BY DEF Metrics, Share, Count, Size
<1> HIDE DEF m
<1>2. IsFiniteSet(all) /\ given \subseteq all /\ kept \subseteq all /\ same \subseteq given
  OBVIOUS
<1>3. /\ Cardinality(given) \in Nat /\ Cardinality(all) \in Nat
      /\ Cardinality(given) <= Cardinality(all)
  <2> HIDE DEF all, given
  <2> QED BY <1>2, PartCounted
<1>4. Cardinality(kept) \in Nat /\ Cardinality(kept) <= Cardinality(all)
  <2> HIDE DEF all, kept
  <2> QED BY <1>2, PartCounted
<1>5. Cardinality(same) \in Nat /\ Cardinality(same) <= Cardinality(given)
  <2>1. IsFiniteSet(given)
    BY <1>2, FS_Subset
  <2> HIDE DEF given, same
  <2> QED BY <1>2, <2>1, PartCounted
<1>6. /\ usage \in Nat /\ Size(records) \in Nat /\ usage <= Size(records)
      /\ Presence(records, "usage") = <<usage, Size(records)>>
  BY <1>0, ShowingCounted
<1>7. /\ stop \in Nat /\ stop <= Size(records)
      /\ Presence(records, "stop") = <<stop, Size(records)>>
  BY <1>0, ShowingCounted
<1>8. /\ Count(summarized, LAMBDA r : r.returned # "none") = Cardinality(given)
      /\ Size(summarized) = Cardinality(all)
  BY DEF Count, Size
<1> HIDE DEF all, same, given, kept, usage, stop
<1>9. /\ NamedRate(m, records)
           = <<Cardinality(given),
               IF Cardinality(all) # 0 THEN Cardinality(all) ELSE Size(records)>>
  BY <1>1 DEF NamedRate
<1>10. /\ NamedRate(m, records) \in Nat \X Nat
       /\ NamedRate(m, records)[1] <= NamedRate(m, records)[2]
  <2>1. CASE Cardinality(all) # 0
    BY <1>3, <1>9, <2>1
  <2>2. CASE Cardinality(all) = 0
    BY <1>3, <1>6, <1>9, <2>2
  <2> QED BY <2>1, <2>2
<1> DEFINE rates == <<m.protocol, m.consistency, NamedRate(m, records),
                      Presence(records, "usage"), Presence(records, "stop")>>
<1>11. ASSUME NEW i \in 1 .. 5
       PROVE  rates[i] \in Nat \X Nat /\ rates[i][1] <= rates[i][2]
  <2>1. CASE i = 1
    BY <1>1, <1>3, <1>4, <2>1
  <2>2. CASE i = 2
    BY <1>1, <1>3, <1>5, <2>2
  <2>3. CASE i = 3
    BY <1>10, <2>3
  <2>4. CASE i = 4
    BY <1>6, <2>4
  <2>5. CASE i = 5
    BY <1>6, <1>7, <2>5
  <2> QED BY <2>1, <2>2, <2>3, <2>4, <2>5
<1>12. FiveRates(rates)
  BY <1>11 DEF FiveRates
<1> QED BY <1>3, <1>8, <1>9, <1>12 DEF m

\* A GO of the protocol fingerprint: a quarter of the answers at least named their
\* model, showed their usage, and why they stopped.
LEMMA FingerprintEarned ==
  ASSUME NEW D, IsFiniteSet(D), NEW summarized \in [D -> RecordsOfRun(Tasks)],
         NEW E, IsFiniteSet(E), NEW records \in [E -> RecordsOfRun(Tasks)],
         NEW live, Fingerprint(live, Metrics(summarized), records) = "GO"
  PROVE  /\ live
         /\ 4 * Count(summarized, LAMBDA r : r.returned # "none") >= Size(summarized)
         /\ 4 * Showing(records, "usage") >= Size(records)
         /\ 4 * Showing(records, "stop") >= Size(records)
<1> DEFINE m == Metrics(summarized)
           named == Count(summarized, LAMBDA r : r.returned # "none")
           usage == Showing(records, "usage")
           stop == Showing(records, "stop")
           n == Size(summarized)
           rates == <<m.protocol, m.consistency, NamedRate(m, records),
                      Presence(records, "usage"), Presence(records, "stop")>>
<1>0. IsFiniteSet(DOMAIN records)
  OBVIOUS
<1>1. live /\ Grade(Mean(rates), 60, 85) = "GO"
  BY DEF Fingerprint
<1>2. /\ FiveRates(rates) /\ named \in Nat /\ n \in Nat
      /\ NamedRate(m, records) = <<named, IF n # 0 THEN n ELSE Size(records)>>
  BY FingerprintRates
<1>3. /\ usage \in Nat /\ Size(records) \in Nat
      /\ Presence(records, "usage") = <<usage, Size(records)>>
  BY <1>0, ShowingCounted
<1>4. stop \in Nat /\ Presence(records, "stop") = <<stop, Size(records)>>
  BY <1>0, ShowingCounted
<1>5. rates[3] = NamedRate(m, records) /\ rates[4] = Presence(records, "usage")
      /\ rates[5] = Presence(records, "stop")
  OBVIOUS
<1> HIDE DEF m, named, usage, stop, n, rates
<1>6. ASSUME NEW j \in 1 .. 5
      PROVE  Missing(rates[j]) \/ 4 * rates[j][1] >= rates[j][2]
  <2>1. ~Below(Mean(rates), 85)
    BY <1>1, GoIsReached
  <2> QED BY <1>2, <2>1, MeanReached
<1>7. 4 * named >= n
  <2>1. CASE n = 0
    BY <1>2, <2>1
  <2>2. CASE n # 0
    <3>1. rates[3] = <<named, n>> /\ ~Missing(rates[3])
      BY <1>2, <1>5, <2>2 DEF Missing
    <3>2. 4 * rates[3][1] >= rates[3][2]
      BY <1>6, <3>1
    <3> QED BY <3>1, <3>2
  <2> QED BY <2>1, <2>2
<1>8. 4 * usage >= Size(records)
  <2>1. rates[4] = <<usage, Size(records)>>
    BY <1>3, <1>5
  <2>2. Missing(rates[4]) => Size(records) = 0
    BY <2>1 DEF Missing
  <2>3. Missing(rates[4]) \/ 4 * rates[4][1] >= rates[4][2]
    BY <1>6
  <2> QED BY <1>3, <2>1, <2>2, <2>3
<1>9. 4 * stop >= Size(records)
  <2>1. rates[5] = <<stop, Size(records)>>
    BY <1>4, <1>5
  <2>2. Missing(rates[5]) => Size(records) = 0
    BY <2>1 DEF Missing
  <2>3. Missing(rates[5]) \/ 4 * rates[5][1] >= rates[5][2]
    BY <1>6
  <2> QED BY <1>3, <1>4, <2>1, <2>2, <2>3
<1> QED BY <1>1, <1>7, <1>8, <1>9 DEF named, n, usage, stop

\* The score of build_auditability is what it was called: five, the traces and the names.
AuditScore(m, records) ==
  Add(Add(<<5, 1>>, <<Traces(records), Size(records)>>), Times(NamedRate(m, records), 20))

\* The traces are a number: as much as all but the upstream ids may bring, and the
\* upstream ids; and as much at least as what no gateway may leave out.
LEMMA TracesBounded ==
  ASSUME NEW records, IsFiniteSet(DOMAIN records)
  PROVE  /\ Traces(records) \in Nat
         /\ Traces(records) <= 55 * Size(records) + 20 * Showing(records, "upstream")
         /\ Traces(records) >= 15 * Showing(records, "hash") + 10 * Showing(records, "path")
                                 + 10 * Showing(records, "raw") + 5 * Showing(records, "retry")
<1>1. \A f : Showing(records, f) \in Nat /\ Showing(records, f) <= Size(records)
  BY ShowingCounted
<1>2. Size(records) \in Nat
  BY ShowingCounted
<1>3. Traces(records)
        = 15 * Showing(records, "hash") + 10 * Showing(records, "path")
            + 10 * Showing(records, "raw") + 20 * Showing(records, "upstream")
            + 10 * Showing(records, "route") + 5 * Showing(records, "retry")
            + 5 * Showing(records, "processing")
  BY DEF Traces
<1> QED BY <1>1, <1>2, <1>3

\* Of five and two shares, of the records and of the cases, the sum is known.
LEMMA ScoreTaken ==
  ASSUME NEW w \in Nat, NEW n \in Nat, NEW a \in Nat, NEW c \in Nat, n # 0, c # 0
  PROVE  Add(Add(<<5, 1>>, <<w, n>>), Times(<<a, c>>, 20))
           = <<(5 * n + w) * c + (20 * a) * n, n * c>>
<1>1. Add(<<5, 1>>, <<w, n>>) = <<5 * n + w, n>>
  <2>1. Add(<<5, 1>>, <<w, n>>) = <<5 * n + w * 1, 1 * n>>
    BY DEF Add, Plus, Missing
  <2> QED BY <2>1
<1>2. Times(<<a, c>>, 20) = <<20 * a, c>>
  <2>1. Times(<<a, c>>, 20) = <<a * 20, c>>
    BY DEF Times
  <2> QED BY <2>1
<1>3. Add(<<5 * n + w, n>>, <<20 * a, c>>) = <<(5 * n + w) * c + (20 * a) * n, n * c>>
  BY DEF Add, Plus, Missing
<1> QED BY <1>1, <1>2, <1>3

\* A GO of the audit: the shares of the answers with their model and of the records
\* with an upstream id are one at least together.
LEMMA AuditEarned ==
  ASSUME NEW D, IsFiniteSet(D), NEW summarized \in [D -> RecordsOfRun(Tasks)],
         NEW E, IsFiniteSet(E), NEW records \in [E -> RecordsOfRun(Tasks)],
         NEW live, Auditability(live, Metrics(summarized), records) = "GO"
  PROVE  Count(summarized, LAMBDA r : r.returned # "none") * Size(records)
           + Showing(records, "upstream") * Size(summarized)
           >= Size(summarized) * Size(records)
<1> DEFINE m == Metrics(summarized)
           a == Count(summarized, LAMBDA r : r.returned # "none")
           u == Showing(records, "upstream")
           w == Traces(records)
           n == Size(records)
           c == Size(summarized)
           score == AuditScore(m, records)
<1>0. IsFiniteSet(DOMAIN records)
  OBVIOUS
<1>1. /\ a \in Nat /\ c \in Nat
      /\ NamedRate(m, records) = <<a, IF c # 0 THEN c ELSE n>>
  BY FingerprintRates
<1>2. u \in Nat /\ n \in Nat
  BY <1>0, ShowingCounted
<1>3. w \in Nat /\ w <= 55 * n + 20 * u
  BY <1>0, TracesBounded
<1>4. ~Below(<<score[1], 100 * score[2]>>, 80)
  <2>1. Grade(<<score[1], 100 * score[2]>>, 50, 80) = "GO"
    BY DEF Auditability, AuditScore, Worst, Grade
  <2> HIDE DEF score
  <2> QED BY <2>1, GoIsReached
<1> HIDE DEF m, a, u, w, n, c
<1>5. CASE n = 0 \/ c = 0
  BY <1>1, <1>2, <1>5 DEF a, u, n, c
<1>6. CASE n # 0 /\ c # 0
  <2>1. NamedRate(m, records) = <<a, c>>
    BY <1>1, <1>6
  <2>2. score = Add(Add(<<5, 1>>, <<w, n>>), Times(<<a, c>>, 20))
    BY <2>1 DEF AuditScore, w, n
  <2>3. score = <<(5 * n + w) * c + (20 * a) * n, n * c>>
    BY <1>1, <1>2, <1>3, <1>6, <2>2, ScoreTaken
  <2> DEFINE x == (5 * n + w) * c + (20 * a) * n
             y == n * c
  <2>4. x \in Nat /\ y \in Nat
    BY <1>1, <1>2, <1>3
  <2>5. x >= 80 * y
    <3>1. score[1] = x /\ score[2] = y
      BY <2>3
    <3> HIDE DEF x, y, score
    <3>2. ~(100 * x < 80 * (100 * y))
      BY <1>4, <3>1 DEF Below
    <3> QED BY <2>4, <3>2
  <2>6. (5 * n + w) * c <= (60 * n + 20 * u) * c
    <3>1. /\ 5 * n + w \in Int /\ 60 * n + 20 * u \in Int
          /\ 5 * n + w <= 60 * n + 20 * u
      BY <1>2, <1>3
    <3> QED BY <1>1, <3>1, LargerTimes
  <2>7. (60 * n + 20 * u) * c = 60 * (n * c) + 20 * (u * c) /\ (20 * a) * n = 20 * (a * n)
    BY <1>1, <1>2
  <2>8. n * c \in Int /\ u * c \in Int /\ a * n \in Int /\ (5 * n + w) * c \in Int
    BY <1>1, <1>2, <1>3
  <2>9. a * n + u * c >= n * c
    BY ONLY <2>5, <2>6, <2>7, <2>8
  <2>10. n * c = c * n
    BY <1>1, <1>2
  <2> QED BY <2>9, <2>10 DEF a, u, n, c
<1> QED BY <1>5, <1>6

\* A baseline that is GO has a task in common.
LEMMA TaskInCommon ==
  ASSUME NEW summarized, NEW theirs,
         Similarity(Metrics(summarized), Metrics(theirs)) = "GO"
  PROVE  \E i \in DOMAIN summarized, j \in DOMAIN theirs :
           summarized[i].task = theirs[j].task
<1>1. CommonTasks(Metrics(summarized), Metrics(theirs)) # {}
  BY DEF Similarity, Worst
<1>2. /\ Metrics(summarized).tasks = TaskScores(summarized)
      /\ Metrics(theirs).tasks = TaskScores(theirs)
  BY DEF Metrics
<1>3. PICK t : t \in DOMAIN TaskScores(summarized) /\ t \in DOMAIN TaskScores(theirs)
  BY <1>1, <1>2 DEF CommonTasks
<1>4. PICK i \in DOMAIN summarized : summarized[i].task = t
  BY <1>3 DEF TaskScores
<1>5. PICK j \in DOMAIN theirs : theirs[j].task = t
  BY <1>3 DEF TaskScores
<1> QED BY <1>4, <1>5

\* What a blemish is not: a rate of records of which none is blemished is full.
LEMMA Full ==
  ASSUME NEW records, NEW part, part = DOMAIN records, IsFiniteSet(DOMAIN records)
  PROVE  Cardinality(part) \in Nat /\ Cardinality(part) = Size(records)
BY FS_CardinalityType DEF Size

\* A grade is a NO-GO only below the threshold.
LEMMA NoGoIsBelow ==
  \A rate, least, go : Grade(rate, least, go) = "NO-GO" => Below(rate, least)
BY DEF Grade

\* Records of which none is blemished, some at least
Flawless(records) ==
  /\ IsFiniteSet(DOMAIN records) /\ DOMAIN records # {}
  /\ records \in [DOMAIN records -> RecordsOfRun(Tasks)]
  /\ \A p \in DOMAIN records : ~Blemished(records[p])

\* Every rate of theirs is full.
LEMMA FlawlessRates ==
  ASSUME NEW records, Flawless(records)
  PROVE  LET m == Metrics(records)
             n == Size(records)
         IN /\ n \in Nat /\ n > 0
            /\ m.transport = <<n, n>> /\ m.consistency = <<n, n>> /\ m.protocol = <<n, n>>
            /\ NamedRate(m, records) = <<n, n>>
            /\ \A f \in Features \ GatewayFields : Showing(records, f) = n
<1> DEFINE all == DOMAIN records
           m == Metrics(records)
           n == Size(records)
<1>1. \A p \in all : /\ records[p] \in RecordsOfRun(Tasks)
                     /\ records[p].ok /\ records[p].protocol /\ records[p].returned = "same"
                     /\ Features \ GatewayFields \subseteq records[p].has
  BY DEF Flawless, Blemished
<1>2. /\ {p \in all : records[p].ok} = all /\ {p \in all : records[p].protocol} = all
      /\ {p \in all : records[p].returned = "same"} = all
      /\ {p \in all : records[p].returned # "none"} = all
  BY <1>1
<1>3. n \in Nat /\ n = Cardinality(all)
  BY FS_CardinalityType DEF Flawless, Size
<1>4. n > 0
  <2>1. Cardinality(all) # 0
    BY FS_EmptySet DEF Flawless
  <2> HIDE DEF n, all
  <2> QED BY <1>3, <2>1
<1>5. /\ m.transport = <<Cardinality({p \in all : records[p].ok}), n>>
      /\ m.protocol = <<Cardinality({p \in all : records[p].protocol}), n>>
      /\ m.consistency = <<Cardinality({p \in all : records[p].returned = "same"}),
                           Cardinality({p \in all : records[p].returned # "none"})>>
      /\ m.named = Cardinality({p \in all : records[p].returned # "none"}) /\ m.cases = n
  BY DEF Metrics, Share, Count, Size
<1>6. ASSUME NEW f \in Features \ GatewayFields
      PROVE  Showing(records, f) = n
  <2>1. {p \in all : f \in records[p].has} = all
    BY <1>1
  <2> QED BY <1>3, <2>1 DEF Showing, Count
<1>7. /\ m.transport = <<n, n>> /\ m.protocol = <<n, n>> /\ m.consistency = <<n, n>>
      /\ m.named = n /\ m.cases = n
  <2> HIDE DEF m, n
  <2> QED BY <1>2, <1>3, <1>5
<1>8. NamedRate(m, records) = <<n, n>>
  <2> HIDE DEF m, n
  <2> QED BY <1>3, <1>4, <1>7 DEF NamedRate
<1> QED BY <1>3, <1>4, <1>6, <1>7, <1>8

\* Their scores are six at least.
LEMMA FlawlessScores ==
  ASSUME NEW records, Flawless(records)
  PROVE  ~Below(Metrics(records).quality, 600)
<1> DEFINE scored == Scored(records)
           points == {q \in scored \X (1 .. 10) : q[2] <= records[q[1]].score}
           some == scored \X (1 .. 6)
<1>1. /\ IsFiniteSet(scored) /\ Cardinality(scored) \in Nat /\ SumOfScores(records) \in Nat
      /\ IsFiniteSet(scored \X (1 .. 10))
  <2>1. scored \subseteq DOMAIN records
    BY DEF Scored
  <2>2. 1 \in Int /\ 10 \in Int
    OBVIOUS
  <2>3. IsFiniteSet(1 .. 10)
    BY <2>2, FS_Interval, Zenon
  <2>4. IsFiniteSet(scored)
    BY <2>1, FS_Subset DEF Flawless
  <2> QED BY <2>3, <2>4, FS_Product, ScoresAddUp DEF Flawless
<1>2. SumOfScores(records) = Cardinality(points)
  BY ScoresInPoints DEF Flawless
<1>3. Metrics(records).quality = <<SumOfScores(records), Cardinality(scored)>>
  BY DEF Metrics
<1>4. \A p \in scored : records[p].score \in 6 .. 10
  <2>1. ASSUME NEW p \in scored
        PROVE  records[p].score \in 6 .. 10
    <3>1. p \in DOMAIN records /\ records[p].score # NoScore
      BY DEF Scored
    <3>2. records[p].score \in NoScore .. 10 /\ records[p].score \notin 0 .. 5
      BY <3>1 DEF Flawless, Blemished, RecordsOfRun
    <3> HIDE DEF scored
    <3> QED BY <3>1, <3>2 DEF NoScore
  <2> QED BY <2>1
<1>5. some \subseteq points
  <2> HIDE DEF scored
  <2>1. \A p \in scored : \A v \in 1 .. 6 : v \in 1 .. 10 /\ v <= records[p].score
    BY <1>4
  <2> QED BY <2>1
<1>6. Cardinality(some) = Cardinality(scored) * 6
  <2>1. 1 \in Int /\ 6 \in Int
    OBVIOUS
  <2>2. IsFiniteSet(1 .. 6) /\ Cardinality(1 .. 6) = IF 1 > 6 THEN 0 ELSE 6 - 1 + 1
    BY <2>1, FS_Interval, Zenon
  <2>3. Cardinality(1 .. 6) = 6
    BY <2>2
  <2> HIDE DEF scored
  <2> QED BY <1>1, <2>2, <2>3, FS_Product
<1>7. Cardinality(some) <= Cardinality(points)
  <2>1. IsFiniteSet(points)
    BY <1>1, FS_Subset
  <2> HIDE DEF some, points
  <2> QED BY <1>5, <2>1, FS_Subset
<1> HIDE DEF scored, points, some
<1> QED BY <1>1, <1>2, <1>3, <1>6, <1>7 DEF Below

\* They are no NO-GO of any part of a trust report that needs no baseline.
LEMMA FlawlessIsNoNoGo ==
  ASSUME NEW records, Flawless(records), NEW live
  PROVE  LET m == Metrics(records)
         IN "NO-GO" \notin {ModelConfidence(m), GatewayReliability(m),
                            Fingerprint(live, m, records), Auditability(live, m, records)}
<1> DEFINE m == Metrics(records)
           n == Size(records)
<1>1. /\ n \in Nat /\ n > 0
      /\ m.transport = <<n, n>> /\ m.consistency = <<n, n>> /\ m.protocol = <<n, n>>
      /\ NamedRate(m, records) = <<n, n>>
      /\ \A f \in Features \ GatewayFields : Showing(records, f) = n
  BY FlawlessRates
<1>2. ~Below(m.quality, 600)
  BY FlawlessScores
<1> HIDE DEF m, n
<1>3. \A percent \in 0 .. 100 : ~Below(<<n, n>>, percent)
  <2>1. ASSUME NEW percent \in 0 .. 100
        PROVE  ~(100 * n < percent * n)
    <3>1. percent * n <= 100 * n
      BY <1>1, LargerTimes
    <3> QED BY <1>1, <3>1
  <2> QED BY <2>1 DEF Below
<1>4. ModelConfidence(m) # "NO-GO"
  <2>1. /\ Grade(m.consistency, 98, 98) # "NO-GO" /\ Grade(m.quality, 600, 750) # "NO-GO"
        /\ Grade(m.protocol, 0, 100) # "NO-GO"
    BY <1>1, <1>2, <1>3, NoGoIsBelow
  <2> QED BY <2>1 DEF ModelConfidence, Worst
<1>5. GatewayReliability(m) # "NO-GO"
  <2>1. Grade(m.transport, 95, 98) # "NO-GO"
    BY <1>1, <1>3, NoGoIsBelow
  <2> QED BY <2>1 DEF GatewayReliability, Worst
<1>6. Fingerprint(live, m, records) # "NO-GO"
  <2> DEFINE rates == <<m.protocol, m.consistency, NamedRate(m, records),
                        Presence(records, "usage"), Presence(records, "stop")>>
  <2>1. Presence(records, "usage") = <<n, n>> /\ Presence(records, "stop") = <<n, n>>
    <3>1. {"usage", "stop"} \subseteq Features \ GatewayFields
      BY DEF Features, GatewayFields
    <3> QED BY <1>1, <3>1 DEF Presence, n
  <2>2. \A i \in 1 .. 5 : rates[i] = <<n, n>>
    BY <1>1, <2>1
  <2> HIDE DEF rates
  <2>3. \A i \in 1 .. 5 : rates[i] \in Nat \X Nat /\ rates[i][1] >= rates[i][2]
    BY <1>1, <2>2
  <2>4. ~Below(Mean(rates), 60)
    BY <2>3, MeanFull
  <2>5. Grade(Mean(rates), 60, 85) # "NO-GO"
    BY <2>4, NoGoIsBelow
  <2>6. ~Below(m.protocol, 95) /\ ~Below(m.consistency, 98)
    BY <1>1, <1>3
  <2> QED BY <2>5, <2>6 DEF Fingerprint, rates
<1>7. Auditability(live, m, records) # "NO-GO"
  <2> DEFINE w == Traces(records)
             score == AuditScore(m, records)
             x == (5 * n + w) * n + (20 * n) * n
             y == n * n
  <2>1. w \in Nat /\ w >= 40 * n
    <3>1. {"hash", "path", "raw", "retry"} \subseteq Features \ GatewayFields
      BY DEF Features, GatewayFields
    <3>2. w \in Nat /\ w >= 15 * n + 10 * n + 10 * n + 5 * n
      BY <1>1, <3>1, TracesBounded DEF Flawless
    <3> HIDE DEF w
    <3> QED BY <1>1, <3>2
  <2>2. score = Add(Add(<<5, 1>>, <<w, n>>), Times(<<n, n>>, 20))
    BY <1>1 DEF AuditScore, n
  <2> HIDE DEF w, score
  <2>3. score = <<x, y>>
    BY <1>1, <2>1, <2>2, ScoreTaken
  <2>4. x \in Nat /\ y \in Nat
    BY <1>1, <2>1
  <2>5. x >= 65 * y
    <3>1. (45 * n) * n <= (5 * n + w) * n
      <4>1. 45 * n \in Int /\ 5 * n + w \in Int /\ 45 * n <= 5 * n + w
        BY <1>1, <2>1
      <4> QED BY <1>1, <4>1, LargerTimes
    <3>2. (45 * n) * n = 45 * (n * n) /\ (20 * n) * n = 20 * (n * n)
      BY <1>1
    <3>3. n * n \in Int /\ (5 * n + w) * n \in Int
      BY <1>1, <2>1
    <3> QED BY ONLY <3>1, <3>2, <3>3
  <2> HIDE DEF x, y
  <2>6. ~Below(<<score[1], 100 * score[2]>>, 50)
    <3>1. ~(100 * x < 50 * (100 * y))
      BY <2>4, <2>5
    <3> QED BY <2>3, <3>1 DEF Below
  <2>7. Grade(<<score[1], 100 * score[2]>>, 50, 80) # "NO-GO"
    BY <2>6, NoGoIsBelow
  <2> QED BY <2>7 DEF Auditability, AuditScore, Worst, score
<1> QED BY <1>4, <1>5, <1>6, <1>7 DEF m

-----------------------------------------------------------------------------
(* The decisions that are published                                        *)

\* Finitely many runs, each with one of the yields
Yielded(yields) == IsFiniteSet(DOMAIN yields) /\ yields \in [DOMAIN yields -> DOMAIN Yields]

\* Their records are finitely many.
LEMMA RecordsTyped ==
  ASSUME NEW yields, Yielded(yields)
  PROVE  /\ IsFiniteSet(DOMAIN RecordsOf(yields))
         /\ RecordsOf(yields) \in [DOMAIN RecordsOf(yields) -> RecordsOfRun(Tasks)]
<1> DEFINE places(r) == {<<r, i>> : i \in DOMAIN Yields[yields[r]].records}
           all == {places(r) : r \in DOMAIN yields}
<1>1. ASSUME NEW r \in DOMAIN yields
      PROVE  yields[r] \in DOMAIN Yields /\ Yields[yields[r]].records \in Seq(RecordsOfRun(Tasks))
  BY ReviewAssumption DEF Yielded
<1>2. ASSUME NEW r \in DOMAIN yields
      PROVE  IsFiniteSet(places(r))
  <2> DEFINE s == Yields[yields[r]].records
  <2>1. DOMAIN s = 1 .. Len(s) /\ 1 \in Int /\ Len(s) \in Int
    BY <1>1
  <2> HIDE DEF s
  <2>2. IsFiniteSet(DOMAIN s)
    BY <2>1, FS_Interval
  <2> DEFINE f == [i \in DOMAIN s |-> <<r, i>>]
             all_r == {<<r, i>> : i \in DOMAIN s}
  <2>3. f \in Surjection(DOMAIN s, all_r)
    BY DEF Surjection
  <2> HIDE DEF f, all_r
  <2>4. IsFiniteSet(all_r)
    BY <2>2, <2>3, FS_Surjection
  <2> QED BY <2>4 DEF s, all_r
<1>3. IsFiniteSet(all)
  <2> DEFINE f == [r \in DOMAIN yields |-> places(r)]
  <2>1. f \in Surjection(DOMAIN yields, all)
    BY DEF Surjection
  <2> HIDE DEF f, all
  <2> QED BY <2>1, FS_Surjection DEF Yielded
<1>4. IsFiniteSet(UNION all)
  <2>1. \A T \in all : IsFiniteSet(T)
    BY <1>2
  <2> HIDE DEF all
  <2> QED BY <1>3, <2>1, FS_UNION
<1>5. RecordsOf(yields) = [p \in UNION all |-> Yields[yields[p[1]]].records[p[2]]]
  BY DEF RecordsOf
<1>6. ASSUME NEW p \in UNION all
      PROVE  Yields[yields[p[1]]].records[p[2]] \in RecordsOfRun(Tasks)
  <2>1. PICK r \in DOMAIN yields : p \in places(r)
    OBVIOUS
  <2>2. p[1] = r /\ p[2] \in DOMAIN Yields[yields[r]].records
    BY <2>1
  <2> HIDE DEF places, all
  <2> QED BY <1>1, <2>2
<1> HIDE DEF all
<1> QED BY <1>4, <1>5, <1>6

\* What the decision of a summary, and of a trust report, was made of
MadeSummary(s) == Yielded(s.of) /\ s.decision = Overall(Metrics(RecordsOf(s.of)))

MadeReport(t) ==
  LET m       == Metrics(RecordsOf(t.of))
      records == RecordsOf(t.records)
  IN /\ Yielded(t.of) /\ Yielded(t.records)
     /\ \E base : /\ t.base \in {{}, {base}}
                  /\ t.decision = Worst({ModelConfidence(m), GatewayReliability(m),
                                         Fingerprint(t.live, m, records),
                                         Auditability(t.live, m, records),
                                         IF t.base = {} THEN "REVIEW"
                                         ELSE Similarity(m, Metrics(RecordsOf(base)))})

\* What a reviewer holds at a step of its command was made so.
HeldMade(step, held) ==
  /\ step \in {"gather", "report", "read"} => MadeSummary(held)
  /\ step = "compare" => MadeSummary(held.summary) /\ Yielded(held.records)
  /\ step = "write" => MadeReport(held)

\* Of what is published, and of what reviewers hold and have not yet written
DecisionsMade ==
  /\ \A c \in Campaigns : /\ summary[c] # None => MadeSummary(summary[c])
                          /\ trust[c] # None => MadeReport(trust[c])
  /\ \A p \in Reviewers : hand[p] # None => HeldMade(Head(review[p].steps), hand[p])

\* The runs of a campaign that have written are of the yields.
LEMMA EvidenceYielded ==
  ASSUME TypeOK, NEW c \in Campaigns
  PROVE  Yielded(Evidence(c))
<1> DEFINE written == {q \in DOMAIN opened[c] : opened[c][q] > 0 /\ runs[c][q].yield # None}
<1>1. DOMAIN opened[c] = Rounds(c)
  BY DEF TypeOK, RunnerTypes
<1>2. Repeat[c] \in Int /\ 1 \in Int
  BY ReviewAssumption
<1>3. IsFiniteSet(Rounds(c))
  BY <1>2, FS_Interval DEF Rounds
<1>4. IsFiniteSet(written)
  <2>1. written \subseteq Rounds(c)
    BY <1>1
  <2> HIDE DEF written
  <2> QED BY <1>3, <2>1, FS_Subset
<1> DEFINE refs == {<<opened[c][r], r>> : r \in written}
<1>5. IsFiniteSet(refs)
  <2> DEFINE f == [r \in written |-> <<opened[c][r], r>>]
  <2>1. f \in Surjection(written, refs)
    BY DEF Surjection
  <2> HIDE DEF f, refs, written
  <2> QED BY <1>4, <2>1, FS_Surjection
<1>6. Evidence(c) = [ref \in refs |-> runs[c][ref[2]].yield]
  BY DEF Evidence, EvidenceOf
<1>7. ASSUME NEW ref \in refs
      PROVE  runs[c][ref[2]].yield \in DOMAIN Yields
  <2>1. ref[2] \in written
    OBVIOUS
  <2>2. runs[c][ref[2]] \in RunRecord /\ runs[c][ref[2]].yield # None
    BY <1>1, <2>1, RoundTypes
  <2> QED BY <2>2 DEF RunRecord
<1> HIDE DEF refs
<1> QED BY <1>5, <1>6, <1>7 DEF Yielded

\* A summary is made of the runs that have written.
LEMMA SummarizedIsMade ==
  ASSUME TypeOK, NEW c \in Campaigns
  PROVE  MadeSummary(Summarize(c))
<1> DEFINE s == Summarize(c)
<1>1. s.of = Evidence(c) /\ s.decision = Overall(Metrics(RecordsOf(Evidence(c))))
  BY DEF Summarize
<1> HIDE DEF s
<1>2. MadeSummary(s)
  BY <1>1, EvidenceYielded DEF MadeSummary
<1> QED BY <1>2 DEF s

\* And so is a report, from its summary, its records and its baseline.
LEMMA ReportIsMade ==
  ASSUME NEW c, NEW s, MadeSummary(s), NEW yields, Yielded(yields), NEW base
  PROVE  MadeReport(Report(c, s, yields, base))
<1> DEFINE t == Report(c, s, yields, base)
           m == Metrics(RecordsOf(t.of))
           records == RecordsOf(t.records)
           four == {ModelConfidence(m), GatewayReliability(m), Fingerprint(t.live, m, records),
                    Auditability(t.live, m, records)}
<1>1. t.of = s.of /\ t.records = yields /\ t.live = s.live
  BY DEF Report
<1>2. t.base = IF base = None THEN {} ELSE {base.of}
  BY DEF Report
<1>3. t.decision = Worst({ModelConfidence(m), GatewayReliability(m),
                          Fingerprint(t.live, m, records), Auditability(t.live, m, records),
                          IF base = None THEN "REVIEW"
                          ELSE Similarity(m, Metrics(RecordsOf(base.of)))})
  BY DEF Report
<1> HIDE DEF t
<1>4. Yielded(t.of) /\ Yielded(t.records)
  BY <1>1 DEF MadeSummary
<1>5. t.base = {} <=> base = None
  BY <1>2
<1>6. \E b : /\ t.base \in {{}, {b}}
             /\ t.decision = Worst({ModelConfidence(m), GatewayReliability(m),
                                    Fingerprint(t.live, m, records),
                                    Auditability(t.live, m, records),
                                    IF t.base = {} THEN "REVIEW"
                                    ELSE Similarity(m, Metrics(RecordsOf(b)))})
  <2>1. t.base \in {{}, {base.of}}
    BY <1>2
  <2> QED BY <1>3, <1>5, <2>1
<1>7. MadeReport(t)
  BY <1>4, <1>6 DEF MadeReport
<1> QED BY <1>7 DEF t

\* Whoever writes, what is published or held was made of its runs.
LEMMA DecisionsKept == ReviewInv /\ DecisionsMade /\ Next => DecisionsMade'
<1> SUFFICES ASSUME ReviewInv, DecisionsMade, Next
             PROVE  DecisionsMade'
  OBVIOUS
<1> DEFINE Summaries == \A c \in Campaigns : summary[c] # None => MadeSummary(summary[c])
           Reports == \A c \in Campaigns : trust[c] # None => MadeReport(trust[c])
           Hands == \A p \in Reviewers :
                      hand[p] # None => HeldMade(Head(review[p].steps), hand[p])
<1>1. Summaries /\ Reports /\ Hands /\ TypeOK
  BY DEF DecisionsMade, ReviewInv
<1>2. /\ DOMAIN summary = Campaigns /\ DOMAIN trust = Campaigns
      /\ DOMAIN hand = Reviewers /\ DOMAIN review = Reviewers
  BY <1>1 DEF TypeOK
<1> SUFFICES Summaries' /\ Reports' /\ Hands'
  BY DEF DecisionsMade
<1>3. ASSUME NEW c \in Campaigns
      PROVE  MadeSummary(Summarize(c))
  BY <1>1, SummarizedIsMade
<1>4. ASSUME NEW p \in Reviewers, review[p].steps # <<>>
      PROVE  review[p].campaign \in Campaigns
  BY <1>4 DEF ReviewInv, HandsFinal
<1> HIDE DEF Summaries, Reports, Hands
<1>5. ASSUME NEW c \in Campaigns, RunnerNext(c)
      PROVE  Summaries' /\ Reports' /\ Hands'
  <2>1. UNCHANGED <<trust, review, hand>>
    BY <1>5 DEF RunnerNext, Start, Resume, SkipRound, OpenRound, RunRaises, WriteRecords, FinishRun,
       SummarizeOwn, Close, OnlyRunner
  <2>2. UNCHANGED summary \/ summary' = [summary EXCEPT ![c] = Summarize(c)]
    BY <1>5 DEF RunnerNext, Start, Resume, SkipRound, OpenRound, RunRaises, WriteRecords, FinishRun,
       SummarizeOwn, Close, OnlyRunner
  <2>3. Reports' /\ Hands'
    BY <1>1, <2>1 DEF Reports, Hands
  <2>4. Summaries'
    BY <1>1, <1>2, <1>3, <2>2 DEF Summaries
  <2> QED BY <2>3, <2>4
<1>6. ASSUME NEW c \in Campaigns, Kill(c)
      PROVE  Summaries' /\ Reports' /\ Hands'
  BY <1>1, <1>6 DEF Kill, Summaries, Reports, Hands
<1>7. ASSUME NEW p \in Reviewers, ReviewNext(p)
      PROVE  Summaries' /\ Reports' /\ Hands'
  <2> DEFINE c == review[p].campaign
  <2>1. ASSUME NEW d \in Campaigns, NEW command \in DOMAIN Commands, Begin(p, d, command)
        PROVE  Summaries' /\ Reports' /\ Hands'
    <3>1. UNCHANGED <<summary, trust, hand>> /\ \E at : review' = [review EXCEPT ![p] = at]
      BY <2>1 DEF Begin
    <3>2. hand[p] = None
      <4>1. review[p].steps = <<>>
        BY <2>1 DEF Begin, ReviewerIdle
      <4> QED BY <4>1 DEF ReviewInv, HandsFinal
    <3> QED BY <1>1, <1>2, <3>1, <3>2 DEF Summaries, Reports, Hands
  <2>2. ASSUME hand' = [hand EXCEPT ![p] = None], \E at : review' = [review EXCEPT ![p] = at]
        PROVE  Hands'
    BY <1>1, <1>2, <2>2 DEF Hands
  <2>3. ASSUME NEW part \in Steps, NEW held, Turn(p, part), review[p].steps # <<>>,
               hand' = [hand EXCEPT ![p] = held], HeldMade(part, held)
        PROVE  Hands'
    <3>1. PICK at : review' = [review EXCEPT ![p] = at] /\ Head(at.steps) = part
      BY <1>1, <2>3, TurnsTo
    <3> QED BY <1>1, <1>2, <2>3, <3>1 DEF Hands
  <2>4. ASSUME NEW step, At(p, step), hand[p] # None
        PROVE  HeldMade(step, hand[p])
    BY <1>1, <2>4 DEF Hands, At
  <2>5. CASE Gather(p) \/ MakeSummary(p)
    <3>1. c \in Campaigns /\ (At(p, "gather") \/ At(p, "report"))
      BY <1>4, <2>5 DEF Gather, MakeSummary, At
    <3>2. /\ UNCHANGED <<summary, trust, review>>
          /\ hand' = [hand EXCEPT ![p] = Summarize(c)]
      BY <2>5 DEF Gather, MakeSummary
    <3>3. HeldMade(Head(review[p].steps), Summarize(c))
      BY <1>3, <3>1 DEF HeldMade, At
    <3> QED BY <1>1, <1>2, <3>2, <3>3 DEF Summaries, Reports, Hands
  <2>6. CASE WriteSummary(p)
    <3>1. MadeSummary(hand[p])
      BY <2>4, <2>6 DEF WriteSummary, HeldMade
    <3>2. /\ summary' = [summary EXCEPT ![c] = hand[p]] /\ UNCHANGED trust
          /\ hand' = [hand EXCEPT ![p] = None] /\ \E at : review' = [review EXCEPT ![p] = at]
      BY <2>6 DEF WriteSummary, GoOn
    <3>3. Summaries' /\ Reports'
      BY <1>1, <1>2, <3>1, <3>2 DEF Summaries, Reports
    <3> QED BY <2>2, <3>2, <3>3
  <2>7. CASE LoadSummary(p)
    <3>1. c \in Campaigns /\ review[p].steps # <<>> /\ summary[c] # None
      BY <1>4, <2>7 DEF LoadSummary, At
    <3>2. HeldMade("read", summary[c])
      BY <1>1, <3>1 DEF Summaries, HeldMade
    <3>3. /\ hand' = [hand EXCEPT ![p] = summary[c]] /\ Turn(p, "read") /\ "read" \in Steps
          /\ UNCHANGED <<summary, trust>>
      BY <2>7 DEF LoadSummary, Steps
    <3>4. Hands'
      BY <2>3, <3>1, <3>2, <3>3
    <3> QED BY <1>1, <3>3, <3>4 DEF Summaries, Reports
  <2>8. CASE SaveSummary(p)
    <3>1. MadeSummary(hand[p]) /\ review[p].steps # <<>>
      BY <2>4, <2>8 DEF SaveSummary, HeldMade, At
    <3>2. /\ summary' = [summary EXCEPT ![c] = hand[p]] /\ UNCHANGED <<trust, hand>>
          /\ Turn(p, "read") /\ "read" \in Steps
      BY <2>8 DEF SaveSummary, Steps
    <3>3. hand' = [hand EXCEPT ![p] = hand[p]] /\ HeldMade("read", hand[p])
      BY <1>1, <3>1, <3>2 DEF HeldMade, TypeOK
    <3>4. Summaries' /\ Reports'
      BY <1>1, <1>2, <3>1, <3>2 DEF Summaries, Reports
    <3> QED BY <2>3, <3>1, <3>2, <3>3, <3>4
  <2>9. CASE ReadRecords(p)
    <3> DEFINE held == [summary |-> hand[p], records |-> Evidence(c)]
    <3>1. MadeSummary(hand[p]) /\ c \in Campaigns /\ review[p].steps # <<>>
      BY <1>4, <2>4, <2>9 DEF ReadRecords, HeldMade, At
    <3>2. HeldMade("compare", held)
      BY <1>1, <3>1, EvidenceYielded DEF HeldMade
    <3>3. /\ hand' = [hand EXCEPT ![p] = held] /\ Turn(p, "compare") /\ "compare" \in Steps
          /\ UNCHANGED <<summary, trust>>
      BY <2>9 DEF ReadRecords, Steps
    <3> HIDE DEF held
    <3>4. Hands'
      BY <2>3, <3>1, <3>2, <3>3
    <3> QED BY <1>1, <3>3, <3>4 DEF Summaries, Reports
  <2>10. ASSUME NEW b, Compare(p, b)
         PROVE  Summaries' /\ Reports' /\ Hands'
    <3> DEFINE t == Report(c, hand[p].summary, hand[p].records, SummaryOf(b))
    <3>1. MadeSummary(hand[p].summary) /\ Yielded(hand[p].records) /\ review[p].steps # <<>>
      BY <2>4, <2>10 DEF Compare, HeldMade, At
    <3>2. MadeReport(t)
      BY <3>1, ReportIsMade
    <3>3. /\ hand' = [hand EXCEPT ![p] = t] /\ Turn(p, "write") /\ "write" \in Steps
          /\ UNCHANGED <<summary, trust>>
      BY <2>10 DEF Compare, Steps
    <3> HIDE DEF t
    <3>4. HeldMade("write", t)
      BY <3>2 DEF HeldMade
    <3>5. Hands'
      BY <2>3, <3>1, <3>3, <3>4
    <3> QED BY <1>1, <3>3, <3>5 DEF Summaries, Reports
  <2>11. CASE WriteReport(p)
    <3>1. MadeReport(hand[p])
      BY <2>4, <2>11 DEF WriteReport, HeldMade
    <3>2. /\ trust' = [trust EXCEPT ![c] = hand[p]] /\ UNCHANGED summary
          /\ hand' = [hand EXCEPT ![p] = None] /\ \E at : review' = [review EXCEPT ![p] = at]
      BY <2>11 DEF WriteReport, GoOn
    <3>3. Summaries' /\ Reports'
      BY <1>1, <1>2, <3>1, <3>2 DEF Summaries, Reports
    <3> QED BY <2>2, <3>2, <3>3
  <2>12. CASE LoadCampaign(p)
    <3>1. /\ At(p, "pack") /\ UNCHANGED <<summary, trust, review>>
          /\ \E held : hand' = [hand EXCEPT ![p] = held]
      BY <2>12 DEF LoadCampaign
    <3>2. \A held : HeldMade(Head(review[p].steps), held)
      BY <3>1 DEF HeldMade, At
    <3> QED BY <1>1, <1>2, <3>1, <3>2 DEF Summaries, Reports, Hands
  <2>13. CASE WriteBack(p)
    <3>1. /\ UNCHANGED <<summary, trust>>
          /\ hand' = [hand EXCEPT ![p] = None] /\ \E at : review' = [review EXCEPT ![p] = at]
      BY <2>13 DEF WriteBack, GoOn
    <3> QED BY <1>1, <2>2, <3>1 DEF Summaries, Reports
  <2> QED BY <1>7, <2>1, <2>5, <2>6, <2>7, <2>8, <2>9, <2>10, <2>11, <2>12, <2>13 DEF ReviewNext
<1> QED BY <1>5, <1>6, <1>7 DEF Next

\* Every decision that is published was made of the runs it names.
LEMMA DecisionsInvariance == Spec => [](ReviewInv /\ DecisionsMade)
<1>1. Init => DecisionsMade
  BY DEF Init, DecisionsMade
<1>2. DecisionsMade /\ UNCHANGED vars => DecisionsMade'
  BY DEF DecisionsMade, vars
<1> QED BY <1>1, <1>2, DecisionsKept, ReviewInvariance, PTL DEF Spec

\* A GO is the worst of decisions that are all GO.
LEMMA GoAsksAll == \A S : Worst(S) = "GO" => "NO-GO" \notin S /\ "REVIEW" \notin S
BY DEF Worst

\* Every decision that is ever published is earned (DecisionsEarned;
\* summarize_campaign, write_authenticity_evidence): a GO by measurements of each kind,
\* a live campaign and a baseline with a task in common; and no NO-GO without a
\* baseline comes of records in which nothing went wrong and nothing lacks but what a
\* gateway may leave out, unless the report mixes an older summary with newer records.
THEOREM DecisionsAreEarned == Spec => []DecisionsEarned
<1>1. ASSUME DecisionsMade, NEW c \in Campaigns, summary[c] # None, summary[c].decision = "GO"
      PROVE  GoOfRecords(RecordsOf(summary[c].of))
  <2>1. /\ Yielded(summary[c].of)
        /\ Overall(Metrics(RecordsOf(summary[c].of))) = "GO"
    BY <1>1 DEF DecisionsMade, MadeSummary
  <2> QED BY <2>1, RecordsTyped, GoIsEarned
<1>2. ASSUME DecisionsMade, NEW c \in Campaigns, trust[c] # None
      PROVE  /\ trust[c].decision = "GO" =>
                  GoOfRecords(RecordsOf(trust[c].of)) /\ GoOfReport(trust[c])
             /\ trust[c].decision = "NO-GO" /\ trust[c].base = {} =>
                  LET records == RecordsOf(trust[c].of)
                  IN \/ DOMAIN records = {} \/ trust[c].records # trust[c].of
                     \/ \E p \in DOMAIN records : Blemished(records[p])
  <2> DEFINE t == trust[c]
             summarized == RecordsOf(t.of)
             records == RecordsOf(t.records)
             m == Metrics(summarized)
  <2>1. Yielded(t.of) /\ Yielded(t.records)
    BY <1>2 DEF DecisionsMade, MadeReport
  <2>2. PICK base : /\ t.base \in {{}, {base}}
                    /\ t.decision = Worst({ModelConfidence(m), GatewayReliability(m),
                                           Fingerprint(t.live, m, records),
                                           Auditability(t.live, m, records),
                                           IF t.base = {} THEN "REVIEW"
                                           ELSE Similarity(m, Metrics(RecordsOf(base)))})
    BY <1>2 DEF DecisionsMade, MadeReport
  <2>3. /\ IsFiniteSet(DOMAIN summarized)
        /\ summarized \in [DOMAIN summarized -> RecordsOfRun(Tasks)]
        /\ IsFiniteSet(DOMAIN records)
        /\ records \in [DOMAIN records -> RecordsOfRun(Tasks)]
    BY <2>1, RecordsTyped
  <2>4. ASSUME t.decision = "GO"
        PROVE  GoOfRecords(summarized) /\ GoOfReport(t)
    <3> HIDE DEF t, summarized, records
    <3>1. /\ "NO-GO" \notin {ModelConfidence(m), GatewayReliability(m),
                             Fingerprint(t.live, m, records), Auditability(t.live, m, records)}
          /\ "REVIEW" \notin {ModelConfidence(m), GatewayReliability(m),
                              Fingerprint(t.live, m, records), Auditability(t.live, m, records)}
          /\ t.base # {} /\ Similarity(m, Metrics(RecordsOf(base))) \notin {"NO-GO", "REVIEW"}
      BY <2>2, <2>4, GoAsksAll
    <3>2. /\ ModelConfidence(m) \in Decisions /\ GatewayReliability(m) \in Decisions
          /\ Fingerprint(t.live, m, records) \in Decisions
          /\ Auditability(t.live, m, records) \in Decisions
          /\ Similarity(m, Metrics(RecordsOf(base))) \in Decisions
      BY WorstDecides DEF ModelConfidence, GatewayReliability, Fingerprint, Auditability,
         Similarity, Grade, Decisions
    <3>3. /\ ModelConfidence(m) = "GO" /\ GatewayReliability(m) = "GO"
          /\ Fingerprint(t.live, m, records) = "GO" /\ Auditability(t.live, m, records) = "GO"
          /\ Similarity(m, Metrics(RecordsOf(base))) = "GO"
      BY <3>1, <3>2 DEF Decisions
    <3>4. GoOfRecords(summarized)
      <4>1. Overall(m) = "GO"
        BY <3>3 DEF Overall, Worst
      <4> QED BY <2>3, <4>1, GoIsEarned
    <3>5. /\ t.live
          /\ 4 * Count(summarized, LAMBDA r : r.returned # "none") >= Size(summarized)
          /\ 4 * Showing(records, "usage") >= Size(records)
          /\ 4 * Showing(records, "stop") >= Size(records)
      BY <2>3, <3>3, FingerprintEarned
    <3>6. Count(summarized, LAMBDA r : r.returned # "none") * Size(records)
            + Showing(records, "upstream") * Size(summarized)
            >= Size(summarized) * Size(records)
      BY <2>3, <3>3, AuditEarned
    <3>7. base \in t.base
      BY <2>2, <3>1
    <3>8. \E i \in DOMAIN summarized, j \in DOMAIN RecordsOf(base) :
            summarized[i].task = RecordsOf(base)[j].task
      BY <3>3, TaskInCommon
    <3> QED BY <3>4, <3>5, <3>6, <3>7, <3>8 DEF GoOfReport, summarized, records
  <2>5. ASSUME t.decision = "NO-GO", t.base = {}, DOMAIN summarized # {}, t.records = t.of,
               \A p \in DOMAIN summarized : ~Blemished(summarized[p])
        PROVE  FALSE
    <3>1. Flawless(summarized) /\ records = summarized
      BY <2>3, <2>5 DEF Flawless
    <3> HIDE DEF t, summarized, records
    <3>2. "NO-GO" \notin {ModelConfidence(m), GatewayReliability(m),
                          Fingerprint(t.live, m, records), Auditability(t.live, m, records)}
      BY <3>1, FlawlessIsNoNoGo
    <3>3. t.decision # "NO-GO"
      BY <2>2, <2>5, <3>2 DEF Worst
    <3> QED BY <2>5, <3>3
  <2> QED BY <2>4, <2>5
<1>3. ReviewInv /\ DecisionsMade => DecisionsEarned
  BY <1>1, <1>2 DEF DecisionsEarned
<1> QED BY <1>3, DecisionsInvariance, PTL
=============================================================================
