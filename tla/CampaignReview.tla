--------------------------- MODULE CampaignReview ---------------------------
(***************************************************************************)
(* What is published about campaigns while they run, are resumed, are      *)
(* reviewed and are exported: summary.json, authenticity_summary.json and  *)
(* the leaderboard (campaigns.py, authenticity.py, and the commands of     *)
(* eval_cli.py that call them).                                            *)
(*                                                                         *)
(* Here a campaign runs in coarser steps than in Campaign, which has every *)
(* write of its own: a round is opened, its run writes its records and     *)
(* then its status, the campaign is summarized.  A reviewer summarizes, or *)
(* reads the summary, the records and the baseline of its report, in steps *)
(* of their own, and writes what it made of them in a later one, so that   *)
(* it may be older by then than what others wrote.  Files cut off in the   *)
(* middle of a write are Campaign's subject and left out.                  *)
(***************************************************************************)
EXTENDS ReviewRules

CONSTANTS
  Campaigns, Reviewers, None,
  Repeat,            \* per campaign: its rounds
  Modes,             \* per campaign: whether it may be live, or dry
  Benchmark,         \* per campaign: what it is compared by, besides being live
  Tasks,
  Yields,            \* per name: the records a run may yield, and its benchmark score
  Outcomes,          \* per campaign, live or dry: what its runs may yield
  MaxReferences,     \* bound, per campaign: the references of run_ids.json
  MaxInvocations,    \* bound: invocations of the campaign command
  MaxRunning,        \* bound: campaigns under way at a time
  MaxCommands,       \* bound: commands of the reviewers
  MaxKills           \* bound, per campaign: processes killed, the last of them its own

ASSUME ReviewAssumption ==
  /\ Campaigns \cap Reviewers = {} /\ None \notin Campaigns \cup Reviewers \cup DOMAIN Yields
  /\ Repeat \in [Campaigns -> Nat \ {0}] /\ Modes \in [Campaigns -> SUBSET BOOLEAN]
  /\ Outcomes \in [Campaigns -> [BOOLEAN -> SUBSET DOMAIN Yields]]
  /\ \A y \in DOMAIN Yields : /\ Yields[y].records \in Seq(RecordsOfRun(Tasks))
                              /\ Yields[y].benchmark \in {NoScore} \cup Nat

VARIABLES
  doc,       \* campaign.json: the status and whether the provider is live
  opened,    \* run_ids.json: per round the place of its last reference in the list, and
             \* zero if there is none; the others are replaced
  runs,      \* the last run of each round: its status in state.json, and its records
  summary,   \* summary.json
  trust,     \* authenticity_summary.json
  runner,    \* the process that runs a campaign: where it is, and in which round
  review,    \* per reviewer: the steps of its command that are left, and on which campaign
  hand,      \* per reviewer: what it has gathered and not yet written
  used       \* how much of the bounds is used

vars == <<doc, opened, runs, summary, trust, runner, review, hand, used>>

-----------------------------------------------------------------------------
Rounds(c) == 1 .. Repeat[c]
Exists(c) == doc[c].status # "none"

RunnerIdle == [pc |-> "idle", round |-> 0]
ReviewerIdle == [steps |-> <<>>, compares |-> FALSE, campaign |-> None]
NoRun == [status |-> "none", yield |-> None]

Init ==
  /\ doc = [c \in Campaigns |-> [status |-> "none", live |-> FALSE]]
  /\ opened = [c \in Campaigns |-> [r \in Rounds(c) |-> 0]]
  /\ runs = [c \in Campaigns |-> [r \in Rounds(c) |-> NoRun]]
  /\ summary = [c \in Campaigns |-> None]
  /\ trust = [c \in Campaigns |-> None]
  /\ runner = [c \in Campaigns |-> RunnerIdle]
  /\ review = [p \in Reviewers |-> ReviewerIdle]
  /\ hand = [p \in Reviewers |-> None]
  /\ used = [invocations |-> 0, commands |-> 0, kills |-> 0]

\* The active references of run_ids.json whose runs have written their records, each
\* a place in the list and a round
EvidenceOf(places, last) ==
  LET written == {r \in DOMAIN places : places[r] > 0 /\ last[r].yield # None}
  IN [ref \in {<<places[r], r>> : r \in written} |-> last[ref[2]].yield]

Evidence(c) == EvidenceOf(opened[c], runs[c])

\* The records of all of them
RecordsOf(yields) ==
  LET positions(ref) == {<<ref, i>> : i \in DOMAIN Yields[yields[ref]].records}
  IN [p \in UNION {positions(ref) : ref \in DOMAIN yields} |->
        Yields[yields[p[1]]].records[p[2]]]

AllCompleted(c) ==
  /\ \E r \in Rounds(c) : opened[c][r] > 0
  /\ \A r \in Rounds(c) : opened[c][r] > 0 => runs[c][r].status = "completed"

-----------------------------------------------------------------------------
(* Summaries and trust reports                                             *)

\* The status of a campaign under way, or that failed, stands; that of any
\* other is told by its runs.
SummaryStatus(c) ==
  IF doc[c].status \in {"running", "failed", "partial"} THEN doc[c].status
  ELSE IF AllCompleted(c) THEN "completed" ELSE "partial"

\* summarize_campaign: what its metrics and decisions were made of is kept, and
\* the decision for short.
Summarize(c) ==
  [ status   |-> SummaryStatus(c),
    live     |-> doc[c].live,
    of       |-> Evidence(c),
    decision |-> Overall(Metrics(RecordsOf(Evidence(c)))) ]

\* Slip: the report takes its status from campaign.json.
ReportStatusOfCampaign(c, s) == doc[c].status

\* The report repeats the status of the summary it was made of.
ReportStatus(c, s) == s.status

\* write_authenticity_evidence, from a summary that may be older than the records
\* that were read; base is the summary of the campaign compared with, if there is
\* one, and what that one was made of is kept as the report's base.
Report(c, s, yields, base) ==
  LET m       == Metrics(RecordsOf(s.of))
      records == RecordsOf(yields)
  IN [ status   |-> ReportStatus(c, s),
       live     |-> s.live,
       of       |-> s.of,
       records  |-> yields,
       base     |-> IF base = None THEN {} ELSE {base.of},
       decision |-> Worst({ModelConfidence(m), GatewayReliability(m),
                           Fingerprint(s.live, m, records), Auditability(s.live, m, records),
                           IF base = None THEN "REVIEW"
                           ELSE Similarity(m, Metrics(RecordsOf(base.of)))}) ]

-----------------------------------------------------------------------------
(* The campaign command                                                    *)

RunnerAt(c, pc) == runner[c].pc = pc
Goto(c, pc) == runner' = [runner EXCEPT ![c].pc = pc]
Invoke == /\ used.invocations < MaxInvocations
          /\ Cardinality({c \in Campaigns : ~RunnerAt(c, "idle")}) < MaxRunning
          /\ used' = [used EXCEPT !.invocations = @ + 1]

OnlyRunner == UNCHANGED <<doc, opened, runs, summary, trust, review, hand, used>>

\* run_campaign for a new campaign; campaign_retest, and authenticity of a
\* campaign that is not there, start one in the same way.
Start(c, live) ==
  /\ ~Exists(c)
  /\ Invoke
  /\ doc' = [doc EXCEPT ![c] = [status |-> "running", live |-> live]]
  /\ runner' = [runner EXCEPT ![c] = [pc |-> "round", round |-> 1]]
  /\ UNCHANGED <<opened, runs, summary, trust, review, hand>>

\* run_campaign --resume
Resume(c) ==
  /\ Exists(c) /\ RunnerAt(c, "idle")
  /\ Invoke
  /\ doc' = [doc EXCEPT ![c].status = "running"]
  /\ runner' = [runner EXCEPT ![c] = [pc |-> "round", round |-> 1]]
  /\ UNCHANGED <<opened, runs, summary, trust, review, hand>>

NextRound(c) ==
  IF runner[c].round = Repeat[c] THEN [pc |-> "close", round |-> 0]
  ELSE [pc |-> "round", round |-> runner[c].round + 1]

SkipRound(c) ==
  /\ RunnerAt(c, "round")
  /\ runs[c][runner[c].round].status = "completed"
  /\ runner' = [runner EXCEPT ![c] = NextRound(c)]
  /\ OnlyRunner

\* The list of references grows at its end.
NextPlace(places) == Max({places[r] : r \in DOMAIN places}) + 1

\* The run of the round is replaced by a new one.  Its directory stays, and
\* nothing here reads it again.
OpenRound(c) ==
  LET place == NextPlace(opened[c])
  IN /\ RunnerAt(c, "round")
     /\ runs[c][runner[c].round].status # "completed"
     /\ place <= MaxReferences[c]
     /\ opened' = [opened EXCEPT ![c][runner[c].round] = place]
     /\ runs' = [runs EXCEPT ![c][runner[c].round] = NoRun]
     /\ Goto(c, "opened")
     /\ UNCHANGED <<doc, summary, trust, review, hand, used>>

\* run_job writes the records before it settles the status.
WriteRecords(c, y) ==
  /\ RunnerAt(c, "run")
  /\ runs' = [runs EXCEPT ![c][runner[c].round] = [status |-> "running", yield |-> y]]
  /\ Goto(c, "records")
  /\ UNCHANGED <<doc, opened, summary, trust, review, hand, used>>

FinishRun(c, status) ==
  /\ RunnerAt(c, "records")
  /\ runs' = [runs EXCEPT ![c][runner[c].round].status = status]
  /\ Goto(c, "returned")
  /\ UNCHANGED <<doc, opened, summary, trust, review, hand, used>>

\* An exception in the run ends the loop, after the campaign was summarized.
RunRaises(c) ==
  /\ runner[c].pc \in {"run", "records"}
  /\ Goto(c, "raised")
  /\ OnlyRunner

\* The three places where run_campaign summarizes
Summarizing == [opened |-> "run", returned |-> "next", raised |-> "fail", closed |-> "idle"]

SummarizeOwn(c) ==
  /\ runner[c].pc \in DOMAIN Summarizing
  /\ summary' = [summary EXCEPT ![c] = Summarize(c)]
  /\ LET after == Summarizing[runner[c].pc]
     IN runner' = [runner EXCEPT ![c] = CASE after = "next" -> NextRound(c)
                                          [] after = "idle" -> RunnerIdle
                                          [] OTHER -> [@ EXCEPT !.pc = after]]
  /\ UNCHANGED <<doc, opened, runs, trust, review, hand, used>>

\* The final status of campaign.json
Close(c) ==
  /\ runner[c].pc \in {"close", "fail"}
  /\ doc' = [doc EXCEPT ![c].status =
               IF RunnerAt(c, "fail") THEN "failed"
               ELSE IF AllCompleted(c) THEN "completed" ELSE "partial"]
  /\ Goto(c, "closed")
  /\ UNCHANGED <<opened, runs, summary, trust, review, hand, used>>

-----------------------------------------------------------------------------
(* The commands of the reviewers                                           *)

\* authenticity and campaign-export summarize first, authenticity-export and
\* fingerprint take the summary that is there; status, inspect and list
\* summarize only when there is none.  Two let the user name a campaign to
\* compare with.
Commands ==
  [ authenticity        |-> [steps |-> <<"gather", "report">>, compares |-> TRUE],
    campaign_export     |-> [steps |-> <<"gather", "report", "pack">>, compares |-> FALSE],
    authenticity_export |-> [steps |-> <<"report", "pack">>, compares |-> TRUE],
    fingerprint         |-> [steps |-> <<"report">>, compares |-> FALSE],
    status              |-> [steps |-> <<"gather">>, compares |-> FALSE] ]

At(p, step) == review[p].steps # <<>> /\ Head(review[p].steps) = step

\* The step goes on with its next part.
Turn(p, part) == review' = [review EXCEPT ![p].steps[1] = part]

\* The command goes on to its next step, or is over.
GoOn(p) ==
  review' = [review EXCEPT ![p] = IF Len(@.steps) = 1 THEN ReviewerIdle
                                  ELSE [@ EXCEPT !.steps = Tail(review[p].steps)]]

Begin(p, c, command) ==
  /\ used.commands < MaxCommands
  /\ review[p] = ReviewerIdle /\ Exists(c)
  /\ command = "status" => summary[c] = None
  /\ used' = [used EXCEPT !.commands = @ + 1]
  /\ review' = [review EXCEPT ![p] = [steps |-> Commands[command].steps,
                                     compares |-> Commands[command].compares, campaign |-> c]]
  /\ UNCHANGED <<doc, opened, runs, summary, trust, runner, hand>>

Gather(p) ==
  /\ At(p, "gather") /\ hand[p] = None
  /\ hand' = [hand EXCEPT ![p] = Summarize(review[p].campaign)]
  /\ UNCHANGED <<doc, opened, runs, summary, trust, runner, review, used>>

WriteSummary(p) ==
  /\ At(p, "gather") /\ hand[p] # None
  /\ summary' = [summary EXCEPT ![review[p].campaign] = hand[p]]
  /\ hand' = [hand EXCEPT ![p] = None]
  /\ GoOn(p)
  /\ UNCHANGED <<doc, opened, runs, trust, runner, used>>

\* write_authenticity_evidence loads the summary, or makes one and writes it.
LoadSummary(p) ==
  LET c == review[p].campaign
  IN /\ At(p, "report") /\ hand[p] = None /\ summary[c] # None
     /\ hand' = [hand EXCEPT ![p] = summary[c]]
     /\ Turn(p, "read")
     /\ UNCHANGED <<doc, opened, runs, summary, trust, runner, used>>

MakeSummary(p) ==
  LET c == review[p].campaign
  IN /\ At(p, "report") /\ hand[p] = None /\ summary[c] = None
     /\ hand' = [hand EXCEPT ![p] = Summarize(c)]
     /\ UNCHANGED <<doc, opened, runs, summary, trust, runner, review, used>>

SaveSummary(p) ==
  /\ At(p, "report") /\ hand[p] # None
  /\ summary' = [summary EXCEPT ![review[p].campaign] = hand[p]]
  /\ Turn(p, "read")
  /\ UNCHANGED <<doc, opened, runs, trust, runner, hand, used>>

\* Then it reads the records of the runs there are by then,
ReadRecords(p) ==
  /\ At(p, "read") /\ hand[p] # None
  /\ hand' = [hand EXCEPT ![p] = [summary |-> hand[p], records |-> Evidence(review[p].campaign)]]
  /\ Turn(p, "compare")
  /\ UNCHANGED <<doc, opened, runs, summary, trust, runner, used>>

\* The baseline of a comparison: any campaign there is, in whatever state;
\* without a summary it is summarized, and nothing written.
Baselines(p) ==
  {None} \cup (IF review[p].compares THEN {b \in Campaigns : Exists(b)} ELSE {})

SummaryOf(b) ==
  IF b = None THEN None ELSE IF summary[b] = None THEN Summarize(b) ELSE summary[b]

\* then the summary of the baseline, and decides,
Compare(p, b) ==
  /\ At(p, "compare") /\ hand[p] # None
  /\ hand' = [hand EXCEPT ![p] =
                Report(review[p].campaign, hand[p].summary, hand[p].records, SummaryOf(b))]
  /\ Turn(p, "write")
  /\ UNCHANGED <<doc, opened, runs, summary, trust, runner, used>>

\* and writes the report.
WriteReport(p) ==
  /\ At(p, "write") /\ hand[p] # None
  /\ trust' = [trust EXCEPT ![review[p].campaign] = hand[p]]
  /\ hand' = [hand EXCEPT ![p] = None]
  /\ GoOn(p)
  /\ UNCHANGED <<doc, opened, runs, summary, runner, used>>

\* export_campaign reads campaign.json, packs, and writes what it read back,
\* with the name of the pack.
LoadCampaign(p) ==
  /\ At(p, "pack") /\ hand[p] = None
  /\ hand' = [hand EXCEPT ![p] = doc[review[p].campaign]]
  /\ UNCHANGED <<doc, opened, runs, summary, trust, runner, review, used>>

WriteBack(p) ==
  /\ At(p, "pack") /\ hand[p] # None
  /\ doc' = [doc EXCEPT ![review[p].campaign] = hand[p]]
  /\ hand' = [hand EXCEPT ![p] = None]
  /\ GoOn(p)
  /\ UNCHANGED <<opened, runs, summary, trust, runner, used>>

\* A kill leaves the files.  A reviewer that is killed is one that takes no further step.
Kill(c) ==
  /\ ~RunnerAt(c, "idle")
  /\ used.kills < MaxKills[c]
  /\ used' = [used EXCEPT !.kills = @ + 1]
  /\ runner' = [runner EXCEPT ![c] = RunnerIdle]
  /\ UNCHANGED <<doc, opened, runs, summary, trust, review, hand>>

-----------------------------------------------------------------------------
RunnerNext(c) ==
  \/ \E live \in Modes[c] : Start(c, live)
  \/ Resume(c) \/ SkipRound(c) \/ OpenRound(c) \/ RunRaises(c)
  \/ \E y \in Outcomes[c][doc[c].live] : WriteRecords(c, y)
  \/ \E status \in {"completed", "partial"} : FinishRun(c, status)
  \/ SummarizeOwn(c) \/ Close(c)

ReviewNext(p) ==
  \/ \E c \in Campaigns, command \in DOMAIN Commands : Begin(p, c, command)
  \/ Gather(p) \/ WriteSummary(p)
  \/ LoadSummary(p) \/ MakeSummary(p) \/ SaveSummary(p) \/ ReadRecords(p)
  \/ \E b \in Baselines(p) : Compare(p, b)
  \/ WriteReport(p) \/ LoadCampaign(p) \/ WriteBack(p)

Next ==
  \/ \E c \in Campaigns : RunnerNext(c) \/ Kill(c)
  \/ \E p \in Reviewers : ReviewNext(p)

Spec == Init /\ [][Next]_vars
-----------------------------------------------------------------------------
Decisions == {"GO", "REVIEW", "NO-GO"}
DocStatuses == {"running", "completed", "partial", "failed"}
CampaignRecord == [status : DocStatuses \cup {"none"}, live : BOOLEAN]
RunRecord == [status : {"none", "running", "completed", "partial"},
              yield : DOMAIN Yields \cup {None}]
RunnerRecord ==
  [ pc : {"idle", "round", "opened", "run", "records", "returned", "raised", "fail", "close",
          "closed"},
    round : Nat ]
Steps == {"gather", "report", "read", "compare", "write", "pack"}
ReviewerRecord ==
  [steps : Seq(Steps), compares : BOOLEAN, campaign : Campaigns \cup {None}]

\* What a summary and a trust report have in common
Published(s) == s.status \in DocStatuses /\ s.live \in BOOLEAN /\ s.decision \in Decisions

\* What a reviewer holds at a step
HoldsAt(step, held) ==
  /\ step = "pack" => held \in CampaignRecord
  /\ step \in {"gather", "report", "read", "write"} => Published(held)
  /\ step = "compare" => Published(held.summary)

\* The runner of each campaign, with its rounds
RunnerTypes ==
  /\ runner \in [Campaigns -> RunnerRecord]
  /\ opened = [c \in Campaigns |-> opened[c]] /\ runs = [c \in Campaigns |-> runs[c]]
  /\ \A c \in Campaigns : /\ opened[c] \in [Rounds(c) -> Nat]
                          /\ runs[c] \in [Rounds(c) -> RunRecord]

\* The types.
TypeOK ==
  /\ RunnerTypes
  /\ doc \in [Campaigns -> CampaignRecord]
  /\ summary = [c \in Campaigns |-> summary[c]] /\ trust = [c \in Campaigns |-> trust[c]]
  /\ \A c \in Campaigns : /\ summary[c] # None => Published(summary[c])
                          /\ trust[c] # None => Published(trust[c])
  /\ review \in [Reviewers -> ReviewerRecord]
  /\ hand = [p \in Reviewers |-> hand[p]]
  /\ \A p \in Reviewers : hand[p] # None =>
       review[p].steps # <<>> /\ HoldsAt(Head(review[p].steps), hand[p])
  /\ used \in [invocations : Nat, commands : Nat, kills : Nat]
-----------------------------------------------------------------------------
(* The leaderboard                                                         *)

\* campaign_leaderboard's filters, on the summaries that are there: a campaign
\* without one has not ended, and the filters drop it.
Ranked(live, samples) ==
  {c \in Campaigns : /\ summary[c] # None
                     /\ summary[c].status = "completed"
                     /\ live = "any" \/ summary[c].live = (live = "live")
                     /\ Size(RecordsOf(summary[c].of)) >= samples}

\* compatibility_key
Key(c) == <<Benchmark[c], summary[c].live>>

\* One group is shown, the one tested last; the times are left out, so that it
\* may be any.
Boards(live, samples) ==
  LET ranked == Ranked(live, samples)
  IN {{c \in ranked : Key(c) = Key(d)} : d \in ranked}

\* The score of summary_to_leaderboard_entry: of the benchmark, or of the
\* quality when there is none or it is zero
Score(yields) ==
  LET scored  == {ref \in DOMAIN yields : Yields[yields[ref]].benchmark # NoScore}
      total   == MapThenSumSet(LAMBDA ref : Yields[yields[ref]].benchmark, scored)
      quality == Metrics(RecordsOf(yields)).quality
  IN IF total > 0 THEN <<total, Cardinality(scored)>>
     ELSE IF Missing(quality) THEN Zero ELSE Times(quality, 100)

Above(c, d) ==
  LET p == Score(summary[c].of)
      q == Score(summary[d].of)
  IN p[1] * q[2] > q[1] * p[2]

-----------------------------------------------------------------------------
(* Properties                                                              *)

\* Every round has its completed run, which nothing replaces any more.
Settled(c) == \A r \in Rounds(c) : runs[c][r].status = "completed"

\* The score of the runs on disk
FinalAbove(c, d) ==
  LET p == Score(Evidence(c))
      q == Score(Evidence(d))
  IN p[1] * q[2] > q[1] * p[2]

\* Whatever is published as completed is final: a summary or a trust report that
\* says so was made of all the rounds' last runs, however old what its writer had
\* gathered, whoever else wrote, and whoever was killed; and a leaderboard ranks
\* such campaigns only, of one kind, as their runs on disk would
\* (summarize_campaign, write_authenticity_evidence, campaign_leaderboard).
PublishedFinal ==
  /\ \A c \in Campaigns :
       /\ summary[c] # None /\ summary[c].status = "completed" =>
            Settled(c) /\ summary[c].of = Evidence(c)
       /\ trust[c] # None /\ trust[c].status = "completed" =>
            Settled(c) /\ trust[c].of = Evidence(c) /\ trust[c].records = Evidence(c)
  /\ \A live \in {"live", "dry", "any"} : \A board \in Boards(live, 1) :
       /\ \A c \in board : Settled(c) /\ DOMAIN Evidence(c) # {}
       /\ \A c \in board : \A d \in board \ {c} :
            /\ Benchmark[c] = Benchmark[d] /\ doc[c].live = doc[d].live
            /\ Above(c, d) = FinalAbove(c, d)

\* In plain counts, what a GO of a campaign promises of its records: something
\* was measured of each kind, and it was good.
GoOfRecords(records) ==
  LET named  == Count(records, LAMBDA r : r.returned # "none")
      timed  == Count(records, LAMBDA r : r.latency # NoLatency)
      scored == Scored(records)
  IN /\ records # <<>> /\ named > 0 /\ timed > 0 /\ scored # {}
     /\ 100 * Count(records, LAMBDA r : r.returned = "other") <= 2 * named
     /\ 100 * Count(records, LAMBDA r : ~r.ok) <= 2 * Size(records)
     /\ \A i \in DOMAIN records : records[i].protocol
     /\ 2 * SumOfScores(records) >= 15 * Cardinality(scored)
     /\ 20 * Count(records, LAMBDA r : r.latency > 15) <= timed + 18

\* What a GO of a trust report adds: a live campaign, a baseline with a task in
\* common, and enough answers that show where they come from
GoOfReport(t) ==
  LET summarized == RecordsOf(t.of)
      records    == RecordsOf(t.records)
      named      == Count(summarized, LAMBDA r : r.returned # "none")
      showing(f) == Showing(records, f)
  IN /\ t.live
     /\ \E base \in t.base : LET theirs == RecordsOf(base)
                           IN \E i \in DOMAIN summarized, j \in DOMAIN theirs :
                                summarized[i].task = theirs[j].task
     /\ 4 * named >= Size(summarized)
     /\ 4 * showing("usage") >= Size(records) /\ 4 * showing("stop") >= Size(records)
     /\ named * Size(records) + showing("upstream") * Size(summarized)
          >= Size(summarized) * Size(records)

GatewayFields == {"upstream", "route", "processing"}

\* A record in which something went wrong, or that lacks more than a gateway may leave out
Blemished(r) ==
  \/ ~r.ok \/ ~r.protocol \/ r.returned # "same" \/ r.score \in 0 .. 5
  \/ ~(Features \ GatewayFields \subseteq r.has)

\* A GO is earned, by the measurements and never by their absence; and what is
\* merely missing of a baseline, of upstream ids and of the other gateway fields is
\* no NO-GO by itself, unless the report mixes an older summary with newer records
\* (model_confidence_decision, gateway_reliability_decision,
\* write_authenticity_evidence).
DecisionsEarned ==
  \A c \in Campaigns :
    /\ summary[c] # None /\ summary[c].decision = "GO" => GoOfRecords(RecordsOf(summary[c].of))
    /\ trust[c] # None /\ trust[c].decision = "GO" =>
         GoOfRecords(RecordsOf(trust[c].of)) /\ GoOfReport(trust[c])
    /\ trust[c] # None /\ trust[c].decision = "NO-GO" /\ trust[c].base = {} =>
         LET records == RecordsOf(trust[c].of)
         IN \/ DOMAIN records = {} \/ trust[c].records # trust[c].of
            \/ \E p \in DOMAIN records : Blemished(records[p])
=============================================================================
