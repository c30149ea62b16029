-------------------------- MODULE MCCampaignReview --------------------------
(* A gateway's live campaign of two rounds, and an official one of one     *)
(* round: live, the second of its two answers is another model's; dry, its *)
(* one record lacks the score and what a gateway may leave out.  Only the  *)
(* gateway's process is killed.                                            *)
EXTENDS CampaignReview

CONSTANTS gateway, official

MCRepeat == [c \in Campaigns |-> IF c = gateway THEN 2 ELSE 1]
MCModes == [c \in Campaigns |-> IF c = gateway THEN {TRUE} ELSE BOOLEAN]
MCBenchmark == [c \in Campaigns |-> "smoke"]

Good ==
  [task |-> "json", ok |-> TRUE, text |-> TRUE, protocol |-> TRUE, score |-> 9,
   latency |-> 5, returned |-> "same", has |-> Features]

Yield(records, benchmark) == [records |-> records, benchmark |-> benchmark]

MCYields ==
  [ good  |-> Yield(<<Good>>, 900),
    bare  |-> Yield(<<[Good EXCEPT !.score = NoScore, !.has = Features \ GatewayFields]>>, 0),
    other |-> Yield(<<Good, [Good EXCEPT !.task = "code", !.returned = "other"]>>, 800) ]

MCMaxReferences == [c \in Campaigns |-> IF c = gateway THEN 3 ELSE 1]

MCMaxKills == [c \in Campaigns |-> IF c = gateway THEN 1 ELSE 0]

MCOutcomes ==
  [c \in Campaigns |-> [live \in BOOLEAN |->
     IF c = gateway THEN {"good"} ELSE IF live THEN {"other"} ELSE {"bare"}]]
=============================================================================
