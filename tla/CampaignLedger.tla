--------------------------- MODULE CampaignLedger ---------------------------
(***************************************************************************)
(* What a campaign promises to whoever reads its evidence: every round     *)
(* accepts one run, an accepted run is never exchanged for another one,    *)
(* and the campaign is called complete only while every round has its run. *)
(* How attempts, crashes and resumes come about is left to Campaign.       *)
(***************************************************************************)
EXTENDS Naturals

CONSTANTS Rounds,     \* the rounds asked for with --repeat
          Attempts    \* the attempt numbers a run of a round may carry

VARIABLES accepted,   \* accepted[r]: the attempt whose run counts for r, 0 if none yet
          status      \* "open" or "complete"

ledgerVars == <<accepted, status>>

LedgerInit ==
  /\ accepted = [r \in Rounds |-> 0]
  /\ status = "open"

\* A round takes its run; it can do so once, and only in an open campaign.
Accept(r, a) ==
  /\ status = "open"
  /\ accepted[r] = 0
  /\ accepted' = [accepted EXCEPT ![r] = a]
  /\ UNCHANGED status

Close ==
  /\ status = "open"
  /\ \A r \in Rounds : accepted[r] # 0
  /\ status' = "complete"
  /\ UNCHANGED accepted

\* Resuming a campaign that was already complete opens it again.
Reopen ==
  /\ status = "complete"
  /\ status' = "open"
  /\ UNCHANGED accepted

LedgerNext ==
  \/ \E r \in Rounds, a \in Attempts : Accept(r, a)
  \/ Close
  \/ Reopen

LedgerSpec == LedgerInit /\ [][LedgerNext]_ledgerVars
=============================================================================
