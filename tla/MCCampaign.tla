----------------------------- MODULE MCCampaign -----------------------------
(* Small instances of Campaign for TLC. *)
EXTENDS CampaignProofs

\* The first round meets the directory of an earlier campaign of the same id.
MCForeignRuns == {<<1, 1>>}
=============================================================================
