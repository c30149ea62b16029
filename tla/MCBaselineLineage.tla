------------------------- MODULE MCBaselineLineage -------------------------
(* Small instances of BaselineLineage for TLC.                             *)
EXTENDS BaselineLineage
CONSTANTS b1, b2, c1, c2, c3
MCTwoBuilders == {b1, b2}
MCContents == {c1, c2, c3}
=============================================================================
