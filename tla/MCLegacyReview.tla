---------------------------- MODULE MCLegacyReview --------------------------
(***************************************************************************)
(* Instances of LegacyReview for TLC.                                      *)
(***************************************************************************)
EXTENDS LegacyReview

Same(x, y) == x = y
=============================================================================
