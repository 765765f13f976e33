--------------------------- MODULE MCSamplingRunner -------------------------
(***************************************************************************)
(* Instances of SamplingRunner for TLC.                                    *)
(***************************************************************************)
EXTENDS SamplingRunner, TLC

CONSTANTS j1, j2

Types == (j1 :> "sampling" @@ j2 :> "evaluation")
Counts == (j1 :> 2 @@ j2 :> 0)
=============================================================================
