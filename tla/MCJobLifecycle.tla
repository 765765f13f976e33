--------------------------- MODULE MCJobLifecycle ---------------------------
(***************************************************************************)
(* Instances of JobLifecycle for TLC.                                      *)
(***************************************************************************)
EXTENDS JobRefinement, JobInvariants, TLC

AllSampling == [j \in Jobs |-> "sampling"]
Mixed == [j \in Jobs |-> IF j = 1 THEN "sampling" ELSE "evaluation"]

\* Claims, requests and runners are only compared for equality.
CallSymmetry ==
    Permutations(Claims) \cup Permutations(Requests) \cup Permutations(Runners)
=============================================================================
