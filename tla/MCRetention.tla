----------------------------- MODULE MCRetention ----------------------------
(***************************************************************************)
(* Instances of Retention for TLC.                                         *)
(***************************************************************************)
EXTENDS RetentionInvariants, TLC

\* Every model is artifact 3, every frame set holds the others.
Payloads == [r \in Resources |-> IF r \in FrameSets THEN Artifacts \ {3} ELSE {3}]

RetentionSymmetry ==
    Permutations(Archives) \cup Permutations(Cancels) \cup Permutations(Sweeps)
=============================================================================
