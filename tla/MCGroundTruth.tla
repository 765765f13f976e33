---------------------------- MODULE MCGroundTruth ---------------------------
(***************************************************************************)
(* Instances of GroundTruth for TLC.                                       *)
(***************************************************************************)
EXTENDS GroundTruth, TLC

OneTemplate == [g \in Versions |-> "t1"]

\* Every gate at its limit
Corpora == [g \in Versions |->
    [valid |-> TRUE, profile |-> TRUE, objects |-> 100, most |-> 60,
     non_person |-> 50, classes |-> 5, live |-> 20, screen |-> 20,
     composited |-> 10, small |-> 15, large |-> 15]]

TruthSymmetry == Permutations(Calls) \cup Permutations(Validations)
=============================================================================
