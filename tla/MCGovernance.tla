---------------------------- MODULE MCGovernance ----------------------------
(***************************************************************************)
(* Instances of Governance for TLC.                                        *)
(***************************************************************************)
EXTENDS Governance, TLC

CONSTANTS g1, m1, r1, r2, e1, e2

OneTemplate == [g \in Versions |-> "t1"]
Corpora == [g \in Versions |->
    [valid |-> TRUE, profile |-> TRUE, objects |-> 100, most |-> 60,
     non_person |-> 50, classes |-> 5, live |-> 20, screen |-> 20,
     composited |-> 10, small |-> 15, large |-> 15]]

OneModel == [r \in Releases |-> m1]

\* A run for each release; the model's own run is asked for twice.
Asked(r, key) == [truth |-> g1, model |-> m1, release |-> r, key |-> key]
RunInputs == [e \in Runs |-> CASE e = e1 -> Asked(r1, None)
                               [] e = e2 -> Asked(r2, None)
                               [] OTHER -> Asked(None, "k1")]

\* Runs e3 and e4 are created with the same inputs.
DeciderSymmetry == Permutations(Deciders) \cup Permutations(Runs \ {e1, e2})
=============================================================================
