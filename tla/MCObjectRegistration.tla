------------------------ MODULE MCObjectRegistration ------------------------
(***************************************************************************)
(* Instances of ObjectRegistration for TLC.                                *)
(***************************************************************************)
EXTENDS ObjectRegistration, TLC

RegistrationSymmetry ==
    Permutations(Definitions) \cup Permutations(Clerks)
        \cup Permutations(Attempts) \cup Permutations(Sweeps)
=============================================================================
