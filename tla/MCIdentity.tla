------------------------------ MODULE MCIdentity -----------------------------
(***************************************************************************)
(* Instances of Identity for TLC.                                          *)
(***************************************************************************)
EXTENDS Identity, TLC

CONSTANTS any, change  \* a call that does anything, one that updates accounts

WhoDoes == [c \in Calls |-> IF c = change THEN {"update"} ELSE Operation]

\* With nobody established, people and sessions differ by name alone.
IdentitySymmetry == Permutations(People) \cup Permutations(Sessions)

RequestedRoles == {{"owner"}, {"researcher"}}
=============================================================================
