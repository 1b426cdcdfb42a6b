------------------------------- MODULE MCOwnedRef -------------------------------
(* Three variables and three objects with a field each, one of them inline. *)
EXTENDS OwnedRef, TLC

Symmetry == Permutations(Vars) \cup Permutations(Objects \ Inline)
=============================================================================
