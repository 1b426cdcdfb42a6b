---------------------------- MODULE MCMutableContext ----------------------------
(* Five objects of two types, three registers. *)
EXTENDS MutableContext, TLC

Symmetry == Permutations(Mutables) \cup Permutations(RegTypes)
=============================================================================
