------------------------------ MODULE MCRefList ------------------------------
(***************************************************************************)
(* TLC instance of RefList and its refinement of SeqList.                  *)
(***************************************************************************)
EXTENDS RefList, TLC

CONSTANT MaxLength        \* bound on the stale _length clean() accumulates

(* Addresses and elements are interchangeable. *)
Symmetry == Permutations(Cells) \cup Permutations(Elems)

BoundedLength == \A l \in Lists : length[l] <= MaxLength
=============================================================================
