---------------------------- MODULE MCBlockCFG ----------------------------
(***************************************************************************)
(* TLC instance of BlockCFG.                                               *)
(***************************************************************************)
EXTENDS BlockCFG

(* Instructions of a class, blocks and case numbers are interchangeable.   *)
Symmetry ==
  UNION {Permutations(S) : S \in {Blocks, Plain, Phi, Unreachable, Jump, Branch, Switch, Cases}}

(* The instructions that end up in one list. *)
CONSTANT MaxLength
ShortBlocks == \A b \in Blocks : Len(insts[b]) <= MaxLength

(* Two populations in one instance: jumps with any two of the ordinary     *)
(* instructions and phis, or one jump with a branch and a switch.          *)
Used(S) == Cardinality({i \in S : i \in made \/ parent[i] # Null \/ Listed(i)})
Populations ==
  \/ Used(Branch \cup Switch) = 0 /\ Used(Plain \cup Phi) <= 2
  \/ Used(Plain \cup Phi) = 0 /\ Used(Jump) <= 1

(* The counts a long series of edits can pile up. *)
CONSTANT MaxCount
SmallCounts == \A p, q \in Blocks : jumps_to[p][q] <= MaxCount /\ comes_from[p][q] <= MaxCount

(* The calls that break something: a branch, or a switch among others. *)
OneEdited == Used(Branch) = 0 \/ Used(Plain \cup Switch) = 0
=============================================================================
