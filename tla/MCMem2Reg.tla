----------------------------- MODULE MCMem2Reg -----------------------------
(***************************************************************************)
(* TLC instance of Mem2Reg: the functions that have one of the flow graphs *)
(* below and one of the snippets in each block.                            *)
(***************************************************************************)
EXTENDS Mem2Reg

alloca(a) == [op |-> "alloca", var |-> a, integer |-> a # "p"]
load(a)   == [op |-> "load", var |-> a]
store(a, v) == [op |-> "store", var |-> a, val |-> v]

(* Instructions of block b; a variable may be set from the other. *)
Snippets(b) ==
  { <<>>,
    <<store("a", <<"inst", b, 1>>)>>,
    <<load("a"), store("a", <<"inst", b, 2>>), store("b", <<"load", b, 1>>)>> }
Uses(b) == {<<load("a")>>, <<load("b"), store("a", <<"load", b, 1>>)>>}

(* The entry declares two variables, one of them never used in some        *)
(* functions, and one that is no integer.                                  *)
Entry(set) ==
  <<alloca("p"), alloca("a"), alloca("b")>> \o
  IF set THEN <<store("a", <<"inst", 1, 4>>)>> ELSE <<store("p", <<"inst", 1, 4>>)>>

(* A branch that joins, a loop with an exit, a loop in which a branch      *)
(* joins, and a branch whose targets are the same block.                   *)
Graphs ==
  { <<<<2, 3>>, <<4>>, <<4>>, <<>>>>,
    <<<<2>>, <<3, 4>>, <<2>>, <<>>>>,
    <<<<2>>, <<3, 4>>, <<4>>, <<2>>>>,
    <<<<2, 3>>, <<3>>, <<2, 4>>, <<>>>>,
    <<<<2, 2>>, <<3>>, <<2, 4>>, <<>>>> }

(* Two variables that change places round after round. *)
Swapping ==
  [succ |-> <<<<2>>, <<2, 3>>, <<>>>>,
   code |-> << <<alloca("a"), alloca("b"), store("a", <<"inst", 1, 3>>)>>,
               <<load("a"), load("b"), store("a", <<"load", 2, 2>>), store("b", <<"load", 2, 1>>)>>,
               <<load("a"), load("b")>> >>]

Straight == [succ |-> <<<<>>>>, code |-> << <<alloca("a"), alloca("b"), store("b", <<"inst", 1, 3>>)>> >>]

(* A variable of the loop's own, allocated anew each time round. *)
Inner ==
  [succ |-> <<<<2>>, <<2, 3>>, <<>>>>,
   code |-> << <<alloca("a"), store("a", <<"inst", 1, 2>>)>>,
               <<load("a"), alloca("c"), store("c", <<"load", 2, 1>>), load("c"), store("a", <<"inst", 2, 5>>)>>,
               <<load("a"), load("c")>> >>]

MCFunctions ==
  {Swapping, Straight, Inner} \cup
  {[succ |-> g, code |-> <<Entry(set), s2, s3, s4>>] :
     g \in Graphs, set \in BOOLEAN, s2 \in Snippets(2), s3 \in Snippets(3), s4 \in Uses(4)}
=============================================================================
