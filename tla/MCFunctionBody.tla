--------------------------- MODULE MCFunctionBody ---------------------------
(***************************************************************************)
(* TLC instance of FunctionBody: functions, blocks, globals and names are  *)
(* interchangeable.                                                        *)
(***************************************************************************)
EXTENDS FunctionBody

Symmetry == UNION {Permutations(S) : S \in {Functions, Blocks, Globals, Names}}
=============================================================================
