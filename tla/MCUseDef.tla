------------------------------ MODULE MCUseDef ------------------------------
(***************************************************************************)
(* TLC instance of UseDef: one instruction of any class, and one that can  *)
(* be its operand.                                                         *)
(***************************************************************************)
EXTENDS UseDef, TLC

CONSTANTS n1, n2, q, p, r, f,    \* leaves
          i1, i2                 \* instructions

MCLeafType == n1 :> "int" @@ n2 :> "int" @@ q :> "bool" @@ p :> "ptr" @@ r :> "arr" @@ f :> "fun"
MCKinds    == i1 :> Classes @@ i2 :> {"Load", "IToF"}
=============================================================================
