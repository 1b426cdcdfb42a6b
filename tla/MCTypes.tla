------------------------------ MODULE MCTypes ------------------------------
(* TLC instance of Types: i32 and a word of 4 bytes; room for three types  *)
(* of the clients, so that arrays of equal hash meet: [3 x [0 x i32]] and  *)
(* [0 x [3 x i32]], one of them with its element.                          *)
EXTENDS Types

MCBasic == {5}
=============================================================================
