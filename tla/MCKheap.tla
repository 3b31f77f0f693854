------------------------------ MODULE MCKheap ------------------------------
(***************************************************************************)
(* Kheap with the null boot parameters that boot.S passes.                 *)
(***************************************************************************)
EXTENDS Kheap

MCBootParams == {<<>>}
=============================================================================
