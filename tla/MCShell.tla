------------------------------ MODULE MCShell ------------------------------
(***************************************************************************)
(* RAM from 64 to 104, words of eight bits: addresses on both sides of     *)
(* both ends, lengths of one, two and three rows, and lengths that wrap.   *)
(***************************************************************************)
EXTENDS Shell

MCNumbers ==
  {0, 1, 16, 17, 40, 41, 63, 64, 65, 80, 96, 97, 100, 103, 104, 192, 200, 255}
=============================================================================
