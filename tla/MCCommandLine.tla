--------------------------- MODULE MCCommandLine ---------------------------
(***************************************************************************)
(* One letter, twice the letter as the word exit, the space, and a         *)
(* character of every other kind the reader tells apart.  Words differ in  *)
(* their length.                                                           *)
(***************************************************************************)
EXTENDS CommandLine

MCKeys == {NUL, BS, CR, SPACE, 97}

MCExit == <<97, 97>>
=============================================================================
