---------------------------- MODULE MCStrtoull ----------------------------
(***************************************************************************)
(* All strings up to MAX_LENGTH characters over an alphabet with a space,  *)
(* a sign, the prefix, and digits of every kind: "0", "1", "9", "f", "F"   *)
(* and "g", a letter that is no digit.                                     *)
(***************************************************************************)
EXTENDS Strtoull, SequencesExt

CONSTANT MAX_LENGTH

MCAlphabet == {32, 45, 48, 49, 57, 70, 102, 103, 120}

MCStrings == BoundedSeq(MCAlphabet, MAX_LENGTH)
=============================================================================
