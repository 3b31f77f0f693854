---------------------------- MODULE MCExceptions ----------------------------
(***************************************************************************)
(* Exceptions for every loop of three instructions, in every mode that has *)
(* vectors, with interrupts masked and unmasked.                           *)
(***************************************************************************)
EXTENDS Exceptions

MCPrograms == [1 .. 3 -> Instructions]

MCPStates == {EL0t, EL1t, EL1h, AArch32,
              EL0t + DAIF, EL1t + DAIF, EL1h + DAIF, AArch32 + DAIF}

(* The shell: its loop starts with an SVC; boot.S enters it with 0x3c5.    *)
ShellLoop == {<<"svc", "op", "op">>}
ShellPState == {EL1h + DAIF}
=============================================================================
