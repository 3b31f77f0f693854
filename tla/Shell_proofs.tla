--------------------------- MODULE Shell_proofs ---------------------------
(***************************************************************************)
(* The memory commands stay in RAM, wherever it lies and whatever is       *)
(* typed, except for a memdump whose range wraps.                          *)
(***************************************************************************)
EXTENDS Shell, TLAPS

(* Numbers and sizes are natural numbers below WORD.                       *)
LEMMA Constants ==
  /\ WORD \in Nat /\ PMM_RAM_BASE \in Nat /\ highest_ram \in Nat
  /\ PMM_RAM_BASE < highest_ram /\ highest_ram + 16 <= WORD
  /\ RAM_END \in Nat /\ RAM_END <= highest_ram
  /\ DEFAULT_LENGTH \in 1 .. WORD - 1
BY ShellConstants

(* is_address_valid is right about a range that does not wrap.             *)
LEMMA ValidRange ==
  ASSUME NEW a \in Nat, NEW len \in Nat, a + len <= WORD, AddressValid(a, len)
  PROVE  InRam(a, len)
<1>1. CASE len = 0
  BY <1>1, Constants DEF AddressValid, InRam
<1>2. CASE len > 0
  <2>1. a + len - 1 \in 0 .. WORD - 1
    BY <1>2, Constants
  <2>2. (a + len - 1) % WORD = a + len - 1
    BY <2>1, Constants
  <2> QED BY <1>2, <2>1, <2>2, Constants DEF AddressValid, InRam
<1> QED BY <1>1, <1>2

(* It refuses no range that lies in RAM.                                   *)
LEMMA RangeInRam ==
  ASSUME NEW a \in Nat, NEW len \in Nat \ {0}, InRam(a, len)
  PROVE  AddressValid(a, len)
<1>1. a + len - 1 \in 0 .. WORD - 1
  BY Constants DEF InRam
<1>2. (a + len - 1) % WORD = a + len - 1
  BY <1>1, Constants
<1> QED BY <1>1, <1>2, Constants DEF AddressValid, InRam

(* The words of an argument vector.                                        *)
LEMMA ArgumentTypes ==
  ASSUME NEW args \in Arguments, NEW k \in 1 .. 3
  PROVE  /\ Len(args) \in Nat
         /\ IsNumber(args, k) => args[k].number \in 0 .. WORD - 1
         /\ SizeBytes(args, k) \in {0, 1, 2, 4, 8}
<1>1. PICK n \in 0 .. 3 : args \in [1 .. n -> Words]
  BY DEF Arguments
<1>2. args \in Seq(Words) /\ Len(args) = n
  BY <1>1
<1>3. k <= n => args[k] \in Words
  BY <1>1
<1>4. \A w \in Words : /\ w.number \in Numbers \cup {NotANumber}
                       /\ w.size \in {0, 1, 2, 4, 8}
  BY DEF Words, AccessSizes
<1>5. IsNumber(args, k) => args[k].number \in 0 .. WORD - 1
  BY <1>2, <1>3, <1>4, ShellConstants DEF IsNumber
<1>6. SizeBytes(args, k) \in {0, 1, 2, 4, 8}
  BY <1>2, <1>3, <1>4 DEF SizeBytes
<1> QED BY <1>2, <1>5, <1>6

-----------------------------------------------------------------------------
(* The inductive invariant.  A dump in progress, or the one that has       *)
(* stopped the kernel, was accepted by is_address_valid; one in progress   *)
(* has read the first Done bytes of its range, all of them in RAM, so that *)
(* neither its addresses nor its index have wrapped.                       *)
Done == IF row < length THEN row ELSE length

Progress ==
  at = "dump" => /\ seen = addr .. addr + Done - 1
                 /\ addr + Done <= highest_ram

ShellInv ==
  /\ TypeOK
  /\ at = "dump" \/ effect.kind = "dump" => AddressValid(addr, length)
  /\ AccessesInRam
  /\ Progress

EffectKinds == {"none", "refused", "dump", "peek", "poke", "kmalloc", "kfree"}

LEMMA NoEffectType ==
  ASSUME effect' = NoEffect
  PROVE  /\ effect' \in [kind : EffectKinds, arg : 0 .. WORD - 1, len : 0 .. WORD - 1]
         /\ effect'.kind = "none"
BY Constants DEF NoEffect, EffectKinds

LEMMA ShellInvInit == Init => ShellInv
<1> SUFFICES ASSUME Init PROVE ShellInv
  OBVIOUS
<1>1. effect.kind = "none" /\ effect.arg = 0 /\ effect.len = 0
  BY DEF Init, NoEffect
<1>2. TypeOK
  BY Constants DEF Init, TypeOK, NoEffect
<1> QED BY <1>1, <1>2 DEF Init, ShellInv, AccessesInRam, Progress

LEMMA ShellInvOnlyPrints ==
  ASSUME ShellInv, OnlyPrints
  PROVE  ShellInv'
<1>1. UNCHANGED <<at, addr, length, row, seen>> /\ effect' = NoEffect
  BY DEF OnlyPrints, dump
<1>2. TypeOK' /\ effect'.kind = "none"
  BY <1>1, NoEffectType DEF ShellInv, TypeOK, EffectKinds
<1> QED BY <1>1, <1>2 DEF ShellInv, AccessesInRam, AddressValid, Progress,
                         Done

(* What is_address_valid refuses is not in RAM.                            *)
LEMMA ShellInvRefuses ==
  ASSUME ShellInv, NEW a \in 0 .. WORD - 1, NEW len \in 1 .. WORD - 1,
         Refuses(a, len)
  PROVE  ShellInv'
<1>1. UNCHANGED <<at, addr, length, row, seen>>
  BY DEF Refuses, dump
<1>2. effect' \in [kind : EffectKinds, arg : 0 .. WORD - 1, len : 0 .. WORD - 1]
      /\ effect'.kind = "refused" /\ effect'.arg = a /\ effect'.len = len
  BY Constants DEF Refuses, EffectKinds
<1>3. ~InRam(a, len)
  BY RangeInRam, Constants DEF Refuses
<1>4. TypeOK'
  BY <1>1, <1>2 DEF ShellInv, TypeOK, EffectKinds
<1> QED BY <1>1, <1>2, <1>3, <1>4
        DEF ShellInv, AccessesInRam, InRam, AddressValid, Progress, Done

(* peek and poke: one access that is_address_valid has accepted.           *)
LEMMA ShellInvAccess ==
  ASSUME ShellInv, at = "prompt", UNCHANGED dump,
         NEW kind \in {"peek", "poke"},
         NEW a \in 0 .. WORD - 1, NEW len \in {1, 2, 4, 8},
         AddressValid(a, len), Access(kind, a, len, len)
  PROVE  ShellInv'
<1>1. UNCHANGED <<addr, length, row, seen>>
  BY DEF dump
<1>2. a + len <= WORD
  BY Constants DEF AddressValid
<1>3. InRam(a, len)
  BY <1>2, ValidRange, Constants
<1>4. at' \in {"prompt", "halted"}
  BY DEF Access
<1>5. effect'.kind = kind /\ effect'.arg = a /\ effect'.len = len
  BY DEF Access
<1>6. TypeOK'
  <2>1. effect' \in [kind : EffectKinds, arg : 0 .. WORD - 1, len : 0 .. WORD - 1]
    BY Constants DEF Access, EffectKinds
  <2> QED BY <1>1, <1>4, <2>1 DEF ShellInv, TypeOK, EffectKinds
<1> QED BY <1>3, <1>4, <1>5, <1>6 DEF ShellInv, AccessesInRam, InRam, Progress

LEMMA ShellInvCalls ==
  ASSUME ShellInv, at = "prompt",
         NEW f \in {"kmalloc", "kfree"}, NEW a \in 0 .. WORD - 1, Calls(f, a)
  PROVE  ShellInv'
<1>1. UNCHANGED <<at, addr, length, row, seen>>
  BY DEF Calls, dump
<1>2. effect' \in [kind : EffectKinds, arg : 0 .. WORD - 1, len : 0 .. WORD - 1]
      /\ effect'.kind = f
  BY Constants DEF Calls, EffectKinds
<1>3. TypeOK'
  BY <1>1, <1>2 DEF ShellInv, TypeOK, EffectKinds
<1> QED BY <1>1, <1>2, <1>3 DEF ShellInv, AccessesInRam, Progress

LEMMA ShellInvMemdump ==
  ASSUME ShellInv, NEW args \in Arguments, CmdMemdump(args)
  PROVE  ShellInv'
<1>1. CASE ~DumpReads(args)
  BY <1>1, ShellInvOnlyPrints DEF CmdMemdump
<1>2. CASE DumpReads(args)
  <2> DEFINE a   == args[1].number
             len == DumpLength(args)
  <2>1. a \in 0 .. WORD - 1
    BY <1>2, ArgumentTypes DEF DumpReads
  <2>2. len \in 1 .. WORD - 1
    BY <1>2, ArgumentTypes, Constants DEF DumpReads, DumpLength
  <2>3. CASE Refuses(a, len)
    BY <2>1, <2>2, <2>3, ShellInvRefuses
  <2>4. CASE ~Refuses(a, len)
    <3>1. /\ addr' = a /\ length' = len /\ row' = 0 /\ seen' = {}
          /\ at' = "dump" /\ effect' = NoEffect /\ AddressValid(a, len)
      BY <1>2, <2>4 DEF CmdMemdump
    <3> HIDE DEF a, len
    <3>2. effect'.kind = "none" /\ TypeOK'
      BY <2>1, <2>2, <3>1, NoEffectType, Constants DEF TypeOK, EffectKinds
    <3>3. AddressValid(addr', length')
      BY <3>1
    <3>4. Progress'
      BY <2>1, <2>2, <3>1, Constants DEF Progress, Done, AddressValid
    <3> QED BY <3>2, <3>3, <3>4 DEF ShellInv, AccessesInRam, AddressValid
  <2> QED BY <2>3, <2>4
<1> QED BY <1>1, <1>2

LEMMA ShellInvDumpRow ==
  ASSUME ShellInv, DumpRow
  PROVE  ShellInv'
<1> DEFINE first == (addr + row) % WORD
<1>1. /\ addr \in 0 .. WORD - 1 /\ length \in 1 .. WORD - 1
      /\ row \in 0 .. WORD - 1 /\ row < length
      /\ AddressValid(addr, length) /\ UNCHANGED <<addr, length>>
      /\ row' = (row + 16) % WORD
  BY Constants DEF ShellInv, TypeOK, DumpRow, NextRow
<1>2. first \in 0 .. WORD - 1 /\ row' \in 0 .. WORD - 1
  BY <1>1, Constants
<1>3. RowLength \in 1 .. 16 /\ row + RowLength <= length
  BY <1>1, Constants DEF RowLength
<1>4. /\ effect' = [kind |-> "dump", arg |-> first, len |-> RowLength]
      /\ seen' = seen \cup first .. first + RowLength - 1
      /\ at' = IF Exists(first, RowLength) THEN "dump" ELSE "halted"
  BY <1>2 DEF DumpRow, Access
<1> HIDE DEF first
<1>5. TypeOK'
  <2>1. first .. first + RowLength - 1 \subseteq 0 .. WORD + 16
    BY <1>2, <1>3, Constants
  <2>2. seen' \subseteq 0 .. WORD + 16
    BY <1>4, <2>1 DEF ShellInv, TypeOK
  <2>3. effect' \in [kind : EffectKinds, arg : 0 .. WORD - 1, len : 0 .. WORD - 1]
    BY <1>2, <1>3, <1>4, Constants DEF EffectKinds
  <2>4. at' \in {"dump", "halted"}
    BY <1>4
  <2> QED BY <1>1, <1>2, <2>2, <2>3, <2>4 DEF TypeOK, EffectKinds
<1>6. effect'.kind = "dump" /\ effect'.arg = first /\ effect'.len = RowLength
  BY <1>4
<1>7. addr + length <= WORD => InRam(first, RowLength)
  <2> SUFFICES ASSUME addr + length <= WORD PROVE InRam(first, RowLength)
    OBVIOUS
  <2>1. InRam(addr, length)
    BY <1>1, ValidRange, Constants
  <2>2. first = addr + row
    BY <1>1, Constants DEF first
  <2> QED BY <1>1, <1>3, <2>1, <2>2, Constants DEF InRam
<1>8. Progress'
  <2> SUFFICES ASSUME at' = "dump" PROVE Progress'
    BY DEF Progress
  <2>1. seen = addr .. addr + row - 1 /\ addr + row <= highest_ram
    BY <1>1 DEF ShellInv, Progress, Done, DumpRow
  <2>2. first = addr + row /\ addr + row + RowLength <= highest_ram
    <3>1. first = addr + row
      BY <1>1, <2>1, Constants DEF first
    <3>2. first + RowLength <= RAM_END
      BY <1>4 DEF Exists
    <3> QED BY <1>1, <1>2, <1>3, <3>1, <3>2, Constants
  <2>3. row' = row + 16
    <3>1. row + 16 \in 0 .. WORD - 1
      BY <1>1, <1>3, <2>2, Constants
    <3>2. (row + 16) % WORD = row + 16
      BY <3>1, Constants
    <3> QED BY <1>1, <3>2
  <2>4. Done' = row + RowLength
    BY <1>1, <2>3 DEF Done, RowLength
  <2>5. seen' = addr .. addr + (row + RowLength) - 1
    BY <1>1, <1>3, <1>4, <2>1, <2>2
  <2> QED BY <1>1, <2>2, <2>4, <2>5, <1>3 DEF Progress
<1> QED BY <1>1, <1>5, <1>6, <1>7, <1>8
        DEF ShellInv, AccessesInRam, AddressValid, InRam

LEMMA ShellInvDumpEnd ==
  ASSUME ShellInv, DumpEnd
  PROVE  ShellInv'
<1>1. TypeOK' /\ effect'.kind = "none" /\ at' = "prompt"
  BY NoEffectType, Constants DEF DumpEnd, TypeOK, EffectKinds
<1> QED BY <1>1 DEF ShellInv, AccessesInRam, Progress

LEMMA ShellInvPeek ==
  ASSUME ShellInv, NEW args \in Arguments, CmdPeek(args)
  PROVE  ShellInv'
<1>1. CASE PeekReads(args)
  <2>1. args[1].number \in 0 .. WORD - 1
        /\ SizeBytes(args, 2) \in {1, 2, 4, 8}
    BY <1>1, ArgumentTypes DEF PeekReads
  <2>2. SizeBytes(args, 2) \in 1 .. WORD - 1
    BY <2>1, Constants
  <2> QED BY <1>1, <2>1, <2>2, ShellInvAccess, ShellInvRefuses DEF CmdPeek
<1> QED BY <1>1, ShellInvOnlyPrints DEF CmdPeek

LEMMA ShellInvPoke ==
  ASSUME ShellInv, NEW args \in Arguments, CmdPoke(args)
  PROVE  ShellInv'
<1>1. CASE PokeReads(args)
  <2>1. args[1].number \in 0 .. WORD - 1
        /\ SizeBytes(args, 3) \in {1, 2, 4, 8}
    BY <1>1, ArgumentTypes DEF PokeReads
  <2>2. SizeBytes(args, 3) \in 1 .. WORD - 1
    BY <2>1, Constants
  <2> QED BY <1>1, <2>1, <2>2, ShellInvAccess, ShellInvRefuses DEF CmdPoke
<1> QED BY <1>1, ShellInvOnlyPrints DEF CmdPoke

LEMMA ShellInvAlloc ==
  ASSUME ShellInv, NEW args \in Arguments, CmdAlloc(args)
  PROVE  ShellInv'
<1>1. CASE AllocAccepts(args)
  <2>1. args[1].number \in 0 .. WORD - 1
    BY <1>1, ArgumentTypes DEF AllocAccepts
  <2> QED BY <1>1, <2>1, ShellInvCalls DEF CmdAlloc
<1> QED BY <1>1, ShellInvOnlyPrints DEF CmdAlloc

LEMMA ShellInvFree ==
  ASSUME ShellInv, NEW args \in Arguments, CmdFree(args)
  PROVE  ShellInv'
<1>1. CASE IsNumber(args, 1)
  <2>1. args[1].number \in 0 .. WORD - 1
    BY <1>1, ArgumentTypes
  <2> QED BY <1>1, <2>1, ShellInvCalls DEF CmdFree
<1> QED BY <1>1, ShellInvOnlyPrints DEF CmdFree

LEMMA ShellInvExit ==
  ASSUME ShellInv, Exit
  PROVE  ShellInv'
<1>1. UNCHANGED <<addr, length, row, seen>>
  BY DEF Exit, dump
<1>2. TypeOK' /\ effect'.kind = "none" /\ at' = "exited"
  BY <1>1, NoEffectType DEF ShellInv, TypeOK, Exit, EffectKinds
<1> QED BY <1>2 DEF ShellInv, AccessesInRam, Progress

LEMMA ShellInvNext ==
  ASSUME ShellInv, [Next]_vars
  PROVE  ShellInv'
<1>1. CASE UNCHANGED vars
  BY <1>1 DEF vars, dump, ShellInv, TypeOK, AccessesInRam, AddressValid, InRam,
               Progress, Done
<1>2. CASE Dump
  BY <1>2, ShellInvDumpRow, ShellInvDumpEnd DEF Dump
<1>3. CASE CmdReport \/ Exit
  BY <1>3, ShellInvOnlyPrints, ShellInvExit DEF CmdReport
<1> QED BY <1>1, <1>2, <1>3, ShellInvMemdump, ShellInvPeek, ShellInvPoke,
           ShellInvAlloc, ShellInvFree DEF Next

(* The inductive invariant holds in every behaviour.                       *)
THEOREM ShellInvariant == Spec => []ShellInv
<1>1. ShellInv /\ [Next]_vars => ShellInv'
  BY ShellInvNext
<1> QED BY ShellInvInit, <1>1, PTL DEF Spec

(* The locals of memdump stay within their types, the index of its loop    *)
(* included, and memdump never loops over an empty range.                  *)
THEOREM ShellTypeCorrect == Spec => []TypeOK
<1>1. ShellInv => TypeOK
  BY DEF ShellInv
<1> QED BY ShellInvariant, <1>1, PTL

(* No peek or poke, and no memdump of a range that does not wrap, touches  *)
(* an address outside of RAM, and no range inside is refused, for any      *)
(* placement and size of RAM.                                              *)
THEOREM AccessesStayInRam == Spec => []AccessesInRam
<1>1. ShellInv => AccessesInRam
  BY DEF ShellInv
<1> QED BY ShellInvariant, <1>1, PTL

(* A memdump reads exactly the bytes it was asked for.                     *)
THEOREM DumpIsExact == Spec => []DumpExact
<1>1. ShellInv => DumpExact
  <2> SUFFICES ASSUME ShellInv, at = "dump" PROVE DumpExact
    BY DEF DumpExact
  <2>1. addr \in Nat /\ length \in Nat /\ row \in Nat
    BY Constants DEF ShellInv, TypeOK
  <2> QED BY <2>1 DEF ShellInv, Progress, Done, DumpExact
<1> QED BY ShellInvariant, <1>1, PTL
=============================================================================
