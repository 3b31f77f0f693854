------------------------------- MODULE Shell -------------------------------
(***************************************************************************)
(* The commands of the shell (src/shell/shell.c): what each makes of its   *)
(* arguments, and which memory it reads and writes.  CommandLine delivers  *)
(* argv, Strtoull the numbers in it, Kheap serves alloc and free.          *)
(*                                                                         *)
(* A word of argv is what the commands see in it: the number it denotes,   *)
(* or NotANumber if simple_strtoull stops before its end, and the number   *)
(* of bytes it stands for if it is one of the letters b, h, w, d, else 0.  *)
(***************************************************************************)
EXTENDS Integers, Sequences

CONSTANTS
  WORD,            \* uint64_t and size_t are numbers modulo WORD
  PMM_RAM_BASE,
  highest_ram,     \* pmm_get_highest_usable_address()
  RAM_END,         \* where the machine's memory really ends
  DEFAULT_LENGTH,  \* of memdump
  Numbers          \* numbers that are typed

NotANumber == -1

ASSUME ShellConstants ==
  /\ {WORD, PMM_RAM_BASE, highest_ram, RAM_END} \subseteq Nat
  /\ PMM_RAM_BASE < highest_ram /\ RAM_END <= highest_ram
  /\ highest_ram + 16 <= WORD
  /\ DEFAULT_LENGTH \in 1 .. WORD - 1
  /\ Numbers \subseteq 0 .. WORD - 1

AccessSizes == {1, 2, 4, 8}

Words ==
  [number : Numbers \cup {NotANumber}, size : {0}]
    \cup [number : {NotANumber}, size : AccessSizes]

(* The arguments of a command, without its name; more are ignored.         *)
Arguments == UNION {[1 .. n -> Words] : n \in 0 .. 3}

VARIABLES
  at,        \* "prompt", "dump" (in memdump's loop), "halted" or "exited"
  addr, length, row,   \* locals of memdump; row is its i
  effect,    \* history: what the last step did outside the shell
  seen       \* history: the addresses memdump has read

dump == <<addr, length, row, seen>>
vars == <<at, dump, effect>>

NoEffect == [kind |-> "none", arg |-> 0, len |-> 0]

-----------------------------------------------------------------------------
(* Mutant: only the start of the range is tested.                          *)
AddressValidStart(a, len) == a >= PMM_RAM_BASE /\ a < highest_ram

(* Mutant: one past the end of the range is compared.                      *)
AddressValidPast(a, len) ==
  /\ a >= PMM_RAM_BASE /\ a < highest_ram
  /\ ~(len > 0 /\ (a + len) % WORD >= highest_ram)

(* is_address_valid.  The end has wrapped when it is compared.             *)
AddressValid(a, len) ==
  /\ a >= PMM_RAM_BASE /\ a < highest_ram
  /\ ~(len > 0 /\ (a + len - 1) % WORD >= highest_ram)

InRam(first, len) == first >= PMM_RAM_BASE /\ first + len <= highest_ram

Exists(first, len) == first >= PMM_RAM_BASE /\ first + len <= RAM_END

(* External: the processor accesses memory, unit bytes at a time.  It      *)
(* aborts where there is none, and may at an address that is not aligned;  *)
(* then handle_sync_exception panics.                                      *)
Access(kind, first, len, unit) ==
  /\ effect' = [kind |-> kind, arg |-> first, len |-> len]
  /\ \/ Exists(first, len) /\ UNCHANGED at
     \/ (~Exists(first, len) \/ first % unit # 0) /\ at' = "halted"

(* "not within valid RAM": the command ends there.                         *)
Refuses(first, len) ==
  /\ ~AddressValid(first, len)
  /\ effect' = [kind |-> "refused", arg |-> first, len |-> len]
  /\ UNCHANGED <<at, dump>>

(* Usage, an error message, or a command that reports something.           *)
OnlyPrints == effect' = NoEffect /\ UNCHANGED <<at, dump>>

IsNumber(args, k) == k <= Len(args) /\ args[k].number # NotANumber

(* The size letter at position k, if there is one.                         *)
SizeBytes(args, k) == IF Len(args) >= k THEN args[k].size ELSE 8

DumpLength(args) == IF Len(args) >= 2 THEN args[2].number ELSE DEFAULT_LENGTH

(* Mutant: a length of zero is not caught.                                 *)
DumpReadsZero(args) ==
  IsNumber(args, 1) /\ (Len(args) >= 2 => IsNumber(args, 2))

DumpReads(args) ==
  /\ IsNumber(args, 1) /\ (Len(args) >= 2 => IsNumber(args, 2))
  /\ DumpLength(args) # 0

CmdMemdump(args) ==
  /\ at = "prompt"
  /\ \/ ~DumpReads(args) /\ OnlyPrints
     \/ DumpReads(args) /\ Refuses(args[1].number, DumpLength(args))
     \/ /\ DumpReads(args) /\ AddressValid(args[1].number, DumpLength(args))
        /\ addr' = args[1].number /\ length' = DumpLength(args)
        /\ row' = 0 /\ seen' = {}
        /\ at' = "dump" /\ effect' = NoEffect

(* Mutant: the last row is not cut off at length.                          *)
RowLengthFull == 16

(* The bytes of a row: those j < 16 with i + j < length.                   *)
RowLength == IF length - row < 16 THEN length - row ELSE 16

(* Mutant: the loop index does not advance.                                *)
NextRowSame == row

NextRow == (row + 16) % WORD

DumpRow ==
  /\ at = "dump" /\ row < length
  /\ LET first == (addr + row) % WORD IN
     /\ Access("dump", first, RowLength, 1)
     /\ seen' = seen \cup first .. first + RowLength - 1
  /\ row' = NextRow
  /\ UNCHANGED <<addr, length>>

DumpEnd ==
  /\ at = "dump" /\ row >= length
  /\ addr' = 0 /\ length' = 0 /\ row' = 0 /\ seen' = {}
  /\ at' = "prompt" /\ effect' = NoEffect

(* An address that is not aligned only gets a warning.                     *)
PeekReads(args) == IsNumber(args, 1) /\ SizeBytes(args, 2) # 0

CmdPeek(args) ==
  /\ at = "prompt"
  /\ \/ ~PeekReads(args) /\ OnlyPrints
     \/ PeekReads(args) /\ Refuses(args[1].number, SizeBytes(args, 2))
     \/ /\ PeekReads(args) /\ AddressValid(args[1].number, SizeBytes(args, 2))
        /\ Access("peek", args[1].number, SizeBytes(args, 2), SizeBytes(args, 2))
        /\ UNCHANGED dump

PokeReads(args) ==
  IsNumber(args, 1) /\ IsNumber(args, 2) /\ SizeBytes(args, 3) # 0

(* The value stored, the low bytes of args[2], is left out.                *)
CmdPoke(args) ==
  /\ at = "prompt"
  /\ \/ ~PokeReads(args) /\ OnlyPrints
     \/ PokeReads(args) /\ Refuses(args[1].number, SizeBytes(args, 3))
     \/ /\ PokeReads(args) /\ AddressValid(args[1].number, SizeBytes(args, 3))
        /\ Access("poke", args[1].number, SizeBytes(args, 3), SizeBytes(args, 3))
        /\ UNCHANGED dump

(* alloc and free call the heap; free passes on any number.                *)
Calls(function, arg) ==
  /\ effect' = [kind |-> function, arg |-> arg, len |-> 0]
  /\ UNCHANGED <<at, dump>>

AllocAccepts(args) == IsNumber(args, 1) /\ args[1].number # 0

CmdAlloc(args) ==
  /\ at = "prompt"
  /\ \/ ~AllocAccepts(args) /\ OnlyPrints
     \/ AllocAccepts(args) /\ Calls("kmalloc", args[1].number)

CmdFree(args) ==
  /\ at = "prompt"
  /\ \/ ~IsNumber(args, 1) /\ OnlyPrints
     \/ IsNumber(args, 1) /\ Calls("kfree", args[1].number)

(* help, pmm_info and words that are no command.                           *)
CmdReport == at = "prompt" /\ OnlyPrints

Exit ==
  /\ at = "prompt"
  /\ at' = "exited" /\ effect' = NoEffect
  /\ UNCHANGED dump

-----------------------------------------------------------------------------
Init ==
  /\ at = "prompt" /\ effect = NoEffect
  /\ addr = 0 /\ length = 0 /\ row = 0 /\ seen = {}

Dump == DumpRow \/ DumpEnd

Next ==
  \/ \E args \in Arguments :
       \/ CmdMemdump(args) \/ CmdPeek(args) \/ CmdPoke(args)
       \/ CmdAlloc(args) \/ CmdFree(args)
  \/ CmdReport \/ Exit \/ Dump

(* A command runs on by itself; nobody has to type another.                *)
Spec == Init /\ [][Next]_vars /\ WF_vars(Dump)

-----------------------------------------------------------------------------
TypeOK ==
  /\ at \in {"prompt", "dump", "halted", "exited"}
  /\ addr \in 0 .. WORD - 1
  /\ length \in 0 .. WORD - 1 /\ (at = "dump" => length > 0)
  /\ row \in 0 .. WORD - 1
  /\ effect \in [kind : {"none", "refused", "dump", "peek", "poke", "kmalloc",
                         "kfree"},
                 arg : 0 .. WORD - 1, len : 0 .. WORD - 1]
  /\ seen \subseteq 0 .. WORD + 16

(* is_address_valid accepts what can be accessed and nothing else: every   *)
(* peek and poke, of every size, and every row of a memdump whose range    *)
(* does not wrap lies between PMM_RAM_BASE and highest_ram; and no command *)
(* refuses a range that does, not even one that ends at its last byte.     *)
AccessesInRam ==
  /\ (\/ effect.kind \in {"peek", "poke"}
      \/ effect.kind = "dump" /\ addr + length <= WORD)
       => InRam(effect.arg, effect.len)
  /\ effect.kind = "refused" => ~InRam(effect.arg, effect.len)

(* memdump never reads past the range it was asked for, whatever its       *)
(* length is modulo 16, and has read all of it when its loop is over.      *)
DumpExact ==
  at = "dump" =>
    /\ seen \subseteq addr .. addr + length - 1
    /\ row >= length => seen = addr .. addr + length - 1

(* memdump ends.                                                           *)
DumpEnds == at = "dump" ~> at # "dump"

(* shell.c:20, "ensure start and end are within the known usable range and *)
(* don't wrap around": every row of every memdump is in RAM.               *)
DumpInRam == effect.kind = "dump" => InRam(effect.arg, effect.len)
=============================================================================
