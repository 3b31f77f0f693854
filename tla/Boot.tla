-------------------------------- MODULE Boot --------------------------------
(***************************************************************************)
(* From reset to kernel_main: the linker script (src/linker.ld) and the    *)
(* boot code (src/boot/boot.S), with the debug output of the section copy  *)
(* (src/boot/kernel.c).                                                    *)
(*                                                                         *)
(* Memory is a function from addresses to bytes.  The byte of the image    *)
(* that belongs at address a is written a; ZERO is a cleared byte, JUNK    *)
(* what RAM held before or what the stack was used for.                    *)
(***************************************************************************)
EXTENDS Integers

CONSTANTS
  LOAD_ADDRESS,       \* 0x40080000
  TEXT_SIZE, RODATA_SIZE, DATA_SIZE, BSS_SIZE, EH_FRAME_SIZE,
  STACK_SIZE, BITMAP_SIZE,
  BITMAP_ALIGN,       \* 4096
  LoadShifts,         \* LOADADDR minus ADDR of .rodata and .data: 0 now
  Mpidrs, EntryLevels \* the core that starts, and the exception level

ZERO == 0
JUNK == -1

AlignUp(n, a) == ((n + a - 1) \div a) * a

(* Mutant: no alignment at the end of .bss.                                *)
BssEndExact(start) == start + BSS_SIZE

BssEnd(start) == AlignUp(start + BSS_SIZE, 8)

(* The linker's symbols.                                                   *)
kernel_start == LOAD_ADDRESS
text_end     == AlignUp(kernel_start, 8) + TEXT_SIZE
rodata_start == AlignUp(text_end, 8)
rodata_end   == rodata_start + RODATA_SIZE
data_start   == AlignUp(rodata_end, 8)
data_end     == data_start + DATA_SIZE
bss_start    == AlignUp(data_end, 8)
bss_end      == BssEnd(bss_start)
stack_bottom == AlignUp(bss_end + EH_FRAME_SIZE, 16)
stack_top    == AlignUp(stack_bottom + STACK_SIZE, 16)
bitmap_start == AlignUp(stack_top, BITMAP_ALIGN)
bitmap_end   == bitmap_start + BITMAP_SIZE
kernel_end   == bitmap_end

Text   == kernel_start .. text_end - 1
Rodata == rodata_start .. rodata_end - 1
Data   == data_start .. data_end - 1
Bss    == bss_start .. bss_end - 1

ASSUME BootConstants ==
  /\ {LOAD_ADDRESS, TEXT_SIZE, RODATA_SIZE, DATA_SIZE, BSS_SIZE,
      EH_FRAME_SIZE, STACK_SIZE, BITMAP_SIZE} \subseteq Nat \ {0}
  /\ BITMAP_ALIGN \in Nat \ {0} /\ BITMAP_ALIGN % 16 = 0
  /\ STACK_SIZE >= 48
  /\ LoadShifts \subseteq Int
  /\ \A s \in LoadShifts : \/ s = 0 \/ rodata_start + s > kernel_end
                             \/ data_end + s <= kernel_start
  /\ Mpidrs \subseteq Nat /\ EntryLevels \subseteq {1, 2}

VARIABLES
  stage,        \* the part of boot.S, or of kernel_main, that runs
  load_shift, entry_level,
  memory,
  el,           \* the current exception level
  sp,           \* SP_EL1 and SP_EL2
  dst, src, left,   \* x0, x1, x2 of the two loops (x0, -, x1 in clear_bss_loop)
  vbar_el1, fpen    \* vectors and floating point are set up

boot_vars == <<stage, load_shift, entry_level, memory, el, sp, dst, src, left,
               vbar_el1, fpen>>

UNSET == -2

-----------------------------------------------------------------------------
(* _start: all cores but the first wait for ever.                          *)
Start(mpidr) ==
  /\ stage = "reset"
  /\ stage' = IF mpidr % 256 = 0 THEN "stack" ELSE "parked"
  /\ UNCHANGED <<load_shift, entry_level, memory, el, sp, dst, src, left,
                 vbar_el1, fpen>>

(* mov sp writes the stack pointer of the current exception level.         *)
SetStack ==
  /\ stage = "stack"
  /\ sp' = [sp EXCEPT ![el] = stack_top]
  /\ stage' = "rodata"
  /\ UNCHANGED <<load_shift, entry_level, memory, el, dst, src, left,
                 vbar_el1, fpen>>

Section(s) == IF s = "rodata" THEN Rodata ELSE Data
SectionStart(s) == IF s = "rodata" THEN rodata_start ELSE data_start
AfterCopy(s) == IF s = "rodata" THEN "data" ELSE "bss"
CopyLoop(s) == IF s = "rodata" THEN "copy_rodata" ELSE "copy_data"

(* The stack below top that boot_debug_copy, which prints the size that is *)
(* copied, writes: its size_str at least.                                  *)
BootDebugCopy(top) == top - 16 .. top - 1

(* copy_data_section returns at once if source and destination are equal.  *)
(* Else it pushes four registers, calls boot_debug_copy and pops them.     *)
CopySection(s) ==
  /\ stage = s
  /\ IF load_shift = 0 \/ Section(s) = {}
     THEN /\ stage' = AfterCopy(s)
          /\ UNCHANGED <<memory, dst, src, left>>
     ELSE /\ memory' = [a \in DOMAIN memory |->
                          IF a \in sp[el] - 32 .. sp[el] - 1
                                     \cup BootDebugCopy(sp[el] - 32)
                          THEN JUNK ELSE memory[a]]
          /\ dst' = SectionStart(s)
          /\ src' = SectionStart(s) + load_shift
          /\ left' = IF s = "rodata" THEN RODATA_SIZE ELSE DATA_SIZE
          /\ stage' = CopyLoop(s)
  /\ UNCHANGED <<load_shift, entry_level, el, sp, vbar_el1, fpen>>

CopyByte(s) ==
  /\ stage = CopyLoop(s)
  /\ memory' = [memory EXCEPT ![dst] = memory[src]]
  /\ dst' = dst + 1 /\ src' = src + 1 /\ left' = left - 1
  /\ stage' = IF left = 1 THEN AfterCopy(s) ELSE stage
  /\ UNCHANGED <<load_shift, entry_level, el, sp, vbar_el1, fpen>>

EnterBss ==
  /\ stage = "bss"
  /\ dst' = bss_start /\ left' = bss_end - bss_start
  /\ stage' = IF left' = 0 THEN "vectors" ELSE "clear"
  /\ UNCHANGED <<load_shift, entry_level, memory, el, sp, src, vbar_el1, fpen>>

(* Mutant: the address is advanced before the store.                       *)
StoreAtNext == dst + 8 .. dst + 15

(* The bytes str xzr, [x0], #8 clears.                                     *)
StoreAt == dst .. dst + 7

(* Eight bytes at a time until exactly none are left; past the end of RAM  *)
(* the store aborts (external), with no vectors set yet.                   *)
ClearWord ==
  /\ stage = "clear"
  /\ IF StoreAt \subseteq DOMAIN memory
     THEN /\ memory' = [a \in DOMAIN memory |->
                          IF a \in StoreAt THEN ZERO ELSE memory[a]]
          /\ dst' = dst + 8 /\ left' = left - 8
          /\ stage' = IF left' = 0 THEN "vectors" ELSE stage
     ELSE /\ stage' = "lost"
          /\ UNCHANGED <<memory, dst, left>>
  /\ UNCHANGED <<load_shift, entry_level, el, sp, src, vbar_el1, fpen>>

SetVectors ==
  /\ stage = "vectors"
  /\ vbar_el1' = TRUE
  /\ stage' = "level"
  /\ UNCHANGED <<load_shift, entry_level, memory, el, sp, dst, src, left, fpen>>

(* From EL2, eret to EL1h with interrupts masked; then enable floating     *)
(* point and call kernel_main.                                             *)
EnterEL1 ==
  /\ stage = "level"
  /\ el' = 1
  /\ fpen' = TRUE
  /\ stage' = "main"
  /\ UNCHANGED <<load_shift, entry_level, memory, sp, dst, src, left, vbar_el1>>

-----------------------------------------------------------------------------
(* QEMU has put the image at its load addresses; everything else is as RAM *)
(* and registers were.                                                     *)
BootInit ==
  /\ stage = "reset"
  /\ load_shift \in LoadShifts /\ entry_level \in EntryLevels
  /\ memory = [a \in (kernel_start .. kernel_end)
                       \cup {b + load_shift : b \in Rodata \cup Data} |->
                 IF a \in Text THEN a
                 ELSE IF a - load_shift \in Rodata \cup Data THEN a - load_shift
                 ELSE JUNK]
  /\ el = entry_level
  /\ sp = [l \in {1, 2} |-> UNSET]
  /\ dst = 0 /\ src = 0 /\ left = 0
  /\ vbar_el1 = FALSE /\ fpen = FALSE

BootStep ==
  \/ \E mpidr \in Mpidrs : Start(mpidr)
  \/ \E s \in {"rodata", "data"} : CopySection(s) \/ CopyByte(s)
  \/ SetStack \/ EnterBss \/ ClearWord \/ SetVectors \/ EnterEL1

(* When kernel_main is called, all of .text, .rodata and .data is in       *)
(* place, all of .bss is zero and nothing but .bss was cleared, whatever   *)
(* sizes the sections have; exceptions and the floating point registers    *)
(* that kprintf saves can be used; and the stack pointer is at the top of  *)
(* the stack if the processor came up in EL1, and only then: coming from   *)
(* EL2 (boot.S:55), it is the SP_EL1 that nothing has set.                 *)
BootHandsOver ==
  stage = "main" =>
    /\ \A a \in Text \cup Rodata \cup Data : memory[a] = a
    /\ \A a \in DOMAIN memory : memory[a] = ZERO <=> a \in Bss
    /\ el = 1 /\ vbar_el1 /\ fpen
    /\ sp[el] = IF entry_level = 1 THEN stack_top ELSE UNSET
=============================================================================
