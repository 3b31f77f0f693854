------------------------------- MODULE Solace -------------------------------
(***************************************************************************)
(* The kernel from reset to power-off: boot code and linker script (Boot), *)
(* kernel_main and shutdown (src/boot/kernel.c), frame allocator and heap  *)
(* (Kheap) and the commands of the shell (Shell) on a machine whose memory *)
(* ends before the region the frame allocator manages does.                *)
(*                                                                         *)
(* Commands have one argument.  poke, which may write anywhere, and        *)
(* memdump, which accesses memory as peek does, are left to Shell.         *)
(***************************************************************************)
EXTENDS Kheap, Boot

CONSTANTS
  BACKED_FRAMES,    \* frames that have memory: 128 MB of the 1 GB
  DEFAULT_LENGTH,   \* of memdump
  Numbers           \* numbers typed after a command

RAM_END == FrameAddr(BACKED_FRAMES)

(* kernel_main passes no parameters, the linker's symbols are those of     *)
(* linker.ld, the image is where there is memory, and alloc passes on what *)
(* is typed.                                                               *)
ASSUME SolaceConstants ==
  /\ BACKED_FRAMES \in 1 .. PMM_TOTAL_FRAMES
  /\ BITMAP_SIZE * 8 >= PMM_TOTAL_FRAMES   \* linker.ld against frame_alloc.c
  /\ <<>> \in BootParams
  /\ KERNEL_START = kernel_start /\ KERNEL_END = kernel_end
  /\ BITMAP_START = bitmap_start /\ BITMAP_END = bitmap_end
  /\ kernel_end <= RAM_END
  /\ Numbers \subseteq 0 .. WORD - 1 /\ Numbers \subseteq Sizes

VARIABLES at, addr, length, row, effect, seen    \* of Shell

shell_vars == <<at, addr, length, row, effect, seen>>
boot_rest  == <<load_shift, entry_level, memory, el, sp, dst, src, left,
                vbar_el1, fpen>>
all_vars   == <<vars, boot_vars, shell_vars>>

Sh == INSTANCE Shell WITH highest_ram <- PMM_MAX_ADDRESS

Goto(s) == stage' = s /\ UNCHANGED boot_rest

-----------------------------------------------------------------------------
Boots == BootStep /\ UNCHANGED <<vars, shell_vars>>

(* External: the first thing compiled kernel_main does is to push on the   *)
(* stack, which only works if the stack pointer of EL1 was set.            *)
EnterMain ==
  /\ stage = "main"
  /\ Goto(IF sp[el] = stack_top THEN "pmm" ELSE "lost")
  /\ UNCHANGED <<vars, shell_vars>>

(* kernel_main: the frame allocator with null parameters, the heap, the    *)
(* placeholder for the TUI, the shell.                                     *)
InitPmm ==
  /\ stage = "pmm" /\ FrameAllocInit(<<>>) /\ Goto("heap")
  /\ UNCHANGED <<heap_vars, shell_vars>>

InitHeap == stage = "heap" /\ KheapInit /\ Goto("tui") /\ UNCHANGED shell_vars

InitTui ==
  /\ stage = "tui" /\ pc = "idle" /\ Goto("shell")
  /\ UNCHANGED <<vars, shell_vars>>

(* A running kmalloc or kheap_init goes on.                                *)
HeapStep ==
  /\ stage \in {"tui", "shell"}
  /\ \/ ScanNext \/ ScanHit \/ ScanMiss \/ GrowFails \/ GrowDone
     \/ \E f \in 0 .. BACKED_FRAMES - 1 : GrowPage(f)
  /\ UNCHANGED <<boot_vars, shell_vars>>

(* alloc_frame returns no frame without clearing it: one that has no       *)
(* memory aborts in its memset, and the kernel panics.                     *)
GrowAborts ==
  /\ stage \in {"tui", "shell"} /\ pc = "grow" /\ call.todo > 0
  /\ \E f \in BACKED_FRAMES .. PMM_TOTAL_FRAMES - 1 : AllocFrame(f)
  /\ Goto("panic")
  /\ UNCHANGED <<heap_vars, shell_vars>>

-----------------------------------------------------------------------------
Ready == stage = "shell" /\ pc = "idle"

Alloc(w) ==
  /\ Ready /\ Sh!CmdAlloc(<<w>>)
  /\ IF effect'.kind = "kmalloc" THEN Kmalloc(effect'.arg) ELSE UNCHANGED vars
  /\ UNCHANGED boot_vars

IsArea(ptr) == ptr = NULL \/ ptr - HEAP_HEADER_SIZE \in Blocks(heap)

(* kfree of a number that is not an area: the bytes before it are taken    *)
(* for a header.  If there is no memory this aborts; else they may say     *)
(* that the block is free, or not, and then nothing is known any more.     *)
KfreeStray(ptr) ==
  LET exists == Sh!Exists((ptr - HEAP_HEADER_SIZE) % WORD, HEAP_HEADER_SIZE)
  IN
  /\ \/ ~exists /\ Goto("panic") /\ UNCHANGED pc
     \/ exists /\ UNCHANGED <<boot_vars, pc>>
     \/ exists /\ pc' = "corrupt" /\ UNCHANGED boot_vars
  /\ UNCHANGED <<pmm_vars, heap, call, live>>

Free(w) ==
  /\ Ready /\ Sh!CmdFree(<<w>>)
  /\ \/ effect'.kind # "kfree" /\ UNCHANGED <<vars, boot_vars>>
     \/ /\ effect'.kind = "kfree" /\ IsArea(effect'.arg)
        /\ Kfree(effect'.arg) /\ UNCHANGED boot_vars
     \/ /\ effect'.kind = "kfree" /\ ~IsArea(effect'.arg)
        /\ KfreeStray(effect'.arg)

Peek(w) ==
  /\ Ready /\ Sh!CmdPeek(<<w>>)
  /\ Goto(IF at' = "halted" THEN "panic" ELSE stage)
  /\ UNCHANGED vars

Report == Ready /\ Sh!CmdReport /\ UNCHANGED <<vars, boot_vars>>

Exit == Ready /\ Sh!Exit /\ Goto("halting") /\ UNCHANGED vars

(* shutdown: external, the hvc powers the machine off or returns an error, *)
(* and then the processor waits for ever.                                  *)
Shutdown ==
  /\ stage = "halting"
  /\ Goto("off") \/ Goto("halted")
  /\ UNCHANGED <<vars, shell_vars>>

-----------------------------------------------------------------------------
(* Of the bitmaps RAM may have held, two; FrameAlloc has all.              *)
SolaceInit == frame_bitmap \in {{}, Frames} /\ Init /\ BootInit /\ Sh!Init

Kernel ==
  \/ Boots \/ EnterMain \/ InitPmm \/ InitHeap \/ InitTui
  \/ HeapStep \/ GrowAborts \/ Shutdown

SolaceNext ==
  \/ Kernel
  \/ \E w \in Sh!Words : Alloc(w) \/ Free(w) \/ Peek(w)
  \/ Report \/ Exit

(* The core keeps executing; nobody has to type anything.                  *)
SolaceSpec == SolaceInit /\ [][SolaceNext]_all_vars /\ WF_all_vars(Kernel)

-----------------------------------------------------------------------------
(* expand_heap has got a frame beyond the kernel image, and may have       *)
(* merged it with the block before the image.                              *)
CrossedImage == \E f \in handed : FrameAddr(f) >= kernel_end

(* Until the heap reaches the image, what alloc gives out can be used with *)
(* the shell's other commands: all of it passes is_address_valid and has   *)
(* memory behind it; and with its header it is apart from the image, stack *)
(* and bitmap that the linker script lays out.  The end of RAM that the    *)
(* shell asks the frame allocator for is the end of the managed region.    *)
AreasUsable ==
  /\ pmm_ready => highest_usable_address = PMM_MAX_ADDRESS
  /\ ~CrossedImage =>
       \A ptr \in DOMAIN live :
         LET b    == ptr - HEAP_HEADER_SIZE
             size == heap.blk[b].size
         IN  /\ Sh!AddressValid(ptr, size) /\ Sh!Exists(ptr, size)
             /\ EndOf(heap, b) <= kernel_start \/ kernel_end <= b

(* Until then the heap's blocks cover exactly the frames it got, and what  *)
(* pmm_info calls used are these: no byte of RAM is lost between the       *)
(* components, also when an expansion fails half-way.                      *)
FramesAccounted ==
  stage # "panic" /\ ~CrossedImage =>
    /\ UNION {b .. EndOf(heap, b) - 1 : b \in Blocks(heap)}
         = UNION {FrameAddr(f) .. FrameAddr(f + 1) - 1 : f \in handed}
    /\ pmm_ready => total_memory - free_memory = Cardinality(handed)

(* As long as free is given areas, used or free, and the heap stays below  *)
(* the image, no sequence of commands makes it write outside its frames.   *)
OnlyStrayFreeBreaks ==
  pc = "corrupt" =>
    CrossedImage \/ (effect.kind = "kfree" /\ ~IsArea(effect.arg))

(* A processor that comes up in EL1 gets to the shell's prompt.            *)
ReachesShell == (stage = "stack" /\ entry_level = 1) ~> stage = "shell"

(* alloc comes to an end, whatever was allocated and freed before, the     *)
(* image crossed or not: it is answered, or all memory there is is in use  *)
(* and the kernel panics, because alloc_frame takes a frame without memory *)
(* for a free one.                                                         *)
AllocEnds ==
  (stage = "shell" /\ pc \in {"scan", "grow"}) ~>
    \/ pc \in {"idle", "corrupt"}
    \/ stage = "panic" /\ 0 .. BACKED_FRAMES - 1 \subseteq frame_bitmap
=============================================================================
