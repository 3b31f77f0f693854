# Verification of SolaceOS

SolaceOS is a small single-core AArch64 kernel for QEMU's virt machine: boot
code, a physical memory manager, a kernel heap, exception handling with system
calls, a polled UART, a formatted-output and string library, and a shell. This
directory holds TLA+ modules that model it, TLC configurations that check them
on small instances, and proofs for TLAPS. Source paths below are relative to
the repository's `src/`.

## 1. The system

### Components, their state and operations

| Component | State | Operations | Correct when |
|---|---|---|---|
| Frame allocator, `memory/frame_alloc.c` | bitmap (one bit per 4 KB frame of 1 GB), `total_memory`, `free_memory`, `highest_usable_address` | `frame_alloc_init`, `alloc_frame`, `free_frame`, three getters | no frame has two owners, the kernel's frames are never given out, the counters agree with the bitmap |
| Kernel heap, `memory/kheap.c` | headers in the pages themselves; `heap_start`, `heap_end` of the block list; `free_list_head` of the free list | `kheap_init`, `kmalloc`, `kfree`; inside: `expand_heap`, `coalesce`, `add_to_free_list`, `remove_from_free_list` | areas in use do not overlap and do not change, both lists are sound, every call returns, memory that is not the heap's is not written |
| Exceptions, `exceptions/exceptions_asm.S`, `exceptions.c` | a frame of 34 registers on the stack during an exception | vector table, `save_context`, `handle_sync_exception`, `handle_irq`, `handle_fiq`, `handle_serror`, `panic`, `restore_context` | an exception that returns is invisible to the code it interrupted; one that cannot be handled stops the kernel |
| System calls, `syscall/syscall.c` | none | `handle_syscall` | execution goes on after the `svc` |
| Shell, `shell/shell.c` | command line, arguments, command table | the line reader, eight commands, `is_address_valid` | a command gets the line that was typed; memory commands stay in RAM |
| Number parser, `lib/stdlib_stubs.c` | none | `simple_strtoull`, `simple_strtoul` | the value of the digits, saturated |
| Strings, `lib/string.c` | `strtok_last` | `strtok`, `strspn`, `strpbrk`, `memset`, ... | tokens in order |
| Output and input, `lib/stdio.c` | a 1024-byte buffer per call | `kprintf`, `kgetc_blocking` | never writes past the buffer, cuts text only at its end, prints numbers exactly |
| UART, `lib/uart.c` | device FIFOs | `uart_putc`, `uart_getc` | no byte lost or reordered by the driver |
| Boot, `boot/boot.S`, `linker.ld`; entry, `boot/kernel.c` | memory layout, VBAR, masks | set-up; `kernel_main`; `shutdown` | C code starts with its sections in place, `.bss` clear and a stack; memory manager, heap and shell start in this order |
| TUI, `ui/tui.c` | none | placeholder | - |

Components interact by plain calls. `kernel_main` calls `frame_alloc_init`,
`kheap_init` and the shell; the shell calls `kmalloc`, `kfree` and the getters
of the frame allocator and executes `svc #0` once per line; `expand_heap` calls
`alloc_frame` (`free_frame` has no caller); every component prints through
`kprintf`. There is one core, interrupts are masked from boot on and nothing
unmasks them, so there is no concurrency: what is hard here are long sequences
of calls on linked structures, operations that fail half-way, arithmetic at its
limits, and the code that runs between an exception and its return. The list of
hazards, each at its line, is in `PROJECT.json`.

### Modules

| Module | Models |
|---|---|
| `FrameAlloc` | the frame allocator |
| `Kheap` (extends `FrameAlloc`) | the heap composed with the frame allocator |
| `AreaAllocator` | the abstract allocator that `Kheap` implements |
| `Exceptions` | exceptions and system calls |
| `Strtoull` | the number parser |
| `CommandLine` | UART receive FIFO, `kgetc_blocking`, the shell's line reader and `strtok`: from the keyboard to `argv` |
| `Shell` | the shell's commands: from `argv` to memory accesses and calls of the heap |
| `Kprintf` | `kprintf`, and `uart_putc` with the UART's transmit FIFO |
| `Boot` | the linker script's layout and `boot.S`, from reset to `kernel_main` |
| `Solace` (extends `Kheap` and `Boot`, instantiates `Shell`) | the kernel from reset to power-off: `kernel_main` with all of these composed |
| `MCFrameAlloc`, `MCKheap`, `MCExceptions`, `MCStrtoull`, `MCCommandLine`, `MCShell`, `MCKprintf`, `MCSolace` | values for TLC |
| `FrameAlloc_proofs` | theorems about `FrameAlloc` |
| `Exceptions_proofs` | theorems about `Exceptions` |
| `Strtoull_proofs` | theorems about `Strtoull` |
| `Shell_proofs` | theorems about `Shell` |
| `Kheap_proofs` (extends `FrameAlloc_proofs`) | theorems about `Kheap`, and that it implements `AreaAllocator` |
| `Kprintf_proofs` | theorems about `Kprintf` |
| `CommandLine_proofs` | theorems about `CommandLine` |
| `Solace_proofs` (extends `Kheap_proofs`) | theorems about `Solace`, with the lemmas about `Boot` |

## 2. How the modules correspond to the code

**FrameAlloc.** The bitmap is the set of frames whose bit is set. The counters
only move by `PAGE_SIZE` and are counted in frames. `MarkRangeUsed` and
`MarkRangeFree` are the two loops as set operations, with the same first and
last frame, the same cap, the same early return for a start outside the region
and the same guarded subtraction; `FrameAllocInit` is the whole of
`frame_alloc_init`, with null parameters (what `boot.S` passes) or given ones.
`AllocFrame` and `OutOfFrames` are the two ends of `alloc_frame`; `FreeFrame`
has every early return of `free_frame`. Two history variables say which frames
initialisation kept back and which callers hold. Before `frame_alloc_init` the
bitmap is arbitrary, since it lies outside `.bss`. Callers of `free_frame` may
pass anything, free frames included, except a frame of the kernel itself: the
code cannot tell those from allocated ones and its header file asks for "a
previously allocated physical frame".

**Kheap.** `heap.blk` maps the address of each block in the block list to its
header; a block that is merged away leaves the map. One operator from heap to
heap stands for each C function on the lists, with the assignments in the same
order where it matters. `kmalloc` is a sequence of steps because it loops:
`Kmalloc` (entry and alignment), `ScanNext`, `ScanHit` or `ScanMiss` (one
element of the free list each), `GrowPage` and `GrowFails` (one call of
`alloc_frame` each, the actions of `FrameAlloc`), `GrowDone` (the end of
`expand_heap`). `KheapInit` enters the same expansion. `Kfree` is one step: it
has no loop and cannot be interrupted. `size_t` arithmetic wraps at `WORD`.
Merging in `expand_heap` and in `coalesce` is the same operator; the difference,
that `coalesce` clears the absorbed header, is not visible in `heap.blk`. The
contents of data areas are left out, but `ScanHit` notes if the bytes kmalloc
writes (a new header, the zeroed area) are outside the frames the heap owns, and
then stops in `pc = "corrupt"`. Callers free areas of blocks that are still
in the list, held or already free; an area whose block was merged away, and any
other number given to `kfree`, is in `Solace`. A request so large that aligning it
wraps to zero (`kheap.c:184`) is answered with the first free block, split after no
bytes if it can be split: `HeldAreasAllocated` says which requests get at least what
they ask for, and that the others get less than `HEAP_MIN_BLOCK_SIZE`.

**Exceptions.** Interrupted code is a loop of instructions (`op`, `svc`, `brk`,
one that aborts) whose `op`s give the registers new contents. All 31 registers,
both stack pointers, SPSR, ELR, ESR and the stack slots are in the state.
Offsets are written as in the assembly and, separately, as in
`saved_registers_t`. Entry, return, the register effects of compiled C, and the
devices are external. The four interrupt masks are one flag. In the kernel as
it is, code runs only in EL1h with interrupts masked; the checks cover the other
modes and unmasked interrupts too, because the vector table and the handlers
are there for them.

**Strtoull.** One action per turn of each loop; sign, prefix and base are one
step. Characters are their codes, the terminator is a 0 after the last one. The
history variable `exact` is the number without a limit.

**CommandLine.** `cmd_buffer` keeps what the code leaves in it, erased characters
and the zeros that `strtok` writes included; `argv`, `token` and `strtok_last`
are indices into it. One action per character, per call of `strtok`, and per
turn of the command loop. A character may arrive at any moment (external). The
history variable `shown` is what the echo has left on the screen after the
prompt. `Dispatch` decides between `exit` and a command; what the command does
is `Shell`.

**Shell.** Each command is an action on any argument vector of up to three words.
A word is what the commands distinguish: the number `simple_strtoull` finds, or
none, and the size letter, or none; `Strtoull` and `CommandLine` are what makes
`argv` such words. `memdump` is a step per row. The variable `effect` records
the bytes accessed, the range that `is_address_valid` refused, or the call of
`kmalloc` or `kfree`; what these do is `Kheap`.
`RAM_END` is where the machine's memory ends, which need not be where the frame
allocator believes it does: an access beyond it aborts, one that is not aligned
may (external), and an abort ends in `panic`. Values read, written and printed
are left out.

**Kprintf.** One action per conversion and per character copied or sent.
Characters are tokens; an argument is picked where `va_arg` reads it, from the
characters, strings or words that are given, so every combination of format and
arguments is met. `Specifier` is the position of the conversion letter after
flags, width and length modifier; the digits of a number are a recursive
function, cut by `Clip` to the room that is left. Output waits in `TxReady` as
`uart_putc` does; the UART sends at any speed (external). Histories: the text
without a limit, the last number, and what went over the line. `-value` of the most
negative value is undefined in C; `SignedText` has what the build makes of it, a
negation that wraps and is then read as unsigned.

**Boot.** The linker script's symbols are definitions, with its alignments, over
sections of any size. Memory maps addresses to bytes, and a byte of the image is
written as the address it belongs at, so that a byte in the wrong place is
visible. One action per block of straight-line code, per byte copied and per
word cleared. The linker script loads every section where it runs, so
`copy_data_section` returns at once; `LoadShifts` also has a shift, because the
copy is there for it. `mov sp` sets the stack pointer of the level the processor
is in: entered in EL2, the kernel arrives in EL1 with a stack pointer that nothing
has set (`boot.S:17`). `BootHandsOver` says exactly that: the top of the stack from
EL1, nothing from EL2. QEMU's virt machine starts in EL1; the case of EL2 ends in
`stage = "lost"`, and `ReachesShell` is about EL1 only.

**Solace.** `kernel_main` is a sequence of stages whose actions are those of
`FrameAlloc` and `Kheap`; `Alloc`, `Free` and `Peek` are the shell's commands,
joined with what `kmalloc` and `kfree` do. `BACKED_FRAMES` of the managed frames
have memory, 128 MB of 1 GB in the Makefile: `alloc_frame` clears the frame it
found, so one without memory ends in a panic (`GrowAborts`). `KfreeStray` is
`kfree` of a number that is not an area, one whose block was merged away included:
the bytes before it may look like a free block, or not, and in the latter case
nothing is known afterwards. `pc = "corrupt"` is a state that the heap never leaves,
so `AreasUsable` and `FramesAccounted` say nothing of what comes after such a free,
except that the state is reached in no other way (`OnlyStrayFreeBreaks`).

## 3. What is checked

Passing runs (all with deadlock checking unless noted):

* `pmm` - `FrameAlloc` on eight frames of four bytes, every initial bitmap, the
  null boot parameters and three images (unaligned at both ends, ending with the
  region, exactly one frame), every address as argument of `free_frame`.
  `FreeCount`, `BitmapIsReservedPlusHanded`, `UsableBelowHighest`, the type
  invariant, and `KernelFramesReserved`: the frame arithmetic against its
  meaning. Frames of four bytes have every possible offset of a range's ends.
* `heap` - `Kheap` with pages of 12 bytes, headers of 6, alignment 2, 8-bit words,
  four pages of RAM below the kernel image, an initial expansion of two pages. The
  sizes make every case happen: 0; 1 (a split of a page is not possible, one of
  merged pages is); 6 (a whole page, and two merged pages are just large enough to
  split); 8 (more than a page, so an expansion by two pages, and two merged pages are
  just not large enough to split); 255 (aligned, it wraps to 0 and gets an area of no
  bytes, or a page of 6). An expansion for 8 may find only one page left, and so
  fails half-way. About 750 000 states. `FreeListSound` and `HeapWellFormed` hold for the two
  lists, `HeldAreasAllocated` and `ImplementsAllocator` for the
  areas callers hold, `NoGaps` for bytes lost between blocks, or from a page that
  was linked before an expansion failed, while the frames of the heap are consecutive
  (they are in this instance), and `CallsReturn` for termination of every call.
* `exceptions` - every loop of three instructions, eight processor states, two
  contents of the registers, any pattern of interrupts. `ContextPreserved`,
  `FaultsHalt` and `ProgramAdvances`: only an unmasked interrupt that stays
  raised, which `handle_irq` does not acknowledge, keeps the code from
  advancing. The kernel stops for good after a panic, so deadlock is not checked.

* `parser` - every string of up to four characters over nine that stand for every
  kind the parser tells apart, supported and unsupported bases, and a
  `UINT64_MAX` so small that numerals of two digits meet the cutoff test on both
  sides. `ParsesNumeral` compares the result and `*endptr` with a definition by
  positional weights, `Saturates` with the running value, `Returns` is
  termination. A call ends, so deadlock is not checked.
* `command_line` - a buffer of eight characters, two arguments, a FIFO of two;
  keys for a letter, space, backspace, Enter and NUL in any order, line after
  line. Seven characters give more words than `argv` holds and leave `strtok`'s
  pointer inside the line. `ArgvIsWordsShown` and `LineAnswered`. The shell may
  exit, so deadlock is not checked.
* `commands` - every command with up to three arguments; RAM from 64 to 104 and
  8-bit words, so that a length can wrap. `AccessesInRam` is the test of addresses
  in both directions: what is accessed is RAM, and no range in RAM is refused, not
  even one that ends at its last byte. `DumpExact` and
  `DumpEnds`. The shell may exit or panic, so deadlock is not checked.
* `kprintf` - every format of up to two of 15 pieces (each conversion, flags,
  width, all modifiers, an unknown letter, a lone `%`), a buffer of six
  characters, seven-bit words and four-bit ints with the extremes of both, a FIFO
  of two that may be full at the start. Two pieces are enough to fill the buffer
  before, inside and exactly at the end of a conversion. `TerminatorInside`,
  `TextCutAtEnd`, `NumbersExact`, `StaysInFormat`, `SentInOrder` and `Returns`.
  Two weaknesses of the code are conditions here: an unknown conversion for which
  one place is left puts the terminator one past the buffer (`stdio.c:200`), and
  a format that ends inside a conversion is read past its end (`stdio.c:207`).
  `StaysInFormat` says of which formats that is so: not of those that can be split
  into characters and whole conversions, with `%%` at the end among them. No
  format in the repository does either. A call ends, so deadlock is not checked.
* `solace` - 12 frames of 16 bytes: three below the image, seven of the image,
  one above it and one without memory; sections whose sizes are no multiples of
  their alignment; one or two load addresses, both entry levels, both kinds of
  core; numbers that are sizes, areas, addresses inside areas and nowhere.
  `BootHandsOver` and `ReachesShell` for the way to the prompt; `AreasUsable`,
  `FramesAccounted` and `OnlyStrayFreeBreaks` for what the
  shell can make of the heap. Three of them end where the heap grows beyond the
  image (`CrossedImage`): what happens then is the finding of `heap_hole`.
  `AllocEnds` goes on beyond it: `alloc` is answered, or the kernel panics with all
  memory in use, because the frame allocator knows of frames that have none. Before
  the heap crosses the image no expansion fails here; those are in `heap`. The
  kernel powers off, so deadlock is not checked.

Fairness: `CallsReturn` assumes that the processor keeps executing the call it
is in (weak fairness of `Step`, none of callers); `ProgramAdvances` that it
keeps executing instructions (weak fairness of `Cpu`, none of devices). `Returns`,
`LineAnswered`, `DumpEnds`, `ReachesShell` and `AllocEnds` likewise assume only that the code
in question keeps running, never that a key is pressed. This is what one core
without preemption does. `Returns` of `Kprintf` also assumes that the UART sends
what is in its FIFO, as the code does: it waits for it without a time limit.

Runs that find what the code does not keep, each quoting the line it is about
(see `findings`):

* `heap_second_search` - `kmalloc(10000)` after `kheap_init` fails although the
  expansion succeeded: the new pages stay separate blocks, and all but the first
  are on no free list; pages of 4096 bytes, headers of 48, four pages asked for
  by `kheap_init`, as in the code.
* `heap_hole` - a block merged across the kernel image; real sizes, with the
  image moved down to frame 5 so that the fifth page of the heap is next to it
  (in the real layout 128 frames lie below the image).
* `svc_return` - the shell's own `svc #0` skips an instruction.
* `dump_wrap` - `memdump` with a length that wraps passes `is_address_valid`.

In the runs with real sizes `WORD` is a number above every address, since TLC's
integers have 32 bits and nothing wraps there.

Each property of a passing run has a mutant in the module it is about: a changed
definition, marked *Mutant*, under which TLC finds the property violated.

## 4. What is proved

`FrameAlloc_proofs` proves all five properties of the `pmm` run for every page
size, number of frames, placement of the kernel and set of boot parameters.
Assumptions: the region starts at a multiple of the page size, ends below
`WORD`, and the image and the bitmap are nonempty and lie in it (`PmmConstants`,
`PmmRanges`).

The argument: `RangeTouches` shows that comparing a frame number with the
quotients of `mark_range_used` is comparing addresses, so the frames of a range
are those that share a byte with it. `MarkUsedCounted` and `AllFreeCounted` show
that each step of initialisation keeps both counters equal to the number of
clear bits, so the guards against underflow never act. The inductive invariant
`PmmInv` is the conjunction of the invariants with two facts they need: nothing
is reserved or handed out before initialisation (else initialisation could free
a frame in use), and the highest address is the end of the region.

`Exceptions_proofs` proves `TypeOK`, `FaultsHalt` and `ContextPreserved` for
every program, processor state and placement of the stack. Assumptions: programs
are nonempty and the stack has room for one frame above address 0
(`ExceptionConstants`). `Layout` shows that the offsets of the assembly and of
the C struct are the same. `ContextPreserved` is about the last step of an
exception, so the inductive invariant `ExInv` follows the interrupted context
from the registers (`InSave`) into the frame (`FrameOK`, in the handler and until
restore_context), and the return address separately, because the handler changes
it; it also ties ESR_EL1 to the exception taken, without which a fault could be
mistaken for an SVC.

`Strtoull_proofs` proves `TypeOK`, `Saturates` and `ParsesNumeral` for every
limit, string and base. `CutoffExact` is the arithmetic: the test with cutoff and
cutlim holds exactly when the next digit takes the result past the limit. The
invariant `ParserInv` adds that `exact` and `result` agree until then, and that the
inner loop is entered only past the limit. `ParsesNumeral` compares the loop, which
works from left to right, with a sum over positions in no order. `SumsExist` shows
that the recursion behind that sum has a solution, `SumsSplit` that any position may
be taken out of it first, so `Rest(k)`, the weight of the digits from position `k`
on, loses one term with every digit (`RestSteps`). The invariant `NumeralInv` is then
`Value = exact * Power[End - nptr] + Rest(nptr)`: what has been read, shifted by what
is left, and what is left. At the end of the digits the second summand is zero and
the factor one. `BodyIs` and `EndIs` connect the places where the loops stop with
the definitions by `Min`.

`CommandLine_proofs` proves `TypeOK` and `ArgvIsWordsShown` for every size of the
buffer, of `argv` and of the FIFO, and every set of keys (`CommandLineConstants`: room for a
character and a terminator, and for an argument). That the searches of `strtok` stay
in the buffer is no consequence of the type of the state: they stop because a
terminator is ahead of them (`StrspnIs`, `StrpbrkIs`, `StringAtIs`), so the type
invariant needs the whole inductive invariant `LineInv`. While a line is read the
buffer holds, up to `i`, what the screen shows. From the first call of `strtok` on,
`Split` says what it has made of the first `f` characters: the tokens, that is `argv`
and the token not yet stored, are the beginnings of words in order (`Increasing`), of all words
so far (`AllFound`), each ended by a NUL where its space was (`AllClosed`); only
spaces have been overwritten (`OnlySpacesCut`); and the rest is as it was typed
(`Typed`). `SplitWord` and `SplitToEnd` are the two ends of a call of `strtok`. At
dispatch `TokensAreFirstWords` shows that the tokens are the first words:
`AscendingIs` gives the one ascending enumeration of the word starts, and a least
index at which it and the tokens differ leads to a contradiction. `WordString`
shows that each string in the buffer is the word it should be.

`Shell_proofs` proves `TypeOK`, `AccessesInRam` and `DumpExact` for every placement of
RAM that ends at least 16 bytes below `WORD`, wherever the memory behind it ends
(`ShellConstants`). `ValidRange` shows that
`is_address_valid` is right about ranges that do not wrap, in both directions. The invariant
`ShellInv` adds that a dump in progress was accepted and that what it has read is
a prefix of its range inside RAM, so neither its addresses nor its index wrap.

`Kheap_proofs` proves the six safety properties of the `heap` run, the refinement
among them, for every page and header size, alignment, number of pages and
request (`KheapConstants`: a header is smaller than a page, and the base, the page,
the header and `WORD` are aligned; and the assumptions of `FrameAlloc`). A lemma
per list operation (`RemoveDetaches`, `AddLinks`, `AbsorbKeeps`, `SplitKeeps`,
`LinkPageKeeps`) says what it does to the fields of the headers; on top of these,
`RemoveOK` to `TakeOK` say that each C function keeps `HeapOK`: types, links of the
free list, and layout of the block list. The inductive invariant `HeapInv` adds to
`PmmInv` and `HeapOK` what these need of the state around them:

* every block is below every frame that is still clear (`BelowClearFrames`), so a
  page that `alloc_frame` returns belongs at the end of the block list;
* the first page of an expansion is free and has no links (`Detached`) until
  `expand_heap` enters it at its end; the other new pages stay free blocks on no
  list, so the invariant cannot say that every free block is on the list;
* the cursor of the search is NULL or a free block (`CursorValid`), which is what
  lets `ScanHit` take it;
* what callers hold is a block in use, at least as large as the request unless that
  wrapped.

`KheapImplementsAllocator` maps the blocks in use to the areas of `AreaAllocator`:
`ScanHit` is its `Malloc`, `Kfree` of a held area its `Free`, all other steps leave
the areas as they are. `NoGaps` needs a second invariant, `GapInv`: while the frames
handed out are consecutive, the blocks tile them up to the end of the last one, in
the middle of an expansion too.
From it follows `KernelIntactWhileConsecutive`: as long as there is no hole
between the frames, kmalloc writes into frames of the heap only; so the hole is the
one cause of what `heap_hole` shows. `KheapRunsOnPmm`: the composed
specification implies the frame allocator's, so its theorems hold in it.

`Solace_proofs` proves the four invariants of the `solace` run for every layout
that satisfies `SolaceConstants` (the symbols of the linker script and those of the
memory manager are the same, the bitmap has a bit for every frame, the image lies in
RAM) and those of the parts. `KernelSteps` is the composition: each step of the
kernel is a step of the heap, a free of a number that is not an area, or an abort in
`expand_heap`; `AllocIsKmalloc` and `FreeIsKfree` connect the shell's commands with
the heap. `KernelInv` is `HeapInv` together with the facts that
exactly the image's frames are reserved, and that `GapInv` holds as long as the heap
has not crossed the image, because the frames below it are consecutive
(`ConsecutiveBelowImage`), and that a heap known to be damaged got there by crossing
the image or by a stray free. `BlocksAreFrames` and `UsedFrames` turn the tiling into the
count that `FramesAccounted` states. `BootHandsOver` rests on the first part of the module: `Layout`
shows for all section sizes that the linker script's sections are in order and
apart; `BootInv` says for each stage of `boot.S` what is loaded, copied so far,
cleared so far, and in the registers. In the copy loop it needs that the source
does not overlap what has been written (`SourceApart`, from `BootConstants`).

`Kprintf_proofs` proves the six safety properties of the `kprintf` run for every size
of the buffer, the words and the FIFO, every format and every argument, provided
that num_buf is large enough (`KprintfConstants`: `WORD < 2 * 10^(MAX_INT_DIGITS - 2)`,
which 2^64 and 21 satisfy). The invariant `PrintInv` is the conjunction of the
invariants with `Progress`: the cursor is inside the format until it goes astray,
and output starts where formatting ends. The data are the harder half: a recursive
function is only known to exist once a function that satisfies its equation is
exhibited. `DigitsExist`, `PowersExist`, `ValuesExist` and `FlatsExist` extend
partial functions step by step, and `LeastNat` (a set of naturals that is not
empty has a least element) takes the place of induction: a least counterexample is
led to a contradiction. `DenotesDigits` is then that the digit loop and the positional
value are inverse, `DigitsLength` that the digits fit; `DenotesUpper` and
`DenotesZeros` extend this to capital letters and to pointers padded with zeros.
`LinesGrow` is the step of `SentInOrder`. `StaysInFormat` needs `AtMark`: between
conversions the cursor is at a mark of every way to split the format, because the
conversion that starts at a `%` can end at one place only (`SpecifierEnds`).

Only model-checked: termination and progress (`CallsReturn`, `ProgramAdvances`,
`Returns`, `LineAnswered`, `DumpEnds`, `ReachesShell`, `AllocEnds`), which need fairness and
`ENABLED` and are beyond the prover. Every safety property of a passing run is
stated by a theorem.

## 5. What is not modelled

`uart_init`, `uart_is_data_available`, `kgetc`, `tui_write` and `simple_strtoul`
have no caller. `memset`, `memcpy`, `strlen` and the comparison functions are
loops without state; the models use what they compute. The text that
`boot_debug_copy` prints is left out, and so are the timer and hypervisor
registers that `boot.S` sets in EL2, on which nothing depends. Not in the model of
exceptions: the texts that are printed (several exception classes of the current
level are labelled as coming from a lower one), and floating point registers,
which `save_context` does not save. Not in the model of the heap: writes of
callers outside their areas. Not in `Solace`: `poke`, which may overwrite
anything in RAM, after which nothing can be said, and `memdump`, whose accesses
are in `Shell`. What the heap does after a second `kfree` of a merged block, or
after a `kfree` of a number that is no area, is not followed.

## 6. Plan

1. *Done*: `FrameAlloc`, `Kheap`, `AreaAllocator`, `Exceptions`, `Strtoull`,
   `CommandLine`, `Shell`, `Kprintf`, `Boot`, `Solace`, the runs of section 3 and
   the proofs of section 4.
2. When the code changes: a module is kept in step with the lines that the map in
   `PROJECT.json` names for it. The conditions to drop once the code is repaired are
   `CrossedImage` in `Solace`, the two conditions in `Kprintf` named under its run,
   and the runs that expect a violation, which then become passing ones.
