----------------------------- MODULE FrameAlloc -----------------------------
(***************************************************************************)
(* The physical memory manager (src/memory/frame_alloc.c): a bitmap with   *)
(* one bit per 4 KB frame of the managed region, three counters, and the   *)
(* operations frame_alloc_init, alloc_frame and free_frame.                *)
(*                                                                         *)
(* total_memory and free_memory only ever move by PAGE_SIZE, so they are   *)
(* counted in frames.  Addresses are bytes, and sums of addresses wrap at  *)
(* WORD (2^64 in the code).                                                *)
(***************************************************************************)
EXTENDS Integers, FiniteSets, FiniteSetsExt

CONSTANTS
  PAGE_SIZE,          \* bytes per frame
  PMM_RAM_BASE,       \* address of frame 0
  PMM_TOTAL_FRAMES,   \* frames the bitmap manages
  WORD,               \* number of values of a uint64_t
  KERNEL_START,       \* linker symbols _kernel_start, _kernel_end
  KERNEL_END,
  BITMAP_START,       \* linker symbols _pmm_bitmap_start, _pmm_bitmap_end
  BITMAP_END,
  BootParams          \* what boot code may pass: <<>> is the null pointer,
                      \* <<s, e>> a kernel_phys_start and kernel_phys_end

NULL == 0

PMM_MAX_ADDRESS == PMM_RAM_BASE + PMM_TOTAL_FRAMES * PAGE_SIZE

Frames == 0 .. PMM_TOTAL_FRAMES - 1

(* A pair of addresses that delimits a nonempty piece of managed RAM.      *)
RamRange(s, e) ==
  /\ s \in Nat /\ e \in Nat
  /\ PMM_RAM_BASE <= s /\ s < e /\ e <= PMM_MAX_ADDRESS

ASSUME PmmConstants ==
  /\ PAGE_SIZE \in Nat \ {0}
  /\ PMM_RAM_BASE \in Nat \ {0} /\ PMM_RAM_BASE % PAGE_SIZE = 0
  /\ PMM_TOTAL_FRAMES \in Nat \ {0}
  /\ WORD \in Nat /\ PMM_MAX_ADDRESS < WORD /\ PMM_TOTAL_FRAMES < WORD

ASSUME PmmRanges ==
  /\ RamRange(KERNEL_START, KERNEL_END)
  /\ RamRange(BITMAP_START, BITMAP_END)
  /\ \A p \in BootParams : p = <<>> \/ RamRange(p[1], p[2])

VARIABLES
  frame_bitmap,            \* the frames whose bit is set
  total_memory,            \* in frames
  free_memory,             \* in frames
  highest_usable_address,
  pmm_ready,               \* frame_alloc_init has returned
  reserved,                \* history: the frames it left marked used
  handed                   \* history: frames returned by alloc_frame, not freed

pmm_vars == <<frame_bitmap, total_memory, free_memory,
              highest_usable_address, pmm_ready, reserved, handed>>

FrameAddr(f) == PMM_RAM_BASE + f * PAGE_SIZE

ClearFrames == Frames \ frame_bitmap

-----------------------------------------------------------------------------
(***************************************************************************)
(* mark_range_used and mark_range_free: the frames from the one holding    *)
(* the first byte to the one holding the last, nothing when the first byte *)
(* lies below or above the managed region, and capped at the last frame.   *)
(***************************************************************************)
(* Mutant: the last frame is the one before the end address is divided.    *)
RangeFramesShort(base_addr, size) ==
  {f \in Frames : /\ (base_addr - PMM_RAM_BASE) \div PAGE_SIZE <= f
                  /\ f < (base_addr + size - PMM_RAM_BASE) \div PAGE_SIZE}

RangeFrames(base_addr, size) ==
  LET end_addr    == (base_addr + size) % WORD
      start_frame == IF base_addr >= PMM_RAM_BASE
                     THEN (base_addr - PMM_RAM_BASE) \div PAGE_SIZE
                     ELSE WORD - 1
      end_frame   == IF end_addr > PMM_RAM_BASE
                     THEN (end_addr - 1 - PMM_RAM_BASE) \div PAGE_SIZE
                     ELSE 0
  IN  {f \in Frames : start_frame <= f /\ f <= end_frame}

(* Subtracts 1 from c for each of n frames, as long as c is at least 1.    *)
CountDown(c, n) == IF n <= c THEN c - n ELSE 0

(* Mutant: frames that are already marked are counted again.               *)
MarkRangeUsedUntested(s, base_addr, size) ==
  LET marked == RangeFrames(base_addr, size)
  IN  [bitmap  |-> s.bitmap \cup marked,
       total   |-> CountDown(s.total, Cardinality(marked)),
       free    |-> CountDown(s.free, Cardinality(marked)),
       highest |-> s.highest]

MarkRangeUsed(s, base_addr, size) ==
  LET marked == RangeFrames(base_addr, size) \ s.bitmap
  IN  [bitmap  |-> s.bitmap \cup marked,
       total   |-> CountDown(s.total, Cardinality(marked)),
       free    |-> CountDown(s.free, Cardinality(marked)),
       highest |-> s.highest]

(* Mutant: the highest address is the start of the last frame.             *)
MarkRangeFreeLow(s, base_addr, size) ==
  LET cleared == RangeFrames(base_addr, size) \cap s.bitmap
  IN  [bitmap  |-> s.bitmap \ RangeFrames(base_addr, size),
       total   |-> s.total + Cardinality(cleared),
       free    |-> s.free + Cardinality(cleared),
       highest |-> Max({s.highest} \cup {FrameAddr(f) : f \in cleared})]

MarkRangeFree(s, base_addr, size) ==
  LET range   == RangeFrames(base_addr, size)
      cleared == range \cap s.bitmap
  IN  [bitmap  |-> s.bitmap \ range,
       total   |-> s.total + Cardinality(cleared),
       free    |-> s.free + Cardinality(cleared),
       highest |-> Max({s.highest} \cup {FrameAddr(f + 1) : f \in cleared})]

(* The state right after memset(frame_bitmap, 0xFF) and the three resets.  *)
AllUsed == [bitmap |-> Frames, total |-> 0, free |-> 0,
            highest |-> PMM_RAM_BASE]

(* Mutant: without parameters there is nothing to keep.                    *)
KernelRangeNone(params) == IF params = <<>> THEN <<NULL, NULL>> ELSE params

(* The kernel image to keep: the loader's word for it, or the linker's.    *)
KernelRange(params) ==
  IF params = <<>> THEN <<KERNEL_START, KERNEL_END>> ELSE params

(* What frame_alloc_init leaves behind.                                    *)
PmmInitState(params) ==
  LET k      == KernelRange(params)
      usable == MarkRangeFree(AllUsed, PMM_RAM_BASE,
                              PMM_TOTAL_FRAMES * PAGE_SIZE)
      kernel == MarkRangeUsed(usable, k[1], k[2] - k[1])
  IN  MarkRangeUsed(kernel, BITMAP_START, BITMAP_END - BITMAP_START)

FrameAllocInit(params) ==
  /\ ~pmm_ready
  /\ LET s == PmmInitState(params)
     IN  /\ frame_bitmap' = s.bitmap
         /\ total_memory' = s.total
         /\ free_memory' = s.free
         /\ highest_usable_address' = s.highest
         /\ reserved' = s.bitmap
  /\ pmm_ready' = TRUE
  /\ UNCHANGED handed

(* Mutant: alloc_frame does not set the bit.                               *)
AllocFrameUnmarked(f) ==
  /\ pmm_ready
  /\ f \in ClearFrames
  /\ \A g \in ClearFrames : f <= g
  /\ free_memory' = free_memory - 1
  /\ handed' = handed \cup {f}
  /\ UNCHANGED <<frame_bitmap, total_memory, highest_usable_address,
                 pmm_ready, reserved>>

(* alloc_frame finds the first clear bit, sets it and returns that frame.  *)
AllocFrame(f) ==
  /\ pmm_ready
  /\ f \in ClearFrames
  /\ \A g \in ClearFrames : f <= g
  /\ frame_bitmap' = frame_bitmap \cup {f}
  /\ free_memory' = free_memory - 1
  /\ handed' = handed \cup {f}
  /\ UNCHANGED <<total_memory, highest_usable_address, pmm_ready, reserved>>

(* alloc_frame finds every bit set and returns NULL.                       *)
OutOfFrames ==
  /\ pmm_ready
  /\ ClearFrames = {}

FrameOf(addr) == (addr - PMM_RAM_BASE) \div PAGE_SIZE

(* Mutant: no test that the frame is in use.                               *)
FreeFrameTrusts(addr) ==
  \/ addr < PMM_RAM_BASE \/ addr >= PMM_MAX_ADDRESS
  \/ addr % PAGE_SIZE # 0

(* The arguments free_frame returns from without a change: NULL, outside   *)
(* the managed region, not on a frame boundary, already free.              *)
FreeFrameRefuses(addr) ==
  \/ addr = NULL
  \/ addr < PMM_RAM_BASE \/ addr >= PMM_MAX_ADDRESS
  \/ addr % PAGE_SIZE # 0
  \/ FrameOf(addr) >= PMM_TOTAL_FRAMES
  \/ FrameOf(addr) \notin frame_bitmap

FreeFrame(addr) ==
  /\ pmm_ready
  /\ \/ /\ FreeFrameRefuses(addr)
        /\ UNCHANGED <<frame_bitmap, free_memory, handed>>
     \/ /\ ~FreeFrameRefuses(addr)
        /\ frame_bitmap' = frame_bitmap \ {FrameOf(addr)}
        /\ free_memory' = free_memory + 1
        /\ handed' = handed \ {FrameOf(addr)}
  /\ UNCHANGED <<total_memory, highest_usable_address, pmm_ready, reserved>>

-----------------------------------------------------------------------------
(***************************************************************************)
(* Before frame_alloc_init the bitmap holds whatever RAM held: it lies     *)
(* outside .bss, so boot.S does not clear it.  The counters are in .bss.   *)
(***************************************************************************)
PmmInit ==
  /\ frame_bitmap \in SUBSET Frames
  /\ total_memory = 0
  /\ free_memory = 0
  /\ highest_usable_address = 0
  /\ pmm_ready = FALSE
  /\ reserved = {}
  /\ handed = {}

(* frame_alloc.h: free_frame is for "a previously allocated physical       *)
(* frame".  Callers also pass NULL, addresses inside frames and outside    *)
(* the region, and frames that are free, but not the kernel's own frames.  *)
FreeArguments ==
  {a \in 0 .. PMM_MAX_ADDRESS + PAGE_SIZE : \A f \in reserved : a # FrameAddr(f)}

PmmNext ==
  \/ \E params \in BootParams : FrameAllocInit(params)
  \/ \E f \in Frames : AllocFrame(f)
  \/ OutOfFrames /\ UNCHANGED pmm_vars
  \/ \E a \in FreeArguments : FreeFrame(a)

PmmSpec == PmmInit /\ [][PmmNext]_pmm_vars

-----------------------------------------------------------------------------
PmmTypeOK ==
  /\ frame_bitmap \subseteq Frames
  /\ total_memory \in Nat
  /\ free_memory \in Nat
  /\ highest_usable_address \in Nat
  /\ pmm_ready \in BOOLEAN
  /\ reserved \subseteq Frames
  /\ handed \subseteq Frames

(* pmm_get_free_memory and pmm_get_total_memory tell the truth: through    *)
(* any sequence of calls, refused ones included, the free counter is the   *)
(* number of clear bits and the total is what initialisation left usable.  *)
FreeCount ==
  pmm_ready => /\ free_memory = Cardinality(ClearFrames)
               /\ total_memory = Cardinality(Frames \ reserved)

(* A set bit is either the kernel's or a caller's, never both: no frame is *)
(* handed out twice, none of the kernel's is handed out, none is lost.     *)
BitmapIsReservedPlusHanded ==
  /\ pmm_ready => frame_bitmap = reserved \cup handed
  /\ reserved \cap handed = {}

(* The frames that share a byte with the kernel image, as the loader or    *)
(* the linker gives it, or with the bitmap.                                *)
Touches(f, s, e) == FrameAddr(f) < e /\ s < FrameAddr(f + 1)

KernelFrames(params) ==
  LET k == KernelRange(params)
  IN  {f \in Frames : \/ Touches(f, k[1], k[2])
                      \/ Touches(f, BITMAP_START, BITMAP_END)}

InitReserves ==
  \A p \in BootParams : FrameAllocInit(p) => reserved' = KernelFrames(p)

(* The frame arithmetic of the two mark_range functions against its        *)
(* meaning: initialisation keeps back exactly the frames that share a byte *)
(* with the kernel image or the bitmap, whatever the bitmap held before.   *)
KernelFramesReserved == [][InitReserves]_pmm_vars

(* The shell takes highest_usable_address for the end of usable RAM: no    *)
(* frame a caller holds or may get lies beyond it.                         *)
UsableBelowHighest ==
  pmm_ready => \A f \in ClearFrames \cup handed :
                 FrameAddr(f + 1) <= highest_usable_address
=============================================================================
