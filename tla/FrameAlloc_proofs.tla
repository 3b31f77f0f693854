------------------------- MODULE FrameAlloc_proofs -------------------------
(***************************************************************************)
(* The frame allocator is correct for every number of frames, every page   *)
(* size, every placement of the kernel and every choice of boot            *)
(* parameters that lie in the managed region.                              *)
(***************************************************************************)
EXTENDS FrameAlloc, FiniteSetTheorems, TLAPS

-----------------------------------------------------------------------------
(* Arithmetic of frame numbers.                                            *)

(* Multiplying by a page size keeps the order of frame numbers.            *)
LEMMA MulMono ==
  ASSUME NEW a \in Int, NEW b \in Int, NEW p \in Nat, a <= b
  PROVE  a * p <= b * p
OBVIOUS

(* Comparing a frame number with a quotient, as mark_range_used does, is   *)
(* comparing its address with the dividend.                                *)
LEMMA DivCompare ==
  ASSUME NEW a \in Nat, NEW p \in Nat \ {0}, NEW f \in Nat
  PROVE  /\ a \div p <= f <=> a < (f + 1) * p
         /\ f <= a \div p <=> f * p <= a
<1> DEFINE q == a \div p
<1>1. q \in Nat /\ q * p <= a /\ a < (q + 1) * p
  OBVIOUS
<1> HIDE DEF q
<1>2. q <= f => (q + 1) * p <= (f + 1) * p
  BY <1>1, MulMono
<1>3. f <= q => f * p <= q * p
  BY <1>1, MulMono
<1>4. f + 1 <= q => (f + 1) * p <= q * p
  BY <1>1, MulMono
<1>5. q + 1 <= f => (q + 1) * p <= f * p
  BY <1>1, MulMono
<1>6. q * p \in Int /\ (q + 1) * p \in Int /\ f * p \in Int
      /\ (f + 1) * p \in Int
  BY <1>1
<1>7. q <= f <=> a < (f + 1) * p
  BY <1>1, <1>2, <1>4, <1>6
<1>8. f <= q <=> f * p <= a
  BY <1>1, <1>3, <1>5, <1>6
<1> QED BY <1>7, <1>8 DEF q

(* The managed region is a nonempty interval of addresses below WORD.      *)
LEMMA RegionFacts ==
  /\ PMM_MAX_ADDRESS \in Nat /\ PMM_MAX_ADDRESS < WORD
  /\ PMM_TOTAL_FRAMES * PAGE_SIZE \in Nat
  /\ PMM_RAM_BASE < PMM_MAX_ADDRESS
<1>1. PMM_TOTAL_FRAMES * PAGE_SIZE \in Nat
  BY PmmConstants
<1>2. 1 * PAGE_SIZE <= PMM_TOTAL_FRAMES * PAGE_SIZE
  BY PmmConstants, MulMono
<1> QED BY PmmConstants, <1>1, <1>2 DEF PMM_MAX_ADDRESS

(* The frames mark_range_used and mark_range_free work on are exactly the  *)
(* ones that share a byte with the range.                                  *)
LEMMA RangeTouches ==
  ASSUME NEW s, NEW e, RamRange(s, e)
  PROVE  RangeFrames(s, e - s) = {f \in Frames : Touches(f, s, e)}
<1> USE PmmConstants
<1>1. s \in Nat /\ e \in Nat /\ PMM_RAM_BASE <= s /\ s < e
      /\ e <= PMM_MAX_ADDRESS /\ e < WORD
  BY RegionFacts DEF RamRange
<1>2. (s + (e - s)) % WORD = e
  <2>1. s + (e - s) = e
    BY <1>1
  <2>2. e % WORD = e
    BY <1>1
  <2> QED BY <2>1, <2>2
<1>3. ASSUME NEW f \in Frames
      PROVE  /\ (s - PMM_RAM_BASE) \div PAGE_SIZE <= f
                  <=> s < FrameAddr(f + 1)
             /\ f <= (e - 1 - PMM_RAM_BASE) \div PAGE_SIZE
                  <=> FrameAddr(f) < e
  <2>1. f \in Nat
    BY DEF Frames
  <2>2. s - PMM_RAM_BASE \in Nat /\ e - 1 - PMM_RAM_BASE \in Nat
    BY <1>1
  <2>3. f * PAGE_SIZE \in Int /\ (f + 1) * PAGE_SIZE \in Int
    BY <2>1
  <2>4. (s - PMM_RAM_BASE) \div PAGE_SIZE <= f
          <=> s - PMM_RAM_BASE < (f + 1) * PAGE_SIZE
    BY <2>1, <2>2, DivCompare
  <2>5. f <= (e - 1 - PMM_RAM_BASE) \div PAGE_SIZE
          <=> f * PAGE_SIZE <= e - 1 - PMM_RAM_BASE
    BY <2>1, <2>2, DivCompare
  <2> QED BY <1>1, <2>3, <2>4, <2>5 DEF FrameAddr
<1> QED BY <1>1, <1>2, <1>3 DEF RangeFrames, Touches

-----------------------------------------------------------------------------
(* What initialisation leaves behind.                                      *)

LEMMA FramesFinite == IsFiniteSet(Frames) /\ Cardinality(Frames) \in Nat
<1>1. 0 \in Int /\ PMM_TOTAL_FRAMES - 1 \in Int
  BY PmmConstants
<1>2. IsFiniteSet(0 .. PMM_TOTAL_FRAMES - 1)
  BY <1>1, FS_Interval
<1> QED BY <1>2, FS_CardinalityType DEF Frames

(* Between the steps of frame_alloc_init both counters are the number of   *)
(* clear bits.                                                             *)
Counted(s) ==
  /\ s = [bitmap |-> s.bitmap, total |-> s.total, free |-> s.free,
          highest |-> s.highest]
  /\ s.bitmap \subseteq Frames
  /\ s.total = Cardinality(Frames \ s.bitmap)
  /\ s.free = Cardinality(Frames \ s.bitmap)
  /\ s.highest = PMM_MAX_ADDRESS

(* mark_range_used keeps the counters right, although it may meet frames   *)
(* that are already marked, and never runs into its own underflow guards.  *)
LEMMA MarkUsedCounted ==
  ASSUME NEW s, Counted(s), NEW base, NEW size
  PROVE  /\ Counted(MarkRangeUsed(s, base, size))
         /\ MarkRangeUsed(s, base, size).bitmap
              = s.bitmap \cup RangeFrames(base, size)
<1> DEFINE clear  == Frames \ s.bitmap
           marked == RangeFrames(base, size) \ s.bitmap
           r      == MarkRangeUsed(s, base, size)
<1>1. marked \subseteq clear /\ clear \subseteq Frames
  BY DEF RangeFrames
<1>2. IsFiniteSet(clear) /\ Cardinality(clear) \in Nat
  BY <1>1, FramesFinite, FS_Subset, FS_CardinalityType
<1>3. IsFiniteSet(marked) /\ Cardinality(marked) \in Nat
      /\ Cardinality(marked) <= Cardinality(clear)
  BY <1>1, <1>2, FS_Subset, FS_CardinalityType
<1>4. Cardinality(clear \ marked) = Cardinality(clear) - Cardinality(marked)
  <2>1. clear \cap marked = marked
    BY <1>1
  <2> QED BY <1>2, <2>1, FS_Difference
<1>5. r = [bitmap |-> s.bitmap \cup marked,
           total |-> Cardinality(clear) - Cardinality(marked),
           free |-> Cardinality(clear) - Cardinality(marked),
           highest |-> s.highest]
  <2>1. CountDown(Cardinality(clear), Cardinality(marked))
          = Cardinality(clear) - Cardinality(marked)
    BY <1>3 DEF CountDown
  <2>2. s.total = Cardinality(clear) /\ s.free = Cardinality(clear)
    BY DEF Counted
  <2> HIDE DEF clear
  <2> QED BY <2>1, <2>2 DEF MarkRangeUsed
<1>6. Frames \ (s.bitmap \cup marked) = clear \ marked
  OBVIOUS
<1>7. s.bitmap \cup marked = s.bitmap \cup RangeFrames(base, size)
  OBVIOUS
<1>8. s.bitmap \cup marked \subseteq Frames
  BY <1>1 DEF Counted
<1> QED BY <1>4, <1>5, <1>6, <1>7, <1>8 DEF Counted

(* mark_range_free of the whole region clears every bit.                   *)
LEMMA AllFreeCounted ==
  LET s == MarkRangeFree(AllUsed, PMM_RAM_BASE, PMM_TOTAL_FRAMES * PAGE_SIZE)
  IN  Counted(s) /\ s.bitmap = {}
<1> USE PmmConstants
<1> DEFINE size == PMM_TOTAL_FRAMES * PAGE_SIZE
           tops == {PMM_RAM_BASE} \cup {FrameAddr(f + 1) : f \in Frames}
<1>1. RangeFrames(PMM_RAM_BASE, size) = Frames
  <2>1. RamRange(PMM_RAM_BASE, PMM_MAX_ADDRESS)
    BY RegionFacts DEF RamRange
  <2>2. PMM_MAX_ADDRESS - PMM_RAM_BASE = size
    BY RegionFacts DEF PMM_MAX_ADDRESS
  <2>3. ASSUME NEW f \in Frames
        PROVE  Touches(f, PMM_RAM_BASE, PMM_MAX_ADDRESS)
    <3>1. f \in Nat /\ f + 1 <= PMM_TOTAL_FRAMES
      BY DEF Frames
    <3>2. 1 * PAGE_SIZE <= (f + 1) * PAGE_SIZE
      BY <3>1, MulMono
    <3>3. (f + 1) * PAGE_SIZE <= size
      BY <3>1, MulMono
    <3>4. (f + 1) * PAGE_SIZE = f * PAGE_SIZE + PAGE_SIZE
      BY <3>1
    <3>5. f * PAGE_SIZE \in Int /\ (f + 1) * PAGE_SIZE \in Int /\ size \in Int
      BY <3>1
    <3> QED BY <3>2, <3>3, <3>4, <3>5 DEF Touches, FrameAddr, PMM_MAX_ADDRESS
  <2> QED BY <2>1, <2>2, <2>3, RangeTouches
<1>2. Max(tops) = PMM_MAX_ADDRESS
  <2>1. PMM_MAX_ADDRESS \in tops
    <3>1. PMM_TOTAL_FRAMES - 1 \in Frames
      BY DEF Frames
    <3>2. FrameAddr((PMM_TOTAL_FRAMES - 1) + 1) = PMM_MAX_ADDRESS
      BY DEF FrameAddr, PMM_MAX_ADDRESS
    <3> QED BY <3>1, <3>2
  <2>2. ASSUME NEW y \in tops
        PROVE  y \in Nat /\ PMM_MAX_ADDRESS >= y
    <3>1. CASE y = PMM_RAM_BASE
      BY <3>1, RegionFacts
    <3>2. ASSUME NEW f \in Frames, y = FrameAddr(f + 1)
          PROVE  y \in Nat /\ PMM_MAX_ADDRESS >= y
      <4>1. f \in Nat /\ f + 1 <= PMM_TOTAL_FRAMES
        BY DEF Frames
      <4>2. (f + 1) * PAGE_SIZE <= size
        BY <4>1, MulMono
      <4>3. (f + 1) * PAGE_SIZE \in Nat
        BY <4>1
      <4>4. y = PMM_RAM_BASE + (f + 1) * PAGE_SIZE
        BY <3>2 DEF FrameAddr
      <4> QED BY <4>2, <4>3, <4>4, RegionFacts DEF PMM_MAX_ADDRESS
    <3> QED BY <3>1, <3>2
  <2> HIDE DEF tops
  <2>3. \A x \in tops : (\A y \in tops : x >= y) => x = PMM_MAX_ADDRESS
    BY <2>1, <2>2, RegionFacts
  <2> QED BY <2>1, <2>2, <2>3 DEF Max
<1>3. tops = {AllUsed.highest} \cup {FrameAddr(f + 1) : f \in Frames \cap Frames}
  BY DEF AllUsed
<1>4. MarkRangeFree(AllUsed, PMM_RAM_BASE, size)
        = [bitmap |-> {}, total |-> Cardinality(Frames),
           free |-> Cardinality(Frames), highest |-> PMM_MAX_ADDRESS]
  <2>1. AllUsed.bitmap = Frames /\ AllUsed.total = 0 /\ AllUsed.free = 0
    BY DEF AllUsed
  <2>2. Frames \cap Frames = Frames /\ Frames \ Frames = {}
    OBVIOUS
  <2>3. 0 + Cardinality(Frames) = Cardinality(Frames)
    BY FramesFinite
  <2> HIDE DEF tops
  <2> QED BY <1>1, <1>2, <1>3, <2>1, <2>2, <2>3 DEF MarkRangeFree
<1>5. Frames \ {} = Frames
  OBVIOUS
<1> HIDE DEF size
<1>6. ASSUME NEW s, s = [bitmap |-> {}, total |-> Cardinality(Frames),
                         free |-> Cardinality(Frames),
                         highest |-> PMM_MAX_ADDRESS]
      PROVE  Counted(s) /\ s.bitmap = {}
  BY <1>5, <1>6 DEF Counted
<1> QED BY <1>4, <1>6 DEF size

(* frame_alloc_init marks the kernel's frames and no others.               *)
LEMMA InitStateCounted ==
  ASSUME NEW p \in BootParams
  PROVE  /\ Counted(PmmInitState(p))
         /\ PmmInitState(p).bitmap = KernelFrames(p)
<1> DEFINE k  == KernelRange(p)
           s0 == MarkRangeFree(AllUsed, PMM_RAM_BASE,
                               PMM_TOTAL_FRAMES * PAGE_SIZE)
           s1 == MarkRangeUsed(s0, k[1], k[2] - k[1])
           s2 == MarkRangeUsed(s1, BITMAP_START, BITMAP_END - BITMAP_START)
<1>1. RamRange(k[1], k[2]) /\ RamRange(BITMAP_START, BITMAP_END)
  BY PmmRanges DEF KernelRange
<1>2. Counted(s0) /\ s0.bitmap = {}
  BY AllFreeCounted
<1>3. Counted(s1) /\ s1.bitmap = s0.bitmap \cup RangeFrames(k[1], k[2] - k[1])
  BY <1>2, MarkUsedCounted
<1>4. Counted(s2) /\ s2.bitmap = s1.bitmap
                      \cup RangeFrames(BITMAP_START, BITMAP_END - BITMAP_START)
  BY <1>3, MarkUsedCounted
<1>5. s2.bitmap = KernelFrames(p)
  BY <1>1, <1>2, <1>3, <1>4, RangeTouches DEF KernelFrames
<1> QED BY <1>4, <1>5 DEF PmmInitState

-----------------------------------------------------------------------------
(* The inductive invariant: the four invariants of the model together with *)
(* what is so before initialisation and the exact highest address.         *)
HighestIsEnd == pmm_ready => highest_usable_address = PMM_MAX_ADDRESS

NothingBefore == ~pmm_ready => reserved = {} /\ handed = {}

PmmInv ==
  /\ PmmTypeOK
  /\ FreeCount
  /\ BitmapIsReservedPlusHanded
  /\ HighestIsEnd
  /\ NothingBefore

LEMMA PmmInvInit == PmmInit => PmmInv
<1> SUFFICES ASSUME PmmInit PROVE PmmInv
  OBVIOUS
<1> USE DEF PmmInit
<1>1. PmmTypeOK
  BY DEF PmmTypeOK
<1>2. FreeCount /\ HighestIsEnd /\ NothingBefore
  BY DEF FreeCount, HighestIsEnd, NothingBefore
<1>3. BitmapIsReservedPlusHanded
  BY DEF BitmapIsReservedPlusHanded
<1> QED BY <1>1, <1>2, <1>3 DEF PmmInv

LEMMA ClearCount ==
  ASSUME frame_bitmap \subseteq Frames
  PROVE  IsFiniteSet(ClearFrames) /\ Cardinality(ClearFrames) \in Nat
BY FramesFinite, FS_Subset, FS_CardinalityType DEF ClearFrames

(* frame_alloc_init establishes the invariant whatever the bitmap held.    *)
LEMMA PmmInvFrameAllocInit ==
  ASSUME PmmInv, NEW p \in BootParams, FrameAllocInit(p)
  PROVE  PmmInv'
<1> DEFINE s == PmmInitState(p)
<1>1. Counted(s)
  BY InitStateCounted
<1>2. /\ frame_bitmap' = s.bitmap /\ total_memory' = s.total
      /\ free_memory' = s.free /\ highest_usable_address' = s.highest
      /\ reserved' = s.bitmap /\ pmm_ready' = TRUE /\ handed' = {}
  BY DEF FrameAllocInit, PmmInv, NothingBefore
<1> HIDE DEF s
<1>3. Cardinality(Frames \ s.bitmap) \in Nat
  BY FramesFinite, FS_Subset, FS_CardinalityType
<1>4. PmmTypeOK'
  BY <1>1, <1>2, <1>3, RegionFacts DEF PmmTypeOK, Counted
<1>5. FreeCount' /\ BitmapIsReservedPlusHanded' /\ HighestIsEnd'
      /\ NothingBefore'
  BY <1>1, <1>2 DEF FreeCount, ClearFrames, BitmapIsReservedPlusHanded,
                    HighestIsEnd, NothingBefore, Counted
<1> QED BY <1>4, <1>5 DEF PmmInv

LEMMA PmmInvAllocFrame ==
  ASSUME PmmInv, NEW f \in Frames, AllocFrame(f)
  PROVE  PmmInv'
<1> USE DEF PmmInv, AllocFrame
<1>1. IsFiniteSet(ClearFrames) /\ Cardinality(ClearFrames) \in Nat
  BY ClearCount DEF PmmTypeOK
<1>2. ClearFrames' = ClearFrames \ {f}
  BY DEF ClearFrames
<1>3. Cardinality(ClearFrames') = Cardinality(ClearFrames) - 1
  BY <1>1, <1>2, FS_RemoveElement
<1>4. IsFiniteSet(ClearFrames') /\ Cardinality(ClearFrames') \in Nat
  BY <1>1, <1>2, FS_RemoveElement, FS_CardinalityType
<1>5. free_memory' = Cardinality(ClearFrames')
  BY <1>3 DEF FreeCount
<1>6. PmmTypeOK'
  BY <1>4, <1>5 DEF PmmTypeOK
<1>7. FreeCount'
  BY <1>5 DEF FreeCount
<1>8. BitmapIsReservedPlusHanded'
  BY DEF BitmapIsReservedPlusHanded, ClearFrames
<1> QED BY <1>6, <1>7, <1>8 DEF HighestIsEnd, NothingBefore

(* An address free_frame accepts is that of the frame it computes.         *)
LEMMA FrameAddrOf ==
  ASSUME NEW a \in Nat, ~FreeFrameRefuses(a)
  PROVE  FrameOf(a) \in frame_bitmap /\ a = FrameAddr(FrameOf(a))
<1> USE PmmConstants
<1>1. a >= PMM_RAM_BASE /\ a % PAGE_SIZE = 0 /\ FrameOf(a) \in frame_bitmap
  BY DEF FreeFrameRefuses
<1> DEFINE q == a \div PAGE_SIZE
           r == PMM_RAM_BASE \div PAGE_SIZE
<1>2. a = q * PAGE_SIZE /\ q \in Nat
  BY <1>1
<1>3. PMM_RAM_BASE = r * PAGE_SIZE /\ r \in Nat
  OBVIOUS
<1> HIDE DEF q, r
<1>4. a - PMM_RAM_BASE = (q - r) * PAGE_SIZE
  BY <1>2, <1>3
<1>5. ((q - r) * PAGE_SIZE) \div PAGE_SIZE = q - r
  BY <1>2, <1>3
<1> QED BY <1>1, <1>2, <1>3, <1>4, <1>5 DEF FrameOf, FrameAddr

LEMMA PmmInvFreeFrame ==
  ASSUME PmmInv, NEW a \in FreeArguments, FreeFrame(a)
  PROVE  PmmInv'
<1>1. CASE FreeFrameRefuses(a)
  <2>1. UNCHANGED pmm_vars
    BY <1>1 DEF FreeFrame, pmm_vars
  <2> QED BY <2>1 DEF pmm_vars, PmmInv, PmmTypeOK, FreeCount, ClearFrames,
               BitmapIsReservedPlusHanded, HighestIsEnd, NothingBefore
<1>2. CASE ~FreeFrameRefuses(a)
  <2> DEFINE g == FrameOf(a)
  <2>1. /\ frame_bitmap' = frame_bitmap \ {g} /\ free_memory' = free_memory + 1
        /\ handed' = handed \ {g} /\ pmm_ready
        /\ UNCHANGED <<total_memory, highest_usable_address, pmm_ready,
                       reserved>>
    BY <1>2 DEF FreeFrame
  <2>2. g \in frame_bitmap
    BY <1>2 DEF FreeFrameRefuses
  <2>3. g \notin reserved
    BY <1>2, FrameAddrOf DEF FreeArguments
  <2>4. IsFiniteSet(ClearFrames) /\ Cardinality(ClearFrames) \in Nat
    BY ClearCount DEF PmmInv, PmmTypeOK
  <2>5. ClearFrames' = ClearFrames \cup {g} /\ g \notin ClearFrames
    BY <2>1, <2>2 DEF ClearFrames, PmmInv, PmmTypeOK
  <2>6. Cardinality(ClearFrames') = Cardinality(ClearFrames) + 1
    BY <2>4, <2>5, FS_AddElement
  <2> HIDE DEF g
  <2>7. PmmTypeOK'
    BY <2>1 DEF PmmInv, PmmTypeOK
  <2>8. FreeCount'
    BY <2>1, <2>6 DEF PmmInv, FreeCount
  <2>9. BitmapIsReservedPlusHanded'
    BY <2>1, <2>3 DEF PmmInv, BitmapIsReservedPlusHanded
  <2> QED BY <2>1, <2>7, <2>8, <2>9 DEF PmmInv, HighestIsEnd, NothingBefore
<1> QED BY <1>1, <1>2

LEMMA PmmInvStutter ==
  ASSUME PmmInv, UNCHANGED pmm_vars
  PROVE  PmmInv'
BY DEF pmm_vars, PmmInv, PmmTypeOK, FreeCount, ClearFrames,
       BitmapIsReservedPlusHanded, HighestIsEnd, NothingBefore

LEMMA PmmInvNext ==
  ASSUME PmmInv, [PmmNext]_pmm_vars
  PROVE  PmmInv'
<1>1. ASSUME NEW p \in BootParams, FrameAllocInit(p) PROVE PmmInv'
  BY <1>1, PmmInvFrameAllocInit
<1>2. ASSUME NEW f \in Frames, AllocFrame(f) PROVE PmmInv'
  BY <1>2, PmmInvAllocFrame
<1>3. ASSUME NEW a \in FreeArguments, FreeFrame(a) PROVE PmmInv'
  BY <1>3, PmmInvFreeFrame
<1>4. CASE UNCHANGED pmm_vars
  BY <1>4, PmmInvStutter
<1> QED BY <1>1, <1>2, <1>3, <1>4 DEF PmmNext

(* In every behaviour, the inductive invariant holds.                      *)
THEOREM PmmInvariant == PmmSpec => []PmmInv
<1>1. PmmInv /\ [PmmNext]_pmm_vars => PmmInv'
  BY PmmInvNext
<1> QED BY PmmInvInit, <1>1, PTL DEF PmmSpec

(* The state of frame_alloc.c keeps its types; in particular free_memory   *)
(* never goes below zero.                                                  *)
THEOREM PmmTypeCorrect == PmmSpec => []PmmTypeOK
<1>1. PmmInv => PmmTypeOK
  BY DEF PmmInv
<1> QED BY PmmInvariant, <1>1, PTL

(* pmm_get_free_memory is always the number of clear bits, and             *)
(* pmm_get_total_memory what initialisation left usable.                   *)
THEOREM FreeCountCorrect == PmmSpec => []FreeCount
<1>1. PmmInv => FreeCount
  BY DEF PmmInv
<1> QED BY PmmInvariant, <1>1, PTL

(* alloc_frame never hands out a frame twice or one of the kernel's, and   *)
(* none is lost.                                                           *)
THEOREM NoFrameSharedOrLost == PmmSpec => []BitmapIsReservedPlusHanded
<1>1. PmmInv => BitmapIsReservedPlusHanded
  BY DEF PmmInv
<1> QED BY PmmInvariant, <1>1, PTL

(* No frame a caller holds or may get ends above highest_usable_address.   *)
THEOREM HighestIsUpperBound == PmmSpec => []UsableBelowHighest
<1>1. PmmInv => UsableBelowHighest
  <2> SUFFICES ASSUME PmmInv, pmm_ready, NEW f \in ClearFrames \cup handed
               PROVE  FrameAddr(f + 1) <= highest_usable_address
    BY DEF UsableBelowHighest
  <2>1. f \in Nat /\ f + 1 <= PMM_TOTAL_FRAMES
    BY PmmConstants DEF PmmInv, PmmTypeOK, ClearFrames, Frames
  <2>2. (f + 1) * PAGE_SIZE <= PMM_TOTAL_FRAMES * PAGE_SIZE
    BY <2>1, PmmConstants, MulMono
  <2>3. (f + 1) * PAGE_SIZE \in Int /\ PMM_TOTAL_FRAMES * PAGE_SIZE \in Int
    BY <2>1, PmmConstants
  <2> QED BY <2>2, <2>3, PmmConstants
          DEF PmmInv, HighestIsEnd, FrameAddr, PMM_MAX_ADDRESS
<1> QED BY PmmInvariant, <1>1, PTL

(* Initialisation keeps back exactly the frames that share a byte with the *)
(* kernel image or the bitmap, whatever their alignment and size.          *)
THEOREM KernelFramesAreReserved == PmmSpec => KernelFramesReserved
<1>1. ASSUME NEW p \in BootParams, FrameAllocInit(p)
      PROVE  reserved' = KernelFrames(p)
  BY <1>1, InitStateCounted DEF FrameAllocInit
<1>2. [PmmNext]_pmm_vars => [InitReserves]_pmm_vars
  BY <1>1 DEF InitReserves
<1> QED BY <1>2, PTL DEF PmmSpec, KernelFramesReserved
=============================================================================
