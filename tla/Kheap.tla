------------------------------- MODULE Kheap -------------------------------
(***************************************************************************)
(* The kernel heap (src/memory/kheap.c) on top of the frame allocator.     *)
(* Every page the heap gets starts a block: a header followed by a data    *)
(* area.  All blocks form one doubly linked list in address order (next,   *)
(* prev); free blocks are meant to form a second one (next_free,           *)
(* prev_free) that starts at free_list_head.                               *)
(*                                                                         *)
(* The pointer manipulations are operators from heap to heap, one per C    *)
(* function.  kmalloc runs in steps because it loops: one step per element *)
(* of the free list it looks at and one per page expand_heap obtains.      *)
(***************************************************************************)
EXTENDS FrameAlloc

CONSTANTS
  HEAP_HEADER_SIZE,    \* sizeof(heap_block_t)
  ALIGNMENT,           \* sizeof(void* )
  KHEAP_INIT_PAGES,    \* pages kheap_init asks for (4)
  Sizes                \* the sizes callers pass to kmalloc

HEAP_MIN_BLOCK_SIZE == HEAP_HEADER_SIZE * 2

ASSUME KheapConstants ==
  /\ HEAP_HEADER_SIZE \in Nat \ {0}
  /\ HEAP_HEADER_SIZE < PAGE_SIZE
  /\ ALIGNMENT \in Nat \ {0}
  /\ \A n \in {PMM_RAM_BASE, PAGE_SIZE, HEAP_HEADER_SIZE, WORD} :
       n % ALIGNMENT = 0
  /\ KHEAP_INIT_PAGES \in Nat
  /\ Sizes \subseteq 0 .. WORD - 1

VARIABLES
  heap,   \* blk: the header at the address of each block; the two list ends
          \* heap_start and heap_end; free_list_head
  pc,     \* where the running call is: see PC
  call,   \* its locals: see IdleCall
  live    \* history: pointers callers hold, each with the size it asked for

heap_vars == <<heap, pc, call, live>>
vars == <<pmm_vars, heap_vars>>

(* "off" before kheap_init; "idle" between calls; "scan" in a first-fit    *)
(* loop; "grow" in expand_heap's page loop; "corrupt" once memory that is  *)
(* not the heap's was written, or something freed that is no area: from    *)
(* there nothing is claimed.                                               *)
PC == {"off", "idle", "scan", "grow", "corrupt"}

(* req: the argument of kmalloc, 0 while kheap_init runs; size: req        *)
(* aligned; cur: current_free; grown: expand_heap has already run; todo:   *)
(* pages still to get; first: expand_heap's new_block.                     *)
IdleCall == [req |-> 0, size |-> 0, cur |-> NULL, grown |-> FALSE,
             todo |-> 0, first |-> NULL]

NoBlocks == [x \in {} |-> NULL]

EmptyHeap == [blk |-> NoBlocks, heap_start |-> NULL, heap_end |-> NULL,
              free_list_head |-> NULL]

Blocks(h) == DOMAIN h.blk

(* One past the last byte of block b's data area.                          *)
EndOf(h, b) == b + HEAP_HEADER_SIZE + h.blk[b].size

WithBlock(blk, b, header) ==
  [x \in DOMAIN blk \cup {b} |-> IF x = b THEN header ELSE blk[x]]

WithoutBlock(blk, b) == [x \in DOMAIN blk \ {b} |-> blk[x]]

-----------------------------------------------------------------------------
(* Free list management.                                                   *)

AddToFreeList(h, b) ==
  LET old == h.free_list_head
      h1  == [h EXCEPT !.blk[b].is_free = TRUE,
                       !.blk[b].next_free = old,
                       !.blk[b].prev_free = NULL]
      h2  == IF old = NULL THEN h1 ELSE [h1 EXCEPT !.blk[old].prev_free = b]
  IN  [h2 EXCEPT !.free_list_head = b]

(* Mutant: the next block keeps its prev_free.                             *)
RemoveFromFreeListOneWay(h, b) ==
  LET p  == h.blk[b].prev_free
      n  == h.blk[b].next_free
      h1 == IF p = NULL THEN [h EXCEPT !.free_list_head = n]
                        ELSE [h EXCEPT !.blk[p].next_free = n]
  IN  [h1 EXCEPT !.blk[b].is_free = FALSE,
                 !.blk[b].next_free = NULL,
                 !.blk[b].prev_free = NULL]

RemoveFromFreeList(h, b) ==
  LET p  == h.blk[b].prev_free
      n  == h.blk[b].next_free
      h1 == IF p = NULL THEN [h EXCEPT !.free_list_head = n]
                        ELSE [h EXCEPT !.blk[p].next_free = n]
      h2 == IF n = NULL THEN h1 ELSE [h1 EXCEPT !.blk[n].prev_free = p]
  IN  [h2 EXCEPT !.blk[b].is_free = FALSE,
                 !.blk[b].next_free = NULL,
                 !.blk[b].prev_free = NULL]

(* Mutant: the header of n is not counted.                                 *)
AbsorbDataOnly(h, a, n) ==
  LET after == h.blk[n].next
      h1 == [h EXCEPT !.blk[a].size = @ + h.blk[n].size,
                      !.blk[a].next = after]
      h2 == IF after = NULL THEN h1 ELSE [h1 EXCEPT !.blk[after].prev = a]
  IN  [h2 EXCEPT !.blk = WithoutBlock(@, n),
                 !.heap_end = IF @ = n THEN a ELSE @]

(* Mutant: heap_end still points to n.                                     *)
AbsorbKeepingEnd(h, a, n) ==
  LET after == h.blk[n].next
      h1 == [h EXCEPT !.blk[a].size = @ + h.blk[n].size + HEAP_HEADER_SIZE,
                      !.blk[a].next = after]
      h2 == IF after = NULL THEN h1 ELSE [h1 EXCEPT !.blk[after].prev = a]
  IN  [h2 EXCEPT !.blk = WithoutBlock(@, n)]

(* Block a takes over the next block n: its size and header become part of *)
(* a's data area and n leaves the list of blocks.                          *)
Absorb(h, a, n) ==
  LET after == h.blk[n].next
      h1 == [h EXCEPT !.blk[a].size = @ + h.blk[n].size + HEAP_HEADER_SIZE,
                      !.blk[a].next = after]
      h2 == IF after = NULL THEN h1 ELSE [h1 EXCEPT !.blk[after].prev = a]
  IN  [h2 EXCEPT !.blk = WithoutBlock(@, n),
                 !.heap_end = IF @ = n THEN a ELSE @]

(* Mutant: any neighbour is merged with.                                   *)
IsBlock(h, b) == b # NULL /\ b \in Blocks(h)

IsFreeBlock(h, b) == b # NULL /\ h.blk[b].is_free

(* coalesce: forward, then backward; the heap and the resulting block.     *)
CoalesceForward(h, b) ==
  LET n == h.blk[b].next
  IN  IF IsFreeBlock(h, n) THEN Absorb(RemoveFromFreeList(h, n), b, n) ELSE h

CoalesceBackward(h, b) ==
  LET p == h.blk[b].prev
  IN  IF IsFreeBlock(h, p)
      THEN [heap |-> Absorb(RemoveFromFreeList(h, p), p, b), block |-> p]
      ELSE [heap |-> h, block |-> b]

Coalesce(h, b) == CoalesceBackward(CoalesceForward(h, b), b)

(* expand_heap appends one page as a block of its own.  alloc_frame        *)
(* zeroed the page, so the fields not set here are NULL.                   *)
PageHeader(prev) ==
  [size |-> PAGE_SIZE - HEAP_HEADER_SIZE, is_free |-> TRUE, next |-> NULL,
   prev |-> prev, next_free |-> NULL, prev_free |-> NULL]

LinkPage(h, b) ==
  LET last == h.heap_end
      h1   == [h EXCEPT !.blk = WithBlock(@, b, PageHeader(last)),
                        !.heap_end = b]
  IN  IF last = NULL THEN [h1 EXCEPT !.heap_start = b]
                     ELSE [h1 EXCEPT !.blk[last].next = b]

(* The end of expand_heap: merge the first new page with the block before  *)
(* it if that one is free, and put the result, and only that, on the list. *)
FinishExpansion(h, b) ==
  LET c == CoalesceBackward(h, b)
  IN  AddToFreeList(c.heap, c.block)

(* The part of kmalloc after the search: take b off the list and, if what  *)
(* is left can hold a header and as much data, split it off as a free      *)
(* block.                                                                  *)
(* Mutant: no room is asked for the new header.                            *)
CanAlwaysSplit(h, b, size) == h.blk[b].size >= size

CanSplit(h, b, size) == h.blk[b].size >= size + HEAP_MIN_BLOCK_SIZE

SplitOff(h, b, size) ==
  LET rest  == b + HEAP_HEADER_SIZE + size
      after == h.blk[b].next
      h1 == [h EXCEPT !.blk = WithBlock(@, rest,
               [size |-> h.blk[b].size - size - HEAP_HEADER_SIZE,
                is_free |-> TRUE, next |-> after, prev |-> b,
                next_free |-> NULL, prev_free |-> NULL])]
      h2 == IF after = NULL THEN [h1 EXCEPT !.heap_end = rest]
                            ELSE [h1 EXCEPT !.blk[after].prev = rest]
      h3 == [h2 EXCEPT !.blk[b].size = size, !.blk[b].next = rest]
  IN  AddToFreeList(h3, rest)

(* Mutant: the block stays on the free list.                               *)
TakeListed(h, b, size) ==
  IF CanSplit(h, b, size) THEN SplitOff(h, b, size) ELSE h

Take(h, b, size) ==
  LET h1 == RemoveFromFreeList(h, b)
  IN  IF CanSplit(h, b, size) THEN SplitOff(h1, b, size) ELSE h1

-----------------------------------------------------------------------------
(* Size arithmetic on size_t.                                              *)

Align(size) == LET up == (size + ALIGNMENT - 1) % WORD
               IN  up - (up % ALIGNMENT)

PagesNeeded(min_expand_size) ==
  LET n == ((min_expand_size + HEAP_HEADER_SIZE + PAGE_SIZE - 1) % WORD)
             \div PAGE_SIZE
  IN  IF n = 0 THEN 1 ELSE n

(* kmalloc writes a split-off header and zeroes the data area; are these   *)
(* bytes, from b to the end e, in frames the heap got from alloc_frame?    *)
InHeapFrames(b, e) ==
  \A f \in Frames \ handed : FrameAddr(f + 1) <= b \/ e <= FrameAddr(f)

WrittenEnd(h, b, size) ==
  IF CanSplit(h, b, size)
  THEN b + HEAP_HEADER_SIZE + size + HEAP_HEADER_SIZE
  ELSE EndOf(h, b)

-----------------------------------------------------------------------------
(* kheap_init: reset the lists and enter expand_heap.                      *)
KheapInit ==
  /\ pmm_ready /\ pc = "off"
  /\ heap' = EmptyHeap
  /\ call' = [IdleCall EXCEPT !.todo =
                 PagesNeeded((PAGE_SIZE * KHEAP_INIT_PAGES) % WORD)]
  /\ pc' = "grow"
  /\ UNCHANGED <<live, pmm_vars>>

(* kmalloc is called; a request for 0 bytes returns NULL at once.          *)
Kmalloc(size) ==
  /\ pc = "idle"
  /\ \/ /\ size = 0
        /\ UNCHANGED <<pc, call>>
     \/ /\ size # 0
        /\ call' = [IdleCall EXCEPT !.req = size, !.size = Align(size),
                                    !.cur = heap.free_list_head]
        /\ pc' = "scan"
  /\ UNCHANGED <<heap, live, pmm_vars>>

(* First fit: the block at hand is too small, look at the next.            *)
ScanNext ==
  /\ pc = "scan" /\ call.cur # NULL
  /\ heap.blk[call.cur].size < call.size
  /\ call' = [call EXCEPT !.cur = heap.blk[call.cur].next_free]
  /\ UNCHANGED <<heap, pc, live, pmm_vars>>

(* First fit: found.  kmalloc takes it and returns its data area.          *)
ScanHit ==
  /\ pc = "scan" /\ call.cur # NULL
  /\ heap.blk[call.cur].size >= call.size
  /\ heap' = Take(heap, call.cur, call.size)
  /\ live' = WithBlock(live, call.cur + HEAP_HEADER_SIZE, call.req)
  /\ pc' = IF InHeapFrames(call.cur, WrittenEnd(heap, call.cur, call.size))
           THEN "idle" ELSE "corrupt"
  /\ call' = IdleCall
  /\ UNCHANGED pmm_vars

(* No block fits: expand the heap the first time, give up the second.      *)
ScanMiss ==
  /\ pc = "scan" /\ call.cur = NULL
  /\ \/ /\ ~call.grown
        /\ call' = [call EXCEPT !.todo = PagesNeeded(
                      (call.size + HEAP_HEADER_SIZE) % WORD)]
        /\ pc' = "grow"
     \/ /\ call.grown
        /\ call' = IdleCall
        /\ pc' = "idle"
  /\ UNCHANGED <<heap, live, pmm_vars>>

(* expand_heap gets one more page and links it behind the last block.      *)
GrowPage(f) ==
  /\ pc = "grow" /\ call.todo > 0
  /\ AllocFrame(f)
  /\ heap' = LinkPage(heap, FrameAddr(f))
  /\ call' = [call EXCEPT !.todo = @ - 1,
                          !.first = IF @ = NULL THEN FrameAddr(f) ELSE @]
  /\ UNCHANGED <<pc, live>>

(* alloc_frame fails: expand_heap returns false, with the pages it already *)
(* linked left as they are; kmalloc returns NULL, kheap_init ignores it.   *)
GrowFails ==
  /\ pc = "grow" /\ call.todo > 0
  /\ OutOfFrames
  /\ call' = IdleCall
  /\ pc' = "idle"
  /\ UNCHANGED <<heap, live, pmm_vars>>

(* All pages are there; back to kheap_init or to kmalloc's second search.  *)
GrowDone ==
  /\ pc = "grow" /\ call.todo = 0
  /\ LET h == FinishExpansion(heap, call.first)
     IN  /\ heap' = h
         /\ IF call.req = 0
            THEN /\ call' = IdleCall
                 /\ pc' = "idle"
            ELSE /\ call' = [call EXCEPT !.grown = TRUE, !.first = NULL,
                                         !.cur = h.free_list_head]
                 /\ pc' = "scan"
  /\ UNCHANGED <<live, pmm_vars>>

(* Mutant: the coalesced block is put on the list twice.                   *)
KfreeTwiceAdded(ptr) ==
  /\ pc = "idle"
  /\ LET b == ptr - HEAP_HEADER_SIZE
         c == Coalesce([heap EXCEPT !.blk[b].is_free = TRUE], b)
         h == AddToFreeList(c.heap, c.block)
     IN  IF ptr = NULL \/ heap.blk[b].is_free
         THEN UNCHANGED <<heap, live>>
         ELSE /\ heap' = AddToFreeList(h, c.block)
              /\ live' = WithoutBlock(live, ptr)
  /\ UNCHANGED <<pc, call, pmm_vars>>

(* kfree: NULL is ignored, a block marked free is reported as freed twice, *)
(* any other is marked free, coalesced and put on the list.                *)
Kfree(ptr) ==
  /\ pc = "idle"
  /\ LET b == ptr - HEAP_HEADER_SIZE
         c == Coalesce([heap EXCEPT !.blk[b].is_free = TRUE], b)
     IN  IF ptr = NULL \/ heap.blk[b].is_free
         THEN UNCHANGED <<heap, live>>
         ELSE /\ heap' = AddToFreeList(c.heap, c.block)
              /\ live' = WithoutBlock(live, ptr)
  /\ UNCHANGED <<pc, call, pmm_vars>>

-----------------------------------------------------------------------------
Init ==
  /\ PmmInit
  /\ heap = EmptyHeap
  /\ pc = "off"
  /\ call = IdleCall
  /\ live = NoBlocks

(* kheap.h: kfree is for "a previously allocated block": callers pass NULL *)
(* or the data area of a block, which they may already have freed.         *)
FreeableAreas == {NULL} \cup {b + HEAP_HEADER_SIZE : b \in Blocks(heap)}

Step ==
  \/ ScanNext \/ ScanHit \/ ScanMiss
  \/ (\E f \in Frames : GrowPage(f)) \/ GrowFails \/ GrowDone

Next ==
  \/ (\E p \in BootParams : FrameAllocInit(p)) /\ UNCHANGED heap_vars
  \/ KheapInit
  \/ \E size \in Sizes : Kmalloc(size)
  \/ \E ptr \in FreeableAreas : Kfree(ptr)
  \/ Step

Spec == Init /\ [][Next]_vars

(* The processor keeps executing the call it is in.                        *)
FairSpec == Spec /\ WF_vars(Step)

-----------------------------------------------------------------------------
(* Types of the state.                                                     *)

Header == [size : Nat, is_free : BOOLEAN, next : Nat, prev : Nat,
           next_free : Nat, prev_free : Nat]

HeapTypeOK(h) ==
  /\ h = [blk |-> h.blk, heap_start |-> h.heap_start,
          heap_end |-> h.heap_end, free_list_head |-> h.free_list_head]
  /\ Blocks(h) \subseteq Nat \ {NULL}
  /\ h.blk \in [Blocks(h) -> Header]
  /\ h.heap_start \in Nat /\ h.heap_end \in Nat /\ h.free_list_head \in Nat

TypeOK ==
  /\ PmmTypeOK
  /\ HeapTypeOK(heap)
  /\ pc \in PC
  /\ call \in [req : Nat, size : Nat, cur : Nat, grown : BOOLEAN,
               todo : Nat, first : Nat]
  /\ live \in [DOMAIN live -> Nat]

(* However the free list is lost and found again, every free_list link     *)
(* has its converse and joins free blocks only, and free_list_head starts  *)
(* a chain: the search in kmalloc meets no allocated block and no cycle.   *)
FreeLinksOK(h) ==
  /\ \A b \in Blocks(h) :
       LET n == h.blk[b].next_free
           p == h.blk[b].prev_free
       IN  /\ n # NULL => /\ n \in Blocks(h) /\ h.blk[n].prev_free = b
                          /\ h.blk[b].is_free /\ h.blk[n].is_free
           /\ p # NULL => /\ p \in Blocks(h) /\ h.blk[p].next_free = b
                          /\ h.blk[b].is_free /\ h.blk[p].is_free
  /\ h.free_list_head # NULL =>
       /\ h.free_list_head \in Blocks(h)
       /\ h.blk[h.free_list_head].is_free
       /\ h.blk[h.free_list_head].prev_free = NULL

FreeListSound == FreeLinksOK(heap)

(* No two blocks overlap, and next and prev lead to the neighbours in      *)
(* address order, through splits, merges and expansions.                   *)
BlocksDisjoint(h) ==
  \A a, b \in Blocks(h) : a < b => EndOf(h, a) <= b

ListInOrder(h) ==
  /\ \A b \in Blocks(h) :
       LET n == h.blk[b].next
           p == h.blk[b].prev
       IN  /\ IF n = NULL THEN b = h.heap_end
                          ELSE /\ n \in Blocks(h) /\ b < n
                               /\ \A x \in Blocks(h) : x <= b \/ n <= x
           /\ IF p = NULL THEN b = h.heap_start
                          ELSE /\ p \in Blocks(h) /\ p < b
                               /\ \A x \in Blocks(h) : x <= p \/ b <= x
  /\ IF Blocks(h) = {} THEN h.heap_start = NULL /\ h.heap_end = NULL
     ELSE /\ {h.heap_start, h.heap_end} \subseteq Blocks(h)
          /\ \A x \in Blocks(h) : h.heap_start <= x /\ x <= h.heap_end

HeapWellFormed == BlocksDisjoint(heap) /\ ListInOrder(heap)

(* The allocated blocks are exactly the areas callers hold: kmalloc gives  *)
(* no area twice, and no call but kfree of it ends a caller's hold.  Each  *)
(* area is aligned for a pointer and has at least the size its caller      *)
(* asked for, unless aligning the request overflowed (kheap.c:184): then   *)
(* it is smaller than the smallest block that would be split off.          *)
HeldAreasAllocated ==
  /\ DOMAIN live = {b + HEAP_HEADER_SIZE :
                      b \in {x \in Blocks(heap) : ~heap.blk[x].is_free}}
  /\ \A p \in DOMAIN live :
       /\ p % ALIGNMENT = 0
       /\ LET size == heap.blk[p - HEAP_HEADER_SIZE].size
          IN  IF live[p] + ALIGNMENT <= WORD
              THEN live[p] <= size ELSE size < HEAP_MIN_BLOCK_SIZE

(* The heap implements the abstract allocator: the held areas, read off    *)
(* the headers, change only by adding an area apart from all others or by  *)
(* removing one, while the pages and free blocks around them come and go.  *)
HeldAreas ==
  [p \in {b + HEAP_HEADER_SIZE :
             b \in {x \in Blocks(heap) : ~heap.blk[x].is_free}} |->
     heap.blk[p - HEAP_HEADER_SIZE].size]

Abstract == INSTANCE AreaAllocator WITH areas <- HeldAreas

ImplementsAllocator == Abstract!Spec

(* As long as alloc_frame returned consecutive frames, no byte falls       *)
(* between two blocks, and every byte of every frame is in one: nothing is *)
(* lost to the heap by splitting and coalescing, nor by an expansion that  *)
(* fails half-way.  (Over a gap between frames, coalesce merges blocks     *)
(* that do not touch.)                                                     *)
FramesConsecutive ==
  \A f, g \in handed : \A x \in Frames : f < x /\ x < g => x \in handed

NoGaps == FramesConsecutive =>
            /\ \A b \in Blocks(heap) :
                 heap.blk[b].next # NULL => EndOf(heap, b) = heap.blk[b].next
            /\ \A f \in handed :
                 \A y \in FrameAddr(f) .. FrameAddr(f + 1) - 1 :
                   \E b \in Blocks(heap) : b <= y /\ y < EndOf(heap, b)

(* Every call of kmalloc and kheap_init comes to an end.                   *)
CallsReturn == (pc \in {"scan", "grow"}) ~> (pc = "idle")

-----------------------------------------------------------------------------
(***************************************************************************)
(* What comments in the code say of it and the code does not keep.         *)
(***************************************************************************)

(* kheap.c:219, "Should not happen if expansion succeeded": the search     *)
(* after an expansion finds a block.                                       *)
ExpansionSuffices == ~(pc = "scan" /\ call.grown /\ call.cur = NULL)

(* frame_alloc.c:130, "Then mark kernel memory as used": kmalloc writes to *)
(* no frame that the frame allocator keeps back.                           *)
KernelIntact == pc # "corrupt"
=============================================================================
