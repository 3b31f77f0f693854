--------------------------- MODULE Kheap_proofs ---------------------------
(***************************************************************************)
(* The heap's lists are sound, its blocks apart and its callers' areas     *)
(* their own, for every page size, header size and alignment, every number *)
(* of frames and placement of the kernel, and every sequence of calls; and *)
(* it implements AreaAllocator.                                            *)
(***************************************************************************)
EXTENDS Kheap, FrameAlloc_proofs

-----------------------------------------------------------------------------
(* How a heap g differs from a heap h.                                     *)

(* The list of all blocks is the same.                                     *)
SameLayout(g, h) ==
  /\ Blocks(g) = Blocks(h)
  /\ g.heap_start = h.heap_start /\ g.heap_end = h.heap_end
  /\ \A x \in Blocks(h) : /\ g.blk[x].size = h.blk[x].size
                          /\ g.blk[x].next = h.blk[x].next
                          /\ g.blk[x].prev = h.blk[x].prev

(* Only the three free list fields of block b may differ.                  *)
Marked(g, h, b, is_free, next_free, prev_free) ==
  /\ HeapTypeOK(g) /\ SameLayout(g, h)
  /\ g.free_list_head = h.free_list_head
  /\ \A x \in Blocks(h) :
       /\ g.blk[x].is_free <=> IF x = b THEN is_free ELSE h.blk[x].is_free
       /\ g.blk[x].next_free = IF x = b THEN next_free ELSE h.blk[x].next_free
       /\ g.blk[x].prev_free = IF x = b THEN prev_free ELSE h.blk[x].prev_free

(* Only the head of the free list may differ.                              *)
Headed(g, h, head) ==
  /\ HeapTypeOK(g) /\ SameLayout(g, h)
  /\ g.free_list_head = head
  /\ \A x \in Blocks(h) : /\ g.blk[x].is_free <=> h.blk[x].is_free
                          /\ g.blk[x].next_free = h.blk[x].next_free
                          /\ g.blk[x].prev_free = h.blk[x].prev_free

LEMMA HeadedItself == ASSUME NEW h, HeapTypeOK(h)
                      PROVE  Headed(h, h, h.free_list_head)
BY DEF Headed, SameLayout

LEMMA SetIsFree ==
  ASSUME NEW h, HeapTypeOK(h), NEW b \in Blocks(h), NEW v \in BOOLEAN
  PROVE  Marked([h EXCEPT !.blk[b].is_free = v], h, b,
                v, h.blk[b].next_free, h.blk[b].prev_free)
BY DEF Marked, HeapTypeOK, SameLayout, Header, Blocks

LEMMA SetNextFree ==
  ASSUME NEW h, HeapTypeOK(h), NEW b \in Blocks(h), NEW v \in Nat
  PROVE  Marked([h EXCEPT !.blk[b].next_free = v], h, b,
                h.blk[b].is_free, v, h.blk[b].prev_free)
BY DEF Marked, HeapTypeOK, SameLayout, Header, Blocks

LEMMA SetPrevFree ==
  ASSUME NEW h, HeapTypeOK(h), NEW b \in Blocks(h), NEW v \in Nat
  PROVE  Marked([h EXCEPT !.blk[b].prev_free = v], h, b,
                h.blk[b].is_free, h.blk[b].next_free, v)
BY DEF Marked, HeapTypeOK, SameLayout, Header, Blocks

LEMMA SetHead ==
  ASSUME NEW h, HeapTypeOK(h), NEW v \in Nat
  PROVE  Headed([h EXCEPT !.free_list_head = v], h, v)
BY DEF Headed, HeapTypeOK, SameLayout, Header, Blocks

LEMMA SetMarks ==
  ASSUME NEW h, HeapTypeOK(h), NEW b \in Blocks(h),
         NEW u \in BOOLEAN, NEW v \in Nat, NEW w \in Nat
  PROVE  Marked([h EXCEPT !.blk[b].is_free = u,
                          !.blk[b].next_free = v,
                          !.blk[b].prev_free = w], h, b, u, v, w)
<1> DEFINE h1 == [h EXCEPT !.blk[b].is_free = u]
           h2 == [h1 EXCEPT !.blk[b].next_free = v]
           h3 == [h2 EXCEPT !.blk[b].prev_free = w]
<1>1. Marked(h1, h, b, u, h.blk[b].next_free, h.blk[b].prev_free)
  BY SetIsFree
<1>2. HeapTypeOK(h1) /\ Blocks(h1) = Blocks(h)
  BY <1>1 DEF Marked, SameLayout
<1>3. Marked(h2, h1, b, h1.blk[b].is_free, v, h1.blk[b].prev_free)
  <2> HIDE DEF h1
  <2> QED BY <1>2, SetNextFree
<1>4. HeapTypeOK(h2) /\ Blocks(h2) = Blocks(h)
  BY <1>2, <1>3 DEF Marked, SameLayout
<1>5. Marked(h3, h2, b, h2.blk[b].is_free, h2.blk[b].next_free, w)
  <2> HIDE DEF h2
  <2> QED BY <1>4, SetPrevFree
<1> HIDE DEF h1, h2, h3
<1>6. Marked(h3, h, b, u, v, w)
  BY <1>1, <1>3, <1>5 DEF Marked, SameLayout
<1> QED BY <1>6 DEF h1, h2, h3

-----------------------------------------------------------------------------
(* The free list.                                                          *)

(* No link leads to or from block b.                                       *)
Detached(h, b) ==
  /\ h.blk[b].next_free = NULL /\ h.blk[b].prev_free = NULL
  /\ h.free_list_head # b

(* remove_from_free_list unlinks any block, on the list or not: of one     *)
(* that is not, the list loses its head.                                   *)
LEMMA RemoveDetaches ==
  ASSUME NEW h, HeapTypeOK(h), FreeLinksOK(h), NEW b \in Blocks(h),
         NEW g, g = RemoveFromFreeList(h, b)
  PROVE  /\ HeapTypeOK(g) /\ FreeLinksOK(g)
         /\ SameLayout(g, h) /\ Detached(g, b)
         /\ \A x \in Blocks(h) :
              g.blk[x].is_free <=> IF x = b THEN FALSE ELSE h.blk[x].is_free
         /\ \A x \in Blocks(h) : Detached(h, x) => Detached(g, x)
<1> DEFINE p  == h.blk[b].prev_free
           n  == h.blk[b].next_free
           h1 == IF p = NULL THEN [h EXCEPT !.free_list_head = n]
                             ELSE [h EXCEPT !.blk[p].next_free = n]
           h2 == IF n = NULL THEN h1 ELSE [h1 EXCEPT !.blk[n].prev_free = p]
           h3 == [h2 EXCEPT !.blk[b].is_free = FALSE,
                            !.blk[b].next_free = NULL,
                            !.blk[b].prev_free = NULL]
<1>1. g = h3
  BY DEF RemoveFromFreeList
<1>2. /\ p \in Nat /\ n \in Nat /\ NULL \in Nat /\ NULL \notin Blocks(h)
      /\ p # NULL => p \in Blocks(h)
      /\ n # NULL => n \in Blocks(h)
  BY DEF HeapTypeOK, FreeLinksOK, Header, NULL
<1>3. IF p = NULL THEN Headed(h1, h, n)
      ELSE Marked(h1, h, p, h.blk[p].is_free, n, h.blk[p].prev_free)
  BY <1>2, SetHead, SetNextFree
<1>4. HeapTypeOK(h1) /\ SameLayout(h1, h) /\ Blocks(h1) = Blocks(h)
  BY <1>3 DEF Headed, Marked, SameLayout
<1> HIDE DEF h1
<1>5. n # NULL => Marked(h2, h1, n, h1.blk[n].is_free, h1.blk[n].next_free, p)
  BY <1>2, <1>4, SetPrevFree
<1>6. n = NULL => h2 = h1
  OBVIOUS
<1> HIDE DEF h2
<1>7. HeapTypeOK(h2) /\ SameLayout(h2, h) /\ Blocks(h2) = Blocks(h)
  BY <1>4, <1>5, <1>6 DEF Marked, SameLayout
<1>8. Marked(h3, h2, b, FALSE, NULL, NULL)
  BY <1>2, <1>7, SetMarks
<1> HIDE DEF h3
<1>9. HeapTypeOK(h3) /\ SameLayout(h3, h) /\ Blocks(h3) = Blocks(h)
  BY <1>7, <1>8 DEF Marked, SameLayout
<1>10. h3.free_list_head = IF p = NULL THEN n ELSE h.free_list_head
  BY <1>3, <1>5, <1>6, <1>8 DEF Marked, Headed
<1>11. ASSUME NEW x \in Blocks(h)
       PROVE  h3.blk[x].next_free = IF x = b THEN NULL
                 ELSE IF p # NULL /\ x = p THEN n ELSE h.blk[x].next_free
  <2> HIDE DEF p, n
  <2> QED BY <1>2, <1>3, <1>4, <1>5, <1>6, <1>7, <1>8 DEF Marked, Headed
<1>12. ASSUME NEW x \in Blocks(h)
       PROVE  h3.blk[x].prev_free = IF x = b THEN NULL
                 ELSE IF n # NULL /\ x = n THEN p ELSE h.blk[x].prev_free
  <2> HIDE DEF p, n
  <2> QED BY <1>2, <1>3, <1>4, <1>5, <1>6, <1>7, <1>8 DEF Marked, Headed
<1>13. ASSUME NEW x \in Blocks(h)
       PROVE  h3.blk[x].is_free <=> IF x = b THEN FALSE ELSE h.blk[x].is_free
  <2> HIDE DEF p, n
  <2> QED BY <1>2, <1>3, <1>4, <1>5, <1>6, <1>7, <1>8 DEF Marked, Headed
<1>14. FreeLinksOK(h3)
  BY SMTT(30), <1>2, <1>9, <1>10, <1>11, <1>12, <1>13 DEF FreeLinksOK
<1>15. Detached(h3, b)
  BY <1>2, <1>10, <1>11, <1>12 DEF FreeLinksOK, Detached
<1>16. ASSUME NEW x \in Blocks(h), Detached(h, x) PROVE Detached(h3, x)
  BY <1>2, <1>10, <1>11, <1>12, <1>16 DEF FreeLinksOK, Detached
<1> QED BY <1>1, <1>9, <1>13, <1>14, <1>15, <1>16

(* add_to_free_list puts a block in front of the list.                     *)
LEMMA AddLinks ==
  ASSUME NEW h, HeapTypeOK(h), FreeLinksOK(h), NEW b \in Blocks(h),
         Detached(h, b),
         NEW g, g = AddToFreeList(h, b)
  PROVE  /\ HeapTypeOK(g) /\ FreeLinksOK(g)
         /\ SameLayout(g, h)
         /\ \A x \in Blocks(h) :
              g.blk[x].is_free <=> IF x = b THEN TRUE ELSE h.blk[x].is_free
<1> DEFINE old == h.free_list_head
           h1  == [h EXCEPT !.blk[b].is_free = TRUE,
                            !.blk[b].next_free = old,
                            !.blk[b].prev_free = NULL]
           h2  == IF old = NULL THEN h1 ELSE [h1 EXCEPT !.blk[old].prev_free = b]
           h3  == [h2 EXCEPT !.free_list_head = b]
<1>1. g = h3
  BY Zenon DEF AddToFreeList
<1>2. /\ old \in Nat /\ b \in Nat /\ b # NULL /\ NULL \in Nat
      /\ NULL \notin Blocks(h)
      /\ old # NULL => old \in Blocks(h)
  BY DEF HeapTypeOK, FreeLinksOK, NULL
<1>3. Marked(h1, h, b, TRUE, old, NULL)
  BY <1>2, SetMarks
<1>4. HeapTypeOK(h1) /\ SameLayout(h1, h) /\ Blocks(h1) = Blocks(h)
  BY <1>3 DEF Marked, SameLayout
<1> HIDE DEF h1
<1>5. old # NULL =>
        Marked(h2, h1, old, h1.blk[old].is_free, h1.blk[old].next_free, b)
  BY <1>2, <1>4, SetPrevFree
<1>6. old = NULL => h2 = h1
  OBVIOUS
<1> HIDE DEF h2
<1>7. HeapTypeOK(h2) /\ SameLayout(h2, h) /\ Blocks(h2) = Blocks(h)
  BY <1>4, <1>5, <1>6 DEF Marked, SameLayout
<1>8. Headed(h3, h2, b)
  BY <1>2, <1>7, SetHead
<1> HIDE DEF h3
<1>9. HeapTypeOK(h3) /\ SameLayout(h3, h) /\ Blocks(h3) = Blocks(h)
  BY <1>7, <1>8 DEF Headed, SameLayout
<1>10. h3.free_list_head = b
  BY <1>8 DEF Headed
<1>11. ASSUME NEW x \in Blocks(h)
       PROVE  h3.blk[x].next_free = IF x = b THEN old ELSE h.blk[x].next_free
  <2> HIDE DEF old
  <2> QED BY <1>2, <1>3, <1>4, <1>5, <1>6, <1>7, <1>8 DEF Marked, Headed
<1>12. ASSUME NEW x \in Blocks(h)
       PROVE  h3.blk[x].prev_free = IF old # NULL /\ x = old THEN b
                 ELSE IF x = b THEN NULL ELSE h.blk[x].prev_free
  <2> HIDE DEF old
  <2> QED BY <1>2, <1>3, <1>4, <1>5, <1>6, <1>7, <1>8 DEF Marked, Headed
<1>13. ASSUME NEW x \in Blocks(h)
       PROVE  h3.blk[x].is_free <=> IF x = b THEN TRUE ELSE h.blk[x].is_free
  <2> HIDE DEF old
  <2> QED BY <1>2, <1>3, <1>4, <1>5, <1>6, <1>7, <1>8 DEF Marked, Headed
<1>14. ASSUME NEW x \in Blocks(h)
       PROVE  LET n == h3.blk[x].next_free
                  p == h3.blk[x].prev_free
              IN  /\ n # NULL => /\ n \in Blocks(h) /\ h3.blk[n].prev_free = x
                                 /\ h3.blk[x].is_free /\ h3.blk[n].is_free
                  /\ p # NULL => /\ p \in Blocks(h) /\ h3.blk[p].next_free = x
                                 /\ h3.blk[x].is_free /\ h3.blk[p].is_free
  <2>1. CASE x = b
    BY <2>1, <1>2, <1>11, <1>12, <1>13 DEF FreeLinksOK, Detached
  <2>2. CASE x # b
    <3> DEFINE n == h.blk[x].next_free
               p == h.blk[x].prev_free
    <3>1. /\ n # NULL => /\ n \in Blocks(h) /\ h.blk[n].prev_free = x
                         /\ h.blk[x].is_free /\ h.blk[n].is_free
          /\ p # NULL => /\ p \in Blocks(h) /\ h.blk[p].next_free = x
                         /\ h.blk[x].is_free /\ h.blk[p].is_free
      BY DEF FreeLinksOK
    <3>2. /\ old # NULL => h.blk[old].is_free /\ h.blk[old].prev_free = NULL
          /\ old # b /\ h.blk[b].prev_free = NULL /\ h.blk[b].next_free = NULL
      BY DEF FreeLinksOK, Detached
    <3>3. h3.blk[x].next_free = n
      BY <2>2, <1>11
    <3>4. n # NULL => n # old /\ n # b
      BY <1>2, <3>1, <3>2
    <3>5. p # NULL => p # b
      BY <1>2, <3>1, <3>2
    <3>6. n # NULL => h3.blk[n].prev_free = x
      BY <1>12, <3>1, <3>4
    <3>7. CASE x = old
      <4>1. old # NULL
        BY <1>2, <3>7
      <4>2. h3.blk[x].prev_free = b
        BY <3>7, <4>1, <1>12
      <4>3. h3.blk[b].next_free = x
        BY <3>7, <1>11
      <4>4. h3.blk[x].is_free /\ h3.blk[b].is_free
        BY <3>7, <4>1, <3>2, <1>13
      <4> QED BY <1>13, <3>1, <3>3, <3>6, <4>2, <4>3, <4>4
    <3>8. CASE x # old
      <4>1. h3.blk[x].prev_free = p
        BY <2>2, <3>8, <1>12
      <4>2. p # NULL => h3.blk[p].next_free = x
        BY <1>11, <3>1, <3>5
      <4> QED BY <1>13, <3>1, <3>3, <3>6, <4>1, <4>2
    <3> QED BY <3>7, <3>8
  <2> QED BY <2>1, <2>2
<1>15. FreeLinksOK(h3)
  BY <1>2, <1>9, <1>10, <1>12, <1>13, <1>14 DEF FreeLinksOK, Detached
<1> QED BY <1>1, <1>9, <1>13, <1>15

-----------------------------------------------------------------------------
(* The list of all blocks.                                                 *)

(* Only the three layout fields of block b may differ.                     *)
Placed(g, h, b, size, next, prev) ==
  /\ HeapTypeOK(g)
  /\ Blocks(g) = Blocks(h)
  /\ g.heap_start = h.heap_start /\ g.heap_end = h.heap_end
  /\ g.free_list_head = h.free_list_head
  /\ \A x \in Blocks(h) :
       /\ g.blk[x].is_free <=> h.blk[x].is_free
       /\ g.blk[x].next_free = h.blk[x].next_free
       /\ g.blk[x].prev_free = h.blk[x].prev_free
       /\ g.blk[x].size = IF x = b THEN size ELSE h.blk[x].size
       /\ g.blk[x].next = IF x = b THEN next ELSE h.blk[x].next
       /\ g.blk[x].prev = IF x = b THEN prev ELSE h.blk[x].prev

LEMMA SetSize ==
  ASSUME NEW h, HeapTypeOK(h), NEW b \in Blocks(h), NEW v \in Nat
  PROVE  Placed([h EXCEPT !.blk[b].size = v], h, b,
                v, h.blk[b].next, h.blk[b].prev)
BY SMTT(30) DEF Placed, HeapTypeOK, Header, Blocks

LEMMA SetNext ==
  ASSUME NEW h, HeapTypeOK(h), NEW b \in Blocks(h), NEW v \in Nat
  PROVE  Placed([h EXCEPT !.blk[b].next = v], h, b,
                h.blk[b].size, v, h.blk[b].prev)
BY SMTT(30) DEF Placed, HeapTypeOK, Header, Blocks

LEMMA SetPrev ==
  ASSUME NEW h, HeapTypeOK(h), NEW b \in Blocks(h), NEW v \in Nat
  PROVE  Placed([h EXCEPT !.blk[b].prev = v], h, b,
                h.blk[b].size, h.blk[b].next, v)
BY DEF Placed, HeapTypeOK, Header, Blocks

LEMMA SetSizeNext ==
  ASSUME NEW h, HeapTypeOK(h), NEW b \in Blocks(h), NEW v \in Nat, NEW w \in Nat
  PROVE  Placed([h EXCEPT !.blk[b].size = v, !.blk[b].next = w], h, b,
                v, w, h.blk[b].prev)
<1> DEFINE h1 == [h EXCEPT !.blk[b].size = v]
           h2 == [h1 EXCEPT !.blk[b].next = w]
<1>1. Placed(h1, h, b, v, h.blk[b].next, h.blk[b].prev)
  BY SetSize
<1>2. HeapTypeOK(h1) /\ Blocks(h1) = Blocks(h)
  BY <1>1 DEF Placed
<1>3. Placed(h2, h1, b, h1.blk[b].size, w, h1.blk[b].prev)
  <2> HIDE DEF h1
  <2> QED BY <1>2, SetNext
<1> HIDE DEF h1, h2
<1>4. Placed(h2, h, b, v, w, h.blk[b].prev)
  BY <1>1, <1>3 DEF Placed
<1> QED BY <1>4 DEF h1, h2

(* Block n is gone; the rest is as it was, but for the end of the list.    *)
Dropped(g, h, n, end) ==
  /\ HeapTypeOK(g)
  /\ Blocks(g) = Blocks(h) \ {n}
  /\ g.heap_start = h.heap_start /\ g.heap_end = end
  /\ g.free_list_head = h.free_list_head
  /\ \A x \in Blocks(h) \ {n} :
       /\ g.blk[x].is_free <=> h.blk[x].is_free
       /\ g.blk[x].next_free = h.blk[x].next_free
       /\ g.blk[x].prev_free = h.blk[x].prev_free
       /\ g.blk[x].size = h.blk[x].size
       /\ g.blk[x].next = h.blk[x].next
       /\ g.blk[x].prev = h.blk[x].prev

LEMMA DropBlock ==
  ASSUME NEW h, HeapTypeOK(h), NEW n \in Blocks(h), NEW e \in Nat
  PROVE  Dropped([h EXCEPT !.blk = WithoutBlock(@, n), !.heap_end = e],
                 h, n, e)
<1> DEFINE B == WithoutBlock(h.blk, n)
           k == [h EXCEPT !.blk = B]
           g == [k EXCEPT !.heap_end = e]
<1>1. /\ DOMAIN B = Blocks(h) \ {n}
      /\ B \in [Blocks(h) \ {n} -> Header]
      /\ \A x \in Blocks(h) \ {n} : B[x] = h.blk[x]
  BY DEF WithoutBlock, Blocks, HeapTypeOK
<1> HIDE DEF B
<1>2. k = [blk |-> B, heap_start |-> h.heap_start, heap_end |-> h.heap_end,
           free_list_head |-> h.free_list_head]
  BY DEF HeapTypeOK
<1> HIDE DEF k
<1>3. g = [blk |-> B, heap_start |-> h.heap_start, heap_end |-> e,
           free_list_head |-> h.free_list_head]
  BY <1>2
<1> HIDE DEF g
<1>4. Dropped(g, h, n, e)
  BY <1>1, <1>3 DEF Dropped, HeapTypeOK, Blocks
<1> QED BY <1>4 DEF g, k, B

(* What is so at block b: its neighbours in the list are its neighbours in *)
(* memory.                                                                 *)
InOrderAt(h, b) ==
  LET n == h.blk[b].next
      p == h.blk[b].prev
  IN  /\ IF n = NULL THEN b = h.heap_end
                     ELSE /\ n \in Blocks(h) /\ b < n
                          /\ \A x \in Blocks(h) : x <= b \/ n <= x
      /\ IF p = NULL THEN b = h.heap_start
                     ELSE /\ p \in Blocks(h) /\ p < b
                          /\ \A x \in Blocks(h) : x <= p \/ b <= x

(* What the list of all blocks keeps: order, no overlap, alignment.        *)
BlocksAligned(h) ==
  \A b \in Blocks(h) : b % ALIGNMENT = 0 /\ h.blk[b].size % ALIGNMENT = 0

LayoutOK(h) == BlocksDisjoint(h) /\ ListInOrder(h) /\ BlocksAligned(h)

LEMMA LayoutKept ==
  ASSUME NEW h, NEW g, LayoutOK(h), SameLayout(g, h)
  PROVE  LayoutOK(g) /\ \A x \in Blocks(h) : EndOf(g, x) = EndOf(h, x)
<1>1. BlocksDisjoint(g) /\ BlocksAligned(g)
  BY DEF LayoutOK, SameLayout, BlocksDisjoint, EndOf, BlocksAligned
<1>2. ListInOrder(g)
  BY DEF LayoutOK, SameLayout, ListInOrder
<1>3. \A x \in Blocks(h) : EndOf(g, x) = EndOf(h, x)
  BY DEF SameLayout, EndOf
<1> QED BY <1>1, <1>2, <1>3 DEF LayoutOK

(* The list in memory order gives each block one successor and one         *)
(* predecessor.                                                            *)
LEMMA NeighboursUnique ==
  ASSUME NEW h, HeapTypeOK(h), ListInOrder(h),
         NEW a \in Blocks(h), NEW b \in Blocks(h)
  PROVE  h.blk[a].next = b <=> h.blk[b].prev = a
<1>1. a \in Nat /\ b \in Nat /\ a # NULL /\ b # NULL
      /\ h.blk[a].next \in Nat /\ h.blk[b].prev \in Nat
      /\ \A x \in Blocks(h) : x \in Nat
  BY DEF HeapTypeOK, Header
<1>2. InOrderAt(h, a) /\ InOrderAt(h, b)
  BY DEF ListInOrder, InOrderAt
<1>3. /\ h.heap_start \in Nat /\ h.heap_end \in Nat
      /\ \A x \in Blocks(h) : h.heap_start <= x /\ x <= h.heap_end
  BY DEF ListInOrder, HeapTypeOK
<1>4. ASSUME h.blk[a].next = b PROVE h.blk[b].prev = a
  BY <1>1, <1>2, <1>3, <1>4 DEF InOrderAt
<1>5. ASSUME h.blk[b].prev = a PROVE h.blk[a].next = b
  BY <1>1, <1>2, <1>3, <1>5 DEF InOrderAt
<1> QED BY <1>4, <1>5

(* Sums, differences and multiples of aligned numbers are aligned.         *)
LEMMA AlignedSum ==
  ASSUME NEW m \in Nat, NEW n \in Nat,
         m % ALIGNMENT = 0, n % ALIGNMENT = 0
  PROVE  /\ (m + n) % ALIGNMENT = 0
         /\ n <= m => (m - n) % ALIGNMENT = 0
<1> USE KheapConstants
<1> DEFINE q == m \div ALIGNMENT
           r == n \div ALIGNMENT
<1>1. m = q * ALIGNMENT /\ q \in Nat
  OBVIOUS
<1>2. n = r * ALIGNMENT /\ r \in Nat
  OBVIOUS
<1> HIDE DEF q, r
<1>3. \A k \in Int : (k * ALIGNMENT) % ALIGNMENT = 0
  OBVIOUS
<1>4. m + n = (q + r) * ALIGNMENT /\ m - n = (q - r) * ALIGNMENT
  BY <1>1, <1>2
<1>5. q + r \in Int /\ q - r \in Int
  BY <1>1, <1>2
<1> QED BY <1>3, <1>4, <1>5

LEMMA AlignedProduct ==
  ASSUME NEW m \in Nat, NEW n \in Nat, n % ALIGNMENT = 0
  PROVE  (m * n) % ALIGNMENT = 0
<1> USE KheapConstants
<1> DEFINE r == n \div ALIGNMENT
<1>1. n = r * ALIGNMENT /\ r \in Nat
  OBVIOUS
<1> HIDE DEF r
<1>2. \A k \in Int : (k * ALIGNMENT) % ALIGNMENT = 0
  OBVIOUS
<1>3. m * n = (m * r) * ALIGNMENT /\ m * r \in Int
  BY <1>1
<1> QED BY <1>2, <1>3

LEMMA ConstantsAligned ==
  /\ PMM_RAM_BASE % ALIGNMENT = 0 /\ PAGE_SIZE % ALIGNMENT = 0
  /\ HEAP_HEADER_SIZE % ALIGNMENT = 0
BY KheapConstants

(* Merging block n into the block a before it keeps both lists.            *)
LEMMA AbsorbKeeps ==
  ASSUME NEW h, HeapTypeOK(h), FreeLinksOK(h), LayoutOK(h),
         NEW a \in Blocks(h), NEW n \in Blocks(h),
         h.blk[a].next = n, Detached(h, n),
         NEW g, g = Absorb(h, a, n)
  PROVE  /\ HeapTypeOK(g) /\ FreeLinksOK(g) /\ LayoutOK(g)
         /\ Blocks(g) = Blocks(h) \ {n} /\ a \in Blocks(g)
         /\ EndOf(g, a) <= EndOf(h, n)
         /\ g.blk[a].size = h.blk[a].size + h.blk[n].size + HEAP_HEADER_SIZE
         /\ \A x \in Blocks(g) :
              /\ g.blk[x].is_free <=> h.blk[x].is_free
              /\ Detached(h, x) => Detached(g, x)
              /\ x # a => g.blk[x].size = h.blk[x].size
<1> DEFINE after == h.blk[n].next
           size  == h.blk[a].size + h.blk[n].size + HEAP_HEADER_SIZE
           end   == IF h.heap_end = n THEN a ELSE h.heap_end
           h1 == [h EXCEPT !.blk[a].size = @ + h.blk[n].size + HEAP_HEADER_SIZE,
                           !.blk[a].next = after]
           h2 == IF after = NULL THEN h1 ELSE [h1 EXCEPT !.blk[after].prev = a]
           h3 == [h2 EXCEPT !.blk = WithoutBlock(@, n),
                            !.heap_end = IF @ = n THEN a ELSE @]
<1>1. g = h3
  BY DEF Absorb
<1>2. /\ after \in Nat /\ size \in Nat /\ a \in Nat /\ n \in Nat /\ end \in Nat
      /\ NULL \notin Blocks(h) /\ Blocks(h) \subseteq Nat
      /\ h.blk[n].size \in Nat /\ h.blk[a].size \in Nat
      /\ \A x \in Blocks(h) : h.blk[x] \in Header
      /\ h.heap_start \in Nat /\ h.heap_end \in Nat
  BY KheapConstants DEF HeapTypeOK, Header
<1>3. /\ InOrderAt(h, a) /\ InOrderAt(h, n)
      /\ \A x \in Blocks(h) : InOrderAt(h, x)
      /\ \A x \in Blocks(h) : h.heap_start <= x /\ x <= h.heap_end
      /\ {h.heap_start, h.heap_end} \subseteq Blocks(h)
  BY DEF LayoutOK, ListInOrder, InOrderAt
<1>4. a < n
  BY <1>2, <1>3 DEF InOrderAt
<1>5. after # NULL => /\ after \in Blocks(h) /\ n < after /\ after # a
                      /\ \A x \in Blocks(h) : x <= n \/ after <= x
  BY <1>2, <1>3, <1>4 DEF InOrderAt
<1>6. after = NULL <=> h.heap_end = n
  BY <1>2, <1>3, <1>5 DEF InOrderAt
<1>7. Placed(h1, h, a, size, after, h.blk[a].prev)
  BY <1>2, SetSizeNext
<1>8. HeapTypeOK(h1) /\ Blocks(h1) = Blocks(h)
  BY <1>7 DEF Placed
<1> HIDE DEF h1
<1>9. after # NULL =>
        Placed(h2, h1, after, h1.blk[after].size, h1.blk[after].next, a)
  BY <1>2, <1>5, <1>8, SetPrev
<1>10. after = NULL => h2 = h1
  OBVIOUS
<1> HIDE DEF h2
<1>11. HeapTypeOK(h2) /\ Blocks(h2) = Blocks(h) /\ h2.heap_end = h.heap_end
  BY <1>7, <1>8, <1>9, <1>10 DEF Placed
<1>12. Dropped(h3, h2, n, end)
  BY <1>2, <1>11, DropBlock
<1> HIDE DEF h3
<1>13. /\ HeapTypeOK(h3) /\ Blocks(h3) = Blocks(h) \ {n}
       /\ h3.heap_start = h.heap_start /\ h3.heap_end = end
       /\ h3.free_list_head = h.free_list_head
  BY <1>7, <1>8, <1>9, <1>10, <1>11, <1>12 DEF Placed, Dropped
<1>14. ASSUME NEW x \in Blocks(h) \ {n}
       PROVE  /\ h3.blk[x].is_free <=> h.blk[x].is_free
              /\ h3.blk[x].next_free = h.blk[x].next_free
              /\ h3.blk[x].prev_free = h.blk[x].prev_free
              /\ h3.blk[x].size = IF x = a THEN size ELSE h.blk[x].size
              /\ h3.blk[x].next = IF x = a THEN after ELSE h.blk[x].next
              /\ h3.blk[x].prev = IF x = after THEN a ELSE h.blk[x].prev
  <2> HIDE DEF after, size, end
  <2> QED BY <1>2, <1>5, <1>7, <1>8, <1>9, <1>10, <1>11, <1>12 DEF Placed, Dropped
<1>15. FreeLinksOK(h3)
  BY SMTT(30), <1>2, <1>13, <1>14 DEF FreeLinksOK, Detached
<1>16. EndOf(h, a) <= n
  BY <1>4 DEF LayoutOK, BlocksDisjoint
<1>17. EndOf(h3, a) <= EndOf(h, n)
  BY <1>2, <1>4, <1>14, <1>16, KheapConstants DEF EndOf
<1>18. BlocksDisjoint(h3)
  <2> SUFFICES ASSUME NEW x \in Blocks(h3), NEW y \in Blocks(h3), x < y
               PROVE  EndOf(h3, x) <= y
    BY DEF BlocksDisjoint
  <2>1. EndOf(h, x) <= y
    BY <1>13 DEF LayoutOK, BlocksDisjoint
  <2>2. CASE x # a
    BY <2>1, <2>2, <1>13, <1>14 DEF EndOf
  <2>3. CASE x = a
    <3>1. n < y
      BY <2>3, <1>2, <1>3, <1>13 DEF InOrderAt
    <3>2. EndOf(h, n) <= y
      BY <3>1, <1>13 DEF LayoutOK, BlocksDisjoint
    <3> QED BY <2>3, <3>2, <1>2, <1>13, <1>14, <1>17, KheapConstants DEF EndOf
  <2> QED BY <2>2, <2>3
<1>19. ASSUME NEW x \in Blocks(h3) PROVE InOrderAt(h3, x)
  <2>1. CASE x = a
    BY <2>1, <1>2, <1>3, <1>4, <1>5, <1>6, <1>13, <1>14 DEF InOrderAt
  <2>2. CASE x # a
    <3>1. h.blk[x].next # n
      BY <2>2, <1>2, <1>3, <1>4, <1>13 DEF InOrderAt
    <3>2. h.blk[x].prev = n => x = after
      BY <1>13, NeighboursUnique DEF LayoutOK
    <3>3. InOrderAt(h, x) /\ x # n
      BY <1>3, <1>13
    <3>4. CASE x = after
      <4> HIDE DEF after
      <4>1. /\ x \in Blocks(h) /\ x # NULL /\ a # NULL /\ a \in Blocks(h3)
            /\ h3.blk[x].next = h.blk[x].next /\ h3.blk[x].prev = a
        BY <2>2, <3>3, <3>4, <1>2, <1>4, <1>13, <1>14
      <4>2. IF h.blk[x].next = NULL THEN x = h3.heap_end
            ELSE /\ h.blk[x].next \in Blocks(h3) /\ x < h.blk[x].next
                 /\ \A y \in Blocks(h3) : y <= x \/ h.blk[x].next <= y
        BY <3>1, <3>3, <1>13 DEF InOrderAt
      <4>3. a < x
        BY <3>4, <4>1, <1>2, <1>4, <1>5
      <4>4. \A y \in Blocks(h) : y <= a \/ n <= y
        BY <1>2, <1>3 DEF InOrderAt
      <4>5. \A y \in Blocks(h3) : y <= a \/ x <= y
        BY <3>4, <4>1, <4>4, <1>2, <1>5, <1>13
      <4> QED BY <4>1, <4>2, <4>3, <4>5 DEF InOrderAt
    <3>5. CASE x # after
      BY <2>2, <3>1, <3>2, <3>3, <3>5, <1>2, <1>6, <1>13, <1>14
      DEF InOrderAt
    <3> QED BY <3>4, <3>5
  <2> QED BY <2>1, <2>2
<1>20. ListInOrder(h3)
  <2>1. /\ {h3.heap_start, h3.heap_end} \subseteq Blocks(h3)
        /\ \A x \in Blocks(h3) : h3.heap_start <= x /\ x <= h3.heap_end
    BY <1>2, <1>3, <1>4, <1>5, <1>6, <1>13 DEF InOrderAt
  <2> QED BY <1>19, <2>1 DEF ListInOrder, InOrderAt
<1>21. BlocksAligned(h3)
  <2>1. /\ h.blk[a].size % ALIGNMENT = 0 /\ h.blk[n].size % ALIGNMENT = 0
        /\ HEAP_HEADER_SIZE \in Nat /\ HEAP_HEADER_SIZE % ALIGNMENT = 0
    BY KheapConstants, ConstantsAligned DEF LayoutOK, BlocksAligned
  <2>2. size % ALIGNMENT = 0
    <3>1. (h.blk[a].size + h.blk[n].size) % ALIGNMENT = 0
      BY <2>1, <1>2, AlignedSum, Zenon
    <3>2. h.blk[a].size + h.blk[n].size \in Nat
      BY <1>2
    <3> QED BY <2>1, <3>1, <3>2, AlignedSum, Zenon
  <2> HIDE DEF size
  <2> QED BY <2>2, <1>13, <1>14 DEF LayoutOK, BlocksAligned
<1>22. ASSUME NEW x \in Blocks(h3), Detached(h, x) PROVE Detached(h3, x)
  BY <1>13, <1>14, <1>22 DEF Detached
<1>23. a \in Blocks(h3)
  BY <1>2, <1>4, <1>13
<1>24. h3.blk[a].size = size
  BY <1>2, <1>4, <1>14
<1> QED BY <1>1, <1>13, <1>14, <1>15, <1>17, <1>18, <1>20, <1>21, <1>22, <1>23,
           <1>24 DEF LayoutOK

-----------------------------------------------------------------------------
(* New blocks.                                                             *)

(* Block b is new; the rest is as it was.                                  *)
Added(g, h, b, header) ==
  /\ HeapTypeOK(g)
  /\ Blocks(g) = Blocks(h) \cup {b}
  /\ g.heap_start = h.heap_start /\ g.heap_end = h.heap_end
  /\ g.free_list_head = h.free_list_head
  /\ g.blk[b] = header
  /\ \A x \in Blocks(h) : g.blk[x] = h.blk[x]

LEMMA AddBlock ==
  ASSUME NEW h, HeapTypeOK(h), NEW b \in Nat \ {NULL}, b \notin Blocks(h),
         NEW header \in Header
  PROVE  Added([h EXCEPT !.blk = WithBlock(@, b, header)], h, b, header)
<1> DEFINE B == WithBlock(h.blk, b, header)
           g == [h EXCEPT !.blk = B]
<1>1. /\ DOMAIN B = Blocks(h) \cup {b}
      /\ B \in [Blocks(h) \cup {b} -> Header]
      /\ B[b] = header
      /\ \A x \in Blocks(h) : B[x] = h.blk[x]
  BY DEF WithBlock, Blocks, HeapTypeOK
<1> HIDE DEF B
<1>2. g = [blk |-> B, heap_start |-> h.heap_start, heap_end |-> h.heap_end,
           free_list_head |-> h.free_list_head]
  BY DEF HeapTypeOK
<1> HIDE DEF g
<1>3. Added(g, h, b, header)
  BY <1>1, <1>2 DEF Added, HeapTypeOK, Blocks
<1> QED BY <1>3 DEF g, B

(* Only the ends of the list of all blocks may differ.                     *)
Ended(g, h, start, end) ==
  /\ HeapTypeOK(g)
  /\ g.blk = h.blk /\ g.free_list_head = h.free_list_head
  /\ g.heap_start = start /\ g.heap_end = end

LEMMA SetEnd ==
  ASSUME NEW h, HeapTypeOK(h), NEW e \in Nat
  PROVE  Ended([h EXCEPT !.heap_end = e], h, h.heap_start, e)
BY DEF Ended, HeapTypeOK, Blocks

LEMMA SetStart ==
  ASSUME NEW h, HeapTypeOK(h), NEW e \in Nat
  PROVE  Ended([h EXCEPT !.heap_start = e], h, e, h.heap_end)
BY DEF Ended, HeapTypeOK, Blocks

(* A page that lies behind all blocks becomes the last of them, and is not *)
(* yet on the free list.                                                   *)
LEMMA LinkPageKeeps ==
  ASSUME NEW h, HeapTypeOK(h), FreeLinksOK(h), LayoutOK(h),
         NEW b \in Nat \ {NULL}, b % ALIGNMENT = 0,
         \A x \in Blocks(h) : EndOf(h, x) <= b,
         NEW g, g = LinkPage(h, b)
  PROVE  /\ HeapTypeOK(g) /\ FreeLinksOK(g) /\ LayoutOK(g)
         /\ Blocks(g) = Blocks(h) \cup {b} /\ b \notin Blocks(h)
         /\ g.blk[b].is_free /\ Detached(g, b)
         /\ EndOf(g, b) = b + PAGE_SIZE
         /\ \A x \in Blocks(h) :
              /\ g.blk[x].is_free <=> h.blk[x].is_free
              /\ Detached(h, x) => Detached(g, x)
              /\ g.blk[x].size = h.blk[x].size
<1> DEFINE last == h.heap_end
           k1 == [h EXCEPT !.blk = WithBlock(@, b, PageHeader(last))]
           k2 == [k1 EXCEPT !.heap_end = b]
           h1 == [h EXCEPT !.blk = WithBlock(@, b, PageHeader(last)),
                           !.heap_end = b]
           h2 == IF last = NULL THEN [h1 EXCEPT !.heap_start = b]
                                ELSE [h1 EXCEPT !.blk[last].next = b]
<1>1. g = h2
  BY DEF LinkPage
<1>2. /\ PAGE_SIZE - HEAP_HEADER_SIZE \in Nat /\ PAGE_SIZE \in Nat
      /\ HEAP_HEADER_SIZE \in Nat /\ HEAP_HEADER_SIZE > 0
  BY KheapConstants, PmmConstants
<1>3. /\ last \in Nat /\ NULL \notin Blocks(h) /\ Blocks(h) \subseteq Nat
      /\ NULL \in Nat
      /\ \A x \in Blocks(h) : h.blk[x] \in Header /\ h.blk[x].size \in Nat
      /\ h.heap_start \in Nat
  BY DEF HeapTypeOK, Header, NULL
<1>4. ASSUME NEW x \in Blocks(h) PROVE x < b
  BY <1>2, <1>3 DEF EndOf
<1>5. b \notin Blocks(h)
  BY <1>3, <1>4
<1>6. IF Blocks(h) = {} THEN last = NULL /\ h.heap_start = NULL
      ELSE /\ {h.heap_start, last} \subseteq Blocks(h)
           /\ \A x \in Blocks(h) : h.heap_start <= x /\ x <= last
  BY DEF LayoutOK, ListInOrder
<1>7. last = NULL <=> Blocks(h) = {}
  BY <1>3, <1>6
<1>8. PageHeader(last) \in Header
  BY <1>2, <1>3 DEF PageHeader, Header
<1>9. Added(k1, h, b, PageHeader(last))
  BY <1>5, <1>8, AddBlock
<1>10. HeapTypeOK(k1) /\ k1.heap_start = h.heap_start
  BY <1>9 DEF Added
<1> HIDE DEF k1
<1>11. Ended(k2, k1, h.heap_start, b)
  BY <1>10, SetEnd
<1>12. h1 = k2
  BY DEF k1
<1> HIDE DEF k2, h1
<1>13. HeapTypeOK(h1) /\ Blocks(h1) = Blocks(h) \cup {b}
  BY <1>9, <1>11, <1>12 DEF Added, Ended, Blocks
<1>14. last = NULL => Ended(h2, h1, b, b)
  BY <1>11, <1>12, <1>13, SetStart DEF Ended
<1>15. last # NULL => Placed(h2, h1, last, h1.blk[last].size, b, h1.blk[last].prev)
  BY <1>6, <1>7, <1>13, SetNext
<1> HIDE DEF h2
<1>16. /\ HeapTypeOK(h2) /\ Blocks(h2) = Blocks(h) \cup {b}
       /\ h2.heap_start = IF last = NULL THEN b ELSE h.heap_start
       /\ h2.heap_end = b
       /\ h2.free_list_head = h.free_list_head
  BY <1>9, <1>11, <1>12, <1>13, <1>14, <1>15 DEF Added, Ended, Placed, Blocks
<1>17. ASSUME NEW x \in Blocks(h)
       PROVE  /\ h2.blk[x].is_free <=> h.blk[x].is_free
              /\ h2.blk[x].next_free = h.blk[x].next_free
              /\ h2.blk[x].prev_free = h.blk[x].prev_free
              /\ h2.blk[x].size = h.blk[x].size
              /\ h2.blk[x].next = IF x = last THEN b ELSE h.blk[x].next
              /\ h2.blk[x].prev = h.blk[x].prev
  <2>1. h1.blk[x] = h.blk[x]
    BY <1>9, <1>11, <1>12 DEF Added, Ended
  <2>2. last # NULL
    BY <1>7
  <2> QED BY <2>1, <2>2, <1>6, <1>13, <1>15 DEF Placed
<1>18. /\ h2.blk[b].is_free /\ h2.blk[b].next_free = NULL
       /\ h2.blk[b].prev_free = NULL /\ h2.blk[b].next = NULL
       /\ h2.blk[b].prev = last
       /\ h2.blk[b].size = PAGE_SIZE - HEAP_HEADER_SIZE
  <2>1. h1.blk[b] = PageHeader(last)
    BY <1>9, <1>11, <1>12 DEF Added, Ended
  <2>2. CASE last = NULL
    BY <2>1, <2>2, <1>14 DEF Ended, PageHeader
  <2>3. CASE last # NULL
    <3>1. last # b
      BY <2>3, <1>5, <1>6, <1>7
    <3> QED BY <2>1, <2>3, <3>1, <1>13, <1>15 DEF Placed, PageHeader
  <2> QED BY <2>2, <2>3
<1>19. FreeLinksOK(h2)
  BY SMTT(30), <1>3, <1>5, <1>16, <1>17, <1>18 DEF FreeLinksOK
<1>20. Detached(h2, b)
  BY <1>3, <1>5, <1>16, <1>18 DEF FreeLinksOK, Detached
<1>21. ASSUME NEW x \in Blocks(h), Detached(h, x) PROVE Detached(h2, x)
  BY <1>16, <1>17, <1>21 DEF Detached
<1>22. EndOf(h2, b) = b + PAGE_SIZE
  BY <1>2, <1>18 DEF EndOf
<1>23. BlocksDisjoint(h2)
  BY <1>3, <1>4, <1>16, <1>17 DEF BlocksDisjoint, LayoutOK, EndOf
<1>24. ASSUME NEW x \in Blocks(h2) PROVE InOrderAt(h2, x)
  <2>1. CASE x = b
    BY <2>1, <1>3, <1>4, <1>6, <1>7, <1>16, <1>18 DEF InOrderAt
  <2>2. CASE x \in Blocks(h)
    <3>1. InOrderAt(h, x)
      BY <2>2 DEF LayoutOK, ListInOrder, InOrderAt
    <3>2. x # b /\ x < b /\ last # NULL /\ last < b
      BY <2>2, <1>4, <1>5, <1>6, <1>7
    <3>3. CASE x = last
      BY <2>2, <3>1, <3>2, <3>3, <1>3, <1>4, <1>6, <1>7, <1>16, <1>17
      DEF InOrderAt
    <3>4. CASE x # last
      BY <2>2, <3>1, <3>2, <3>4, <1>3, <1>4, <1>6, <1>7, <1>16, <1>17
      DEF InOrderAt
    <3> QED BY <3>3, <3>4
  <2> QED BY <2>1, <2>2, <1>16
<1>25. ListInOrder(h2)
  <2>1. /\ {h2.heap_start, h2.heap_end} \subseteq Blocks(h2)
        /\ \A x \in Blocks(h2) : h2.heap_start <= x /\ x <= h2.heap_end
    BY <1>3, <1>4, <1>6, <1>7, <1>16
  <2> QED BY <1>24, <2>1 DEF ListInOrder, InOrderAt
<1>26. BlocksAligned(h2)
  <2>1. (PAGE_SIZE - HEAP_HEADER_SIZE) % ALIGNMENT = 0
    BY <1>2, ConstantsAligned, AlignedSum
  <2> QED BY <2>1, <1>16, <1>17, <1>18 DEF LayoutOK, BlocksAligned
<1> QED BY <1>1, <1>5, <1>16, <1>17, <1>18, <1>19, <1>20, <1>21, <1>22, <1>23,
           <1>25, <1>26 DEF LayoutOK

(* Splitting a block that is large enough leaves the first part with the   *)
(* size asked for and a new free block for the rest, header included.      *)
LEMMA SplitKeeps ==
  ASSUME NEW h, HeapTypeOK(h), FreeLinksOK(h), LayoutOK(h),
         NEW b \in Blocks(h), NEW size \in Nat, size % ALIGNMENT = 0,
         h.blk[b].size >= size + HEAP_MIN_BLOCK_SIZE,
         NEW g, g = SplitOff(h, b, size),
         NEW rest, rest = b + HEAP_HEADER_SIZE + size
  PROVE  /\ HeapTypeOK(g) /\ FreeLinksOK(g) /\ LayoutOK(g)
         /\ Blocks(g) = Blocks(h) \cup {rest} /\ rest \notin Blocks(h)
         /\ g.blk[rest].is_free
         /\ EndOf(g, rest) = EndOf(h, b) /\ EndOf(g, b) = rest
         /\ g.blk[b].size = size
         /\ \A x \in Blocks(h) :
              /\ g.blk[x].is_free <=> h.blk[x].is_free
              /\ x # b => g.blk[x].size = h.blk[x].size
<1> DEFINE after  == h.blk[b].next
           left   == h.blk[b].size - size - HEAP_HEADER_SIZE
           header == [size |-> left, is_free |-> TRUE, next |-> after,
                      prev |-> b, next_free |-> NULL, prev_free |-> NULL]
           h1 == [h EXCEPT !.blk = WithBlock(@, rest, header)]
           h2 == IF after = NULL THEN [h1 EXCEPT !.heap_end = rest]
                                 ELSE [h1 EXCEPT !.blk[after].prev = rest]
           h3 == [h2 EXCEPT !.blk[b].size = size, !.blk[b].next = rest]
<1>1. g = AddToFreeList(h3, rest)
  BY SMTT(30) DEF SplitOff
<1>2. /\ HEAP_HEADER_SIZE \in Nat /\ HEAP_HEADER_SIZE > 0
      /\ HEAP_MIN_BLOCK_SIZE = HEAP_HEADER_SIZE + HEAP_HEADER_SIZE
  BY KheapConstants DEF HEAP_MIN_BLOCK_SIZE
<1>3. /\ NULL \notin Blocks(h) /\ Blocks(h) \subseteq Nat /\ NULL \in Nat
      /\ b \in Nat /\ b # NULL /\ after \in Nat /\ h.blk[b].size \in Nat
      /\ \A x \in Blocks(h) : h.blk[x] \in Header
      /\ h.heap_start \in Nat /\ h.heap_end \in Nat
  BY DEF HeapTypeOK, Header, NULL
<1>4. left \in Nat /\ left >= HEAP_HEADER_SIZE
  BY <1>2, <1>3
<1>5. /\ rest \in Nat /\ b < rest /\ rest < EndOf(h, b)
      /\ rest + HEAP_HEADER_SIZE + left = EndOf(h, b)
      /\ EndOf(h, b) \in Nat
  BY <1>2, <1>3, <1>4 DEF EndOf
<1>6. /\ \A x \in Blocks(h) : b < x => EndOf(h, b) <= x
      /\ \A x \in Blocks(h) : x < b => EndOf(h, x) <= b
  BY DEF LayoutOK, BlocksDisjoint
<1>7. rest \notin Blocks(h) /\ rest # NULL
  BY <1>3, <1>5, <1>6 DEF NULL
<1>8. /\ InOrderAt(h, b)
      /\ \A x \in Blocks(h) : InOrderAt(h, x)
      /\ \A x \in Blocks(h) : h.heap_start <= x /\ x <= h.heap_end
      /\ {h.heap_start, h.heap_end} \subseteq Blocks(h)
  BY DEF LayoutOK, ListInOrder, InOrderAt
<1>9. /\ after # NULL => /\ after \in Blocks(h) /\ b < after /\ rest < after
                         /\ \A x \in Blocks(h) : x <= b \/ after <= x
      /\ after = NULL => h.heap_end = b
  BY <1>3, <1>5, <1>6, <1>8 DEF InOrderAt
<1>10. header \in Header
  BY <1>3, <1>4 DEF Header
<1>11. /\ header.size = left /\ header.is_free /\ header.next = after
       /\ header.prev = b /\ header.next_free = NULL /\ header.prev_free = NULL
  OBVIOUS
<1> HIDE DEF header, left
<1>12. Added(h1, h, rest, header)
  BY <1>5, <1>7, <1>10, AddBlock
<1> HIDE DEF h1
<1>13. HeapTypeOK(h1) /\ Blocks(h1) = Blocks(h) \cup {rest}
  BY <1>12 DEF Added
<1>14. after = NULL => Ended(h2, h1, h.heap_start, rest)
  BY <1>5, <1>12, <1>13, SetEnd DEF Added
<1>15. after # NULL =>
         Placed(h2, h1, after, h1.blk[after].size, h1.blk[after].next, rest)
  BY <1>5, <1>9, <1>13, SetPrev
<1> HIDE DEF h2
<1>16. /\ HeapTypeOK(h2) /\ Blocks(h2) = Blocks(h) \cup {rest}
       /\ h2.heap_start = h.heap_start
       /\ h2.heap_end = IF after = NULL THEN rest ELSE h.heap_end
       /\ h2.free_list_head = h.free_list_head
  BY <1>12, <1>13, <1>14, <1>15 DEF Added, Ended, Placed, Blocks
<1>17. Placed(h3, h2, b, size, rest, h2.blk[b].prev)
  BY <1>5, <1>16, SetSizeNext
<1> HIDE DEF h3
<1>18. /\ HeapTypeOK(h3) /\ Blocks(h3) = Blocks(h) \cup {rest}
       /\ h3.heap_start = h.heap_start
       /\ h3.heap_end = IF after = NULL THEN rest ELSE h.heap_end
       /\ h3.free_list_head = h.free_list_head
  BY <1>16, <1>17 DEF Placed
<1>19. ASSUME NEW x \in Blocks(h)
       PROVE  /\ h3.blk[x].is_free <=> h.blk[x].is_free
              /\ h3.blk[x].next_free = h.blk[x].next_free
              /\ h3.blk[x].prev_free = h.blk[x].prev_free
              /\ h3.blk[x].size = IF x = b THEN size ELSE h.blk[x].size
              /\ h3.blk[x].next = IF x = b THEN rest ELSE h.blk[x].next
              /\ h3.blk[x].prev = IF x = after THEN rest ELSE h.blk[x].prev
  <2> HIDE DEF after
  <2>1. h1.blk[x] = h.blk[x] /\ x # NULL
    BY <1>3, <1>12 DEF Added
  <2>2. /\ h2.blk[x].is_free <=> h.blk[x].is_free
        /\ h2.blk[x].next_free = h.blk[x].next_free
        /\ h2.blk[x].prev_free = h.blk[x].prev_free
        /\ h2.blk[x].size = h.blk[x].size
        /\ h2.blk[x].next = h.blk[x].next
        /\ h2.blk[x].prev = IF x = after THEN rest ELSE h.blk[x].prev
    BY <2>1, <1>9, <1>13, <1>14, <1>15 DEF Ended, Placed
  <2> QED BY <2>2, <1>16, <1>17 DEF Placed
<1>20. /\ h3.blk[rest].is_free /\ h3.blk[rest].next_free = NULL
       /\ h3.blk[rest].prev_free = NULL /\ h3.blk[rest].next = after
       /\ h3.blk[rest].prev = b /\ h3.blk[rest].size = left
  <2> HIDE DEF after
  <2>1. h1.blk[rest] = header
    BY <1>12 DEF Added
  <2>2. after # rest /\ b # rest
    BY <1>7, <1>9
  <2>3. /\ h2.blk[rest].is_free /\ h2.blk[rest].next_free = NULL
        /\ h2.blk[rest].prev_free = NULL /\ h2.blk[rest].next = after
        /\ h2.blk[rest].prev = b /\ h2.blk[rest].size = left
    BY <2>1, <2>2, <1>11, <1>13, <1>14, <1>15 DEF Ended, Placed
  <2> QED BY <2>2, <2>3, <1>16, <1>17 DEF Placed
<1>21. FreeLinksOK(h3)
  BY SMTT(30), <1>3, <1>7, <1>18, <1>19, <1>20 DEF FreeLinksOK
<1>22. Detached(h3, rest)
  BY <1>7, <1>18, <1>20 DEF FreeLinksOK, Detached
<1>23. EndOf(h3, rest) = EndOf(h, b) /\ EndOf(h3, b) = rest
  BY <1>5, <1>19, <1>20 DEF EndOf
<1>24. BlocksDisjoint(h3)
  <2> SUFFICES ASSUME NEW x \in Blocks(h3), NEW y \in Blocks(h3), x < y
               PROVE  EndOf(h3, x) <= y
    BY DEF BlocksDisjoint
  <2>1. CASE x = rest
    BY <2>1, <1>3, <1>5, <1>6, <1>18, <1>23
  <2>2. CASE x = b
    BY <2>2, <1>3, <1>5, <1>6, <1>18, <1>23
  <2>3. CASE x \in Blocks(h) \ {b}
    <3>1. EndOf(h3, x) = EndOf(h, x)
      BY <2>3, <1>19 DEF EndOf
    <3>2. CASE y \in Blocks(h)
      BY <2>3, <3>1, <3>2 DEF LayoutOK, BlocksDisjoint
    <3>3. CASE y = rest
      <4>1. x < b
        BY <2>3, <3>3, <1>3, <1>5, <1>6
      <4>2. EndOf(h, x) <= b /\ EndOf(h, x) \in Nat
        BY <2>3, <4>1, <1>2, <1>3, <1>6 DEF EndOf, Header
      <4> QED BY <3>1, <3>3, <4>2, <1>3, <1>5
    <3> QED BY <3>2, <3>3, <1>18
  <2> QED BY <2>1, <2>2, <2>3, <1>18
<1>25. ASSUME NEW x \in Blocks(h3) PROVE InOrderAt(h3, x)
  <2>1. CASE x = rest
    BY <2>1, <1>3, <1>5, <1>7, <1>8, <1>9, <1>18, <1>20 DEF InOrderAt
  <2>2. CASE x = b
    <3>1. InOrderAt(h, b) /\ b # after
      BY <1>3, <1>8, <1>9
    <3>2. h3.blk[b].next = rest /\ h3.blk[b].prev = h.blk[b].prev
      BY <3>1, <1>19
    <3>3. \A y \in Blocks(h3) : y <= b \/ rest <= y
      BY <1>3, <1>5, <1>6, <1>18
    <3>4. \A y \in Blocks(h3) : b <= y \/ y \in Blocks(h)
      BY <1>3, <1>5, <1>18
    <3> QED BY <2>2, <3>1, <3>2, <3>3, <3>4, <1>3, <1>5, <1>7, <1>18
            DEF InOrderAt
  <2>3. CASE x \in Blocks(h) \ {b}
    <3>1. InOrderAt(h, x) /\ x # NULL
      BY <2>3, <1>3, <1>8
    <3>2. h.blk[x].prev = b => x = after
      BY <2>3, NeighboursUnique DEF LayoutOK
    <3>3. x < b \/ rest < x
      BY <2>3, <1>3, <1>5, <1>6
    <3>4. h.blk[x].next # NULL => h.blk[x].next <= b \/ rest < h.blk[x].next
      BY <2>3, <3>1, <1>3, <1>5, <1>6 DEF InOrderAt
    <3>5. h.blk[x].prev # NULL /\ x # after => h.blk[x].prev < b \/ rest < h.blk[x].prev
      BY <2>3, <3>1, <3>2, <1>3, <1>5, <1>6 DEF InOrderAt
    <3>6. CASE x = after
      <4> HIDE DEF after
      <4>1. /\ x # NULL /\ rest # NULL /\ rest \in Blocks(h3)
            /\ h3.blk[x].next = h.blk[x].next /\ h3.blk[x].prev = rest
        BY <2>3, <3>1, <3>6, <1>3, <1>5, <1>7, <1>18, <1>19
      <4>2. rest < x
        BY <2>3, <3>6, <4>1, <1>3, <1>5, <1>9, <3>3
      <4>3. IF h.blk[x].next = NULL THEN x = h3.heap_end
            ELSE /\ h.blk[x].next \in Blocks(h3) /\ x < h.blk[x].next
                 /\ \A y \in Blocks(h3) : y <= x \/ h.blk[x].next <= y
        BY <2>3, <3>1, <3>6, <4>1, <4>2, <1>3, <1>5, <1>18 DEF InOrderAt
      <4>4. \A y \in Blocks(h3) : y <= rest \/ x <= y
        BY <2>3, <3>6, <4>1, <4>2, <1>3, <1>5, <1>9, <1>18
      <4> QED BY <4>1, <4>2, <4>3, <4>4 DEF InOrderAt
    <3>7. CASE x # after
      BY <2>3, <3>1, <3>3, <3>4, <3>5, <3>7, <1>3, <1>5, <1>8, <1>9, <1>18, <1>19
      DEF InOrderAt
    <3> QED BY <3>6, <3>7
  <2> QED BY <2>1, <2>2, <2>3, <1>18
<1>26. ListInOrder(h3)
  <2>1. /\ {h3.heap_start, h3.heap_end} \subseteq Blocks(h3)
        /\ \A x \in Blocks(h3) : h3.heap_start <= x /\ x <= h3.heap_end
    BY <1>3, <1>5, <1>8, <1>9, <1>18
  <2> QED BY <1>25, <2>1 DEF ListInOrder, InOrderAt
<1>27. BlocksAligned(h3)
  <2>1. /\ b % ALIGNMENT = 0 /\ h.blk[b].size % ALIGNMENT = 0
        /\ HEAP_HEADER_SIZE % ALIGNMENT = 0
    BY ConstantsAligned DEF LayoutOK, BlocksAligned
  <2>2. rest % ALIGNMENT = 0
    <3>1. (b + HEAP_HEADER_SIZE) % ALIGNMENT = 0
      BY <2>1, <1>2, <1>3, AlignedSum
    <3>2. b + HEAP_HEADER_SIZE \in Nat
      BY <1>2, <1>3
    <3> QED BY <3>1, <3>2, AlignedSum
  <2>3. left % ALIGNMENT = 0
    <3>1. h.blk[b].size - size \in Nat /\ HEAP_HEADER_SIZE <= h.blk[b].size - size
          /\ size <= h.blk[b].size
      BY <1>2, <1>3
    <3>2. (h.blk[b].size - size) % ALIGNMENT = 0
      BY <2>1, <3>1, <1>3, AlignedSum
    <3> QED BY <2>1, <3>1, <3>2, <1>2, AlignedSum DEF left
  <2> QED BY <2>2, <2>3, <1>18, <1>19, <1>20 DEF LayoutOK, BlocksAligned
<1>28. LayoutOK(h3) /\ rest \in Blocks(h3) /\ b \in Blocks(h3)
  BY <1>18, <1>24, <1>26, <1>27 DEF LayoutOK
<1>29. /\ HeapTypeOK(g) /\ FreeLinksOK(g) /\ SameLayout(g, h3)
       /\ \A x \in Blocks(h3) :
            g.blk[x].is_free <=> IF x = rest THEN TRUE ELSE h3.blk[x].is_free
  BY <1>1, <1>18, <1>21, <1>22, <1>28, AddLinks
<1>30. /\ LayoutOK(g)
       /\ \A x \in Blocks(h3) : EndOf(g, x) = EndOf(h3, x)
  BY <1>28, <1>29, LayoutKept
<1>31. Blocks(g) = Blocks(h3) /\ \A x \in Blocks(h3) : g.blk[x].size = h3.blk[x].size
  BY <1>29 DEF SameLayout
<1> QED BY ZenonT(30), <1>7, <1>18, <1>19, <1>23, <1>28, <1>29, <1>30, <1>31

-----------------------------------------------------------------------------
(* The functions of kheap.c.                                               *)

HeapOK(h) == HeapTypeOK(h) /\ FreeLinksOK(h) /\ LayoutOK(h)

(* The blocks in use.                                                      *)
Held(h) == {x \in Blocks(h) : ~h.blk[x].is_free}

(* The blocks in H are in use, and of the same size, in both heaps.        *)
Keeps(g, h, H) ==
  \A x \in H : /\ x \in Held(g) /\ x \in Held(h)
               /\ g.blk[x].size = h.blk[x].size

(* The blocks leave no gap up to the address e.                            *)
Tiled(h, e) ==
  \A b \in Blocks(h) : b < e /\ EndOf(h, b) \in Blocks(h) \cup {e}

(* The byte at address y is in a block.                                    *)
Covers(h, y) == \E b \in Blocks(h) : b <= y /\ y < EndOf(h, b)

(* No block of g begins before or ends behind all blocks of h; and unless  *)
(* there is a gap in h there is none in g, and g covers all that h does.   *)
Within(g, h) ==
  /\ \A x \in Blocks(g) : \E y \in Blocks(h) : y <= x
  /\ \A x \in Blocks(g) : \E y \in Blocks(h) : EndOf(g, x) <= EndOf(h, y)
  /\ \A e \in Nat : Tiled(h, e) => Tiled(g, e)
  /\ \A e, y \in Nat : Tiled(h, e) /\ Covers(h, y) => Covers(g, y)

LEMMA EndTypes ==
  ASSUME NEW h, HeapTypeOK(h), NEW x \in Blocks(h)
  PROVE  x \in Nat /\ h.blk[x].size \in Nat /\ EndOf(h, x) \in Nat
BY KheapConstants DEF HeapTypeOK, Header, EndOf

LEMMA WithinTrans ==
  ASSUME NEW f, NEW g, NEW h, HeapTypeOK(f), HeapTypeOK(g), HeapTypeOK(h),
         Within(f, g), Within(g, h)
  PROVE  Within(f, h)
<1>1. ASSUME NEW x \in Blocks(f)
      PROVE  \E y \in Blocks(h) : EndOf(f, x) <= EndOf(h, y)
  <2>1. PICK y \in Blocks(g) : EndOf(f, x) <= EndOf(g, y)
    BY DEF Within
  <2>2. PICK z \in Blocks(h) : EndOf(g, y) <= EndOf(h, z)
    BY DEF Within
  <2>3. EndOf(f, x) <= EndOf(h, z)
    BY <2>1, <2>2, EndTypes
  <2> QED BY <2>3
<1>2. ASSUME NEW x \in Blocks(f)
      PROVE  \E y \in Blocks(h) : y <= x
  <2>1. PICK y \in Blocks(g) : y <= x
    BY DEF Within
  <2>2. PICK z \in Blocks(h) : z <= y
    BY DEF Within
  <2>3. z <= x
    BY <2>1, <2>2, EndTypes
  <2> QED BY <2>3
<1> QED BY <1>1, <1>2 DEF Within

LEMMA WithinSame ==
  ASSUME NEW g, NEW h, HeapTypeOK(h), Blocks(g) = Blocks(h),
         \A x \in Blocks(h) : EndOf(g, x) = EndOf(h, x)
  PROVE  Within(g, h)
<1>1. ASSUME NEW x \in Blocks(g) PROVE EndOf(g, x) <= EndOf(h, x) /\ x <= x
  BY <1>1, EndTypes
<1>2. \A e \in Nat : Tiled(h, e) => Tiled(g, e)
  BY DEF Tiled
<1>3. \A y \in Nat : Covers(h, y) => Covers(g, y)
  BY DEF Covers
<1> QED BY <1>1, <1>2, <1>3 DEF Within

(* Merging two blocks leaves no gap where there was none.                  *)
LEMMA AbsorbTiled ==
  ASSUME NEW h, NEW g, HeapTypeOK(h), LayoutOK(h),
         NEW a \in Blocks(h), NEW n \in Blocks(h), h.blk[a].next = n,
         Blocks(g) = Blocks(h) \ {n},
         g.blk[a].size = h.blk[a].size + h.blk[n].size + HEAP_HEADER_SIZE,
         \A x \in Blocks(g) : x # a => g.blk[x].size = h.blk[x].size,
         NEW e \in Nat, Tiled(h, e)
  PROVE  Tiled(g, e) /\ \A y \in Nat : Covers(h, y) => Covers(g, y)
<1>1. /\ \A x \in Blocks(h) : /\ x \in Nat /\ h.blk[x].size \in Nat
                              /\ EndOf(h, x) \in Nat /\ x < EndOf(h, x)
      /\ HEAP_HEADER_SIZE \in Nat
  BY EndTypes, KheapConstants DEF EndOf
<1>2. InOrderAt(h, a) /\ n # NULL
  BY DEF LayoutOK, ListInOrder, InOrderAt, HeapTypeOK
<1>3. a < n /\ \A x \in Blocks(h) : x <= a \/ n <= x
  BY <1>2 DEF InOrderAt
<1>4. \A x, y \in Blocks(h) : x < y => EndOf(h, x) <= y
  BY DEF LayoutOK, BlocksDisjoint
<1>5. EndOf(h, a) = n
  <2>1. EndOf(h, a) \in Blocks(h) \cup {e} /\ n < e
    BY DEF Tiled
  <2> QED BY <2>1, <1>1, <1>3, <1>4
<1>6. EndOf(g, a) = EndOf(h, n)
  BY <1>1, <1>5 DEF EndOf
<1>7. ASSUME NEW x \in Blocks(g)
      PROVE  x < e /\ EndOf(g, x) \in Blocks(g) \cup {e}
  <2>1. x \in Blocks(h) /\ x # n /\ x < e
    BY DEF Tiled
  <2>2. CASE x = a
    <3>1. EndOf(h, n) \in Blocks(h) \cup {e} /\ EndOf(h, n) # n
      BY <1>1 DEF Tiled
    <3> QED BY <2>1, <2>2, <3>1, <1>6
  <2>3. CASE x # a
    <3>1. EndOf(g, x) = EndOf(h, x) /\ EndOf(h, x) \in Blocks(h) \cup {e}
      BY <2>1, <2>3 DEF EndOf, Tiled
    <3>2. EndOf(h, x) # n
      BY <2>1, <2>3, <1>1, <1>3, <1>4, <1>5
    <3> QED BY <2>1, <3>1, <3>2
  <2> QED BY <2>2, <2>3
<1>8. ASSUME NEW y \in Nat, Covers(h, y) PROVE Covers(g, y)
  <2>1. PICK b \in Blocks(h) : b <= y /\ y < EndOf(h, b)
    BY <1>8 DEF Covers
  <2>2. CASE b \in {a, n}
    <3>1. a <= y /\ y < EndOf(g, a) /\ a \in Blocks(g)
      BY <2>1, <2>2, <1>1, <1>3, <1>5, <1>6
    <3> QED BY <3>1 DEF Covers
  <2>3. CASE b \notin {a, n}
    <3>1. b \in Blocks(g) /\ EndOf(g, b) = EndOf(h, b)
      BY <2>1, <2>3 DEF EndOf
    <3> QED BY <2>1, <3>1 DEF Covers
  <2> QED BY <2>2, <2>3
<1> QED BY <1>7, <1>8 DEF Tiled

(* A block in use is on no list.                                           *)
LEMMA HeldDetached ==
  ASSUME NEW h, HeapOK(h), NEW b \in Held(h)
  PROVE  Detached(h, b)
<1>1. b \in Blocks(h) /\ ~h.blk[b].is_free /\ b # NULL
  BY DEF Held, HeapOK, HeapTypeOK
<1> QED BY <1>1 DEF HeapOK, FreeLinksOK, Detached

(* remove_from_free_list.                                                  *)
LEMMA RemoveOK ==
  ASSUME NEW h, HeapOK(h), NEW b \in Blocks(h), h.blk[b].is_free,
         NEW g, g = RemoveFromFreeList(h, b)
  PROVE  /\ HeapOK(g) /\ SameLayout(g, h) /\ Within(g, h)
         /\ Detached(g, b)
         /\ Held(g) = Held(h) \cup {b} /\ Keeps(g, h, Held(h))
         /\ \A x \in Blocks(h) : Detached(h, x) => Detached(g, x)
<1>1. /\ HeapTypeOK(g) /\ FreeLinksOK(g)
      /\ SameLayout(g, h) /\ Detached(g, b)
      /\ \A x \in Blocks(h) :
           g.blk[x].is_free <=> IF x = b THEN FALSE ELSE h.blk[x].is_free
      /\ \A x \in Blocks(h) : Detached(h, x) => Detached(g, x)
  BY RemoveDetaches DEF HeapOK
<1>2. LayoutOK(g) /\ \A x \in Blocks(h) : EndOf(g, x) = EndOf(h, x)
  BY <1>1, LayoutKept DEF HeapOK
<1>3. Blocks(g) = Blocks(h)
      /\ \A x \in Blocks(h) : g.blk[x].size = h.blk[x].size
  BY <1>1 DEF SameLayout
<1>4. Within(g, h)
  BY <1>2, <1>3, WithinSame DEF HeapOK
<1>5. Held(g) = Held(h) \cup {b}
  BY <1>1, <1>3 DEF Held
<1> QED BY <1>1, <1>2, <1>3, <1>4, <1>5 DEF HeapOK, Keeps, Held

(* add_to_free_list.                                                       *)
LEMMA AddOK ==
  ASSUME NEW h, HeapOK(h), NEW b \in Blocks(h), Detached(h, b),
         NEW g, g = AddToFreeList(h, b)
  PROVE  /\ HeapOK(g) /\ SameLayout(g, h) /\ Within(g, h)
         /\ Held(g) = Held(h) \ {b} /\ Keeps(g, h, Held(g))
<1>1. /\ HeapTypeOK(g) /\ FreeLinksOK(g) /\ SameLayout(g, h)
      /\ \A x \in Blocks(h) :
           g.blk[x].is_free <=> IF x = b THEN TRUE ELSE h.blk[x].is_free
  BY AddLinks DEF HeapOK
<1>2. LayoutOK(g) /\ \A x \in Blocks(h) : EndOf(g, x) = EndOf(h, x)
  BY <1>1, LayoutKept DEF HeapOK
<1>3. Blocks(g) = Blocks(h)
      /\ \A x \in Blocks(h) : g.blk[x].size = h.blk[x].size
  BY <1>1 DEF SameLayout
<1>4. Within(g, h)
  BY <1>2, <1>3, WithinSame DEF HeapOK
<1>5. Held(g) = Held(h) \ {b}
  BY <1>1, <1>3 DEF Held
<1> QED BY <1>1, <1>2, <1>3, <1>4, <1>5 DEF HeapOK, Keeps, Held

(* Merging the detached block n into the block a before it, the other of   *)
(* the two possibly still marked as in use.                                *)
LEMMA AbsorbOK ==
  ASSUME NEW h, HeapOK(h), NEW a \in Blocks(h), NEW n \in Blocks(h),
         h.blk[a].next = n, Detached(h, n), Detached(h, a),
         NEW g, g = Absorb(h, a, n)
  PROVE  /\ HeapOK(g) /\ Within(g, h)
         /\ a \in Blocks(g) /\ Detached(g, a)
         /\ g.blk[a].is_free <=> h.blk[a].is_free
         /\ Held(g) \ {a} = Held(h) \ {a, n}
         /\ Keeps(g, h, Held(h) \ {a, n})
<1>1. /\ HeapTypeOK(g) /\ FreeLinksOK(g) /\ LayoutOK(g)
      /\ Blocks(g) = Blocks(h) \ {n} /\ a \in Blocks(g)
      /\ EndOf(g, a) <= EndOf(h, n)
      /\ g.blk[a].size = h.blk[a].size + h.blk[n].size + HEAP_HEADER_SIZE
      /\ \A x \in Blocks(g) :
           /\ g.blk[x].is_free <=> h.blk[x].is_free
           /\ Detached(h, x) => Detached(g, x)
           /\ x # a => g.blk[x].size = h.blk[x].size
  BY AbsorbKeeps DEF HeapOK
<1>2. Within(g, h)
  <2>1. ASSUME NEW x \in Blocks(g), x # a PROVE EndOf(g, x) <= EndOf(h, x)
    <3>1. EndOf(g, x) = EndOf(h, x) /\ EndOf(h, x) \in Nat
      BY <1>1, <2>1, EndTypes DEF HeapOK, EndOf
    <3> QED BY <3>1
  <2>2. \A e \in Nat : Tiled(h, e) =>
          Tiled(g, e) /\ \A y \in Nat : Covers(h, y) => Covers(g, y)
    BY <1>1, AbsorbTiled DEF HeapOK
  <2>3. ASSUME NEW x \in Blocks(g) PROVE x \in Blocks(h) /\ x <= x
    BY <1>1, EndTypes DEF HeapOK
  <2> QED BY <2>1, <2>2, <2>3, <1>1 DEF Within
<1>3. Held(g) \ {a} = Held(h) \ {a, n}
  BY <1>1 DEF Held
<1>4. Keeps(g, h, Held(h) \ {a, n})
  BY <1>1, <1>3 DEF Keeps, Held
<1> QED BY <1>1, <1>2, <1>3, <1>4 DEF HeapOK

(* coalesce, forward.                                                      *)
LEMMA CoalesceForwardOK ==
  ASSUME NEW h, HeapOK(h), NEW b \in Blocks(h), Detached(h, b),
         h.blk[b].is_free,
         NEW g, g = CoalesceForward(h, b)
  PROVE  /\ HeapOK(g) /\ Within(g, h)
         /\ b \in Blocks(g) /\ Detached(g, b) /\ g.blk[b].is_free
         /\ Held(g) = Held(h) /\ Keeps(g, h, Held(h))
<1> DEFINE n == h.blk[b].next
           k == RemoveFromFreeList(h, n)
<1>1. CASE ~IsFreeBlock(h, n)
  <2>1. g = h
    BY <1>1 DEF CoalesceForward
  <2>2. Within(h, h)
    BY WithinSame DEF HeapOK
  <2> QED BY <2>1, <2>2 DEF Keeps
<1>2. CASE IsFreeBlock(h, n)
  <2>1. g = Absorb(k, b, n)
    BY <1>2 DEF CoalesceForward
  <2>2. n \in Blocks(h) /\ n # b /\ h.blk[n].is_free
    <3>1. InOrderAt(h, b) /\ n # NULL /\ h.blk[n].is_free
      BY <1>2 DEF HeapOK, LayoutOK, ListInOrder, InOrderAt, IsFreeBlock
    <3>2. n \in Blocks(h) /\ b < n
      BY <3>1 DEF InOrderAt
    <3>3. b \in Nat /\ n \in Nat
      BY <3>2, EndTypes DEF HeapOK
    <3> QED BY <3>1, <3>2, <3>3
  <2>3. /\ HeapOK(k) /\ SameLayout(k, h) /\ Within(k, h)
        /\ Detached(k, n)
        /\ Held(k) = Held(h) \cup {n} /\ Keeps(k, h, Held(h))
        /\ Detached(k, b)
    <3> HIDE DEF n
    <3> QED BY <2>2, RemoveOK
  <2>4. /\ b \in Blocks(k) /\ n \in Blocks(k) /\ k.blk[b].next = n
        /\ k.blk[b].is_free
    <3>1. b \notin Held(k)
      BY <2>2, <2>3 DEF Held
    <3> QED BY <2>2, <2>3, <3>1 DEF SameLayout, Held
  <2> HIDE DEF k, n
  <2>5. /\ HeapOK(g) /\ Within(g, k)
        /\ b \in Blocks(g) /\ Detached(g, b)
        /\ g.blk[b].is_free
        /\ Held(g) \ {b} = Held(k) \ {b, n}
        /\ Keeps(g, k, Held(k) \ {b, n})
    BY <2>1, <2>3, <2>4, AbsorbOK
  <2>6. b \notin Held(g) /\ b \notin Held(h) /\ n \notin Held(h)
    BY <2>2, <2>5 DEF Held
  <2>7. Held(g) = Held(h) /\ Held(k) \ {b, n} = Held(h)
    BY <2>3, <2>5, <2>6
  <2>8. Within(g, h)
    BY <2>3, <2>5, WithinTrans DEF HeapOK
  <2>9. Keeps(g, h, Held(h))
    BY <2>3, <2>5, <2>7 DEF Keeps
  <2> QED BY <2>5, <2>7, <2>8, <2>9
<1> QED BY <1>1, <1>2

(* coalesce, backward.  The resulting block, if it is the one before, is   *)
(* left marked as in use until it is added to the list.                    *)
LEMMA CoalesceBackwardOK ==
  ASSUME NEW h, HeapOK(h), NEW b \in Blocks(h), Detached(h, b),
         h.blk[b].is_free,
         NEW c, c = CoalesceBackward(h, b)
  PROVE  /\ HeapOK(c.heap) /\ Within(c.heap, h)
         /\ c.block \in Blocks(c.heap) /\ Detached(c.heap, c.block)
         /\ Held(c.heap) \ {c.block} = Held(h) /\ Keeps(c.heap, h, Held(h))
<1> DEFINE p == h.blk[b].prev
           k == RemoveFromFreeList(h, p)
           g == Absorb(k, p, b)
<1>1. CASE ~IsFreeBlock(h, p)
  <2>1. c = [heap |-> h, block |-> b]
    BY <1>1 DEF CoalesceBackward
  <2>2. c.heap = h /\ c.block = b
    BY <2>1
  <2>3. Within(h, h)
    BY WithinSame DEF HeapOK
  <2>4. b \notin Held(h)
    BY DEF Held
  <2> QED BY <2>2, <2>3, <2>4 DEF Keeps
<1>2. CASE IsFreeBlock(h, p)
  <2>1. c = [heap |-> g, block |-> p]
    BY <1>2 DEF CoalesceBackward
  <2>2. p \in Blocks(h) /\ p # b /\ h.blk[p].is_free
    <3>1. InOrderAt(h, b) /\ p # NULL /\ h.blk[p].is_free
      BY <1>2 DEF HeapOK, LayoutOK, ListInOrder, InOrderAt, IsFreeBlock
    <3>2. p \in Blocks(h) /\ p < b
      BY <3>1 DEF InOrderAt
    <3>3. b \in Nat /\ p \in Nat
      BY <3>2, EndTypes DEF HeapOK
    <3> QED BY <3>1, <3>2, <3>3
  <2>3. h.blk[p].next = b
    BY <2>2, NeighboursUnique DEF HeapOK, LayoutOK
  <2>4. /\ HeapOK(k) /\ SameLayout(k, h) /\ Within(k, h)
        /\ Detached(k, p)
        /\ Held(k) = Held(h) \cup {p} /\ Keeps(k, h, Held(h))
        /\ Detached(k, b)
    <3> HIDE DEF p
    <3> QED BY <2>2, RemoveOK
  <2>5. b \in Blocks(k) /\ p \in Blocks(k) /\ k.blk[p].next = b
    BY <2>2, <2>3, <2>4 DEF SameLayout
  <2> HIDE DEF k, p
  <2>6. /\ HeapOK(g) /\ Within(g, k)
        /\ p \in Blocks(g) /\ Detached(g, p)
        /\ Held(g) \ {p} = Held(k) \ {p, b}
        /\ Keeps(g, k, Held(k) \ {p, b})
    BY <2>4, <2>5, AbsorbOK
  <2> HIDE DEF g
  <2>7. b \notin Held(h) /\ p \notin Held(h)
    BY <2>2 DEF Held
  <2>8. Held(g) \ {p} = Held(h) /\ Held(k) \ {p, b} = Held(h)
    BY <2>4, <2>6, <2>7
  <2>9. Within(g, h)
    BY <2>4, <2>6, WithinTrans DEF HeapOK
  <2>10. Keeps(g, h, Held(h))
    BY <2>4, <2>6, <2>8 DEF Keeps
  <2>11. c.heap = g /\ c.block = p
    BY <2>1
  <2> QED BY <2>6, <2>8, <2>9, <2>10, <2>11
<1> QED BY <1>1, <1>2

(* The end of expand_heap.                                                 *)
LEMMA FinishExpansionOK ==
  ASSUME NEW h, HeapOK(h), NEW b \in Blocks(h), Detached(h, b),
         h.blk[b].is_free,
         NEW g, g = FinishExpansion(h, b)
  PROVE  /\ HeapOK(g) /\ Within(g, h)
         /\ Held(g) = Held(h) /\ Keeps(g, h, Held(h))
<1> DEFINE c == CoalesceBackward(h, b)
<1>1. g = AddToFreeList(c.heap, c.block)
  BY DEF FinishExpansion
<1>2. /\ HeapOK(c.heap) /\ Within(c.heap, h)
      /\ c.block \in Blocks(c.heap) /\ Detached(c.heap, c.block)
      /\ Held(c.heap) \ {c.block} = Held(h) /\ Keeps(c.heap, h, Held(h))
  BY CoalesceBackwardOK
<1> HIDE DEF c
<1>3. /\ HeapOK(g) /\ Within(g, c.heap)
      /\ Held(g) = Held(c.heap) \ {c.block} /\ Keeps(g, c.heap, Held(g))
  BY <1>1, <1>2, AddOK
<1>4. Within(g, h)
  BY <1>2, <1>3, WithinTrans DEF HeapOK
<1> QED BY <1>2, <1>3, <1>4 DEF Keeps

(* kfree of a block in use, after the two tests.                           *)
FreedHeap(h, b) ==
  LET c == Coalesce([h EXCEPT !.blk[b].is_free = TRUE], b)
  IN  AddToFreeList(c.heap, c.block)

LEMMA FreedOK ==
  ASSUME NEW h, HeapOK(h), NEW b \in Held(h),
         NEW g, g = FreedHeap(h, b)
  PROVE  /\ HeapOK(g) /\ Within(g, h)
         /\ Held(g) = Held(h) \ {b} /\ Keeps(g, h, Held(g))
<1> DEFINE h0 == [h EXCEPT !.blk[b].is_free = TRUE]
           h1 == CoalesceForward(h0, b)
           c  == CoalesceBackward(h1, b)
<1>1. g = AddToFreeList(c.heap, c.block)
  BY DEF FreedHeap, Coalesce
<1>2. b \in Blocks(h) /\ ~h.blk[b].is_free /\ Detached(h, b)
  BY HeldDetached DEF Held
<1>3. Marked(h0, h, b, TRUE, h.blk[b].next_free, h.blk[b].prev_free)
  BY <1>2, SetIsFree DEF HeapOK
<1> HIDE DEF h0
<1>4. /\ HeapTypeOK(h0) /\ SameLayout(h0, h) /\ Blocks(h0) = Blocks(h)
      /\ h0.free_list_head = h.free_list_head
      /\ \A x \in Blocks(h) :
           /\ h0.blk[x].is_free <=> (x = b \/ h.blk[x].is_free)
           /\ h0.blk[x].next_free = h.blk[x].next_free
           /\ h0.blk[x].prev_free = h.blk[x].prev_free
           /\ h0.blk[x].size = h.blk[x].size
  BY <1>3 DEF Marked, SameLayout
<1>5. FreeLinksOK(h0)
  BY SMTT(30), <1>4 DEF FreeLinksOK, HeapOK
<1>6. LayoutOK(h0) /\ \A x \in Blocks(h) : EndOf(h0, x) = EndOf(h, x)
  BY <1>4, LayoutKept DEF HeapOK
<1>7. HeapOK(h0) /\ Detached(h0, b) /\ h0.blk[b].is_free
  BY <1>2, <1>4, <1>5, <1>6 DEF HeapOK, Detached
<1>8. Within(h0, h)
  BY <1>4, <1>6, WithinSame DEF HeapOK
<1>9. Held(h0) = Held(h) \ {b} /\ Keeps(h0, h, Held(h0))
  BY <1>2, <1>4 DEF Held, Keeps
<1>10. /\ HeapOK(h1) /\ Within(h1, h0)
       /\ b \in Blocks(h1) /\ Detached(h1, b) /\ h1.blk[b].is_free
       /\ Held(h1) = Held(h0) /\ Keeps(h1, h0, Held(h0))
  BY <1>2, <1>4, <1>7, CoalesceForwardOK
<1> HIDE DEF h1
<1>11. /\ HeapOK(c.heap) /\ Within(c.heap, h1)
       /\ c.block \in Blocks(c.heap) /\ Detached(c.heap, c.block)
       /\ Held(c.heap) \ {c.block} = Held(h1) /\ Keeps(c.heap, h1, Held(h1))
  BY <1>10, CoalesceBackwardOK
<1> HIDE DEF c
<1>12. /\ HeapOK(g) /\ Within(g, c.heap)
       /\ Held(g) = Held(c.heap) \ {c.block} /\ Keeps(g, c.heap, Held(g))
  BY <1>1, <1>11, AddOK
<1>13. Within(h1, h)
  BY <1>7, <1>8, <1>10, WithinTrans DEF HeapOK
<1>14. Within(c.heap, h)
  BY <1>10, <1>11, <1>13, WithinTrans DEF HeapOK
<1>15. Within(g, h)
  BY <1>11, <1>12, <1>14, WithinTrans DEF HeapOK
<1>16. Keeps(g, h, Held(g))
  BY <1>9, <1>10, <1>11, <1>12 DEF Keeps
<1> QED BY <1>9, <1>10, <1>11, <1>12, <1>15, <1>16

(* kmalloc after a search that found block b.                              *)
LEMMA TakeOK ==
  ASSUME NEW h, HeapOK(h), NEW b \in Blocks(h), h.blk[b].is_free,
         NEW size \in Nat, size % ALIGNMENT = 0, h.blk[b].size >= size,
         NEW g, g = Take(h, b, size)
  PROVE  /\ HeapOK(g) /\ Within(g, h)
         /\ Held(g) = Held(h) \cup {b} /\ Keeps(g, h, Held(h))
         /\ g.blk[b].size >= size
         /\ size = 0 => g.blk[b].size < HEAP_MIN_BLOCK_SIZE
<1> DEFINE k == RemoveFromFreeList(h, b)
<1>1. /\ HeapOK(k) /\ SameLayout(k, h) /\ Within(k, h)
      /\ Held(k) = Held(h) \cup {b} /\ Keeps(k, h, Held(h))
  BY RemoveOK
<1>2. g = IF CanSplit(h, b, size) THEN SplitOff(k, b, size) ELSE k
  BY DEF Take
<1> HIDE DEF k
<1>3. Blocks(k) = Blocks(h) /\ k.blk[b].size = h.blk[b].size
  BY <1>1 DEF SameLayout
<1>4. CASE ~CanSplit(h, b, size)
  <2>1. g = k /\ g.blk[b].size = h.blk[b].size
    BY <1>2, <1>3, <1>4
  <2>2. HEAP_MIN_BLOCK_SIZE \in Nat /\ h.blk[b].size \in Nat
    BY KheapConstants, EndTypes DEF HeapOK, HEAP_MIN_BLOCK_SIZE
  <2>3. size = 0 => h.blk[b].size < HEAP_MIN_BLOCK_SIZE
    BY <1>4, <2>2 DEF CanSplit
  <2> QED BY <1>1, <2>1, <2>3
<1>5. CASE CanSplit(h, b, size)
  <2> DEFINE rest == b + HEAP_HEADER_SIZE + size
  <2>1. g = SplitOff(k, b, size) /\ k.blk[b].size >= size + HEAP_MIN_BLOCK_SIZE
    BY <1>2, <1>3, <1>5 DEF CanSplit
  <2>2. /\ HeapTypeOK(g) /\ FreeLinksOK(g) /\ LayoutOK(g)
        /\ Blocks(g) = Blocks(k) \cup {rest} /\ rest \notin Blocks(k)
        /\ g.blk[rest].is_free
        /\ EndOf(g, rest) = EndOf(k, b) /\ EndOf(g, b) = rest
        /\ g.blk[b].size = size
        /\ \A x \in Blocks(k) :
             /\ g.blk[x].is_free <=> k.blk[x].is_free
             /\ x # b => g.blk[x].size = k.blk[x].size
    BY <1>1, <1>3, <2>1, SplitKeeps DEF HeapOK
  <2>3. rest <= EndOf(k, b)
    <3>1. /\ HEAP_HEADER_SIZE \in Nat /\ b \in Nat /\ k.blk[b].size \in Nat
          /\ HEAP_MIN_BLOCK_SIZE \in Nat
      BY <1>1, <1>3, KheapConstants, EndTypes DEF HeapOK, HEAP_MIN_BLOCK_SIZE
    <3> QED BY <2>1, <3>1 DEF EndOf
  <2> HIDE DEF rest
  <2>4. Within(g, k)
    <3>1. ASSUME NEW x \in Blocks(k), x # b PROVE EndOf(g, x) <= EndOf(k, x)
      <4>1. EndOf(g, x) = EndOf(k, x) /\ EndOf(k, x) \in Nat
        BY <1>1, <2>2, <3>1, EndTypes DEF HeapOK, EndOf
      <4> QED BY <4>1
    <3>2. EndOf(g, b) <= EndOf(k, b)
      BY <2>2, <2>3
    <3>3. EndOf(g, rest) <= EndOf(k, b)
      BY <1>1, <1>3, <2>2, EndTypes DEF HeapOK
    <3>4. ASSUME NEW e \in Nat, Tiled(k, e) PROVE Tiled(g, e)
      <4>1. rest < e
        <5>1. EndOf(k, b) \in Blocks(k) \cup {e} /\ EndOf(k, b) \in Nat
          BY <1>1, <1>3, <3>4, EndTypes DEF Tiled, HeapOK
        <5>2. EndOf(k, b) <= e
          BY <5>1, <3>4, <1>1, EndTypes DEF Tiled, HeapOK
        <5>3. rest \in Nat /\ rest < EndOf(k, b)
          BY <2>2, <5>1, KheapConstants, EndTypes DEF EndOf
        <5> QED BY <5>1, <5>2, <5>3
      <4>2. \A x \in Blocks(k) : x # b => EndOf(g, x) = EndOf(k, x)
        BY <2>2 DEF EndOf
      <4> QED BY <1>3, <2>2, <3>4, <4>1, <4>2 DEF Tiled
    <3>5. ASSUME NEW x \in Blocks(g) PROVE \E y \in Blocks(k) : y <= x
      <4>1. b <= rest /\ \A y \in Blocks(k) : y <= y
        BY <1>1, <1>3, KheapConstants, EndTypes DEF rest, HeapOK
      <4> QED BY <1>3, <2>2, <4>1
    <3>6. ASSUME NEW y \in Nat, Covers(k, y) PROVE Covers(g, y)
      <4>1. PICK x \in Blocks(k) : x <= y /\ y < EndOf(k, x)
        BY <3>6 DEF Covers
      <4>2. CASE x = b
        <5>1. IF y < rest THEN b <= y /\ y < EndOf(g, b)
                          ELSE rest <= y /\ y < EndOf(g, rest)
          BY <4>1, <4>2, <2>2, <1>1, EndTypes DEF HeapOK
        <5> QED BY <1>3, <2>2, <5>1 DEF Covers
      <4>3. CASE x # b
        <5>1. x \in Blocks(g) /\ EndOf(g, x) = EndOf(k, x)
          BY <4>1, <4>3, <2>2 DEF EndOf
        <5> QED BY <4>1, <5>1 DEF Covers
      <4> QED BY <4>2, <4>3
    <3> QED BY <1>3, <2>2, <3>1, <3>2, <3>3, <3>4, <3>5, <3>6 DEF Within
  <2>5. Within(g, h)
    BY <1>1, <2>2, <2>4, WithinTrans DEF HeapOK
  <2>6. Held(g) = Held(k)
    BY <2>2 DEF Held
  <2>7. Keeps(g, h, Held(h))
    <3>1. b \notin Held(h)
      BY DEF Held
    <3>2. Held(h) \subseteq Blocks(k)
      BY <1>3 DEF Held
    <3> QED BY <1>1, <2>2, <2>6, <3>1, <3>2 DEF Keeps
  <2>8. 0 < HEAP_MIN_BLOCK_SIZE
    BY KheapConstants DEF HEAP_MIN_BLOCK_SIZE
  <2> QED BY <1>1, <2>2, <2>5, <2>6, <2>7, <2>8 DEF HeapOK
<1> QED BY <1>4, <1>5

-----------------------------------------------------------------------------
(* Sizes.                                                                  *)

(* kmalloc's rounding: the result is aligned, and not below the request    *)
(* unless the addition overflows, and then it is zero.                     *)
LEMMA AlignOK ==
  ASSUME NEW size \in 0 .. WORD - 1
  PROVE  /\ Align(size) \in Nat /\ Align(size) % ALIGNMENT = 0
         /\ IF size + ALIGNMENT <= WORD THEN size <= Align(size)
                                        ELSE Align(size) = 0
<1> USE KheapConstants, PmmConstants
<1> DEFINE up == (size + ALIGNMENT - 1) % WORD
           q  == up \div ALIGNMENT
<1>1. up \in Nat
  OBVIOUS
<1>2. IF size + ALIGNMENT <= WORD THEN up = size + ALIGNMENT - 1
                                  ELSE up < ALIGNMENT
  <2>1. ALIGNMENT <= WORD /\ WORD \in Nat
    BY ConstantsAligned
  <2>2. CASE size + ALIGNMENT <= WORD
    BY <2>2
  <2>3. CASE size + ALIGNMENT > WORD
    <3>1. size + ALIGNMENT - 1 = WORD + (size + ALIGNMENT - 1 - WORD)
          /\ size + ALIGNMENT - 1 - WORD \in 0 .. ALIGNMENT - 1
          /\ size + ALIGNMENT - 1 - WORD \in 0 .. WORD - 1
      BY <2>1, <2>3
    <3>2. up = size + ALIGNMENT - 1 - WORD
      BY <2>1, <3>1
    <3> QED BY <2>3, <3>1, <3>2
  <2> QED BY <2>2, <2>3
<1> HIDE DEF up
<1>3. /\ q \in Nat /\ up = q * ALIGNMENT + (up % ALIGNMENT)
      /\ up % ALIGNMENT \in 0 .. ALIGNMENT - 1
  BY <1>1
<1> HIDE DEF q
<1>4. q * ALIGNMENT \in Nat
  BY <1>3
<1>5. Align(size) = q * ALIGNMENT
  <2>1. Align(size) = up - (up % ALIGNMENT)
    BY DEF Align, up
  <2> QED BY <2>1, <1>1, <1>3, <1>4
<1>6. (q * ALIGNMENT) % ALIGNMENT = 0
  BY <1>3
<1>7. size + ALIGNMENT <= WORD => size <= q * ALIGNMENT
  BY <1>1, <1>2, <1>3, <1>4
<1>8. ASSUME size + ALIGNMENT > WORD PROVE q * ALIGNMENT = 0
  <2>1. up % ALIGNMENT = up
    BY <1>1, <1>2, <1>8
  <2> QED BY <1>1, <1>3, <1>4, <2>1
<1> QED BY <1>4, <1>5, <1>6, <1>7, <1>8

(* expand_heap asks for at least one page.                                 *)
LEMMA PagesNeededOK ==
  ASSUME NEW n \in Nat
  PROVE  PagesNeeded(n) \in Nat /\ PagesNeeded(n) > 0
<1> USE KheapConstants, PmmConstants
<1> DEFINE k == (n + HEAP_HEADER_SIZE + PAGE_SIZE - 1) % WORD
<1>1. k \in Nat
  OBVIOUS
<1> HIDE DEF k
<1>2. k \div PAGE_SIZE \in Nat
  BY <1>1
<1>3. PagesNeeded(n) = IF k \div PAGE_SIZE = 0 THEN 1 ELSE k \div PAGE_SIZE
  BY DEF PagesNeeded, k
<1> QED BY <1>2, <1>3

-----------------------------------------------------------------------------
(***************************************************************************)
(* The inductive invariant.  To the invariants of the model it adds what   *)
(* their preservation rests on: the alignment of every block (in LayoutOK) *)
(* makes kmalloc's areas aligned; no block reaches into a frame that may   *)
(* still be handed out, so that a new page lies behind all blocks; and     *)
(* what the running call holds in its locals is still true of the lists.   *)
(***************************************************************************)
CallType == [req : Nat, size : Nat, cur : Nat, grown : BOOLEAN,
             todo : Nat, first : Nat]

NothingBeforeInit ==
  /\ pc = "off" => heap = EmptyHeap
  /\ pc # "off" => pmm_ready

BelowClearFrames ==
  \A b \in Blocks(heap) : \A f \in ClearFrames : EndOf(heap, b) <= FrameAddr(f)

LiveIsHeld == DOMAIN live = {b + HEAP_HEADER_SIZE : b \in Held(heap)}

FitsRequest(n, size) ==
  IF n + ALIGNMENT <= WORD THEN n <= size ELSE size < HEAP_MIN_BLOCK_SIZE

LiveFits ==
  \A b \in Held(heap) :
    FitsRequest(live[b + HEAP_HEADER_SIZE], heap.blk[b].size)

SizeAligned ==
  /\ call.size % ALIGNMENT = 0
  /\ IF call.req + ALIGNMENT <= WORD THEN call.req <= call.size
                                     ELSE call.size = 0

CursorValid ==
  pc = "scan" =>
    /\ call.first = NULL
    /\ call.cur # NULL => call.cur \in Blocks(heap)
                          /\ heap.blk[call.cur].is_free

FirstPageWaits ==
  pc = "grow" =>
    IF call.first = NULL THEN call.todo > 0
    ELSE /\ call.first \in Blocks(heap) /\ heap.blk[call.first].is_free
         /\ Detached(heap, call.first)

CallOK == call \in CallType /\ SizeAligned /\ CursorValid /\ FirstPageWaits

HeapInv ==
  /\ PmmInv
  /\ HeapOK(heap)
  /\ pc \in PC
  /\ NothingBeforeInit
  /\ BelowClearFrames
  /\ live \in [DOMAIN live -> Nat] /\ LiveIsHeld /\ LiveFits
  /\ CallOK

LEMMA EmptyHeapOK == HeapOK(EmptyHeap) /\ Blocks(EmptyHeap) = {}
<1> DEFINE N == NoBlocks
<1>1. DOMAIN N = {} /\ N \in [{} -> Header]
  BY DEF NoBlocks
<1> HIDE DEF N
<1>2. EmptyHeap = [blk |-> N, heap_start |-> NULL, heap_end |-> NULL,
                   free_list_head |-> NULL]
  BY DEF EmptyHeap, N
<1>3. Blocks(EmptyHeap) = {}
  BY <1>1, <1>2 DEF Blocks
<1>4. HeapTypeOK(EmptyHeap)
  BY <1>1, <1>2, <1>3 DEF HeapTypeOK, NULL
<1>5. FreeLinksOK(EmptyHeap)
  BY <1>2, <1>3 DEF FreeLinksOK
<1>6. LayoutOK(EmptyHeap)
  BY <1>2, <1>3 DEF LayoutOK, BlocksDisjoint, ListInOrder, BlocksAligned
<1> QED BY <1>3, <1>4, <1>5, <1>6 DEF HeapOK

LEMMA IdleCallOK ==
  /\ IdleCall \in CallType
  /\ IdleCall.size % ALIGNMENT = 0 /\ IdleCall.req = 0 /\ IdleCall.size = 0
  /\ IdleCall.first = NULL
BY KheapConstants DEF IdleCall, CallType, NULL

LEMMA HeapInvInit == Init => HeapInv
<1> SUFFICES ASSUME Init PROVE HeapInv
  OBVIOUS
<1>1. PmmInv
  BY PmmInvInit DEF Init
<1>2. heap = EmptyHeap /\ pc = "off" /\ call = IdleCall /\ live = NoBlocks
  BY DEF Init
<1>3. HeapOK(heap) /\ Blocks(heap) = {} /\ Held(heap) = {}
  BY <1>2, EmptyHeapOK DEF Held
<1>4. DOMAIN live = {} /\ live \in [DOMAIN live -> Nat]
  BY <1>2 DEF NoBlocks
<1>5. CallOK
  BY <1>2, IdleCallOK DEF CallOK, SizeAligned, CursorValid, FirstPageWaits
<1>6. pc \in PC /\ NothingBeforeInit
  BY <1>2 DEF PC, NothingBeforeInit
<1>7. BelowClearFrames /\ LiveFits /\ LiveIsHeld
  BY <1>3, <1>4 DEF BelowClearFrames, LiveFits, LiveIsHeld
<1> QED BY <1>1, <1>3, <1>4, <1>5, <1>6, <1>7 DEF HeapInv

(* Frame addresses grow by at least a page.                                *)
LEMMA FrameAddrMono ==
  ASSUME NEW f \in Frames, NEW g \in Frames, f < g
  PROVE  /\ FrameAddr(f) \in Nat /\ FrameAddr(g) \in Nat
         /\ FrameAddr(f) + PAGE_SIZE <= FrameAddr(g)
<1> USE PmmConstants
<1>1. f \in Nat /\ g \in Nat /\ f + 1 <= g
  BY DEF Frames
<1>2. (f + 1) * PAGE_SIZE <= g * PAGE_SIZE
  BY <1>1, MulMono
<1>3. (f + 1) * PAGE_SIZE = f * PAGE_SIZE + PAGE_SIZE
  BY <1>1
<1>4. f * PAGE_SIZE \in Nat /\ g * PAGE_SIZE \in Nat
  BY <1>1
<1> QED BY <1>2, <1>3, <1>4 DEF FrameAddr

LEMMA FrameAddrType ==
  ASSUME NEW f \in Frames
  PROVE  /\ FrameAddr(f) \in Nat \ {NULL} /\ FrameAddr(f) % ALIGNMENT = 0
<1>1. f \in Nat /\ PAGE_SIZE \in Nat /\ PMM_RAM_BASE \in Nat \ {0}
  BY PmmConstants DEF Frames
<1>2. f * PAGE_SIZE \in Nat
  BY <1>1
<1>3. (f * PAGE_SIZE) % ALIGNMENT = 0
  BY <1>1, ConstantsAligned, AlignedProduct
<1>4. (PMM_RAM_BASE + f * PAGE_SIZE) % ALIGNMENT = 0
  BY <1>1, <1>2, <1>3, ConstantsAligned, AlignedSum
<1> QED BY <1>1, <1>2, <1>4 DEF FrameAddr, NULL

-----------------------------------------------------------------------------
(* One lemma per action.                                                   *)

LEMMA HeapInvFrameAllocInit ==
  ASSUME HeapInv, NEW p \in BootParams, FrameAllocInit(p), UNCHANGED heap_vars
  PROVE  HeapInv'
<1>1. PmmInv'
  BY PmmInvFrameAllocInit DEF HeapInv
<1>2. UNCHANGED <<heap, pc, call, live>>
  BY DEF heap_vars
<1>3. pc = "off" /\ Blocks(heap) = {}
  BY EmptyHeapOK DEF HeapInv, NothingBeforeInit, FrameAllocInit
<1>4. NothingBeforeInit' /\ BelowClearFrames'
  BY <1>2, <1>3 DEF HeapInv, NothingBeforeInit, BelowClearFrames
<1>5. LiveIsHeld' /\ LiveFits' /\ CallOK'
  BY <1>2 DEF HeapInv, LiveIsHeld, LiveFits, CallOK, SizeAligned, CursorValid,
              FirstPageWaits
<1> QED BY <1>1, <1>2, <1>4, <1>5 DEF HeapInv

(* The parts that are about the areas depend on the heap and live only.    *)
LEMMA HeapUnchanged ==
  ASSUME HeapInv, UNCHANGED <<heap, live, pmm_vars>>
  PROVE  /\ PmmInv' /\ HeapOK(heap)' /\ BelowClearFrames'
         /\ live' \in [DOMAIN live' -> Nat] /\ LiveIsHeld' /\ LiveFits'
<1>1. PmmInv'
  BY PmmInvStutter DEF HeapInv
<1>2. UNCHANGED frame_bitmap
  BY DEF pmm_vars
<1> QED BY <1>1, <1>2 DEF HeapInv, BelowClearFrames, ClearFrames, LiveIsHeld,
                          LiveFits

LEMMA HeapInvKheapInit ==
  ASSUME HeapInv, KheapInit
  PROVE  HeapInv'
<1>1. pc = "off" /\ heap = EmptyHeap /\ pmm_ready
  BY DEF HeapInv, NothingBeforeInit, KheapInit
<1>2. UNCHANGED <<heap, live, pmm_vars>>
  BY <1>1 DEF KheapInit
<1>3. /\ PmmInv' /\ HeapOK(heap)' /\ BelowClearFrames'
      /\ live' \in [DOMAIN live' -> Nat] /\ LiveIsHeld' /\ LiveFits'
  BY <1>2, HeapUnchanged
<1> DEFINE n == PagesNeeded((PAGE_SIZE * KHEAP_INIT_PAGES) % WORD)
<1>4. n \in Nat /\ n > 0
  <2>1. PAGE_SIZE * KHEAP_INIT_PAGES \in Nat
    BY PmmConstants, KheapConstants
  <2>2. (PAGE_SIZE * KHEAP_INIT_PAGES) % WORD \in Nat
    BY <2>1, PmmConstants
  <2> QED BY <2>2, PagesNeededOK
<1>5. pc' = "grow" /\ call' = [IdleCall EXCEPT !.todo = n]
  BY DEF KheapInit
<1> HIDE DEF n
<1>6. /\ call' \in CallType /\ call'.first = NULL /\ call'.todo > 0
      /\ call'.size = 0 /\ call'.req = 0 /\ call'.size % ALIGNMENT = 0
  BY <1>4, <1>5, IdleCallOK DEF CallType
<1>7. CallOK'
  BY <1>5, <1>6 DEF CallOK, SizeAligned, CursorValid, FirstPageWaits
<1>8. pc' \in PC /\ NothingBeforeInit'
  BY <1>1, <1>2, <1>5 DEF PC, NothingBeforeInit, pmm_vars
<1> QED BY <1>3, <1>7, <1>8 DEF HeapInv

LEMMA HeapInvKmalloc ==
  ASSUME HeapInv, NEW size \in Sizes, Kmalloc(size)
  PROVE  HeapInv'
<1>1. UNCHANGED <<heap, live, pmm_vars>> /\ pc = "idle"
  BY DEF Kmalloc
<1>2. /\ PmmInv' /\ HeapOK(heap)' /\ BelowClearFrames'
      /\ live' \in [DOMAIN live' -> Nat] /\ LiveIsHeld' /\ LiveFits'
  BY <1>1, HeapUnchanged
<1>3. CASE size = 0
  <2>1. UNCHANGED <<pc, call>>
    BY <1>3 DEF Kmalloc
  <2> QED BY <1>1, <1>2, <2>1 DEF HeapInv, CallOK, SizeAligned, CursorValid,
                    FirstPageWaits, NothingBeforeInit, pmm_vars
<1>4. CASE size # 0
  <2> DEFINE a == Align(size)
  <2>1. size \in 0 .. WORD - 1 /\ size \in Nat
    BY KheapConstants
  <2>2. /\ a \in Nat /\ a % ALIGNMENT = 0
        /\ IF size + ALIGNMENT <= WORD THEN size <= a ELSE a = 0
    BY <2>1, AlignOK
  <2>3. /\ pc' = "scan"
        /\ call' = [IdleCall EXCEPT !.req = size, !.size = a,
                                    !.cur = heap.free_list_head]
    BY <1>4 DEF Kmalloc
  <2> HIDE DEF a
  <2>4. /\ heap.free_list_head \in Nat
        /\ heap.free_list_head # NULL =>
             /\ heap.free_list_head \in Blocks(heap)
             /\ heap.blk[heap.free_list_head].is_free
    BY DEF HeapInv, HeapOK, HeapTypeOK, FreeLinksOK
  <2>5. /\ call' \in CallType /\ call'.first = NULL
        /\ call'.size = a /\ call'.req = size
        /\ call'.cur = heap.free_list_head
    BY <2>1, <2>2, <2>3, <2>4, IdleCallOK DEF CallType, IdleCall
  <2>6. CallOK'
    BY <1>1, <2>2, <2>3, <2>4, <2>5
    DEF CallOK, SizeAligned, CursorValid, FirstPageWaits
  <2>7. pc' \in PC /\ NothingBeforeInit'
    BY <1>1, <2>3 DEF HeapInv, PC, NothingBeforeInit, pmm_vars
  <2> QED BY <1>2, <2>6, <2>7 DEF HeapInv
<1> QED BY <1>3, <1>4

LEMMA HeapInvScanNext ==
  ASSUME HeapInv, ScanNext
  PROVE  HeapInv'
<1>1. UNCHANGED <<heap, live, pmm_vars>> /\ pc = "scan" /\ pc' = pc
  BY DEF ScanNext
<1>2. /\ PmmInv' /\ HeapOK(heap)' /\ BelowClearFrames'
      /\ live' \in [DOMAIN live' -> Nat] /\ LiveIsHeld' /\ LiveFits'
  BY <1>1, HeapUnchanged
<1> DEFINE n == heap.blk[call.cur].next_free
<1>3. call.cur \in Blocks(heap) /\ call' = [call EXCEPT !.cur = n]
  BY <1>1 DEF ScanNext, HeapInv, CallOK, CursorValid
<1>4. /\ n \in Nat
      /\ n # NULL => n \in Blocks(heap) /\ heap.blk[n].is_free
  BY <1>3 DEF HeapInv, HeapOK, HeapTypeOK, FreeLinksOK, Header
<1> HIDE DEF n
<1>5. /\ call' \in CallType /\ call'.cur = n /\ call'.first = call.first
      /\ call'.size = call.size /\ call'.req = call.req
  BY <1>3, <1>4 DEF HeapInv, CallOK, CallType
<1>6. CallOK'
  BY <1>1, <1>4, <1>5
  DEF HeapInv, CallOK, SizeAligned, CursorValid, FirstPageWaits
<1> QED BY <1>1, <1>2, <1>6 DEF HeapInv, NothingBeforeInit, pmm_vars

(* No clear frame lies below the end of a block after a step that lets no  *)
(* block reach further.                                                    *)
LEMMA BelowClearKept ==
  ASSUME HeapInv, UNCHANGED pmm_vars, HeapOK(heap'), Within(heap', heap)
  PROVE  BelowClearFrames'
<1> SUFFICES ASSUME NEW x \in Blocks(heap'), NEW f \in ClearFrames'
             PROVE  EndOf(heap', x) <= FrameAddr(f)
  BY DEF BelowClearFrames
<1>1. PICK y \in Blocks(heap) : EndOf(heap', x) <= EndOf(heap, y)
  BY DEF Within
<1>2. f \in ClearFrames /\ f \in Frames
  BY DEF pmm_vars, ClearFrames
<1>3. EndOf(heap, y) <= FrameAddr(f)
  BY <1>2 DEF HeapInv, BelowClearFrames
<1>4. /\ EndOf(heap', x) \in Nat /\ EndOf(heap, y) \in Nat
      /\ FrameAddr(f) \in Nat
  BY <1>2, EndTypes, FrameAddrType DEF HeapInv, HeapOK
<1> QED BY <1>1, <1>3, <1>4

(* A pointer handed out for the block b, so far free, is added to live.    *)
LEMMA LiveTaken ==
  ASSUME HeapInv, HeapOK(heap'),
         NEW b \in Blocks(heap), heap.blk[b].is_free,
         Held(heap') = Held(heap) \cup {b}, Keeps(heap', heap, Held(heap)),
         NEW n \in Nat, live' = WithBlock(live, b + HEAP_HEADER_SIZE, n),
         FitsRequest(n, heap'.blk[b].size)
  PROVE  live' \in [DOMAIN live' -> Nat] /\ LiveIsHeld' /\ LiveFits'
<1> DEFINE p == b + HEAP_HEADER_SIZE
<1>1. /\ DOMAIN live' = DOMAIN live \cup {p}
      /\ live'[p] = n
      /\ \A q \in DOMAIN live : q # p => live'[q] = live[q]
      /\ live' = [q \in DOMAIN live \cup {p} |-> IF q = p THEN n ELSE live[q]]
  BY DEF WithBlock
<1>2. live' \in [DOMAIN live' -> Nat]
  BY <1>1 DEF HeapInv
<1>3. b \notin Held(heap)
  BY DEF Held
<1>4. LiveIsHeld'
  BY <1>1 DEF HeapInv, LiveIsHeld
<1>5. \A x \in Held(heap) : x \in Nat /\ b \in Nat /\ HEAP_HEADER_SIZE \in Nat
  BY KheapConstants DEF HeapInv, HeapOK, HeapTypeOK, Held
<1>6. LiveFits'
  <2> SUFFICES ASSUME NEW x \in Held(heap')
               PROVE  FitsRequest(live'[x + HEAP_HEADER_SIZE], heap'.blk[x].size)
    BY DEF LiveFits, FitsRequest
  <2>1. CASE x = b
    BY <2>1, <1>1
  <2>2. CASE x # b
    <3>1. x \in Held(heap)
      BY <2>2
    <3>2. x + HEAP_HEADER_SIZE \in DOMAIN live /\ x + HEAP_HEADER_SIZE # p
      <4>1. x + HEAP_HEADER_SIZE \in DOMAIN live
        BY <3>1 DEF HeapInv, LiveIsHeld
      <4>2. x + HEAP_HEADER_SIZE # p
        BY <3>1, <1>5, <2>2
      <4> QED BY <4>1, <4>2
    <3>3. live'[x + HEAP_HEADER_SIZE] = live[x + HEAP_HEADER_SIZE]
      BY <3>2, <1>1
    <3>4. heap'.blk[x].size = heap.blk[x].size
      BY <3>1 DEF Keeps
    <3> QED BY <3>1, <3>3, <3>4 DEF HeapInv, LiveFits
  <2> QED BY <2>1, <2>2
<1> QED BY <1>2, <1>4, <1>6

(* A pointer given back for the block b, so far in use, leaves live.       *)
LEMMA LiveGivenBack ==
  ASSUME HeapInv, HeapOK(heap'), NEW b \in Held(heap),
         Held(heap') = Held(heap) \ {b}, Keeps(heap', heap, Held(heap')),
         live' = WithoutBlock(live, b + HEAP_HEADER_SIZE)
  PROVE  live' \in [DOMAIN live' -> Nat] /\ LiveIsHeld' /\ LiveFits'
<1> DEFINE p == b + HEAP_HEADER_SIZE
<1>1. /\ DOMAIN live' = DOMAIN live \ {p}
      /\ \A q \in DOMAIN live' : live'[q] = live[q]
      /\ live' = [q \in DOMAIN live \ {p} |-> live[q]]
  BY DEF WithoutBlock
<1>2. live' \in [DOMAIN live' -> Nat]
  BY <1>1 DEF HeapInv
<1>3. \A x \in Held(heap) : x \in Nat /\ b \in Nat /\ HEAP_HEADER_SIZE \in Nat
  BY KheapConstants DEF HeapInv, HeapOK, HeapTypeOK, Held
<1>4. \A x \in Held(heap) : x # b => x + HEAP_HEADER_SIZE # p
  BY <1>3
<1> HIDE DEF p
<1>5. LiveIsHeld'
  BY <1>1, <1>4 DEF HeapInv, LiveIsHeld, p
<1>6. LiveFits'
  <2> SUFFICES ASSUME NEW x \in Held(heap')
               PROVE  FitsRequest(live'[x + HEAP_HEADER_SIZE], heap'.blk[x].size)
    BY DEF LiveFits, FitsRequest
  <2>1. x \in Held(heap) /\ x + HEAP_HEADER_SIZE \in DOMAIN live'
    BY <1>5 DEF LiveIsHeld
  <2>2. live'[x + HEAP_HEADER_SIZE] = live[x + HEAP_HEADER_SIZE]
    BY <2>1, <1>1
  <2>3. heap'.blk[x].size = heap.blk[x].size
    BY DEF Keeps
  <2> QED BY <2>1, <2>2, <2>3 DEF HeapInv, LiveFits
<1> QED BY <1>2, <1>5, <1>6

(* The held blocks stay, and so does live.                                 *)
LEMMA LiveKept ==
  ASSUME HeapInv, HeapOK(heap'), UNCHANGED live,
         Held(heap') = Held(heap), Keeps(heap', heap, Held(heap))
  PROVE  live' \in [DOMAIN live' -> Nat] /\ LiveIsHeld' /\ LiveFits'
<1>1. live' \in [DOMAIN live' -> Nat] /\ LiveIsHeld'
  BY DEF HeapInv, LiveIsHeld
<1>2. LiveFits'
  BY DEF HeapInv, LiveFits, Keeps
<1> QED BY <1>1, <1>2

(* kmalloc turns the block its search ended at into one in use.            *)
LEMMA ScanHitTakes ==
  ASSUME HeapInv, ScanHit, NEW b, b = call.cur
  PROVE  /\ b \in Blocks(heap) /\ heap.blk[b].is_free
         /\ HeapOK(heap') /\ Within(heap', heap)
         /\ Held(heap') = Held(heap) \cup {b} /\ Keeps(heap', heap, Held(heap))
         /\ heap'.blk[b].size >= call.size
         /\ call.size = 0 => heap'.blk[b].size < HEAP_MIN_BLOCK_SIZE
<1>1. /\ pc = "scan" /\ b # NULL /\ heap.blk[b].size >= call.size
      /\ heap' = Take(heap, b, call.size)
  BY DEF ScanHit
<1>2. b \in Blocks(heap) /\ heap.blk[b].is_free
  BY <1>1 DEF HeapInv, CallOK, CursorValid
<1>3. call.size \in Nat /\ call.size % ALIGNMENT = 0
  BY DEF HeapInv, CallOK, CallType, SizeAligned
<1> QED BY <1>1, <1>2, <1>3, TakeOK DEF HeapInv

LEMMA HeapInvScanHit ==
  ASSUME HeapInv, ScanHit
  PROVE  HeapInv'
<1> DEFINE b == call.cur
<1>1. /\ pc = "scan" /\ UNCHANGED pmm_vars
      /\ pc' \in {"idle", "corrupt"} /\ call' = IdleCall
      /\ live' = WithBlock(live, b + HEAP_HEADER_SIZE, call.req)
  BY DEF ScanHit
<1>2. /\ b \in Blocks(heap) /\ heap.blk[b].is_free
      /\ HeapOK(heap') /\ Within(heap', heap)
      /\ Held(heap') = Held(heap) \cup {b} /\ Keeps(heap', heap, Held(heap))
      /\ heap'.blk[b].size >= call.size
      /\ call.size = 0 => heap'.blk[b].size < HEAP_MIN_BLOCK_SIZE
  BY ScanHitTakes
<1>3. /\ call.size \in Nat /\ call.req \in Nat
      /\ IF call.req + ALIGNMENT <= WORD THEN call.req <= call.size
                                         ELSE call.size = 0
  BY DEF HeapInv, CallOK, CallType, SizeAligned
<1>4. PmmInv' /\ BelowClearFrames'
  BY <1>1, <1>2, BelowClearKept, PmmInvStutter DEF HeapInv
<1>5. FitsRequest(call.req, heap'.blk[b].size)
  <2>1. b \in Blocks(heap')
    BY <1>2 DEF Held
  <2>2. heap'.blk[b].size \in Nat
    BY <2>1, <1>2, EndTypes DEF HeapOK
  <2> QED BY <2>2, <1>2, <1>3 DEF FitsRequest
<1>6. live' \in [DOMAIN live' -> Nat] /\ LiveIsHeld' /\ LiveFits'
  BY <1>1, <1>2, <1>3, <1>5, LiveTaken
<1>7. CallOK'
  BY <1>1, IdleCallOK DEF CallOK, SizeAligned, CursorValid, FirstPageWaits
<1>8. pc' \in PC /\ NothingBeforeInit'
  BY <1>1 DEF HeapInv, PC, NothingBeforeInit, pmm_vars
<1> QED BY <1>2, <1>4, <1>6, <1>7, <1>8 DEF HeapInv

LEMMA HeapInvScanMiss ==
  ASSUME HeapInv, ScanMiss
  PROVE  HeapInv'
<1>1. UNCHANGED <<heap, live, pmm_vars>> /\ pc = "scan"
  BY DEF ScanMiss
<1>2. /\ PmmInv' /\ HeapOK(heap)' /\ BelowClearFrames'
      /\ live' \in [DOMAIN live' -> Nat] /\ LiveIsHeld' /\ LiveFits'
  BY <1>1, HeapUnchanged
<1>3. CASE call.grown
  <2>1. pc' = "idle" /\ call' = IdleCall
    BY <1>3 DEF ScanMiss
  <2>2. CallOK'
    BY <2>1, IdleCallOK DEF CallOK, SizeAligned, CursorValid, FirstPageWaits
  <2>3. pc' \in PC /\ NothingBeforeInit'
    BY <1>1, <2>1 DEF HeapInv, PC, NothingBeforeInit, pmm_vars
  <2> QED BY <1>2, <2>2, <2>3 DEF HeapInv
<1>4. CASE ~call.grown
  <2> DEFINE n == PagesNeeded((call.size + HEAP_HEADER_SIZE) % WORD)
  <2>1. pc' = "grow" /\ call' = [call EXCEPT !.todo = n]
    BY <1>4 DEF ScanMiss
  <2>2. n \in Nat /\ n > 0
    <3>1. call.size \in Nat
      BY DEF HeapInv, CallOK, CallType
    <3>2. (call.size + HEAP_HEADER_SIZE) % WORD \in Nat
      BY <3>1, KheapConstants, PmmConstants
    <3> QED BY <3>2, PagesNeededOK
  <2> HIDE DEF n
  <2>3. /\ call' \in CallType /\ call'.todo = n /\ call'.first = call.first
        /\ call'.size = call.size /\ call'.req = call.req
    BY <2>1, <2>2 DEF HeapInv, CallOK, CallType
  <2>4. CallOK'
    BY <1>1, <2>1, <2>2, <2>3
    DEF HeapInv, CallOK, SizeAligned, CursorValid, FirstPageWaits
  <2>5. pc' \in PC /\ NothingBeforeInit'
    BY <1>1, <2>1 DEF HeapInv, PC, NothingBeforeInit, pmm_vars
  <2> QED BY <1>2, <2>4, <2>5 DEF HeapInv
<1> QED BY <1>3, <1>4

LEMMA HeapInvGrowFails ==
  ASSUME HeapInv, GrowFails
  PROVE  HeapInv'
<1>1. /\ UNCHANGED <<heap, live, pmm_vars>> /\ pc = "grow"
      /\ pc' = "idle" /\ call' = IdleCall
  BY DEF GrowFails
<1>2. /\ PmmInv' /\ HeapOK(heap)' /\ BelowClearFrames'
      /\ live' \in [DOMAIN live' -> Nat] /\ LiveIsHeld' /\ LiveFits'
  BY <1>1, HeapUnchanged
<1>3. CallOK'
  BY <1>1, IdleCallOK DEF CallOK, SizeAligned, CursorValid, FirstPageWaits
<1>4. pc' \in PC /\ NothingBeforeInit'
  BY <1>1 DEF HeapInv, PC, NothingBeforeInit, pmm_vars
<1> QED BY <1>2, <1>3, <1>4 DEF HeapInv

(* A new page changes nothing for the blocks in use.                       *)
LEMMA GrowPageKeeps ==
  ASSUME HeapInv, NEW f \in Frames, GrowPage(f), NEW b, b = FrameAddr(f)
  PROVE  /\ b \in Nat \ {NULL} /\ HeapOK(heap')
         /\ Blocks(heap') = Blocks(heap) \cup {b}
         /\ heap'.blk[b].is_free /\ Detached(heap', b)
         /\ EndOf(heap', b) = b + PAGE_SIZE
         /\ \A x \in Blocks(heap) :
              /\ heap'.blk[x].is_free <=> heap.blk[x].is_free
              /\ Detached(heap, x) => Detached(heap', x)
              /\ heap'.blk[x].size = heap.blk[x].size
         /\ Held(heap') = Held(heap) /\ Keeps(heap', heap, Held(heap))
<1>1. AllocFrame(f) /\ heap' = LinkPage(heap, b)
  BY DEF GrowPage
<1>2. b \in Nat \ {NULL} /\ b % ALIGNMENT = 0
  BY FrameAddrType
<1>3. \A x \in Blocks(heap) : EndOf(heap, x) <= b
  BY <1>1 DEF HeapInv, BelowClearFrames, AllocFrame
<1>4. /\ HeapOK(heap')
      /\ Blocks(heap') = Blocks(heap) \cup {b} /\ b \notin Blocks(heap)
      /\ heap'.blk[b].is_free /\ Detached(heap', b)
      /\ EndOf(heap', b) = b + PAGE_SIZE
      /\ \A x \in Blocks(heap) :
           /\ heap'.blk[x].is_free <=> heap.blk[x].is_free
           /\ Detached(heap, x) => Detached(heap', x)
           /\ heap'.blk[x].size = heap.blk[x].size
  BY <1>1, <1>2, <1>3, LinkPageKeeps DEF HeapInv, HeapOK
<1>5. Held(heap') = Held(heap) /\ Keeps(heap', heap, Held(heap))
  BY <1>4 DEF Held, Keeps
<1> QED BY <1>2, <1>4, <1>5

LEMMA HeapInvGrowPage ==
  ASSUME HeapInv, NEW f \in Frames, GrowPage(f)
  PROVE  HeapInv'
<1> DEFINE b == FrameAddr(f)
<1>1. /\ pc = "grow" /\ call.todo > 0 /\ AllocFrame(f) /\ UNCHANGED <<pc, live>>
      /\ heap' = LinkPage(heap, b)
      /\ call' = [call EXCEPT !.todo = @ - 1,
                              !.first = IF @ = NULL THEN b ELSE @]
  BY DEF GrowPage
<1>2. PmmInv'
  BY <1>1, PmmInvAllocFrame DEF HeapInv
<1>3. /\ b \in Nat \ {NULL} /\ HeapOK(heap')
      /\ Blocks(heap') = Blocks(heap) \cup {b}
      /\ heap'.blk[b].is_free /\ Detached(heap', b)
      /\ EndOf(heap', b) = b + PAGE_SIZE
      /\ \A x \in Blocks(heap) :
           /\ heap'.blk[x].is_free <=> heap.blk[x].is_free
           /\ Detached(heap, x) => Detached(heap', x)
           /\ heap'.blk[x].size = heap.blk[x].size
      /\ Held(heap') = Held(heap) /\ Keeps(heap', heap, Held(heap))
  BY GrowPageKeeps
<1> HIDE DEF b
<1>4. live' \in [DOMAIN live' -> Nat] /\ LiveIsHeld' /\ LiveFits'
  BY <1>1, <1>3, LiveKept
<1>5. BelowClearFrames'
  <2> SUFFICES ASSUME NEW x \in Blocks(heap'), NEW g \in ClearFrames'
               PROVE  EndOf(heap', x) <= FrameAddr(g)
    BY DEF BelowClearFrames
  <2>1. g \in ClearFrames /\ g # f /\ g \in Frames /\ f < g
    <3>1. g \in ClearFrames /\ g # f /\ g \in Frames
      BY <1>1 DEF AllocFrame, ClearFrames
    <3>2. f <= g /\ f \in Int /\ g \in Int
      BY <1>1, <3>1 DEF AllocFrame, Frames
    <3> QED BY <3>1, <3>2
  <2>2. CASE x = b
    BY <2>1, <2>2, <1>3, FrameAddrMono DEF b
  <2>3. CASE x # b
    <3>1. x \in Blocks(heap) /\ EndOf(heap', x) = EndOf(heap, x)
      BY <2>3, <1>3 DEF EndOf
    <3> QED BY <3>1, <2>1 DEF HeapInv, BelowClearFrames
  <2> QED BY <2>2, <2>3
<1>6. /\ call' \in CallType
      /\ call'.first = IF call.first = NULL THEN b ELSE call.first
      /\ call'.size = call.size /\ call'.req = call.req
  <2> DEFINE t == call.todo - 1
             a == IF call.first = NULL THEN b ELSE call.first
  <2>1. call \in CallType /\ t \in Nat /\ a \in Nat
    BY <1>1, <1>3 DEF HeapInv, CallOK, CallType
  <2>2. call' = [call EXCEPT !.todo = t, !.first = a]
    BY <1>1, <2>1 DEF CallType
  <2> HIDE DEF t
  <2>3. a = IF call.first = NULL THEN b ELSE call.first
    OBVIOUS
  <2> HIDE DEF a
  <2> QED BY <2>1, <2>2, <2>3 DEF CallType
<1>7. CallOK'
  <2>1. SizeAligned' /\ CursorValid'
    BY <1>1, <1>6 DEF HeapInv, CallOK, SizeAligned, CursorValid
  <2>2. FirstPageWaits'
    BY <1>1, <1>3, <1>6 DEF HeapInv, CallOK, FirstPageWaits
  <2> QED BY <1>6, <2>1, <2>2 DEF CallOK
<1>8. pc' \in PC /\ NothingBeforeInit'
  BY <1>1 DEF HeapInv, PC, NothingBeforeInit, AllocFrame
<1> QED BY <1>2, <1>3, <1>4, <1>5, <1>7, <1>8 DEF HeapInv

(* Nor does the end of expand_heap.                                        *)
LEMMA GrowDoneKeeps ==
  ASSUME HeapInv, GrowDone
  PROVE  /\ HeapOK(heap') /\ Within(heap', heap)
         /\ Held(heap') = Held(heap) /\ Keeps(heap', heap, Held(heap))
<1>1. pc = "grow" /\ call.todo = 0 /\ heap' = FinishExpansion(heap, call.first)
  BY DEF GrowDone
<1>2. /\ call.first \in Blocks(heap) /\ heap.blk[call.first].is_free
      /\ Detached(heap, call.first)
  BY <1>1 DEF HeapInv, CallOK, FirstPageWaits
<1> QED BY <1>1, <1>2, FinishExpansionOK DEF HeapInv

LEMMA HeapInvGrowDone ==
  ASSUME HeapInv, GrowDone
  PROVE  HeapInv'
<1>1. /\ pc = "grow" /\ UNCHANGED <<live, pmm_vars>>
      /\ heap' = FinishExpansion(heap, call.first)
  BY DEF GrowDone
<1>2. /\ HeapOK(heap') /\ Within(heap', heap)
      /\ Held(heap') = Held(heap) /\ Keeps(heap', heap, Held(heap))
  BY GrowDoneKeeps
<1>3. PmmInv' /\ BelowClearFrames'
  BY <1>1, <1>2, BelowClearKept, PmmInvStutter DEF HeapInv
<1>4. live' \in [DOMAIN live' -> Nat] /\ LiveIsHeld' /\ LiveFits'
  BY <1>1, <1>2, LiveKept
<1>5. CASE call.req = 0
  <2>1. pc' = "idle" /\ call' = IdleCall
    BY <1>5 DEF GrowDone
  <2>2. CallOK'
    BY <2>1, IdleCallOK DEF CallOK, SizeAligned, CursorValid, FirstPageWaits
  <2>3. pc' \in PC /\ NothingBeforeInit'
    BY <1>1, <2>1 DEF HeapInv, PC, NothingBeforeInit, pmm_vars
  <2> QED BY <1>2, <1>3, <1>4, <2>2, <2>3 DEF HeapInv
<1>6. CASE call.req # 0
  <2> DEFINE n == heap'.free_list_head
  <2>1. /\ pc' = "scan"
        /\ call' = [call EXCEPT !.grown = TRUE, !.first = NULL, !.cur = n]
    BY <1>1, <1>6 DEF GrowDone
  <2>2. /\ n \in Nat
        /\ n # NULL => n \in Blocks(heap') /\ heap'.blk[n].is_free
    BY <1>2 DEF HeapOK, HeapTypeOK, FreeLinksOK
  <2> HIDE DEF n
  <2>3. /\ call' \in CallType /\ call'.cur = n /\ call'.first = NULL
        /\ call'.size = call.size /\ call'.req = call.req
    BY <2>1, <2>2 DEF HeapInv, CallOK, CallType, NULL
  <2>4. CallOK'
    BY <2>1, <2>2, <2>3
    DEF HeapInv, CallOK, SizeAligned, CursorValid, FirstPageWaits
  <2>5. pc' \in PC /\ NothingBeforeInit'
    BY <1>1, <2>1 DEF HeapInv, PC, NothingBeforeInit, pmm_vars
  <2> QED BY <1>2, <1>3, <1>4, <2>4, <2>5 DEF HeapInv
<1> QED BY <1>5, <1>6

(* What kfree does: nothing, or it gives back a block in use.              *)
LEMMA KfreeCases ==
  ASSUME HeapInv, NEW ptr \in FreeableAreas, Kfree(ptr)
  PROVE  /\ pc = "idle" /\ UNCHANGED <<pc, call, pmm_vars>>
         /\ \/ UNCHANGED <<heap, live>>
            \/ \E b \in Held(heap) :
                 /\ heap' = FreedHeap(heap, b)
                 /\ live' = WithoutBlock(live, b + HEAP_HEADER_SIZE)
<1> DEFINE b == ptr - HEAP_HEADER_SIZE
           c == Coalesce([heap EXCEPT !.blk[b].is_free = TRUE], b)
<1>1. pc = "idle" /\ UNCHANGED <<pc, call, pmm_vars>>
  BY DEF Kfree
<1>2. CASE ptr = NULL \/ heap.blk[b].is_free
  BY <1>1, <1>2 DEF Kfree
<1>3. CASE ~(ptr = NULL \/ heap.blk[b].is_free)
  <2>1. /\ heap' = AddToFreeList(c.heap, c.block)
        /\ live' = WithoutBlock(live, ptr)
    BY <1>3 DEF Kfree
  <2>2. PICK x \in Blocks(heap) : ptr = x + HEAP_HEADER_SIZE
    BY <1>3 DEF FreeableAreas
  <2>3. x = b
    <3>1. x \in Nat /\ HEAP_HEADER_SIZE \in Nat
      BY KheapConstants DEF HeapInv, HeapOK, HeapTypeOK
    <3> QED BY <2>2, <3>1
  <2>4. x \in Held(heap)
    BY <1>3, <2>2, <2>3 DEF Held
  <2>5. heap' = FreedHeap(heap, x)
    BY <2>1, <2>3 DEF FreedHeap
  <2> QED BY <1>1, <2>1, <2>2, <2>4, <2>5
<1> QED BY <1>2, <1>3

LEMMA HeapInvKfree ==
  ASSUME HeapInv, NEW ptr \in FreeableAreas, Kfree(ptr)
  PROVE  HeapInv'
<1>1. pc = "idle" /\ UNCHANGED <<pc, call, pmm_vars>>
  BY KfreeCases
<1>2. CallOK'
  BY <1>1 DEF HeapInv, CallOK, SizeAligned, CursorValid, FirstPageWaits
<1>3. pc' \in PC /\ NothingBeforeInit'
  BY <1>1 DEF HeapInv, PC, NothingBeforeInit, pmm_vars
<1>4. CASE UNCHANGED <<heap, live>>
  BY <1>1, <1>2, <1>3, <1>4, HeapUnchanged DEF HeapInv
<1>5. ASSUME NEW b \in Held(heap), heap' = FreedHeap(heap, b),
             live' = WithoutBlock(live, b + HEAP_HEADER_SIZE)
      PROVE  HeapInv'
  <2>1. /\ HeapOK(heap') /\ Within(heap', heap)
        /\ Held(heap') = Held(heap) \ {b} /\ Keeps(heap', heap, Held(heap'))
    BY <1>5, FreedOK DEF HeapInv
  <2>2. PmmInv' /\ BelowClearFrames'
    BY <1>1, <2>1, BelowClearKept, PmmInvStutter DEF HeapInv
  <2>3. live' \in [DOMAIN live' -> Nat] /\ LiveIsHeld' /\ LiveFits'
    BY <1>5, <2>1, LiveGivenBack
  <2> QED BY <1>2, <1>3, <2>1, <2>2, <2>3 DEF HeapInv
<1> QED BY <1>4, <1>5, KfreeCases

LEMMA HeapInvStutter ==
  ASSUME HeapInv, UNCHANGED vars
  PROVE  HeapInv'
<1>1. UNCHANGED <<heap, pc, call, live, pmm_vars>>
  BY DEF vars, heap_vars
<1>2. CallOK' /\ pc' \in PC /\ NothingBeforeInit'
  BY <1>1 DEF HeapInv, CallOK, SizeAligned, CursorValid, FirstPageWaits,
              NothingBeforeInit, pmm_vars
<1> QED BY <1>1, <1>2, HeapUnchanged DEF HeapInv

LEMMA HeapInvNext ==
  ASSUME HeapInv, [Next]_vars
  PROVE  HeapInv'
<1>1. CASE (\E p \in BootParams : FrameAllocInit(p)) /\ UNCHANGED heap_vars
  BY <1>1, HeapInvFrameAllocInit
<1>2. CASE KheapInit
  BY <1>2, HeapInvKheapInit
<1>3. ASSUME NEW size \in Sizes, Kmalloc(size) PROVE HeapInv'
  BY <1>3, HeapInvKmalloc
<1>4. ASSUME NEW ptr \in FreeableAreas, Kfree(ptr) PROVE HeapInv'
  BY <1>4, HeapInvKfree
<1>5. CASE Step
  <2>1. ASSUME NEW f \in Frames, GrowPage(f) PROVE HeapInv'
    BY <2>1, HeapInvGrowPage
  <2> QED BY <1>5, <2>1, HeapInvScanNext, HeapInvScanHit, HeapInvScanMiss,
             HeapInvGrowFails, HeapInvGrowDone DEF Step
<1>6. CASE UNCHANGED vars
  BY <1>6, HeapInvStutter
<1> QED BY <1>1, <1>2, <1>3, <1>4, <1>5, <1>6 DEF Next

(* The inductive invariant holds throughout every run of the heap.         *)
THEOREM HeapInvariant == Spec => []HeapInv
<1>1. HeapInv /\ [Next]_vars => HeapInv'
  BY HeapInvNext
<1> QED BY HeapInvInit, <1>1, PTL DEF Spec

-----------------------------------------------------------------------------
(* The heap never leaves the domain its C declarations describe: pointers  *)
(* and sizes are natural numbers, no block lies at NULL, and each call's   *)
(* locals have their types, through every kmalloc, kfree and expand_heap.  *)
THEOREM HeapTypeCorrect == Spec => []TypeOK
<1>1. HeapInv => TypeOK
  BY DEF HeapInv, PmmInv, HeapOK, TypeOK, CallOK, CallType
<1> QED BY HeapInvariant, <1>1, PTL

(* add_to_free_list and remove_from_free_list keep the free list sound     *)
(* wherever kmalloc, kfree, coalesce and expand_heap call them: each link  *)
(* has its converse and leads from a free block to a free block.           *)
THEOREM FreeListAlwaysSound == Spec => []FreeListSound
<1>1. HeapInv => FreeListSound
  BY DEF HeapInv, HeapOK, FreeListSound
<1> QED BY HeapInvariant, <1>1, PTL

(* The splits of kmalloc, the merges of coalesce and the pages of          *)
(* expand_heap never make two blocks overlap, and next, prev, heap_start   *)
(* and heap_end always describe all blocks in address order.               *)
THEOREM HeapAlwaysWellFormed == Spec => []HeapWellFormed
<1>1. HeapInv => HeapWellFormed
  BY DEF HeapInv, HeapOK, LayoutOK, HeapWellFormed
<1> QED BY HeapInvariant, <1>1, PTL

(* kmalloc returns no area that a caller still holds, kfree of one area    *)
(* ends no other, every area is aligned for a pointer, and an area is as   *)
(* large as its request unless aligning the request overflowed size_t, in  *)
(* which case it is smaller than any block kmalloc splits off.             *)
THEOREM HeldAreasAlwaysAllocated == Spec => []HeldAreasAllocated
<1>1. ASSUME HeapInv PROVE HeldAreasAllocated
  <2>1. DOMAIN live = {b + HEAP_HEADER_SIZE : b \in Held(heap)}
    BY <1>1 DEF HeapInv, LiveIsHeld
  <2>2. ASSUME NEW p \in DOMAIN live
        PROVE  /\ p % ALIGNMENT = 0
               /\ FitsRequest(live[p], heap.blk[p - HEAP_HEADER_SIZE].size)
    <3>1. PICK b \in Held(heap) : p = b + HEAP_HEADER_SIZE
      BY <2>1, <2>2
    <3>2. b \in Blocks(heap) /\ b \in Nat /\ HEAP_HEADER_SIZE \in Nat
      BY <1>1, KheapConstants DEF HeapInv, HeapOK, HeapTypeOK, Held
    <3>3. b % ALIGNMENT = 0
      BY <1>1, <3>2 DEF HeapInv, HeapOK, LayoutOK, BlocksAligned
    <3>4. p % ALIGNMENT = 0
      BY <3>1, <3>2, <3>3, ConstantsAligned, AlignedSum
    <3>5. p - HEAP_HEADER_SIZE = b
      BY <3>1, <3>2
    <3>6. FitsRequest(live[p], heap.blk[b].size)
      BY <1>1, <3>1 DEF HeapInv, LiveFits
    <3> QED BY <3>4, <3>5, <3>6
  <2> QED BY <2>1, <2>2 DEF HeldAreasAllocated, Held, FitsRequest
<1> QED BY HeapInvariant, <1>1, PTL

-----------------------------------------------------------------------------
(***************************************************************************)
(* The heap implements the abstract allocator.                             *)
(***************************************************************************)
AreasOf(h) == [p \in {b + HEAP_HEADER_SIZE : b \in Held(h)} |->
                 h.blk[p - HEAP_HEADER_SIZE].size]

LEMMA HeldAreasOf == HeldAreas = AreasOf(heap) /\ HeldAreas' = AreasOf(heap')
BY DEF HeldAreas, AreasOf, Held

LEMMA AreasOfBlocks ==
  ASSUME NEW h, HeapOK(h)
  PROVE  /\ DOMAIN AreasOf(h) = {b + HEAP_HEADER_SIZE : b \in Held(h)}
         /\ \A b \in Held(h) :
              /\ b \in Nat
              /\ AreasOf(h)[b + HEAP_HEADER_SIZE] = h.blk[b].size
<1> DEFINE P == {b + HEAP_HEADER_SIZE : b \in Held(h)}
<1>1. AreasOf(h) = [p \in P |-> h.blk[p - HEAP_HEADER_SIZE].size]
  BY DEF AreasOf
<1>2. ASSUME NEW b \in Held(h)
      PROVE  b \in Nat /\ AreasOf(h)[b + HEAP_HEADER_SIZE] = h.blk[b].size
  <2> DEFINE p == b + HEAP_HEADER_SIZE
  <2>1. b \in Nat /\ p - HEAP_HEADER_SIZE = b /\ p \in P
    BY <1>2, KheapConstants DEF HeapOK, HeapTypeOK, Held
  <2> HIDE DEF p, P
  <2>2. AreasOf(h)[p] = h.blk[p - HEAP_HEADER_SIZE].size
    BY <1>1, <2>1
  <2> QED BY <2>1, <2>2 DEF p
<1> QED BY <1>1, <1>2

(* Where the blocks in use stay, so do the areas.                          *)
LEMMA AreasStutter ==
  ASSUME NEW g, NEW h, HeapOK(g), HeapOK(h), Held(g) = Held(h),
         Keeps(g, h, Held(h))
  PROVE  AreasOf(g) = AreasOf(h)
<1>1. ASSUME NEW p \in {b + HEAP_HEADER_SIZE : b \in Held(h)}
      PROVE  g.blk[p - HEAP_HEADER_SIZE].size = h.blk[p - HEAP_HEADER_SIZE].size
  <2>1. PICK b \in Held(h) : p = b + HEAP_HEADER_SIZE
    BY <1>1
  <2>2. p - HEAP_HEADER_SIZE = b
    BY <2>1, KheapConstants DEF HeapOK, HeapTypeOK, Held
  <2> QED BY <2>2 DEF Keeps
<1> QED BY <1>1 DEF AreasOf

LEMMA AreasInit == Init => Abstract!Init
<1> SUFFICES ASSUME Init PROVE DOMAIN HeldAreas = {}
  BY DEF Abstract!Init
<1>1. Held(heap) = {}
  BY EmptyHeapOK DEF Init, Held
<1> QED BY <1>1 DEF HeldAreas, Held

(* kmalloc's last step is the abstract Malloc.                             *)
LEMMA ScanHitMallocs ==
  ASSUME HeapInv, HeapInv', ScanHit
  PROVE  Abstract!Malloc
<1> DEFINE b == call.cur
           p == b + HEAP_HEADER_SIZE
<1>1. /\ b \in Blocks(heap) /\ heap.blk[b].is_free
      /\ HeapOK(heap') /\ HeapOK(heap)
      /\ Held(heap') = Held(heap) \cup {b} /\ Keeps(heap', heap, Held(heap))
  BY ScanHitTakes DEF HeapInv
<1>2. b \notin Held(heap) /\ b \in Held(heap') /\ b \in Nat
      /\ HEAP_HEADER_SIZE \in Nat
  BY <1>1, KheapConstants DEF Held, HeapOK, HeapTypeOK
<1> DEFINE A == AreasOf(heap)
           B == AreasOf(heap')
<1>3. /\ DOMAIN A = {x + HEAP_HEADER_SIZE : x \in Held(heap)}
      /\ DOMAIN B = {x + HEAP_HEADER_SIZE : x \in Held(heap')}
      /\ \A x \in Held(heap) : x \in Nat
                               /\ A[x + HEAP_HEADER_SIZE] = heap.blk[x].size
      /\ \A x \in Held(heap') : x \in Nat
                                /\ B[x + HEAP_HEADER_SIZE] = heap'.blk[x].size
  BY <1>1, AreasOfBlocks
<1> HIDE DEF A, B
<1>4. p \in DOMAIN B \ DOMAIN A
  <2>1. p \in DOMAIN B
    BY <1>2, <1>3
  <2>2. ASSUME NEW x \in Held(heap) PROVE x + HEAP_HEADER_SIZE # p
    BY <2>2, <1>2, <1>3
  <2> QED BY <2>1, <2>2, <1>3
<1>5. DOMAIN B = DOMAIN A \cup {p}
  BY <1>1, <1>3
<1>6. ASSUME NEW q \in DOMAIN A
      PROVE  B[q] = A[q] /\ (p + B[p] <= q \/ q + A[q] <= p)
  <2>1. PICK x \in Held(heap) : q = x + HEAP_HEADER_SIZE
    BY <1>3, <1>6
  <2>2. x \in Held(heap') /\ heap'.blk[x].size = heap.blk[x].size
    BY <1>1 DEF Keeps
  <2>3. A[q] = heap'.blk[x].size /\ B[q] = heap'.blk[x].size
        /\ B[p] = heap'.blk[b].size
    BY <1>2, <1>3, <2>1, <2>2
  <2>4. x < b => EndOf(heap', x) <= b
    BY <1>1, <1>2, <2>2 DEF HeapOK, LayoutOK, BlocksDisjoint, Held
  <2>5. b < x => EndOf(heap', b) <= x
    BY <1>1, <1>2, <2>2 DEF HeapOK, LayoutOK, BlocksDisjoint, Held
  <2>6. /\ heap'.blk[x].size \in Nat /\ heap'.blk[b].size \in Nat
        /\ x \in Nat /\ x # b
    BY <1>1, <1>2, <2>1, <2>2, EndTypes DEF HeapOK, Held
  <2> QED BY <1>2, <2>1, <2>3, <2>4, <2>5, <2>6 DEF EndOf
<1> HIDE DEF p
<1>7. HeldAreas = A /\ HeldAreas' = B
  BY HeldAreasOf DEF A, B
<1> QED BY <1>4, <1>5, <1>6, <1>7 DEF Abstract!Malloc, Abstract!Apart

(* kfree of a block in use is the abstract Free; of any other it changes   *)
(* no area.                                                                *)
LEMMA KfreeFrees ==
  ASSUME HeapInv, NEW ptr \in FreeableAreas, Kfree(ptr)
  PROVE  Abstract!Free \/ UNCHANGED HeldAreas
<1>1. CASE UNCHANGED <<heap, live>>
  BY <1>1, HeldAreasOf
<1>2. ASSUME NEW b \in Held(heap), heap' = FreedHeap(heap, b)
      PROVE  Abstract!Free
  <2> DEFINE p == b + HEAP_HEADER_SIZE
             A == AreasOf(heap)
             B == AreasOf(heap')
  <2>1. /\ HeapOK(heap') /\ HeapOK(heap)
        /\ Held(heap') = Held(heap) \ {b} /\ Keeps(heap', heap, Held(heap'))
    BY <1>2, FreedOK DEF HeapInv
  <2>2. /\ DOMAIN A = {x + HEAP_HEADER_SIZE : x \in Held(heap)}
        /\ DOMAIN B = {x + HEAP_HEADER_SIZE : x \in Held(heap')}
        /\ \A x \in Held(heap) : x \in Nat
                                 /\ A[x + HEAP_HEADER_SIZE] = heap.blk[x].size
        /\ \A x \in Held(heap') : x \in Nat
                                  /\ B[x + HEAP_HEADER_SIZE] = heap'.blk[x].size
    BY <2>1, AreasOfBlocks
  <2> HIDE DEF A, B
  <2>3. p \in DOMAIN A
    BY <2>2
  <2>4. \A x \in Held(heap) : x # b => x + HEAP_HEADER_SIZE # p
    BY <2>2, KheapConstants
  <2> HIDE DEF p
  <2>5. DOMAIN B = DOMAIN A \ {p}
    BY <2>1, <2>2, <2>4 DEF p
  <2>6. ASSUME NEW q \in DOMAIN B PROVE B[q] = A[q]
    <3>1. PICK x \in Held(heap') : q = x + HEAP_HEADER_SIZE
      BY <2>2, <2>6
    <3>2. x \in Held(heap) /\ heap'.blk[x].size = heap.blk[x].size
      BY <2>1 DEF Keeps
    <3> QED BY <2>2, <3>1, <3>2
  <2>7. HeldAreas = A /\ HeldAreas' = B
    BY HeldAreasOf DEF A, B
  <2> QED BY <2>3, <2>5, <2>6, <2>7 DEF Abstract!Free
<1> QED BY <1>1, <1>2, KfreeCases

(* Every step is a step of the abstract allocator or changes no area.      *)
LEMMA AreasNext ==
  ASSUME HeapInv, HeapInv', [Next]_vars
  PROVE  [Abstract!Next]_HeldAreas
<1>1. CASE UNCHANGED heap
  BY <1>1, HeldAreasOf
<1>2. CASE KheapInit
  <2>1. UNCHANGED heap
    BY <1>2 DEF HeapInv, NothingBeforeInit, KheapInit
  <2> QED BY <2>1, <1>1
<1>3. ASSUME NEW ptr \in FreeableAreas, Kfree(ptr)
      PROVE  [Abstract!Next]_HeldAreas
  BY <1>3, KfreeFrees DEF Abstract!Next
<1>4. CASE ScanHit
  BY <1>4, ScanHitMallocs DEF Abstract!Next
<1>5. ASSUME NEW f \in Frames, GrowPage(f)
      PROVE  UNCHANGED HeldAreas
  <2>1. /\ HeapOK(heap') /\ HeapOK(heap)
        /\ Held(heap') = Held(heap) /\ Keeps(heap', heap, Held(heap))
    BY <1>5, GrowPageKeeps DEF HeapInv
  <2> QED BY <2>1, AreasStutter, HeldAreasOf
<1>6. CASE GrowDone
  <2>1. /\ HeapOK(heap') /\ HeapOK(heap)
        /\ Held(heap') = Held(heap) /\ Keeps(heap', heap, Held(heap))
    BY <1>6, GrowDoneKeeps DEF HeapInv
  <2> QED BY <2>1, AreasStutter, HeldAreasOf
<1>7. CASE ScanNext \/ ScanMiss \/ GrowFails
  BY <1>1, <1>7 DEF ScanNext, ScanMiss, GrowFails
<1>8. CASE \E size \in Sizes : Kmalloc(size)
  BY <1>1, <1>8 DEF Kmalloc
<1>9. CASE UNCHANGED heap_vars
  BY <1>1, <1>9 DEF heap_vars
<1> QED BY <1>2, <1>3, <1>4, <1>5, <1>6, <1>7, <1>8, <1>9
        DEF Next, Step, vars

(* The heap implements the abstract allocator: whatever kmalloc, kfree and *)
(* expand_heap do to headers and lists, a caller sees areas appear apart   *)
(* from all others, disappear when it frees them, and never move or shrink.*)
THEOREM KheapImplementsAllocator == Spec => ImplementsAllocator
<1>1. HeapInv /\ HeapInv' /\ [Next]_vars => [Abstract!Next]_HeldAreas
  BY AreasNext
<1> QED BY HeapInvariant, AreasInit, <1>1, PTL
        DEF Spec, ImplementsAllocator, Abstract!Spec

-----------------------------------------------------------------------------
(***************************************************************************)
(* No byte is lost between consecutive pages.  The invariant this needs:   *)
(* alloc_frame hands out frames in ascending order, no block begins below  *)
(* the first of them, the blocks tile the memory up to the end of the last *)
(* one, and every byte of them is in a block.                              *)
(***************************************************************************)
HandedBelowClear == \A f \in handed : \A g \in ClearFrames : f < g

TiledToLastFrame ==
  FramesConsecutive /\ Blocks(heap) # {} =>
    \E f \in handed : /\ \A g \in handed : g <= f
                      /\ Tiled(heap, FrameAddr(f + 1))

AboveSomeFrame ==
  \A x \in Blocks(heap) : \E f \in handed : FrameAddr(f) <= x

FramesCovered ==
  FramesConsecutive =>
    \A f \in handed : \A y \in FrameAddr(f) .. FrameAddr(f + 1) - 1 :
      Covers(heap, y)

GapInv ==
  HandedBelowClear /\ TiledToLastFrame /\ AboveSomeFrame /\ FramesCovered

LEMMA FrameAddrNat ==
  ASSUME NEW i \in Nat
  PROVE  FrameAddr(i) \in Nat /\ FrameAddr(i + 1) = FrameAddr(i) + PAGE_SIZE
<1>1. PAGE_SIZE \in Nat /\ PMM_RAM_BASE \in Nat
  BY PmmConstants
<1>2. i * PAGE_SIZE \in Nat /\ (i + 1) * PAGE_SIZE = i * PAGE_SIZE + PAGE_SIZE
  BY <1>1
<1> QED BY <1>1, <1>2 DEF FrameAddr

(* A step that takes no frame and opens no gap.                            *)
LEMMA GapInvKept ==
  ASSUME HeapInv, GapInv, UNCHANGED pmm_vars, HeapOK(heap'),
         Within(heap', heap)
  PROVE  GapInv'
<1>1. handed' = handed /\ ClearFrames' = ClearFrames /\ handed \subseteq Frames
  BY DEF pmm_vars, ClearFrames, HeapInv, PmmInv, PmmTypeOK
<1>2. HandedBelowClear'
  BY <1>1 DEF GapInv, HandedBelowClear
<1>3. ASSUME FramesConsecutive', Blocks(heap') # {}
      PROVE  \E f \in handed' : /\ \A g \in handed' : g <= f
                                /\ Tiled(heap', FrameAddr(f + 1))
  <2>1. FramesConsecutive /\ Blocks(heap) # {}
    BY <1>1, <1>3 DEF FramesConsecutive, Within
  <2>2. PICK f \in handed : /\ \A g \in handed : g <= f
                            /\ Tiled(heap, FrameAddr(f + 1))
    BY <2>1 DEF GapInv, TiledToLastFrame
  <2>3. FrameAddr(f + 1) \in Nat
    <3>1. f + 1 \in Nat
      BY <1>1, PmmConstants DEF Frames
    <3> QED BY <3>1, FrameAddrNat
  <2>4. Tiled(heap', FrameAddr(f + 1))
    BY <2>2, <2>3 DEF Within
  <2> QED BY <1>1, <2>2, <2>4
<1>4. ASSUME NEW x \in Blocks(heap')
      PROVE  \E f \in handed' : FrameAddr(f) <= x
  <2>1. PICK y \in Blocks(heap) : y <= x
    BY DEF Within
  <2>2. PICK f \in handed : FrameAddr(f) <= y
    BY DEF GapInv, AboveSomeFrame
  <2>3. x \in Nat /\ y \in Nat /\ FrameAddr(f) \in Nat
    BY <1>1, EndTypes, FrameAddrType DEF HeapInv, HeapOK
  <2>4. FrameAddr(f) <= x
    BY <2>1, <2>2, <2>3
  <2> QED BY <1>1, <2>4
<1>5. ASSUME FramesConsecutive', NEW f \in handed',
             NEW y \in FrameAddr(f) .. FrameAddr(f + 1) - 1
      PROVE  Covers(heap', y)
  <2>1. f \in handed /\ FramesConsecutive
    BY <1>1, <1>5 DEF FramesConsecutive
  <2>2. Covers(heap, y)
    BY <2>1 DEF GapInv, FramesCovered
  <2>3. PICK k \in handed : Tiled(heap, FrameAddr(k + 1))
    BY <2>1, <2>2 DEF GapInv, TiledToLastFrame, Covers
  <2>4. FrameAddr(k + 1) \in Nat /\ FrameAddr(f) \in Nat
        /\ FrameAddr(f + 1) \in Nat
    <3>1. k + 1 \in Nat /\ f \in Nat /\ f + 1 \in Nat
      BY <1>1, <2>1, PmmConstants DEF Frames
    <3> QED BY <3>1, FrameAddrNat
  <2>5. y \in Nat
    BY <2>4
  <2> QED BY <2>2, <2>3, <2>4, <2>5 DEF Within
<1> QED BY <1>2, <1>3, <1>4, <1>5
        DEF GapInv, TiledToLastFrame, AboveSomeFrame, FramesCovered

(* expand_heap links the page right behind the last block.                 *)
LEMMA GapInvGrowPage ==
  ASSUME HeapInv, GapInv, NEW f \in Frames, GrowPage(f)
  PROVE  GapInv'
<1> DEFINE b == FrameAddr(f)
<1>1. /\ f \in ClearFrames /\ \A g \in ClearFrames : f <= g
      /\ handed' = handed \cup {f} /\ ClearFrames' = ClearFrames \ {f}
      /\ handed \subseteq Frames /\ ClearFrames \subseteq Frames
  BY DEF GrowPage, AllocFrame, ClearFrames, HeapInv, PmmInv, PmmTypeOK
<1>2. \A g \in Frames : g \in Int
  BY DEF Frames
<1>3. \A g \in handed : g < f
  BY <1>1 DEF GapInv, HandedBelowClear
<1>4. HandedBelowClear'
  <2>1. ASSUME NEW g \in handed', NEW c \in ClearFrames' PROVE g < c
    <3>1. CASE g = f
      BY <2>1, <3>1, <1>1, <1>2
    <3>2. CASE g \in handed
      BY <2>1, <3>2, <1>1 DEF GapInv, HandedBelowClear
    <3> QED BY <3>1, <3>2, <1>1
  <2> QED BY <2>1 DEF HandedBelowClear
<1>5. \A g \in handed' : g <= f
  BY <1>1, <1>2, <1>3
<1>6. /\ b \in Nat \ {NULL} /\ HeapOK(heap')
      /\ Blocks(heap') = Blocks(heap) \cup {b}
      /\ EndOf(heap', b) = b + PAGE_SIZE
      /\ \A x \in Blocks(heap) : heap'.blk[x].size = heap.blk[x].size
  BY GrowPageKeeps
<1>7. FrameAddr(f + 1) = b + PAGE_SIZE
  BY FrameAddrNat DEF Frames
<1>8. ASSUME FramesConsecutive' PROVE FramesConsecutive
  <2>1. ASSUME NEW g \in handed, NEW k \in handed, NEW x \in Frames,
               g < x, x < k
        PROVE  x \in handed
    <3>1. x \in handed'
      BY <2>1, <1>1, <1>8 DEF FramesConsecutive
    <3>2. x # f
      BY <2>1, <1>1, <1>2, <1>3
    <3> QED BY <3>1, <3>2, <1>1
  <2> QED BY <2>1 DEF FramesConsecutive
<1>9. ASSUME FramesConsecutive', Blocks(heap) # {}
      PROVE  Tiled(heap, b)
  <2>1. FramesConsecutive
    BY <1>9, <1>8
  <2>2. PICK k \in handed : /\ \A g \in handed : g <= k
                            /\ Tiled(heap, FrameAddr(k + 1))
    BY <2>1, <1>9 DEF GapInv, TiledToLastFrame
  <2>3. f = k + 1
    <3>1. k \in Int /\ f \in Int /\ k < f /\ k \in Frames
      BY <1>1, <1>2, <1>3
    <3>2. CASE k + 1 < f
      <4>1. k + 1 \in Frames
        BY <3>1, <3>2, PmmConstants DEF Frames
      <4>2. k + 1 \in handed'
        BY <3>1, <3>2, <4>1, <1>1, <1>9 DEF FramesConsecutive
      <4>3. k + 1 \in handed
        BY <3>1, <3>2, <4>2, <1>1
      <4>4. k + 1 <= k
        BY <4>3, <2>2
      <4> QED BY <3>1, <4>4
    <3> QED BY <3>1, <3>2
  <2> QED BY <2>2, <2>3
<1>10. ASSUME FramesConsecutive' PROVE Tiled(heap', FrameAddr(f + 1))
  <2>1. ASSUME NEW x \in Blocks(heap')
        PROVE  x < b + PAGE_SIZE
               /\ EndOf(heap', x) \in Blocks(heap') \cup {b + PAGE_SIZE}
    <3>1. PAGE_SIZE \in Nat /\ PAGE_SIZE > 0
      BY PmmConstants
    <3>2. CASE x = b
      BY <3>1, <3>2, <1>6
    <3>3. CASE x # b
      <4>1. x \in Blocks(heap) /\ Tiled(heap, b)
        BY <2>1, <3>3, <1>6, <1>9, <1>10
      <4>2. x < b /\ EndOf(heap, x) \in Blocks(heap) \cup {b} /\ x \in Nat
        BY <4>1, EndTypes DEF Tiled, HeapInv, HeapOK
      <4>3. EndOf(heap', x) = EndOf(heap, x)
        BY <4>1, <1>6 DEF EndOf
      <4>4. x < b + PAGE_SIZE
        BY <4>2, <3>1, <1>6
      <4> QED BY <4>2, <4>3, <4>4, <1>6
    <3> QED BY <3>2, <3>3
  <2> QED BY <2>1, <1>7 DEF Tiled
<1>11. f \in handed'
  BY <1>1
<1>12. AboveSomeFrame'
  <2>1. ASSUME NEW x \in Blocks(heap')
        PROVE  \E g \in handed' : FrameAddr(g) <= x
    <3>1. CASE x = b
      <4>1. FrameAddr(f) <= x
        BY <3>1, <1>6
      <4> QED BY <4>1, <1>11
    <3>2. CASE x # b
      BY <2>1, <3>2, <1>1, <1>6 DEF GapInv, AboveSomeFrame
    <3> QED BY <3>1, <3>2
  <2> QED BY <2>1 DEF AboveSomeFrame
<1>13. ASSUME FramesConsecutive', NEW g \in handed',
              NEW y \in FrameAddr(g) .. FrameAddr(g + 1) - 1
       PROVE  Covers(heap', y)
  <2>1. CASE g = f
    <3>1. b \in Blocks(heap') /\ b <= y /\ y < EndOf(heap', b)
      BY <2>1, <1>6, <1>7, PmmConstants
    <3> QED BY <3>1 DEF Covers
  <2>2. CASE g # f
    <3>1. g \in handed /\ FramesConsecutive
      BY <2>2, <1>1, <1>8, <1>13
    <3>2. Covers(heap, y)
      BY <3>1 DEF GapInv, FramesCovered
    <3>3. \A x \in Blocks(heap) : x \in Blocks(heap')
                                 /\ EndOf(heap', x) = EndOf(heap, x)
      BY <1>6 DEF EndOf
    <3> QED BY <3>2, <3>3 DEF Covers
  <2> QED BY <2>1, <2>2
<1> QED BY <1>4, <1>5, <1>10, <1>11, <1>12, <1>13
        DEF GapInv, TiledToLastFrame, FramesCovered

LEMMA GapInvNext ==
  ASSUME HeapInv, GapInv, [Next]_vars
  PROVE  GapInv'
<1>1. Within(heap, heap) /\ HeapOK(heap)
  BY WithinSame DEF HeapInv, HeapOK
<1>2. ASSUME UNCHANGED <<heap, pmm_vars>> PROVE GapInv'
  BY <1>1, <1>2, GapInvKept
<1>3. ASSUME NEW p \in BootParams, FrameAllocInit(p), UNCHANGED heap_vars
      PROVE  GapInv'
  <2>1. handed' = {} /\ Blocks(heap') = {}
    BY <1>3, EmptyHeapOK
    DEF FrameAllocInit, HeapInv, NothingBeforeInit, heap_vars, PmmInv,
        NothingBefore
  <2> QED BY <2>1 DEF GapInv, HandedBelowClear, TiledToLastFrame,
                      AboveSomeFrame, FramesCovered
<1>4. CASE KheapInit
  <2>1. UNCHANGED <<heap, pmm_vars>>
    BY <1>4 DEF HeapInv, NothingBeforeInit, KheapInit
  <2> QED BY <2>1, <1>2
<1>5. ASSUME NEW ptr \in FreeableAreas, Kfree(ptr) PROVE GapInv'
  <2>1. UNCHANGED pmm_vars
    BY <1>5, KfreeCases
  <2>2. Within(heap', heap) /\ HeapOK(heap')
    BY <1>1, <1>5, KfreeCases, FreedOK DEF HeapInv
  <2> QED BY <2>1, <2>2, GapInvKept
<1>6. CASE ScanHit
  <2>1. Within(heap', heap) /\ HeapOK(heap')
    BY <1>6, ScanHitTakes
  <2> QED BY <1>6, <2>1, GapInvKept DEF ScanHit
<1>7. ASSUME NEW f \in Frames, GrowPage(f) PROVE GapInv'
  BY <1>7, GapInvGrowPage
<1>8. CASE GrowDone
  <2>1. Within(heap', heap) /\ HeapOK(heap')
    BY <1>8, GrowDoneKeeps
  <2> QED BY <1>8, <2>1, GapInvKept DEF GrowDone
<1>9. CASE ScanNext \/ ScanMiss \/ GrowFails
  BY <1>2, <1>9 DEF ScanNext, ScanMiss, GrowFails
<1>10. CASE \E size \in Sizes : Kmalloc(size)
  BY <1>2, <1>10 DEF Kmalloc
<1>11. CASE UNCHANGED vars
  BY <1>2, <1>11 DEF vars, heap_vars
<1> QED BY <1>3, <1>4, <1>5, <1>6, <1>7, <1>8, <1>9, <1>10, <1>11
        DEF Next, Step

LEMMA GapInvariant == Spec => []GapInv
<1>1. Init => GapInv
  BY EmptyHeapOK
  DEF Init, PmmInit, GapInv, HandedBelowClear, TiledToLastFrame, AboveSomeFrame,
      FramesCovered
<1>2. HeapInv /\ GapInv /\ [Next]_vars => GapInv'
  BY GapInvNext
<1> QED BY <1>1, <1>2, HeapInvariant, PTL DEF Spec

(* Splits in kmalloc, merges in coalesce and pages in expand_heap lose no  *)
(* byte between two blocks, and expansions that fail half-way none of the  *)
(* frames they got, as long as alloc_frame has handed out consecutive      *)
(* frames, whatever the sizes and the order of the calls.                  *)
THEOREM HeapHasNoGaps == Spec => []NoGaps
<1>1. ASSUME HeapInv, GapInv, FramesConsecutive, NEW b \in Blocks(heap),
             NEW n, n = heap.blk[b].next, n # NULL
      PROVE  EndOf(heap, b) = n
  <2>1. InOrderAt(heap, b)
    BY <1>1 DEF HeapInv, HeapOK, LayoutOK, ListInOrder, InOrderAt
  <2>2. n \in Blocks(heap) /\ b < n /\ \A x \in Blocks(heap) : x <= b \/ n <= x
    BY <1>1, <2>1 DEF InOrderAt
  <2>3. EndOf(heap, b) <= n
    BY <2>2, <1>1 DEF HeapInv, HeapOK, LayoutOK, BlocksDisjoint
  <2>4. PICK f \in handed : Tiled(heap, FrameAddr(f + 1))
    BY <1>1 DEF GapInv, TiledToLastFrame
  <2>5. n < FrameAddr(f + 1)
        /\ EndOf(heap, b) \in Blocks(heap) \cup {FrameAddr(f + 1)}
    BY <2>2, <2>4 DEF Tiled
  <2>6. b \in Nat /\ n \in Nat /\ EndOf(heap, b) \in Nat
        /\ EndOf(heap, b) > b
    BY <2>2, <1>1, EndTypes, KheapConstants DEF HeapInv, HeapOK, EndOf
  <2> QED BY <2>2, <2>3, <2>5, <2>6
<1>2. GapInv /\ FramesConsecutive =>
        \A f \in handed : \A y \in FrameAddr(f) .. FrameAddr(f + 1) - 1 :
          \E b \in Blocks(heap) : b <= y /\ y < EndOf(heap, b)
  BY DEF GapInv, FramesCovered, Covers
<1>3. HeapInv /\ GapInv => NoGaps
  BY <1>1, <1>2 DEF NoGaps
<1> QED BY <1>3, HeapInvariant, GapInvariant, PTL

(* The bytes of a block lie in frames the heap was given.                  *)
LEMMA BlockInHeapFrames ==
  ASSUME HeapInv, GapInv, FramesConsecutive, NEW b \in Blocks(heap),
         NEW e \in Nat, e <= EndOf(heap, b)
  PROVE  InHeapFrames(b, e)
<1>1. PICK m \in handed : FrameAddr(m) <= b
  BY DEF GapInv, AboveSomeFrame
<1>2. PICK n \in handed : /\ \A g \in handed : g <= n
                          /\ Tiled(heap, FrameAddr(n + 1))
  BY DEF GapInv, TiledToLastFrame
<1>3. handed \subseteq Frames /\ \A f \in Frames : f \in Nat
  BY DEF HeapInv, PmmInv, PmmTypeOK, Frames
<1>4. /\ \A x \in Blocks(heap) : x \in Nat /\ EndOf(heap, x) \in Nat
      /\ b \in Nat /\ EndOf(heap, b) \in Nat
  BY EndTypes DEF HeapInv, HeapOK
<1>5. \A i, j \in Nat : i <= j => /\ FrameAddr(i) \in Nat /\ FrameAddr(j) \in Nat
                                  /\ FrameAddr(i) <= FrameAddr(j)
  <2> SUFFICES ASSUME NEW i \in Nat, NEW j \in Nat, i <= j
               PROVE  /\ FrameAddr(i) \in Nat /\ FrameAddr(j) \in Nat
                      /\ FrameAddr(i) <= FrameAddr(j)
    OBVIOUS
  <2>1. PAGE_SIZE \in Nat /\ PMM_RAM_BASE \in Nat
    BY PmmConstants
  <2>2. i * PAGE_SIZE \in Nat /\ j * PAGE_SIZE \in Nat
    BY <2>1
  <2>3. i * PAGE_SIZE <= j * PAGE_SIZE
    BY <2>1, MulMono
  <2> QED BY <2>1, <2>2, <2>3 DEF FrameAddr
<1>6. e <= FrameAddr(n + 1)
  <2>1. /\ EndOf(heap, b) \in Blocks(heap) \cup {FrameAddr(n + 1)}
        /\ \A x \in Blocks(heap) : x < FrameAddr(n + 1)
    BY <1>2 DEF Tiled
  <2>2. n + 1 \in Nat
    BY <1>3
  <2>3. FrameAddr(n + 1) \in Nat
    BY <2>2, <1>5
  <2> QED BY <2>1, <2>3, <1>4
<1>7. ASSUME NEW f \in Frames \ handed
      PROVE  FrameAddr(f + 1) <= b \/ e <= FrameAddr(f)
  <2>1. f < m \/ n < f
    <3>1. f # m /\ f # n /\ ~(m < f /\ f < n)
      BY <1>1, <1>2, <1>7 DEF FramesConsecutive
    <3> QED BY <3>1, <1>3
  <2>2. f \in Nat /\ m \in Nat /\ n \in Nat
    BY <1>3
  <2>3. CASE f < m
    <3>1. FrameAddr(f + 1) <= FrameAddr(m) /\ FrameAddr(m) \in Nat
          /\ FrameAddr(f + 1) \in Nat
      BY <2>2, <2>3, <1>5
    <3> QED BY <3>1, <1>1, <1>4
  <2>4. CASE n < f
    <3>1. FrameAddr(n + 1) <= FrameAddr(f) /\ FrameAddr(f) \in Nat
          /\ FrameAddr(n + 1) \in Nat
      BY <2>2, <2>4, <1>5
    <3> QED BY <3>1, <1>6
  <2> QED BY <2>1, <2>3, <2>4
<1> QED BY <1>7 DEF InHeapFrames

LEMMA ScanHitInFrames ==
  ASSUME HeapInv, GapInv, FramesConsecutive, ScanHit
  PROVE  pc' = "idle"
<1> DEFINE b == call.cur
           w == WrittenEnd(heap, b, call.size)
<1>1. b \in Blocks(heap)
  BY ScanHitTakes
<1>2. /\ call.size \in Nat /\ HEAP_HEADER_SIZE \in Nat
      /\ b \in Nat /\ heap.blk[b].size \in Nat /\ EndOf(heap, b) \in Nat
  BY <1>1, KheapConstants, EndTypes DEF HeapInv, HeapOK, CallOK, CallType
<1>3. w \in Nat /\ w <= EndOf(heap, b)
  <2>1. CASE CanSplit(heap, b, call.size)
    BY <1>2, <2>1 DEF WrittenEnd, CanSplit, EndOf, HEAP_MIN_BLOCK_SIZE
  <2>2. CASE ~CanSplit(heap, b, call.size)
    BY <1>2, <2>2 DEF WrittenEnd
  <2> QED BY <2>1, <2>2
<1> HIDE DEF w
<1>4. InHeapFrames(b, w)
  BY <1>1, <1>3, BlockInHeapFrames
<1> QED BY <1>4 DEF ScanHit, w

(* kmalloc writes the split-off header and zeroes the data area in frames  *)
(* of the heap only, as long as alloc_frame has handed out consecutive     *)
(* frames: what breaks KernelIntact is the gap between frames alone.       *)
THEOREM KernelIntactWhileConsecutive ==
  Spec => [](FramesConsecutive => KernelIntact)
<1> DEFINE Intact == FramesConsecutive => KernelIntact
<1>1. Init => Intact
  BY DEF Init, KernelIntact
<1>2. ASSUME HeapInv, GapInv, Intact, [Next]_vars PROVE Intact'
  <2>1. CASE ScanHit
    <3>1. FramesConsecutive => pc' = "idle"
      BY <1>2, <2>1, ScanHitInFrames
    <3>2. FramesConsecutive' <=> FramesConsecutive
      BY <2>1 DEF ScanHit, FramesConsecutive, pmm_vars
    <3> QED BY <3>1, <3>2 DEF KernelIntact
  <2>2. CASE \E f \in Frames : GrowPage(f)
    BY <2>2 DEF GrowPage, KernelIntact
  <2>3. CASE KheapInit \/ (\E size \in Sizes : Kmalloc(size))
             \/ (\E ptr \in FreeableAreas : Kfree(ptr))
    BY <2>3 DEF KheapInit, Kmalloc, Kfree, KernelIntact
  <2>4. CASE ScanNext \/ ScanMiss \/ GrowFails \/ GrowDone
    BY <2>4 DEF ScanNext, ScanMiss, GrowFails, GrowDone, KernelIntact
  <2>5. CASE UNCHANGED vars
    BY <1>2, <2>5
    DEF vars, heap_vars, pmm_vars, KernelIntact, FramesConsecutive
  <2>6. CASE (\E p \in BootParams : FrameAllocInit(p)) /\ UNCHANGED heap_vars
    BY <1>2, <2>6 DEF FrameAllocInit, heap_vars, KernelIntact, FramesConsecutive
  <2> QED BY <1>2, <2>1, <2>2, <2>3, <2>4, <2>5, <2>6 DEF Next, Step
<1> QED BY <1>1, <1>2, HeapInvariant, GapInvariant, PTL DEF Spec

-----------------------------------------------------------------------------
(* The heap is a well-behaved client of the frame allocator: every step of *)
(* it is a step of frame_alloc.c or leaves its state alone, so that all    *)
(* that holds of the frame allocator holds beneath the heap.               *)
THEOREM KheapRunsOnPmm == Spec => PmmSpec
<1>1. Init => PmmInit
  BY DEF Init
<1>2. ASSUME [Next]_vars PROVE [PmmNext]_pmm_vars
  <2>1. CASE (\E p \in BootParams : FrameAllocInit(p)) /\ UNCHANGED heap_vars
    BY <2>1 DEF PmmNext
  <2>2. CASE KheapInit \/ (\E size \in Sizes : Kmalloc(size))
             \/ (\E ptr \in FreeableAreas : Kfree(ptr))
    BY <2>2 DEF KheapInit, Kmalloc, Kfree
  <2>3. CASE \E f \in Frames : GrowPage(f)
    BY <2>3 DEF GrowPage, PmmNext
  <2>4. CASE ScanNext \/ ScanHit \/ ScanMiss \/ GrowFails \/ GrowDone
    BY <2>4 DEF ScanNext, ScanHit, ScanMiss, GrowFails, GrowDone
  <2>5. CASE UNCHANGED vars
    BY <2>5 DEF vars
  <2> QED BY <1>2, <2>1, <2>2, <2>3, <2>4, <2>5 DEF Next, Step
<1> QED BY <1>1, <1>2, PTL DEF Spec, PmmSpec
=============================================================================
