--------------------------- MODULE AreaAllocator ---------------------------
(***************************************************************************)
(* What a heap promises, whatever its lists look like: callers hold areas  *)
(* of memory; an allocation adds one area that overlaps no other, a free   *)
(* takes one away, and nothing else ever moves, resizes or ends an area.   *)
(***************************************************************************)
EXTENDS Integers

VARIABLE areas   \* the length of each held area, by its first address

Init == DOMAIN areas = {}

Apart(p, n, q, m) == p + n <= q \/ q + m <= p

Malloc ==
  \E p \in DOMAIN areas' \ DOMAIN areas :
    /\ DOMAIN areas' = DOMAIN areas \cup {p}
    /\ \A q \in DOMAIN areas : /\ areas'[q] = areas[q]
                               /\ Apart(p, areas'[p], q, areas[q])

Free ==
  \E p \in DOMAIN areas :
    /\ DOMAIN areas' = DOMAIN areas \ {p}
    /\ \A q \in DOMAIN areas' : areas'[q] = areas[q]

Next == Malloc \/ Free

Spec == Init /\ [][Next]_areas
=============================================================================
