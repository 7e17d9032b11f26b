----------------------------- MODULE MCKMalloc -----------------------------
(***************************************************************************)
(* Model checking of KMalloc, and the list walk of __find_free_block as the *)
(* source writes it.                                                        *)
(***************************************************************************)
EXTENDS KMalloc

LOCAL INSTANCE FiniteSetsExt

CONSTANT MaxLost  \* bound: bytes of absorbed headers, which grow without end

(* The bytes of the heap that no block on the list accounts for.            *)
Lost == heap.size - MapThenSumSet(LAMBDA a : EndOf(a) - a, Blocks)

FewLost == Lost <= MaxLost

RECURSIVE Walk(_, _, _)
Walk(h, current, len) ==
  IF current = NULL \/ (h.hdr[current].free /\ h.hdr[current].size >= len)
  THEN current
  ELSE Walk(h, h.hdr[current].next, len)

(* From every reachable heap the walk along next_block finds the block that *)
(* KMalloc's definition of first fit names, and NULL exactly when that      *)
(* finds none.                                                              *)
WalkAgrees ==
  Ready =>
    \A len \in Lengths :
      LET r == Round16(len)
      IN find_free_block(heap, r) = {Walk(heap, heap.first, r)} \ {NULL}

=============================================================================
