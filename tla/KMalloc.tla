------------------------------ MODULE KMalloc ------------------------------
(***************************************************************************)
(* The kernel heap allocator, kernel/mm/kmalloc.c.                          *)
(*                                                                          *)
(* The heap is a run of addresses that starts at HeapStart and grows        *)
(* upward.  It is cut into blocks, each a 20 byte header (struct _malloc_h) *)
(* followed by its data; the headers form a doubly linked list.  hdr maps   *)
(* the address of every header on the list to its fields.  A header that a  *)
(* merge takes off the list leaves the domain of hdr: its bytes stay in     *)
(* memory but nothing the allocator keeps points at them.                   *)
(*                                                                          *)
(* Operators that model C functions take the allocator's globals as a       *)
(* record h and return the new ones, so that krealloc can compose kmalloc   *)
(* and kfree.  live is the callers' view: what they asked for and have not  *)
(* freed.                                                                   *)
(***************************************************************************)
EXTENDS Integers, FiniteSets

CONSTANTS
  HeapStart,  \* _heap_start
  MinHeap,    \* _min_heap_size, the second argument of init_kmalloc
  Word,       \* 2^32, the range of size_t
  SelfTest,   \* 11000, the allocation init_kmalloc makes and frees
  Lengths,    \* the sizes callers ask for
  Counts,     \* the element counts callers of kcalloc ask for
  MaxHeap,    \* bound: the bytes of address space the heap may come to use
  MaxLive     \* bound: allocations alive at once

(* The heap starts on a page (0xd0000000) and fits below the end of the     *)
(* address space; lengths are values of size_t.                             *)
ASSUME HeapAssumption ==
  /\ HeapStart \in Nat \ {0} /\ MinHeap \in Nat /\ MaxHeap \in Nat /\ Word \in Nat
  /\ MaxLive \in Nat /\ Counts \subseteq Nat
  /\ HeapStart + MaxHeap < Word
  /\ Lengths \subseteq 0 .. (Word - 1) /\ SelfTest \in 0 .. (Word - 1)

VARIABLES
  heap,   \* _first_blk, _heap_size and the headers on the list
  live    \* callers' pointers, each with the length that was asked for

vars == <<heap, live>>

NULL  == 0
HDR   == 20          \* sizeof(struct _malloc_h) on the 32-bit target
SPLIT == 256         \* a block is split when at least this much is saved

(* Sums and differences of two words. *)
Wrap(x) == IF x >= Word THEN x - Word ELSE IF x < 0 THEN x + Word ELSE x

(* (length + 0xf) & ~0xf  and  (nbytes + 0x1000) & ~0xfff *)
Round16(len)   == (Wrap(len + 15) \div 16) * 16
RoundPage(len) == (Wrap(len + 4096) \div 4096) * 4096

Header == [free : BOOLEAN, next : Nat, prev : Nat, size : Nat]

(***************************************************************************)
(* Updates of the header table: a field of one header, a header removed.    *)
(***************************************************************************)
SetNext(f, a, b) == IF a = NULL THEN f ELSE [f EXCEPT ![a] = [@ EXCEPT !.next = b]]
SetPrev(f, a, b) == IF a = NULL THEN f ELSE [f EXCEPT ![a] = [@ EXCEPT !.prev = b]]
Insert(f, a, e)  == [x \in DOMAIN f \cup {a} |-> IF x = a THEN e ELSE f[x]]
Remove(f, a)     == [x \in DOMAIN f \ {a} |-> f[x]]

-----------------------------------------------------------------------------
(* kmalloc *)

(* __find_free_block walks the list from _first_blk and stops at the first  *)
(* free block that is large enough.  The list is in address order           *)
(* (ListInOrder), so that is the lowest such block; MCKMalloc compares this *)
(* definition with the walk.                                                *)
Fits(h, len) == {b \in DOMAIN h.hdr : h.hdr[b].free /\ h.hdr[b].size >= len}

(* Fault: the walk does not stop at the first fit.                          *)
find_last_block(h, len) == {b \in Fits(h, len) : \A c \in Fits(h, len) : c <= b}

find_free_block(h, len) == {b \in Fits(h, len) : \A c \in Fits(h, len) : b <= c}

(* *last when the walk finds nothing: the end of the list.                  *)
LastBlock(h) == {b \in DOMAIN h.hdr : h.hdr[b].next = NULL}

(* __new_blockspace: bytes asked of mmap, whose status is not looked at.    *)
GrowBytes(size) == RoundPage(Wrap(size + HDR))

(* Fault: _heap_size is not advanced.                                       *)
new_blockspaceStuck(h, last, size) ==
  LET block == HeapStart + h.size
      entry == [free |-> TRUE, next |-> NULL, prev |-> last,
                size |-> Wrap(GrowBytes(size) - HDR)]
  IN [h EXCEPT !.hdr  = Insert(SetNext(h.hdr, last, block), block, entry)]

new_blockspace(h, last, size) ==
  LET block == HeapStart + h.size
      entry == [free |-> TRUE, next |-> NULL, prev |-> last,
                size |-> Wrap(GrowBytes(size) - HDR)]
  IN [h EXCEPT !.size = @ + GrowBytes(size),
               !.hdr  = Insert(SetNext(h.hdr, last, block), block, entry)]

(* Fault: a block is split however little is saved.                         *)
SplitsTight(h, b, len) == h.hdr[b].size > Wrap(len + HDR)

(* Is there room to cut a block of len bytes off block b?                   *)
Splits(h, b, len) == h.hdr[b].size > Wrap(SPLIT + Wrap(len + HDR))

(* Faults: the remainder's own header is not counted, and the block after   *)
(* the remainder keeps its old prev_block.                                  *)
SplitNoHeader(h, b, len) ==
  LET squeeze == Wrap(Wrap(b + HDR) + len)
      rest    == [free |-> TRUE, next |-> h.hdr[b].next, prev |-> b,
                  size |-> Wrap(h.hdr[b].size - len)]
      relink  == SetPrev(h.hdr, h.hdr[b].next, squeeze)
      cut     == [relink EXCEPT ![b] = [@ EXCEPT !.next = squeeze, !.size = len]]
  IN [h EXCEPT !.hdr = Insert(cut, squeeze, rest)]

SplitOneWay(h, b, len) ==
  LET squeeze == Wrap(Wrap(b + HDR) + len)
      rest    == [free |-> TRUE, next |-> h.hdr[b].next, prev |-> b,
                  size |-> Wrap(Wrap(h.hdr[b].size - HDR) - len)]
      cut     == [h.hdr EXCEPT ![b] = [@ EXCEPT !.next = squeeze, !.size = len]]
  IN [h EXCEPT !.hdr = Insert(cut, squeeze, rest)]

(* Cut b after len bytes: `squeeze' heads the remainder.                    *)
Split(h, b, len) ==
  LET squeeze == Wrap(Wrap(b + HDR) + len)
      rest    == [free |-> TRUE, next |-> h.hdr[b].next, prev |-> b,
                  size |-> Wrap(Wrap(h.hdr[b].size - HDR) - len)]
      relink  == SetPrev(h.hdr, h.hdr[b].next, squeeze)
      cut     == [relink EXCEPT ![b] = [@ EXCEPT !.next = squeeze, !.size = len]]
  IN [h EXCEPT !.hdr = Insert(cut, squeeze, rest)]

(* Fault: the block is handed out without being marked in use.              *)
TakeUnmarked(h, b) == h

Take(h, b) == [h EXCEPT !.hdr = [h.hdr EXCEPT ![b] = [@ EXCEPT !.free = FALSE]]]

(* kmalloc once there is a first block; len is already rounded.             *)
kmalloc_block(h, len) ==
  IF Fits(h, len) # {}
  THEN {[ptr |-> b + HDR, heap |-> Take(IF Splits(h, b, len) THEN Split(h, b, len) ELSE h, b)]
          : b \in find_free_block(h, len)}
  ELSE {[ptr |-> HeapStart + h.size + HDR,
         heap |-> Take(new_blockspace(h, last, len), HeapStart + h.size)]
          : last \in LastBlock(h)}

(* Fault: _first_blk is not set.                                            *)
FirstBlockUnset(h, len) == new_blockspace(h, NULL, IF len > MinHeap THEN len ELSE MinHeap)

(* The very first call asks for the larger of the request and MinHeap, then *)
(* calls itself, which splits that block.                                   *)
FirstBlock(h, len) ==
  [new_blockspace(h, NULL, IF len > MinHeap THEN len ELSE MinHeap)
     EXCEPT !.first = HeapStart + h.size]

kmalloc(h, length) ==
  LET len == Round16(length)
  IN kmalloc_block(IF h.first = NULL THEN FirstBlock(h, len) ELSE h, len)

-----------------------------------------------------------------------------
(* kfree *)

IsFreeBlock(f, a) == a # NULL /\ f[a].free

(* Absorb the free block after b.  The merged size is the sum of the two    *)
(* data sizes: the absorbed header's own bytes are not added.               *)
MergeNext(f, b) ==
  LET next == f[b].next
  IN IF ~IsFreeBlock(f, next) THEN f
     ELSE Remove([f EXCEPT ![b] = [@ EXCEPT !.next = f[next].next,
                                            !.size = f[b].size + f[next].size]], next)

(* Absorb b into the free block before it.                                  *)
MergePrev(f, b) ==
  LET prev == f[b].prev
  IN IF ~IsFreeBlock(f, prev) THEN f
     ELSE Remove([f EXCEPT ![prev] = [@ EXCEPT !.next = f[b].next,
                                               !.size = f[prev].size + f[b].size]], b)

kfree(h, ptr) ==
  LET block  == ptr - HDR
      f1     == MergeNext(h.hdr, block)
      f2     == MergePrev(f1, block)
      merged == IF IsFreeBlock(f1, f1[block].prev) THEN f1[block].prev ELSE block
      f3     == SetNext(SetPrev(f2, f2[merged].next, merged), f2[merged].prev, merged)
  IN [h EXCEPT !.hdr = [f3 EXCEPT ![merged] = [@ EXCEPT !.free = TRUE]]]

-----------------------------------------------------------------------------
(* The allocator and its callers.  A caller frees and reallocates only      *)
(* pointers it was given and has not freed; NULL is handled by kfree and    *)
(* krealloc without touching the heap.                                      *)

(* The globals as the first lines of init_kmalloc leave them.               *)
Init ==
  /\ heap = [first |-> NULL, size |-> 0, hdr |-> [a \in {} |-> NULL]]
  /\ live = [p \in {} |-> 0]

Ready == heap.first # NULL

Extend(p, len) == [q \in DOMAIN live \cup {p} |-> IF q = p THEN len ELSE live[q]]
Forget(p)      == [q \in DOMAIN live \ {p} |-> live[q]]

(* Bounds: the heap may not outgrow MaxHeap, and at most MaxLive            *)
(* allocations are alive at once.                                           *)
HeapBound(h) == h.size <= MaxHeap
MayAllocate  == Cardinality(DOMAIN live) < MaxLive

(* The rest of init_kmalloc: a = kmalloc(11000); kfree(a).                  *)
InitKmalloc ==
  /\ ~Ready
  /\ \E r \in kmalloc(heap, SelfTest) :
       /\ HeapBound(r.heap)
       /\ heap' = kfree(r.heap, r.ptr)
  /\ UNCHANGED live

(* kmalloc(length) *)
Malloc(length) ==
  /\ Ready /\ MayAllocate
  /\ \E r \in kmalloc(heap, length) :
       /\ HeapBound(r.heap)
       /\ heap' = r.heap
       /\ live' = Extend(r.ptr, length)

(* kcalloc(nmemb, size): the product is computed in size_t, then kmalloc.   *)
(* The caller counts on nmemb * size bytes.                                 *)
Calloc(nmemb, size) ==
  /\ Ready /\ MayAllocate
  /\ \E r \in kmalloc(heap, (nmemb * size) % Word) :
       /\ HeapBound(r.heap)
       /\ heap' = r.heap
       /\ live' = Extend(r.ptr, nmemb * size)

(* kfree(p) *)
Free(p) ==
  /\ heap' = kfree(heap, p)
  /\ live' = Forget(p)

(* krealloc(p, size) when the block is already large enough.                *)
ReallocInPlace(p, size) ==
  /\ heap.hdr[p - HDR].size >= size
  /\ live' = [live EXCEPT ![p] = size]
  /\ UNCHANGED heap

(* krealloc(p, size) when it is not: allocate, copy, free the old block.    *)
ReallocMove(p, size) ==
  /\ heap.hdr[p - HDR].size < size
  /\ \E r \in kmalloc(heap, size) :
       /\ HeapBound(r.heap)
       /\ heap' = kfree(r.heap, p)
       /\ live' = [q \in (DOMAIN live \cup {r.ptr}) \ {p} |-> IF q = r.ptr THEN size ELSE live[q]]

Next ==
  \/ InitKmalloc
  \/ \E len \in Lengths : Malloc(len)
  \/ \E n \in Counts, len \in Lengths : Calloc(n, len)
  \/ \E p \in DOMAIN live : Free(p)
  \/ \E p \in DOMAIN live, size \in Lengths : ReallocInPlace(p, size)
  \/ \E p \in DOMAIN live, size \in Lengths : ReallocMove(p, size)

Spec == Init /\ [][Next]_vars

-----------------------------------------------------------------------------
(* Properties *)

Blocks  == DOMAIN heap.hdr
HeapEnd == HeapStart + heap.size
EndOf(a)  == a + HDR + heap.hdr[a].size
InUse(a)  == ~heap.hdr[a].free

(* The list head, the list's headers and the callers' pointers have their   *)
(* types; the list is empty exactly before the first kmalloc, and it starts *)
(* at the bottom of the heap afterwards.                                    *)
TypeOK ==
  /\ heap.size \in 0 .. MaxHeap
  /\ heap.hdr \in [Blocks -> Header]
  /\ Blocks \subseteq HeapStart .. HeapEnd
  /\ heap.first = IF Blocks = {} THEN NULL ELSE HeapStart
  /\ Blocks = {} \/ HeapStart \in Blocks
  /\ live \in [DOMAIN live -> Nat]

(* No two blocks, header and data together, share a byte, and none reaches  *)
(* past the memory the heap has asked for.                                  *)
BlocksDisjoint ==
  \A a \in Blocks :
    /\ EndOf(a) <= HeapEnd
    /\ \A c \in Blocks : a < c => EndOf(a) <= c

(* Bytes between the end of a block and the next header are whole headers   *)
(* that merges have absorbed.                                               *)
GapsAreHeaders ==
  \A a \in Blocks :
    LET above == IF heap.hdr[a].next = NULL THEN HeapEnd ELSE heap.hdr[a].next
    IN (above - EndOf(a)) % HDR = 0

(* Through every split, merge and growth the blocks tile the heap but for   *)
(* absorbed headers: what a caller writes into its allocation damages       *)
(* neither another allocation nor a header, and nothing else is lost.       *)
BlocksTile == BlocksDisjoint /\ GapsAreHeaders

(* The list is doubly linked and in address order: next_block is the        *)
(* closest header above, prev_block the closest below, NULL when there is   *)
(* none.                                                                    *)
ListInOrder ==
  \A a \in Blocks :
    /\ IF heap.hdr[a].next = NULL THEN \A c \in Blocks : c <= a
       ELSE /\ heap.hdr[a].next \in Blocks /\ a < heap.hdr[a].next
            /\ \A c \in Blocks : c <= a \/ heap.hdr[a].next <= c
    /\ IF heap.hdr[a].prev = NULL THEN \A c \in Blocks : a <= c
       ELSE /\ heap.hdr[a].prev \in Blocks /\ heap.hdr[a].prev < a
            /\ \A c \in Blocks : a <= c \/ c <= heap.hdr[a].prev

(* No two free neighbours are left unmerged.                                *)
Coalesced ==
  \A a \in Blocks : ~InUse(a) /\ heap.hdr[a].next # NULL => InUse(heap.hdr[a].next)

(* In whatever order the callers allocate and free, split, merge and growth *)
(* keep both directions of the list right and kfree merges all it can.      *)
ListSound == ListInOrder /\ Coalesced

LiveIsInUse == DOMAIN live = {a + HDR : a \in {b \in Blocks : InUse(b)}}
LiveFits    == \A p \in DOMAIN live : live[p] <= heap.hdr[p - HDR].size

(* The blocks in use are exactly the ones callers hold, so that a free      *)
(* block is never one a caller still uses and none is lost, and every       *)
(* caller has at least the bytes it asked for.                              *)
LiveServed == LiveIsInUse /\ LiveFits

(* The malloc contract, module AllocContract, is implemented.               *)
Contract == INSTANCE AllocContract WITH Top <- HeapStart + MaxHeap
ImplementsContract == Contract!Spec

(* kmalloc.c, the test of init_kmalloc: "All memory should be freed after   *)
(* each test", that is, with nothing allocated the heap is one free block   *)
(* again.                                                                   *)
AllMemoryFreed ==
  Ready /\ DOMAIN live = {} => EndOf(heap.first) = HeapEnd

=============================================================================
