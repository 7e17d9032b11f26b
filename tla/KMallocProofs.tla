--------------------------- MODULE KMallocProofs ---------------------------
(***************************************************************************)
(* The kernel heap allocator and its users: the allocator's invariants, the *)
(* malloc contract, and what the C library's overruns can cost, for every   *)
(* heap size, every set of request sizes and any number of calls.           *)
(*                                                                          *)
(* The hypothesis of the theorems, SizesFit, says of the requests what      *)
(* kmalloc.c takes for granted: that rounding one up, adding a header and a *)
(* page, and multiplying in kcalloc stay below 2^32.  LibraryFits says the  *)
(* same of the lengths the library asks for.                                *)
(*                                                                          *)
(* The first part is about one call: what kmalloc and kfree do to the       *)
(* header table and to the allocator's globals.  Each C function is first   *)
(* brought to a closed form (kfreeForm, SplitForm, new_blockspaceForm): one *)
(* table that says what every header holds afterwards.  The closed form is  *)
(* then shown to keep Chain, the soundness of the list and of the tiling    *)
(* (JoinChain, CutOutcome, GrownOutcome), and to touch no block that a      *)
(* caller has (Served, Released).  The second part is about the callers of  *)
(* the allocator (Spec), the third about the C library (KlibcSpec), whose   *)
(* writes past a text put blocks in use that nobody holds.                  *)
(***************************************************************************)
EXTENDS Klibc, TLAPS

-----------------------------------------------------------------------------
(* One call *)

(* No request comes within a page and two headers of the end of size_t, so  *)
(* that no sum in kmalloc or __new_blockspace wraps.                        *)
SizeFits(n) == n \in Nat /\ n + 4131 < Word

(* A value of size_t is its own remainder.                                  *)
LEMMA WrapNone == ASSUME NEW x \in Nat, x < Word PROVE Wrap(x) = x
  BY HeapAssumption DEF Wrap

(* kmalloc rounds a length up to a multiple of 16, never down.              *)
LEMMA Round16Fits ==
  ASSUME NEW n, SizeFits(n)
  PROVE  /\ Round16(n) \in Nat /\ Round16(n) >= n /\ Round16(n) <= n + 15
<1>1. Wrap(n + 15) = n + 15
  BY HeapAssumption, WrapNone DEF SizeFits
<1>2. Round16(n) = ((n + 15) \div 16) * 16
  BY <1>1 DEF Round16
<1>3. ASSUME NEW m \in Nat PROVE ((m \div 16) * 16) \in Nat /\ (m \div 16) * 16 <= m /\ (m \div 16) * 16 + 15 >= m
  OBVIOUS
<1> QED
  BY <1>2, <1>3 DEF SizeFits

(* __new_blockspace asks mmap for more than the block and its header.       *)
LEMMA GrowFits ==
  ASSUME NEW n \in Nat, n + 4116 < Word
  PROVE  /\ GrowBytes(n) \in Nat /\ GrowBytes(n) > n + HDR /\ GrowBytes(n) < Word
         /\ GrowBytes(n) >= 4096
<1>1. Wrap(n + HDR) = n + HDR /\ Wrap(n + HDR + 4096) = n + HDR + 4096
  BY HeapAssumption, WrapNone DEF HDR
<1>2. GrowBytes(n) = ((n + HDR + 4096) \div 4096) * 4096
  BY <1>1 DEF GrowBytes, RoundPage
<1>3. ASSUME NEW m \in Nat PROVE ((m \div 4096) * 4096) \in Nat /\ (m \div 4096) * 4096 <= m /\ (m \div 4096) * 4096 + 4095 >= m
  OBVIOUS
<1>4. ASSUME NEW m \in Nat, m >= 4096 PROVE (m \div 4096) * 4096 >= 4096
  BY <1>4
<1> QED
  BY HeapAssumption, <1>2, <1>3, <1>4 DEF HDR
-----------------------------------------------------------------------------
(* The headers f on the list of a heap that ends at e.                      *)
Above(f, e, a) == IF f[a].next = NULL THEN e ELSE f[a].next
End(f, a)      == a + HDR + f[a].size

(* next_block of a is the closest header above a, NULL when there is none.  *)
NextOK(f, a) ==
  IF f[a].next = NULL THEN \A c \in DOMAIN f : c <= a
  ELSE /\ f[a].next \in DOMAIN f /\ a < f[a].next
       /\ \A c \in DOMAIN f : c <= a \/ f[a].next <= c

(* prev_block of a is the closest header below a, NULL when there is none.  *)
PrevOK(f, a) ==
  IF f[a].prev = NULL THEN \A c \in DOMAIN f : a <= c
  ELSE /\ f[a].prev \in DOMAIN f /\ f[a].prev < a
       /\ \A c \in DOMAIN f : a <= c \/ c <= f[a].prev

(* Block a ends before the next header and inside the heap; what lies       *)
(* between is whole headers that merges absorbed.                           *)
SpanOK(f, e, a) ==
  /\ End(f, a) <= Above(f, e, a) /\ End(f, a) <= e
  /\ (Above(f, e, a) - End(f, a)) % HDR = 0

(* Headers have their fields and lie in the heap, the first one at its      *)
(* start.                                                                   *)
Typed(f) ==
  /\ f \in [DOMAIN f -> Header]
  /\ \A a \in DOMAIN f : a \in Nat /\ HeapStart <= a
  /\ DOMAIN f = {} \/ HeapStart \in DOMAIN f

(* Table f is a sound list whose blocks tile the heap up to e.              *)
Chain(f, e) ==
  /\ Typed(f)
  /\ \A a \in DOMAIN f : NextOK(f, a) /\ PrevOK(f, a) /\ SpanOK(f, e, a)

(* No two free neighbours: what kfree's merging leaves.                     *)
Merged(f) == \A a \in DOMAIN f : f[a].free /\ f[a].next # NULL => ~f[f[a].next].free

(* The block at the end of the heap is large: a text, which is written one  *)
(* byte too far, is not put there.                                          *)
LastBig(f) == \A a \in DOMAIN f : f[a].next = NULL => f[a].size > 32

(* next_block of a leads to the block whose prev_block is a.                *)
LEMMA NextPrev ==
  ASSUME NEW f, NEW e \in Nat, Chain(f, e), NEW a \in DOMAIN f, f[a].next # NULL
  PROVE  f[a].next \in DOMAIN f /\ a < f[a].next /\ f[f[a].next].prev = a
<1> USE HeapAssumption DEF Chain, Typed, NextOK, PrevOK, NULL
<1>1. f[a].next \in DOMAIN f /\ a < f[a].next /\ \A c \in DOMAIN f : c <= a \/ f[a].next <= c
  OBVIOUS
<1> DEFINE n == f[a].next
<1>2. n \in Nat /\ a \in Nat
  BY <1>1
<1>3. f[n].prev # NULL
  BY <1>1, <1>2
<1>4. f[n].prev \in DOMAIN f /\ f[n].prev < n /\ a <= f[n].prev
  BY <1>1, <1>2, <1>3
<1>5. f[n].prev \in Nat
  BY <1>4
<1>6. f[n].prev <= a \/ n <= f[n].prev
  BY <1>1, <1>4
<1> HIDE DEF n, Chain, Typed, NextOK, PrevOK
<1> QED
  BY <1>1, <1>2, <1>4, <1>5, <1>6 DEF n

(* prev_block of a leads to the block whose next_block is a.                *)
LEMMA PrevNext ==
  ASSUME NEW f, NEW e \in Nat, Chain(f, e), NEW a \in DOMAIN f, f[a].prev # NULL
  PROVE  f[a].prev \in DOMAIN f /\ f[a].prev < a /\ f[f[a].prev].next = a
<1> USE HeapAssumption DEF Chain, Typed, NextOK, PrevOK, NULL
<1>1. f[a].prev \in DOMAIN f /\ f[a].prev < a /\ \A c \in DOMAIN f : a <= c \/ c <= f[a].prev
  OBVIOUS
<1> DEFINE n == f[a].prev
<1>2. n \in Nat /\ a \in Nat
  BY <1>1
<1>3. f[n].next # NULL
  BY <1>1, <1>2
<1>4. f[n].next \in DOMAIN f /\ n < f[n].next /\ f[n].next <= a
  BY <1>1, <1>2, <1>3
<1>5. f[n].next \in Nat
  BY <1>4
<1>6. a <= f[n].next \/ f[n].next <= n
  BY <1>1, <1>4
<1> HIDE DEF n, Chain, Typed, NextOK, PrevOK
<1> QED
  BY <1>1, <1>2, <1>4, <1>5, <1>6 DEF n

(* The table when x absorbs the block y after it, links on both sides set:  *)
(* what a merge of kfree amounts to.                                        *)
Join(f, x) ==
  LET y == f[x].next
  IN [a \in DOMAIN f \ {y} |->
        [free |-> f[a].free,
         next |-> IF a = x THEN f[y].next ELSE f[a].next,
         prev |-> IF a = f[y].next THEN x ELSE f[a].prev,
         size |-> IF a = x THEN f[x].size + f[y].size ELSE f[a].size]]

(* A merge keeps the list sound and the tiling: the gap above x grows by    *)
(* the one header that y had.                                               *)
LEMMA JoinChain ==
  ASSUME NEW f, NEW e \in Nat, Chain(f, e), NEW x \in DOMAIN f, f[x].next # NULL
  PROVE  Chain(Join(f, x), e)
<1> DEFINE y == f[x].next
           z == f[y].next
           g == Join(f, x)
           D == DOMAIN f
<1> USE HeapAssumption DEF NULL
<1>1. y \in D /\ x < y /\ f[y].prev = x
  BY NextPrev
<1>2. \A a \in D : a \in Nat /\ f[a] \in Header /\ HeapStart <= a
  BY DEF Chain, Typed
<1>3. z # NULL => z \in D /\ y < z
  BY <1>1, NextPrev
<1>4. z \in Nat
  BY <1>1, <1>2 DEF Header
<1>5. /\ DOMAIN g = D \ {y} /\ x \in DOMAIN g
      /\ \A a \in DOMAIN g :
           /\ a \in D /\ a # y
           /\ g[a] = [free |-> f[a].free,
                      next |-> IF a = x THEN z ELSE f[a].next,
                      prev |-> IF a = z THEN x ELSE f[a].prev,
                      size |-> IF a = x THEN f[x].size + f[y].size ELSE f[a].size]
  BY <1>1, <1>2 DEF Join
<1> HIDE DEF g, y, z
<1>6. ASSUME NEW a \in DOMAIN g PROVE g[a] \in Header
  <2>1. /\ a \in D /\ f[a] \in Header /\ f[x] \in Header /\ f[y] \in Header /\ x \in Nat
    BY <1>1, <1>2, <1>5
  <2> QED
    BY <1>4, <1>5, <2>1 DEF Header
<1>7. \A a \in DOMAIN g : 
           /\ g[a].free = f[a].free
           /\ g[a].next = IF a = x THEN z ELSE f[a].next
           /\ g[a].prev = IF a = z THEN x ELSE f[a].prev
           /\ g[a].size = IF a = x THEN f[x].size + f[y].size ELSE f[a].size
  BY <1>5
<1>8. Typed(g)
  <2>1. g = [a \in DOMAIN g |-> g[a]]
    BY DEF g, Join
  <2>2. g \in [DOMAIN g -> Header]
    BY <1>6, <2>1
  <2>3. HeapStart \in DOMAIN g
    BY <1>1, <1>2, <1>5 DEF Chain, Typed
  <2> QED
    BY <1>2, <1>5, <2>2, <2>3 DEF Typed
<1>9. ASSUME NEW a \in DOMAIN g PROVE NextOK(g, a)
  <2>1. CASE a = x
    <3>1. g[a].next = z
      BY <1>7, <2>1
    <3>2. \A c \in D : c <= x \/ y <= c
      BY <1>1, <1>2 DEF Chain, NextOK, y
    <3>3. z = NULL => \A c \in D : c <= y
      BY <1>1 DEF Chain, NextOK, z
    <3>4. z # NULL => \A c \in D : c <= y \/ z <= c
      BY <1>1 DEF Chain, NextOK, z
    <3> QED
      BY <1>1, <1>2, <1>3, <1>4, <1>5, <2>1, <3>1, <3>2, <3>3, <3>4 DEF NextOK
  <2>2. CASE a # x
    <3>1. g[a].next = f[a].next /\ a \in D
      BY <1>5, <1>7, <2>2
    <3>2. f[a].next # y
      BY <1>1, <2>2, <3>1, NextPrev, <1>2
    <3> QED
      BY <1>2, <1>5, <3>1, <3>2 DEF NextOK, Chain
  <2> QED
    BY <2>1, <2>2
<1>10. ASSUME NEW a \in DOMAIN g PROVE PrevOK(g, a)
  <2>1. CASE a = z
    <3>1. g[a].prev = x /\ z # NULL
      BY <1>2, <1>5, <1>7, <2>1
    <3>2. f[z].prev = y
      BY <1>1, <3>1, NextPrev DEF z
    <3>3. \A c \in D : z <= c \/ c <= y
      BY <1>1, <1>2, <1>3, <3>1, <3>2 DEF Chain, PrevOK
    <3>4. \A c \in D : y <= c \/ c <= x
      BY <1>1, <1>2 DEF Chain, PrevOK
    <3> QED
      BY <1>1, <1>2, <1>3, <1>4, <1>5, <2>1, <3>1, <3>3, <3>4 DEF PrevOK
  <2>2. CASE a # z
    <3>1. g[a].prev = f[a].prev /\ a \in D /\ a # y
      BY <1>5, <1>7, <2>2
    <3>2. f[a].prev # y
      BY <1>1, <1>2, <2>2, <3>1, PrevNext DEF z
    <3> QED
      BY <1>2, <1>5, <3>1, <3>2 DEF PrevOK, Chain
  <2> QED
    BY <2>1, <2>2
<1>11. ASSUME NEW a \in DOMAIN g PROVE SpanOK(g, e, a)
  <2>1. CASE a = x
    <3>1. g[a].next = z /\ g[a].size = f[x].size + f[y].size
      BY <1>7, <2>1
    <3>2. /\ x + HDR + f[x].size <= y /\ (y - (x + HDR + f[x].size)) % HDR = 0
      BY <1>1, <1>2 DEF Chain, SpanOK, Above, End, y
    <3>3. /\ y + HDR + f[y].size <= e
          /\ y + HDR + f[y].size <= (IF z = NULL THEN e ELSE z)
          /\ ((IF z = NULL THEN e ELSE z) - (y + HDR + f[y].size)) % HDR = 0
      BY <1>1, <1>2 DEF Chain, SpanOK, Above, End, z
    <3>4. f[x].size \in Nat /\ f[y].size \in Nat /\ x \in Nat /\ y \in Nat
      BY <1>1, <1>2 DEF Header
    <3>5. ASSUME NEW u \in Int, NEW v \in Int, u % 20 = 0, v % 20 = 0
          PROVE  (u + v + 20) % 20 = 0
      BY <3>5
    <3>6. ((IF z = NULL THEN e ELSE z) - (x + HDR + f[x].size + f[y].size)) % HDR = 0
      <4> DEFINE w == IF z = NULL THEN e ELSE z
                 u == y - (x + HDR + f[x].size)
                 v == w - (y + HDR + f[y].size)
      <4>1. w \in Nat
        BY <1>4
      <4>2. u \in Int /\ v \in Int
        BY <3>4, <4>1 DEF HDR
      <4>3. u % 20 = 0 /\ v % 20 = 0
        BY <3>2, <3>3 DEF HDR
      <4>4. w - (x + HDR + f[x].size + f[y].size) = u + v + 20
        BY <3>4, <4>1 DEF HDR
      <4> HIDE DEF u, v
      <4>5. (u + v + 20) % 20 = 0
        BY <3>5, <4>2, <4>3
      <4> QED
        BY <4>4, <4>5 DEF HDR
    <3> QED
      BY <1>4, <2>1, <3>1, <3>2, <3>3, <3>4, <3>6 DEF SpanOK, Above, End, HDR
  <2>2. CASE a # x
    <3>1. g[a].next = f[a].next /\ g[a].size = f[a].size /\ a \in D
      BY <1>5, <1>7, <2>2
    <3> QED
      BY <3>1 DEF SpanOK, Above, End, Chain
  <2> QED
    BY <2>1, <2>2
<1> QED
  BY <1>8, <1>9, <1>10, <1>11 DEF Chain, g

(* Only the links and the sizes matter to Chain, not the free flags.        *)
LEMMA ChainFields ==
  ASSUME NEW f, NEW g, NEW e \in Nat, Chain(f, e), DOMAIN g = DOMAIN f, g \in [DOMAIN f -> Header],
         \A a \in DOMAIN f : g[a].next = f[a].next /\ g[a].prev = f[a].prev /\ g[a].size = f[a].size
  PROVE  Chain(g, e)
<1>1. Typed(g)
  BY DEF Chain, Typed
<1>2. ASSUME NEW a \in DOMAIN f PROVE NextOK(g, a) /\ PrevOK(g, a) /\ SpanOK(g, e, a)
  BY DEF Chain, NextOK, PrevOK, SpanOK, Above, End
<1> QED
  BY <1>1, <1>2 DEF Chain

(* A header with two of its fields assigned.                                *)
Resized(e, x, y) == [e EXCEPT !.next = x, !.size = y]

(* The assignments to next_block and size leave the other two fields alone. *)
LEMMA HeaderExcept ==
  ASSUME NEW e \in Header, NEW x, NEW y
  PROVE  Resized(e, x, y) = [free |-> e.free, next |-> x, prev |-> e.prev, size |-> y]
<1> DEFINE q == [e EXCEPT !.next = x]
<1>1. q = [free |-> e.free, next |-> x, prev |-> e.prev, size |-> e.size]
  BY DEF Header
<1>2. [e EXCEPT !.next = x, !.size = y] = [q EXCEPT !.size = y]
  OBVIOUS
<1> HIDE DEF q
<1>3. [q EXCEPT !.size = y] = [free |-> e.free, next |-> x, prev |-> e.prev, size |-> y]
  BY <1>1
<1> QED
  BY <1>2, <1>3 DEF Resized

(* The assignment to free leaves the other fields alone.                    *)
LEMMA HeaderMark ==
  ASSUME NEW e \in Header, NEW x
  PROVE  [e EXCEPT !.free = x] = [free |-> x, next |-> e.next, prev |-> e.prev, size |-> e.size]
  BY DEF Header

(* What an assignment to prev_block leaves at every address; through NULL   *)
(* nothing is assigned.                                                     *)
LEMMA SetPrevForm ==
  ASSUME NEW f, f \in [DOMAIN f -> Header], NULL \notin DOMAIN f, NEW n, n = NULL \/ n \in DOMAIN f, NEW m
  PROVE  SetPrev(f, n, m) =
           [a \in DOMAIN f |-> [free |-> f[a].free, next |-> f[a].next,
                                prev |-> IF a = n THEN m ELSE f[a].prev, size |-> f[a].size]]
<1>1. \A a \in DOMAIN f : f[a] \in Header /\ f[a] = [free |-> f[a].free, next |-> f[a].next, prev |-> f[a].prev, size |-> f[a].size]
  BY DEF Header
<1>2. CASE n = NULL
  BY <1>1, <1>2 DEF SetPrev
<1>3. CASE n # NULL
  <2>1. [f[n] EXCEPT !.prev = m] = [free |-> f[n].free, next |-> f[n].next, prev |-> m, size |-> f[n].size]
    BY <1>1, <1>3 DEF Header
  <2>2. SetPrev(f, n, m) = [f EXCEPT ![n] = [f[n] EXCEPT !.prev = m]]
    BY <1>3 DEF SetPrev
  <2> QED
    BY <1>1, <1>3, <2>1, <2>2
<1> QED
  BY <1>2, <1>3

(* What an assignment to next_block leaves at every address; through NULL   *)
(* nothing is assigned.                                                     *)
LEMMA SetNextForm ==
  ASSUME NEW f, f \in [DOMAIN f -> Header], NULL \notin DOMAIN f, NEW n, n = NULL \/ n \in DOMAIN f, NEW m
  PROVE  SetNext(f, n, m) =
           [a \in DOMAIN f |-> [free |-> f[a].free, next |-> IF a = n THEN m ELSE f[a].next,
                                prev |-> f[a].prev, size |-> f[a].size]]
<1>1. \A a \in DOMAIN f : f[a] \in Header /\ f[a] = [free |-> f[a].free, next |-> f[a].next, prev |-> f[a].prev, size |-> f[a].size]
  BY DEF Header
<1>2. CASE n = NULL
  BY <1>1, <1>2 DEF SetNext
<1>3. CASE n # NULL
  <2>1. [f[n] EXCEPT !.next = m] = [free |-> f[n].free, next |-> m, prev |-> f[n].prev, size |-> f[n].size]
    BY <1>1, <1>3 DEF Header
  <2>2. SetNext(f, n, m) = [f EXCEPT ![n] = [f[n] EXCEPT !.next = m]]
    BY <1>3 DEF SetNext
  <2> QED
    BY <1>1, <1>3, <2>1, <2>2
<1> QED
  BY <1>2, <1>3

(* What the first merge of kfree, of the free block after b, leaves at      *)
(* every address.                                                           *)
LEMMA MergeNextForm ==
  ASSUME NEW f, f \in [DOMAIN f -> Header], NEW b \in DOMAIN f, f[b].next \in DOMAIN f,
         f[b].next # b, IsFreeBlock(f, f[b].next)
  PROVE  MergeNext(f, b) =
           [a \in DOMAIN f \ {f[b].next} |->
              IF a = b THEN [free |-> f[b].free, next |-> f[f[b].next].next, prev |-> f[b].prev,
                             size |-> f[b].size + f[f[b].next].size]
              ELSE f[a]]
<1> DEFINE n == f[b].next
           r == Resized(f[b], f[n].next, f[b].size + f[n].size)
<1>1. f[b] \in Header /\ f[n] \in Header
  OBVIOUS
<1>2. r = [free |-> f[b].free, next |-> f[n].next, prev |-> f[b].prev, size |-> f[b].size + f[n].size]
  BY <1>1, HeaderExcept
<1>3. MergeNext(f, b) = Remove([f EXCEPT ![b] = r], n)
  BY DEF MergeNext, Resized
<1> HIDE DEF r, n
<1>4. Remove([f EXCEPT ![b] = r], n) = [a \in DOMAIN f \ {n} |-> IF a = b THEN r ELSE f[a]]
  BY DEF Remove
<1> QED
  BY <1>2, <1>3, <1>4 DEF n

(* Table f once block p has taken in block b, its successor.                *)
Absorbed(f, b, p) ==
  [a \in DOMAIN f \ {b} |->
     IF a = p
     THEN [free |-> f[a].free, next |-> f[b].next, prev |-> f[a].prev, size |-> f[a].size + f[b].size]
     ELSE f[a]]

(* What the second merge of kfree, of b into the free block before it,      *)
(* leaves at every address.                                                 *)
LEMMA MergePrevForm ==
  ASSUME NEW f, f \in [DOMAIN f -> Header], NEW b \in DOMAIN f, f[b].prev \in DOMAIN f,
         f[b].prev # b, IsFreeBlock(f, f[b].prev)
  PROVE  MergePrev(f, b) = Absorbed(f, b, f[b].prev)
<1> DEFINE p == f[b].prev
           r == Resized(f[p], f[b].next, f[p].size + f[b].size)
<1>1. f[b] \in Header /\ f[p] \in Header
  OBVIOUS
<1>2. r = [free |-> f[p].free, next |-> f[b].next, prev |-> f[p].prev, size |-> f[p].size + f[b].size]
  BY <1>1, HeaderExcept
<1>3. MergePrev(f, b) = Remove([f EXCEPT ![p] = r], b)
  BY DEF MergePrev, Resized
<1> HIDE DEF r, p
<1>4. Remove([f EXCEPT ![p] = r], b) = [a \in DOMAIN f \ {b} |-> IF a = p THEN r ELSE f[a]]
  BY DEF Remove
<1> QED
  BY <1>2, <1>3, <1>4 DEF p, Absorbed

(* The last lines of kfree: the neighbours' links, then the free flag.      *)
Link(f, m) ==
  LET g == SetNext(SetPrev(f, f[m].next, m), f[m].prev, m)
  IN [g EXCEPT ![m] = [@ EXCEPT !.free = TRUE]]

(* They set prev_block of the block after m and mark m free; next_block of  *)
(* the block before m was m already.                                        *)
LEMMA LinkForm ==
  ASSUME NEW f, f \in [DOMAIN f -> Header], NULL \notin DOMAIN f, NEW m \in DOMAIN f,
         f[m].next = NULL \/ (f[m].next \in DOMAIN f /\ f[m].next # m),
         f[m].prev = NULL \/ (f[m].prev \in DOMAIN f /\ f[m].prev # m /\ f[f[m].prev].next = m)
  PROVE  Link(f, m) =
              [a \in DOMAIN f |-> [free |-> IF a = m THEN TRUE ELSE f[a].free, next |-> f[a].next,
                                   prev |-> IF a = f[m].next THEN m ELSE f[a].prev, size |-> f[a].size]]
<1> DEFINE n == f[m].next
           p == f[m].prev
           g1 == SetPrev(f, n, m)
           g2 == SetNext(g1, p, m)
           g3 == [g2 EXCEPT ![m] = [@ EXCEPT !.free = TRUE]]
<1>1. \A a \in DOMAIN f : f[a] \in Header /\ f[a] = [free |-> f[a].free, next |-> f[a].next, prev |-> f[a].prev, size |-> f[a].size]
  BY DEF Header
<1>2. g1 = [a \in DOMAIN f |-> [free |-> f[a].free, next |-> f[a].next,
                                prev |-> IF a = n THEN m ELSE f[a].prev, size |-> f[a].size]]
  <2>1. n = NULL \/ n \in DOMAIN f
    OBVIOUS
  <2> HIDE DEF n
  <2> QED
    BY <2>1, SetPrevForm
<1>3. g2 = g1
  <2>1. CASE p = NULL
    BY <2>1 DEF SetNext
  <2>2. CASE p # NULL
    <3>0. p \in DOMAIN f /\ f[p].next = m
      BY <2>2
    <3>1. g1[p].next = m /\ g1[p] = [free |-> g1[p].free, next |-> g1[p].next, prev |-> g1[p].prev, size |-> g1[p].size] /\ p \in DOMAIN g1
          /\ g1 = [a \in DOMAIN g1 |-> g1[a]]
      BY <1>2, <2>2, <3>0
    <3>2. g2 = [g1 EXCEPT ![p] = [@ EXCEPT !.next = m]]
      BY <2>2 DEF SetNext
    <3> HIDE DEF g1, g2, p
    <3>3. [g1[p] EXCEPT !.next = m] = g1[p]
      BY <3>1
    <3> QED
      BY <3>1, <3>2, <3>3
  <2> QED
    BY <2>1, <2>2
<1>4. g3 = [a \in DOMAIN f |-> [free |-> IF a = m THEN TRUE ELSE f[a].free, next |-> f[a].next,
                                   prev |-> IF a = n THEN m ELSE f[a].prev, size |-> f[a].size]]
  <2>1. g3 = [g1 EXCEPT ![m] = [g1[m] EXCEPT !.free = TRUE]]
    BY <1>3
  <2>2. m # n
    OBVIOUS
  <2> HIDE DEF g1, g3, n
  <2>3. g1[m] = f[m]
    BY <1>1, <1>2, <2>2
  <2>4. f[m] \in Header
    OBVIOUS
  <2>5. [f[m] EXCEPT !.free = TRUE] = [free |-> TRUE, next |-> f[m].next, prev |-> f[m].prev,
                                      size |-> f[m].size]
    BY <2>4, HeaderMark
  <2>6. g3 = [g1 EXCEPT ![m] = [free |-> TRUE, next |-> f[m].next, prev |-> f[m].prev, size |-> f[m].size]]
    BY <2>1, <2>3, <2>5
  <2> QED
    BY <1>2, <2>2, <2>6
<1> QED
  BY <1>4 DEF Link

-----------------------------------------------------------------------------
(* kfree of block b in table f: block lo covers the merged blocks and hi    *)
(* follows it.                                                              *)
PrevFree(f, b) == IsFreeBlock(f, f[b].prev)
NextFree(f, b) == IsFreeBlock(f, f[b].next)
Lo(f, b)   == IF PrevFree(f, b) THEN f[b].prev ELSE b
Hi(f, b)   == IF NextFree(f, b) THEN f[f[b].next].next ELSE f[b].next
Gone(f, b) == (IF PrevFree(f, b) THEN {b} ELSE {}) \cup (IF NextFree(f, b) THEN {f[b].next} ELSE {})
Total(f, b) == (IF PrevFree(f, b) THEN f[f[b].prev].size ELSE 0)
                 + (f[b].size + (IF NextFree(f, b) THEN f[f[b].next].size ELSE 0))

(* The table kfree leaves.                                                  *)
Freed(f, b) ==
  [a \in DOMAIN f \ Gone(f, b) |->
     [free |-> IF a = Lo(f, b) THEN TRUE ELSE f[a].free,
      next |-> IF a = Lo(f, b) THEN Hi(f, b) ELSE f[a].next,
      prev |-> IF a = Hi(f, b) THEN Lo(f, b) ELSE f[a].prev,
      size |-> IF a = Lo(f, b) THEN Total(f, b) ELSE f[a].size]]

(* kfree computes Freed, in each of the four cases of free neighbours.      *)
LEMMA kfreeForm ==
  ASSUME NEW h, NEW e \in Nat, NEW ptr \in Int, Chain(h.hdr, e), ptr - HDR \in DOMAIN h.hdr
  PROVE  kfree(h, ptr) = [h EXCEPT !.hdr = Freed(h.hdr, ptr - HDR)]
<1> DEFINE f == h.hdr
           b == ptr - HDR
           n == f[b].next
           p == f[b].prev
           z == f[n].next
           f1 == MergeNext(f, b)
           f2 == MergePrev(f1, b)
           merged == IF IsFreeBlock(f1, f1[b].prev) THEN f1[b].prev ELSE b
           f4 == Link(f2, merged)
<1>1. kfree(h, ptr) = [h EXCEPT !.hdr = f4]
  BY DEF kfree, Link
<1> SUFFICES f4 = Freed(f, b)
  BY <1>1
<1>2. /\ b \in DOMAIN f /\ f \in [DOMAIN f -> Header] /\ NULL \notin DOMAIN f
      /\ \A a \in DOMAIN f : a \in Nat /\ a # NULL /\ f[a] \in Header
  BY HeapAssumption DEF Chain, Typed, NULL
<1>3. n # NULL => n \in DOMAIN f /\ b < n /\ f[n].prev = b /\ n # b /\ f[n] \in Header
  BY <1>2, NextPrev
<1>4. p # NULL => p \in DOMAIN f /\ p < b /\ f[p].next = b /\ p # b /\ f[p] \in Header
  BY <1>2, PrevNext
<1>5. n # NULL /\ z # NULL => z \in DOMAIN f /\ n < z /\ f[z].prev = n /\ z # b /\ z # n
  BY <1>2, <1>3, NextPrev
<1>6. p # NULL /\ f[p].prev # NULL =>
        f[p].prev \in DOMAIN f /\ f[p].prev < p /\ f[f[p].prev].next = p /\ f[p].prev # b /\ f[p].prev # p
  BY <1>2, <1>4, PrevNext
<1>7. p # NULL => (n # NULL => p # n) /\ (n # NULL => z # p)
  BY <1>2, <1>3, <1>4, <1>5
<1>8. p # NULL /\ f[p].prev # NULL => (n # NULL => f[p].prev # n)
  BY <1>2, <1>3, <1>4, <1>6
<1> HIDE DEF f, b, n, p, z
<1>9. ASSUME NEW g, g = f1, g \in [DOMAIN g -> Header], NULL \notin DOMAIN g,
             b \in DOMAIN g, g[b].prev = p, p # NULL => p \in DOMAIN g /\ g[p] = f[p],
             g[b].next # NULL => g[b].next \in DOMAIN g /\ g[b].next # b /\ (p # NULL => g[b].next # p),
             p # NULL /\ f[p].prev # NULL => 
                f[p].prev \in DOMAIN g /\ g[f[p].prev].next = p
      PROVE  /\ IsFreeBlock(f, p) =>
                  f4 = [a \in DOMAIN g \ {b} |->
                         [free |-> IF a = p THEN TRUE ELSE g[a].free,
                          next |-> IF a = p THEN g[b].next ELSE g[a].next,
                          prev |-> IF a = g[b].next THEN p ELSE g[a].prev,
                          size |-> IF a = p THEN g[p].size + g[b].size ELSE g[a].size]]
             /\ ~IsFreeBlock(f, p) =>
                  f4 = [a \in DOMAIN g |->
                         [free |-> IF a = b THEN TRUE ELSE g[a].free,
                          next |-> g[a].next,
                          prev |-> IF a = g[b].next THEN b ELSE g[a].prev,
                          size |-> g[a].size]]
  <2>1. CASE IsFreeBlock(f, p)
    <3>1. p # NULL /\ p \in DOMAIN g /\ g[p] = f[p] /\ p # b /\ IsFreeBlock(g, g[b].prev)
      BY <1>4, <1>9, <2>1 DEF IsFreeBlock
    <3>2. f2 = [a \in DOMAIN g \ {b} |->
              IF a = p
              THEN [free |-> g[a].free, next |-> g[b].next, prev |-> g[a].prev,
                    size |-> g[a].size + g[b].size]
              ELSE g[a]]
      <4>1. MergePrev(g, b) = Absorbed(g, b, g[b].prev)
        BY <1>9, <3>1, MergePrevForm
      <4>2. f2 = Absorbed(g, b, p)
        BY <1>9, <4>1
      <4> QED
        BY <4>2 DEF Absorbed
    <3>3. merged = p
      BY <1>9, <3>1
    <3>4. /\ DOMAIN f2 = DOMAIN g \ {b}
          /\ f2[p] = [free |-> g[p].free, next |-> g[b].next, prev |-> g[p].prev, size |-> g[p].size + g[b].size]
          /\ \A a \in DOMAIN f2 : a # p => f2[a] = g[a]
          /\ NULL \notin DOMAIN f2 /\ p \in DOMAIN f2
      BY <1>9, <3>1, <3>2
    <3>5. g[p] \in Header /\ g[b] \in Header /\ \A a \in DOMAIN g : g[a] \in Header
      BY <1>9, <3>1
    <3>6. f2[p] \in Header
      BY <3>4, <3>5 DEF Header
    <3>7. f2 \in [DOMAIN f2 -> Header]
      BY <3>2, <3>4, <3>5, <3>6
    <3>8. /\ f2[p].next = NULL \/ (f2[p].next \in DOMAIN f2 /\ f2[p].next # p)
          /\ f2[p].next = g[b].next /\ f2[p].prev = f[p].prev
      BY <1>9, <3>1, <3>4
    <3>9. f2[p].prev = NULL \/ (f2[p].prev \in DOMAIN f2 /\ f2[p].prev # p /\ f2[f2[p].prev].next = p)
      BY <1>6, <1>9, <3>1, <3>4, <3>8
    <3> HIDE DEF f1, f2, merged
    <3>10. f4 = [a \in DOMAIN f2 |-> [free |-> IF a = p THEN TRUE ELSE f2[a].free, next |-> f2[a].next,
                                   prev |-> IF a = f2[p].next THEN p ELSE f2[a].prev, size |-> f2[a].size]]
      BY <3>3, <3>4, <3>7, <3>8, <3>9, LinkForm
    <3> HIDE DEF f4
    <3> QED
      BY <2>1, <3>2, <3>4, <3>8, <3>10
  <2>2. CASE ~IsFreeBlock(f, p)
    <3>1. ~IsFreeBlock(g, g[b].prev)
      BY <1>9, <2>2 DEF IsFreeBlock
    <3>2. f2 = g /\ merged = b
      BY <1>9, <3>1 DEF MergePrev
    <3>3. g[b].prev = NULL \/ (g[b].prev \in DOMAIN g /\ g[b].prev # b /\ g[g[b].prev].next = b)
      BY <1>4, <1>9
    <3>4. g[b].next = NULL \/ (g[b].next \in DOMAIN g /\ g[b].next # b)
      BY <1>9
    <3>5. f4 = Link(g, b)
      BY <3>2
    <3> HIDE DEF f4, f1, f2, merged
    <3>6. f4 = [a \in DOMAIN g |-> [free |-> IF a = b THEN TRUE ELSE g[a].free, next |-> g[a].next,
                                   prev |-> IF a = g[b].next THEN b ELSE g[a].prev, size |-> g[a].size]]
      <4>1. g \in [DOMAIN g -> Header] /\ NULL \notin DOMAIN g /\ b \in DOMAIN g
        BY <1>9
      <4> QED
        BY <3>3, <3>4, <3>5, <4>1, LinkForm
    <3> QED
      BY <2>2, <3>6
  <2> QED
    BY <2>1, <2>2
<1>10. CASE NextFree(f, b)
  <2>1. n # NULL /\ n \in DOMAIN f /\ n # b /\ IsFreeBlock(f, f[b].next) /\ n = f[b].next
    BY <1>3, <1>10 DEF NextFree, IsFreeBlock, n
  <2>2. f1 = [a \in DOMAIN f \ {n} |->
              IF a = b THEN [free |-> f[b].free, next |-> z, prev |-> p, size |-> f[b].size + f[n].size]
              ELSE f[a]]
    BY <1>2, <2>1, MergeNextForm DEF n, p, z
  <2> HIDE DEF f1
  <2>3. /\ DOMAIN f1 = DOMAIN f \ {n} /\ b \in DOMAIN f1
        /\ f1[b] = [free |-> f[b].free, next |-> z, prev |-> p, size |-> f[b].size + f[n].size]
        /\ \A a \in DOMAIN f1 : a # b => f1[a] = f[a]
    BY <1>2, <2>1, <2>2
  <2>4. f1[b] \in Header /\ f1[b].prev = p /\ f1[b].next = z
    <3>1. f[b] \in Header /\ f[n] \in Header
      BY <1>2, <2>1
    <3> QED
      BY <2>3, <3>1 DEF Header, p, z
  <2>5. f1 \in [DOMAIN f1 -> Header] /\ NULL \notin DOMAIN f1
    BY <1>2, <2>2, <2>3, <2>4
  <2>6. p # NULL => p \in DOMAIN f1 /\ f1[p] = f[p]
    BY <1>4, <1>7, <2>1, <2>3
  <2>7. z # NULL => z \in DOMAIN f1 /\ z # b /\ (p # NULL => z # p)
    BY <1>5, <1>7, <2>1, <2>3
  <2>8. p # NULL /\ f[p].prev # NULL => f[p].prev \in DOMAIN f1 /\ f1[f[p].prev].next = p
    BY <1>6, <1>8, <2>1, <2>3
  <2>9. Hi(f, b) = z
    BY <1>10 DEF Hi, n, z
  <2>10. CASE IsFreeBlock(f, p)
    <3>1. Lo(f, b) = p /\ Gone(f, b) = {b, n} /\ Total(f, b) = f[p].size + (f[b].size + f[n].size)
      BY <1>10, <2>10 DEF Lo, Gone, PrevFree, Total, n, p
    <3>2. f4 = [a \in DOMAIN f1 \ {b} |->
                         [free |-> IF a = p THEN TRUE ELSE f1[a].free,
                          next |-> IF a = p THEN f1[b].next ELSE f1[a].next,
                          prev |-> IF a = f1[b].next THEN p ELSE f1[a].prev,
                          size |-> IF a = p THEN f1[p].size + f1[b].size ELSE f1[a].size]]
      BY <1>9, <2>3, <2>4, <2>5, <2>6, <2>7, <2>8, <2>10
    <3>3. p # b /\ f1[p] = f[p] /\ f1[b].size = f[b].size + f[n].size
      BY <1>4, <2>3, <2>6, <2>10 DEF IsFreeBlock
    <3>4. DOMAIN f1 \ {b} = DOMAIN f \ Gone(f, b)
      BY <2>3, <3>1
    <3> HIDE DEF f4, f2, merged
    <3> QED
      BY <2>3, <2>4, <2>9, <3>1, <3>2, <3>3, <3>4 DEF Freed
  <2>11. CASE ~IsFreeBlock(f, p)
    <3>1. Lo(f, b) = b /\ Gone(f, b) = {n} /\ Total(f, b) = 0 + (f[b].size + f[n].size)
      BY <1>10, <2>11 DEF Lo, Gone, PrevFree, Total, n, p
    <3>2. f4 = [a \in DOMAIN f1 |->
                         [free |-> IF a = b THEN TRUE ELSE f1[a].free,
                          next |-> f1[a].next,
                          prev |-> IF a = f1[b].next THEN b ELSE f1[a].prev,
                          size |-> f1[a].size]]
      BY <1>9, <2>3, <2>4, <2>5, <2>6, <2>7, <2>8, <2>11
    <3>3. Total(f, b) = f[b].size + f[n].size
      BY <1>2, <2>1, <3>1 DEF Header
    <3>4. DOMAIN f1 = DOMAIN f \ Gone(f, b)
      BY <2>3, <3>1
    <3>5. f1[b].size = Total(f, b) /\ f1[b].next = Hi(f, b) /\ f1[b].prev = f[b].prev
      BY <2>3, <2>4, <2>9, <3>3 DEF p
    <3> HIDE DEF f4, f2, merged
    <3> QED
      BY <2>3, <2>9, <3>1, <3>2, <3>4, <3>5 DEF Freed
  <2> QED
    BY <2>10, <2>11
<1>11. CASE ~NextFree(f, b)
  <2>1. f1 = f
    BY <1>11 DEF NextFree, MergeNext
  <2>2. Hi(f, b) = n /\ n = f[b].next /\ p = f[b].prev
    BY <1>11 DEF Hi, n, p
  <2> HIDE DEF f1, f2, merged, f4
  <2>3. p # NULL => p \in DOMAIN f
    BY <1>4
  <2>4. n # NULL => n \in DOMAIN f /\ n # b /\ (p # NULL => n # p)
    BY <1>3, <1>7
  <2>5. p # NULL /\ f[p].prev # NULL => f[p].prev \in DOMAIN f /\ f[f[p].prev].next = p
    BY <1>6
  <2>10. CASE IsFreeBlock(f, p)
    <3>1. Lo(f, b) = p /\ Gone(f, b) = {b} /\ Total(f, b) = f[p].size + (f[b].size + 0)
      BY <1>11, <2>10 DEF Lo, Gone, PrevFree, Total, n, p
    <3>2. f4 = [a \in DOMAIN f \ {b} |->
                         [free |-> IF a = p THEN TRUE ELSE f[a].free,
                          next |-> IF a = p THEN f[b].next ELSE f[a].next,
                          prev |-> IF a = f[b].next THEN p ELSE f[a].prev,
                          size |-> IF a = p THEN f[p].size + f[b].size ELSE f[a].size]]
      BY <1>2, <1>9, <2>1, <2>2, <2>3, <2>4, <2>5, <2>10
    <3>3. Total(f, b) = f[p].size + f[b].size
      BY <1>2, <3>1 DEF Header
    <3> QED
      BY <2>2, <3>1, <3>2, <3>3 DEF Freed
  <2>11. CASE ~IsFreeBlock(f, p)
    <3>1. Lo(f, b) = b /\ Gone(f, b) = {} /\ Total(f, b) = 0 + (f[b].size + 0)
      BY <1>11, <2>11 DEF Lo, Gone, PrevFree, Total, n, p
    <3>2. f4 = [a \in DOMAIN f |->
                         [free |-> IF a = b THEN TRUE ELSE f[a].free,
                          next |-> f[a].next,
                          prev |-> IF a = f[b].next THEN b ELSE f[a].prev,
                          size |-> f[a].size]]
      BY <1>2, <1>9, <2>1, <2>2, <2>3, <2>4, <2>5, <2>11
    <3>3. Total(f, b) = f[b].size
      BY <1>2, <3>1 DEF Header
    <3> QED
      BY <2>2, <3>1, <3>2, <3>3 DEF Freed
  <2> QED
    BY <2>10, <2>11
<1> QED
  BY <1>10, <1>11 DEF NextFree

(* What the table g that kfree leaves has to do with f, the one it found.   *)
Released(f, g, b) ==
  /\ Merged(g) /\ DOMAIN g # {}
  /\ \A a : a \in DOMAIN g /\ ~g[a].free <=> a \in DOMAIN f /\ ~f[a].free /\ a # b
  /\ \A a \in DOMAIN f : ~f[a].free /\ a # b => g[a].size = f[a].size
  /\ LastBig(f) => LastBig(g)
  /\ \E a \in DOMAIN g : g[a].free /\ g[a].size >= f[b].size

(* Freeing block b keeps the list sound and the tiling, leaves no two free  *)
(* neighbours, and changes no other block in use.                           *)
LEMMA FreedOutcome ==
  ASSUME NEW f, NEW e \in Nat, Chain(f, e), Merged(f), NEW b \in DOMAIN f, ~f[b].free
  PROVE  Chain(Freed(f, b), e) /\ Released(f, Freed(f, b), b)
<1> DEFINE n == f[b].next
           p == f[b].prev
           z == f[n].next
           r == Freed(f, b)
           D == DOMAIN f
<1>1. /\ f \in [D -> Header] /\ NULL \notin D
      /\ \A a \in D : a \in Nat /\ a # NULL /\ f[a] \in Header
  BY HeapAssumption DEF Chain, Typed, NULL
<1>2. n # NULL => n \in D /\ b < n /\ f[n].prev = b /\ n # b
  BY <1>1, NextPrev
<1>3. p # NULL => p \in D /\ p < b /\ f[p].next = b /\ p # b
  BY <1>1, PrevNext
<1>4. n # NULL /\ z # NULL => z \in D /\ n < z /\ f[z].prev = n /\ z # b /\ z # n
  BY <1>1, <1>2, NextPrev
<1>5. p # NULL /\ n # NULL => p # n /\ z # p
  BY <1>1, <1>2, <1>3, <1>4
<1>6. /\ DOMAIN r = D \ Gone(f, b)
      /\ \A a \in DOMAIN r :
           r[a] = [free |-> IF a = Lo(f, b) THEN TRUE ELSE f[a].free,
                   next |-> IF a = Lo(f, b) THEN Hi(f, b) ELSE f[a].next,
                   prev |-> IF a = Hi(f, b) THEN Lo(f, b) ELSE f[a].prev,
                   size |-> IF a = Lo(f, b) THEN Total(f, b) ELSE f[a].size]
      /\ r = [a \in DOMAIN r |-> r[a]]
  BY DEF Freed
<1>7. /\ Lo(f, b) \in D /\ Lo(f, b) \notin Gone(f, b)
      /\ Hi(f, b) \in Nat /\ Total(f, b) \in Nat
      /\ Lo(f, b) = IF PrevFree(f, b) THEN p ELSE b
      /\ Hi(f, b) = IF NextFree(f, b) THEN z ELSE n
  BY <1>1, <1>2, <1>3, <1>5 DEF Lo, Hi, Total, Gone, PrevFree, NextFree, IsFreeBlock, Header
<1> DEFINE lo == Lo(f, b)
           hi == Hi(f, b)
           tot == Total(f, b)
           gone == Gone(f, b)
<1> HIDE DEF r, n, p, z, lo, hi, tot, gone
<1>8. ASSUME NEW a \in DOMAIN r
      PROVE  /\ a = lo => r[a].free = TRUE
             /\ a # lo => r[a].free = f[a].free
             /\ r[a].next = (IF a = lo THEN hi ELSE f[a].next)
             /\ r[a].prev = (IF a = hi THEN lo ELSE f[a].prev)
             /\ r[a].size = (IF a = lo THEN tot ELSE f[a].size)
             /\ r[a] \in Header
  <2>1. a \in D /\ f[a] \in Header /\ lo \in Nat /\ hi \in Nat /\ tot \in Nat
    BY <1>1, <1>6, <1>7 DEF lo, hi, tot
  <2>2. CASE a = lo
    <3>1. r[a] = [free |-> TRUE, next |-> hi, prev |-> IF a = hi THEN lo ELSE f[a].prev, size |-> tot]
      BY <1>6, <2>2 DEF lo, hi, tot
    <3>2. (IF a = hi THEN lo ELSE f[a].prev) \in Nat
      BY <2>1 DEF Header
    <3> QED
      BY <2>1, <2>2, <3>1, <3>2 DEF Header
  <2>3. CASE a # lo
    <3>1. r[a] = [free |-> f[a].free, next |-> f[a].next, prev |-> IF a = hi THEN lo ELSE f[a].prev,
                  size |-> f[a].size]
      BY <1>6, <2>3 DEF lo, hi, tot
    <3>2. (IF a = hi THEN lo ELSE f[a].prev) \in Nat
      BY <2>1 DEF Header
    <3> QED
      BY <2>1, <2>3, <3>1, <3>2 DEF Header
  <2> QED
    BY <2>2, <2>3
<1>10. r \in [DOMAIN r -> Header]
  BY <1>6, <1>8
<1>11. Chain(r, e)
  <2> DEFINE j == IF NextFree(f, b) THEN Join(f, b) ELSE f
             k == IF PrevFree(f, b) THEN Join(j, p) ELSE j
  <2>1. /\ Chain(j, e)
        /\ DOMAIN j = IF NextFree(f, b) THEN D \ {n} ELSE D
        /\ \A a \in DOMAIN j :
             /\ j[a].next = IF a = b THEN hi ELSE f[a].next
             /\ j[a].prev = IF a = hi THEN b ELSE f[a].prev
             /\ j[a].size = IF a = b /\ NextFree(f, b) THEN f[b].size + f[n].size ELSE f[a].size
    <3>1. CASE NextFree(f, b)
      <4>1. n # NULL /\ hi = z /\ f[b].next = n
        BY <1>7, <3>1 DEF NextFree, IsFreeBlock, n, hi
      <4>2. Chain(j, e)
        BY <3>1, <4>1, JoinChain
      <4> QED
        BY <3>1, <4>1, <4>2 DEF Join, z
    <3>2. CASE ~NextFree(f, b)
      <4>1. hi = n /\ f[b].next = n
        BY <1>7, <3>2 DEF n, hi
      <4>2. \A a \in D : a = n => f[a].prev = b
        BY <1>1, <1>2
      <4> QED
        BY <3>2, <4>1, <4>2
    <3> QED
      BY <3>1, <3>2
  <2> HIDE DEF j
  <2>2. /\ Chain(k, e) /\ DOMAIN k = D \ gone
        /\ \A a \in DOMAIN k :
             /\ k[a].next = IF a = lo THEN hi ELSE f[a].next
             /\ k[a].prev = IF a = hi THEN lo ELSE f[a].prev
             /\ k[a].size = IF a = lo THEN tot ELSE f[a].size
    <3>1. CASE PrevFree(f, b)
      <4>1. p # NULL /\ lo = p /\ gone = {b} \cup (IF NextFree(f, b) THEN {n} ELSE {})
            /\ tot = f[p].size + (f[b].size + (IF NextFree(f, b) THEN f[n].size ELSE 0))
        BY <3>1 DEF PrevFree, IsFreeBlock, p, n, lo, Lo, gone, Gone, tot, Total
      <4>2. NextFree(f, b) => n # NULL
        BY DEF NextFree, IsFreeBlock, n
      <4>3. p \in DOMAIN j /\ p # b /\ b \in DOMAIN j /\ j[p].next = b /\ b # NULL
        BY <1>1, <1>2, <1>3, <1>5, <2>1, <4>1, <4>2
      <4>4. Chain(k, e)
        BY <2>1, <3>1, <4>3, JoinChain
      <4>5. /\ DOMAIN k = DOMAIN j \ {b}
            /\ \A a \in DOMAIN k :
                 /\ k[a].next = IF a = p THEN j[b].next ELSE j[a].next
                 /\ k[a].prev = IF a = j[b].next THEN p ELSE j[a].prev
                 /\ k[a].size = IF a = p THEN j[p].size + j[b].size ELSE j[a].size
        BY <3>1, <4>3 DEF Join
      <4>6. j[b].next = hi /\ j[p].size = f[p].size 
            /\ j[b].size = f[b].size + (IF NextFree(f, b) THEN f[n].size ELSE 0)
        BY <1>1, <2>1, <4>3 DEF Header
      <4>7. DOMAIN k = D \ gone
        BY <2>1, <4>1, <4>5
      <4> HIDE DEF k
      <4> QED
        BY <2>1, <4>1, <4>4, <4>5, <4>6, <4>7
    <3>2. CASE ~PrevFree(f, b)
      <4>1. lo = b /\ gone = (IF NextFree(f, b) THEN {n} ELSE {}) /\ k = j
            /\ tot = 0 + (f[b].size + (IF NextFree(f, b) THEN f[n].size ELSE 0))
        BY <3>2 DEF n, lo, Lo, gone, Gone, tot, Total
      <4>2. tot = IF NextFree(f, b) THEN f[b].size + f[n].size ELSE f[b].size
        <5>1. f[b] \in Header /\ (NextFree(f, b) => f[n] \in Header)
          BY <1>1, <1>2 DEF NextFree, IsFreeBlock, n
        <5> QED
          BY <4>1, <5>1 DEF Header
      <4> QED
        BY <2>1, <4>1, <4>2
    <3> QED
      BY <3>1, <3>2
  <2> HIDE DEF k
  <2>3. DOMAIN r = DOMAIN k
    BY <1>6, <2>2 DEF gone
  <2>4. ASSUME NEW a \in DOMAIN k
        PROVE  r[a].next = k[a].next /\ r[a].prev = k[a].prev /\ r[a].size = k[a].size
    <3>1. /\ r[a].next = IF a = lo THEN hi ELSE f[a].next
          /\ r[a].prev = IF a = hi THEN lo ELSE f[a].prev
          /\ r[a].size = IF a = lo THEN tot ELSE f[a].size
      BY <1>8, <2>3
    <3>2. /\ k[a].next = IF a = lo THEN hi ELSE f[a].next
          /\ k[a].prev = IF a = hi THEN lo ELSE f[a].prev
          /\ k[a].size = IF a = lo THEN tot ELSE f[a].size
      BY <2>2
    <3> QED
      BY <3>1, <3>2
  <2> QED
    BY <1>10, <2>2, <2>3, <2>4, ChainFields
<1>12. /\ \A a : a \in DOMAIN r /\ ~r[a].free <=> a \in D /\ ~f[a].free /\ a # b
       /\ \A a \in D : ~f[a].free /\ a # b => a \in DOMAIN r /\ r[a].size = f[a].size
  <2>1. f[lo].free \/ lo = b
    BY <1>7 DEF lo, PrevFree, IsFreeBlock, p
  <2>2. \A a \in gone : a = b \/ f[a].free
    BY DEF gone, Gone, NextFree, IsFreeBlock
  <2>3. b \in gone \/ b = lo
    BY DEF gone, Gone, lo, Lo
  <2>4. DOMAIN r = D \ gone
    BY <1>6 DEF gone
  <2>5. \A a \in D : ~f[a].free /\ a # b => a \in DOMAIN r /\ a # lo
    BY <2>1, <2>2, <2>4
  <2>6. \A a \in DOMAIN r : r[a].free \/ (a # lo /\ a # b /\ ~f[a].free)
    BY <1>8, <2>3, <2>4
  <2> QED
    BY <1>8, <2>4, <2>5, <2>6
<1>13. Merged(r)
  <2> SUFFICES ASSUME NEW a \in DOMAIN r, r[a].free, r[a].next # NULL
               PROVE  ~r[r[a].next].free
    BY DEF Merged
  <2>0. DOMAIN r = D \ gone /\ a \in D
    BY <1>6 DEF gone
  <2>1. r[a].next \in DOMAIN r
    BY <1>11 DEF Chain, NextOK
  <2>2. CASE a = lo
    <3>1. r[a].next = hi
      BY <1>8, <2>2
    <3>2. ~f[hi].free
      <4>1. CASE NextFree(f, b)
        BY <1>2, <1>7, <2>1, <3>1, <4>1 DEF NextFree, IsFreeBlock, Merged, hi, n, z
      <4>2. CASE ~NextFree(f, b)
        BY <1>7, <3>1, <4>2 DEF NextFree, IsFreeBlock, hi, n
      <4> QED
        BY <4>1, <4>2
    <3>3. hi # lo
      BY <1>11, <2>1, <2>2, <3>1, <1>1, <2>0 DEF Chain, NextOK
    <3> QED
      BY <1>8, <2>1, <3>1, <3>2, <3>3
  <2>3. CASE a # lo
    <3>1. f[a].free /\ r[a].next = f[a].next
      BY <1>8, <2>3
    <3>2. ~f[f[a].next].free
      BY <2>0, <3>1 DEF Merged
    <3>3. f[a].next # lo
      <4>1. CASE PrevFree(f, b)
        BY <1>7, <3>2, <4>1 DEF PrevFree, IsFreeBlock, lo, p
      <4>2. CASE ~PrevFree(f, b)
        <5>1. ASSUME f[a].next = b PROVE FALSE
          BY <1>1, <2>0, <3>1, <4>2, <5>1, NextPrev DEF PrevFree, IsFreeBlock
        <5> QED
          BY <1>7, <4>2, <5>1 DEF lo
      <4> QED
        BY <4>1, <4>2
    <3> QED
      BY <1>8, <2>1, <3>1, <3>2, <3>3
  <2> QED
    BY <2>2, <2>3
<1>14. lo \in DOMAIN r
  BY <1>6, <1>7 DEF lo
<1>15. /\ tot >= f[b].size
       /\ NextFree(f, b) => n \in D /\ tot >= f[n].size
  <2>1. f[b].size \in Nat /\ (NextFree(f, b) => n \in D /\ f[n].size \in Nat)
        /\ (PrevFree(f, b) => f[p].size \in Nat)
    BY <1>1, <1>2, <1>3 DEF NextFree, PrevFree, IsFreeBlock, Header, n, p
  <2> QED
    BY <2>1 DEF tot, Total, n, p
<1>16. LastBig(f) => LastBig(r)
  <2> SUFFICES ASSUME LastBig(f), NEW a \in DOMAIN r, r[a].next = NULL PROVE r[a].size > 32
    BY DEF LastBig
  <2>1. CASE a = lo
    <3>1. r[a].size = tot /\ hi = NULL /\ tot \in Nat
      BY <1>7, <1>8, <2>1 DEF tot
    <3>2. CASE NextFree(f, b)
      <4>1. n \in D /\ f[n].next = NULL
        BY <1>7, <1>15, <3>1, <3>2 DEF hi, z
      <4>2. f[n].size > 32 /\ f[n].size \in Nat
        BY <1>1, <4>1 DEF LastBig, Header
      <4> QED
        BY <1>15, <3>1, <3>2, <4>2
    <3>3. CASE ~NextFree(f, b)
      <4>1. f[b].next = NULL
        BY <1>7, <3>1, <3>3 DEF hi, n
      <4>2. f[b].size > 32 /\ f[b].size \in Nat
        BY <1>1, <4>1 DEF LastBig, Header
      <4> QED
        BY <1>15, <3>1, <4>2
    <3> QED
      BY <3>2, <3>3
  <2>2. CASE a # lo
    <3>1. f[a].next = NULL /\ r[a].size = f[a].size /\ a \in D
      BY <1>6, <1>8, <2>2
    <3> QED
      BY <3>1 DEF LastBig
  <2> QED
    BY <2>1, <2>2
<1>17. \E a \in DOMAIN r : r[a].free /\ r[a].size >= f[b].size
  <2>1. r[lo].free /\ r[lo].size = tot
    BY <1>8, <1>14
  <2> QED
    BY <1>14, <1>15, <2>1
<1> QED
  BY <1>11, <1>12, <1>13, <1>14, <1>16, <1>17 DEF Released, r

-----------------------------------------------------------------------------
(* kmalloc on a table *)

(* The table when kmalloc marks b in use.                                   *)
Taken(f, b) == [f EXCEPT ![b] = [@ EXCEPT !.free = FALSE]]

(* Table g is f with block b marked in use.                                 *)
IsTaken(f, g, b) ==
  /\ DOMAIN g = DOMAIN f /\ ~g[b].free
  /\ \A a \in DOMAIN f : /\ a # b => g[a].free = f[a].free
                         /\ g[a].next = f[a].next /\ g[a].size = f[a].size

(* Marking a block in use changes neither the list nor the tiling.          *)
LEMMA TakenOutcome ==
  ASSUME NEW f, NEW e \in Nat, Chain(f, e), NEW b \in DOMAIN f
  PROVE  Chain(Taken(f, b), e) /\ IsTaken(f, Taken(f, b), b)
<1> DEFINE g == Taken(f, b)
<1>1. f \in [DOMAIN f -> Header] /\ \A a \in DOMAIN f : f[a] \in Header
  BY DEF Chain, Typed
<1>2. [f[b] EXCEPT !.free = FALSE] = [free |-> FALSE, next |-> f[b].next, prev |-> f[b].prev, size |-> f[b].size]
  BY <1>1, HeaderMark
<1>3. g = [f EXCEPT ![b] = [free |-> FALSE, next |-> f[b].next, prev |-> f[b].prev, size |-> f[b].size]]
  BY <1>2 DEF Taken
<1> HIDE DEF g
<1>4. DOMAIN g = DOMAIN f /\ g = [a \in DOMAIN g |-> g[a]]
      /\ g[b] = [free |-> FALSE, next |-> f[b].next, prev |-> f[b].prev, size |-> f[b].size]
      /\ \A a \in DOMAIN f : a # b => g[a] = f[a]
  BY <1>1, <1>3
<1>5. g[b] \in Header
  BY <1>1, <1>4 DEF Header
<1>6. g \in [DOMAIN f -> Header]
  BY <1>1, <1>4, <1>5
<1>7. \A a \in DOMAIN f : g[a].next = f[a].next /\ g[a].prev = f[a].prev /\ g[a].size = f[a].size
  BY <1>4
<1>8. Chain(g, e)
  BY <1>4, <1>6, <1>7, ChainFields
<1> QED
  BY <1>4, <1>7, <1>8 DEF IsTaken, g

(* Block b cut after len bytes, the remainder a free block of its own.      *)
Cut(f, b, len) ==
  LET s == b + HDR + len
  IN [a \in DOMAIN f \cup {s} |->
        IF a = s THEN [free |-> TRUE, next |-> f[b].next, prev |-> b,
                       size |-> f[b].size - HDR - len]
        ELSE [free |-> f[a].free,
              next |-> IF a = b THEN s ELSE f[a].next,
              prev |-> IF a = f[b].next THEN s ELSE f[a].prev,
              size |-> IF a = b THEN len ELSE f[a].size]]

(* The table Split leaves, given the remainder's address s and size.        *)
SplitAt(f, b, len, s, size) ==
  LET rest   == [free |-> TRUE, next |-> f[b].next, prev |-> b, size |-> size]
      relink == SetPrev(f, f[b].next, s)
      cut    == [relink EXCEPT ![b] = [@ EXCEPT !.next = s, !.size = len]]
  IN Insert(cut, s, rest)

(* The table of Split, sizes and addresses as the code computes them.       *)
SplitTable(f, b, len) ==
  SplitAt(f, b, len, Wrap(Wrap(b + HDR) + len), Wrap(Wrap(f[b].size - HDR) - len))

(* kmalloc's split computes Cut: none of its sums and differences wraps.    *)
LEMMA SplitForm ==
  ASSUME NEW h, NEW e \in Nat, e < Word, Chain(h.hdr, e), NEW b \in DOMAIN h.hdr,
         NEW len \in Nat, len + 4116 < Word, Splits(h, b, len)
  PROVE  /\ h.hdr[b].size > len + HDR + SPLIT
         /\ Split(h, b, len) = [h EXCEPT !.hdr = Cut(h.hdr, b, len)]
<1> DEFINE f == h.hdr
           n == f[b].next
           s == b + HDR + len
           rest == [free |-> TRUE, next |-> n, prev |-> b, size |-> f[b].size - HDR - len]
<1>1. /\ f \in [DOMAIN f -> Header] /\ NULL \notin DOMAIN f /\ b \in DOMAIN f
      /\ \A a \in DOMAIN f : a \in Nat /\ f[a] \in Header
  BY HeapAssumption DEF Chain, Typed, NULL
<1>2. f[b].size \in Nat /\ b \in Nat
  BY <1>1 DEF Header
<1>3. Wrap(len + HDR) = len + HDR /\ Wrap(SPLIT + (len + HDR)) = SPLIT + (len + HDR)
  BY HeapAssumption, WrapNone DEF HDR, SPLIT
<1>4. f[b].size > len + HDR + SPLIT
  BY <1>2, <1>3 DEF Splits, HDR, SPLIT
<1>5. b + HDR + f[b].size <= e
  BY DEF Chain, SpanOK, End
<1>6. /\ b + HDR \in Nat /\ b + HDR < Word /\ s \in Nat /\ s < Word
      /\ f[b].size - HDR \in Nat /\ f[b].size - HDR < Word
      /\ f[b].size - HDR - len \in Nat /\ f[b].size - HDR - len < Word
  BY HeapAssumption, <1>2, <1>4, <1>5 DEF HDR, SPLIT
<1>7. /\ Wrap(b + HDR) = b + HDR /\ Wrap(s) = s
      /\ Wrap(f[b].size - HDR) = f[b].size - HDR /\ Wrap(f[b].size - HDR - len) = f[b].size - HDR - len
      /\ Wrap(Wrap(b + HDR) + len) = s
      /\ Wrap(Wrap(f[b].size - HDR) - len) = f[b].size - HDR - len
  BY <1>6, WrapNone
<1> DEFINE relink == SetPrev(f, n, s)
           cut == [relink EXCEPT ![b] = [@ EXCEPT !.next = s, !.size = len]]
<1>8. Split(h, b, len) = [h EXCEPT !.hdr = Insert(cut, s, rest)]
  <2>1. Split(h, b, len) = [h EXCEPT !.hdr = SplitTable(f, b, len)]
    BY DEF Split, SplitAt, SplitTable
  <2>2. SplitTable(f, b, len) = SplitAt(f, b, len, s, f[b].size - HDR - len)
    BY <1>7 DEF SplitTable
  <2> QED
    BY <2>1, <2>2 DEF SplitAt
<1>9. n # NULL => n \in DOMAIN f /\ n # b /\ f[n] \in Header
  BY <1>1, NextPrev
<1> HIDE DEF f, s, n, rest
<1>10. relink = [a \in DOMAIN f |-> [free |-> f[a].free, next |-> f[a].next,
                                    prev |-> IF a = n THEN s ELSE f[a].prev, size |-> f[a].size]]
  BY <1>1, <1>9, SetPrevForm
<1>11. relink[b] = f[b] /\ f[b] \in Header
  <2>1. b # n
    BY <1>1, <1>9
  <2>2. f[b] = [free |-> f[b].free, next |-> f[b].next, prev |-> f[b].prev, size |-> f[b].size]
    BY <1>1 DEF Header
  <2> QED
    BY <1>1, <1>10, <2>1, <2>2
<1>12. cut = [relink EXCEPT ![b] = [free |-> f[b].free, next |-> s, prev |-> f[b].prev, size |-> len]]
  <2>1. Resized(f[b], s, len) = [free |-> f[b].free, next |-> s, prev |-> f[b].prev, size |-> len]
    BY <1>11, HeaderExcept
  <2> HIDE DEF relink
  <2>2. cut = [relink EXCEPT ![b] = Resized(f[b], s, len)]
    BY <1>11 DEF Resized
  <2> HIDE DEF cut
  <2> QED
    BY <2>1, <2>2
<1> HIDE DEF relink, cut
<1>13. b # n
  BY <1>1, <1>9
<1>14. cut = [a \in DOMAIN f |-> [free |-> f[a].free, next |-> IF a = b THEN s ELSE f[a].next,
                                 prev |-> IF a = n THEN s ELSE f[a].prev,
                                 size |-> IF a = b THEN len ELSE f[a].size]]
  BY <1>10, <1>12, <1>13
<1>15. Insert(cut, s, rest) = Cut(f, b, len)
  BY <1>14 DEF Insert, Cut, s, n, rest
<1> QED
  BY <1>4, <1>8, <1>15 DEF f

(* Table g is f with block b cut to len bytes and the remainder headed by s.  *)
IsCut(f, g, b, s, len) ==
  /\ s \notin DOMAIN f /\ DOMAIN g = DOMAIN f \cup {s}
  /\ g[s].free /\ g[s].next = f[b].next /\ g[s].size > 32 /\ s # NULL /\ g[b].next = s /\ g[b].size = len
  /\ \A a \in DOMAIN f : /\ g[a].free = f[a].free
                         /\ a # b => g[a].next = f[a].next /\ g[a].size = f[a].size

(* A block cut in two still tiles the heap, and the remainder is on the     *)
(* list between it and the block after.                                     *)
LEMMA CutOutcome ==
  ASSUME NEW f, NEW e \in Nat, Chain(f, e), NEW b \in DOMAIN f,
         NEW len \in Nat, f[b].size > len + HDR + SPLIT
  PROVE  Chain(Cut(f, b, len), e) /\ IsCut(f, Cut(f, b, len), b, b + HDR + len, len)
<1> DEFINE s == b + HDR + len
           g == Cut(f, b, len)
           n == f[b].next
           D == DOMAIN f
<1>0. /\ f \in [D -> Header] /\ NULL \notin D
      /\ \A a \in D : a \in Nat /\ f[a] \in Header /\ HeapStart <= a /\ a # NULL
  BY HeapAssumption DEF Chain, Typed, NULL
<1>1. \A a \in D : a \in Nat /\ f[a] \in Header /\ f[a].next \in Nat /\ f[a].prev \in Nat /\ f[a].size \in Nat
                      /\ HeapStart <= a /\ a # NULL
  BY <1>0 DEF Header
<1>2. n # NULL => n \in D /\ b < n /\ f[n].prev = b
  BY NextPrev
<1>3. /\ b + HDR + f[b].size <= (IF n = NULL THEN e ELSE n)
      /\ ((IF n = NULL THEN e ELSE n) - (b + HDR + f[b].size)) % HDR = 0
      /\ b + HDR + f[b].size <= e
  BY DEF Chain, SpanOK, Above, End
<1>4. /\ n = NULL => \A c \in D : c <= b
      /\ n # NULL => \A c \in D : c <= b \/ n <= c
  BY DEF Chain, NextOK
<1>5. s \in Nat /\ b < s /\ s + HDR < b + HDR + f[b].size /\ s # NULL
  BY <1>1 DEF HDR, SPLIT, NULL
<1>6. s < (IF n = NULL THEN e ELSE n) /\ s < e
  BY <1>1, <1>3, <1>5 DEF HDR
<1>7. \A c \in D : c <= b \/ (n # NULL /\ n <= c)
  BY <1>4
<1>8. \A c \in D : c <= b \/ s < c
  BY <1>1, <1>5, <1>6, <1>7
<1>9. s \notin D
  BY <1>1, <1>5, <1>8
<1>10. /\ DOMAIN g = D \cup {s} /\ g = [a \in DOMAIN g |-> g[a]]
       /\ g[s] = [free |-> TRUE, next |-> n, prev |-> b, size |-> f[b].size - HDR - len]
       /\ \A a \in D : g[a] = [free |-> f[a].free, next |-> IF a = b THEN s ELSE f[a].next,
                               prev |-> IF a = n THEN s ELSE f[a].prev,
                               size |-> IF a = b THEN len ELSE f[a].size]
  BY <1>9 DEF Cut
<1> HIDE DEF g, n, s
<1>11. /\ g[s].free = TRUE /\ g[s].next = n /\ g[s].prev = b /\ g[s].size = f[b].size - HDR - len
       /\ g[s] \in Header
  <2>1. f[b].size - HDR - len \in Nat /\ n \in Nat /\ b \in Nat
    BY <1>1 DEF HDR, SPLIT, n
  <2> QED
    BY <1>10, <2>1 DEF Header
<1>12. ASSUME NEW a \in D
       PROVE  /\ g[a].free = f[a].free /\ g[a].next = (IF a = b THEN s ELSE f[a].next)
              /\ g[a].prev = (IF a = n THEN s ELSE f[a].prev)
              /\ g[a].size = (IF a = b THEN len ELSE f[a].size)
              /\ g[a] \in Header
  <2>1. g[a] = [free |-> f[a].free, next |-> IF a = b THEN s ELSE f[a].next,
                prev |-> IF a = n THEN s ELSE f[a].prev, size |-> IF a = b THEN len ELSE f[a].size]
    BY <1>10
  <2>2. /\ (IF a = b THEN s ELSE f[a].next) \in Nat /\ (IF a = n THEN s ELSE f[a].prev) \in Nat
        /\ (IF a = b THEN len ELSE f[a].size) \in Nat
    BY <1>1, <1>5
  <2>3. f[a].free \in BOOLEAN
    BY <1>1 DEF Header
  <2> QED
    BY <2>1, <2>2, <2>3 DEF Header
<1>13. Typed(g)
  <2>1. g \in [DOMAIN g -> Header]
    BY <1>10, <1>11, <1>12
  <2> QED
    BY HeapAssumption, <1>1, <1>5, <1>10, <2>1 DEF Typed, Chain
<1>14. ASSUME NEW a \in D PROVE NextOK(g, a)
  <2>1. CASE a = b
    <3>1. g[a].next = s
      BY <1>12, <2>1
    <3>2. \A c \in DOMAIN g : c <= a \/ s <= c
      BY <1>1, <1>5, <1>8, <1>10, <2>1
    <3> QED
      BY <1>5, <1>10, <2>1, <3>1, <3>2 DEF NextOK
  <2>2. CASE a # b
    <3>1. g[a].next = f[a].next
      BY <1>12, <2>2
    <3>2. CASE f[a].next = NULL
      <4>1. \A c \in D : c <= a
        BY <3>2 DEF Chain, NextOK
      <4>2. b < a
        BY <1>1, <2>2, <4>1
      <4>3. s < a
        BY <1>1, <1>5, <1>8, <4>2
      <4> QED
        BY <1>1, <1>5, <1>10, <3>1, <3>2, <4>1, <4>3 DEF NextOK
    <3>3. CASE f[a].next # NULL
      <4>1. f[a].next \in D /\ a < f[a].next /\ \A c \in D : c <= a \/ f[a].next <= c
        BY <3>3 DEF Chain, NextOK
      <4>2. s <= a \/ f[a].next <= s
        BY <1>1, <1>5, <1>8, <2>2, <4>1
      <4> QED
        BY <1>10, <3>1, <3>3, <4>1, <4>2 DEF NextOK
    <3> QED
      BY <3>2, <3>3
  <2> QED
    BY <2>1, <2>2
<1>15. ASSUME NEW a \in D PROVE PrevOK(g, a)
  <2>1. CASE a = n
    <3>1. g[a].prev = s
      BY <1>12, <2>1
    <3>2. n # NULL /\ s < a
      BY <1>1, <1>6, <2>1
    <3>3. \A c \in DOMAIN g : a <= c \/ c <= s
      BY <1>1, <1>5, <1>7, <1>10, <2>1
    <3> QED
      BY <1>5, <1>10, <3>1, <3>2, <3>3 DEF PrevOK
  <2>2. CASE a # n
    <3>1. g[a].prev = f[a].prev
      BY <1>12, <2>2
    <3>2. CASE f[a].prev = NULL
      <4>1. \A c \in D : a <= c
        BY <3>2 DEF Chain, PrevOK
      <4>2. a <= s
        BY <1>1, <1>5, <4>1
      <4> QED
        BY <1>10, <3>1, <3>2, <4>1, <4>2 DEF PrevOK
    <3>3. CASE f[a].prev # NULL
      <4>1. f[a].prev \in D /\ f[a].prev < a /\ \A c \in D : a <= c \/ c <= f[a].prev
        BY <3>3 DEF Chain, PrevOK
      <4>2. f[a].prev # b
        BY <2>2, <3>3, PrevNext DEF n
      <4>3. a <= s \/ s <= f[a].prev
        BY <1>1, <1>5, <1>8, <4>1, <4>2
      <4> QED
        BY <1>10, <3>1, <3>3, <4>1, <4>3 DEF PrevOK
    <3> QED
      BY <3>2, <3>3
  <2> QED
    BY <2>1, <2>2
<1>16. ASSUME NEW a \in D PROVE SpanOK(g, e, a)
  <2>1. CASE a = b
    <3>1. g[a].next = s /\ g[a].size = len /\ End(g, a) = s /\ Above(g, e, a) = s
      BY <1>5, <1>12, <2>1 DEF End, Above, s
    <3>2. s - s = 0 /\ 0 % HDR = 0
      BY <1>5 DEF HDR
    <3> QED
      BY <1>5, <1>6, <3>1, <3>2 DEF SpanOK
  <2>2. CASE a # b
    <3>1. g[a].next = f[a].next /\ g[a].size = f[a].size
      BY <1>12, <2>2
    <3> QED
      BY <3>1 DEF SpanOK, End, Above, Chain
  <2> QED
    BY <2>1, <2>2
<1>17. NextOK(g, s) /\ PrevOK(g, s) /\ SpanOK(g, e, s)
  <2>1. NextOK(g, s)
    BY <1>1, <1>2, <1>5, <1>6, <1>7, <1>10, <1>11 DEF NextOK
  <2>2. PrevOK(g, s)
    BY <1>1, <1>5, <1>8, <1>10, <1>11 DEF PrevOK
  <2>3. End(g, s) = b + HDR + f[b].size /\ Above(g, e, s) = (IF n = NULL THEN e ELSE n)
    BY <1>1, <1>11 DEF End, Above, HDR, s
  <2> QED
    BY <1>3, <2>1, <2>2, <2>3 DEF SpanOK
<1>18. Chain(g, e)
  BY <1>10, <1>13, <1>14, <1>15, <1>16, <1>17 DEF Chain
<1>19. b # NULL /\ g[b].next = s /\ g[b].size = len
  BY <1>1, <1>12
<1>20. g[s].size > 32
  BY <1>1, <1>11 DEF HDR, SPLIT
<1> QED
  BY <1>5, <1>9, <1>10, <1>11, <1>12, <1>18, <1>19, <1>20 DEF IsCut, g, n, s

(* What the table g that kmalloc leaves has to do with f, the one it found. *)
Served(f, g, b, len) ==
  /\ Merged(g)
  /\ b \in DOMAIN g /\ ~g[b].free /\ g[b].size >= len
  /\ b \in DOMAIN f => f[b].free
  /\ \A a : a \in DOMAIN g /\ ~g[a].free <=> a = b \/ (a \in DOMAIN f /\ ~f[a].free)
  /\ \A a \in DOMAIN f : ~f[a].free => g[a].size = f[a].size
  /\ LastBig(f) => LastBig(g)

(* The free block that kmalloc found is handed out whole.                   *)
LEMMA WholeOutcome ==
  ASSUME NEW f, NEW e \in Nat, Chain(f, e), Merged(f), NEW b \in DOMAIN f, f[b].free,
         NEW len \in Nat, f[b].size >= len
  PROVE  Chain(Taken(f, b), e) /\ Served(f, Taken(f, b), b, len)
<1> DEFINE g == Taken(f, b)
<1>1. Chain(g, e) /\ IsTaken(f, g, b)
  BY TakenOutcome
<1> HIDE DEF g
<1> USE DEF IsTaken
<1>2. Merged(g)
  <2> SUFFICES ASSUME NEW a \in DOMAIN f, g[a].free, g[a].next # NULL
               PROVE  ~g[g[a].next].free
    BY <1>1 DEF Merged
  <2>1. a # b /\ f[a].free /\ g[a].next = f[a].next
    BY <1>1
  <2>2. ~f[f[a].next].free /\ f[a].next \in DOMAIN f
    BY <2>1 DEF Merged, Chain, NextOK
  <2> QED
    BY <1>1, <2>1, <2>2
<1>3. LastBig(f) => LastBig(g)
  BY <1>1 DEF LastBig
<1> QED
  BY <1>1, <1>2, <1>3 DEF Served, g

(* The free block that kmalloc found is cut, and the part asked for handed  *)
(* out; the remainder has no free neighbour to merge with.                  *)
LEMMA CutTakenOutcome ==
  ASSUME NEW f, NEW e \in Nat, Chain(f, e), Merged(f), NEW b \in DOMAIN f, f[b].free,
         NEW len \in Nat, f[b].size > len + HDR + SPLIT
  PROVE  Chain(Taken(Cut(f, b, len), b), e) /\ Served(f, Taken(Cut(f, b, len), b), b, len)
<1> DEFINE s == b + HDR + len
           c == Cut(f, b, len)
           g == Taken(c, b)
           n == f[b].next
<1>1. Chain(c, e) /\ IsCut(f, c, b, s, len)
  BY CutOutcome
<1> HIDE DEF c, s
<1> USE DEF IsCut
<1>1a. b \in DOMAIN c
  BY <1>1
<1>2. Chain(g, e) /\ IsTaken(c, g, b)
  BY <1>1, <1>1a, TakenOutcome
<1> HIDE DEF g
<1> USE DEF IsTaken
<1>3. Merged(g)
  <2> SUFFICES ASSUME NEW a \in DOMAIN g, g[a].free, g[a].next # NULL
               PROVE  ~g[g[a].next].free
    BY DEF Merged
  <2>1. a # b /\ g[a].next \in DOMAIN g
    BY <1>2 DEF Chain, NextOK
  <2>2. CASE a = s
    <3>1. g[a].next = n
      BY <1>1, <1>2, <2>2
    <3>2. n \in DOMAIN f /\ ~f[n].free
      BY <3>1 DEF Merged, Chain, NextOK, n
    <3> QED
      BY <1>1, <1>2, <3>1, <3>2
  <2>3. CASE a # s
    <3>1. a \in DOMAIN f /\ f[a].free /\ g[a].next = f[a].next
      BY <1>1, <1>2, <2>1, <2>3
    <3>2. f[a].next \in DOMAIN f /\ ~f[f[a].next].free
      BY <3>1 DEF Merged, Chain, NextOK
    <3> QED
      BY <1>1, <1>2, <3>1, <3>2
  <2> QED
    BY <2>2, <2>3
<1>4. g[b].size >= len
  BY <1>1, <1>2
<1>5. \A a : a \in DOMAIN g /\ ~g[a].free <=> a = b \/ (a \in DOMAIN f /\ ~f[a].free)
  BY <1>1, <1>2
<1>6. \A a \in DOMAIN f : ~f[a].free => g[a].size = f[a].size
  BY <1>1, <1>2
<1>7. LastBig(f) => LastBig(g)
  <2> SUFFICES ASSUME LastBig(f), NEW a \in DOMAIN g, g[a].next = NULL PROVE g[a].size > 32
    BY DEF LastBig
  <2>1. a \in DOMAIN c /\ c[a].next = NULL /\ g[a].size = c[a].size
    BY <1>2
  <2>2. CASE a = s
    BY <1>1, <2>1, <2>2
  <2>3. CASE a # s
    <3>1. a # b /\ a \in DOMAIN f /\ f[a].next = NULL /\ c[a].size = f[a].size
      BY <1>1, <2>1, <2>3
    <3> QED
      BY <2>1, <3>1 DEF LastBig
  <2> QED
    BY <2>2, <2>3
<1> QED
  BY <1>1, <1>2, <1>3, <1>4, <1>5, <1>6, <1>7 DEF Served, g, c

(* The table after __new_blockspace: a block of n bytes in all, at e. *)
Grown(f, last, e, n) ==
  [a \in DOMAIN f \cup {e} |->
     IF a = e THEN [free |-> TRUE, next |-> NULL, prev |-> last, size |-> n - HDR]
     ELSE [free |-> f[a].free, next |-> IF a = last THEN e ELSE f[a].next,
           prev |-> f[a].prev, size |-> f[a].size]]

(* Table g is f with a block of n bytes in all appended at e.               *)
IsGrown(f, g, last, e, n) ==
  /\ e \notin DOMAIN f /\ DOMAIN g = DOMAIN f \cup {e}
  /\ g[e].free /\ g[e].next = NULL /\ g[e].size = n - HDR
  /\ \A a \in DOMAIN f : /\ g[a].free = f[a].free /\ g[a].size = f[a].size
                         /\ g[a].next = IF a = last THEN e ELSE f[a].next

(* last is what the walk of __find_free_block leaves in *last.              *)
IsLast(f, last) ==
  \/ DOMAIN f = {} /\ last = NULL
  \/ last \in DOMAIN f /\ f[last].next = NULL

(* The block __new_blockspace maps joins the end of the list, and the       *)
(* tiling reaches the new end of the heap.                                  *)
LEMMA GrownOutcome ==
  ASSUME NEW f, NEW e \in Nat, HeapStart <= e, Chain(f, e), NEW last, IsLast(f, last),
         DOMAIN f = {} => e = HeapStart, NEW n \in Nat, n >= HDR
  PROVE  Chain(Grown(f, last, e, n), e + n) /\ IsGrown(f, Grown(f, last, e, n), last, e, n)
<1> DEFINE g == Grown(f, last, e, n)
           D == DOMAIN f
<1>0. /\ f \in [D -> Header] /\ NULL \notin D /\ e # NULL
      /\ \A a \in D : a \in Nat /\ f[a] \in Header /\ HeapStart <= a /\ a # NULL
  BY HeapAssumption DEF Chain, Typed, NULL
<1>1. \A a \in D : a \in Nat /\ f[a].next \in Nat /\ f[a].prev \in Nat /\ f[a].size \in Nat
                   /\ f[a].free \in BOOLEAN
  BY <1>0 DEF Header
<1>2. \A a \in D : a + HDR + f[a].size <= e /\ a < e
  BY <1>1 DEF Chain, SpanOK, End, HDR
<1>3. e \notin D
  BY <1>1, <1>2
<1>4. last \in Nat /\ (last # NULL => last \in D /\ f[last].next = NULL) /\ (last = NULL => D = {})
  BY <1>0 DEF IsLast, NULL
<1>5. \A a \in D : a <= last /\ last \in D
  BY <1>0, <1>4 DEF Chain, NextOK
<1>6. \A a \in D : f[a].next = NULL => a = last
  <2> SUFFICES ASSUME NEW a \in D, f[a].next = NULL PROVE a = last
    OBVIOUS
  <2>1. last <= a /\ a <= last
    BY <1>5 DEF Chain, NextOK
  <2> QED
    BY <1>1, <1>4, <2>1
<1>7. /\ DOMAIN g = D \cup {e} /\ g = [a \in DOMAIN g |-> g[a]]
      /\ g[e] = [free |-> TRUE, next |-> NULL, prev |-> last, size |-> n - HDR]
      /\ \A a \in D : g[a] = [free |-> f[a].free, next |-> IF a = last THEN e ELSE f[a].next,
                              prev |-> f[a].prev, size |-> f[a].size]
  BY <1>3 DEF Grown
<1> HIDE DEF g
<1>8. /\ g[e].free = TRUE /\ g[e].next = NULL /\ g[e].prev = last /\ g[e].size = n - HDR
      /\ g[e] \in Header
  <2>1. n - HDR \in Nat
    BY DEF HDR
  <2> QED
    BY <1>4, <1>7, <2>1 DEF Header, NULL
<1>9. ASSUME NEW a \in D
      PROVE  /\ g[a].free = f[a].free /\ g[a].next = (IF a = last THEN e ELSE f[a].next)
             /\ g[a].prev = f[a].prev /\ g[a].size = f[a].size /\ g[a] \in Header
  <2>1. g[a] = [free |-> f[a].free, next |-> IF a = last THEN e ELSE f[a].next,
                prev |-> f[a].prev, size |-> f[a].size]
    BY <1>7
  <2>2. (IF a = last THEN e ELSE f[a].next) \in Nat
    BY <1>1
  <2> QED
    BY <1>1, <2>1, <2>2 DEF Header
<1>10. Typed(g)
  <2>1. g \in [DOMAIN g -> Header]
    BY <1>7, <1>8, <1>9
  <2> QED
    BY HeapAssumption, <1>0, <1>7, <2>1 DEF Typed, Chain
<1>11. ASSUME NEW a \in D PROVE NextOK(g, a)
  <2>1. CASE a = last
    <3>1. g[a].next = e
      BY <1>9, <2>1
    <3> QED
      BY <1>0, <1>1, <1>2, <1>5, <1>7, <2>1, <3>1 DEF NextOK
  <2>2. CASE a # last
    <3>1. g[a].next = f[a].next /\ f[a].next # NULL
      BY <1>6, <1>9, <2>2
    <3>2. f[a].next \in D /\ a < f[a].next /\ \A c \in D : c <= a \/ f[a].next <= c
      BY <3>1 DEF Chain, NextOK
    <3> QED
      BY <1>1, <1>2, <1>7, <3>1, <3>2 DEF NextOK
  <2> QED
    BY <2>1, <2>2
<1>12. ASSUME NEW a \in D PROVE PrevOK(g, a)
  <2>1. g[a].prev = f[a].prev /\ a < e
    BY <1>2, <1>9
  <2> QED
    BY <1>1, <1>7, <2>1 DEF PrevOK, Chain
<1>13. ASSUME NEW a \in D PROVE SpanOK(g, e + n, a)
  <2>1. End(g, a) = End(f, a) /\ Above(g, e + n, a) = Above(f, e, a)
    BY <1>0, <1>4, <1>6, <1>9 DEF End, Above
  <2>2. End(f, a) \in Nat
    BY <1>1 DEF End, HDR
  <2> QED
    BY <2>1, <2>2 DEF SpanOK, Chain
<1>14. NextOK(g, e) /\ PrevOK(g, e) /\ SpanOK(g, e + n, e)
  <2>1. NextOK(g, e)
    BY <1>1, <1>2, <1>7, <1>8 DEF NextOK
  <2>2. PrevOK(g, e)
    BY <1>1, <1>2, <1>4, <1>5, <1>7, <1>8 DEF PrevOK
  <2>3. End(g, e) = e + n /\ Above(g, e + n, e) = e + n /\ e + n - (e + n) = 0 /\ 0 % HDR = 0
    BY <1>8 DEF End, Above, HDR
  <2> QED
    BY <2>1, <2>2, <2>3 DEF SpanOK
<1>15. Chain(g, e + n)
  BY <1>7, <1>10, <1>11, <1>12, <1>13, <1>14 DEF Chain
<1> QED
  BY <1>3, <1>7, <1>8, <1>9, <1>15 DEF IsGrown, g

(* The block __new_blockspace mapped is handed out; the last block may be   *)
(* free below it, for what is in use is no free neighbour.                  *)
LEMMA GrownTakenOutcome ==
  ASSUME NEW f, NEW e \in Nat, HeapStart <= e, Chain(f, e), Merged(f), NEW last, IsLast(f, last),
         DOMAIN f = {} => e = HeapStart, NEW n \in Nat, NEW len \in Nat, n >= HDR + len, n >= 4096
  PROVE  /\ Chain(Taken(Grown(f, last, e, n), e), e + n)
         /\ Served(f, Taken(Grown(f, last, e, n), e), e, len)
<1> DEFINE c == Grown(f, last, e, n)
           g == Taken(c, e)
<1>1. n >= HDR /\ n - HDR >= len /\ e + n \in Nat
  BY DEF HDR
<1>2. Chain(c, e + n) /\ IsGrown(f, c, last, e, n)
  BY <1>1, GrownOutcome
<1> HIDE DEF c
<1> USE DEF IsGrown
<1>3. e \in DOMAIN c
  BY <1>2
<1>4. Chain(g, e + n) /\ IsTaken(c, g, e)
  BY <1>1, <1>2, <1>3, TakenOutcome
<1> HIDE DEF g
<1> USE DEF IsTaken
<1>5. Merged(g)
  <2> SUFFICES ASSUME NEW a \in DOMAIN g, g[a].free, g[a].next # NULL
               PROVE  ~g[g[a].next].free
    BY DEF Merged
  <2>1. a # e /\ a \in DOMAIN f /\ f[a].free
    BY <1>2, <1>4
  <2>2. CASE a = last
    BY <1>2, <1>4, <2>1, <2>2
  <2>3. CASE a # last
    <3>1. g[a].next = f[a].next
      BY <1>2, <1>4, <2>1, <2>3
    <3>2. f[a].next \in DOMAIN f /\ ~f[f[a].next].free
      BY <2>1, <3>1 DEF Merged, Chain, NextOK
    <3> QED
      BY <1>2, <1>4, <3>1, <3>2
  <2> QED
    BY <2>2, <2>3
<1>6. g[e].size >= len
  BY <1>1, <1>2, <1>4
<1>7. \A a : a \in DOMAIN g /\ ~g[a].free <=> a = e \/ (a \in DOMAIN f /\ ~f[a].free)
  BY <1>2, <1>4
<1>8. \A a \in DOMAIN f : ~f[a].free => g[a].size = f[a].size
  BY <1>2, <1>4
<1>9. LastBig(f) => LastBig(g)
  <2> SUFFICES ASSUME LastBig(f), NEW a \in DOMAIN g, g[a].next = NULL PROVE g[a].size > 32
    BY DEF LastBig
  <2>1. a \in DOMAIN c /\ c[a].next = NULL /\ g[a].size = c[a].size
    BY <1>4
  <2>2. CASE a = e
    BY <1>2, <2>1, <2>2 DEF HDR
  <2>3. CASE a # e
    <3>1. e # NULL
      BY HeapAssumption DEF NULL
    <3>2. a \in DOMAIN f /\ f[a].next = NULL /\ c[a].size = f[a].size
      BY <1>2, <2>1, <2>3, <3>1
    <3> QED
      BY <2>1, <3>2 DEF LastBig
  <2> QED
    BY <2>2, <2>3
<1> QED
  BY <1>2, <1>4, <1>5, <1>6, <1>7, <1>8, <1>9 DEF Served, g, c

-----------------------------------------------------------------------------
(* kmalloc and kfree on the allocator's globals *)

(* h has the allocator's three globals and nothing else.                    *)
IsHeap(h) == h = [first |-> h.first, size |-> h.size, hdr |-> h.hdr]

(* The globals between two calls: a sound, merged list over all of the      *)
(* heap, empty only before the first call.                                  *)
HeapShape(h) ==
  /\ IsHeap(h)
  /\ h.size \in Nat
  /\ Chain(h.hdr, HeapStart + h.size) /\ Merged(h.hdr)
  /\ h.first = IF DOMAIN h.hdr = {} THEN NULL ELSE HeapStart
  /\ DOMAIN h.hdr = {} => h.size = 0

(* The globals with two of them assigned.                                   *)
Reheap(h, x, y) == [h EXCEPT !.size = x, !.hdr = y]

(* The assignments to _heap_size and the table leave _first_blk alone.      *)
LEMMA HeapReheap ==
  ASSUME NEW h, IsHeap(h), NEW x, NEW y
  PROVE  Reheap(h, x, y) = [first |-> h.first, size |-> x, hdr |-> y]
<1> DEFINE q == [h EXCEPT !.size = x]
<1>1. q = [first |-> h.first, size |-> x, hdr |-> h.hdr]
  BY DEF IsHeap
<1>2. Reheap(h, x, y) = [q EXCEPT !.hdr = y]
  BY DEF Reheap
<1> HIDE DEF q
<1>3. [q EXCEPT !.hdr = y] = [first |-> h.first, size |-> x, hdr |-> y]
  BY <1>1
<1> QED
  BY <1>2, <1>3

(* An assignment to the table leaves _first_blk and _heap_size alone.       *)
LEMMA HeapExcept ==
  ASSUME NEW h, IsHeap(h), NEW y
  PROVE  [h EXCEPT !.hdr = y] = [first |-> h.first, size |-> h.size, hdr |-> y]
  BY DEF IsHeap

(* The table __new_blockspace leaves, given the size it stores.             *)
GrowAt(f, last, e, size) ==
  Insert(SetNext(f, last, e), e, [free |-> TRUE, next |-> NULL, prev |-> last, size |-> size])

(* __new_blockspace advances _heap_size by what it asked for and appends a  *)
(* block of that size.                                                      *)
LEMMA new_blockspaceForm ==
  ASSUME NEW h, HeapShape(h), NEW last, IsLast(h.hdr, last), NEW n \in Nat, n + 4116 < Word
  PROVE  new_blockspace(h, last, n) =
           [first |-> h.first, size |-> h.size + GrowBytes(n),
            hdr |-> Grown(h.hdr, last, HeapStart + h.size, GrowBytes(n))]
<1> DEFINE f == h.hdr
           e == HeapStart + h.size
           m == GrowBytes(n)
           x == h.size + m
           y == Grown(f, last, e, m)
<1>1. m \in Nat /\ m > n + HDR /\ m < Word
  BY GrowFits
<1>2. Wrap(m - HDR) = m - HDR
  BY HeapAssumption, <1>1, WrapNone DEF HDR
<1>3. /\ f \in [DOMAIN f -> Header] /\ NULL \notin DOMAIN f
      /\ last = NULL \/ last \in DOMAIN f
  BY HeapAssumption DEF HeapShape, Chain, Typed, NULL, IsLast
<1> HIDE DEF m
<1>4. new_blockspace(h, last, n) = Reheap(h, x, GrowAt(f, last, e, Wrap(m - HDR)))
  BY DEF new_blockspace, Reheap, GrowAt, m
<1> HIDE DEF f, e
<1>5. SetNext(f, last, e) =
        [a \in DOMAIN f |-> [free |-> f[a].free, next |-> IF a = last THEN e ELSE f[a].next,
                             prev |-> f[a].prev, size |-> f[a].size]]
  BY <1>3, SetNextForm
<1>6. GrowAt(f, last, e, m - HDR) = y
  BY <1>5 DEF Insert, Grown, GrowAt
<1>7. GrowAt(f, last, e, Wrap(m - HDR)) = GrowAt(f, last, e, m - HDR)
  BY <1>2
<1>8. IsHeap(h)
  BY DEF HeapShape
<1> HIDE DEF x, y
<1>9. Reheap(h, x, y) = [first |-> h.first, size |-> x, hdr |-> y]
  BY <1>8, HeapReheap
<1> QED
  BY <1>4, <1>6, <1>7, <1>9 DEF f, e, m, x, y

(* Take changes the table only.                                             *)
LEMMA TakeForm ==
  ASSUME NEW h, IsHeap(h), NEW b
  PROVE  Take(h, b) = [first |-> h.first, size |-> h.size, hdr |-> Taken(h.hdr, b)]
<1>1. Take(h, b) = [h EXCEPT !.hdr = Taken(h.hdr, b)]
  BY DEF Take, Taken
<1> QED
  BY <1>1, HeapExcept

(* What kmalloc promises of its result r: a sound heap, and a block of at   *)
(* least len bytes that nobody had.                                         *)
Answers(h, r, len) ==
  /\ HeapShape(r.heap) /\ r.heap.first = HeapStart
  /\ r.ptr \in Nat /\ Served(h.hdr, r.heap.hdr, r.ptr - HDR, len)

(* kmalloc keeps its promise once there is a first block: whole, cut or     *)
(* newly mapped.                                                            *)
LEMMA kmalloc_blockOutcome ==
  ASSUME NEW h, HeapShape(h), DOMAIN h.hdr # {}, NEW len \in Nat, len + 4116 < Word,
         NEW r \in kmalloc_block(h, len), r.heap.size <= MaxHeap
  PROVE  Answers(h, r, len)
<1> DEFINE f == h.hdr
           e == HeapStart + h.size
<1>1. /\ e \in Nat /\ HeapStart <= e /\ Chain(f, e) /\ Merged(f) /\ h.first = HeapStart
      /\ IsHeap(h) /\ h.size \in Nat
  BY HeapAssumption DEF HeapShape
<1>2. \A a \in DOMAIN f : a \in Nat
  BY <1>1 DEF Chain, Typed
<1>3. ASSUME NEW b \in Nat, NEW g, NEW k \in Nat, r.ptr = b + HDR,
             r.heap = [first |-> h.first, size |-> k, hdr |-> g],
             Chain(g, HeapStart + k), Served(f, g, b, len)
      PROVE  Answers(h, r, len)
  <2>1. r.heap.first = HeapStart /\ r.heap.size = k /\ r.heap.hdr = g
        /\ r.ptr \in Nat /\ r.ptr - HDR = b
        /\ IsHeap(r.heap)
    BY <1>1, <1>3 DEF HDR, IsHeap
  <2>2. b \in DOMAIN g /\ Merged(g)
    BY <1>3 DEF Served
  <2>3. HeapShape(r.heap)
    BY <1>3, <2>1, <2>2 DEF HeapShape
  <2> QED
    BY <1>3, <2>1, <2>3 DEF Answers
<1>4. CASE Fits(h, len) # {}
  <2>1. PICK b \in find_free_block(h, len) :
          r = [ptr |-> b + HDR, heap |-> Take(IF Splits(h, b, len) THEN Split(h, b, len) ELSE h, b)]
    BY <1>4 DEF kmalloc_block
  <2>2. b \in DOMAIN f /\ f[b].free /\ f[b].size >= len /\ b \in Nat
    BY <1>2, <2>1 DEF find_free_block, Fits
  <2>3. CASE Splits(h, b, len)
    <3> DEFINE c == Cut(f, b, len)
               h1 == Split(h, b, len)
               x == SplitTable(f, b, len)
    <3>1. r.ptr = b + HDR /\ r.heap = Take(h1, b)
      BY <2>1, <2>3
    <3>2. h1 = [first |-> h.first, size |-> h.size, hdr |-> x]
      <4>1. h1 = [h EXCEPT !.hdr = x]
        BY DEF Split, SplitAt, SplitTable
      <4> HIDE DEF h1, x
      <4> QED
        BY <1>1, <4>1, HeapExcept
    <3> HIDE DEF h1, x
    <3>3. r.heap = [first |-> h.first, size |-> h.size, hdr |-> Taken(x, b)]
      <4>1. IsHeap(h1) /\ h1.first = h.first /\ h1.size = h.size /\ h1.hdr = x
        BY <3>2 DEF IsHeap
      <4> QED
        BY <3>1, <4>1, TakeForm
    <3>4. e < Word
      BY HeapAssumption, <1>1, <3>3
    <3>5. f[b].size > len + HDR + SPLIT /\ h1 = [h EXCEPT !.hdr = c]
      BY <1>1, <2>2, <2>3, <3>4, SplitForm DEF h1
    <3>6. h1 = [first |-> h.first, size |-> h.size, hdr |-> c]
      BY <1>1, <3>5, HeapExcept
    <3>7. x = c
      BY <3>2, <3>6
    <3>8. Chain(Taken(c, b), e) /\ Served(f, Taken(c, b), b, len)
      BY <1>1, <2>2, <3>5, CutTakenOutcome
    <3> QED
      BY <1>1, <1>3, <2>2, <3>1, <3>3, <3>7, <3>8
  <2>4. CASE ~Splits(h, b, len)
    <3>1. r.ptr = b + HDR /\ r.heap = [first |-> h.first, size |-> h.size, hdr |-> Taken(f, b)]
      BY <1>1, <2>1, <2>4, TakeForm
    <3>2. Chain(Taken(f, b), e) /\ Served(f, Taken(f, b), b, len)
      BY <1>1, <2>2, WholeOutcome
    <3> QED
      BY <1>1, <1>3, <2>2, <3>1, <3>2
  <2> QED
    BY <2>3, <2>4
<1>5. CASE Fits(h, len) = {}
  <2>1. PICK last \in LastBlock(h) :
          r = [ptr |-> HeapStart + h.size + HDR,
               heap |-> Take(new_blockspace(h, last, len), HeapStart + h.size)]
    BY <1>5 DEF kmalloc_block
  <2>2. IsLast(f, last)
    BY <2>1 DEF LastBlock, IsLast
  <2> DEFINE m == GrowBytes(len)
             h2 == [first |-> h.first, size |-> h.size + m, hdr |-> Grown(f, last, e, m)]
  <2>3. m \in Nat /\ m > len + HDR /\ m >= 4096
    BY GrowFits
  <2>4. new_blockspace(h, last, len) = h2
    BY <2>2, new_blockspaceForm
  <2>5. IsHeap(h2) /\ h2.first = h.first
        /\ h2.size = h.size + m /\ h2.hdr = Grown(f, last, e, m)
    BY DEF IsHeap
  <2> HIDE DEF h2, m
  <2>6. r.ptr = e + HDR /\ r.heap = [first |-> h.first, size |-> h.size + m, hdr |-> Taken(Grown(f, last, e, m), e)]
    BY <2>1, <2>4, <2>5, TakeForm
  <2>7. m >= HDR + len
    BY <2>3 DEF HDR
  <2>8. Chain(Taken(Grown(f, last, e, m), e), e + m) /\ Served(f, Taken(Grown(f, last, e, m), e), e, len)
    BY <1>1, <2>2, <2>3, <2>7, GrownTakenOutcome
  <2>9. e + m = HeapStart + (h.size + m) /\ h.size + m \in Nat
    BY HeapAssumption, <1>1, <2>3
  <2> QED
    BY <1>1, <1>3, <2>6, <2>8, <2>9
<1> QED
  BY <1>4, <1>5

(* kmalloc keeps its promise on the very first call too, when it maps the   *)
(* larger of the request and MinHeap.                                       *)
LEMMA kmallocOutcome ==
  ASSUME NEW h, HeapShape(h), NEW n, SizeFits(n), MinHeap + 4116 < Word,
         NEW r \in kmalloc(h, n), r.heap.size <= MaxHeap
  PROVE  Answers(h, r, n) /\ Served(h.hdr, r.heap.hdr, r.ptr - HDR, Round16(n))
<1> DEFINE len == Round16(n)
<1>1. n \in Nat /\ len \in Nat /\ len >= n /\ len + 4116 < Word
  BY HeapAssumption, Round16Fits DEF SizeFits
<1> HIDE DEF len
<1>2. ASSUME NEW f, NEW g, NEW b, Served(f, g, b, len), Typed(g) PROVE Served(f, g, b, n)
  <2>1. g[b].size \in Nat
    BY <1>2 DEF Served, Typed, Header
  <2> QED
    BY <1>1, <1>2, <2>1 DEF Served
<1>3. CASE h.first # NULL
  <2>1. r \in kmalloc_block(h, len) /\ DOMAIN h.hdr # {}
    BY <1>3 DEF kmalloc, HeapShape, len
  <2>2. Answers(h, r, len)
    BY <1>1, <2>1, kmalloc_blockOutcome
  <2> QED
    BY <1>2, <2>2 DEF Answers, HeapShape, Chain, len
<1>4. CASE h.first = NULL
  <2> DEFINE m == IF len > MinHeap THEN len ELSE MinHeap
             k == GrowBytes(m)
             f == h.hdr
             g == Grown(f, NULL, HeapStart, k)
             h1 == FirstBlock(h, len)
             h2 == [first |-> HeapStart, size |-> k, hdr |-> g]
  <2>1. DOMAIN f = {} /\ h.size = 0 /\ HeapStart \in Nat /\ HeapStart + h.size = HeapStart
    BY HeapAssumption, <1>4 DEF HeapShape, NULL
  <2>2. m \in Nat /\ m + 4116 < Word
    BY HeapAssumption, <1>1
  <2> HIDE DEF m
  <2>3. k \in Nat /\ k > m + HDR /\ k >= HDR /\ k - HDR > 32
    BY <2>2, GrowFits DEF HDR
  <2>4. IsLast(f, NULL)
    BY <2>1 DEF IsLast
  <2>5. new_blockspace(h, NULL, m) =
          [first |-> h.first, size |-> h.size + k, hdr |-> Grown(f, NULL, HeapStart + h.size, k)]
    BY <2>2, <2>4, new_blockspaceForm
  <2>6. h1 = [new_blockspace(h, NULL, m) EXCEPT !.first = HeapStart + h.size]
    BY DEF FirstBlock, m
  <2>7. h.size + k = k
    BY <2>1, <2>3
  <2>8. h1 = h2
    <3>1. h1 = [first |-> HeapStart + h.size, size |-> h.size + k, hdr |-> Grown(f, NULL, HeapStart + h.size, k)]
      BY <2>5, <2>6
    <3> HIDE DEF h1, k
    <3> QED
      BY <2>1, <2>7, <3>1
  <2> HIDE DEF h1
  <2>9. Chain(f, HeapStart)
    BY <2>1 DEF HeapShape
  <2>10. Chain(g, HeapStart + k) /\ IsGrown(f, g, NULL, HeapStart, k)
    BY HeapAssumption, <2>1, <2>3, <2>4, <2>9, GrownOutcome
  <2> HIDE DEF g, k
  <2>11. DOMAIN g = {HeapStart} /\ g[HeapStart].next = NULL /\ g[HeapStart].free /\ LastBig(g)
    BY <2>1, <2>3, <2>10 DEF IsGrown, LastBig
  <2>12. IsHeap(h2) /\ h2.first = HeapStart /\ h2.size = k /\ h2.hdr = g
    BY DEF IsHeap
  <2>13. Merged(g)
    BY <2>11 DEF Merged
  <2> HIDE DEF h2
  <2>14. HeapShape(h2)
    <3>1. DOMAIN h2.hdr # {} /\ Merged(h2.hdr)
      BY <2>11, <2>12, <2>13
    <3>2. Chain(h2.hdr, HeapStart + h2.size) /\ h2.size \in Nat
      BY <2>3, <2>10, <2>12
    <3> QED
      BY <2>12, <3>1, <3>2 DEF HeapShape
  <2>15. r \in kmalloc_block(h2, len)
    BY <1>4, <2>8 DEF kmalloc, len, h1
  <2>16. Answers(h2, r, len)
    BY <1>1, <2>11, <2>12, <2>14, <2>15, kmalloc_blockOutcome
  <2>17. Served(g, r.heap.hdr, r.ptr - HDR, len)
    BY <2>12, <2>16 DEF Answers
  <2>18. Served(f, r.heap.hdr, r.ptr - HDR, len)
    BY <2>1, <2>11, <2>17 DEF Served
  <2> QED
    BY <1>2, <2>16, <2>18 DEF Answers, HeapShape, Chain, len
<1> QED
  BY <1>3, <1>4

(* kfree of a block in use leaves a sound heap of the same size.            *)
LEMMA kfreeOutcome ==
  ASSUME NEW h, HeapShape(h), NEW p \in Int, p - HDR \in DOMAIN h.hdr, ~h.hdr[p - HDR].free
  PROVE  /\ HeapShape(kfree(h, p)) /\ kfree(h, p).size = h.size
         /\ Released(h.hdr, kfree(h, p).hdr, p - HDR)
<1> DEFINE f == h.hdr
           e == HeapStart + h.size
           b == p - HDR
           g == Freed(f, b)
           k == kfree(h, p)
<1>1. e \in Nat /\ Chain(f, e) /\ Merged(f) /\ IsHeap(h) /\ h.first = HeapStart /\ h.size \in Nat
  BY HeapAssumption DEF HeapShape
<1>2. k = [h EXCEPT !.hdr = g]
  BY <1>1, kfreeForm
<1>3. Chain(g, e) /\ Released(f, g, b)
  BY <1>1, FreedOutcome
<1> HIDE DEF g, k
<1>4. k = [first |-> h.first, size |-> h.size, hdr |-> g]
  BY <1>1, <1>2, HeapExcept
<1>5. IsHeap(k) /\ k.first = HeapStart /\ k.size = h.size /\ k.hdr = g
  BY <1>1, <1>4 DEF IsHeap
<1>6. HeapShape(k)
  BY <1>1, <1>3, <1>5 DEF HeapShape, Released
<1> QED
  BY <1>3, <1>5, <1>6 DEF k

-----------------------------------------------------------------------------
(* The callers *)

(* Table f and the callers' view l of it: the callers hold exactly the      *)
(* blocks in use, each with at least the bytes asked for.                   *)
Holds(f, l) ==
  /\ l \in [DOMAIN l -> Nat]
  /\ \A p : p \in DOMAIN l <=> p \in Nat /\ p - HDR \in DOMAIN f /\ ~f[p - HDR].free
  /\ \A p \in DOMAIN l : l[p] <= f[p - HDR].size

(* The inductive invariant: a sound, merged list that tiles the heap, and   *)
(* callers that hold exactly what is in use.                                *)
IInv == HeapShape(heap) /\ heap.size <= MaxHeap /\ Holds(heap.hdr, live)

(* Every size a caller may ask for, products of kcalloc included, is more   *)
(* than a page away from the end of size_t.  kmalloc does not check this;   *)
(* without it a sum wraps and a block is smaller than its caller believes.  *)
SizesFit ==
  /\ SizeFits(SelfTest) /\ MinHeap + 4116 < Word
  /\ \A n \in Lengths : SizeFits(n)
  /\ \A c \in Counts, n \in Lengths : SizeFits(c * n)

(* After kmalloc the caller has a pointer nobody had, and everyone else     *)
(* what they had.                                                           *)
LEMMA ServedHolds ==
  ASSUME NEW f, NEW g, NEW l, NEW p \in Nat, NEW n \in Nat, Holds(f, l), Served(f, g, p - HDR, n), Typed(g)
  PROVE  p \notin DOMAIN l /\ Holds(g, Given(l, p, n))
<1> USE DEF Given
<1> DEFINE b == p - HDR
           k == Given(l, p, n)
<1>1. b \in DOMAIN g /\ ~g[b].free /\ g[b].size >= n /\ (b \in DOMAIN f => f[b].free)
  BY DEF Served
<1>2. p \notin DOMAIN l
  BY <1>1 DEF Holds
<1>3. DOMAIN k = DOMAIN l \cup {p} /\ k[p] = n /\ \A q \in DOMAIN l : k[q] = l[q]
  BY <1>2
<1>4. k \in [DOMAIN k -> Nat]
  <2>1. \A q \in DOMAIN l : l[q] \in Nat
    BY DEF Holds
  <2>2. \A q \in DOMAIN l \cup {p} : (IF q = p THEN n ELSE l[q]) \in Nat
    BY <2>1
  <2> QED
    BY <2>2
<1> HIDE DEF k
<1>5. ASSUME NEW q PROVE q \in DOMAIN k <=> q \in Nat /\ q - HDR \in DOMAIN g /\ ~g[q - HDR].free
  <2>1. q \in Nat => (q - HDR = b <=> q = p)
    BY DEF HDR
  <2>2. q \in Nat => (q - HDR \in DOMAIN g /\ ~g[q - HDR].free <=> q = p \/ (q - HDR \in DOMAIN f /\ ~f[q - HDR].free))
    BY <2>1 DEF Served
  <2> QED
    BY <1>3, <2>2 DEF Holds
<1>6. ASSUME NEW q \in DOMAIN k PROVE k[q] <= g[q - HDR].size
  <2>1. CASE q = p
    <3>1. g[b].size \in Nat
      BY <1>1 DEF Typed, Header
    <3> QED
      BY <1>1, <1>3, <2>1, <3>1
  <2>2. CASE q # p
    <3>1. q \in DOMAIN l /\ k[q] = l[q] /\ l[q] <= f[q - HDR].size /\ q - HDR \in DOMAIN f /\ ~f[q - HDR].free
      BY <1>3, <2>2 DEF Holds
    <3>2. g[q - HDR].size = f[q - HDR].size
      BY <3>1 DEF Served
    <3> QED
      BY <3>1, <3>2
  <2> QED
    BY <2>1, <2>2
<1> QED
  BY <1>2, <1>4, <1>5, <1>6 DEF Holds, k

(* After kfree the caller has given its pointer up, and everyone else has   *)
(* what they had.                                                           *)
LEMMA ReleasedHolds ==
  ASSUME NEW f, NEW g, NEW l, NEW p \in DOMAIN l, Holds(f, l), Released(f, g, p - HDR)
  PROVE  Holds(g, [q \in DOMAIN l \ {p} |-> l[q]])
<1> DEFINE b == p - HDR
           k == [q \in DOMAIN l \ {p} |-> l[q]]
<1>1. DOMAIN k = DOMAIN l \ {p} /\ \A q \in DOMAIN k : k[q] = l[q]
  OBVIOUS
<1>2. k \in [DOMAIN k -> Nat]
  BY DEF Holds
<1> HIDE DEF k
<1>3. p \in Nat
  BY DEF Holds
<1>4. ASSUME NEW q PROVE q \in DOMAIN k <=> q \in Nat /\ q - HDR \in DOMAIN g /\ ~g[q - HDR].free
  <2>1. q \in Nat => (q - HDR = b <=> q = p)
    BY <1>3 DEF HDR
  <2>2. q \in Nat => (q - HDR \in DOMAIN g /\ ~g[q - HDR].free <=> q # p /\ q - HDR \in DOMAIN f /\ ~f[q - HDR].free)
    BY <2>1 DEF Released
  <2> QED
    BY <1>1, <2>2 DEF Holds
<1>5. ASSUME NEW q \in DOMAIN k PROVE k[q] <= g[q - HDR].size
  <2>1. q \in DOMAIN l /\ q # p /\ k[q] = l[q] /\ l[q] <= f[q - HDR].size /\ q - HDR \in DOMAIN f /\ ~f[q - HDR].free
    BY <1>1 DEF Holds
  <2>2. q - HDR # b
    BY <1>3, <2>1 DEF Holds, HDR
  <2>3. g[q - HDR].size = f[q - HDR].size
    BY <2>1, <2>2 DEF Released
  <2> QED
    BY <2>1, <2>3
<1> QED
  BY <1>2, <1>4, <1>5 DEF Holds, k

-----------------------------------------------------------------------------

(* The globals as init_kmalloc sets them.                                   *)
LEMMA InitIInv == Init => IInv
<1> SUFFICES ASSUME Init PROVE IInv
  OBVIOUS
<1> DEFINE f == [a \in {} |-> NULL]
<1>1. IsHeap(heap) /\ heap.first = NULL /\ heap.size = 0 /\ heap.hdr = f /\ DOMAIN f = {}
  BY DEF Init, IsHeap
<1>2. Typed(heap.hdr)
  BY <1>1 DEF Typed
<1>3. Chain(heap.hdr, HeapStart + heap.size) /\ Merged(heap.hdr)
  BY <1>1, <1>2 DEF Chain, Merged
<1>4. HeapShape(heap) /\ heap.size <= MaxHeap
  BY HeapAssumption, <1>1, <1>3 DEF HeapShape
<1>5. DOMAIN live = {} /\ live \in [DOMAIN live -> Nat]
  BY DEF Init
<1>6. Holds(heap.hdr, live)
  BY <1>1, <1>5 DEF Holds
<1> QED
  BY <1>4, <1>6 DEF IInv

(* What a call of kmalloc leaves, in a state of the invariant, before the   *)
(* caller does anything with the pointer.                                   *)
LEMMA AllocIInv ==
  ASSUME IInv, SizesFit, NEW n, SizeFits(n), NEW r \in kmalloc(heap, n), HeapBound(r.heap)
  PROVE  /\ HeapShape(r.heap) /\ r.heap.size <= MaxHeap /\ r.ptr \in Nat /\ r.ptr \notin DOMAIN live
         /\ r.ptr - HDR \in DOMAIN r.heap.hdr /\ ~r.heap.hdr[r.ptr - HDR].free
         /\ Served(heap.hdr, r.heap.hdr, r.ptr - HDR, n)
         /\ Holds(r.heap.hdr, [q \in DOMAIN live \cup {r.ptr} |-> IF q = r.ptr THEN n ELSE live[q]])
<1>1. Answers(heap, r, n)
  BY kmallocOutcome DEF IInv, SizesFit, HeapBound
<1>2. r.ptr \in Nat /\ Served(heap.hdr, r.heap.hdr, r.ptr - HDR, n) /\ HeapShape(r.heap) /\ n \in Nat
  BY <1>1 DEF Answers, SizeFits
<1>3. Typed(r.heap.hdr)
  BY <1>2 DEF HeapShape, Chain
<1>4. Holds(heap.hdr, live)
  BY DEF IInv
<1>5. r.ptr - HDR \in DOMAIN r.heap.hdr /\ ~r.heap.hdr[r.ptr - HDR].free
  BY <1>2 DEF Served
<1>6. r.heap.size <= MaxHeap
  BY DEF HeapBound
<1>7. /\ r.ptr \notin DOMAIN live
      /\ Holds(r.heap.hdr, [q \in DOMAIN live \cup {r.ptr} |-> IF q = r.ptr THEN n ELSE live[q]])
  <2> DEFINE g == r.heap.hdr
             p == r.ptr
  <2>1. p \in Nat /\ Served(heap.hdr, g, p - HDR, n) /\ n \in Nat /\ Typed(g)
    BY <1>2, <1>3
  <2> HIDE DEF g, p
  <2>2. p \notin DOMAIN live /\ Holds(g, Given(live, p, n))
    BY <1>4, <2>1, ServedHolds
  <2> QED
    BY <2>2 DEF g, p, Given
<1> QED
  BY <1>2, <1>5, <1>6, <1>7

(* The self test of init_kmalloc: allocate and free.                        *)
LEMMA InitKmallocIInv == ASSUME IInv, SizesFit, InitKmalloc PROVE IInv'
<1>1. PICK r \in kmalloc(heap, SelfTest) : HeapBound(r.heap) /\ heap' = kfree(r.heap, r.ptr)
  BY DEF InitKmalloc
<1> DEFINE l == [q \in DOMAIN live \cup {r.ptr} |-> IF q = r.ptr THEN SelfTest ELSE live[q]]
<1>2. /\ HeapShape(r.heap) /\ r.heap.size <= MaxHeap /\ r.ptr \in Nat /\ r.ptr \notin DOMAIN live
      /\ r.ptr - HDR \in DOMAIN r.heap.hdr /\ ~r.heap.hdr[r.ptr - HDR].free
      /\ Holds(r.heap.hdr, l)
  BY <1>1, AllocIInv DEF SizesFit
<1>3. HeapShape(heap') /\ heap'.size <= MaxHeap /\ Released(r.heap.hdr, heap'.hdr, r.ptr - HDR)
  BY <1>1, <1>2, kfreeOutcome
<1>4. r.ptr \in DOMAIN l
  OBVIOUS
<1> HIDE DEF l
<1>5. Holds(heap'.hdr, [q \in DOMAIN l \ {r.ptr} |-> l[q]])
  BY <1>2, <1>3, <1>4, ReleasedHolds
<1>6. [q \in DOMAIN l \ {r.ptr} |-> l[q]] = live
  <2>1. live = [q \in DOMAIN live |-> live[q]]
    BY DEF IInv, Holds
  <2>2. DOMAIN l \ {r.ptr} = DOMAIN live /\ \A q \in DOMAIN live : l[q] = live[q]
    BY <1>2 DEF l
  <2> QED
    BY <2>1, <2>2
<1>7. live' = live
  BY DEF InitKmalloc
<1> QED
  BY <1>3, <1>5, <1>6, <1>7 DEF IInv

(* kmalloc keeps the invariant.                                             *)
LEMMA MallocIInv == ASSUME IInv, SizesFit, NEW n \in Lengths, Malloc(n) PROVE IInv'
<1>1. PICK r \in kmalloc(heap, n) :
        HeapBound(r.heap) /\ heap' = r.heap /\ live' = Extend(r.ptr, n)
  BY DEF Malloc
<1> QED
  BY <1>1, AllocIInv DEF IInv, Extend, SizesFit

(* A product below 2^32 is its own remainder.                               *)
LEMMA ModSmall == ASSUME NEW x \in Nat, x < Word PROVE x % Word = x
  BY HeapAssumption

(* kcalloc keeps the invariant.                                             *)
LEMMA CallocIInv ==
  ASSUME IInv, SizesFit, NEW c \in Counts, NEW n \in Lengths, Calloc(c, n) PROVE IInv'
<1>1. SizeFits(c * n)
  BY DEF SizesFit
<1>2. (c * n) % Word = c * n
  BY HeapAssumption, <1>1, ModSmall DEF SizeFits
<1>3. PICK r \in kmalloc(heap, c * n) :
        HeapBound(r.heap) /\ heap' = r.heap /\ live' = Extend(r.ptr, c * n)
  BY <1>2 DEF Calloc
<1> QED
  BY <1>1, <1>3, AllocIInv DEF IInv, Extend

(* kfree keeps the invariant.                                               *)
LEMMA FreeIInv == ASSUME IInv, NEW p \in DOMAIN live, Free(p) PROVE IInv'
<1>1. heap' = kfree(heap, p) /\ live' = [q \in DOMAIN live \ {p} |-> live[q]]
  BY DEF Free, Forget
<1>2. p \in Nat /\ p - HDR \in DOMAIN heap.hdr /\ ~heap.hdr[p - HDR].free
  BY DEF IInv, Holds
<1>3. HeapShape(heap') /\ heap'.size = heap.size /\ Released(heap.hdr, heap'.hdr, p - HDR)
  BY <1>1, <1>2, kfreeOutcome DEF IInv
<1> QED
  BY <1>1, <1>3, ReleasedHolds DEF IInv

(* krealloc keeps the invariant when the block is already large enough.     *)
LEMMA ReallocInPlaceIInv ==
  ASSUME IInv, SizesFit, NEW p \in DOMAIN live, NEW n \in Lengths, ReallocInPlace(p, n) PROVE IInv'
<1>1. heap.hdr[p - HDR].size >= n /\ live' = [live EXCEPT ![p] = n] /\ heap' = heap /\ n \in Nat
  BY DEF ReallocInPlace, SizesFit, SizeFits
<1>2. live \in [DOMAIN live -> Nat]
  BY DEF IInv, Holds
<1>3. live' \in [DOMAIN live -> Nat] /\ live'[p] = n /\ \A q \in DOMAIN live : q # p => live'[q] = live[q]
  BY <1>1, <1>2
<1>4. heap.hdr[p - HDR].size \in Nat
  BY DEF IInv, Holds, HeapShape, Chain, Typed, Header
<1>5. Holds(heap.hdr, live')
  BY <1>1, <1>3, <1>4 DEF IInv, Holds
<1> QED
  BY <1>1, <1>5 DEF IInv

(* krealloc keeps the invariant when it moves: the new block is taken       *)
(* before the old one is freed.                                             *)
LEMMA ReallocMoveIInv ==
  ASSUME IInv, SizesFit, NEW p \in DOMAIN live, NEW n \in Lengths, ReallocMove(p, n) PROVE IInv'
<1>1. PICK r \in kmalloc(heap, n) :
        /\ HeapBound(r.heap) /\ heap' = kfree(r.heap, p)
        /\ live' = [q \in (DOMAIN live \cup {r.ptr}) \ {p} |-> IF q = r.ptr THEN n ELSE live[q]]
  BY DEF ReallocMove
<1> DEFINE l == [q \in DOMAIN live \cup {r.ptr} |-> IF q = r.ptr THEN n ELSE live[q]]
<1>2. /\ HeapShape(r.heap) /\ r.heap.size <= MaxHeap /\ r.ptr \notin DOMAIN live
      /\ Holds(r.heap.hdr, l)
  BY <1>1, AllocIInv DEF SizesFit
<1>3. p \in DOMAIN l /\ live' = [q \in DOMAIN l \ {p} |-> l[q]]
  BY <1>1
<1> HIDE DEF l
<1>4. p \in Nat /\ p - HDR \in DOMAIN r.heap.hdr /\ ~r.heap.hdr[p - HDR].free
  BY <1>2, <1>3 DEF Holds
<1>5. HeapShape(heap') /\ heap'.size <= MaxHeap /\ Released(r.heap.hdr, heap'.hdr, p - HDR)
  BY <1>1, <1>2, <1>4, kfreeOutcome
<1>6. Holds(heap'.hdr, live')
  BY <1>2, <1>3, <1>5, ReleasedHolds
<1> QED
  BY <1>5, <1>6 DEF IInv

(* Every operation keeps the invariant.                                     *)
LEMMA NextIInv == ASSUME SizesFit PROVE IInv /\ [Next]_vars => IInv'
<1> SUFFICES ASSUME IInv, [Next]_vars PROVE IInv'
  OBVIOUS
<1>1. CASE InitKmalloc
  BY <1>1, InitKmallocIInv
<1>2. ASSUME NEW n \in Lengths, Malloc(n) PROVE IInv'
  BY <1>2, MallocIInv
<1>3. ASSUME NEW c \in Counts, NEW n \in Lengths, Calloc(c, n) PROVE IInv'
  BY <1>3, CallocIInv
<1>4. ASSUME NEW p \in DOMAIN live, Free(p) PROVE IInv'
  BY <1>4, FreeIInv
<1>5. ASSUME NEW p \in DOMAIN live, NEW n \in Lengths, ReallocInPlace(p, n) PROVE IInv'
  BY <1>5, ReallocInPlaceIInv
<1>6. ASSUME NEW p \in DOMAIN live, NEW n \in Lengths, ReallocMove(p, n) PROVE IInv'
  BY <1>6, ReallocMoveIInv
<1>7. CASE UNCHANGED vars
  BY <1>7 DEF vars, IInv
<1> QED
  BY <1>1, <1>2, <1>3, <1>4, <1>5, <1>6, <1>7 DEF Next

(* In every state between calls of kmalloc, kcalloc, krealloc and kfree the *)
(* list is sound, merged and tiles the heap, and the callers hold exactly   *)
(* the blocks in use.                                                       *)
THEOREM InvariantHolds == ASSUME SizesFit PROVE Spec => []IInv
<1>1. Init => IInv
  BY InitIInv
<1>2. IInv /\ [Next]_vars => IInv'
  BY NextIInv
<1> QED
  BY <1>1, <1>2, PTL DEF Spec

-----------------------------------------------------------------------------
(* What the invariant says of the list and of the callers.                  *)

(* The invariant gives the types.                                           *)
LEMMA IInvTypeOK == IInv => TypeOK
<1> SUFFICES ASSUME IInv PROVE TypeOK
  OBVIOUS
<1> DEFINE f == heap.hdr
           e == HeapStart + heap.size
<1>1. /\ Chain(f, e) /\ heap.size \in Nat /\ heap.size <= MaxHeap
      /\ heap.first = (IF DOMAIN f = {} THEN NULL ELSE HeapStart)
      /\ live \in [DOMAIN live -> Nat]
  BY DEF IInv, HeapShape, Holds
<1>2. heap.size \in 0 .. MaxHeap
  BY <1>1, HeapAssumption
<1>3. f \in [DOMAIN f -> Header] /\ (DOMAIN f = {} \/ HeapStart \in DOMAIN f)
  BY <1>1 DEF Chain, Typed
<1>4. ASSUME NEW a \in DOMAIN f PROVE a \in HeapStart .. e
  <2>1. a \in Nat /\ HeapStart <= a /\ f[a].size \in Nat /\ a + HDR + f[a].size <= e
    BY <1>1 DEF Chain, Typed, SpanOK, End, Header
  <2> QED
    BY <1>1, <2>1, HeapAssumption DEF HDR
<1> QED
  BY <1>1, <1>2, <1>3, <1>4 DEF TypeOK, Blocks, HeapEnd

(* Of two blocks on the list the lower ends before the higher begins.       *)
LEMMA Apart ==
  ASSUME NEW f, NEW e \in Nat, Chain(f, e), NEW a \in DOMAIN f, NEW c \in DOMAIN f, a < c
  PROVE  End(f, a) <= c
<1>1. a \in Nat /\ c \in Nat /\ f[a].size \in Nat /\ f[a].next \in Nat
  BY DEF Chain, Typed, Header
<1>2. NextOK(f, a) /\ SpanOK(f, e, a)
  BY DEF Chain
<1>3. f[a].next # NULL /\ f[a].next <= c
  BY <1>1, <1>2 DEF NextOK
<1> QED
  BY <1>1, <1>2, <1>3 DEF SpanOK, Above, End, HDR

(* The invariant gives the tiling.                                          *)
LEMMA IInvBlocksTile == IInv => BlocksTile
<1> SUFFICES ASSUME IInv PROVE BlocksTile
  OBVIOUS
<1> DEFINE f == heap.hdr
           e == HeapStart + heap.size
<1>1. Chain(f, e) /\ e \in Nat
  BY HeapAssumption DEF IInv, HeapShape
<1>2. \A a \in DOMAIN f : EndOf(a) = End(f, a)
  BY DEF EndOf, End
<1>3. \A a \in DOMAIN f : SpanOK(f, e, a)
  BY <1>1 DEF Chain
<1>4. BlocksDisjoint
  BY <1>1, <1>2, <1>3, Apart DEF BlocksDisjoint, Blocks, HeapEnd, SpanOK
<1>5. GapsAreHeaders
  BY <1>2, <1>3 DEF GapsAreHeaders, Blocks, HeapEnd, SpanOK, Above
<1> QED
  BY <1>4, <1>5 DEF BlocksTile

(* The invariant gives the order of the list and that it is merged.         *)
LEMMA IInvListSound == IInv => ListSound
<1> SUFFICES ASSUME IInv PROVE ListSound
  OBVIOUS
<1>1. Chain(heap.hdr, HeapStart + heap.size) /\ Merged(heap.hdr)
  BY DEF IInv, HeapShape
<1>2. ListInOrder
  BY <1>1 DEF ListInOrder, Blocks, Chain, NextOK, PrevOK
<1>3. Coalesced
  BY <1>1 DEF Coalesced, Blocks, InUse, Merged
<1> QED
  BY <1>2, <1>3 DEF ListSound

(* The invariant gives that callers hold exactly the blocks in use.         *)
LEMMA IInvLiveServed == IInv => LiveServed
<1> SUFFICES ASSUME IInv PROVE LiveServed
  OBVIOUS
<1> DEFINE f == heap.hdr
<1>1. Holds(f, live) /\ \A a \in DOMAIN f : a \in Nat
  BY DEF IInv, HeapShape, Chain, Typed
<1>2. ASSUME NEW p \in DOMAIN live PROVE \E a \in DOMAIN f : ~f[a].free /\ p = a + HDR
  <2>1. p \in Nat /\ p - HDR \in DOMAIN f /\ ~f[p - HDR].free
    BY <1>1 DEF Holds
  <2>2. p = (p - HDR) + HDR
    BY <2>1 DEF HDR
  <2> QED
    BY <2>1, <2>2
<1>3. ASSUME NEW a \in DOMAIN f, ~f[a].free PROVE a + HDR \in DOMAIN live
  <2>1. a + HDR \in Nat /\ (a + HDR) - HDR = a
    BY <1>1 DEF HDR
  <2> QED
    BY <1>1, <1>3, <2>1 DEF Holds
<1>4. LiveIsInUse
  BY <1>2, <1>3 DEF LiveIsInUse, Blocks, InUse
<1>5. LiveFits
  BY <1>1 DEF LiveFits, Holds
<1> QED
  BY <1>4, <1>5 DEF LiveServed

-----------------------------------------------------------------------------
(* The malloc contract *)

(* Two different allocations share no byte, however much of its block each  *)
(* uses.                                                                    *)
LEMMA HeldApart ==
  ASSUME NEW f, NEW e \in Nat, Chain(f, e), NEW l, Holds(f, l),
         NEW p \in DOMAIN l, NEW q \in DOMAIN l, p # q
  PROVE  p + l[p] <= q \/ q + l[q] <= p
<1>1. /\ p \in Nat /\ p - HDR \in DOMAIN f /\ l[p] \in Nat /\ l[p] <= f[p - HDR].size
      /\ q \in Nat /\ q - HDR \in DOMAIN f /\ l[q] \in Nat /\ l[q] <= f[q - HDR].size
  BY DEF Holds
<1>2. f[p - HDR].size \in Nat /\ f[q - HDR].size \in Nat
  BY <1>1 DEF Chain, Typed, Header
<1>3. p - HDR < q - HDR \/ q - HDR < p - HDR
  BY <1>1 DEF HDR
<1>4. End(f, p - HDR) <= q - HDR \/ End(f, q - HDR) <= p - HDR
  BY <1>1, <1>3, Apart
<1> QED
  BY <1>1, <1>2, <1>4 DEF End, HDR

(* An allocation lies between the start of the heap and its limit.          *)
LEMMA HeldInside ==
  ASSUME NEW h, HeapShape(h), h.size <= MaxHeap, NEW l, Holds(h.hdr, l), NEW p \in DOMAIN l
  PROVE  HeapStart <= p /\ p + l[p] <= HeapStart + MaxHeap
<1> DEFINE f == h.hdr
           b == p - HDR
<1>1. /\ p \in Nat /\ b \in DOMAIN f /\ l[p] \in Nat /\ l[p] <= f[b].size
      /\ h.size \in Nat /\ Chain(f, HeapStart + h.size)
  BY DEF Holds, HeapShape
<1>2. f[b].size \in Nat /\ HeapStart <= b /\ b \in Nat /\ b + HDR + f[b].size <= HeapStart + h.size
  BY <1>1 DEF Chain, Typed, Header, SpanOK, End
<1> QED
  BY <1>1, <1>2, HeapAssumption DEF HDR

(* In heap h, held as k says, the bytes at p belong to no allocation of S.  *)
LEMMA HeldFresh ==
  ASSUME NEW h, HeapShape(h), h.size <= MaxHeap, NEW k, Holds(h.hdr, k), NEW p \in DOMAIN k,
         NEW S, S \subseteq DOMAIN k, p \notin S, \A q \in S : live[q] = k[q]
  PROVE  Contract!Fresh(p, k[p], S)
<1>1. HeapStart <= p /\ p + k[p] <= HeapStart + MaxHeap
  BY HeldInside
<1>2. HeapStart + h.size \in Nat /\ Chain(h.hdr, HeapStart + h.size)
  BY HeapAssumption DEF HeapShape
<1>3. ASSUME NEW q \in S PROVE p + k[p] <= q \/ q + live[q] <= p
  BY <1>2, HeldApart
<1> QED
  BY <1>1, <1>3 DEF Contract!Fresh

(* A kmalloc, or a kcalloc, of n bytes is the contract's Malloc.            *)
LEMMA AllocContracts ==
  ASSUME IInv, SizesFit, NEW n, SizeFits(n), NEW r \in kmalloc(heap, n), HeapBound(r.heap),
         live' = Extend(r.ptr, n)
  PROVE  Contract!Next
<1> DEFINE l == [q \in DOMAIN live \cup {r.ptr} |-> IF q = r.ptr THEN n ELSE live[q]]
<1>1. /\ HeapShape(r.heap) /\ r.heap.size <= MaxHeap /\ r.ptr \notin DOMAIN live
      /\ Holds(r.heap.hdr, l)
  BY AllocIInv
<1>2. live' = l
  BY DEF Extend
<1>3. DOMAIN l = DOMAIN live \cup {r.ptr} /\ \A q \in DOMAIN live : l[q] = live[q]
  BY <1>1
<1> HIDE DEF l
<1>4. Contract!Fresh(r.ptr, l[r.ptr], DOMAIN live)
  BY <1>1, <1>3, HeldFresh
<1>5. Contract!Malloc(r.ptr) /\ r.ptr \in DOMAIN live'
  BY <1>1, <1>2, <1>3, <1>4 DEF Contract!Malloc
<1> QED
  BY <1>5 DEF Contract!Next

(* krealloc that stays where it is is the contract's Resize.                *)
LEMMA ReallocInPlaceContracts ==
  ASSUME IInv, IInv', NEW p \in DOMAIN live, NEW n \in Lengths, ReallocInPlace(p, n)
  PROVE  Contract!Next
<1> DEFINE k == [live EXCEPT ![p] = n]
<1>1. live' = k /\ heap' = heap
  BY DEF ReallocInPlace
<1>2. DOMAIN k = DOMAIN live /\ \A q \in DOMAIN live \ {p} : k[q] = live[q]
  OBVIOUS
<1> HIDE DEF k
<1>3. HeapShape(heap) /\ heap.size <= MaxHeap /\ Holds(heap.hdr, k)
  BY <1>1 DEF IInv
<1>4. Contract!Fresh(p, k[p], DOMAIN live \ {p})
  BY <1>2, <1>3, HeldFresh
<1>5. Contract!Resize(p)
  BY <1>1, <1>2, <1>4 DEF Contract!Resize
<1> QED
  BY <1>5 DEF Contract!Next

(* krealloc that moves is the contract's Move: the new bytes were free      *)
(* while the old ones were still held.                                      *)
LEMMA ReallocMoveContracts ==
  ASSUME IInv, SizesFit, NEW p \in DOMAIN live, NEW n \in Lengths, ReallocMove(p, n)
  PROVE  Contract!Next
<1>1. PICK r \in kmalloc(heap, n) :
        /\ HeapBound(r.heap)
        /\ live' = [q \in (DOMAIN live \cup {r.ptr}) \ {p} |-> IF q = r.ptr THEN n ELSE live[q]]
  BY DEF ReallocMove
<1> DEFINE l == [q \in DOMAIN live \cup {r.ptr} |-> IF q = r.ptr THEN n ELSE live[q]]
<1>2. /\ HeapShape(r.heap) /\ r.heap.size <= MaxHeap /\ r.ptr \notin DOMAIN live
      /\ Holds(r.heap.hdr, l)
  BY <1>1, AllocIInv DEF SizesFit
<1>3. DOMAIN l = DOMAIN live \cup {r.ptr} /\ \A q \in DOMAIN live : l[q] = live[q]
  BY <1>2
<1>4. DOMAIN live' = (DOMAIN live \ {p}) \cup {r.ptr} /\ \A q \in DOMAIN live' : live'[q] = l[q]
  BY <1>1, <1>2
<1> HIDE DEF l
<1>5. Contract!Fresh(r.ptr, l[r.ptr], DOMAIN live)
  BY <1>2, <1>3, HeldFresh
<1>6. Contract!Move(p, r.ptr) /\ r.ptr \in DOMAIN live'
  BY <1>2, <1>3, <1>4, <1>5 DEF Contract!Move
<1> QED
  BY <1>6 DEF Contract!Next

(* Every operation is one of the contract, or changes no allocation.        *)
LEMMA NextContracts ==
  ASSUME SizesFit PROVE IInv /\ IInv' /\ [Next]_vars => [Contract!Next]_live
<1> SUFFICES ASSUME IInv, IInv', [Next]_vars PROVE Contract!Next \/ live' = live
  OBVIOUS
<1>1. CASE InitKmalloc
  BY <1>1 DEF InitKmalloc
<1>2. ASSUME NEW n \in Lengths, Malloc(n) PROVE Contract!Next
  <2>1. PICK r \in kmalloc(heap, n) : HeapBound(r.heap) /\ live' = Extend(r.ptr, n)
    BY <1>2 DEF Malloc
  <2> QED
    BY <2>1, AllocContracts DEF SizesFit
<1>3. ASSUME NEW c \in Counts, NEW n \in Lengths, Calloc(c, n) PROVE Contract!Next
  <2>1. SizeFits(c * n)
    BY DEF SizesFit
  <2>2. (c * n) % Word = c * n
    BY HeapAssumption, <2>1, ModSmall DEF SizeFits
  <2>3. PICK r \in kmalloc(heap, c * n) : HeapBound(r.heap) /\ live' = Extend(r.ptr, c * n)
    BY <1>3, <2>2 DEF Calloc
  <2> QED
    BY <2>1, <2>3, AllocContracts
<1>4. ASSUME NEW p \in DOMAIN live, Free(p) PROVE Contract!Next
  BY <1>4 DEF Free, Forget, Contract!Next, Contract!Free
<1>5. ASSUME NEW p \in DOMAIN live, NEW n \in Lengths, ReallocInPlace(p, n) PROVE Contract!Next
  BY <1>5, ReallocInPlaceContracts
<1>6. ASSUME NEW p \in DOMAIN live, NEW n \in Lengths, ReallocMove(p, n) PROVE Contract!Next
  BY <1>6, ReallocMoveContracts
<1>7. CASE UNCHANGED vars
  BY <1>7 DEF vars
<1> QED
  BY <1>1, <1>2, <1>3, <1>4, <1>5, <1>6, <1>7 DEF Next

-----------------------------------------------------------------------------
(* Theorems *)

(* The globals and the headers of kmalloc.c keep their types; the list is   *)
(* empty exactly before the first kmalloc and starts at the bottom of the   *)
(* heap afterwards.                                                         *)
THEOREM TypeCorrect == ASSUME SizesFit PROVE Spec => []TypeOK
  BY InvariantHolds, IInvTypeOK, PTL

(* Whatever the callers allocate, resize and free, and however often, no    *)
(* two blocks share a byte, none reaches past the heap, and the only bytes  *)
(* outside blocks are headers that kfree absorbed.                          *)
THEOREM BlocksNeverOverlap == ASSUME SizesFit PROVE Spec => []BlocksTile
  BY InvariantHolds, IInvBlocksTile, PTL

(* Splits, merges and growth keep both directions of the list in address    *)
(* order, and kfree leaves no two free neighbours.                          *)
THEOREM ListStaysSound == ASSUME SizesFit PROVE Spec => []ListSound
  BY InvariantHolds, IInvListSound, PTL

(* A block is marked in use exactly when a caller holds it, and holds at    *)
(* least what the caller asked for: krealloc and kcalloc included.          *)
THEOREM CallersServed == ASSUME SizesFit PROVE Spec => []LiveServed
  BY InvariantHolds, IInvLiveServed, PTL

(* kmalloc.c implements the malloc contract of AllocContract: every pointer *)
(* handed out is fresh and its bytes are nobody else's until it is freed.   *)
THEOREM ContractImplemented == ASSUME SizesFit PROVE Spec => ImplementsContract
<1>1. Init => Contract!Init
  BY DEF Init, Contract!Init
<1>2. IInv /\ IInv' /\ [Next]_vars => [Contract!Next]_live
  BY NextContracts
<1>3. Spec => []IInv
  BY InvariantHolds
<1> QED
  BY <1>1, <1>2, <1>3, PTL DEF Spec, ImplementsContract, Contract!Spec

-----------------------------------------------------------------------------
(* The C library *)

(* The lengths the library asks for are away from the end of size_t too:    *)
(* the text of a number (32; 2, 6, 9 and 12 are smaller), the buffer of     *)
(* printk and the screen.                                                   *)
LibraryFits == SizesFit /\ SizeFits(32) /\ SizeFits(BufferLen) /\ SizeFits(ScreenLen)

(* A heap in which a byte written past a text does no harm: sound, within   *)
(* its bound, and with a large block at the end.                            *)
Sound(h) == HeapShape(h) /\ h.size <= MaxHeap /\ LastBig(h.hdr)

(* Every block in use in f, but the one at b, is in use in g and as large.  *)
(* Blocks may come into use that nobody holds: overruns strand them.        *)
KeepsBut(f, g, b) ==
  \A a \in DOMAIN f : ~f[a].free /\ a # b => a \in DOMAIN g /\ ~g[a].free /\ g[a].size = f[a].size
Keeps(f, g) ==
  \A a \in DOMAIN f : ~f[a].free => a \in DOMAIN g /\ ~g[a].free /\ g[a].size = f[a].size

(* Every allocation in l is a block in use of f that is large enough.       *)
Owned(f, l) ==
  /\ l \in [DOMAIN l -> Nat]
  /\ \A p \in DOMAIN l : /\ p \in Nat /\ p - HDR \in DOMAIN f /\ ~f[p - HDR].free
                         /\ l[p] <= f[p - HDR].size

(* Between tables f and g somebody has got n bytes at p.                    *)
Obtained(f, g, p, n) ==
  /\ Keeps(f, g) /\ p \in Nat /\ p - HDR \in DOMAIN g /\ ~g[p - HDR].free
  /\ n <= g[p - HDR].size
  /\ p - HDR \in DOMAIN f => f[p - HDR].free

(* What a call that runs holds: printk its buffer alone, get_mac_addr the   *)
(* string it writes to and two more.                                        *)
CallOK(c, f) ==
  \/ DOMAIN c.held = {}
  \/ /\ c.op \in {"printk", "vga_print"} /\ DOMAIN c.held = {c.buf}
     /\ Round16(BufferLen) <= f[c.buf - HDR].size
  \/ c.op = "get_mac_addr" /\ c.buf \in DOMAIN c.held

(* c has the four parts of a call and nothing else.                         *)
IsCall(c) == c = [op |-> c.op, held |-> c.held, buf |-> c.buf, left |-> c.left]

(* The inductive invariant of the library's calls.                          *)
KInv ==
  /\ Sound(heap) /\ Owned(heap.hdr, live) /\ Owned(heap.hdr, call.held)
  /\ DOMAIN live \cap DOMAIN call.held = {} /\ IsCall(call) /\ CallOK(call, heap.hdr)
  /\ PrintAgain

-----------------------------------------------------------------------------

(* kmalloc returns the allocator's globals and nothing else.                *)
LEMMA kmallocIsHeap ==
  ASSUME NEW h, IsHeap(h), NEW n, NEW r \in kmalloc(h, n)
  PROVE  IsHeap(r.heap)
<1> DEFINE len == Round16(n)
<1>1. ASSUME NEW k, IsHeap(k), NEW y PROVE IsHeap([k EXCEPT !.hdr = y])
  BY <1>1, HeapExcept DEF IsHeap
<1>2. ASSUME NEW k, IsHeap(k), NEW last, NEW m PROVE IsHeap(new_blockspace(k, last, m))
  <2> DEFINE y == Insert(SetNext(k.hdr, last, HeapStart + k.size), HeapStart + k.size,
                    [free |-> TRUE, next |-> NULL, prev |-> last, size |-> Wrap(GrowBytes(m) - HDR)])
             x == k.size + GrowBytes(m)
  <2>1. new_blockspace(k, last, m) = Reheap(k, x, y)
    BY DEF new_blockspace, Reheap
  <2> HIDE DEF x, y
  <2>2. Reheap(k, x, y) = [first |-> k.first, size |-> x, hdr |-> y]
    BY <1>2, HeapReheap
  <2> QED
    BY <2>1, <2>2 DEF IsHeap
<1>3. IsHeap(FirstBlock(h, len))
  <2> DEFINE k == new_blockspace(h, NULL, IF len > MinHeap THEN len ELSE MinHeap)
  <2>1. FirstBlock(h, len) = [k EXCEPT !.first = HeapStart + h.size]
    BY DEF FirstBlock
  <2>2. IsHeap(k)
    BY <1>2
  <2> HIDE DEF k
  <2> QED
    BY <2>1, <2>2 DEF IsHeap
<1>4. PICK k : IsHeap(k) /\ r \in kmalloc_block(k, len)
  BY <1>3 DEF kmalloc
<1> HIDE DEF len
<1>5. ASSUME NEW b PROVE IsHeap(Split(k, b, len))
  BY <1>1, <1>4 DEF Split
<1>6. ASSUME NEW q, IsHeap(q), NEW b PROVE IsHeap(Take(q, b))
  BY <1>1, <1>6 DEF Take
<1>7. CASE Fits(k, len) # {}
  <2>1. PICK b : r.heap = Take(IF Splits(k, b, len) THEN Split(k, b, len) ELSE k, b)
    BY <1>4, <1>7 DEF kmalloc_block
  <2> QED
    BY <1>4, <1>5, <1>6, <2>1
<1>8. CASE Fits(k, len) = {}
  <2>1. PICK last : r.heap = Take(new_blockspace(k, last, len), HeapStart + k.size)
    BY <1>4, <1>8 DEF kmalloc_block
  <2> QED
    BY <1>2, <1>4, <1>6, <2>1
<1> QED
  BY <1>7, <1>8

(* kfree leaves _heap_size alone.                                           *)
LEMMA kfreeSize ==
  ASSUME NEW h, IsHeap(h), NEW p PROVE kfree(h, p).size = h.size
<1>1. PICK y : kfree(h, p) = [h EXCEPT !.hdr = y]
  BY DEF kfree
<1> QED
  BY <1>1, HeapExcept

(* kmalloc, in a sound heap, hands out bytes that nobody has.               *)
LEMMA kmallocObtains ==
  ASSUME LibraryFits, NEW h, Sound(h), NEW n, SizeFits(n), NEW r \in kmalloc(h, n), r.heap.size <= MaxHeap
  PROVE  /\ Sound(r.heap) /\ Obtained(h.hdr, r.heap.hdr, r.ptr, n)
         /\ Round16(n) <= r.heap.hdr[r.ptr - HDR].size
<1> DEFINE f == h.hdr
           g == r.heap.hdr
           b == r.ptr - HDR
<1>1. /\ HeapShape(r.heap) /\ r.ptr \in Nat
      /\ Served(f, g, b, n) /\ Served(f, g, b, Round16(n))
  BY kmallocOutcome DEF Sound, LibraryFits, SizesFit, Answers
<1>2. b \in DOMAIN g /\ g[b].size \in Nat
  BY <1>1 DEF HeapShape, Chain, Typed, Header, Served
<1>3. n \in Nat /\ Round16(n) \in Nat
  BY Round16Fits DEF SizeFits
<1> HIDE DEF g, b, f
<1>4. Keeps(f, g)
  BY <1>1 DEF Served, Keeps
<1>5. n <= g[b].size /\ Round16(n) <= g[b].size
  BY <1>1, <1>2, <1>3 DEF Served
<1>6. LastBig(g)
  BY <1>1 DEF Served, Sound, f
<1> QED
  BY <1>1, <1>2, <1>4, <1>5, <1>6 DEF Sound, Obtained, Served, f, g, b

(* kfree, in a sound heap, takes one block from one caller.                 *)
LEMMA kfreeKeeps ==
  ASSUME NEW h, Sound(h), NEW p \in Nat, p - HDR \in DOMAIN h.hdr, ~h.hdr[p - HDR].free
  PROVE  /\ Sound(kfree(h, p)) /\ KeepsBut(h.hdr, kfree(h, p).hdr, p - HDR)
         /\ \E a \in DOMAIN kfree(h, p).hdr : kfree(h, p).hdr[a].free /\ kfree(h, p).hdr[a].size >= h.hdr[p - HDR].size
<1> DEFINE k == kfree(h, p)
<1>1. HeapShape(k) /\ k.size = h.size /\ Released(h.hdr, k.hdr, p - HDR)
  BY kfreeOutcome DEF Sound
<1> HIDE DEF k
<1>2. KeepsBut(h.hdr, k.hdr, p - HDR)
  BY <1>1 DEF Released, KeepsBut
<1>3. Sound(k)
  BY <1>1 DEF Released, Sound
<1> QED
  BY <1>1, <1>2, <1>3 DEF Released, k

(* A byte written past an allocation at worst puts the next block in use.   *)
LEMMA OverrunKeeps ==
  ASSUME NEW h, Sound(h), NEW p \in Nat, p - HDR \in DOMAIN h.hdr, NEW n \in Nat \ {0}
  PROVE  /\ Sound(Overrun(h, p, n)) /\ Keeps(h.hdr, Overrun(h, p, n).hdr)
         /\ Overrun(h, p, n).size = h.size
<1> DEFINE f == h.hdr
           e == HeapStart + h.size
           s == f[p - HDR].next
           o == Overrun(h, p, n)
           g == Taken(f, s)
<1>1. e \in Nat /\ Chain(f, e) /\ Merged(f) /\ IsHeap(h) /\ h.size \in Nat /\ LastBig(f)
  BY HeapAssumption DEF Sound, HeapShape
<1>2. CASE f[p - HDR].size > n \/ s # p + n
  BY <1>2 DEF Overrun, Keeps
<1>3. CASE ~(f[p - HDR].size > n \/ s # p + n)
  <2>1. o = [h EXCEPT !.hdr = g]
    BY <1>3 DEF Overrun, Taken
  <2>2. s # NULL
    BY <1>3 DEF NULL
  <2>3. s \in DOMAIN f
    BY <1>1, <2>2 DEF Chain, NextOK
  <2> HIDE DEF s
  <2>4. Chain(g, e) /\ IsTaken(f, g, s)
    BY <1>1, <2>3, TakenOutcome
  <2> HIDE DEF g, o
  <2>5. Merged(g)
    <3> SUFFICES ASSUME NEW a \in DOMAIN f, g[a].free, g[a].next # NULL
                 PROVE  ~g[g[a].next].free
      BY <2>4 DEF Merged, IsTaken
    <3>1. a # s /\ f[a].free /\ g[a].next = f[a].next
      BY <2>4 DEF IsTaken
    <3>2. ~f[f[a].next].free /\ f[a].next \in DOMAIN f
      BY <1>1, <3>1 DEF Merged, Chain, NextOK
    <3> QED
      BY <2>4, <3>1, <3>2 DEF IsTaken
  <2>6. LastBig(g) /\ Keeps(f, g) /\ DOMAIN g = DOMAIN f
    BY <1>1, <2>4 DEF IsTaken, LastBig, Keeps
  <2>7. o = [first |-> h.first, size |-> h.size, hdr |-> g]
    BY <1>1, <2>1, HeapExcept
  <2>8. IsHeap(o) /\ o.first = h.first /\ o.size = h.size /\ o.hdr = g
    BY <2>7 DEF IsHeap
  <2>9. HeapShape(o)
    BY <1>1, <2>4, <2>5, <2>6, <2>8 DEF HeapShape, Sound
  <2> QED
    BY <2>6, <2>8, <2>9 DEF Sound, o
<1> QED
  BY <1>2, <1>3

(* Overrun changes the table only.                                          *)
LEMMA OverrunSize ==
  ASSUME NEW h, IsHeap(h), NEW p, NEW n
  PROVE  IsHeap(Overrun(h, p, n)) /\ Overrun(h, p, n).size = h.size
<1>1. PICK y : Overrun(h, p, n) = h \/ Overrun(h, p, n) = [h EXCEPT !.hdr = y]
  BY DEF Overrun
<1> QED
  BY <1>1, HeapExcept DEF IsHeap

(* What is in use stays in use through two steps.                           *)
LEMMA KeepsTwice ==
  ASSUME NEW f, NEW g, NEW k, Keeps(f, g), Keeps(g, k) PROVE Keeps(f, k)
  BY DEF Keeps

(* Who gets bytes keeps them through a step that keeps what is in use.      *)
LEMMA ObtainedKept ==
  ASSUME NEW f, NEW g, NEW k, NEW p, NEW n, Obtained(f, g, p, n), Keeps(g, k)
  PROVE  Obtained(f, k, p, n)
<1>1. Keeps(f, k)
  BY KeepsTwice DEF Obtained
<1> QED
  BY <1>1 DEF Obtained, Keeps

(* Bytes obtained and given back leave what was in use before.              *)
LEMMA ObtainedFreed ==
  ASSUME NEW f, NEW g, NEW k, NEW p, NEW n, Obtained(f, g, p, n), KeepsBut(g, k, p - HDR)
  PROVE  Keeps(f, k)
  BY DEF Obtained, Keeps, KeepsBut

(* itoa hands out a text that nobody has, its terminator written.           *)
LEMMA itoaObtains ==
  ASSUME LibraryFits, NEW h, Sound(h), NEW zero \in BOOLEAN, NEW s \in itoa(h, zero), s.heap.size <= MaxHeap
  PROVE  Sound(s.heap) /\ Obtained(h.hdr, s.heap.hdr, s.ptr, IF zero THEN 2 ELSE 32)
<1>1. CASE zero
  <2>1. s \in kmalloc(h, 2) /\ SizeFits(2)
    BY <1>1, HeapAssumption DEF itoa, LibraryFits, SizeFits
  <2> QED
    BY <1>1, <2>1, kmallocObtains
<1>2. CASE ~zero
  <2>1. PICK r \in kmalloc(h, 32) : s = [ptr |-> r.ptr, heap |-> Overrun(r.heap, r.ptr, 32)]
    BY <1>2 DEF itoa
  <2>2. s.ptr = r.ptr /\ s.heap = Overrun(r.heap, r.ptr, 32)
    BY <2>1
  <2>3. r.heap.size <= MaxHeap
    <3>1. IsHeap(r.heap)
      BY kmallocIsHeap DEF Sound, HeapShape
    <3> QED
      BY <2>2, <3>1, OverrunSize
  <2>4. Sound(r.heap) /\ Obtained(h.hdr, r.heap.hdr, r.ptr, 32)
    BY <2>3, kmallocObtains DEF LibraryFits
  <2>5. Sound(s.heap) /\ Keeps(r.heap.hdr, s.heap.hdr)
    BY <2>2, <2>4, OverrunKeeps DEF Obtained
  <2> QED
    BY <1>2, <2>2, <2>4, <2>5, ObtainedKept
<1> QED
  BY <1>1, <1>2

(* itoa returns the allocator's globals and nothing else.                   *)
LEMMA itoaIsHeap ==
  ASSUME NEW h, IsHeap(h), NEW zero \in BOOLEAN, NEW s \in itoa(h, zero)
  PROVE  IsHeap(s.heap)
<1>1. CASE zero
  BY <1>1, kmallocIsHeap DEF itoa
<1>2. CASE ~zero
  <2>1. PICK r \in kmalloc(h, 32) : s = [ptr |-> r.ptr, heap |-> Overrun(r.heap, r.ptr, 32)]
    BY <1>2 DEF itoa
  <2> QED
    BY <2>1, kmallocIsHeap, OverrunSize
<1> QED
  BY <1>1, <1>2

(* A number printed leaves everybody what they had.                         *)
LEMMA itoa_kfreeKeeps ==
  ASSUME LibraryFits, NEW h, Sound(h), NEW zero \in BOOLEAN, NEW k \in itoa_kfree(h, zero), k.size <= MaxHeap
  PROVE  Sound(k) /\ Keeps(h.hdr, k.hdr)
<1>1. PICK s \in itoa(h, zero) : k = kfree(s.heap, s.ptr)
  BY DEF itoa_kfree
<1>2. s.heap.size <= MaxHeap
  <2>1. IsHeap(s.heap)
    BY itoaIsHeap DEF Sound, HeapShape
  <2> QED
    BY <1>1, <2>1, kfreeSize
<1>3. Sound(s.heap) /\ Obtained(h.hdr, s.heap.hdr, s.ptr, IF zero THEN 2 ELSE 32)
  BY <1>2, itoaObtains
<1>4. Sound(k) /\ KeepsBut(s.heap.hdr, k.hdr, s.ptr - HDR)
  BY <1>1, <1>3, kfreeKeeps DEF Obtained
<1> QED
  BY <1>3, <1>4, ObtainedFreed

(* A memmove leaves everybody what they had.                                *)
LEMMA memmoveKeeps ==
  ASSUME LibraryFits, NEW h, Sound(h), NEW n, SizeFits(n), NEW k \in memmove(h, n), k.size <= MaxHeap
  PROVE  Sound(k) /\ Keeps(h.hdr, k.hdr)
<1>1. PICK s \in kmalloc(h, n) : k = kfree(s.heap, s.ptr)
  BY DEF memmove
<1>2. s.heap.size <= MaxHeap
  <2>1. IsHeap(s.heap)
    BY kmallocIsHeap DEF Sound, HeapShape
  <2> QED
    BY <1>1, <2>1, kfreeSize
<1>3. Sound(s.heap) /\ Obtained(h.hdr, s.heap.hdr, s.ptr, n)
  BY <1>2, kmallocObtains
<1>4. Sound(k) /\ KeepsBut(s.heap.hdr, k.hdr, s.ptr - HDR)
  BY <1>1, <1>3, kfreeKeeps DEF Obtained
<1> QED
  BY <1>3, <1>4, ObtainedFreed

-----------------------------------------------------------------------------

(* Allocations outlive every step that keeps what is in use.                *)
LEMMA KeepsOwned ==
  ASSUME NEW f, NEW g, NEW l, Owned(f, l), Keeps(f, g) PROVE Owned(g, l)
  BY DEF Owned, Keeps

(* Allocations outlive the kfree of a pointer that is not among them.       *)
LEMMA FreedOwned ==
  ASSUME NEW f, NEW g, NEW l, NEW p \in Nat, Owned(f, l), KeepsBut(f, g, p - HDR), p \notin DOMAIN l
  PROVE  Owned(g, l)
<1> SUFFICES ASSUME NEW q \in DOMAIN l
             PROVE  /\ q - HDR \in DOMAIN g /\ ~g[q - HDR].free /\ l[q] <= g[q - HDR].size
  BY DEF Owned
<1>1. q \in Nat /\ q - HDR \in DOMAIN f /\ ~f[q - HDR].free /\ l[q] <= f[q - HDR].size /\ q # p
  BY DEF Owned
<1>2. q - HDR # p - HDR
  BY <1>1 DEF HDR
<1> QED
  BY <1>1, <1>2 DEF KeepsBut

(* Part of what is owned is owned.                                          *)
LEMMA ForgetOwned ==
  ASSUME NEW f, NEW l, NEW S, S \subseteq DOMAIN l, Owned(f, l)
  PROVE  Owned(f, [q \in S |-> l[q]])
<1> DEFINE k == [q \in S |-> l[q]]
<1>1. DOMAIN k = S /\ \A q \in S : k[q] = l[q]
  OBVIOUS
<1>2. k \in [DOMAIN k -> Nat]
  BY DEF Owned
<1> HIDE DEF k
<1> QED
  BY <1>1, <1>2 DEF Owned, k

(* What is obtained is new to everybody else, who keep what they own.       *)
LEMMA ObtainedNew ==
  ASSUME NEW f, NEW g, NEW l, NEW p, NEW n, Owned(f, l), Obtained(f, g, p, n)
  PROVE  p \notin DOMAIN l /\ Owned(g, l)
<1>1. p \notin DOMAIN l
  BY DEF Owned, Obtained
<1>2. Owned(g, l)
  BY KeepsOwned DEF Obtained
<1> QED
  BY <1>1, <1>2

(* What is obtained may be added to what is owned.                          *)
LEMMA ObtainedOwned ==
  ASSUME NEW f, NEW g, NEW l, NEW p, NEW n \in Nat, Owned(f, l), Obtained(f, g, p, n)
  PROVE  Owned(g, Given(l, p, n))
<1> DEFINE k == Given(l, p, n)
<1>1. p \notin DOMAIN l
  BY ObtainedNew
<1>2. Owned(g, l)
  BY ObtainedNew
<1>3. DOMAIN k = DOMAIN l \cup {p} /\ k[p] = n /\ \A q \in DOMAIN l : k[q] = l[q]
  BY <1>1 DEF Given
<1>4. k \in [DOMAIN k -> Nat]
  <2>1. \A q \in DOMAIN l \cup {p} : (IF q = p THEN n ELSE l[q]) \in Nat
    BY DEF Owned
  <2> QED
    BY <2>1 DEF Given
<1> HIDE DEF k
<1>5. ASSUME NEW q \in DOMAIN k
      PROVE  q \in Nat /\ q - HDR \in DOMAIN g /\ ~g[q - HDR].free /\ k[q] <= g[q - HDR].size
  <2>1. CASE q = p
    BY <1>3, <2>1 DEF Obtained
  <2>2. CASE q # p
    BY <1>2, <1>3, <2>2 DEF Owned
  <2> QED
    BY <2>1, <2>2
<1> QED
  BY <1>4, <1>5 DEF Owned, k

(* A returned call holds nothing, and nothing is owned by nobody.           *)
LEMMA DoneHolds ==
  ASSUME NEW op, NEW f
  PROVE  /\ DOMAIN Done(op).held = {} /\ Done(op).op = op
         /\ Owned(f, Done(op).held) /\ CallOK(Done(op), f) /\ IsCall(Done(op))
         /\ Owned(f, Nothing) /\ DOMAIN Nothing = {}
<1>1. DOMAIN Nothing = {} /\ Nothing \in [DOMAIN Nothing -> Nat]
  BY DEF Nothing
<1>2. Done(op).held = Nothing /\ Done(op).op = op /\ IsCall(Done(op))
  BY DEF Done, IsCall
<1> QED
  BY <1>1, <1>2 DEF Owned, CallOK

(* A call that has returned keeps the invariant if the heap is sound and    *)
(* the callers own what they think.                                         *)
LEMMA ReturnKInv ==
  ASSUME NEW op, call' = Done(op), Sound(heap'), Owned(heap'.hdr, live'),
         op = "printk" => Fits(heap', Round16(BufferLen)) # {}
  PROVE  KInv'
<1>1. /\ DOMAIN call'.held = {} /\ call'.op = op
      /\ Owned(heap'.hdr, call'.held) /\ CallOK(call', heap'.hdr) /\ IsCall(call')
  BY DoneHolds
<1>2. PrintAgain'
  BY <1>1 DEF PrintAgain
<1>3. DOMAIN live' \cap DOMAIN call'.held = {}
  BY <1>1
<1> QED
  BY <1>1, <1>2, <1>3 DEF KInv

(* While a call runs the invariant is kept if what it holds, and what the   *)
(* callers have, is owned.                                                  *)
LEMMA InsideKInv ==
  ASSUME DOMAIN call'.held # {}, Sound(heap'), Owned(heap'.hdr, live'), Owned(heap'.hdr, call'.held),
         DOMAIN live' \cap DOMAIN call'.held = {}, IsCall(call'), CallOK(call', heap'.hdr)
  PROVE  KInv'
<1>1. PrintAgain'
  BY DEF PrintAgain, Returned
<1> QED
  BY <1>1 DEF KInv

(* The globals as init_kmalloc sets them, and no call made.                 *)
LEMMA InitKInv == KlibcInit => KInv
<1> SUFFICES ASSUME KlibcInit PROVE KInv
  OBVIOUS
<1>1. IInv
  BY InitIInv DEF KlibcInit
<1>2. Sound(heap)
  BY <1>1 DEF KlibcInit, Init, IInv, Sound, LastBig
<1>3. Owned(heap.hdr, live)
  BY <1>1 DEF IInv, Holds, Owned
<1>4. /\ DOMAIN call.held = {} /\ call.op = "none"
      /\ Owned(heap.hdr, call.held) /\ CallOK(call, heap.hdr) /\ IsCall(call)
  BY DoneHolds DEF KlibcInit
<1>5. PrintAgain
  BY <1>4 DEF PrintAgain
<1> QED
  BY <1>2, <1>3, <1>4, <1>5 DEF KInv

(* The self test of init_kmalloc, before any other call.                    *)
LEMMA InitKmallocKInv ==
  ASSUME LibraryFits, KInv, InitKmalloc, UNCHANGED call PROVE KInv'
<1>1. PICK r \in kmalloc(heap, SelfTest) : HeapBound(r.heap) /\ heap' = kfree(r.heap, r.ptr)
  BY DEF InitKmalloc
<1>2. Sound(r.heap) /\ Obtained(heap.hdr, r.heap.hdr, r.ptr, SelfTest)
  BY <1>1, kmallocObtains DEF KInv, LibraryFits, SizesFit, HeapBound
<1>3. Sound(heap') /\ KeepsBut(r.heap.hdr, heap'.hdr, r.ptr - HDR)
  BY <1>1, <1>2, kfreeKeeps DEF Obtained
<1>4. Keeps(heap.hdr, heap'.hdr)
  BY <1>2, <1>3, ObtainedFreed
<1>5. live' = live /\ call' = call
  BY DEF InitKmalloc
<1>6. Owned(heap'.hdr, live') /\ Owned(heap'.hdr, call'.held)
  BY <1>4, <1>5, KeepsOwned DEF KInv
<1>7. DOMAIN heap.hdr = {}
  BY HeapAssumption DEF InitKmalloc, Ready, KInv, Sound, HeapShape, NULL
<1>8. ~(Returned /\ call.op = "printk")
  BY <1>7 DEF KInv, PrintAgain, Fits
<1>9. CallOK(call', heap'.hdr)
  BY <1>5, <1>7 DEF KInv, Owned, CallOK
<1>10. PrintAgain'
  BY <1>5, <1>8 DEF PrintAgain, Returned
<1> QED
  BY <1>3, <1>5, <1>6, <1>9, <1>10 DEF KInv

(* A structure that a caller keeps.                                         *)
LEMMA KeepKInv ==
  ASSUME LibraryFits, KInv, NEW n \in Lengths, Keep(n) PROVE KInv'
<1>1. PICK r \in kmalloc(heap, n) :
        HeapBound(r.heap) /\ heap' = r.heap /\ live' = Extend(r.ptr, n)
  BY DEF Keep, Malloc
<1>2. SizeFits(n) /\ n \in Nat
  BY DEF LibraryFits, SizesFit, SizeFits
<1>3. Sound(heap') /\ Obtained(heap.hdr, heap'.hdr, r.ptr, n)
  BY <1>1, <1>2, kmallocObtains DEF KInv, HeapBound
<1>4. Owned(heap'.hdr, live')
  <2>1. Owned(heap'.hdr, Given(live, r.ptr, n))
    BY <1>2, <1>3, ObtainedOwned DEF KInv
  <2>2. live' = Given(live, r.ptr, n)
    BY <1>1 DEF Extend, Given
  <2> QED
    BY <2>1, <2>2
<1> QED
  BY <1>3, <1>4, ReturnKInv DEF Keep

(* A structure that is given back.                                          *)
LEMMA DropKInv ==
  ASSUME KInv, NEW p \in DOMAIN live, Drop(p) PROVE KInv'
<1> DEFINE l == [q \in DOMAIN live \ {p} |-> live[q]]
<1>1. heap' = kfree(heap, p) /\ live' = l
  BY DEF Drop, Free, Forget
<1>2. p \in Nat /\ p - HDR \in DOMAIN heap.hdr /\ ~heap.hdr[p - HDR].free
  BY DEF KInv, Owned
<1>3. Sound(heap') /\ KeepsBut(heap.hdr, heap'.hdr, p - HDR)
  BY <1>1, <1>2, kfreeKeeps DEF KInv
<1>4. Owned(heap.hdr, l)
  BY ForgetOwned DEF KInv
<1>5. p \notin DOMAIN l
  OBVIOUS
<1> HIDE DEF l
<1>6. Owned(heap'.hdr, l)
  BY <1>2, <1>3, <1>4, <1>5, FreedOwned
<1> QED
  BY <1>1, <1>3, <1>6, ReturnKInv DEF Drop

(* The text that kernel_init never frees.                                   *)
LEMMA KeepTextKInv ==
  ASSUME LibraryFits, KInv, KeepText PROVE KInv'
<1>1. PICK s \in itoa(heap, FALSE) :
        HeapBound(s.heap) /\ heap' = s.heap /\ live' = Extend(s.ptr, 4)
  BY DEF KeepText
<1>2. Sound(heap') /\ Obtained(heap.hdr, heap'.hdr, s.ptr, 32)
  BY <1>1, itoaObtains DEF KInv, HeapBound
<1>3. Obtained(heap.hdr, heap'.hdr, s.ptr, 4)
  <2>1. heap'.hdr[s.ptr - HDR].size \in Nat
    BY <1>2 DEF Obtained, Sound, HeapShape, Chain, Typed, Header
  <2> QED
    BY <1>2, <2>1 DEF Obtained
<1>4. Owned(heap'.hdr, live')
  <2>1. Owned(heap'.hdr, Given(live, s.ptr, 4))
    BY <1>3, ObtainedOwned DEF KInv
  <2>2. live' = Given(live, s.ptr, 4)
    BY <1>1 DEF Extend, Given
  <2> QED
    BY <2>1, <2>2
<1> QED
  BY <1>2, <1>4, ReturnKInv DEF KeepText

(* printk takes its buffer.                                                 *)
LEMMA PrintkKInv ==
  ASSUME LibraryFits, KInv, Printk PROVE KInv'
<1>1. PICK b \in kmalloc(heap, BufferLen) :
        /\ HeapBound(b.heap) /\ heap' = b.heap
        /\ call' = [op |-> "printk", held |-> Given(Nothing, b.ptr, BufferLen), buf |-> b.ptr, left |-> 0]
  BY DEF Printk
<1>2. /\ Sound(heap') /\ Obtained(heap.hdr, heap'.hdr, b.ptr, BufferLen)
      /\ Round16(BufferLen) <= heap'.hdr[b.ptr - HDR].size
  BY <1>1, kmallocObtains DEF KInv, HeapBound, LibraryFits
<1>3. live' = live /\ BufferLen \in Nat
  BY DEF Printk, LibraryFits, SizeFits
<1>4. Owned(heap'.hdr, live') /\ b.ptr \notin DOMAIN live'
  BY <1>2, <1>3, ObtainedNew DEF KInv
<1>5. Owned(heap'.hdr, Given(Nothing, b.ptr, BufferLen))
  BY <1>2, <1>3, DoneHolds, ObtainedOwned
<1>6. DOMAIN Given(Nothing, b.ptr, BufferLen) = {b.ptr}
  BY DoneHolds DEF Given
<1>7. call'.op = "printk" /\ call'.held = Given(Nothing, b.ptr, BufferLen) /\ call'.buf = b.ptr /\ IsCall(call')
  BY <1>1 DEF IsCall
<1>8. CallOK(call', heap'.hdr)
  BY <1>2, <1>6, <1>7 DEF CallOK
<1> QED
  BY <1>2, <1>4, <1>5, <1>6, <1>7, <1>8, InsideKInv

(* A step inside a call that keeps what is in use, and what the call holds. *)
LEMMA WithinKInv ==
  ASSUME KInv, ~Returned, Sound(heap'), Keeps(heap.hdr, heap'.hdr), live' = live,
         IsCall(call'), call'.held = call.held, call'.buf = call.buf,
         call.op = call'.op \/ {call.op, call'.op} \subseteq {"printk", "vga_print"}
  PROVE  KInv'
<1>1. Owned(heap'.hdr, live') /\ Owned(heap'.hdr, call'.held)
  BY KeepsOwned DEF KInv
<1>2. DOMAIN call'.held # {} /\ DOMAIN live' \cap DOMAIN call'.held = {}
  BY DEF KInv, Returned
<1>3. CallOK(call', heap'.hdr)
  <2>1. CASE call.op = "get_mac_addr"
    BY <2>1 DEF KInv, CallOK, Returned
  <2>2. CASE call.op # "get_mac_addr"
    <3>1. /\ call.op \in {"printk", "vga_print"} /\ DOMAIN call.held = {call.buf}
          /\ Round16(BufferLen) <= heap.hdr[call.buf - HDR].size
      BY <2>2 DEF KInv, CallOK, Returned
    <3>2. heap'.hdr[call.buf - HDR].size = heap.hdr[call.buf - HDR].size
      BY <3>1 DEF KInv, Owned, Keeps
    <3> QED
      BY <3>1, <3>2 DEF CallOK
  <2> QED
    BY <2>1, <2>2
<1> QED
  BY <1>1, <1>2, <1>3, InsideKInv

(* A number of printk's format.                                             *)
LEMMA PrintNumberKInv ==
  ASSUME LibraryFits, KInv, NEW zero \in BOOLEAN, PrintNumber(zero) PROVE KInv'
<1>1. PICK h \in itoa_kfree(heap, zero) : HeapBound(h) /\ heap' = h
  BY DEF PrintNumber
<1>2. Sound(heap') /\ Keeps(heap.hdr, heap'.hdr)
  BY <1>1, itoa_kfreeKeeps DEF KInv, HeapBound
<1>3. call' = call /\ live' = live /\ IsCall(call') /\ ~Returned
  BY DEF PrintNumber, Inside, KInv
<1> QED
  BY <1>2, <1>3, WithinKInv

(* The screen moves up while printk's text is shown.                        *)
LEMMA ScrollKInv ==
  ASSUME LibraryFits, KInv, Scroll PROVE KInv'
<1>1. PICK h \in memmove(heap, ScreenLen) : HeapBound(h) /\ heap' = h
  BY DEF Scroll
<1>2. Sound(heap') /\ Keeps(heap.hdr, heap'.hdr)
  BY <1>1, memmoveKeeps DEF KInv, HeapBound, LibraryFits
<1>3. call' = [call EXCEPT !.op = "vga_print"] /\ live' = live /\ ~Returned /\ IsCall(call)
      /\ call.op \in {"printk", "vga_print"}
  BY DEF Scroll, Inside, KInv
<1>4. IsCall(call') /\ call'.held = call.held /\ call'.buf = call.buf /\ call'.op = "vga_print"
  BY <1>3 DEF IsCall
<1>5. {call.op, call'.op} \subseteq {"printk", "vga_print"}
  BY <1>3, <1>4
<1> QED
  BY <1>2, <1>3, <1>4, <1>5, WithinKInv

(* printk gives its buffer back: the next one finds room.                   *)
LEMMA PrintkEndsKInv ==
  ASSUME LibraryFits, KInv, PrintkEnds PROVE KInv'
<1> DEFINE p == call.buf
<1>1. heap' = kfree(heap, p) /\ call' = Done("printk") /\ live' = live /\ ~Returned
  BY DEF PrintkEnds, Inside
<1>2. DOMAIN call.held = {p} /\ Round16(BufferLen) <= heap.hdr[p - HDR].size
  BY DEF PrintkEnds, Inside, Returned, KInv, CallOK
<1>3. p \in Nat /\ p - HDR \in DOMAIN heap.hdr /\ ~heap.hdr[p - HDR].free /\ p \notin DOMAIN live
  BY <1>2 DEF KInv, Owned
<1>4. /\ Sound(heap') /\ KeepsBut(heap.hdr, heap'.hdr, p - HDR)
      /\ \E a \in DOMAIN heap'.hdr : heap'.hdr[a].free /\ heap'.hdr[a].size >= heap.hdr[p - HDR].size
  BY <1>1, <1>3, kfreeKeeps DEF KInv
<1>5. Owned(heap'.hdr, live')
  BY <1>1, <1>3, <1>4, FreedOwned DEF KInv
<1>6. Fits(heap', Round16(BufferLen)) # {}
  <2>1. PICK a \in DOMAIN heap'.hdr : heap'.hdr[a].free /\ heap'.hdr[a].size >= heap.hdr[p - HDR].size
    BY <1>4
  <2>2. heap'.hdr[a].size \in Nat /\ heap.hdr[p - HDR].size \in Nat
    BY <1>3, <1>4 DEF KInv, Sound, HeapShape, Chain, Typed, Header
  <2>3. Round16(BufferLen) \in Nat
    BY Round16Fits DEF LibraryFits
  <2>4. heap'.hdr[a].size >= Round16(BufferLen)
    BY <1>2, <2>1, <2>2, <2>3
  <2> QED
    BY <2>1, <2>4 DEF Fits
<1> QED
  BY <1>1, <1>4, <1>5, <1>6, ReturnKInv

(* get_mac_addr takes its three blocks.                                     *)
LEMMA GetMacKInv ==
  ASSUME LibraryFits, KInv, GetMac PROVE KInv'
<1>1. PICK mac \in kmalloc(heap, 6) : HeapBound(mac.heap) /\
        \E addr \in kmalloc(mac.heap, 12) : HeapBound(addr.heap) /\
          \E str \in kmalloc(addr.heap, 9) :
            /\ HeapBound(str.heap) /\ heap' = str.heap
            /\ call' = [op |-> "get_mac_addr",
                        held |-> Given(Given(Given(Nothing, mac.ptr, 6), addr.ptr, 12), str.ptr, 9),
                        buf |-> str.ptr, left |-> 6]
  BY DEF GetMac
<1>2. PICK addr \in kmalloc(mac.heap, 12) : HeapBound(addr.heap) /\
        \E str \in kmalloc(addr.heap, 9) :
          /\ HeapBound(str.heap) /\ heap' = str.heap
          /\ call' = [op |-> "get_mac_addr",
                      held |-> Given(Given(Given(Nothing, mac.ptr, 6), addr.ptr, 12), str.ptr, 9),
                      buf |-> str.ptr, left |-> 6]
  BY <1>1
<1>3. PICK str \in kmalloc(addr.heap, 9) :
        /\ HeapBound(str.heap) /\ heap' = str.heap
        /\ call' = [op |-> "get_mac_addr",
                    held |-> Given(Given(Given(Nothing, mac.ptr, 6), addr.ptr, 12), str.ptr, 9),
                    buf |-> str.ptr, left |-> 6]
  BY <1>2
<1>4. SizeFits(6) /\ SizeFits(12) /\ SizeFits(9)
  BY HeapAssumption DEF LibraryFits, SizeFits
<1>5. Sound(mac.heap) /\ Obtained(heap.hdr, mac.heap.hdr, mac.ptr, 6)
  BY <1>1, <1>4, kmallocObtains DEF KInv, HeapBound
<1>6. Sound(addr.heap) /\ Obtained(mac.heap.hdr, addr.heap.hdr, addr.ptr, 12)
  BY <1>2, <1>4, <1>5, kmallocObtains DEF HeapBound
<1>7. Sound(heap') /\ Obtained(addr.heap.hdr, heap'.hdr, str.ptr, 9)
  BY <1>3, <1>4, <1>6, kmallocObtains DEF HeapBound
<1> DEFINE l1 == Given(Nothing, mac.ptr, 6)
           l2 == Given(l1, addr.ptr, 12)
           l3 == Given(l2, str.ptr, 9)
<1>8. call'.op = "get_mac_addr" /\ call'.held = l3 /\ call'.buf = str.ptr /\ IsCall(call')
  BY <1>3 DEF IsCall
<1>9. /\ DOMAIN l1 = {mac.ptr} /\ DOMAIN l2 = {mac.ptr, addr.ptr}
      /\ DOMAIN l3 = {mac.ptr, addr.ptr, str.ptr}
  BY DoneHolds DEF Given
<1>10. Owned(heap.hdr, live) /\ Owned(heap.hdr, Nothing)
  BY DoneHolds DEF KInv
<1> HIDE DEF l1, l2, l3
<1>11. mac.ptr \notin DOMAIN live /\ Owned(mac.heap.hdr, live) /\ Owned(mac.heap.hdr, l1)
  <2>1. mac.ptr \notin DOMAIN live /\ Owned(mac.heap.hdr, live)
    BY <1>5, <1>10, ObtainedNew
  <2>2. Owned(mac.heap.hdr, Given(Nothing, mac.ptr, 6))
    BY <1>5, <1>10, ObtainedOwned
  <2> QED
    BY <2>1, <2>2 DEF l1
<1>12. addr.ptr \notin DOMAIN live /\ Owned(addr.heap.hdr, live) /\ Owned(addr.heap.hdr, l2)
  <2>1. addr.ptr \notin DOMAIN live /\ Owned(addr.heap.hdr, live)
    BY <1>6, <1>11, ObtainedNew
  <2>2. Owned(addr.heap.hdr, Given(l1, addr.ptr, 12))
    BY <1>6, <1>11, ObtainedOwned
  <2> QED
    BY <2>1, <2>2 DEF l2
<1>13. str.ptr \notin DOMAIN live /\ Owned(heap'.hdr, live) /\ Owned(heap'.hdr, l3)
  <2>1. str.ptr \notin DOMAIN live /\ Owned(heap'.hdr, live)
    BY <1>7, <1>12, ObtainedNew
  <2>2. Owned(heap'.hdr, Given(l2, str.ptr, 9))
    BY <1>7, <1>12, ObtainedOwned
  <2> QED
    BY <2>1, <2>2 DEF l3
<1>14. live' = live
  BY DEF GetMac
<1>15. CallOK(call', heap'.hdr)
  BY <1>8, <1>9 DEF CallOK
<1> QED
  BY <1>7, <1>8, <1>9, <1>11, <1>12, <1>13, <1>14, <1>15, InsideKInv

(* A byte of the address but the last.                                      *)
LEMMA MacByteKInv ==
  ASSUME LibraryFits, KInv, NEW zero \in BOOLEAN, MacByte(zero) PROVE KInv'
<1>1. PICK h \in itoa_kfree(heap, zero) : HeapBound(h) /\ heap' = h
  BY DEF MacByte
<1>2. Sound(heap') /\ Keeps(heap.hdr, heap'.hdr)
  BY <1>1, itoa_kfreeKeeps DEF KInv, HeapBound
<1>3. call' = [call EXCEPT !.left = call.left - 1] /\ live' = live /\ ~Returned /\ IsCall(call)
  BY DEF MacByte, Inside, KInv
<1>4. IsCall(call') /\ call'.held = call.held /\ call'.buf = call.buf /\ call'.op = call.op
  BY <1>3 DEF IsCall
<1> QED
  BY <1>2, <1>3, <1>4, WithinKInv

(* The last byte of the address: its characters are written past the string *)
(* and the callers get the three blocks.                                    *)
LEMMA MacEndsKInv ==
  ASSUME LibraryFits, KInv, NEW zero \in BOOLEAN, MacEnds(zero) PROVE KInv'
<1> DEFINE n == IF zero THEN 2 ELSE 32
<1>1. PICK s \in itoa(heap, zero) : HeapBound(s.heap) /\ heap' = kfree(Overrun(s.heap, call.buf, 16), s.ptr)
  BY DEF MacEnds
<1>2. Sound(s.heap) /\ Obtained(heap.hdr, s.heap.hdr, s.ptr, n)
  BY <1>1, itoaObtains DEF KInv, HeapBound
<1>3. Owned(heap.hdr, call.held) /\ call.buf \in DOMAIN call.held /\ Owned(heap.hdr, live)
  BY DEF MacEnds, Inside, Returned, KInv, CallOK
<1> HIDE DEF n
<1>5. Owned(s.heap.hdr, call.held)
  BY <1>2, <1>3, ObtainedNew
<1> DEFINE o == Overrun(s.heap, call.buf, 16)
<1>6. Sound(o) /\ Keeps(s.heap.hdr, o.hdr)
  BY <1>2, <1>3, <1>5, OverrunKeeps DEF Owned
<1> HIDE DEF o
<1>7. Obtained(heap.hdr, o.hdr, s.ptr, n)
  BY <1>2, <1>6, ObtainedKept
<1>8. Sound(heap') /\ KeepsBut(o.hdr, heap'.hdr, s.ptr - HDR)
  BY <1>1, <1>6, <1>7, kfreeKeeps DEF Obtained, o
<1>9. Keeps(heap.hdr, heap'.hdr)
  BY <1>7, <1>8, ObtainedFreed
<1>10. Owned(heap'.hdr, live) /\ Owned(heap'.hdr, call.held)
  BY <1>3, <1>9, KeepsOwned
<1>11. Owned(heap'.hdr, live')
  <2>1. live' = [p \in DOMAIN live \cup DOMAIN call.held |->
                   IF p \in DOMAIN call.held THEN call.held[p] ELSE live[p]]
    BY DEF MacEnds
  <2>2. /\ DOMAIN live' = DOMAIN live \cup DOMAIN call.held
        /\ \A p \in DOMAIN live' : live'[p] = IF p \in DOMAIN call.held THEN call.held[p] ELSE live[p]
    BY <2>1
  <2>3. \A p \in DOMAIN live \cup DOMAIN call.held :
          (IF p \in DOMAIN call.held THEN call.held[p] ELSE live[p]) \in Nat
    BY <1>10 DEF Owned
  <2>4. live' \in [DOMAIN live' -> Nat]
    BY <2>1, <2>3
  <2> QED
    BY <1>10, <2>2, <2>4 DEF Owned
<1> QED
  BY <1>8, <1>11, ReturnKInv DEF MacEnds

(* Every step of the library and of its callers keeps the invariant.        *)
LEMMA NextKInv == ASSUME LibraryFits PROVE KInv /\ [KlibcNext]_kvars => KInv'
<1> SUFFICES ASSUME KInv, [KlibcNext]_kvars PROVE KInv'
  OBVIOUS
<1>1. CASE InitKmalloc /\ UNCHANGED call
  BY <1>1, InitKmallocKInv
<1>2. ASSUME NEW n \in Lengths, Keep(n) PROVE KInv'
  BY <1>2, KeepKInv
<1>3. ASSUME NEW p \in DOMAIN live, Drop(p) PROVE KInv'
  BY <1>3, DropKInv
<1>4. CASE KeepText
  BY <1>4, KeepTextKInv
<1>5. CASE Printk
  BY <1>5, PrintkKInv
<1>6. ASSUME NEW zero \in BOOLEAN, PrintNumber(zero) PROVE KInv'
  BY <1>6, PrintNumberKInv
<1>7. CASE Scroll
  BY <1>7, ScrollKInv
<1>8. CASE PrintkEnds
  BY <1>8, PrintkEndsKInv
<1>9. CASE GetMac
  BY <1>9, GetMacKInv
<1>10. ASSUME NEW zero \in BOOLEAN, MacByte(zero) PROVE KInv'
  BY <1>10, MacByteKInv
<1>11. ASSUME NEW zero \in BOOLEAN, MacEnds(zero) PROVE KInv'
  BY <1>11, MacEndsKInv
<1>12. CASE UNCHANGED kvars
  BY <1>12 DEF kvars, KInv, PrintAgain, Returned
<1> QED
  BY <1>1, <1>2, <1>3, <1>4, <1>5, <1>6, <1>7, <1>8, <1>9, <1>10, <1>11, <1>12 DEF KlibcNext

(* However the calls of the library and of its callers follow each other,   *)
(* the heap is sound, its last block is large, and everybody owns what they *)
(* were given.                                                              *)
THEOREM LibraryInvariant == ASSUME LibraryFits PROVE KlibcSpec => []KInv
<1>1. KlibcInit => KInv
  BY InitKInv
<1>2. KInv /\ [KlibcNext]_kvars => KInv'
  BY NextKInv
<1> QED
  BY <1>1, <1>2, PTL DEF KlibcSpec

(* A sound heap has blocks that do not overlap, on a list in address order. *)
LEMMA SoundOrder == Sound(heap) => BlocksDisjoint /\ ListInOrder
<1> SUFFICES ASSUME Sound(heap) PROVE BlocksDisjoint /\ ListInOrder
  OBVIOUS
<1> DEFINE f == heap.hdr
           e == HeapStart + heap.size
<1>1. Chain(f, e) /\ e \in Nat
  BY HeapAssumption DEF Sound, HeapShape
<1>2. \A a \in DOMAIN f : EndOf(a) = End(f, a)
  BY DEF EndOf, End
<1>3. \A a \in DOMAIN f : SpanOK(f, e, a)
  BY <1>1 DEF Chain
<1>4. BlocksDisjoint
  BY <1>1, <1>2, <1>3, Apart DEF BlocksDisjoint, Blocks, HeapEnd, SpanOK
<1>5. ListInOrder
  BY <1>1 DEF ListInOrder, Blocks, Chain, NextOK, PrevOK
<1> QED
  BY <1>4, <1>5

(* The invariant gives every caller, and every call that runs, its bytes.   *)
LEMMA KInvCallersSafe == KInv => CallersSafe
<1> SUFFICES ASSUME KInv PROVE CallersSafe
  OBVIOUS
<1>1. BlocksDisjoint /\ ListInOrder
  BY SoundOrder DEF KInv
<1>2. ASSUME NEW l \in {live, call.held}, NEW p \in DOMAIN l
      PROVE  p - HDR \in Blocks /\ InUse(p - HDR) /\ l[p] <= heap.hdr[p - HDR].size
  BY DEF KInv, Owned, Blocks, InUse
<1> QED
  BY <1>1, <1>2 DEF CallersSafe, KInv

(* The invariant puts a header after every block a text may be put into.    *)
LEMMA KInvOverrunInHeap == KInv => OverrunInHeap
<1> SUFFICES ASSUME KInv, NEW a \in DOMAIN heap.hdr, heap.hdr[a].size <= 32
             PROVE  EndOf(a) + 1 < HeapEnd
  BY DEF OverrunInHeap, Blocks
<1> DEFINE f == heap.hdr
           e == HeapStart + heap.size
           n == f[a].next
<1>1. Chain(f, e) /\ e \in Nat /\ LastBig(f)
  BY HeapAssumption DEF KInv, Sound, HeapShape
<1>2. f[a].size \in Nat /\ a \in Nat /\ NextOK(f, a) /\ SpanOK(f, e, a)
  BY <1>1 DEF Chain, Typed, Header
<1>3. n # NULL
  BY <1>1, <1>2 DEF LastBig
<1>4. n \in DOMAIN f /\ a + HDR + f[a].size <= n
  BY <1>2, <1>3 DEF NextOK, SpanOK, Above, End
<1>5. n \in Nat /\ f[n].size \in Nat /\ n + HDR + f[n].size <= e
  BY <1>1, <1>4 DEF Chain, Typed, Header, SpanOK, End
<1> QED
  BY <1>1, <1>2, <1>4, <1>5 DEF EndOf, HeapEnd, HDR

(* The bytes that itoa and get_mac_addr write past the end of a text never  *)
(* cost a caller, or the call that runs, its data: the list stays sound and *)
(* every allocation has a block of its own, in use and large enough.        *)
THEOREM CallersNeverHarmed == ASSUME LibraryFits PROVE KlibcSpec => []CallersSafe
  BY LibraryInvariant, KInvCallersSafe, PTL

(* The terminator that itoa writes one byte too far is always inside the    *)
(* heap: no text is ever put into the last block.                           *)
THEOREM TerminatorInHeap == ASSUME LibraryFits PROVE KlibcSpec => []OverrunInHeap
  BY LibraryInvariant, KInvOverrunInHeap, PTL

(* A printk that has returned leaves room for the buffer of the next,       *)
(* whatever numbers it printed and however often the screen moved.          *)
THEOREM RoomForNextPrintk == ASSUME LibraryFits PROVE KlibcSpec => []PrintAgain
<1>1. KInv => PrintAgain
  BY DEF KInv
<1> QED
  BY <1>1, LibraryInvariant, PTL

=============================================================================
