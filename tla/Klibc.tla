------------------------------- MODULE Klibc -------------------------------
(***************************************************************************)
(* The C library and the other users of the kernel heap: klibc/kstdlib.c,   *)
(* klibc/kstdio.c, klibc/kstring.c, vga_scrolldown, and get_mac_addr of     *)
(* driver/eth/intel_8254x.c, run against the allocator of module KMalloc.   *)
(*                                                                          *)
(* Two of them write past their allocation.  The byte after a block is, when*)
(* the next block is adjacent, the low byte of that block's `free' field,   *)
(* the first of its header: what they write there is never _MBLKFREE.       *)
(* Functions on the heap take the allocator's globals and return the set of *)
(* outcomes, as in KMalloc.  The loops of printk, vga_print and             *)
(* get_mac_addr are taken one iteration at a time.                          *)
(***************************************************************************)
EXTENDS KMalloc

CONSTANTS
  BufferLen,  \* 200, the buffer of printk
  ScreenLen   \* 3840, the bytes vga_scrolldown moves

ASSUME KlibcAssumption == {BufferLen, ScreenLen} \subseteq 0 .. (Word - 1)

(***************************************************************************)
(* call.op is the library call that runs or has returned last, held what it *)
(* has allocated for as long as it runs, by pointer, buf the allocation it  *)
(* writes to, left the passes its loop has to go.                           *)
(***************************************************************************)
VARIABLE call

kvars == <<heap, live, call>>

(* The pointers of l, and p of n bytes.                                     *)
Given(l, p, n) == [q \in DOMAIN l \cup {p} |-> IF q = p THEN n ELSE l[q]]
Nothing        == [p \in {} |-> 0]

Done(op)    == [op |-> op, held |-> Nothing, buf |-> NULL, left |-> 0]
Returned    == DOMAIN call.held = {}
Inside(ops) == ~Returned /\ call.op \in ops

-----------------------------------------------------------------------------
(* Fault: zero, the terminator, is _MBLKFREE and not _MBLKINUSE. *)
OverrunFrees(h, p, n) ==
  LET next == h.hdr[p - HDR].next IN
  IF h.hdr[p - HDR].size > n \/ next # p + n THEN h
  ELSE [h EXCEPT !.hdr = [h.hdr EXCEPT ![next] = [@ EXCEPT !.free = TRUE]]]

(* A write of byte n of the allocation at p.                                *)
Overrun(h, p, n) ==
  LET next == h.hdr[p - HDR].next IN
  IF h.hdr[p - HDR].size > n \/ next # p + n THEN h
  ELSE [h EXCEPT !.hdr = [h.hdr EXCEPT ![next] = [@ EXCEPT !.free = FALSE]]]

(* itoa: two bytes for "0", otherwise 32 that are terminated at byte 32.    *)
itoa(h, zero) ==
  IF zero THEN kmalloc(h, 2)
  ELSE {[ptr |-> s.ptr, heap |-> Overrun(s.heap, s.ptr, 32)] : s \in kmalloc(h, 32)}

(* A number is converted, copied and freed.                                 *)
itoa_kfree(h, zero) == {kfree(s.heap, s.ptr) : s \in itoa(h, zero)}

memmove(h, n) == {kfree(buf.heap, buf.ptr) : buf \in kmalloc(h, n)}

-----------------------------------------------------------------------------
KlibcInit == Init /\ call = Done("none")

(* A structure that stays, such as a descriptor or a device.                *)
Keep(len) == Returned /\ Malloc(len) /\ call' = Done("kmalloc")

Drop(p) == Returned /\ Free(p) /\ call' = Done("kfree")

(* The text of kernel_init's itoa(0xb23, 16) is never freed.                *)
KeepText ==
  /\ Returned /\ Ready /\ MayAllocate
  /\ \E s \in itoa(heap, FALSE) :
       HeapBound(s.heap) /\ heap' = s.heap /\ live' = Extend(s.ptr, 4)
  /\ call' = Done("itoa")

(* printk: the buffer, then the numbers of the format one by one, then      *)
(* vga_print, which moves the screen up whenever the text reaches its end.  *)
Printk ==
  /\ Returned /\ Ready
  /\ \E b \in kmalloc(heap, BufferLen) :
       /\ HeapBound(b.heap) /\ heap' = b.heap
       /\ call' = [op |-> "printk", held |-> Given(Nothing, b.ptr, BufferLen), buf |-> b.ptr, left |-> 0]
  /\ UNCHANGED live

PrintNumber(zero) ==
  /\ Inside({"printk"})
  /\ \E h \in itoa_kfree(heap, zero) : HeapBound(h) /\ heap' = h
  /\ UNCHANGED <<live, call>>

Scroll ==
  /\ Inside({"printk", "vga_print"})
  /\ \E h \in memmove(heap, ScreenLen) : HeapBound(h) /\ heap' = h
  /\ call' = [call EXCEPT !.op = "vga_print"]
  /\ UNCHANGED live

(* Fault: the buffer is not given back. *)
PrintkEndsLeaking ==
  /\ Inside({"printk", "vga_print"})
  /\ call' = Done("printk") /\ UNCHANGED <<heap, live>>

PrintkEnds ==
  /\ Inside({"printk", "vga_print"})
  /\ heap' = kfree(heap, call.buf)
  /\ call' = Done("printk") /\ UNCHANGED live

(* get_mac_addr: mac, addr and str stay allocated; the sixth byte's         *)
(* characters are written at 15 .. 17 of the 9 bytes asked for, while its   *)
(* text is still allocated.                                                 *)
GetMac ==
  /\ Returned /\ Ready /\ MayAllocate
  /\ \E mac \in kmalloc(heap, 6) : HeapBound(mac.heap) /\
       \E addr \in kmalloc(mac.heap, 12) : HeapBound(addr.heap) /\
         \E str \in kmalloc(addr.heap, 9) :
           /\ HeapBound(str.heap) /\ heap' = str.heap
           /\ call' = [op |-> "get_mac_addr",
                       held |-> Given(Given(Given(Nothing, mac.ptr, 6), addr.ptr, 12), str.ptr, 9),
                       buf |-> str.ptr, left |-> 6]
  /\ UNCHANGED live

MacByte(zero) ==
  /\ Inside({"get_mac_addr"}) /\ call.left > 1
  /\ \E h \in itoa_kfree(heap, zero) : HeapBound(h) /\ heap' = h
  /\ call' = [call EXCEPT !.left = @ - 1]
  /\ UNCHANGED live

MacEnds(zero) ==
  /\ Inside({"get_mac_addr"}) /\ call.left = 1
  /\ \E s \in itoa(heap, zero) :
       HeapBound(s.heap) /\ heap' = kfree(Overrun(s.heap, call.buf, 16), s.ptr)
  /\ live' = [p \in DOMAIN live \cup DOMAIN call.held |->
                IF p \in DOMAIN call.held THEN call.held[p] ELSE live[p]]
  /\ call' = Done("get_mac_addr")

KlibcNext ==
  \/ InitKmalloc /\ UNCHANGED call
  \/ \E len \in Lengths : Keep(len)
  \/ \E p \in DOMAIN live : Drop(p)
  \/ KeepText
  \/ Printk
  \/ \E zero \in BOOLEAN : PrintNumber(zero)
  \/ Scroll
  \/ PrintkEnds
  \/ GetMac
  \/ \E zero \in BOOLEAN : MacByte(zero)
  \/ \E zero \in BOOLEAN : MacEnds(zero)

KlibcSpec == KlibcInit /\ [][KlibcNext]_kvars

-----------------------------------------------------------------------------
(* Properties *)

(* However the library's calls and the callers' own are ordered, the bytes  *)
(* written past the end of a text leave the list of blocks sound and every  *)
(* allocation, the library's own included, in a block of its own that is in *)
(* use and large enough: they cost memory, and never a caller's data.       *)
CallersSafe ==
  /\ BlocksDisjoint /\ ListInOrder
  /\ DOMAIN live \cap DOMAIN call.held = {}
  /\ \A l \in {live, call.held} : \A p \in DOMAIN l :
       p - HDR \in Blocks /\ InUse(p - HDR) /\ l[p] <= heap.hdr[p - HDR].size

(* The byte after any block that a text may be put into is inside the heap: *)
(* the terminator never faults.                                             *)
OverrunInHeap == \A a \in Blocks : heap.hdr[a].size <= 32 => EndOf(a) + 1 < HeapEnd

(* After a printk there is room for the next one's buffer: the loops that   *)
(* call printk("") until the hardware answers run in constant memory, even  *)
(* though every pass may lose a header.                                     *)
PrintAgain ==
  Returned /\ call.op = "printk" => Fits(heap, Round16(BufferLen)) # {}
=============================================================================
