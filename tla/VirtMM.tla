------------------------------- MODULE VirtMM -------------------------------
(***************************************************************************)
(* Paging, kernel/mm/virt-mm.c, on top of the frame allocator of PhyMM.     *)
(*                                                                          *)
(* Logical addresses are page numbers: page lp is entry lp % TableSize of   *)
(* page table lp \div TableSize.  The heap uses the pages below DriverBase, *)
(* memory mapped devices the pages from DriverBase up.  Physical pages are  *)
(* numbered as in PhyMM; -1 - i is page i of physical memory, below the     *)
(* managed region (so NULL, address 0, is -1), and devices lie far above.   *)
(*                                                                          *)
(* The kernel is single threaded, but the processor walks the tables, and   *)
(* caches what it finds, whenever it likes: the loops of mmap, munmap and   *)
(* maphwdev are taken one write to a table at a time.  `call' is the        *)
(* activation record of the one that is running.  regions and devs are the  *)
(* callers' view of what they mapped.                                       *)
(***************************************************************************)
EXTENDS Integers

CONSTANTS
  NPages,      \* _hwas_ssize
  MaxRequest,  \* bound: the most pages one mmap asks for
  TableSize,   \* 1024, entries of a page table
  HeapTables,  \* bound: page tables that cover the heap's address range
  PageSize,    \* 4096
  StalePages,  \* physical pages that present entries of an uncleared table name
  Devices,     \* physical page numbers at which devices' registers start
  DevPages,    \* pages of registers of one device
  MaxDevices   \* bound: devices that get mapped

ASSUME VirtAssumption ==
  /\ NPages \in Nat \ {0} /\ MaxRequest \in Nat \ {0}
  /\ TableSize \in Nat \ {0} /\ HeapTables \in Nat \ {0} /\ PageSize \in Nat \ {0}
  /\ DevPages \in 1 .. TableSize /\ MaxDevices \in Nat
  /\ Devices \subseteq Nat /\ \A d \in Devices : d > 2 * NPages

ASSUME StaleAssumption == StalePages \subseteq Int

\* No request is so large that its number of pages does not fit a uint16_t.
ASSUME WidthAssumption == MaxRequest < 65536

VARIABLES
  vm,       \* the frame allocator, the page directory and the page tables
  tlb,      \* tlb[lp]: the translation the processor has cached for lp
  head,     \* __driver_space_head, in bytes from __driver_space_start
  call,     \* the running mmap, munmap or maphwdev
  regions,  \* what mmap was asked for and munmap has not undone
  devs,     \* what maphwdev returned: pointer and device
  status    \* what the last hwpfree returned

vars == <<vm, tlb, head, call, regions, devs, status>>

DriverBase == HeapTables * TableSize
Tables     == 0 .. HeapTables
Slots      == 0 .. TableSize - 1
HeapPages  == 0 .. DriverBase - 1
Pages      == 0 .. DriverBase + TableSize - 1

NULL == -1

(* The frame allocator counts pages in a uint16_t.                          *)
U16(n) == n % 65536

Idle == [op |-> "idle", lp |-> 0, hw |-> 0, i |-> 0, n |-> 0, ptr |-> 0]

(***************************************************************************)
(* PhyMM's client is whoever a frame was allocated for: a page table or a   *)
(* region.  The instance supplies hwpalloc and hwpfree, and its Spec is the *)
(* protocol that virt-mm.c has to keep to.                                  *)
(***************************************************************************)
Owners == ({"table"} \X Tables) \cup ({"region"} \X HeapPages)

Held(o) ==
  IF o[1] = "table"
  THEN IF \E f \in vm.pde[o[2]] : TRUE
       THEN [base |-> CHOOSE f \in vm.pde[o[2]] : TRUE, n |-> 1] ELSE [base |-> NULL, n |-> 0]
  ELSE IF o[2] \in DOMAIN regions /\ regions[o[2]].hw # NULL
       THEN [base |-> regions[o[2]].hw, n |-> regions[o[2]].n] ELSE [base |-> NULL, n |-> 0]

Phy == INSTANCE PhyMM WITH Clients <- Owners, pm <- vm.pm, holds <- [o \in Owners |-> Held(o)]

-----------------------------------------------------------------------------
(***************************************************************************)
(* Page directory and tables.  An entry is the set of physical pages it     *)
(* names: empty when its present bit is clear.  vm.pt maps a frame that     *)
(* holds a page table to the table's entries.                               *)
(***************************************************************************)
(* Fault: every page is looked up in the first page table.                  *)
TableFirst(lp) == 0

Table(lp) == lp \div TableSize
Slot(lp)  == lp % TableSize

Walk(v, lp) == UNION {v.pt[f][Slot(lp)] : f \in v.pde[Table(lp)]}

SetPte(v, lp, entry) ==
  [v EXCEPT !.pt = [f \in DOMAIN v.pt |->
     IF f \in v.pde[Table(lp)] THEN [v.pt[f] EXCEPT ![Slot(lp)] = entry] ELSE v.pt[f]]]

(* Fault: the new table's frame is looked at but not taken.                 *)
InstallTablePeek(v, r, t, stale) ==
  IF r.addr = NULL THEN [v EXCEPT !.lost = "yes"]
  ELSE [v EXCEPT !.pde = [v.pde EXCEPT ![t] = {r.addr}],
                 !.pt  = [f \in DOMAIN v.pt \cup {r.addr} |-> IF f = r.addr THEN stale ELSE v.pt[f]]]

(* A new page table is whatever the frame held before: nothing clears it.   *)
(* hwpalloc's NULL is not looked at; physical page 0 then serves as a page  *)
(* table, its entries are no longer the kernel's own, and the model stops.  *)
InstallTable(v, r, t, stale) ==
  IF r.addr = NULL THEN [v EXCEPT !.pm = r.pm, !.lost = "yes"]
  ELSE [v EXCEPT !.pm  = r.pm,
                 !.pde = [v.pde EXCEPT ![t] = {r.addr}],
                 !.pt  = [f \in DOMAIN v.pt \cup {r.addr} |-> IF f = r.addr THEN stale ELSE v.pt[f]]]

StaleTables == [Slots -> {{}} \cup {{f} : f \in StalePages}]

WithTable(v, t) ==
  {InstallTable(v, r, t, stale) : r \in Phy!hwpalloc(v.pm, 1), stale \in StaleTables}

(* mapfr and umapfr flush the TLB entry of the page table entry's own       *)
(* address, which is not the address being mapped: no entry that tlb tracks *)
(* is touched.                                                              *)
umapfr(v, lp) == IF v.pde[Table(lp)] = {} THEN v ELSE SetPte(v, lp, {})

(* Fault: the entry after the one asked for.                                *)
lpaNext(v, lp, off) == {f * PageSize + (off % 1024) : f \in Walk(v, lp + 1)}

(* _lpa: the physical byte address of a logical byte address.  The masks    *)
(* keep 10 bits of the offset, not 12.                                      *)
lpa(v, lp, off) == {f * PageSize + (off % 1024) : f \in Walk(v, lp)}

-----------------------------------------------------------------------------
Covered(lp, n) == lp .. (lp + n - 1)
InRegions == UNION {Covered(q, regions[q].n) : q \in DOMAIN regions}

(* The pages the running call has yet to map.                               *)
Pending == Covered(call.lp + call.i, call.n - call.i)

Defined == vm.pm.mode = "defined" /\ vm.lost = "no"
Running(op) == Defined /\ call.op = op

Init ==
  /\ vm = [pm |-> Phy!InitPm, pde |-> [t \in Tables |-> {}], pt |-> [f \in {} |-> <<>>], lost |-> "no"]
  /\ tlb = [lp \in Pages |-> {}]
  /\ head = 0 /\ call = Idle
  /\ regions = [q \in {} |-> Idle] /\ devs = {}
  /\ status = "OK"

(* mmap(lp, n pages): the frames are allocated first; NULL goes unnoticed.  *)
Mmap(lp, n) ==
  /\ Running("idle")
  /\ Covered(lp, n) \subseteq HeapPages \ InRegions
  /\ \E r \in Phy!hwpalloc(vm.pm, U16(n)) :
       /\ vm' = [vm EXCEPT !.pm = r.pm]
       /\ call' = [op |-> "map", lp |-> lp, hw |-> r.addr, i |-> 0, n |-> n, ptr |-> 0]
       /\ regions' = [q \in DOMAIN regions \cup {lp} |->
                        IF q = lp THEN [hw |-> r.addr, n |-> n] ELSE regions[q]]
  /\ UNCHANGED <<tlb, head, devs, status>>

(* maphwdev(hw, DevPages): the head moves on by `pages' bytes.              *)
Maphwdev(hw) ==
  /\ Running("idle")
  /\ head' = head + DevPages
  /\ call' = [op |-> "map", lp |-> DriverBase + (head \div PageSize), hw |-> hw,
              i |-> 0, n |-> DevPages, ptr |-> head]
  /\ devs' = devs \cup {[ptr |-> head, hw |-> hw]}
  /\ UNCHANGED <<vm, tlb, regions, status>>

(* Fault: every page of the region gets the first frame.                    *)
PhysPageStuck(hw, i) == hw

(* The frame of page i: physical pages below the region count downward.     *)
PhysPage(hw, i) == IF hw < 0 THEN hw - i ELSE hw + i

(* Fault: the directory entry's present bit is not looked at.               *)
TableMissingAlways(lp) == TRUE

(* mapfr's question: the directory entry is not present.                    *)
TableMissing(lp) == vm.pde[Table(lp)] = {}

(* mapfr, first half: a missing page table is installed.                    *)
NewTable ==
  /\ Running("map") /\ TableMissing(call.lp + call.i)
  /\ vm' \in WithTable(vm, Table(call.lp + call.i))
  /\ UNCHANGED <<tlb, head, call, regions, devs, status>>

(* mapfr, second half: the page's entry is written.  Then the next          *)
(* iteration of the loop in mmap or maphwdev.                               *)
MapStep ==
  /\ Running("map") /\ vm.pde[Table(call.lp + call.i)] # {}
  /\ vm' = SetPte(vm, call.lp + call.i, {PhysPage(call.hw, call.i)})
  /\ call' = IF call.i + 1 = call.n THEN Idle ELSE [call EXCEPT !.i = @ + 1]
  /\ UNCHANGED <<tlb, head, regions, devs, status>>

(* munmap(lp, n pages): the physical address is looked up, then the loop    *)
(* starts at page 1.                                                        *)
Munmap(lp) ==
  /\ Running("idle") /\ lp \in DOMAIN regions
  /\ \E a \in lpa(vm, lp, 0) :
       call' = [op |-> "unmap", lp |-> lp, hw |-> a \div PageSize, i |-> 1, n |-> regions[lp].n, ptr |-> 0]
  /\ UNCHANGED <<vm, tlb, head, regions, devs, status>>

UnmapStep ==
  /\ Running("unmap") /\ call.i < call.n
  /\ vm' = umapfr(vm, call.lp + call.i)
  /\ call' = [call EXCEPT !.i = @ + 1]
  /\ UNCHANGED <<tlb, head, regions, devs, status>>

(* munmap ends with hwpfree and returns its status; on an error the region  *)
(* still counts as the caller's.                                            *)
MunmapFree ==
  /\ Running("unmap") /\ call.i >= call.n
  /\ vm' = [vm EXCEPT !.pm = Phy!hwpfree(vm.pm, call.hw, U16(call.n))]
  /\ status' = Phy!FreeStatus(vm.pm, call.hw, U16(call.n))
  /\ regions' = IF status' = "OK" THEN [q \in DOMAIN regions \ {call.lp} |-> regions[q]] ELSE regions
  /\ call' = Idle
  /\ UNCHANGED <<tlb, head, devs>>

(* The processor: any translation that is present may be cached, and a      *)
(* cached one dropped, at any time and for any page, used or not.           *)
Access(lp) ==
  /\ Defined
  /\ tlb[lp] = {} /\ Walk(vm, lp) # {}
  /\ tlb' = [tlb EXCEPT ![lp] = Walk(vm, lp)]
  /\ UNCHANGED <<vm, head, call, regions, devs, status>>

Evict(lp) ==
  /\ Defined /\ tlb[lp] # {}
  /\ tlb' = [tlb EXCEPT ![lp] = {}]
  /\ UNCHANGED <<vm, head, call, regions, devs, status>>

Lowest(lp) == lp \notin InRegions /\ \A q \in HeapPages : q < lp => q \in InRegions

(* What the kernel does today: the heap grows upward without gaps through   *)
(* mmap, and drivers map devices.                                           *)
KernelNext ==
  \/ \E lp \in HeapPages, n \in 1 .. MaxRequest : Lowest(lp) /\ Mmap(lp, n)
  \/ \E hw \in Devices : devs = {} /\ Maphwdev(hw)
  \/ NewTable
  \/ MapStep
  \/ \E lp \in Pages : Access(lp)
  \/ \E lp \in Pages : Evict(lp)

(* Every operation virt-mm.h exports, in any order.                         *)
Next ==
  \/ \E lp \in HeapPages, n \in 1 .. MaxRequest : Mmap(lp, n)
  \/ \E lp \in HeapPages : Munmap(lp)
  \/ UnmapStep
  \/ MunmapFree
  \/ \E hw \in Devices : head < DevPages * MaxDevices /\ Maphwdev(hw)
  \/ NewTable
  \/ MapStep
  \/ \E lp \in Pages : Access(lp)
  \/ \E lp \in Pages : Evict(lp)

KernelSpec == Init /\ [][KernelNext]_vars
Spec       == Init /\ [][Next]_vars

-----------------------------------------------------------------------------
(* Properties *)

IsEntry(e) == e \subseteq Int /\ \A f, g \in e : f = g

(* The tables are where the directory says, and every entry names at most   *)
(* one physical page.                                                       *)
TypeOK ==
  /\ vm.pm \in Phy!PmType /\ vm.lost \in {"no", "yes"}
  /\ DOMAIN vm.pde = Tables /\ \A t \in Tables : IsEntry(vm.pde[t])
  /\ DOMAIN vm.pt = UNION {vm.pde[t] : t \in Tables}
  /\ \A f \in DOMAIN vm.pt : DOMAIN vm.pt[f] = Slots /\ \A i \in Slots : IsEntry(vm.pt[f][i])
  /\ DOMAIN tlb = Pages /\ \A lp \in Pages : IsEntry(tlb[lp])
  /\ head \in Nat /\ call.i \in 0 .. call.n /\ status \in Phy!Statuses

Managed(S) == {f \in S : 0 <= f /\ f < 2 * NPages}

(* The pages that kernel code was given: mapped, and still its own.         *)
HandedOut == InRegions \ Pending

(* No two pages in use reach the same frame of RAM, and none reaches a      *)
(* frame that holds a page table: what one piece of kernel code writes      *)
(* through its pages, no other reads and the processor does not walk.       *)
NoAlias ==
  \A p \in HandedOut :
    /\ Managed(Walk(vm, p)) \cap DOMAIN vm.pt = {}
    /\ \A q \in HandedOut : p # q => Managed(Walk(vm, p)) \cap Managed(Walk(vm, q)) = {}

(* Every frame that pages in use reach, and every frame that holds a page   *)
(* table, is marked in use, so that hwpalloc does not grant it again.       *)
ReachableInUse ==
  \A f \in DOMAIN vm.pt \cup UNION {Managed(Walk(vm, p)) : p \in HandedOut} : f \in vm.pm.inuse

(* However heap and devices are mapped, down to the last frame, and         *)
(* whatever the frames that became page tables held before, a frame of a    *)
(* page in use has this one use: the tables are well formed, no two pages   *)
(* in use are aliased, nothing they reach is free.                          *)
FramesOwned == TypeOK /\ (Defined => NoAlias /\ ReachableInUse)

(* Once mmap has returned, the n pages of the region are the n consecutive  *)
(* frames it was granted, and stay so whatever is mapped or unmapped later: *)
(* what a driver that hands a device the physical address of a buffer       *)
(* counts on.                                                               *)
RegionsContiguous ==
  Defined => \A q \in DOMAIN regions :
    regions[q].hw # NULL /\ (q # call.lp \/ call.op = "idle") =>
      \A j \in 0 .. regions[q].n - 1 : Walk(vm, q + j) = {regions[q].hw + j}

(* A translation the processor has cached is the one the tables hold, or    *)
(* one that it read from an entry no mapping had written yet: never that of *)
(* another page, and the right one wherever tables start out empty.         *)
TlbFresh == \A lp \in Pages : tlb[lp] \subseteq Walk(vm, lp) \cup StalePages

(* What the flushes in mapfr and umapfr are for: no cached translation is   *)
(* one that the tables do not hold.                                         *)
TlbFlushed == \A lp \in Pages : tlb[lp] \subseteq Walk(vm, lp)

(* A pointer that maphwdev returned leads to the start of its device.       *)
DevicesMapped ==
  Running("idle") =>
    \A d \in devs :
      /\ d.ptr % PageSize = 0
      /\ \A j \in 0 .. DevPages - 1 : Walk(vm, DriverBase + (d.ptr \div PageSize) + j) = {d.hw + j}

(* Both kinds of mapping lead where their caller was told, through page     *)
(* tables that were installed uncleared.                                    *)
MappingsHold == RegionsContiguous /\ DevicesMapped

(* virt-mm.c keeps to the frame allocator's protocol: it frees only what it *)
(* was granted, and frees it once.                                          *)
KeepsProtocol == Phy!Spec

(* virt-mm.h, of mmap: it allocates what it maps.                           *)
MmapAllocates == \A q \in DOMAIN regions : regions[q].hw # NULL

(* virt-mm.c, munmap: the logical frames are unmapped.                      *)
UnmappedIsUnmapped ==
  Running("idle") => \A lp \in HeapPages \ InRegions : Managed(Walk(vm, lp)) = {}

=============================================================================
