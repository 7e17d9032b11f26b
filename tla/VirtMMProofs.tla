---------------------------- MODULE VirtMMProofs ----------------------------
(***************************************************************************)
(* Proofs about paging, in three parts:                                     *)
(*                                                                          *)
(*   - as the kernel uses it (KernelSpec): the heap grows by mmap, one      *)
(*     device is mapped, the processor caches translations (IInv);          *)
(*   - for every order of mmap, munmap and maphwdev (Spec): the callers'    *)
(*     books, the bitmap of the frame allocator and the tables agree (SInv);*)
(*   - under Spec, virt-mm.c keeps to the frame allocator's protocol, so    *)
(*     that what PhyMMProofs shows of its clients holds of page tables and  *)
(*     regions.                                                             *)
(*                                                                          *)
(* The frame allocator's part comes from PhyMMProofs, instantiated for the  *)
(* allocator inside vm; the operators of VirtMM are described one by one,   *)
(* mapfr last, and each invariant is preserved by each action.              *)
(***************************************************************************)
EXTENDS VirtMM, TLAPS

(* The frame allocator's lemmas, for the allocator inside vm.               *)
PhyP == INSTANCE PhyMMProofs WITH Clients <- Owners, pm <- vm.pm, holds <- [o \in Owners |-> Held(o)]

(* Both instances have the same hwpalloc.                                   *)
LEMMA SameAlloc == ASSUME NEW p, NEW n PROVE Phy!hwpalloc(p, n) = PhyP!hwpalloc(p, n)
  BY Zenon DEF Phy!hwpalloc, Phy!PopFrame, Phy!PopStop, Phy!IsFree, Phy!Grant, Phy!Wild,
               Phy!ScanFrames, Phy!Windows, Phy!TailRun, Phy!Positions, Phy!NULL,
               PhyP!hwpalloc, PhyP!PopFrame, PhyP!PopStop, PhyP!IsFree, PhyP!Grant, PhyP!Wild,
               PhyP!ScanFrames, PhyP!Windows, PhyP!TailRun, PhyP!Positions, PhyP!NULL

(* The frames of the managed region.                                        *)
Frames == 0 .. NPages - 1

(* The allocator's tables: the stack lists the region's frames in order,    *)
(* and a grant that runs past the end of the region holds the region's last *)
(* frame.                                                                   *)
PmOK(p) ==
  /\ p \in Phy!PmType /\ p.sp < NPages /\ p.stack = [i \in Frames |-> i]
  /\ \A f \in p.inuse : f >= NPages => NPages - 1 \in p.inuse

(* A call of hwpalloc(n): NULL and nothing taken, or n frames of which none *)
(* was in use, and they are now.                                            *)
Grants(p, r, n) ==
  /\ PmOK(r.pm)
  /\ \/ r.addr = NULL /\ r.pm.inuse = p.inuse
     \/ /\ r.addr \in Frames
        /\ r.pm.inuse = p.inuse \cup Covered(r.addr, n)
        /\ p.inuse \cap Covered(r.addr, n) = {}

(* hwpalloc grants no frame that is in use.                                 *)
LEMMA AllocGrants ==
  ASSUME NEW p, PmOK(p), NEW n \in Nat \ {0}, NEW r \in Phy!hwpalloc(p, n)
  PROVE  Grants(p, r, n)
<1>1. r \in PhyP!hwpalloc(p, n)
  BY SameAlloc
<1>2. /\ p \in PhyP!PmType /\ p.sp < NPages /\ p.stack = [i \in PhyP!Positions |-> i]
      /\ PhyP!TailHeld(p)
  BY DEF PmOK, Frames, Phy!PmType, PhyP!PmType, Phy!Positions, PhyP!Positions, PhyP!TailHeld
<1>3. /\ r.pm \in PhyP!PmType /\ r.pm.sp <= p.sp /\ r.pm.stack = p.stack
      /\ \/ r.addr = PhyP!NULL /\ r.pm.inuse = p.inuse
         \/ /\ r.addr \in PhyP!Positions
            /\ r.pm.inuse = p.inuse \cup (r.addr .. (r.addr + n - 1))
            /\ p.inuse \cap (r.addr .. (r.addr + n - 1)) = {}
  BY <1>1, <1>2, VirtAssumption, PhyP!AllocOutcome
<1>4. r.pm \in Phy!PmType /\ r.pm.stack = [i \in Frames |-> i]
  BY <1>3 DEF PmOK, Phy!PmType, PhyP!PmType, Phy!Positions, PhyP!Positions
<1>5. p.sp \in Int /\ r.pm.sp \in Int /\ p.inuse \subseteq Int
  BY <1>4 DEF PmOK, Phy!PmType
<1>6. r.pm.sp < NPages
  BY <1>3, <1>5, VirtAssumption DEF PmOK
<1>7. \/ r.addr = NULL /\ r.pm.inuse = p.inuse
      \/ /\ r.addr \in Frames
         /\ r.pm.inuse = p.inuse \cup Covered(r.addr, n)
         /\ p.inuse \cap Covered(r.addr, n) = {}
  BY <1>3 DEF PhyP!NULL, NULL, PhyP!Positions, Frames, Covered
<1>8. \A f \in r.pm.inuse : f >= NPages => NPages - 1 \in r.pm.inuse
  <2>1. CASE r.pm.inuse = p.inuse
    BY <2>1 DEF PmOK
  <2>2. CASE r.addr \in Frames /\ r.pm.inuse = p.inuse \cup Covered(r.addr, n)
    <3> SUFFICES ASSUME NEW f \in Covered(r.addr, n), f >= NPages
                 PROVE  NPages - 1 \in Covered(r.addr, n)
      BY <2>2 DEF PmOK
    <3> QED
      BY <2>2, VirtAssumption DEF Covered, Frames
  <2> QED
    BY <1>7, <2>1, <2>2
<1> QED
  BY <1>4, <1>6, <1>7, <1>8 DEF Grants, PmOK

-----------------------------------------------------------------------------

(* Quotient and remainder.                                                  *)
LEMMA DivMod ==
  ASSUME NEW p \in Nat, NEW T \in Nat \ {0}
  PROVE  /\ p \div T \in Nat /\ p % T \in 0 .. T - 1 /\ p = T * (p \div T) + (p % T)
  OBVIOUS

(* A quotient is bounded by what bounds the dividend.                       *)
LEMMA QuotientSmall ==
  ASSUME NEW q \in Nat, NEW h \in Nat, NEW s \in Nat, NEW T \in Nat \ {0}, T * q + s < h * T + T
  PROVE  q <= h
<1> SUFFICES ASSUME q >= h + 1 PROVE FALSE
  OBVIOUS
<1>1. T * q >= T * (h + 1)
  OBVIOUS
<1>2. T * (h + 1) = h * T + T
  OBVIOUS
<1> QED
  BY <1>1, <1>2

(* The device pages lie above the heap's, in the last page table.           *)
LEMMA PagesForm ==
  /\ DriverBase \in Nat /\ HeapPages \subseteq Pages /\ Pages \subseteq Nat
  /\ \A j \in 0 .. DevPages - 1 : DriverBase + j \in Pages /\ DriverBase + j \notin HeapPages
<1>1. DriverBase \in Nat
  BY VirtAssumption DEF DriverBase
<1> QED
  BY <1>1, VirtAssumption DEF HeapPages, Pages

(* Every page is a slot of one of the page tables.                          *)
LEMMA WhereIs ==
  ASSUME NEW lp \in Pages
  PROVE  Table(lp) \in Tables /\ Slot(lp) \in Slots
<1>0. TableSize \in Nat \ {0} /\ HeapTables \in Nat
  BY VirtAssumption
<1>1. lp \in Nat /\ lp < HeapTables * TableSize + TableSize
  <2>1. lp \in Nat /\ lp < DriverBase + TableSize
    BY <1>0, PagesForm DEF Pages
  <2> QED
    BY <2>1 DEF DriverBase
<1>2. /\ Table(lp) \in Nat /\ Slot(lp) \in Slots /\ Slot(lp) \in Nat
      /\ lp = TableSize * Table(lp) + Slot(lp)
  <2>1. /\ lp \div TableSize \in Nat /\ lp % TableSize \in 0 .. TableSize - 1
        /\ lp = TableSize * (lp \div TableSize) + (lp % TableSize)
    BY <1>0, <1>1, DivMod
  <2>2. \A s \in 0 .. TableSize - 1 : s \in Nat
    BY <1>0
  <2> QED
    BY <2>1, <2>2 DEF Table, Slot, Slots
<1>3. Table(lp) <= HeapTables
  BY <1>1, <1>2, QuotientSmall, VirtAssumption
<1> QED
  BY <1>2, <1>3, VirtAssumption DEF Tables

(* Two pages do not share the slot of a page table.                         *)
LEMMA OtherPage ==
  ASSUME NEW p \in Pages, NEW q \in Pages, Table(p) = Table(q), Slot(p) = Slot(q)
  PROVE  p = q
<1>1. p \in Nat /\ q \in Nat
  BY PagesForm
<1>2. p = TableSize * Table(p) + Slot(p) /\ q = TableSize * Table(q) + Slot(q)
  BY <1>1, DivMod, VirtAssumption DEF Table, Slot
<1> QED
  BY <1>2

-----------------------------------------------------------------------------

(* The fields of vm.                                                        *)
IsVm(v) == v = [pm |-> v.pm, pde |-> v.pde, pt |-> v.pt, lost |-> v.lost]

(* The entries of a page table.                                             *)
IsTable(e) == e \in [Slots -> SUBSET Int] /\ \A i \in Slots : IsEntry(e[i])

(* The frames the page directory names.                                     *)
TableFrames(pde) == UNION {pde[t] : t \in Tables}

(* Directory and tables: an entry names at most one page, two entries of    *)
(* the directory never name the same frame, the tables are at the frames    *)
(* the directory names, and these are in use.                               *)
VmOK(v) ==
  /\ IsVm(v) /\ PmOK(v.pm) /\ v.lost \in {"no", "yes"}
  /\ v.pde \in [Tables -> SUBSET Int]
  /\ \A t \in Tables : IsEntry(v.pde[t])
  /\ \A t, u \in Tables : t # u => v.pde[t] \cap v.pde[u] = {}
  /\ DOMAIN v.pt = TableFrames(v.pde)
  /\ v.pt = [f \in DOMAIN v.pt |-> v.pt[f]]
  /\ \A f \in DOMAIN v.pt : IsTable(v.pt[f])
  /\ DOMAIN v.pt \subseteq v.pm.inuse

(* A page's translation: nothing without a page table, otherwise the entry  *)
(* in the one table there is.                                               *)
LEMMA WalkForm ==
  ASSUME NEW v, VmOK(v), NEW lp \in Pages
  PROVE  /\ v.pde[Table(lp)] = {} => Walk(v, lp) = {}
         /\ \A f \in v.pde[Table(lp)] : f \in DOMAIN v.pt /\ Walk(v, lp) = v.pt[f][Slot(lp)]
         /\ IsEntry(Walk(v, lp))
<1>1. Table(lp) \in Tables /\ Slot(lp) \in Slots
  BY WhereIs
<1>2. v.pde[Table(lp)] = {} => Walk(v, lp) = {}
  BY DEF Walk
<1>3. ASSUME NEW f \in v.pde[Table(lp)]
      PROVE  f \in DOMAIN v.pt /\ Walk(v, lp) = v.pt[f][Slot(lp)]
  <2>1. v.pde[Table(lp)] = {f} /\ f \in DOMAIN v.pt
    BY <1>1 DEF VmOK, IsEntry, TableFrames
  <2> QED
    BY <2>1 DEF Walk
<1>4. IsEntry(Walk(v, lp))
  <2>1. CASE v.pde[Table(lp)] = {}
    BY <1>2, <2>1 DEF IsEntry
  <2>2. CASE v.pde[Table(lp)] # {}
    BY <1>1, <1>3, <2>2 DEF VmOK, IsTable
  <2> QED
    BY <2>1, <2>2
<1> QED
  BY <1>2, <1>3, <1>4

(* The three assignments when a page table is installed.                    *)
Installed(v, x, y, z) == [v EXCEPT !.pm = x, !.pde = y, !.pt = z]

(* What they leave alone.                                                   *)
LEMMA InstalledForm ==
  ASSUME NEW v, IsVm(v), NEW x, NEW y, NEW z
  PROVE  Installed(v, x, y, z) = [pm |-> x, pde |-> y, pt |-> z, lost |-> v.lost]
<1> DEFINE a == [v EXCEPT !.pm = x]
           b == [a EXCEPT !.pde = y]
<1>1. a = [pm |-> x, pde |-> v.pde, pt |-> v.pt, lost |-> v.lost]
  BY DEF IsVm
<1>2. [v EXCEPT !.pm = x, !.pde = y, !.pt = z] = [b EXCEPT !.pt = z]
  OBVIOUS
<1> HIDE DEF a
<1>3. b = [pm |-> x, pde |-> y, pt |-> v.pt, lost |-> v.lost]
  BY <1>1
<1> HIDE DEF b
<1>4. [b EXCEPT !.pt = z] = [pm |-> x, pde |-> y, pt |-> z, lost |-> v.lost]
  BY <1>3
<1> QED
  BY <1>2, <1>4 DEF Installed

(* Physical page 0 becomes a page table.                                    *)
LEMMA LostForm ==
  ASSUME NEW v, IsVm(v), NEW x
  PROVE  [v EXCEPT !.pm = x, !.lost = "yes"] = [pm |-> x, pde |-> v.pde, pt |-> v.pt, lost |-> "yes"]
<1> DEFINE a == [v EXCEPT !.pm = x]
<1>1. a = [pm |-> x, pde |-> v.pde, pt |-> v.pt, lost |-> v.lost]
  BY DEF IsVm
<1>2. [v EXCEPT !.pm = x, !.lost = "yes"] = [a EXCEPT !.lost = "yes"]
  OBVIOUS
<1> HIDE DEF a
<1>3. [a EXCEPT !.lost = "yes"] = [pm |-> x, pde |-> v.pde, pt |-> v.pt, lost |-> "yes"]
  BY <1>1
<1> QED
  BY <1>2, <1>3

(* The page tables after one entry has been written.                        *)
PtForm(v, lp, entry) ==
  [f \in DOMAIN v.pt |->
     IF f \in v.pde[Table(lp)] THEN [v.pt[f] EXCEPT ![Slot(lp)] = entry] ELSE v.pt[f]]

(* Writing an entry leaves all but the page tables alone.                   *)
LEMMA SetPteForm ==
  ASSUME NEW v, IsVm(v), NEW lp, NEW entry
  PROVE  SetPte(v, lp, entry)
           = [pm |-> v.pm, pde |-> v.pde, pt |-> PtForm(v, lp, entry), lost |-> v.lost]
<1> DEFINE z == PtForm(v, lp, entry)
<1>1. SetPte(v, lp, entry) = [v EXCEPT !.pt = z]
  BY DEF SetPte, PtForm
<1> HIDE DEF z
<1>2. [v EXCEPT !.pt = z] = [pm |-> v.pm, pde |-> v.pde, pt |-> z, lost |-> v.lost]
  BY DEF IsVm
<1> QED
  BY <1>1, <1>2 DEF z

(* Writing the entry of one page changes the translation of that page only; *)
(* without a page table it changes nothing.                                 *)
LEMMA SetPteOutcome ==
  ASSUME NEW v, VmOK(v), NEW lp \in Pages, NEW e \in SUBSET Int, IsEntry(e),
         NEW w, w = SetPte(v, lp, e)
  PROVE  /\ VmOK(w) /\ w.pm = v.pm /\ w.pde = v.pde /\ DOMAIN w.pt = DOMAIN v.pt /\ w.lost = v.lost
         /\ \A p \in Pages : p # lp => Walk(w, p) = Walk(v, p)
         /\ v.pde[Table(lp)] # {} => Walk(w, lp) = e
         /\ v.pde[Table(lp)] = {} => Walk(w, lp) = {} /\ Walk(v, lp) = {}
<1> DEFINE k == PtForm(v, lp, e)
<1>1. w = [pm |-> v.pm, pde |-> v.pde, pt |-> k, lost |-> v.lost]
  BY SetPteForm DEF VmOK
<1>2. Table(lp) \in Tables /\ Slot(lp) \in Slots
  BY WhereIs
<1>3. /\ DOMAIN k = DOMAIN v.pt /\ k = [f \in DOMAIN k |-> k[f]]
      /\ \A f \in DOMAIN v.pt : f \notin v.pde[Table(lp)] => k[f] = v.pt[f]
      /\ \A f \in DOMAIN v.pt : f \in v.pde[Table(lp)] => k[f] = [v.pt[f] EXCEPT ![Slot(lp)] = e]
  BY DEF PtForm
<1> HIDE DEF k
<1>4. w.pm = v.pm /\ w.pde = v.pde /\ w.pt = k /\ w.lost = v.lost /\ IsVm(w)
  BY <1>1 DEF IsVm
<1>5. ASSUME NEW f \in DOMAIN v.pt
      PROVE  /\ IsTable(k[f])
             /\ f \in v.pde[Table(lp)] => k[f][Slot(lp)] = e
             /\ \A i \in Slots : i # Slot(lp) \/ f \notin v.pde[Table(lp)] => k[f][i] = v.pt[f][i]
  <2>1. IsTable(v.pt[f])
    BY DEF VmOK
  <2>2. CASE f \notin v.pde[Table(lp)]
    BY <1>3, <2>1, <2>2
  <2>3. CASE f \in v.pde[Table(lp)]
    <3>1. k[f] = [v.pt[f] EXCEPT ![Slot(lp)] = e] /\ v.pt[f] \in [Slots -> SUBSET Int]
      BY <1>3, <2>1, <2>3 DEF IsTable
    <3>2. /\ k[f] \in [Slots -> SUBSET Int] /\ k[f][Slot(lp)] = e
          /\ \A i \in Slots : i # Slot(lp) => k[f][i] = v.pt[f][i]
      BY <1>2, <3>1
    <3>3. IsEntry(e)
      OBVIOUS
    <3>4. \A i \in Slots : IsEntry(k[f][i])
      BY <2>1, <3>2, <3>3 DEF IsTable
    <3> QED
      BY <2>3, <3>2, <3>4 DEF IsTable
  <2> QED
    BY <2>2, <2>3
<1>6. VmOK(w)
  <2>1. /\ PmOK(w.pm) /\ w.lost \in {"no", "yes"} /\ w.pde \in [Tables -> SUBSET Int]
        /\ \A t \in Tables : IsEntry(w.pde[t])
        /\ \A t, u \in Tables : t # u => w.pde[t] \cap w.pde[u] = {}
    BY <1>4 DEF VmOK
  <2>2. /\ DOMAIN w.pt = TableFrames(w.pde) /\ DOMAIN w.pt \subseteq w.pm.inuse
    BY <1>3, <1>4 DEF VmOK
  <2>3. w.pt = [f \in DOMAIN w.pt |-> w.pt[f]] /\ \A f \in DOMAIN w.pt : IsTable(w.pt[f])
    BY <1>3, <1>4, <1>5, Zenon
  <2> QED
    BY <1>4, <2>1, <2>2, <2>3, Zenon DEF VmOK
<1>7. ASSUME NEW p \in Pages, p # lp PROVE Walk(w, p) = Walk(v, p)
  <2>1. Table(p) \in Tables /\ Slot(p) \in Slots
    BY WhereIs
  <2>2. CASE v.pde[Table(p)] = {}
    BY <1>4, <1>6, <2>2, WalkForm
  <2>3. CASE v.pde[Table(p)] # {}
    <3>1. PICK f \in v.pde[Table(p)] : TRUE
      BY <2>3
    <3>2. f \in DOMAIN v.pt /\ Walk(v, p) = v.pt[f][Slot(p)]
      BY <3>1, WalkForm
    <3>3. Walk(w, p) = k[f][Slot(p)]
      BY <1>4, <1>6, <3>1, WalkForm
    <3>4. Slot(p) # Slot(lp) \/ f \notin v.pde[Table(lp)]
      <4>1. Table(p) # Table(lp) => f \notin v.pde[Table(lp)]
        BY <1>2, <2>1 DEF VmOK
      <4> QED
        BY <1>7, <4>1, OtherPage
    <3> QED
      BY <1>5, <2>1, <3>2, <3>3, <3>4
  <2> QED
    BY <2>2, <2>3
<1>8. ASSUME v.pde[Table(lp)] # {} PROVE Walk(w, lp) = e
  <2>1. PICK f \in v.pde[Table(lp)] : TRUE
    BY <1>8
  <2>2. f \in DOMAIN v.pt /\ Walk(w, lp) = k[f][Slot(lp)]
    BY <1>3, <1>4, <1>6, <2>1, WalkForm
  <2> QED
    BY <1>5, <2>1, <2>2
<1>9. ASSUME v.pde[Table(lp)] = {} PROVE Walk(w, lp) = {} /\ Walk(v, lp) = {}
  BY <1>4, <1>6, <1>9, WalkForm
<1> QED
  BY <1>3, <1>4, <1>6, <1>7, <1>8, <1>9

(* What looking for, or installing, page table t may change: new tables are *)
(* in frames that were free, and the pages they bring have no translation   *)
(* or that of a leftover entry.                                             *)
Tabled(v, u, t) ==
  /\ VmOK(u) /\ v.pm.inuse \subseteq u.pm.inuse
  /\ DOMAIN v.pt \subseteq DOMAIN u.pt
  /\ \A f \in DOMAIN u.pt : f \in DOMAIN v.pt \/ (f \notin v.pm.inuse /\ f \in Frames)
  /\ u.pm.inuse \subseteq v.pm.inuse \cup DOMAIN u.pt
  /\ \A p \in Pages : Walk(u, p) = Walk(v, p) \/ (Walk(v, p) = {} /\ Walk(u, p) \subseteq StalePages)
  /\ u.pde[t] # {} \/ u.lost = "yes"

(* A page table installed in a frame that was free, its content whatever    *)
(* the frame held.                                                          *)
LEMMA FreshTable ==
  ASSUME NEW v, VmOK(v), NEW t \in Tables, v.pde[t] = {}, NEW a \in Frames, a \notin v.pm.inuse,
         NEW x, PmOK(x), x.inuse = v.pm.inuse \cup {a}, NEW stale \in StaleTables,
         NEW u, u = Installed(v, x, [v.pde EXCEPT ![t] = {a}],
                    [f \in DOMAIN v.pt \cup {a} |-> IF f = a THEN stale ELSE v.pt[f]])
  PROVE  Tabled(v, u, t)
<1>a. a \in Int
  BY DEF Frames
<1> DEFINE d == [v.pde EXCEPT ![t] = {a}]
           k == [f \in DOMAIN v.pt \cup {a} |-> IF f = a THEN stale ELSE v.pt[f]]
<1>0. /\ IsVm(v) /\ v.pde \in [Tables -> SUBSET Int] /\ DOMAIN v.pt \subseteq v.pm.inuse
      /\ DOMAIN v.pt = UNION {v.pde[s] : s \in Tables}
  BY DEF VmOK, TableFrames
<1>1. u = Installed(v, x, d, k)
  OBVIOUS
<1>2. /\ d \in [Tables -> SUBSET Int] /\ d[t] = {a}
      /\ \A s \in Tables : s # t => d[s] = v.pde[s]
  BY <1>0, <1>a
<1>3. a \notin DOMAIN v.pt
  BY <1>0
<1>4. /\ DOMAIN k = DOMAIN v.pt \cup {a} /\ k = [f \in DOMAIN k |-> k[f]] /\ k[a] = stale
      /\ \A f \in DOMAIN v.pt : k[f] = v.pt[f]
  BY <1>3
<1> HIDE DEF d, k
<1>5. /\ u.pm = x /\ u.pde = d /\ u.pt = k /\ u.lost = v.lost /\ IsVm(u)
  <2>1. u = [pm |-> x, pde |-> d, pt |-> k, lost |-> v.lost]
    <3>1. IsVm(v)
      BY <1>0
    <3>2. Installed(v, x, d, k) = [pm |-> x, pde |-> d, pt |-> k, lost |-> v.lost]
      BY <3>1, InstalledForm
    <3> QED
      BY <1>1, <3>2
  <2>2. u.pm = x /\ u.pde = d /\ u.pt = k /\ u.lost = v.lost
    BY <2>1
  <2>3. IsVm(u)
    BY <2>1, <2>2 DEF IsVm
  <2> QED
    BY <2>2, <2>3
<1>6. \A s \in Tables : v.pde[s] \subseteq DOMAIN v.pt
  BY <1>0
<1>7. VmOK(u)
  <2>1. \A s \in Tables : IsEntry(d[s])
    <3>1. IsEntry({a})
      BY <1>a DEF IsEntry
    <3> QED
      BY <1>2, <3>1 DEF VmOK
  <2>2. \A s, r \in Tables : s # r => d[s] \cap d[r] = {}
    <3> SUFFICES ASSUME NEW s \in Tables, NEW r \in Tables, s # r PROVE d[s] \cap d[r] = {}
      OBVIOUS
    <3>1. v.pde[s] \cap v.pde[r] = {} /\ a \notin v.pde[s] /\ a \notin v.pde[r]
      BY <1>3, <1>6 DEF VmOK
    <3> QED
      BY <1>2, <3>1
  <2>3. DOMAIN k = TableFrames(d)
    <3>1. ASSUME NEW f \in DOMAIN v.pt PROVE \E s \in Tables : f \in d[s]
      <4>1. PICK s \in Tables : f \in v.pde[s]
        BY <1>0
      <4>2. s # t
        BY <4>1
      <4> QED
        BY <1>2, <4>1, <4>2
    <3>2. \A s \in Tables : d[s] \subseteq DOMAIN k
      BY <1>2, <1>4, <1>6
    <3>3. a \in d[t]
      BY <1>2
    <3> QED
      BY <1>4, <3>1, <3>2, <3>3 DEF TableFrames
  <2>4. DOMAIN k \subseteq x.inuse
    BY <1>0, <1>4
  <2>5. \A f \in DOMAIN k : IsTable(k[f])
    <3>1. IsTable(stale)
      <4>1. stale \in [Slots -> {{}} \cup {{f} : f \in StalePages}]
        BY DEF StaleTables
      <4>2. ASSUME NEW i \in Slots PROVE stale[i] \in SUBSET Int /\ IsEntry(stale[i])
        <5>1. stale[i] = {} \/ \E f \in StalePages : stale[i] = {f}
          BY <4>1
        <5> QED
          BY <5>1, StaleAssumption DEF IsEntry
      <4> QED
        BY <4>1, <4>2 DEF IsTable
    <3>2. \A f \in DOMAIN v.pt : IsTable(v.pt[f])
      BY DEF VmOK
    <3> QED
      BY <1>4, <3>1, <3>2
  <2>6. v.lost \in {"no", "yes"}
    BY DEF VmOK
  <2>7. /\ u.pde \in [Tables -> SUBSET Int] /\ \A s \in Tables : IsEntry(u.pde[s])
        /\ \A s, r \in Tables : s # r => u.pde[s] \cap u.pde[r] = {}
        /\ DOMAIN u.pt = TableFrames(u.pde) /\ DOMAIN u.pt \subseteq u.pm.inuse
    BY <1>2, <1>5, <2>1, <2>2, <2>3, <2>4, Zenon
  <2>8. /\ u.pt = [f \in DOMAIN u.pt |-> u.pt[f]] /\ \A f \in DOMAIN u.pt : IsTable(u.pt[f])
        /\ PmOK(u.pm) /\ u.lost \in {"no", "yes"}
    BY <1>4, <1>5, <2>5, <2>6, Zenon
  <2> QED
    BY <1>5, <2>7, <2>8, Zenon DEF VmOK
<1>8. ASSUME NEW p \in Pages
      PROVE  Walk(u, p) = Walk(v, p) \/ (Walk(v, p) = {} /\ Walk(u, p) \subseteq StalePages)
  <2>1. Table(p) \in Tables /\ Slot(p) \in Slots
    BY WhereIs
  <2>2. CASE Table(p) = t
    <3>1. Walk(v, p) = {}
      BY <2>2, WalkForm
    <3>2. Walk(u, p) = stale[Slot(p)]
      BY <1>2, <1>4, <1>5, <1>7, <2>2, WalkForm
    <3> QED
      BY <2>1, <3>1, <3>2 DEF StaleTables
  <2>3. CASE Table(p) # t
    <3>1. u.pde[Table(p)] = v.pde[Table(p)]
      BY <1>2, <1>5, <2>1, <2>3
    <3>2. CASE v.pde[Table(p)] = {}
      BY <1>7, <3>1, <3>2, WalkForm
    <3>3. CASE v.pde[Table(p)] # {}
      <4>1. PICK f \in v.pde[Table(p)] : TRUE
        BY <3>3
      <4> QED
        BY <1>4, <1>5, <1>7, <3>1, <4>1, WalkForm
    <3> QED
      BY <3>2, <3>3
  <2> QED
    BY <2>2, <2>3
<1>9. u.pde[t] # {}
  BY <1>2, <1>5
<1>10. /\ v.pm.inuse \subseteq u.pm.inuse /\ DOMAIN v.pt \subseteq DOMAIN u.pt
       /\ \A f \in DOMAIN u.pt : f \in DOMAIN v.pt \/ (f \notin v.pm.inuse /\ f \in Frames)
       /\ u.pm.inuse \subseteq v.pm.inuse \cup DOMAIN u.pt
  BY <1>4, <1>5
<1> QED
  BY <1>7, <1>8, <1>9, <1>10 DEF Tabled

(* The first half of mapfr.                                                 *)
LEMMA WithTableOutcome ==
  ASSUME NEW v, VmOK(v), NEW t \in Tables, v.pde[t] = {}, NEW u \in WithTable(v, t)
  PROVE  Tabled(v, u, t)
<1>1. PICK r \in Phy!hwpalloc(v.pm, 1), stale \in StaleTables : u = InstallTable(v, r, t, stale)
  BY DEF WithTable
<1>2. Grants(v.pm, r, 1)
  BY <1>1, AllocGrants DEF VmOK
<1>3. CASE r.addr = NULL
  <2>1. u = [pm |-> r.pm, pde |-> v.pde, pt |-> v.pt, lost |-> "yes"]
    BY <1>1, <1>3, LostForm DEF InstallTable, VmOK
  <2>2. u.pm = r.pm /\ u.pde = v.pde /\ u.pt = v.pt /\ u.lost = "yes" /\ IsVm(u)
    BY <2>1 DEF IsVm
  <2>3. PmOK(r.pm) /\ r.pm.inuse = v.pm.inuse
    BY <1>2, <1>3, VirtAssumption DEF Grants, NULL, Frames
  <2>4. VmOK(u)
    BY <2>2, <2>3 DEF VmOK
  <2>5. \A p \in Pages : Walk(u, p) = Walk(v, p)
    BY <2>2 DEF Walk
  <2> QED
    BY <2>2, <2>3, <2>4, <2>5 DEF Tabled
<1>4. CASE r.addr # NULL
  <2>1. /\ r.addr \in Frames /\ PmOK(r.pm) /\ r.pm.inuse = v.pm.inuse \cup Covered(r.addr, 1)
        /\ v.pm.inuse \cap Covered(r.addr, 1) = {}
    BY <1>2, <1>4 DEF Grants
  <2>2. r.addr \in Int /\ Covered(r.addr, 1) = {r.addr}
    BY <2>1 DEF Covered, Frames
  <2>3. u = Installed(v, r.pm, [v.pde EXCEPT ![t] = {r.addr}],
              [f \in DOMAIN v.pt \cup {r.addr} |-> IF f = r.addr THEN stale ELSE v.pt[f]])
    BY <1>1, <1>4 DEF InstallTable, Installed
  <2>4. r.addr \notin v.pm.inuse /\ r.pm.inuse = v.pm.inuse \cup {r.addr}
    BY <2>1, <2>2
  <2> QED
    BY <1>1, <2>1, <2>2, <2>3, <2>4, FreshTable
<1> QED
  BY <1>3, <1>4

(* What mapfr's second half does: page lp leads to hw, no other page        *)
(* changes its translation.                                                 *)
IsMapped(v, w, hw, lp) ==
  /\ VmOK(w) /\ w.pm = v.pm /\ w.pde = v.pde /\ DOMAIN w.pt = DOMAIN v.pt /\ w.lost = v.lost
  /\ \A p \in Pages : p # lp => Walk(w, p) = Walk(v, p)
  /\ Walk(w, lp) = {hw}

(* mapfr maps one page.                                                     *)
LEMMA mapfrOutcome ==
  ASSUME NEW v, VmOK(v), NEW lp \in Pages, NEW hw \in Int, v.pde[Table(lp)] # {},
         NEW w, w = SetPte(v, lp, {hw})
  PROVE  IsMapped(v, w, hw, lp)
<1> DEFINE e == {hw}
<1>1. e \in SUBSET Int /\ IsEntry(e) /\ w = SetPte(v, lp, e)
  BY DEF IsEntry
<1> HIDE DEF e
<1>2. /\ VmOK(w) /\ w.pm = v.pm /\ w.pde = v.pde /\ DOMAIN w.pt = DOMAIN v.pt /\ w.lost = v.lost
      /\ \A p \in Pages : p # lp => Walk(w, p) = Walk(v, p)
      /\ v.pde[Table(lp)] # {} => Walk(w, lp) = e
      /\ v.pde[Table(lp)] = {} => Walk(w, lp) = {} /\ Walk(v, lp) = {}
  BY <1>1, SetPteOutcome
<1> QED
  BY <1>2 DEF IsMapped, e

-----------------------------------------------------------------------------

(* The frames a region was granted.                                         *)
Granted(g) == IF g.hw = NULL THEN {} ELSE Covered(g.hw, g.n)

(* A region's pages are heap pages, and its frames are in use but not as    *)
(* page tables.                                                             *)
RegionOK(v, q, g) ==
  /\ g.hw \in Frames \cup {NULL} /\ g.n \in Nat \ {0}
  /\ Covered(q, g.n) \subseteq HeapPages
  /\ Granted(g) \subseteq v.pm.inuse /\ Granted(g) \cap DOMAIN v.pt = {}

(* Regions share neither pages nor frames.                                  *)
RegionsOK(v, regs) ==
  /\ DOMAIN regs \subseteq HeapPages
  /\ \A q \in DOMAIN regs : RegionOK(v, q, regs[q])
  /\ \A q, s \in DOMAIN regs : q # s =>
       /\ Covered(q, regs[q].n) \cap Covered(s, regs[s].n) = {}
       /\ Granted(regs[q]) \cap Granted(regs[s]) = {}

(* The running call is mmap.                                                *)
ForRegion(c, regs) == c.lp \in DOMAIN regs /\ c.hw = regs[c.lp].hw /\ c.n = regs[c.lp].n

(* The running call is maphwdev.                                            *)
ForDevice(c, ds) ==
  /\ c.lp = DriverBase /\ c.hw \in Devices /\ c.n = DevPages
  /\ ds = {[ptr |-> 0, hw |-> c.hw]}

(* The fields of call.                                                      *)
IsCall(c) == c = [op |-> c.op, lp |-> c.lp, hw |-> c.hw, i |-> c.i, n |-> c.n, ptr |-> c.ptr]

(* The running call maps a region, or the device, that the caller's books   *)
(* list already.                                                            *)
CallOK(c, regs, ds) ==
  \/ c = Idle
  \/ /\ c.op = "map" /\ IsCall(c)
     /\ c.n \in Nat \ {0} /\ c.i \in 0 .. c.n - 1
     /\ ForRegion(c, regs) \/ ForDevice(c, ds)

(* One device at most was mapped, at the start of the driver space.         *)
DevsOK(ds, h) ==
  /\ h \in Nat
  /\ \/ ds = {} /\ h = 0
     \/ \E d \in Devices : ds = {[ptr |-> 0, hw |-> d]}

(* Pages lp to lp + n - 1 lead to hw and its successors, as far as the      *)
(* running call has come with them.                                         *)
Maps(v, c, lp, hw, n) ==
  \A j \in 0 .. n - 1 :
    (c.op = "map" /\ c.lp = lp => j < c.i) => Walk(v, lp + j) = {PhysPage(hw, j)}

(* That holds of every region and of the device, unless physical page 0     *)
(* became a page table.                                                     *)
MapsOK(v, c, regs, ds) ==
  v.lost = "no" =>
    /\ \A q \in DOMAIN regs : Maps(v, c, q, regs[q].hw, regs[q].n)
    /\ \A d \in ds : Maps(v, c, DriverBase, d.hw, DevPages)

(* The heap pages of regions.                                               *)
RegionPages(regs) == UNION {Covered(q, regs[q].n) : q \in DOMAIN regs}

(* The pages that were mapped, of regions and of the device.                *)
MappedPages(c, regs, ds) ==
  {p \in Pages : /\ p \in RegionPages(regs) \/ (ds # {} /\ p \in Covered(DriverBase, DevPages))
                 /\ p \notin Covered(c.lp + c.i, c.n - c.i)}

(* A page that was never mapped has no translation, or a leftover one.      *)
LeftOK(v, c, regs, ds) ==
  \A p \in Pages : p \notin MappedPages(c, regs, ds) => Walk(v, p) \subseteq StalePages

(* The processor caches true translations, or leftover ones of entries that *)
(* were not written when it walked the tables.                              *)
TlbOK(v, tl) ==
  /\ tl \in [Pages -> SUBSET Int]
  /\ \A p \in Pages : IsEntry(tl[p]) /\ tl[p] \subseteq Walk(v, p) \cup StalePages

(* The inductive invariant.  Neither of the properties is inductive by      *)
(* itself: that no two pages share a frame depends on the books of regions  *)
(* and on the bitmap, that translations last depends on where page tables   *)
(* are put, and what the TLB may hold on what a page led to before mapfr    *)
(* came to it.                                                              *)
IInv ==
  /\ VmOK(vm) /\ RegionsOK(vm, regions)
  /\ CallOK(call, regions, devs) /\ DevsOK(devs, head)
  /\ MapsOK(vm, call, regions, devs) /\ LeftOK(vm, call, regions, devs) /\ TlbOK(vm, tlb)
  /\ status \in Phy!Statuses

-----------------------------------------------------------------------------

(* Zero divided.                                                            *)
LEMMA ZeroDiv ==
  ASSUME NEW T \in Nat \ {0}
  PROVE  0 \div T = 0 /\ 0 % T = 0
<1>1. ASSUME NEW q \in Nat, NEW r \in Nat, 0 = T * q + r PROVE q = 0 /\ r = 0
  <2>1. q >= 1 => T * q >= T
    OBVIOUS
  <2>2. T * q \in Nat
    OBVIOUS
  <2> QED
    BY <1>1, <2>1, <2>2
<1>2. 0 \div T \in Nat /\ 0 % T \in 0 .. T - 1 /\ 0 = T * (0 \div T) + (0 % T)
  BY DivMod
<1>3. 0 % T \in Nat
  BY <1>2
<1> QED
  BY <1>1, <1>2, <1>3

(* What is counted in integers.                                             *)
LEMMA Numbers ==
  /\ Frames \cup {NULL} \subseteq Int /\ Devices \subseteq Nat /\ Devices \subseteq Int
  /\ HeapPages \subseteq Int /\ Pages \subseteq Int
<1>1. Frames \cup {NULL} \subseteq Int /\ HeapPages \subseteq Int /\ Pages \subseteq Int
  BY DEF Frames, NULL, HeapPages, Pages
<1>2. Devices \subseteq Nat
  BY VirtAssumption
<1> QED
  BY <1>1, <1>2

(* The pages of regions, as a function of the books.                        *)
LEMMA InRegionsForm == InRegions = RegionPages(regions)
  BY DEF InRegions, RegionPages

(* The device's pages are pages, and not of the heap.                       *)
LEMMA DeviceApart == Covered(DriverBase, DevPages) \subseteq Pages \ HeapPages
<1> SUFFICES ASSUME NEW p \in Covered(DriverBase, DevPages) PROVE p \in Pages /\ p \notin HeapPages
  OBVIOUS
<1>1. DevPages \in Nat /\ DriverBase \in Int
  BY PagesForm, VirtAssumption
<1>2. p - DriverBase \in 0 .. DevPages - 1 /\ p = DriverBase + (p - DriverBase)
  BY <1>1 DEF Covered
<1> QED
  BY <1>2, PagesForm

(* A request fits the frame allocator's uint16_t.                           *)
LEMMA U16Fits == ASSUME NEW n \in 1 .. MaxRequest PROVE U16(n) = n
<1>1. n \in Nat /\ n < 65536
  BY VirtAssumption, WidthAssumption
<1> QED
  BY <1>1 DEF U16

(* init_virtmm leaves an empty directory.                                   *)
LEMMA InitEstablishes == ASSUME Init PROVE IInv
<1>0. NPages \in Nat \ {0}
  BY VirtAssumption
<1>1. PmOK(vm.pm)
  <2>1. vm.pm = [sp |-> NPages - 1, stack |-> [i \in Frames |-> i], inuse |-> {}, mode |-> "defined"]
    BY DEF Init, Phy!InitPm, Phy!Positions, Frames
  <2>2. [i \in Frames |-> i] \in [Frames -> Int] /\ NPages - 1 \in Int /\ NPages - 1 < NPages
    BY <1>0 DEF Frames
  <2> DEFINE st == [i \in Frames |-> i]
  <2> HIDE DEF st
  <2>3. vm.pm = [sp |-> NPages - 1, stack |-> st, inuse |-> {}, mode |-> "defined"]
    BY <2>1 DEF st
  <2>4. st \in [Phy!Positions -> Int]
    BY <2>2 DEF st, Phy!Positions, Frames
  <2>5. vm.pm \in Phy!PmType
    BY <2>2, <2>3, <2>4 DEF Phy!PmType
  <2> QED
    BY <2>1, <2>2, <2>5 DEF PmOK
<1>2. /\ vm.lost = "no" /\ IsVm(vm) /\ vm.pde = [t \in Tables |-> {}] /\ vm.pt = [f \in {} |-> <<>>]
  BY DEF Init, IsVm
<1>3. /\ vm.pde \in [Tables -> SUBSET Int] /\ \A t \in Tables : vm.pde[t] = {}
      /\ DOMAIN vm.pt = {}
  BY <1>2
<1>4. VmOK(vm)
  <2>1. vm.pt = [f \in DOMAIN vm.pt |-> vm.pt[f]]
    BY <1>2
  <2>2. TableFrames(vm.pde) = {}
    BY <1>3 DEF TableFrames
  <2> QED
    BY <1>1, <1>2, <1>3, <2>1, <2>2 DEF VmOK, IsEntry
<1>5. \A p \in Pages : Walk(vm, p) = {}
  BY <1>3, <1>4, WalkForm, WhereIs
<1>6. DOMAIN regions = {} /\ devs = {} /\ head = 0 /\ call = Idle /\ call.op = "idle" /\ status = "OK"
  BY DEF Init, Idle
<1>7. RegionsOK(vm, regions)
  BY <1>6 DEF RegionsOK
<1>8. LeftOK(vm, call, regions, devs)
  BY <1>5 DEF LeftOK
<1>9. MapsOK(vm, call, regions, devs)
  BY <1>6 DEF MapsOK
<1>10. TlbOK(vm, tlb)
  <2>1. tlb = [lp \in Pages |-> {}]
    BY DEF Init
  <2> QED
    BY <2>1 DEF TlbOK, IsEntry
<1>11. CallOK(call, regions, devs) /\ DevsOK(devs, head) /\ status \in Phy!Statuses
  BY <1>6 DEF CallOK, DevsOK, Phy!Statuses
<1> QED
  BY <1>4, <1>7, <1>8, <1>9, <1>10, <1>11 DEF IInv

-----------------------------------------------------------------------------

(* What mmap finds and leaves: the frames of r, and a new region of them.   *)
Opened(lp, n, r) ==
  /\ Grants(vm.pm, r, n)
  /\ vm'.pm = r.pm /\ vm'.pde = vm.pde /\ vm'.pt = vm.pt /\ vm'.lost = vm.lost
  /\ VmOK(vm') /\ RegionsOK(vm', regions')
  /\ lp \notin DOMAIN regions /\ DOMAIN regions' = DOMAIN regions \cup {lp}
  /\ regions'[lp].hw = r.addr /\ regions'[lp].n = n
  /\ \A q \in DOMAIN regions : q # lp /\ regions'[q] = regions[q]
  /\ call'.op = "map" /\ call'.lp = lp /\ call'.hw = r.addr /\ call'.i = 0 /\ call'.n = n
  /\ IsCall(call')

(* mmap allocates frames that no region and no page table uses.             *)
LEMMA MmapBooks ==
  ASSUME VmOK(vm), RegionsOK(vm, regions), NEW lp \in HeapPages, NEW n \in 1 .. MaxRequest, Mmap(lp, n)
  PROVE  \E r \in Phy!hwpalloc(vm.pm, n) : Opened(lp, n, r)
<1>0. VmOK(vm) /\ RegionsOK(vm, regions)
  OBVIOUS
<1>1. Covered(lp, n) \subseteq HeapPages \ RegionPages(regions)
  BY InRegionsForm DEF Mmap
<1>2. PICK r \in Phy!hwpalloc(vm.pm, n) :
        /\ vm' = [vm EXCEPT !.pm = r.pm]
        /\ call' = [op |-> "map", lp |-> lp, hw |-> r.addr, i |-> 0, n |-> n, ptr |-> 0]
        /\ regions' = [q \in DOMAIN regions \cup {lp} |->
                         IF q = lp THEN [hw |-> r.addr, n |-> n] ELSE regions[q]]
  BY U16Fits DEF Mmap
<1>4. n \in Nat \ {0} /\ lp \in Int
  BY VirtAssumption, PagesForm
<1>5. Grants(vm.pm, r, n)
  BY <1>0, <1>2, <1>4, AllocGrants DEF VmOK
<1>6. vm' = [pm |-> r.pm, pde |-> vm.pde, pt |-> vm.pt, lost |-> vm.lost]
  BY <1>0, <1>2 DEF VmOK, IsVm
<1>7. vm'.pm = r.pm /\ vm'.pde = vm.pde /\ vm'.pt = vm.pt /\ vm'.lost = vm.lost /\ IsVm(vm')
  BY <1>6 DEF IsVm
<1>8. PmOK(r.pm) /\ vm.pm.inuse \subseteq r.pm.inuse
  BY <1>5 DEF Grants
<1>9. VmOK(vm')
  BY <1>0, <1>7, <1>8 DEF VmOK
<1>10. \A p : Walk(vm', p) = Walk(vm, p)
  BY <1>7 DEF Walk
<1>11. lp \notin DOMAIN regions
  <2> SUFFICES ASSUME lp \in DOMAIN regions PROVE FALSE
    OBVIOUS
  <2>1. lp \in Covered(lp, n) /\ regions[lp].n \in Nat \ {0}
    BY <1>0, <1>4 DEF Covered, RegionsOK, RegionOK
  <2>2. lp \in Covered(lp, regions[lp].n)
    BY <1>4, <2>1 DEF Covered
  <2> QED
    BY <1>1, <2>1, <2>2 DEF RegionPages
<1>12. /\ DOMAIN regions' = DOMAIN regions \cup {lp}
       /\ regions'[lp] = [hw |-> r.addr, n |-> n]
       /\ \A q \in DOMAIN regions : q # lp /\ regions'[q] = regions[q]
  BY <1>2, <1>11
<1>13. regions'[lp].hw = r.addr /\ regions'[lp].n = n
  BY <1>12
<1>14. /\ r.addr \in Frames \cup {NULL}
       /\ Granted(regions'[lp]) \subseteq r.pm.inuse /\ Granted(regions'[lp]) \cap vm.pm.inuse = {}
  BY <1>5, <1>13 DEF Grants, Granted
<1>15. RegionsOK(vm', regions')
  <2>1. RegionOK(vm', lp, regions'[lp])
    <3>1. DOMAIN vm.pt \subseteq vm.pm.inuse
      BY <1>0 DEF VmOK
    <3> QED
      BY <1>1, <1>4, <1>7, <1>13, <1>14, <3>1 DEF RegionOK
  <2>2. \A q \in DOMAIN regions : RegionOK(vm', q, regions'[q])
    BY <1>0, <1>7, <1>8, <1>12 DEF RegionsOK, RegionOK
  <2>3. ASSUME NEW q \in DOMAIN regions
        PROVE  /\ Covered(q, regions'[q].n) \cap Covered(lp, regions'[lp].n) = {}
               /\ Granted(regions'[q]) \cap Granted(regions'[lp]) = {}
    <3>1. Covered(q, regions[q].n) \subseteq RegionPages(regions)
      BY DEF RegionPages
    <3>2. Granted(regions[q]) \subseteq vm.pm.inuse
      BY <1>0 DEF RegionsOK, RegionOK
    <3> QED
      BY <1>1, <1>12, <1>13, <1>14, <3>1, <3>2
  <2>4. \A q, s \in DOMAIN regions : q # s =>
          /\ Covered(q, regions'[q].n) \cap Covered(s, regions'[s].n) = {}
          /\ Granted(regions'[q]) \cap Granted(regions'[s]) = {}
    BY <1>0, <1>12 DEF RegionsOK
  <2>5. DOMAIN regions' \subseteq HeapPages
    BY <1>0, <1>12 DEF RegionsOK
  <2>6. \A q \in DOMAIN regions' : RegionOK(vm', q, regions'[q])
    BY <1>12, <2>1, <2>2
  <2>7. \A q, s \in DOMAIN regions' : q # s =>
          /\ Covered(q, regions'[q].n) \cap Covered(s, regions'[s].n) = {}
          /\ Granted(regions'[q]) \cap Granted(regions'[s]) = {}
    BY <1>12, <2>3, <2>4
  <2> QED
    BY <2>5, <2>6, <2>7 DEF RegionsOK
<1>17. /\ call'.op = "map" /\ call'.lp = lp /\ call'.hw = r.addr /\ call'.i = 0 /\ call'.n = n
       /\ IsCall(call')
  BY <1>2 DEF IsCall
<1>18. Opened(lp, n, r)
  BY <1>5, <1>7, <1>9, <1>11, <1>12, <1>13, <1>15, <1>17 DEF Opened
<1> QED
  BY <1>2, <1>18

(* mmap allocates the frames and has mapped nothing yet.                    *)
LEMMA MmapKeeps ==
  ASSUME IInv, NEW lp \in HeapPages, NEW n \in 1 .. MaxRequest, Mmap(lp, n)
  PROVE  IInv'
<1>0. /\ VmOK(vm) /\ RegionsOK(vm, regions) /\ DevsOK(devs, head) /\ CallOK(call, regions, devs)
      /\ MapsOK(vm, call, regions, devs) /\ LeftOK(vm, call, regions, devs) /\ TlbOK(vm, tlb)
      /\ status \in Phy!Statuses
  BY DEF IInv
<1>1. call.op = "idle" /\ Covered(lp, n) \subseteq HeapPages \ RegionPages(regions)
  BY InRegionsForm DEF Mmap, Running
<1>2. PICK r \in Phy!hwpalloc(vm.pm, n) : Opened(lp, n, r)
  BY <1>0, MmapBooks
<1>3. tlb' = tlb /\ head' = head /\ devs' = devs /\ status' = status
  BY DEF Mmap
<1>4. n \in Nat \ {0} /\ lp \in Int
  BY VirtAssumption, PagesForm
<1>7. vm'.pm = r.pm /\ vm'.pde = vm.pde /\ vm'.pt = vm.pt /\ vm'.lost = vm.lost
  BY <1>2 DEF Opened
<1>9. VmOK(vm') /\ RegionsOK(vm', regions')
  BY <1>2 DEF Opened
<1>10. \A p : Walk(vm', p) = Walk(vm, p)
  BY <1>7 DEF Walk
<1>12. /\ DOMAIN regions' = DOMAIN regions \cup {lp}
       /\ \A q \in DOMAIN regions : q # lp /\ regions'[q] = regions[q]
  BY <1>2 DEF Opened
<1>13. regions'[lp].hw = r.addr /\ regions'[lp].n = n
  BY <1>2 DEF Opened
<1>17. /\ call'.op = "map" /\ call'.lp = lp /\ call'.hw = r.addr /\ call'.i = 0 /\ call'.n = n
       /\ IsCall(call')
  BY <1>2 DEF Opened
<1>16. LeftOK(vm', call', regions', devs')
  <2> SUFFICES ASSUME NEW p \in Pages, p \in MappedPages(call, regions, devs)
               PROVE  p \in MappedPages(call', regions', devs)
    BY <1>0, <1>3, <1>10 DEF LeftOK
  <2>1. p \in RegionPages(regions) \/ (devs # {} /\ p \in Covered(DriverBase, DevPages))
    BY DEF MappedPages
  <2>2. Covered(call'.lp + call'.i, call'.n - call'.i) = Covered(lp, n)
    BY <1>4, <1>17 DEF Covered
  <2>3. p \in RegionPages(regions) => p \in RegionPages(regions')
    BY <1>12 DEF RegionPages
  <2>4. p \notin Covered(lp, n)
    BY <1>1, <2>1, DeviceApart
  <2> QED
    BY <2>1, <2>2, <2>3, <2>4 DEF MappedPages
<1>18. CallOK(call', regions', devs')
  <2>1. ForRegion(call', regions')
    BY <1>12, <1>13, <1>17 DEF ForRegion
  <2>2. call'.n \in Nat \ {0} /\ call'.i \in 0 .. call'.n - 1
    BY <1>4, <1>17
  <2> QED
    BY <1>17, <2>1, <2>2 DEF CallOK
<1>19. MapsOK(vm', call', regions', devs')
  <2> SUFFICES ASSUME vm.lost = "no"
               PROVE  /\ \A q \in DOMAIN regions' : Maps(vm', call', q, regions'[q].hw, regions'[q].n)
                      /\ \A d \in devs : Maps(vm', call', DriverBase, d.hw, DevPages)
    BY <1>3, <1>7 DEF MapsOK
  <2>1. \A q \in DOMAIN regions : Maps(vm, call, q, regions[q].hw, regions[q].n)
    BY <1>0 DEF MapsOK
  <2>2. \A d \in devs : Maps(vm, call, DriverBase, d.hw, DevPages)
    BY <1>0 DEF MapsOK
  <2>3. Maps(vm', call', lp, regions'[lp].hw, regions'[lp].n)
    BY <1>17 DEF Maps
  <2>4. ASSUME NEW q, NEW hw, NEW m, Maps(vm, call, q, hw, m) PROVE Maps(vm', call', q, hw, m)
    BY <1>1, <1>10, <2>4 DEF Maps
  <2> QED
    BY <1>12, <2>1, <2>2, <2>3, <2>4
<1>20. TlbOK(vm', tlb')
  BY <1>0, <1>3, <1>10 DEF TlbOK
<1>21. DevsOK(devs', head') /\ status' \in Phy!Statuses
  BY <1>0, <1>3
<1> QED
  BY <1>9, <1>16, <1>18, <1>19, <1>20, <1>21 DEF IInv, Phy!Statuses

(* maphwdev, for the first device.                                          *)
LEMMA MaphwdevKeeps ==
  ASSUME IInv, devs = {}, NEW hw \in Devices, Maphwdev(hw)
  PROVE  IInv'
<1>0. /\ VmOK(vm) /\ RegionsOK(vm, regions) /\ DevsOK(devs, head) /\ CallOK(call, regions, devs)
      /\ MapsOK(vm, call, regions, devs) /\ LeftOK(vm, call, regions, devs) /\ TlbOK(vm, tlb)
      /\ status \in Phy!Statuses
  BY DEF IInv
<1>1. call.op = "idle" /\ head = 0 /\ head' = head + DevPages
  BY <1>0 DEF Maphwdev, Running, DevsOK
<1>2. DriverBase + (head \div PageSize) = DriverBase
  <2>1. 0 \div PageSize = 0
    BY VirtAssumption, ZeroDiv
  <2> QED
    BY <1>1, <2>1, PagesForm
<1>3. call' = [op |-> "map", lp |-> DriverBase, hw |-> hw, i |-> 0, n |-> DevPages, ptr |-> head]
  BY <1>2 DEF Maphwdev
<1>4. /\ call'.op = "map" /\ call'.lp = DriverBase /\ call'.hw = hw /\ call'.i = 0
      /\ call'.n = DevPages /\ IsCall(call')
  BY <1>3 DEF IsCall
<1>5. devs' = {[ptr |-> 0, hw |-> hw]}
  BY <1>1 DEF Maphwdev
<1>6. vm' = vm /\ tlb' = tlb /\ regions' = regions /\ status' = status
  BY DEF Maphwdev
<1>7. DevPages \in Nat \ {0}
  BY VirtAssumption
<1>8. DevsOK(devs', head')
  BY <1>1, <1>5, <1>7 DEF DevsOK
<1>9. CallOK(call', regions', devs')
  <2>1. ForDevice(call', devs')
    BY <1>4, <1>5 DEF ForDevice
  <2>2. call'.n \in Nat \ {0} /\ call'.i \in 0 .. call'.n - 1
    BY <1>4, <1>7
  <2> QED
    BY <1>4, <2>1, <2>2 DEF CallOK
<1>10. MapsOK(vm', call', regions', devs')
  <2> SUFFICES ASSUME vm.lost = "no"
               PROVE  /\ \A q \in DOMAIN regions : Maps(vm, call', q, regions[q].hw, regions[q].n)
                      /\ \A d \in devs' : Maps(vm, call', DriverBase, d.hw, DevPages)
    BY <1>6 DEF MapsOK
  <2>1. \A q \in DOMAIN regions : Maps(vm, call, q, regions[q].hw, regions[q].n)
    BY <1>0 DEF MapsOK
  <2>2. \A q \in DOMAIN regions : Maps(vm, call', q, regions[q].hw, regions[q].n)
    BY <1>1, <2>1 DEF Maps
  <2>3. \A d \in devs' : Maps(vm, call', DriverBase, d.hw, DevPages)
    BY <1>4 DEF Maps
  <2> QED
    BY <2>2, <2>3
<1>11. LeftOK(vm', call', regions', devs')
  <2> SUFFICES ASSUME NEW p \in Pages, p \in MappedPages(call, regions, devs)
               PROVE  p \in MappedPages(call', regions, devs')
    BY <1>0, <1>6 DEF LeftOK
  <2>1. p \in RegionPages(regions)
    BY DEF MappedPages
  <2>2. Covered(call'.lp + call'.i, call'.n - call'.i) = Covered(DriverBase, DevPages)
    BY <1>4, <1>7, PagesForm DEF Covered
  <2>3. RegionPages(regions) \subseteq HeapPages
    BY <1>0 DEF RegionsOK, RegionOK, RegionPages
  <2> QED
    BY <2>1, <2>2, <2>3, DeviceApart DEF MappedPages
<1>12. VmOK(vm') /\ RegionsOK(vm', regions') /\ TlbOK(vm', tlb')
  BY <1>0, <1>6
<1>13. status' \in Phy!Statuses
  BY <1>0, <1>6
<1> QED
  BY <1>8, <1>9, <1>10, <1>11, <1>12, <1>13 DEF IInv, Phy!Statuses

(* The page and the frame of the next iteration.                            *)
LEMMA WhatIsMapped ==
  ASSUME IInv, call.op = "map"
  PROVE  /\ call.n \in Nat \ {0} /\ call.i \in 0 .. call.n - 1 /\ IsCall(call)
         /\ ForRegion(call, regions) \/ ForDevice(call, devs)
         /\ call.lp \in Int /\ call.lp + call.i \in Pages
         /\ call.hw \in Int /\ PhysPage(call.hw, call.i) \in Int
<1>1. /\ call.n \in Nat \ {0} /\ call.i \in 0 .. call.n - 1 /\ IsCall(call)
      /\ ForRegion(call, regions) \/ ForDevice(call, devs)
  BY DEF IInv, CallOK, Idle
<1>2. RegionsOK(vm, regions)
  BY DEF IInv
<1>3. /\ call.lp \in Int /\ call.lp + call.i \in Pages /\ call.hw \in Int
  <2>1. CASE ForRegion(call, regions)
    <3>1. /\ call.lp \in HeapPages /\ call.hw \in Frames \cup {NULL}
          /\ Covered(call.lp, call.n) \subseteq HeapPages
      BY <1>2, <2>1 DEF ForRegion, RegionsOK, RegionOK
    <3>2. call.lp \in Int /\ call.hw \in Int
      BY <3>1, Numbers
    <3>3. call.lp + call.i \in Covered(call.lp, call.n)
      BY <1>1, <3>2 DEF Covered
    <3> QED
      BY <3>1, <3>2, <3>3, PagesForm
  <2>2. CASE ForDevice(call, devs)
    <3>1. call.lp = DriverBase /\ call.n = DevPages /\ call.hw \in Int
      BY <2>2, Numbers DEF ForDevice
    <3> QED
      BY <1>1, <3>1, PagesForm
  <2> QED
    BY <1>1, <2>1, <2>2
<1>4. PhysPage(call.hw, call.i) \in Int
  BY <1>1, <1>3 DEF PhysPage
<1> QED
  BY <1>1, <1>3, <1>4

(* Frames and pages of regions are not disturbed by a new page table.       *)
LEMMA RegionsSurvive ==
  ASSUME NEW v, NEW w, NEW regs, RegionsOK(v, regs), v.pm.inuse \subseteq w.pm.inuse,
         \A f \in DOMAIN w.pt : f \in DOMAIN v.pt \/ f \notin v.pm.inuse
  PROVE  RegionsOK(w, regs)
<1>1. ASSUME NEW q \in DOMAIN regs PROVE RegionOK(w, q, regs[q])
  <2>1. RegionOK(v, q, regs[q])
    BY DEF RegionsOK
  <2> QED
    BY <2>1 DEF RegionOK
<1> QED
  BY <1>1 DEF RegionsOK

(* The loop ends or goes on with the next page.                             *)
Advances ==
  \/ call.i + 1 = call.n /\ call' = Idle
  \/ /\ call.i + 1 # call.n /\ call'.op = "map" /\ call'.lp = call.lp /\ call'.hw = call.hw
     /\ call'.i = call.i + 1 /\ call'.n = call.n /\ IsCall(call')

(* So it does.                                                              *)
LEMMA CallAdvances == ASSUME IsCall(call), MapStep PROVE Advances
<1>1. CASE call.i + 1 # call.n
  <2>1. call' = [op |-> call.op, lp |-> call.lp, hw |-> call.hw, i |-> call.i + 1,
                 n |-> call.n, ptr |-> call.ptr]
    BY <1>1 DEF MapStep, IsCall
  <2>2. call.op = "map"
    BY DEF MapStep, Running
  <2> QED
    BY <1>1, <2>1, <2>2 DEF IsCall, Advances
<1>2. CASE call.i + 1 = call.n
  BY <1>2 DEF MapStep, Advances
<1> QED
  BY <1>1, <1>2

(* An iteration of the loop.                                                *)
Iterates ==
  /\ call.op = "map" /\ call.n \in Nat \ {0} /\ call.i \in 0 .. call.n - 1 /\ call.lp \in Int
  /\ call.hw \in Int /\ Advances
  /\ IsMapped(vm, vm', PhysPage(call.hw, call.i), call.lp + call.i)

(* A page b + j, of m pages from b, that is to lead to frame j of h after   *)
(* the iteration.                                                           *)
Due(b, h, m, j) ==
  /\ b \in Int /\ h \in Int /\ m \in Nat /\ j \in 0 .. m - 1 /\ b + j \in Pages
  /\ (call.lp = b => j < call.i) => Walk(vm, b + j) = {PhysPage(h, j)}
  /\ call'.op = "map" /\ call'.lp = b => j < call'.i
  /\ call.lp = b => call.hw = h /\ call.n = m
  /\ call.lp # b => call.lp + call.i # b + j

(* It does, if it did before or is the page of that iteration.              *)
LEMMA PageAdvances ==
  ASSUME Iterates, NEW b, NEW h, NEW m, NEW j, Due(b, h, m, j)
  PROVE  Walk(vm', b + j) = {PhysPage(h, j)}
<1>a. /\ call.op = "map" /\ call.n \in Nat \ {0} /\ call.i \in 0 .. call.n - 1 /\ call.lp \in Int
      /\ call.hw \in Int /\ Advances
      /\ IsMapped(vm, vm', PhysPage(call.hw, call.i), call.lp + call.i)
  BY DEF Iterates
<1>b. /\ b \in Int /\ h \in Int /\ m \in Nat /\ j \in 0 .. m - 1 /\ b + j \in Pages
      /\ (call.lp = b => j < call.i) => Walk(vm, b + j) = {PhysPage(h, j)}
      /\ call'.op = "map" /\ call'.lp = b => j < call'.i
      /\ call.lp = b => call.hw = h /\ call.n = m
      /\ call.lp # b => call.lp + call.i # b + j
  BY DEF Due
<1> DEFINE lp == call.lp + call.i
           hw == PhysPage(call.hw, call.i)
<1>1. /\ Walk(vm', lp) = {hw}
      /\ \A p \in Pages : p # lp => Walk(vm', p) = Walk(vm, p)
  BY <1>a DEF IsMapped
<1>2. lp = call.lp + call.i /\ hw = PhysPage(call.hw, call.i)
  OBVIOUS
<1> HIDE DEF lp, hw
<1>3. CASE b + j = lp
  <2>1. call.lp = b
    BY <1>a, <1>b, <1>2, <1>3
  <2>2. call.i = j /\ call.hw = h
    BY <1>a, <1>b, <1>2, <1>3, <2>1
  <2> QED
    BY <1>1, <1>2, <1>3, <2>2
<1>4. CASE b + j # lp
  <2>1. call.lp = b => j < call.i
    <3> SUFFICES ASSUME call.lp = b PROVE j < call.i
      OBVIOUS
    <3>1. j # call.i /\ call.n = m
      BY <1>a, <1>b, <1>2, <1>4
    <3>2. CASE call.i + 1 = call.n
      BY <1>a, <1>b, <3>1, <3>2
    <3>3. CASE call.i + 1 # call.n
      BY <1>a, <1>b, <3>1, <3>3 DEF Advances
    <3> QED
      BY <3>2, <3>3
  <2>2. Walk(vm, b + j) = {PhysPage(h, j)}
    BY <1>b, <2>1
  <2> QED
    BY <1>b, <1>1, <1>4, <2>2
<1> QED
  BY <1>3, <1>4

(* One iteration of the loop around mapfr.                                  *)
LEMMA MapStepKeeps ==
  ASSUME IInv, MapStep
  PROVE  IInv'
<1> DEFINE lp == call.lp + call.i
           hw == PhysPage(call.hw, call.i)
<1>0. /\ VmOK(vm) /\ RegionsOK(vm, regions) /\ DevsOK(devs, head) /\ CallOK(call, regions, devs)
      /\ MapsOK(vm, call, regions, devs) /\ LeftOK(vm, call, regions, devs) /\ TlbOK(vm, tlb)
      /\ status \in Phy!Statuses
  BY DEF IInv
<1>1. call.op = "map" /\ vm.lost = "no"
  BY DEF MapStep, Running, Defined
<1>2. vm' = SetPte(vm, lp, {hw}) /\ vm.pde[Table(lp)] # {}
  BY DEF MapStep
<1>3. /\ call' = IF call.i + 1 = call.n THEN Idle ELSE [call EXCEPT !.i = call.i + 1]
      /\ tlb' = tlb /\ head' = head /\ regions' = regions /\ devs' = devs /\ status' = status
  BY DEF MapStep
<1>4. /\ call.n \in Nat \ {0} /\ call.i \in 0 .. call.n - 1 /\ IsCall(call)
      /\ ForRegion(call, regions) \/ ForDevice(call, devs)
      /\ call.lp \in Int /\ lp \in Pages /\ call.hw \in Int /\ hw \in Int
  BY <1>1, WhatIsMapped
<1>5. lp = call.lp + call.i /\ hw = PhysPage(call.hw, call.i)
  OBVIOUS
<1> HIDE DEF lp, hw
<1>6. IsMapped(vm, vm', hw, lp)
  BY <1>0, <1>2, <1>4, mapfrOutcome
<1>7. VmOK(vm') /\ vm'.pm = vm.pm /\ DOMAIN vm'.pt = DOMAIN vm.pt
  BY <1>6 DEF IsMapped
<1>8. \A p \in Pages : p # lp => Walk(vm', p) = Walk(vm, p)
  BY <1>6 DEF IsMapped
<1>9. lp \notin MappedPages(call, regions, devs)
  <2>1. lp \in Covered(call.lp + call.i, call.n - call.i)
    BY <1>4, <1>5 DEF Covered
  <2> QED
    BY <2>1 DEF MappedPages
<1>10. RegionsOK(vm', regions)
  BY <1>0, <1>7, RegionsSurvive
<1>12. Advances
  BY <1>4, CallAdvances
<1>13. CallOK(call', regions, devs)
  <2>1. CASE call' = Idle
    BY <2>1 DEF CallOK
  <2>2. CASE call' # Idle
    <3>1. /\ call.i + 1 # call.n /\ call'.op = "map" /\ call'.lp = call.lp /\ call'.hw = call.hw
          /\ call'.i = call.i + 1 /\ call'.n = call.n /\ IsCall(call')
      BY <1>12, <2>2 DEF Advances
    <3>2. call'.n \in Nat \ {0} /\ call'.i \in 0 .. call'.n - 1
      BY <1>4, <3>1
    <3>3. ForRegion(call', regions) \/ ForDevice(call', devs)
      BY <1>4, <3>1 DEF ForRegion, ForDevice
    <3> QED
      BY <3>1, <3>2, <3>3 DEF CallOK
  <2> QED
    BY <2>1, <2>2
<1>14. MapsOK(vm', call', regions, devs)
  <2> SUFFICES ASSUME vm'.lost = "no"
               PROVE  /\ \A q \in DOMAIN regions : Maps(vm', call', q, regions[q].hw, regions[q].n)
                      /\ \A d \in devs : Maps(vm', call', DriverBase, d.hw, DevPages)
    BY DEF MapsOK
  <2>1. ASSUME NEW b \in Int, NEW h \in Int, NEW m \in Nat, Maps(vm, call, b, h, m),
               Covered(b, m) \subseteq Pages,
               call.lp = b => call.hw = h /\ call.n = m,
               call.lp # b => lp \notin Covered(b, m)
        PROVE  Maps(vm', call', b, h, m)
    <3> SUFFICES ASSUME NEW j \in 0 .. m - 1, call'.op = "map" /\ call'.lp = b => j < call'.i
                 PROVE  Walk(vm', b + j) = {PhysPage(h, j)}
      BY DEF Maps
    <3>1. b + j \in Covered(b, m) /\ b + j \in Pages
      BY <2>1 DEF Covered
    <3>2. (call.lp = b => j < call.i) => Walk(vm, b + j) = {PhysPage(h, j)}
      BY <2>1 DEF Maps
    <3>3. call.lp # b => call.lp + call.i # b + j
      BY <1>5, <2>1, <3>1
    <3>4. Due(b, h, m, j)
      BY <2>1, <3>1, <3>2, <3>3 DEF Due
    <3>5. Iterates
      BY <1>1, <1>4, <1>5, <1>6, <1>12 DEF Iterates
    <3> QED
      BY <3>4, <3>5, PageAdvances
  <2>2. ASSUME NEW q \in DOMAIN regions PROVE Maps(vm', call', q, regions[q].hw, regions[q].n)
    <3>1. /\ RegionOK(vm, q, regions[q]) /\ q \in HeapPages
          /\ Maps(vm, call, q, regions[q].hw, regions[q].n)
      BY <1>0, <1>1 DEF RegionsOK, MapsOK
    <3>2. /\ q \in Int /\ regions[q].hw \in Int /\ regions[q].n \in Nat
          /\ Covered(q, regions[q].n) \subseteq HeapPages /\ Covered(q, regions[q].n) \subseteq Pages
      BY <3>1, Numbers, PagesForm DEF RegionOK
    <3>3. CASE ForRegion(call, regions)
      <4>1. lp \in Covered(call.lp, regions[call.lp].n)
        BY <1>4, <1>5, <3>3 DEF ForRegion, Covered
      <4>2. call.lp # q => lp \notin Covered(q, regions[q].n)
        BY <1>0, <3>3, <4>1 DEF ForRegion, RegionsOK
      <4>3. call.lp = q => call.hw = regions[q].hw /\ call.n = regions[q].n
        BY <3>3 DEF ForRegion
      <4> QED
        BY <2>1, <3>1, <3>2, <4>2, <4>3
    <3>4. CASE ForDevice(call, devs)
      <4>1. lp \notin HeapPages /\ call.lp # q
        <5>1. call.lp = DriverBase /\ call.n = DevPages
          BY <3>4 DEF ForDevice
        <5>2. call.lp + 0 \notin HeapPages
          BY <5>1, PagesForm, VirtAssumption
        <5>3. lp \notin HeapPages
          BY <1>4, <1>5, <5>1, PagesForm
        <5> QED
          BY <1>4, <3>1, <5>2, <5>3
      <4> QED
        BY <2>1, <3>1, <3>2, <4>1
    <3> QED
      BY <1>4, <3>3, <3>4
  <2>3. ASSUME NEW d \in devs PROVE Maps(vm', call', DriverBase, d.hw, DevPages)
    <3>1. d.hw \in Devices /\ d.hw \in Int /\ DevPages \in Nat /\ DriverBase \in Int
      BY <1>0, PagesForm, VirtAssumption DEF DevsOK
    <3>2. Maps(vm, call, DriverBase, d.hw, DevPages)
      BY <1>0, <1>1 DEF MapsOK
    <3>3. Covered(DriverBase, DevPages) \subseteq Pages /\ Covered(DriverBase, DevPages) \cap HeapPages = {}
      <4> SUFFICES ASSUME NEW p \in Covered(DriverBase, DevPages) PROVE p \in Pages /\ p \notin HeapPages
        OBVIOUS
      <4>1. p - DriverBase \in 0 .. DevPages - 1 /\ p = DriverBase + (p - DriverBase)
        BY <3>1 DEF Covered
      <4> QED
        BY <4>1, PagesForm
    <3>4. call.lp = DriverBase => call.hw = d.hw /\ call.n = DevPages
      <4>1. CASE ForDevice(call, devs)
        BY <4>1 DEF ForDevice
      <4>2. CASE ForRegion(call, regions)
        <5>1. call.lp \in HeapPages
          BY <1>0, <4>2 DEF ForRegion, RegionsOK
        <5>2. call.lp # DriverBase
          BY <5>1 DEF HeapPages
        <5> QED
          BY <5>2
      <4> QED
        BY <1>4, <4>1, <4>2
    <3>5. call.lp # DriverBase => lp \notin Covered(DriverBase, DevPages)
      <4> SUFFICES ASSUME call.lp # DriverBase PROVE lp \notin Covered(DriverBase, DevPages)
        OBVIOUS
      <4>1. ForRegion(call, regions)
        BY <1>4 DEF ForDevice
      <4>2. Covered(call.lp, call.n) \subseteq HeapPages
        BY <1>0, <4>1 DEF ForRegion, RegionsOK, RegionOK
      <4>3. lp \in Covered(call.lp, call.n)
        BY <1>4, <1>5 DEF Covered
      <4> QED
        BY <3>3, <4>2, <4>3
    <3> QED
      BY <2>1, <3>1, <3>2, <3>3, <3>4, <3>5
  <2> QED
    BY <2>2, <2>3
<1>15. LeftOK(vm', call', regions, devs)
  <2>1. Covered(call'.lp + call'.i, call'.n - call'.i) \subseteq Covered(call.lp + call.i, call.n - call.i)
    BY <1>4, <1>12 DEF Advances, Idle, Covered
  <2>2. lp \in MappedPages(call', regions, devs)
    <3>1. lp \notin Covered(call'.lp + call'.i, call'.n - call'.i)
      BY <1>4, <1>5, <1>12 DEF Advances, Idle, Covered
    <3>2. lp \in Covered(call.lp, call.n)
      BY <1>4, <1>5 DEF Covered
    <3>3. CASE ForRegion(call, regions)
      BY <1>4, <3>1, <3>2, <3>3 DEF ForRegion, MappedPages, RegionPages
    <3>4. CASE ForDevice(call, devs)
      BY <1>4, <3>1, <3>2, <3>4 DEF ForDevice, MappedPages
    <3> QED
      BY <1>4, <3>3, <3>4
  <2>3. MappedPages(call, regions, devs) \subseteq MappedPages(call', regions, devs)
    BY <2>1 DEF MappedPages
  <2> QED
    BY <1>0, <1>8, <2>2, <2>3 DEF LeftOK
<1>16. TlbOK(vm', tlb)
  <2>1. Walk(vm, lp) \subseteq StalePages
    BY <1>0, <1>4, <1>9 DEF LeftOK
  <2> QED
    BY <1>0, <1>8, <2>1 DEF TlbOK
<1> QED
  BY <1>0, <1>3, <1>7, <1>10, <1>13, <1>14, <1>15, <1>16 DEF IInv, Phy!Statuses

(* A missing page table is installed: no page that was mapped loses its     *)
(* translation, the others get leftover ones.                               *)
LEMMA NewTableKeeps ==
  ASSUME IInv, NewTable
  PROVE  IInv'
<1> DEFINE t == Table(call.lp + call.i)
<1>0. /\ VmOK(vm) /\ RegionsOK(vm, regions) /\ DevsOK(devs, head) /\ CallOK(call, regions, devs)
      /\ MapsOK(vm, call, regions, devs) /\ LeftOK(vm, call, regions, devs) /\ TlbOK(vm, tlb)
      /\ status \in Phy!Statuses
  BY DEF IInv
<1>1. call.op = "map" /\ vm.lost = "no" /\ vm.pde[t] = {} /\ vm' \in WithTable(vm, t)
  BY DEF NewTable, Running, Defined, TableMissing
<1>2. /\ tlb' = tlb /\ head' = head /\ call' = call /\ regions' = regions /\ devs' = devs
      /\ status' = status
  BY DEF NewTable
<1>3. t \in Tables
  BY <1>1, WhatIsMapped, WhereIs
<1> HIDE DEF t
<1>4. Tabled(vm, vm', t)
  BY <1>0, <1>1, <1>3, WithTableOutcome
<1>5. /\ VmOK(vm') /\ vm.pm.inuse \subseteq vm'.pm.inuse
      /\ \A f \in DOMAIN vm'.pt : f \in DOMAIN vm.pt \/ f \notin vm.pm.inuse
  BY <1>4, Zenon DEF Tabled
<1>6. \A p \in Pages :
        Walk(vm', p) = Walk(vm, p) \/ (Walk(vm, p) = {} /\ Walk(vm', p) \subseteq StalePages)
  BY <1>4 DEF Tabled
<1>7. RegionsOK(vm', regions)
  BY <1>0, <1>5, RegionsSurvive
<1>8. MapsOK(vm', call, regions, devs)
  <2>1. ASSUME NEW b \in Int, NEW h, NEW m \in Nat, Maps(vm, call, b, h, m), Covered(b, m) \subseteq Pages
        PROVE  Maps(vm', call, b, h, m)
    <3>1. \A k \in 0 .. m - 1 : b + k \in Pages
      BY <2>1 DEF Covered
    <3> QED
      BY <1>6, <2>1, <3>1 DEF Maps
  <2>2. ASSUME NEW q \in DOMAIN regions PROVE Maps(vm', call, q, regions[q].hw, regions[q].n)
    <3>1. q \in HeapPages /\ regions[q].n \in Nat /\ Covered(q, regions[q].n) \subseteq HeapPages
      BY <1>0 DEF RegionsOK, RegionOK
    <3>2. q \in Int /\ Covered(q, regions[q].n) \subseteq Pages
      BY <3>1, Numbers, PagesForm
    <3> QED
      BY <1>0, <1>1, <2>1, <3>1, <3>2 DEF MapsOK
  <2>3. ASSUME NEW d \in devs PROVE Maps(vm', call, DriverBase, d.hw, DevPages)
    <3>1. DriverBase \in Int /\ DevPages \in Nat
      BY PagesForm, VirtAssumption
    <3> QED
      BY <1>0, <1>1, <2>1, <3>1, DeviceApart DEF MapsOK
  <2> QED
    BY <2>2, <2>3 DEF MapsOK
<1>9. LeftOK(vm', call, regions, devs)
  BY <1>0, <1>6 DEF LeftOK
<1>10. TlbOK(vm', tlb)
  BY <1>0, <1>6 DEF TlbOK
<1> QED
  BY <1>0, <1>2, <1>5, <1>7, <1>8, <1>9, <1>10 DEF IInv, Phy!Statuses

(* The processor caches a translation.                                      *)
LEMMA AccessKeeps ==
  ASSUME IInv, NEW lp \in Pages, Access(lp)
  PROVE  IInv'
<1>0. VmOK(vm) /\ TlbOK(vm, tlb)
  BY DEF IInv
<1>1. tlb' = [tlb EXCEPT ![lp] = Walk(vm, lp)]
  BY DEF Access
<1>2. vm' = vm /\ head' = head /\ call' = call /\ regions' = regions /\ devs' = devs /\ status' = status
  BY DEF Access
<1>3. Walk(vm, lp) \in SUBSET Int /\ IsEntry(Walk(vm, lp))
  BY <1>0, WalkForm DEF IsEntry
<1>4. /\ tlb' \in [Pages -> SUBSET Int] /\ tlb'[lp] = Walk(vm, lp)
      /\ \A p \in Pages : p # lp => tlb'[p] = tlb[p]
  BY <1>0, <1>1, <1>3 DEF TlbOK
<1>5. TlbOK(vm, tlb')
  BY <1>0, <1>3, <1>4 DEF TlbOK
<1> QED
  BY <1>2, <1>5 DEF IInv, Phy!Statuses

(* The processor forgets one.                                               *)
LEMMA EvictKeeps ==
  ASSUME IInv, NEW lp \in Pages, Evict(lp)
  PROVE  IInv'
<1>0. TlbOK(vm, tlb)
  BY DEF IInv
<1>1. tlb' = [tlb EXCEPT ![lp] = {}]
  BY DEF Evict
<1>2. vm' = vm /\ head' = head /\ call' = call /\ regions' = regions /\ devs' = devs /\ status' = status
  BY DEF Evict
<1>3. /\ tlb' \in [Pages -> SUBSET Int] /\ tlb'[lp] = {}
      /\ \A p \in Pages : p # lp => tlb'[p] = tlb[p]
  BY <1>0, <1>1 DEF TlbOK
<1>4. TlbOK(vm, tlb')
  BY <1>0, <1>3 DEF TlbOK, IsEntry
<1> QED
  BY <1>2, <1>4 DEF IInv, Phy!Statuses

(* Every step of the kernel keeps the invariant.                            *)
LEMMA StepKeeps == ASSUME IInv, [KernelNext]_vars PROVE IInv'
<1>1. CASE KernelNext
  BY <1>1, MmapKeeps, MaphwdevKeeps, NewTableKeeps, MapStepKeeps, AccessKeeps, EvictKeeps DEF KernelNext
<1>2. CASE UNCHANGED vars
  BY <1>2 DEF vars, IInv, Phy!Statuses
<1> QED
  BY <1>1, <1>2

-----------------------------------------------------------------------------

(* The invariant gives that every frame has one use.                        *)
LEMMA FramesOwnedHolds == ASSUME IInv PROVE FramesOwned
<1>0. /\ VmOK(vm) /\ RegionsOK(vm, regions) /\ MapsOK(vm, call, regions, devs) /\ DevsOK(devs, head)
      /\ CallOK(call, regions, devs) /\ TlbOK(vm, tlb) /\ status \in Phy!Statuses
  BY DEF IInv
<1>1. TypeOK
  <2>1. vm.pm \in Phy!PmType /\ vm.lost \in {"no", "yes"}
    BY <1>0 DEF VmOK, PmOK
  <2>2. DOMAIN vm.pde = Tables /\ \A t \in Tables : IsEntry(vm.pde[t])
    BY <1>0 DEF VmOK
  <2>3. DOMAIN vm.pt = UNION {vm.pde[t] : t \in Tables}
    BY <1>0 DEF VmOK, TableFrames
  <2>4. \A f \in DOMAIN vm.pt : DOMAIN vm.pt[f] = Slots /\ \A i \in Slots : IsEntry(vm.pt[f][i])
    BY <1>0 DEF VmOK, IsTable
  <2>5. DOMAIN tlb = Pages /\ \A lp \in Pages : IsEntry(tlb[lp])
    BY <1>0 DEF TlbOK
  <2>6. head \in Nat /\ call.i \in 0 .. call.n
    <3>1. CASE call = Idle
      BY <1>0, <3>1 DEF DevsOK, Idle
    <3>2. CASE call.n \in Nat \ {0} /\ call.i \in 0 .. call.n - 1
      BY <1>0, <3>2 DEF DevsOK
    <3> QED
      BY <1>0, <3>1, <3>2 DEF CallOK
  <2> QED
    BY <1>0, <2>1, <2>2, <2>3, <2>4, <2>5, <2>6 DEF TypeOK
<1>2. ASSUME Defined, NEW p \in HandedOut, NEW f \in Managed(Walk(vm, p))
      PROVE  \E q \in DOMAIN regions :
               /\ regions[q].hw \in Int /\ q \in Int /\ p \in Covered(q, regions[q].n)
               /\ f = regions[q].hw + (p - q)
               /\ f \in Granted(regions[q]) /\ f \in vm.pm.inuse /\ f \notin DOMAIN vm.pt
  <2>1. PICK q \in DOMAIN regions : p \in Covered(q, regions[q].n)
    BY DEF HandedOut, InRegions
  <2>2. RegionOK(vm, q, regions[q]) /\ q \in HeapPages /\ Maps(vm, call, q, regions[q].hw, regions[q].n)
    BY <1>0, <1>2 DEF RegionsOK, MapsOK, Defined
  <2>3. regions[q].hw \in Frames \cup {NULL} /\ regions[q].hw \in Int /\ q \in Int /\ regions[q].n \in Nat
    BY <2>2, Numbers DEF RegionOK
  <2>4. p \in Int /\ p - q \in 0 .. regions[q].n - 1 /\ q + (p - q) = p
    BY <2>1, <2>3 DEF Covered
  <2>5. call.op = "map" /\ call.lp = q => p - q < call.i
    <3> SUFFICES ASSUME call.op = "map", call.lp = q, ~(p - q < call.i) PROVE FALSE
      OBVIOUS
    <3>1. call.n \in Nat \ {0} /\ call.i \in 0 .. call.n - 1 /\ (ForRegion(call, regions) \/ ForDevice(call, devs))
      BY WhatIsMapped
    <3>2. q # DriverBase
      BY <2>2 DEF HeapPages
    <3>3. call.n = regions[q].n
      BY <3>1, <3>2 DEF ForRegion, ForDevice
    <3>4. p \in Covered(call.lp + call.i, call.n - call.i)
      BY <2>3, <2>4, <3>1, <3>3 DEF Covered
    <3> QED
      BY <3>4 DEF HandedOut, Pending
  <2>6. Walk(vm, p) = {PhysPage(regions[q].hw, p - q)}
    BY <2>2, <2>4, <2>5 DEF Maps
  <2>7. f = PhysPage(regions[q].hw, p - q) /\ f >= 0
    BY <2>6 DEF Managed
  <2>8. regions[q].hw \in Frames /\ regions[q].hw # NULL
    BY <2>3, <2>4, <2>7 DEF PhysPage, NULL, Frames
  <2>9. f = regions[q].hw + (p - q)
    BY <2>7, <2>8 DEF PhysPage, Frames
  <2>10. f \in Granted(regions[q])
    BY <2>3, <2>4, <2>8, <2>9 DEF Granted, Covered
  <2> QED
    BY <2>1, <2>2, <2>3, <2>9, <2>10 DEF RegionOK
<1>3. ASSUME Defined PROVE NoAlias
  <2>1. ASSUME NEW p \in HandedOut PROVE Managed(Walk(vm, p)) \cap DOMAIN vm.pt = {}
    BY <1>2, <1>3
  <2>2. ASSUME NEW p \in HandedOut, NEW q \in HandedOut, p # q,
               NEW f \in Managed(Walk(vm, p)), f \in Managed(Walk(vm, q))
        PROVE  FALSE
    <3>1. PICK s \in DOMAIN regions :
            /\ regions[s].hw \in Int /\ s \in Int /\ f = regions[s].hw + (p - s) /\ f \in Granted(regions[s])
            /\ p \in Covered(s, regions[s].n)
      BY <1>2, <1>3
    <3>2. PICK t \in DOMAIN regions :
            /\ regions[t].hw \in Int /\ t \in Int /\ f = regions[t].hw + (q - t) /\ f \in Granted(regions[t])
            /\ q \in Covered(t, regions[t].n)
      BY <1>2, <1>3, <2>2
    <3>3. s = t
      BY <1>0, <3>1, <3>2 DEF RegionsOK
    <3>4. p \in Int /\ q \in Int
      BY <3>1, <3>2 DEF Covered
    <3> QED
      BY <2>2, <3>1, <3>2, <3>3, <3>4
  <2> QED
    BY <2>1, <2>2 DEF NoAlias
<1>4. ASSUME Defined PROVE ReachableInUse
  <2>1. DOMAIN vm.pt \subseteq vm.pm.inuse
    BY <1>0 DEF VmOK
  <2> QED
    BY <1>2, <1>4, <2>1 DEF ReachableInUse
<1> QED
  BY <1>1, <1>3, <1>4 DEF FramesOwned

(* The invariant gives that mappings lead where they should.                *)
LEMMA MappingsHoldHolds == ASSUME IInv PROVE MappingsHold
<1>0. /\ RegionsOK(vm, regions) /\ DevsOK(devs, head) /\ MapsOK(vm, call, regions, devs)
  BY DEF IInv
<1>1. RegionsContiguous
  <2> SUFFICES ASSUME Defined, NEW q \in DOMAIN regions, regions[q].hw # NULL,
                      q # call.lp \/ call.op = "idle", NEW j \in 0 .. regions[q].n - 1
               PROVE  Walk(vm, q + j) = {regions[q].hw + j}
    BY DEF RegionsContiguous
  <2>1. Maps(vm, call, q, regions[q].hw, regions[q].n)
    BY <1>0 DEF MapsOK, Defined
  <2>2. Walk(vm, q + j) = {PhysPage(regions[q].hw, j)}
    BY <2>1 DEF Maps
  <2>3. regions[q].hw \in Frames
    BY <1>0 DEF RegionsOK, RegionOK
  <2> QED
    BY <2>2, <2>3 DEF PhysPage, Frames
<1>2. DevicesMapped
  <2> SUFFICES ASSUME Defined, call.op = "idle", NEW d \in devs
               PROVE  /\ d.ptr % PageSize = 0
                      /\ \A j \in 0 .. DevPages - 1 :
                           Walk(vm, DriverBase + (d.ptr \div PageSize) + j) = {d.hw + j}
    BY DEF DevicesMapped, Running
  <2>1. d.ptr = 0 /\ d.hw \in Devices
    BY <1>0 DEF DevsOK
  <2>2. 0 % PageSize = 0 /\ 0 \div PageSize = 0
    BY VirtAssumption, ZeroDiv
  <2>3. Maps(vm, call, DriverBase, d.hw, DevPages)
    BY <1>0 DEF MapsOK, Defined
  <2>4. ~(d.hw < 0)
    <3>1. d.hw \in Nat
      BY <2>1, Numbers
    <3> QED
      BY <3>1
  <2>5. \A j \in 0 .. DevPages - 1 : Walk(vm, DriverBase + j) = {d.hw + j}
    BY <2>3, <2>4 DEF Maps, PhysPage
  <2>6. DriverBase + (d.ptr \div PageSize) = DriverBase
    BY <2>1, <2>2, PagesForm
  <2> QED
    BY <2>1, <2>2, <2>5, <2>6
<1> QED
  BY <1>1, <1>2 DEF MappingsHold

(* As the kernel uses paging today, the invariant always holds.             *)
THEOREM InvariantHolds == KernelSpec => []IInv
<1>1. Init => IInv
  BY InitEstablishes
<1>2. IInv /\ [KernelNext]_vars => IInv'
  BY StepKeeps
<1> QED
  BY <1>1, <1>2, PTL DEF KernelSpec

(* No two pages in use share a frame, none reaches a page table, and        *)
(* hwpalloc will not grant again what they reach: for any memory size,      *)
(* however much of it is asked for, and whatever the frames held that       *)
(* became page tables.                                                      *)
THEOREM FramesHaveOneUse == KernelSpec => []FramesOwned
<1>1. IInv => FramesOwned
  BY FramesOwnedHolds
<1> QED
  BY <1>1, InvariantHolds, PTL

(* Every region stays mapped to the consecutive frames mmap was granted for *)
(* it, and the device to its registers.                                     *)
THEOREM MappingsLeadThere == KernelSpec => []MappingsHold
<1>1. IInv => MappingsHold
  BY MappingsHoldHolds
<1> QED
  BY <1>1, InvariantHolds, PTL

(* Whenever the processor walks the tables, what it has cached of a page is *)
(* what the tables hold, or what an entry held before mapfr came to write   *)
(* it: nothing if StalePages is empty, that is if memory starts out clear.  *)
THEOREM CachedIsCurrent == KernelSpec => []TlbFresh
<1>1. IInv => TlbFresh
  BY DEF IInv, TlbOK, TlbFresh
<1> QED
  BY <1>1, InvariantHolds, PTL

-----------------------------------------------------------------------------

(* Every exported operation, in any order: the invariant of Spec.           *)

(* The device calls maphwdev answers stay within one page of the driver     *)
(* space, so that every device is put at its start.                         *)
DriverSpaceFits == DevPages * MaxDevices <= PageSize

(* The bitmap marks what is a page table or was granted to a region, and    *)
(* nothing else; page tables are in the managed region.                     *)
ExactOK(v, regs) ==
  /\ \A f \in v.pm.inuse : f \in DOMAIN v.pt \/ \E q \in DOMAIN regs : f \in Granted(regs[q])
  /\ DOMAIN v.pt \subseteq Frames
  /\ \A q \in DOMAIN regs : regs[q].n <= MaxRequest

(* The running call is maphwdev, for any device.                            *)
ForAnyDevice(c) == c.lp = DriverBase /\ c.hw \in Devices /\ c.n = DevPages

(* The running call maps a region or a device, or unmaps a region that is   *)
(* still in the books: its second and later pages.                          *)
AnyCallOK(c, regs) ==
  \/ c = Idle
  \/ /\ IsCall(c) /\ c.n \in Nat \ {0}
     /\ \/ c.op = "map" /\ c.i \in 0 .. c.n - 1 /\ (ForRegion(c, regs) \/ ForAnyDevice(c))
        \/ c.op = "unmap" /\ c.i \in 1 .. c.n /\ ForRegion(c, regs)

(* Page j of a region leads to its frame: unless mmap has not come to it,   *)
(* or munmap is at work, or was at work in vain on a region that never had  *)
(* frames.  The first page always does, for munmap leaves it mapped.        *)
Lasting(c, q, g, j) ==
  /\ c.op = "map" /\ c.lp = q => j < c.i
  /\ j = 0 \/ (g.hw # NULL /\ ~(c.op = "unmap" /\ c.lp = q))

(* The pages of a region that last.                                         *)
RegionMaps(v, c, q, g) ==
  \A j \in 0 .. g.n - 1 : Lasting(c, q, g, j) => Walk(v, q + j) = {PhysPage(g.hw, j)}

(* If there is one device, it is at the start of the driver space.          *)
OneDevice(v, c, ds, h) ==
  \/ ds = {} /\ h = 0 /\ c.lp # DriverBase
  \/ /\ h >= DevPages
     /\ \E d \in Devices :
          /\ ds = {[ptr |-> 0, hw |-> d]}
          /\ c.lp = DriverBase => c.hw = d
          /\ v.lost = "no" => Maps(v, c, DriverBase, d, DevPages)

(* The inductive invariant of Spec.  That hwpfree is called with what       *)
(* hwpalloc granted depends on the translation of a region's first page,    *)
(* which munmap reads, and that the bitmap stays exact on all of them.      *)
SInv ==
  /\ VmOK(vm) /\ RegionsOK(vm, regions) /\ ExactOK(vm, regions)
  /\ AnyCallOK(call, regions) /\ head \in Nat
  /\ vm.lost = "no" => \A q \in DOMAIN regions : RegionMaps(vm, call, q, regions[q])
  /\ MaxDevices <= 1 => OneDevice(vm, call, devs, head)
  /\ status \in Phy!Statuses

-----------------------------------------------------------------------------

(* Below one page, the head is in the first page of the driver space.       *)
LEMMA FirstPage ==
  ASSUME NEW h \in Nat, NEW P \in Nat \ {0}, h < P
  PROVE  h \div P = 0
<1>1. h \div P \in Nat /\ h % P \in 0 .. P - 1 /\ h = P * (h \div P) + (h % P)
  BY DivMod
<1> DEFINE q == h \div P
<1>2. q \in Nat /\ h % P \in Nat /\ P * q \in Nat
  BY <1>1
<1>3. P * q <= h
  BY <1>1, <1>2
<1> HIDE DEF q
<1>4. q >= 1 => P * q >= P
  BY <1>2
<1>5. q = 0
  BY <1>2, <1>3, <1>4
<1> QED
  BY <1>5 DEF q

(* munmap's division undoes _lpa's multiplication, below address 0 too.     *)
LEMMA DivExact ==
  ASSUME NEW f \in Int, NEW P \in Nat \ {0}
  PROVE  (f * P + (0 % 1024)) \div P = f
<1>1. 0 % 1024 = 0
  BY ZeroDiv
<1>2. f * P \in Int /\ f * P + 0 = f * P
  OBVIOUS
<1> DEFINE q == (f * P) \div P
           r == (f * P) % P
<1>3. q \in Int /\ r \in 0 .. P - 1 /\ f * P = P * q + r
  BY <1>2
<1> HIDE DEF q, r
<1>4. q = f
  <2>1. P * (f - q) = r
    BY <1>3
  <2>2. f - q >= 1 => P * (f - q) >= P
    BY <1>3
  <2>3. f - q <= -1 => P * (f - q) <= -P
    BY <1>3
  <2> QED
    BY <1>3, <2>1, <2>2, <2>3
<1> QED
  BY <1>1, <1>2, <1>4 DEF q

(* The bits of n frames from f are cleared.                                 *)
GivenBack(p, f, n) == [p EXCEPT !.inuse = p.inuse \ Covered(f, n)]

(* hwpfree of a grant: one frame is refused, as the stack never has room;   *)
(* several are given back; NULL is refused.                                 *)
LEMMA FreeOutcome ==
  ASSUME NEW p, PmOK(p), NEW n \in Nat \ {0}
  PROVE  /\ Phy!FreeStatus(p, NULL, n) = "INVALID_MEM" /\ Phy!hwpfree(p, NULL, n) = p
         /\ \A f \in Frames : f \in p.inuse /\ n = 1 =>
              Phy!FreeStatus(p, f, n) = "BORKD_MEM" /\ Phy!hwpfree(p, f, n) = p
         /\ \A f \in Frames : f \in p.inuse /\ n # 1 =>
              /\ Phy!FreeStatus(p, f, n) = "OK"
              /\ Phy!hwpfree(p, f, n) = GivenBack(p, f, n)
<1>1. NPages \in Nat \ {0} /\ p.sp < NPages
  BY VirtAssumption DEF PmOK
<1>2. Phy!FreeStatus(p, NULL, n) = "INVALID_MEM"
  BY <1>1 DEF Phy!FreeStatus, Phy!InRegion, NULL
<1>3. ASSUME NEW f \in Frames, f \in p.inuse PROVE Phy!InRegion(f) /\ Phy!PushRefused(p)
  BY <1>1 DEF Phy!InRegion, Phy!PushRefused, Frames
<1>4. ASSUME NEW f \in Frames, f \in p.inuse, n = 1 PROVE Phy!FreeStatus(p, f, n) = "BORKD_MEM"
  BY <1>3, <1>4 DEF Phy!FreeStatus
<1>5. ASSUME NEW f \in Frames, f \in p.inuse, n # 1 PROVE Phy!FreeStatus(p, f, n) = "OK"
  BY <1>3, <1>5 DEF Phy!FreeStatus
<1> QED
  BY <1>2, <1>4, <1>5 DEF Phy!hwpfree, Covered, GivenBack

-----------------------------------------------------------------------------

(* init_virtmm leaves nothing mapped and nothing in use.                    *)
LEMMA InitS == ASSUME Init PROVE SInv
<1>1. VmOK(vm) /\ RegionsOK(vm, regions) /\ status \in Phy!Statuses
  BY InitEstablishes DEF IInv
<1>2. /\ DOMAIN regions = {} /\ devs = {} /\ head = 0 /\ call = Idle /\ vm.pm.inuse = {}
      /\ vm.pt = [f \in {} |-> <<>>]
  BY DEF Init, Phy!InitPm
<1>3. ExactOK(vm, regions)
  BY <1>2 DEF ExactOK
<1>4. call.lp = 0 /\ DriverBase # 0
  BY <1>2, VirtAssumption DEF Idle, DriverBase
<1> QED
  BY <1>1, <1>2, <1>3, <1>4 DEF SInv, AnyCallOK, OneDevice

(* No heap page is the first of the driver space.                           *)
LEMMA HeapBelow == ASSUME NEW q \in HeapPages PROVE q # DriverBase /\ q \in Int
  BY PagesForm DEF HeapPages

(* mmap has mapped nothing of its region yet.                               *)
LEMMA MmapS ==
  ASSUME SInv, NEW lp \in HeapPages, NEW n \in 1 .. MaxRequest, Mmap(lp, n)
  PROVE  SInv'
<1>0. /\ VmOK(vm) /\ RegionsOK(vm, regions) /\ ExactOK(vm, regions) /\ head \in Nat
      /\ vm.lost = "no" => \A q \in DOMAIN regions : RegionMaps(vm, call, q, regions[q])
      /\ MaxDevices <= 1 => OneDevice(vm, call, devs, head)
      /\ status \in Phy!Statuses
  BY DEF SInv
<1>1. call.op = "idle" /\ head' = head /\ devs' = devs /\ status' = status
  BY DEF Mmap, Running
<1>2. PICK r \in Phy!hwpalloc(vm.pm, n) : Opened(lp, n, r)
  BY <1>0, MmapBooks
<1>3. /\ vm'.pm = r.pm /\ vm'.pde = vm.pde /\ vm'.pt = vm.pt /\ vm'.lost = vm.lost
      /\ VmOK(vm') /\ RegionsOK(vm', regions') /\ Grants(vm.pm, r, n)
  BY <1>2 DEF Opened
<1>4. /\ DOMAIN regions' = DOMAIN regions \cup {lp}
      /\ regions'[lp].hw = r.addr /\ regions'[lp].n = n
      /\ \A q \in DOMAIN regions : q # lp /\ regions'[q] = regions[q]
  BY <1>2 DEF Opened
<1>5. /\ call'.op = "map" /\ call'.lp = lp /\ call'.hw = r.addr /\ call'.i = 0 /\ call'.n = n
      /\ IsCall(call')
  BY <1>2 DEF Opened
<1>6. n \in Nat \ {0} /\ n <= MaxRequest
  BY VirtAssumption
<1>7. \A p : Walk(vm', p) = Walk(vm, p)
  BY <1>3 DEF Walk
<1>8. ExactOK(vm', regions')
  <2>1. ASSUME NEW f \in r.pm.inuse
        PROVE  f \in DOMAIN vm.pt \/ \E q \in DOMAIN regions' : f \in Granted(regions'[q])
    <3>1. CASE f \in vm.pm.inuse
      BY <1>0, <1>4, <3>1 DEF ExactOK
    <3>2. CASE f \notin vm.pm.inuse
      <4>1. r.addr \in Frames /\ f \in Covered(r.addr, n)
        BY <1>3, <3>2 DEF Grants
      <4>2. r.addr # NULL
        BY <4>1 DEF Frames, NULL
      <4> QED
        BY <1>4, <4>1, <4>2 DEF Granted
    <3> QED
      BY <3>1, <3>2
  <2>2. \A q \in DOMAIN regions' : regions'[q].n <= MaxRequest
    BY <1>0, <1>4, <1>6 DEF ExactOK
  <2> QED
    BY <1>0, <1>3, <2>1, <2>2 DEF ExactOK
<1>9. AnyCallOK(call', regions')
  <2>1. ForRegion(call', regions')
    BY <1>4, <1>5 DEF ForRegion
  <2>2. call'.n \in Nat \ {0} /\ call'.i \in 0 .. call'.n - 1
    BY <1>5, <1>6
  <2> QED
    BY <1>5, <2>1, <2>2 DEF AnyCallOK
<1>10. vm'.lost = "no" => \A q \in DOMAIN regions' : RegionMaps(vm', call', q, regions'[q])
  <2> SUFFICES ASSUME vm.lost = "no", NEW q \in DOMAIN regions' PROVE RegionMaps(vm', call', q, regions'[q])
    BY <1>3
  <2>1. CASE q = lp
    BY <1>5, <2>1 DEF RegionMaps, Lasting
  <2>2. CASE q # lp
    <3>1. q \in DOMAIN regions /\ regions'[q] = regions[q] /\ RegionMaps(vm, call, q, regions[q])
      BY <1>0, <1>4, <2>2
    <3>2. \A j : Lasting(call', q, regions[q], j) => Lasting(call, q, regions[q], j)
      BY <1>1 DEF Lasting
    <3> QED
      BY <1>7, <3>1, <3>2 DEF RegionMaps
  <2> QED
    BY <2>1, <2>2
<1>11. MaxDevices <= 1 => OneDevice(vm', call', devs', head')
  <2>1. call'.lp # DriverBase
    BY <1>5, HeapBelow
  <2>2. \A d : Maps(vm, call, DriverBase, d, DevPages) => Maps(vm', call', DriverBase, d, DevPages)
    BY <1>1, <1>7 DEF Maps
  <2> QED
    BY <1>0, <1>1, <1>3, <2>1, <2>2 DEF OneDevice
<1> QED
  BY <1>0, <1>1, <1>3, <1>8, <1>9, <1>10, <1>11 DEF SInv, Phy!Statuses

(* maphwdev puts every device at the start of the driver space.             *)
LEMMA MaphwdevS ==
  ASSUME DriverSpaceFits, SInv, NEW hw \in Devices, head < DevPages * MaxDevices, Maphwdev(hw)
  PROVE  SInv'
<1>0. /\ VmOK(vm) /\ RegionsOK(vm, regions) /\ ExactOK(vm, regions) /\ head \in Nat
      /\ vm.lost = "no" => \A q \in DOMAIN regions : RegionMaps(vm, call, q, regions[q])
      /\ MaxDevices <= 1 => OneDevice(vm, call, devs, head)
      /\ status \in Phy!Statuses
  BY DEF SInv
<1>1. call.op = "idle" /\ vm' = vm /\ regions' = regions /\ status' = status /\ head' = head + DevPages
  BY DEF Maphwdev, Running
<1>2. DevPages \in Nat \ {0} /\ MaxDevices \in Nat /\ PageSize \in Nat \ {0} /\ DevPages * MaxDevices \in Nat
  BY VirtAssumption
<1>3. head \div PageSize = 0
  <2>1. head < PageSize
    BY <1>0, <1>2 DEF DriverSpaceFits
  <2> QED
    BY <1>0, <1>2, <2>1, FirstPage
<1>4. call' = [op |-> "map", lp |-> DriverBase, hw |-> hw, i |-> 0, n |-> DevPages, ptr |-> head]
  BY <1>3, PagesForm DEF Maphwdev
<1>5. /\ call'.op = "map" /\ call'.lp = DriverBase /\ call'.hw = hw /\ call'.i = 0
      /\ call'.n = DevPages /\ IsCall(call')
  BY <1>4 DEF IsCall
<1>6. AnyCallOK(call', regions)
  <2>1. call'.n \in Nat \ {0} /\ call'.i \in 0 .. call'.n - 1 /\ ForAnyDevice(call')
    BY <1>2, <1>5 DEF ForAnyDevice
  <2> QED
    BY <1>5, <2>1 DEF AnyCallOK
<1>7. vm.lost = "no" => \A q \in DOMAIN regions : RegionMaps(vm, call', q, regions[q])
  <2> SUFFICES ASSUME vm.lost = "no", NEW q \in DOMAIN regions PROVE RegionMaps(vm, call', q, regions[q])
    OBVIOUS
  <2>1. \A j : Lasting(call', q, regions[q], j) => Lasting(call, q, regions[q], j)
    BY <1>1 DEF Lasting
  <2> QED
    BY <1>0, <2>1 DEF RegionMaps
<1>8. MaxDevices <= 1 => OneDevice(vm, call', devs', head')
  <2> SUFFICES ASSUME MaxDevices <= 1 PROVE OneDevice(vm, call', devs', head')
    OBVIOUS
  <2>1. DevPages * MaxDevices <= DevPages
    <3>1. MaxDevices = 0 \/ MaxDevices = 1
      BY <1>2
    <3> QED
      BY <1>2, <3>1
  <2>2. devs = {} /\ head = 0
    BY <1>0, <1>2, <2>1 DEF OneDevice
  <2>3. devs' = {[ptr |-> 0, hw |-> hw]} /\ head' >= DevPages
    BY <1>1, <1>2, <2>2 DEF Maphwdev
  <2>4. Maps(vm, call', DriverBase, hw, DevPages)
    BY <1>5 DEF Maps
  <2> QED
    BY <1>5, <2>3, <2>4 DEF OneDevice
<1>9. head' \in Nat
  BY <1>0, <1>1, <1>2
<1> QED
  BY <1>0, <1>1, <1>6, <1>7, <1>8, <1>9 DEF SInv, Phy!Statuses

(* The page and the frame of the next iteration, of either caller.          *)
LEMMA WhatIsMappedS ==
  ASSUME SInv, call.op = "map"
  PROVE  /\ call.n \in Nat \ {0} /\ call.i \in 0 .. call.n - 1 /\ IsCall(call)
         /\ ForRegion(call, regions) \/ ForAnyDevice(call)
         /\ call.lp \in Int /\ call.lp + call.i \in Pages
         /\ call.hw \in Int /\ PhysPage(call.hw, call.i) \in Int
         /\ call.lp # DriverBase => /\ ForRegion(call, regions)
                                    /\ Covered(call.lp, call.n) \subseteq HeapPages
<1>1. /\ call.n \in Nat \ {0} /\ call.i \in 0 .. call.n - 1 /\ IsCall(call)
      /\ ForRegion(call, regions) \/ ForAnyDevice(call)
  BY DEF SInv, AnyCallOK, Idle
<1>2. RegionsOK(vm, regions)
  BY DEF SInv
<1>3. /\ call.lp \in Int /\ call.lp + call.i \in Pages /\ call.hw \in Int
      /\ ForRegion(call, regions) => Covered(call.lp, call.n) \subseteq HeapPages
  <2>1. CASE ForRegion(call, regions)
    <3>1. /\ call.lp \in HeapPages /\ call.hw \in Frames \cup {NULL}
          /\ Covered(call.lp, call.n) \subseteq HeapPages
      BY <1>2, <2>1 DEF ForRegion, RegionsOK, RegionOK
    <3>2. call.lp \in Int /\ call.hw \in Int
      BY <3>1, Numbers
    <3>3. call.lp + call.i \in Covered(call.lp, call.n)
      BY <1>1, <3>2 DEF Covered
    <3> QED
      BY <3>1, <3>2, <3>3, PagesForm
  <2>2. CASE ~ForRegion(call, regions)
    <3>1. call.lp = DriverBase /\ call.n = DevPages /\ call.hw \in Int
      BY <1>1, <2>2, Numbers DEF ForAnyDevice
    <3> QED
      BY <1>1, <2>2, <3>1, PagesForm
  <2> QED
    BY <2>1, <2>2
<1>4. PhysPage(call.hw, call.i) \in Int
  BY <1>1, <1>3 DEF PhysPage
<1>5. call.lp # DriverBase => ForRegion(call, regions)
  BY <1>1 DEF ForAnyDevice
<1> QED
  BY <1>1, <1>3, <1>4, <1>5

(* The device's pages are pages, and not of the heap.                       *)
LEMMA DevicePage ==
  ASSUME NEW j \in 0 .. DevPages - 1
  PROVE  DriverBase \in Int /\ DevPages \in Nat /\ DriverBase + j \in Pages /\ DriverBase + j \notin HeapPages
  BY PagesForm, VirtAssumption

(* One iteration of the loop around mapfr.                                  *)
LEMMA MapStepS == ASSUME SInv, MapStep PROVE SInv'
<1> DEFINE lp == call.lp + call.i
           hw == PhysPage(call.hw, call.i)
<1>0. /\ VmOK(vm) /\ RegionsOK(vm, regions) /\ ExactOK(vm, regions) /\ head \in Nat
      /\ vm.lost = "no" => \A q \in DOMAIN regions : RegionMaps(vm, call, q, regions[q])
      /\ MaxDevices <= 1 => OneDevice(vm, call, devs, head)
      /\ status \in Phy!Statuses
  BY DEF SInv
<1>1. /\ call.op = "map" /\ vm.lost = "no" /\ vm' = SetPte(vm, lp, {hw})
      /\ vm.pde[Table(lp)] # {}
  BY DEF MapStep, Running, Defined
<1>2. head' = head /\ regions' = regions /\ devs' = devs /\ status' = status
  BY DEF MapStep
<1>3. /\ call.n \in Nat \ {0} /\ call.i \in 0 .. call.n - 1 /\ IsCall(call)
      /\ ForRegion(call, regions) \/ ForAnyDevice(call)
      /\ call.lp \in Int /\ lp \in Pages /\ call.hw \in Int /\ hw \in Int
      /\ call.lp # DriverBase => ForRegion(call, regions) /\ Covered(call.lp, call.n) \subseteq HeapPages
  BY <1>1, WhatIsMappedS
<1>4. IsMapped(vm, vm', hw, lp)
  <2> HIDE DEF lp, hw
  <2> QED
    BY <1>0, <1>1, <1>3, mapfrOutcome
<1>5. Advances
  BY <1>3, CallAdvances
<1>6. VmOK(vm') /\ vm'.pm = vm.pm /\ DOMAIN vm'.pt = DOMAIN vm.pt /\ vm'.lost = vm.lost
  BY <1>4 DEF IsMapped
<1>7. RegionsOK(vm', regions)
  BY <1>0, <1>6, RegionsSurvive
<1>8. ExactOK(vm', regions)
  BY <1>0, <1>6 DEF ExactOK
<1>9. AnyCallOK(call', regions)
  <2>1. CASE call' = Idle
    BY <2>1 DEF AnyCallOK
  <2>2. CASE call' # Idle
    <3>1. /\ call.i + 1 # call.n /\ call'.op = "map" /\ call'.lp = call.lp /\ call'.hw = call.hw
          /\ call'.i = call.i + 1 /\ call'.n = call.n /\ IsCall(call')
      BY <1>5, <2>2 DEF Advances
    <3>2. call'.n \in Nat \ {0} /\ call'.i \in 0 .. call'.n - 1
      BY <1>3, <3>1
    <3>3. ForRegion(call', regions) \/ ForAnyDevice(call')
      BY <1>3, <3>1 DEF ForRegion, ForAnyDevice
    <3> QED
      BY <3>1, <3>2, <3>3 DEF AnyCallOK
  <2> QED
    BY <2>1, <2>2
<1>10. ASSUME vm'.lost = "no", NEW q \in DOMAIN regions PROVE RegionMaps(vm', call', q, regions[q])
  <2>1. RegionOK(vm, q, regions[q]) /\ q \in HeapPages /\ RegionMaps(vm, call, q, regions[q])
    BY <1>0, <1>1 DEF RegionsOK
  <2>2. /\ q \in Int /\ regions[q].hw \in Int /\ regions[q].n \in Nat /\ q # DriverBase
        /\ Covered(q, regions[q].n) \subseteq HeapPages
    BY <2>1, Numbers, HeapBelow DEF RegionOK
  <2> SUFFICES ASSUME NEW j \in 0 .. regions[q].n - 1, Lasting(call', q, regions[q], j)
               PROVE  Walk(vm', q + j) = {PhysPage(regions[q].hw, j)}
    BY DEF RegionMaps
  <2>3. q + j \in Covered(q, regions[q].n) /\ q + j \in HeapPages /\ q + j \in Pages
    BY <2>2, PagesForm DEF Covered
  <2>4. (call.lp = q => j < call.i) => Walk(vm, q + j) = {PhysPage(regions[q].hw, j)}
    BY <1>1, <2>1 DEF RegionMaps, Lasting
  <2>5. call'.op = "map" /\ call'.lp = q => j < call'.i
    BY DEF Lasting
  <2>6. call.lp = q => call.hw = regions[q].hw /\ call.n = regions[q].n
    BY <1>3, <2>2 DEF ForRegion
  <2>7. call.lp # q => call.lp + call.i # q + j
    <3>1. CASE call.lp = DriverBase
      <4>1. ~ForRegion(call, regions)
        BY <1>0, <3>1, HeapBelow DEF ForRegion, RegionsOK
      <4>2. call.n = DevPages
        BY <1>3, <4>1 DEF ForAnyDevice
      <4> QED
        BY <1>3, <2>3, <3>1, <4>2, DevicePage
    <3>2. CASE call.lp # DriverBase
      <4>1. call.lp + call.i \in Covered(call.lp, regions[call.lp].n)
        BY <1>3, <3>2 DEF ForRegion, Covered
      <4> QED
        BY <1>0, <1>3, <2>3, <3>2, <4>1 DEF ForRegion, RegionsOK
    <3> QED
      BY <3>1, <3>2
  <2>8. Iterates
    BY <1>1, <1>3, <1>4, <1>5, <1>10 DEF Iterates
  <2>9. Due(q, regions[q].hw, regions[q].n, j)
    BY <2>2, <2>3, <2>4, <2>5, <2>6, <2>7 DEF Due
  <2> QED
    BY <2>8, <2>9, PageAdvances
<1>11. MaxDevices <= 1 => OneDevice(vm', call', devs, head)
  <2> SUFFICES ASSUME MaxDevices <= 1 PROVE OneDevice(vm', call', devs, head)
    OBVIOUS
  <2>1. call'.lp = DriverBase => call.lp = DriverBase /\ call'.hw = call.hw
    <3>1. Idle.lp # DriverBase
      BY VirtAssumption DEF Idle, DriverBase
    <3> QED
      BY <1>5, <3>1 DEF Advances
  <2>2. CASE devs = {} /\ head = 0 /\ call.lp # DriverBase
    BY <2>1, <2>2 DEF OneDevice
  <2>3. ASSUME head >= DevPages, NEW d \in Devices, devs = {[ptr |-> 0, hw |-> d]},
               call.lp = DriverBase => call.hw = d, Maps(vm, call, DriverBase, d, DevPages)
        PROVE  OneDevice(vm', call', devs, head)
    <3>1. ASSUME vm'.lost = "no", NEW j \in 0 .. DevPages - 1,
                 call'.op = "map" /\ call'.lp = DriverBase => j < call'.i
          PROVE  Walk(vm', DriverBase + j) = {PhysPage(d, j)}
      <4>1. DriverBase \in Int /\ DevPages \in Nat /\ DriverBase + j \in Pages /\ DriverBase + j \notin HeapPages
        BY DevicePage
      <4>2. d \in Int
        BY Numbers
      <4>3. (call.lp = DriverBase => j < call.i) => Walk(vm, DriverBase + j) = {PhysPage(d, j)}
        BY <2>3 DEF Maps
      <4>4. call.lp = DriverBase => call.hw = d /\ call.n = DevPages
        <5>1. call.lp = DriverBase => ~ForRegion(call, regions)
          BY <1>0, HeapBelow DEF ForRegion, RegionsOK
        <5> QED
          BY <1>3, <2>3, <5>1 DEF ForAnyDevice
      <4>5. call.lp # DriverBase => call.lp + call.i # DriverBase + j
        <5>1. call.lp + call.i \in Covered(call.lp, call.n)
          BY <1>3 DEF Covered
        <5> QED
          BY <1>3, <4>1, <5>1
      <4>6. Iterates
        BY <1>1, <1>3, <1>4, <1>5, <3>1 DEF Iterates
      <4>7. Due(DriverBase, d, DevPages, j)
        BY <3>1, <4>1, <4>2, <4>3, <4>4, <4>5 DEF Due
      <4> QED
        BY <4>6, <4>7, PageAdvances
    <3>2. vm'.lost = "no" => Maps(vm', call', DriverBase, d, DevPages)
      BY <3>1 DEF Maps
    <3> QED
      BY <2>1, <2>3, <3>2 DEF OneDevice
  <2>4. OneDevice(vm, call, devs, head)
    BY <1>0
  <2> QED
    BY <1>1, <2>2, <2>3, <2>4 DEF OneDevice
<1> QED
  BY <1>0, <1>2, <1>6, <1>7, <1>8, <1>9, <1>10, <1>11 DEF SInv, Phy!Statuses

(* A missing page table is installed.                                       *)
LEMMA NewTableS == ASSUME SInv, NewTable PROVE SInv'
<1> DEFINE t == Table(call.lp + call.i)
<1>0. /\ VmOK(vm) /\ RegionsOK(vm, regions) /\ ExactOK(vm, regions) /\ head \in Nat
      /\ AnyCallOK(call, regions)
      /\ vm.lost = "no" => \A q \in DOMAIN regions : RegionMaps(vm, call, q, regions[q])
      /\ MaxDevices <= 1 => OneDevice(vm, call, devs, head)
      /\ status \in Phy!Statuses
  BY DEF SInv
<1>1. call.op = "map" /\ vm.lost = "no" /\ vm.pde[t] = {} /\ vm' \in WithTable(vm, t)
  BY DEF NewTable, Running, Defined, TableMissing
<1>2. head' = head /\ call' = call /\ regions' = regions /\ devs' = devs /\ status' = status
  BY DEF NewTable
<1>3. t \in Tables
  BY <1>1, WhatIsMappedS, WhereIs
<1> HIDE DEF t
<1>4. Tabled(vm, vm', t)
  BY <1>0, <1>1, <1>3, WithTableOutcome
<1>5. /\ VmOK(vm') /\ vm.pm.inuse \subseteq vm'.pm.inuse /\ DOMAIN vm.pt \subseteq DOMAIN vm'.pt
      /\ \A f \in DOMAIN vm'.pt : f \in DOMAIN vm.pt \/ (f \notin vm.pm.inuse /\ f \in Frames)
      /\ vm'.pm.inuse \subseteq vm.pm.inuse \cup DOMAIN vm'.pt
  BY <1>4, Zenon DEF Tabled
<1>6. \A p \in Pages : Walk(vm, p) # {} => Walk(vm', p) = Walk(vm, p)
  BY <1>4 DEF Tabled
<1>7. RegionsOK(vm', regions)
  BY <1>0, <1>5, RegionsSurvive
<1>8. ExactOK(vm', regions)
  <2>1. \A f \in vm'.pm.inuse : f \in DOMAIN vm'.pt \/ \E q \in DOMAIN regions : f \in Granted(regions[q])
    BY <1>0, <1>5 DEF ExactOK
  <2>2. DOMAIN vm'.pt \subseteq Frames
    BY <1>0, <1>5 DEF ExactOK
  <2> QED
    BY <1>0, <2>1, <2>2 DEF ExactOK
<1>9. ASSUME NEW q \in DOMAIN regions PROVE RegionMaps(vm', call, q, regions[q])
  <2>1. RegionMaps(vm, call, q, regions[q])
    BY <1>0, <1>1
  <2>2. q \in HeapPages /\ regions[q].n \in Nat /\ Covered(q, regions[q].n) \subseteq HeapPages
    BY <1>0 DEF RegionsOK, RegionOK
  <2>3. \A j \in 0 .. regions[q].n - 1 : q + j \in Pages
    BY <2>2, Numbers, PagesForm DEF Covered
  <2> QED
    BY <1>6, <2>1, <2>3 DEF RegionMaps
<1>10. MaxDevices <= 1 => OneDevice(vm', call, devs, head)
  <2>1. ASSUME NEW d, Maps(vm, call, DriverBase, d, DevPages)
        PROVE  Maps(vm', call, DriverBase, d, DevPages)
    <3>1. \A j \in 0 .. DevPages - 1 : DriverBase + j \in Pages
      BY DevicePage
    <3> QED
      BY <1>6, <2>1, <3>1 DEF Maps
  <2> QED
    BY <1>0, <1>1, <2>1 DEF OneDevice
<1> QED
  BY <1>0, <1>2, <1>5, <1>7, <1>8, <1>9, <1>10 DEF SInv, Phy!Statuses

(* munmap finds the frames that mmap was granted: the region's first page   *)
(* is mapped, whatever was done to the others.                              *)
LEMMA MunmapFinds ==
  ASSUME SInv, NEW lp, Munmap(lp)
  PROVE  /\ lp \in DOMAIN regions /\ lp \in HeapPages /\ call.op = "idle" /\ vm.lost = "no"
         /\ call' = [op |-> "unmap", lp |-> lp, hw |-> regions[lp].hw, i |-> 1, n |-> regions[lp].n, ptr |-> 0]
<1>1. lp \in DOMAIN regions /\ call.op = "idle" /\ vm.lost = "no"
  BY DEF Munmap, Running, Defined
<1>2. RegionsOK(vm, regions) /\ RegionMaps(vm, call, lp, regions[lp])
  BY <1>1 DEF SInv
<1>3. lp \in HeapPages /\ lp \in Int /\ regions[lp].hw \in Int /\ regions[lp].n \in Nat \ {0}
  BY <1>1, <1>2, Numbers DEF RegionsOK, RegionOK
<1>4. Lasting(call, lp, regions[lp], 0) /\ 0 \in 0 .. regions[lp].n - 1
  BY <1>1, <1>3 DEF Lasting
<1>5. lp + 0 = lp /\ PhysPage(regions[lp].hw, 0) = regions[lp].hw
  BY <1>3 DEF PhysPage
<1>6. Walk(vm, lp) = {regions[lp].hw}
  BY <1>2, <1>4, <1>5 DEF RegionMaps
<1>7. PICK a \in lpa(vm, lp, 0) :
        call' = [op |-> "unmap", lp |-> lp, hw |-> a \div PageSize, i |-> 1, n |-> regions[lp].n, ptr |-> 0]
  BY DEF Munmap
<1>8. a = regions[lp].hw * PageSize + (0 % 1024)
  BY <1>6, <1>7 DEF lpa
<1>9. a \div PageSize = regions[lp].hw
  BY <1>3, <1>8, DivExact, VirtAssumption
<1> QED
  BY <1>1, <1>3, <1>7, <1>9

(* munmap starts.                                                           *)
LEMMA MunmapS == ASSUME SInv, NEW lp, Munmap(lp) PROVE SInv'
<1>0. /\ VmOK(vm) /\ RegionsOK(vm, regions) /\ ExactOK(vm, regions) /\ head \in Nat
      /\ vm.lost = "no" => \A q \in DOMAIN regions : RegionMaps(vm, call, q, regions[q])
      /\ MaxDevices <= 1 => OneDevice(vm, call, devs, head)
      /\ status \in Phy!Statuses
  BY DEF SInv
<1>1. vm' = vm /\ head' = head /\ regions' = regions /\ devs' = devs /\ status' = status
  BY DEF Munmap
<1>2. /\ lp \in DOMAIN regions /\ lp \in HeapPages /\ call.op = "idle" /\ vm.lost = "no"
      /\ call' = [op |-> "unmap", lp |-> lp, hw |-> regions[lp].hw, i |-> 1, n |-> regions[lp].n, ptr |-> 0]
  BY MunmapFinds
<1>3. /\ call'.op = "unmap" /\ call'.lp = lp /\ call'.hw = regions[lp].hw /\ call'.i = 1
      /\ call'.n = regions[lp].n /\ IsCall(call')
  BY <1>2 DEF IsCall
<1>4. regions[lp].n \in Nat \ {0}
  BY <1>0, <1>2 DEF RegionsOK, RegionOK
<1>5. AnyCallOK(call', regions)
  <2>1. ForRegion(call', regions) /\ call'.n \in Nat \ {0} /\ call'.i \in 1 .. call'.n
    BY <1>2, <1>3, <1>4 DEF ForRegion
  <2> QED
    BY <1>3, <2>1 DEF AnyCallOK
<1>6. ASSUME NEW q \in DOMAIN regions PROVE RegionMaps(vm, call', q, regions[q])
  <2>1. \A j : Lasting(call', q, regions[q], j) => Lasting(call, q, regions[q], j)
    BY <1>2 DEF Lasting
  <2> QED
    BY <1>0, <1>2, <2>1 DEF RegionMaps
<1>7. MaxDevices <= 1 => OneDevice(vm, call', devs, head)
  <2>1. call'.lp # DriverBase
    BY <1>2, <1>3, HeapBelow
  <2>2. \A d : Maps(vm, call, DriverBase, d, DevPages) => Maps(vm, call', DriverBase, d, DevPages)
    BY <1>2 DEF Maps
  <2> QED
    BY <1>0, <2>1, <2>2 DEF OneDevice
<1> QED
  BY <1>0, <1>1, <1>5, <1>6, <1>7 DEF SInv, Phy!Statuses

(* The running munmap.                                                      *)
LEMMA WhatIsUnmapped ==
  ASSUME SInv, call.op = "unmap"
  PROVE  /\ IsCall(call) /\ call.n \in Nat \ {0} /\ call.i \in 1 .. call.n /\ ForRegion(call, regions)
         /\ call.lp \in DOMAIN regions /\ call.lp \in HeapPages /\ call.lp \in Int
         /\ call.hw \in Frames \cup {NULL} /\ call.n <= MaxRequest
         /\ Covered(call.lp, call.n) \subseteq HeapPages
<1>1. /\ IsCall(call) /\ call.n \in Nat \ {0} /\ call.i \in 1 .. call.n /\ ForRegion(call, regions)
  BY DEF SInv, AnyCallOK, Idle
<1>2. RegionsOK(vm, regions) /\ ExactOK(vm, regions)
  BY DEF SInv
<1>3. RegionOK(vm, call.lp, regions[call.lp]) /\ call.lp \in HeapPages
  BY <1>1, <1>2 DEF RegionsOK, ForRegion
<1> QED
  BY <1>1, <1>2, <1>3, Numbers DEF ForRegion, RegionOK, ExactOK

(* What clearing the entry of page lp changes.                              *)
IsCleared(v, w, lp) ==
  /\ VmOK(w) /\ w.pm = v.pm /\ w.pde = v.pde /\ DOMAIN w.pt = DOMAIN v.pt /\ w.lost = v.lost
  /\ \A p \in Pages : p # lp => Walk(w, p) = Walk(v, p)

(* umapfr clears one entry.                                                 *)
LEMMA umapfrOutcome ==
  ASSUME NEW v, VmOK(v), NEW lp \in Pages
  PROVE  IsCleared(v, umapfr(v, lp), lp)
<1>1. CASE v.pde[Table(lp)] = {}
  BY <1>1 DEF umapfr, IsCleared
<1>2. CASE v.pde[Table(lp)] # {}
  <2> DEFINE e == {}
             w == SetPte(v, lp, e)
  <2>1. e \in SUBSET Int /\ IsEntry(e) /\ umapfr(v, lp) = w
    BY <1>2 DEF IsEntry, umapfr
  <2>2. w = SetPte(v, lp, e)
    OBVIOUS
  <2> HIDE DEF e, w
  <2>3. /\ VmOK(w) /\ w.pm = v.pm /\ w.pde = v.pde /\ DOMAIN w.pt = DOMAIN v.pt /\ w.lost = v.lost
        /\ \A p \in Pages : p # lp => Walk(w, p) = Walk(v, p)
    BY <2>1, <2>2, SetPteOutcome
  <2> QED
    BY <2>1, <2>3 DEF IsCleared
<1> QED
  BY <1>1, <1>2

(* One iteration of the loop in munmap, which skips the first page.         *)
LEMMA UnmapStepS == ASSUME SInv, UnmapStep PROVE SInv'
<1> DEFINE lp == call.lp + call.i
<1>0. /\ VmOK(vm) /\ RegionsOK(vm, regions) /\ ExactOK(vm, regions) /\ head \in Nat
      /\ vm.lost = "no" => \A q \in DOMAIN regions : RegionMaps(vm, call, q, regions[q])
      /\ MaxDevices <= 1 => OneDevice(vm, call, devs, head)
      /\ status \in Phy!Statuses
  BY DEF SInv
<1>1. /\ call.op = "unmap" /\ vm.lost = "no" /\ call.i < call.n /\ vm' = umapfr(vm, lp)
      /\ call' = [call EXCEPT !.i = call.i + 1]
      /\ head' = head /\ regions' = regions /\ devs' = devs /\ status' = status
  BY DEF UnmapStep, Running, Defined
<1>2. /\ IsCall(call) /\ call.n \in Nat \ {0} /\ call.i \in 1 .. call.n /\ ForRegion(call, regions)
      /\ call.lp \in DOMAIN regions /\ call.lp \in HeapPages /\ call.lp \in Int
      /\ Covered(call.lp, call.n) \subseteq HeapPages
  BY <1>1, WhatIsUnmapped
<1>3. lp \in Covered(call.lp, call.n) /\ lp \in HeapPages /\ lp \in Pages
  <2>1. lp \in Covered(call.lp, call.n)
    BY <1>1, <1>2 DEF Covered
  <2> QED
    BY <1>2, <2>1, PagesForm
<1>4. IsCleared(vm, vm', lp)
  <2> HIDE DEF lp
  <2> QED
    BY <1>0, <1>1, <1>3, umapfrOutcome
<1>5. /\ VmOK(vm') /\ vm'.pm = vm.pm /\ DOMAIN vm'.pt = DOMAIN vm.pt /\ vm'.lost = vm.lost
      /\ \A p \in Pages : p # lp => Walk(vm', p) = Walk(vm, p)
  BY <1>4 DEF IsCleared
<1>6. /\ call'.op = "unmap" /\ call'.lp = call.lp /\ call'.hw = call.hw /\ call'.i = call.i + 1
      /\ call'.n = call.n /\ IsCall(call')
  <2>1. call' = [op |-> call.op, lp |-> call.lp, hw |-> call.hw, i |-> call.i + 1,
                 n |-> call.n, ptr |-> call.ptr]
    BY <1>1, <1>2 DEF IsCall
  <2> QED
    BY <1>1, <2>1 DEF IsCall
<1>7. AnyCallOK(call', regions)
  <2>1. ForRegion(call', regions) /\ call'.n \in Nat \ {0} /\ call'.i \in 1 .. call'.n
    BY <1>1, <1>2, <1>6 DEF ForRegion
  <2> QED
    BY <1>6, <2>1 DEF AnyCallOK
<1>8. RegionsOK(vm', regions)
  BY <1>0, <1>5, RegionsSurvive
<1>9. ExactOK(vm', regions)
  BY <1>0, <1>5 DEF ExactOK
<1>10. ASSUME NEW q \in DOMAIN regions PROVE RegionMaps(vm', call', q, regions[q])
  <2>1. RegionOK(vm, q, regions[q]) /\ q \in HeapPages /\ RegionMaps(vm, call, q, regions[q])
    BY <1>0, <1>1 DEF RegionsOK
  <2>2. q \in Int /\ regions[q].n \in Nat /\ Covered(q, regions[q].n) \subseteq HeapPages
    BY <2>1, Numbers DEF RegionOK
  <2> SUFFICES ASSUME NEW j \in 0 .. regions[q].n - 1, Lasting(call', q, regions[q], j)
               PROVE  Walk(vm', q + j) = {PhysPage(regions[q].hw, j)}
    BY DEF RegionMaps
  <2>3. q + j \in Covered(q, regions[q].n) /\ q + j \in HeapPages /\ q + j \in Pages
    BY <2>2, PagesForm DEF Covered
  <2>4. Lasting(call, q, regions[q], j)
    BY <1>1, <1>6 DEF Lasting
  <2>5. q + j # lp
    <3>1. CASE q = call.lp
      <4>1. j = 0
        BY <1>6, <3>1 DEF Lasting
      <4> QED
        BY <1>2, <3>1, <4>1
    <3>2. CASE q # call.lp
      <4>1. lp \in Covered(call.lp, regions[call.lp].n)
        BY <1>2, <1>3 DEF ForRegion
      <4> QED
        BY <1>0, <1>2, <2>3, <3>2, <4>1 DEF RegionsOK
    <3> QED
      BY <3>1, <3>2
  <2> QED
    BY <1>5, <2>1, <2>3, <2>4, <2>5 DEF RegionMaps
<1>11. MaxDevices <= 1 => OneDevice(vm', call', devs, head)
  <2>1. call'.lp # DriverBase
    BY <1>2, <1>6, HeapBelow
  <2>2. ASSUME NEW d, Maps(vm, call, DriverBase, d, DevPages) PROVE Maps(vm', call', DriverBase, d, DevPages)
    <3> SUFFICES ASSUME NEW j \in 0 .. DevPages - 1 PROVE Walk(vm', DriverBase + j) = {PhysPage(d, j)}
      BY DEF Maps
    <3>1. DriverBase + j \in Pages /\ DriverBase + j # lp
      BY <1>3, DevicePage
    <3> QED
      BY <1>1, <1>5, <2>2, <3>1 DEF Maps
  <2> QED
    BY <1>0, <1>5, <2>1, <2>2 DEF OneDevice
<1> QED
  BY <1>0, <1>1, <1>5, <1>7, <1>8, <1>9, <1>10, <1>11 DEF SInv, Phy!Statuses

(* munmap is refused, for a single frame or for none at all, and nothing    *)
(* has changed.                                                             *)
Refused ==
  /\ call.hw = NULL \/ call.n = 1
  /\ vm' = vm /\ regions' = regions /\ status' \in {"INVALID_MEM", "BORKD_MEM"}

(* munmap gives the frames back.                                            *)
Freed ==
  /\ call.hw \in Frames /\ call.n # 1 /\ status' = "OK"
  /\ vm' = [vm EXCEPT !.pm = GivenBack(vm.pm, call.hw, call.n)]
  /\ regions' = [q \in DOMAIN regions \ {call.lp} |-> regions[q]]

(* munmap ends in one of these two ways.                                    *)
LEMMA MunmapFreeOutcome == ASSUME SInv, MunmapFree PROVE Refused \/ Freed
<1>0. VmOK(vm) /\ RegionsOK(vm, regions)
  BY DEF SInv
<1>1. /\ call.op = "unmap"
      /\ vm' = [vm EXCEPT !.pm = Phy!hwpfree(vm.pm, call.hw, call.n)]
      /\ status' = Phy!FreeStatus(vm.pm, call.hw, call.n)
      /\ regions' = IF status' = "OK" THEN [q \in DOMAIN regions \ {call.lp} |-> regions[q]] ELSE regions
  <2>1. call.op = "unmap"
    BY DEF MunmapFree, Running
  <2>2. U16(call.n) = call.n
    BY <2>1, WhatIsUnmapped, U16Fits, VirtAssumption
  <2> QED
    BY <2>1, <2>2 DEF MunmapFree
<1>2. /\ call.n \in Nat \ {0} /\ ForRegion(call, regions) /\ call.lp \in DOMAIN regions
      /\ call.hw \in Frames \cup {NULL}
  BY <1>1, WhatIsUnmapped
<1>3. PmOK(vm.pm) /\ [vm EXCEPT !.pm = vm.pm] = vm
  BY <1>0 DEF VmOK, IsVm
<1>4. CASE call.hw = NULL
  <2>1. Phy!FreeStatus(vm.pm, call.hw, call.n) = "INVALID_MEM" /\ Phy!hwpfree(vm.pm, call.hw, call.n) = vm.pm
    BY <1>2, <1>3, <1>4, FreeOutcome
  <2> QED
    BY <1>1, <1>3, <1>4, <2>1 DEF Refused
<1>5. CASE call.hw # NULL
  <2>1. call.hw \in Frames /\ call.hw \in vm.pm.inuse
    <3>1. call.hw \in Covered(call.hw, call.n)
      BY <1>2, <1>5 DEF Covered, Frames
    <3>2. Covered(call.hw, call.n) \subseteq vm.pm.inuse
      BY <1>0, <1>2, <1>5 DEF RegionsOK, RegionOK, ForRegion, Granted
    <3> QED
      BY <1>2, <1>5, <3>1, <3>2
  <2>2. CASE call.n = 1
    <3>1. Phy!FreeStatus(vm.pm, call.hw, call.n) = "BORKD_MEM" /\ Phy!hwpfree(vm.pm, call.hw, call.n) = vm.pm
      BY <1>2, <1>3, <2>1, <2>2, FreeOutcome
    <3> QED
      BY <1>1, <1>3, <2>2, <3>1 DEF Refused
  <2>3. CASE call.n # 1
    <3>1. /\ Phy!FreeStatus(vm.pm, call.hw, call.n) = "OK"
          /\ Phy!hwpfree(vm.pm, call.hw, call.n) = GivenBack(vm.pm, call.hw, call.n)
      BY <1>2, <1>3, <2>1, <2>3, FreeOutcome
    <3> QED
      BY <1>1, <2>1, <2>3, <3>1 DEF Freed
  <2> QED
    BY <2>2, <2>3
<1> QED
  BY <1>4, <1>5

(* A refused munmap leaves the region as it was: either it has one page, or *)
(* it never had frames.                                                     *)
LEMMA RefusedS == ASSUME SInv, MunmapFree, Refused PROVE SInv'
<1>0. /\ VmOK(vm) /\ RegionsOK(vm, regions) /\ ExactOK(vm, regions) /\ head \in Nat
      /\ vm.lost = "no" => \A q \in DOMAIN regions : RegionMaps(vm, call, q, regions[q])
      /\ MaxDevices <= 1 => OneDevice(vm, call, devs, head)
  BY DEF SInv
<1>1. call.op = "unmap" /\ vm.lost = "no" /\ call' = Idle /\ head' = head /\ devs' = devs
  BY DEF MunmapFree, Running, Defined
<1>2. vm' = vm /\ regions' = regions /\ status' \in Phy!Statuses /\ (call.hw = NULL \/ call.n = 1)
  BY DEF Refused, Phy!Statuses
<1>3. ForRegion(call, regions) /\ call.lp \in HeapPages
  BY <1>1, WhatIsUnmapped
<1>4. Idle.op = "idle" /\ Idle.lp # DriverBase
  BY VirtAssumption DEF Idle, DriverBase
<1>5. ASSUME NEW q \in DOMAIN regions PROVE RegionMaps(vm, Idle, q, regions[q])
  <2> SUFFICES ASSUME NEW j \in 0 .. regions[q].n - 1, Lasting(Idle, q, regions[q], j)
               PROVE  Walk(vm, q + j) = {PhysPage(regions[q].hw, j)}
    BY DEF RegionMaps
  <2>1. Lasting(call, q, regions[q], j)
    <3>1. CASE call.lp = q
      <4>1. j = 0
        BY <1>2, <1>3, <3>1 DEF Lasting, ForRegion
      <4> QED
        BY <1>1, <4>1 DEF Lasting
    <3>2. CASE call.lp # q
      BY <1>1, <3>2 DEF Lasting
    <3> QED
      BY <3>1, <3>2
  <2> QED
    BY <1>0, <1>1, <2>1 DEF RegionMaps
<1>6. MaxDevices <= 1 => OneDevice(vm, Idle, devs, head)
  <2>1. \A d : Maps(vm, call, DriverBase, d, DevPages) => Maps(vm, Idle, DriverBase, d, DevPages)
    BY <1>1 DEF Maps
  <2> QED
    BY <1>0, <1>4, <2>1 DEF OneDevice
<1>7. AnyCallOK(Idle, regions)
  BY DEF AnyCallOK
<1> QED
  BY <1>0, <1>1, <1>2, <1>5, <1>6, <1>7 DEF SInv, Phy!Statuses

(* The allocator after the frames of region lp were given back.  Only the   *)
(* last region may hold bits past the end of the memory, and gives all of   *)
(* them back.                                                               *)
LEMMA BitsGivenBack ==
  ASSUME NEW v, VmOK(v), NEW regs, RegionsOK(v, regs), ExactOK(v, regs), NEW lp \in DOMAIN regs,
         NEW x, x = [v.pm EXCEPT !.inuse = v.pm.inuse \ Granted(regs[lp])]
  PROVE  PmOK(x) /\ x.inuse = v.pm.inuse \ Granted(regs[lp])
<1>0. PmOK(v.pm) /\ NPages \in Nat \ {0}
  BY VirtAssumption DEF VmOK
<1>1. /\ x \in Phy!PmType /\ x.inuse = v.pm.inuse \ Granted(regs[lp]) /\ x.sp = v.pm.sp
      /\ x.stack = v.pm.stack
  <2>1. v.pm \in Phy!PmType
    BY <1>0 DEF PmOK
  <2> DEFINE y == v.pm.inuse \ Granted(regs[lp])
  <2>2. y \in SUBSET Int
    BY <2>1 DEF Phy!PmType
  <2>3. x = [v.pm EXCEPT !.inuse = y]
    OBVIOUS
  <2> HIDE DEF y
  <2>4. x \in Phy!PmType /\ x.inuse = y /\ x.sp = v.pm.sp /\ x.stack = v.pm.stack
    BY <2>1, <2>2, <2>3 DEF Phy!PmType
  <2> QED
    BY <2>4 DEF y
<1>2. ASSUME NEW f \in x.inuse, f >= NPages PROVE NPages - 1 \in x.inuse
  <2>1. f \in v.pm.inuse /\ f \notin Granted(regs[lp]) /\ f \in Int
    BY <1>0, <1>1 DEF PmOK, Phy!PmType
  <2>2. f \notin Frames
    BY <1>0, <1>2, <2>1 DEF Frames
  <2>3. PICK q \in DOMAIN regs : f \in Granted(regs[q])
    BY <2>1, <2>2 DEF ExactOK
  <2>4. q # lp /\ RegionOK(v, q, regs[q]) /\ Granted(regs[q]) \cap Granted(regs[lp]) = {}
    BY <2>1, <2>3 DEF RegionsOK
  <2>5. regs[q].hw \in Frames /\ f \in Covered(regs[q].hw, regs[q].n) /\ regs[q].n \in Nat
    BY <2>3, <2>4 DEF RegionOK, Granted
  <2>6. NPages - 1 \in Covered(regs[q].hw, regs[q].n)
    BY <1>0, <1>2, <2>1, <2>5 DEF Covered, Frames
  <2>7. NPages - 1 \in Granted(regs[q])
    BY <2>3, <2>6 DEF Granted
  <2> QED
    BY <1>1, <2>4, <2>7 DEF RegionOK
<1> QED
  BY <1>0, <1>1, <1>2 DEF PmOK

(* Giving frames back leaves what the other regions and the tables use.     *)
LEMMA FreedS == ASSUME SInv, MunmapFree, Freed PROVE SInv'
<1>0. /\ VmOK(vm) /\ RegionsOK(vm, regions) /\ ExactOK(vm, regions) /\ head \in Nat
      /\ vm.lost = "no" => \A q \in DOMAIN regions : RegionMaps(vm, call, q, regions[q])
      /\ MaxDevices <= 1 => OneDevice(vm, call, devs, head)
  BY DEF SInv
<1>1. call.op = "unmap" /\ vm.lost = "no" /\ call' = Idle /\ head' = head /\ devs' = devs
  BY DEF MunmapFree, Running, Defined
<1>2. ForRegion(call, regions) /\ call.lp \in DOMAIN regions
  BY <1>1, WhatIsUnmapped
<1> DEFINE lp == call.lp
           G == Granted(regions[lp])
           x == [vm.pm EXCEPT !.inuse = vm.pm.inuse \ G]
<1>3. G = Covered(call.hw, call.n)
  <2>1. call.hw # NULL
    BY DEF Freed, Frames, NULL
  <2> QED
    BY <1>2, <2>1 DEF Granted, ForRegion
<1>4. /\ vm' = [vm EXCEPT !.pm = x] /\ status' \in Phy!Statuses
      /\ DOMAIN regions' = DOMAIN regions \ {lp} /\ \A q \in DOMAIN regions' : regions'[q] = regions[q]
  BY <1>3 DEF Freed, Phy!Statuses, GivenBack
<1>5. x = [vm.pm EXCEPT !.inuse = vm.pm.inuse \ G]
  OBVIOUS
<1> HIDE DEF x
<1>6. PmOK(x) /\ x.inuse = vm.pm.inuse \ G
  BY <1>0, <1>2, <1>5, BitsGivenBack
<1> HIDE DEF G
<1>7. vm'.pm = x /\ vm'.pde = vm.pde /\ vm'.pt = vm.pt /\ vm'.lost = vm.lost /\ IsVm(vm')
  <2>1. vm' = [pm |-> x, pde |-> vm.pde, pt |-> vm.pt, lost |-> vm.lost]
    BY <1>0, <1>4 DEF VmOK, IsVm
  <2> QED
    BY <2>1 DEF IsVm
<1>8. VmOK(vm')
  <2>1. DOMAIN vm.pt \subseteq x.inuse
    BY <1>0, <1>2, <1>6 DEF VmOK, RegionsOK, RegionOK, G
  <2> QED
    BY <1>0, <1>6, <1>7, <2>1 DEF VmOK
<1>9. RegionsOK(vm', regions')
  <2>1. ASSUME NEW q \in DOMAIN regions' PROVE RegionOK(vm', q, regions'[q])
    <3>1. RegionOK(vm, q, regions[q]) /\ q # lp /\ q \in DOMAIN regions
      BY <1>0, <1>4 DEF RegionsOK
    <3>2. Granted(regions[q]) \cap G = {}
      BY <1>0, <1>2, <3>1 DEF RegionsOK, G
    <3> QED
      BY <1>4, <1>6, <1>7, <3>1, <3>2 DEF RegionOK
  <2>2. DOMAIN regions' \subseteq HeapPages
    BY <1>0, <1>4 DEF RegionsOK
  <2>3. \A q, s \in DOMAIN regions' : q # s =>
          /\ Covered(q, regions'[q].n) \cap Covered(s, regions'[s].n) = {}
          /\ Granted(regions'[q]) \cap Granted(regions'[s]) = {}
    BY <1>0, <1>4 DEF RegionsOK
  <2> QED
    BY <2>1, <2>2, <2>3 DEF RegionsOK
<1>10. ExactOK(vm', regions')
  <2>1. ASSUME NEW f \in x.inuse, f \notin DOMAIN vm.pt PROVE \E q \in DOMAIN regions' : f \in Granted(regions'[q])
    <3>1. f \in vm.pm.inuse /\ f \notin G
      BY <1>6
    <3>2. PICK q \in DOMAIN regions : f \in Granted(regions[q])
      BY <1>0, <2>1, <3>1 DEF ExactOK
    <3>3. q \in DOMAIN regions'
      BY <1>4, <3>1, <3>2 DEF G
    <3> QED
      BY <1>4, <3>2, <3>3
  <2>2. \A q \in DOMAIN regions' : regions'[q].n <= MaxRequest
    BY <1>0, <1>4 DEF ExactOK
  <2> QED
    BY <1>0, <1>7, <2>1, <2>2 DEF ExactOK
<1>11. \A p : Walk(vm', p) = Walk(vm, p)
  BY <1>7 DEF Walk
<1>12. Idle.op = "idle" /\ Idle.lp # DriverBase
  BY VirtAssumption DEF Idle, DriverBase
<1>13. ASSUME NEW q \in DOMAIN regions' PROVE RegionMaps(vm', Idle, q, regions'[q])
  <2>1. regions'[q] = regions[q] /\ q # call.lp /\ q \in DOMAIN regions
    BY <1>4
  <2>2. \A j : Lasting(Idle, q, regions[q], j) => Lasting(call, q, regions[q], j)
    BY <1>1, <2>1 DEF Lasting
  <2> QED
    BY <1>0, <1>1, <1>11, <2>1, <2>2 DEF RegionMaps
<1>14. MaxDevices <= 1 => OneDevice(vm', Idle, devs, head)
  <2>1. \A d : Maps(vm, call, DriverBase, d, DevPages) => Maps(vm', Idle, DriverBase, d, DevPages)
    BY <1>1, <1>11 DEF Maps
  <2> QED
    BY <1>0, <1>7, <1>12, <2>1 DEF OneDevice
<1>15. AnyCallOK(Idle, regions')
  BY DEF AnyCallOK
<1> QED
  BY <1>0, <1>1, <1>4, <1>8, <1>9, <1>10, <1>13, <1>14, <1>15 DEF SInv, Phy!Statuses

(* Every step keeps the invariant.                                          *)
LEMMA StepS == ASSUME DriverSpaceFits, SInv, [Next]_vars PROVE SInv'
<1>1. ASSUME NEW lp \in Pages, Access(lp) \/ Evict(lp) PROVE SInv'
  <2>1. UNCHANGED <<vm, head, call, regions, devs, status>>
    BY <1>1 DEF Access, Evict
  <2> QED
    BY <2>1 DEF SInv, Phy!Statuses
<1>2. CASE MunmapFree
  BY <1>2, MunmapFreeOutcome, RefusedS, FreedS
<1>3. CASE UNCHANGED vars
  BY <1>3 DEF vars, SInv, Phy!Statuses
<1> QED
  BY <1>1, <1>2, <1>3, MmapS, MunmapS, UnmapStepS, MaphwdevS, NewTableS, MapStepS DEF Next

(* Whatever is mapped and unmapped, in any order, the books and the tables  *)
(* agree.                                                                   *)
THEOREM BooksAgree == ASSUME DriverSpaceFits PROVE Spec => []SInv
<1>1. Init => SInv
  BY InitS
<1>2. SInv /\ [Next]_vars => SInv'
  BY StepS
<1> QED
  BY <1>1, <1>2, PTL DEF Spec

(* The invariant gives that a region leads to the frames of its grant.      *)
LEMMA RegionsContiguousS == ASSUME SInv PROVE RegionsContiguous
<1> SUFFICES ASSUME Defined, NEW q \in DOMAIN regions, regions[q].hw # NULL,
                    q # call.lp \/ call.op = "idle", NEW j \in 0 .. regions[q].n - 1
             PROVE  Walk(vm, q + j) = {regions[q].hw + j}
  BY DEF RegionsContiguous
<1>1. RegionMaps(vm, call, q, regions[q]) /\ RegionsOK(vm, regions)
  BY DEF SInv, Defined
<1>2. Lasting(call, q, regions[q], j)
  BY DEF Lasting
<1>3. Walk(vm, q + j) = {PhysPage(regions[q].hw, j)} /\ regions[q].hw \in Frames
  BY <1>1, <1>2 DEF RegionMaps, RegionsOK, RegionOK
<1> QED
  BY <1>3 DEF PhysPage, Frames

(* And that a device's pointer leads to it, when there is one device.       *)
LEMMA DevicesMappedS == ASSUME SInv, MaxDevices <= 1 PROVE DevicesMapped
<1> SUFFICES ASSUME Defined, call.op = "idle", NEW d \in devs
             PROVE  /\ d.ptr % PageSize = 0
                    /\ \A j \in 0 .. DevPages - 1 :
                         Walk(vm, DriverBase + (d.ptr \div PageSize) + j) = {d.hw + j}
  BY DEF DevicesMapped, Running
<1>1. d.ptr = 0 /\ d.hw \in Devices /\ Maps(vm, call, DriverBase, d.hw, DevPages)
  BY DEF SInv, OneDevice, Defined
<1>2. 0 % PageSize = 0 /\ 0 \div PageSize = 0
  BY VirtAssumption, ZeroDiv
<1>3. ~(d.hw < 0)
  <2>1. d.hw \in Nat
    BY <1>1, Numbers
  <2> QED
    BY <2>1
<1>4. \A j \in 0 .. DevPages - 1 : Walk(vm, DriverBase + j) = {d.hw + j}
  BY <1>1, <1>3 DEF Maps, PhysPage
<1>5. DriverBase + (d.ptr \div PageSize) = DriverBase
  BY <1>1, <1>2, PagesForm
<1> QED
  BY <1>1, <1>2, <1>4, <1>5

(* Over any sequence of mmap, munmap and maphwdev, a region that is mapped  *)
(* stays mapped to the consecutive frames it was granted.                   *)
THEOREM RegionsStay == ASSUME DriverSpaceFits PROVE Spec => []RegionsContiguous
<1>1. SInv => RegionsContiguous
  BY RegionsContiguousS
<1> QED
  BY <1>1, BooksAgree, PTL

(* With one device at most, so does the device.                             *)
THEOREM MappingsStay == ASSUME DriverSpaceFits, MaxDevices <= 1 PROVE Spec => []MappingsHold
<1>1. SInv => MappingsHold
  BY RegionsContiguousS, DevicesMappedS DEF MappingsHold
<1> QED
  BY <1>1, BooksAgree, PTL

-----------------------------------------------------------------------------

(* The refinement: virt-mm.c as a client of the frame allocator.            *)

(* What a page table holds, given its entry of the directory.               *)
TableHeld(e) == IF \E f \in e : TRUE THEN [base |-> CHOOSE f \in e : TRUE, n |-> 1]
                                     ELSE [base |-> NULL, n |-> 0]

(* What a region holds, given the books.                                    *)
RegionHeld(regs, q) ==
  IF q \in DOMAIN regs /\ regs[q].hw # NULL THEN [base |-> regs[q].hw, n |-> regs[q].n]
                                            ELSE [base |-> NULL, n |-> 0]

(* What everybody holds.                                                    *)
Holdings(pde, regs) ==
  [o \in Owners |-> IF o[1] = "table" THEN TableHeld(pde[o[2]]) ELSE RegionHeld(regs, o[2])]

(* The refinement mapping is that function, before and after a step.        *)
LEMMA HoldingsForm ==
  /\ [o \in Owners |-> Held(o)] = Holdings(vm.pde, regions)
  /\ [o \in Owners |-> Held(o)]' = Holdings(vm'.pde, regions')
<1>1. [o \in Owners |-> Held(o)] = Holdings(vm.pde, regions)
  BY Zenon DEF Held, Holdings, TableHeld, RegionHeld
<1>2. [o \in Owners |-> Held(o)]' = Holdings(vm'.pde, regions')
  BY Zenon DEF Held, Holdings, TableHeld, RegionHeld
<1> QED
  BY <1>1, <1>2

(* When an owner that holds nothing calls hwpalloc, that is Alloc.          *)
LEMMA AllocStep ==
  ASSUME NEW c \in Owners, NEW n \in 1 .. MaxRequest, vm.pm.mode = "defined",
         Holdings(vm.pde, regions)[c] = Phy!NoGrant, NEW r \in Phy!hwpalloc(vm.pm, n), vm'.pm = r.pm,
         Holdings(vm'.pde, regions') = IF r.addr = NULL THEN Holdings(vm.pde, regions)
                                       ELSE [Holdings(vm.pde, regions) EXCEPT ![c] = [base |-> r.addr, n |-> n]],
         status' = status
  PROVE  Phy!Next
<1>1. Phy!Defined
  BY DEF Phy!Defined
<1>2. Phy!NULL = NULL
  BY DEF Phy!NULL, NULL
<1>3. Phy!Alloc(c, n)
  BY <1>1, <1>2, HoldingsForm DEF Phy!Alloc
<1> QED
  BY <1>3 DEF Phy!Next

(* When nothing changes for the allocator and its clients, that is a        *)
(* stuttering step.                                                         *)
LEMMA StutterStep ==
  ASSUME vm'.pm = vm.pm, Holdings(vm'.pde, regions') = Holdings(vm.pde, regions), status' = status
  PROVE  UNCHANGED Phy!vars
  BY HoldingsForm DEF Phy!vars

(* When an owner frees what it holds, that is Free.                         *)
LEMMA FreeStep ==
  ASSUME NEW c \in Owners, vm.pm.mode = "defined", NEW f, NEW n,
         Holdings(vm.pde, regions)[c] = [base |-> f, n |-> n], [base |-> f, n |-> n] # Phy!NoGrant,
         vm'.pm = Phy!hwpfree(vm.pm, f, n), status' = Phy!FreeStatus(vm.pm, f, n),
         Holdings(vm'.pde, regions') = IF status' = "OK"
                                       THEN [Holdings(vm.pde, regions) EXCEPT ![c] = Phy!NoGrant]
                                       ELSE Holdings(vm.pde, regions)
  PROVE  Phy!Next
<1>1. Phy!Defined
  BY DEF Phy!Defined
<1>2. Phy!Free(c)
  BY <1>1, HoldingsForm DEF Phy!Free
<1> QED
  BY <1>2 DEF Phy!Next

(* A call on an address outside the region is StrayFree.                    *)
LEMMA StrayStep ==
  ASSUME vm.pm.mode = "defined", NEW n \in 1 .. MaxRequest,
         vm'.pm = Phy!hwpfree(vm.pm, NULL, n), status' = Phy!FreeStatus(vm.pm, NULL, n),
         Holdings(vm'.pde, regions') = Holdings(vm.pde, regions)
  PROVE  Phy!Next
<1>1. Phy!Defined
  BY DEF Phy!Defined
<1>2. NULL \in -1 .. NPages /\ ~Phy!InRegion(NULL)
  BY VirtAssumption DEF NULL, Phy!InRegion
<1>3. Phy!StrayFree(NULL, n)
  BY <1>1, <1>2, HoldingsForm DEF Phy!StrayFree
<1> QED
  BY <1>2, <1>3 DEF Phy!Next

(* What is held is a function on the owners.                                *)
LEMMA HoldingsFunction ==
  ASSUME NEW pde, NEW regs
  PROVE  Holdings(pde, regs) = [o \in Owners |-> Holdings(pde, regs)[o]]
  BY Zenon DEF Holdings

(* A region is an owner, and what it holds is in the books.                 *)
LEMMA RegionIs ==
  ASSUME NEW pde, NEW regs, NEW lp \in HeapPages
  PROVE  <<"region", lp>> \in Owners /\ Holdings(pde, regs)[<<"region", lp>>] = RegionHeld(regs, lp)
<1> DEFINE c == <<"region", lp>>
<1>1. c \in Owners /\ c[1] = "region" /\ c[2] = lp
  BY DEF Owners
<1>2. Holdings(pde, regs)[c] = RegionHeld(regs, lp)
  BY <1>1 DEF Holdings
<1> QED
  BY <1>1, <1>2

(* Only c's holding changes, to g.                                          *)
Passes(H, K, c, g) == K = [H EXCEPT ![c] = g]

(* The other regions hold what they held.                                   *)
OthersHold(regs, new, lp) ==
  \A q \in HeapPages : q # lp => RegionHeld(new, q) = RegionHeld(regs, q)

(* One region changes hands.                                                *)
LEMMA RegionChanges ==
  ASSUME NEW pde, NEW regs, NEW new, NEW lp \in HeapPages, OthersHold(regs, new, lp)
  PROVE  /\ <<"region", lp>> \in Owners
         /\ Holdings(pde, regs)[<<"region", lp>>] = RegionHeld(regs, lp)
         /\ Passes(Holdings(pde, regs), Holdings(pde, new), <<"region", lp>>, RegionHeld(new, lp))
<1> DEFINE c == <<"region", lp>>
<1>1. c \in Owners /\ c[1] = "region" /\ c[2] = lp
  BY DEF Owners
<1>2. ASSUME NEW o \in Owners, o # c, o[1] # "table" PROVE o[2] \in HeapPages /\ o[2] # lp
  BY <1>2 DEF Owners
<1>3. \A o \in Owners : o # c => Holdings(pde, new)[o] = Holdings(pde, regs)[o]
  BY <1>2 DEF Holdings, OthersHold
<1>4. Holdings(pde, new)[c] = RegionHeld(new, lp) /\ Holdings(pde, regs)[c] = RegionHeld(regs, lp)
  BY <1>1 DEF Holdings
<1>5. /\ Holdings(pde, new) = [o \in Owners |-> Holdings(pde, new)[o]]
      /\ Holdings(pde, regs) = [o \in Owners |-> Holdings(pde, regs)[o]]
  BY HoldingsFunction
<1> HIDE DEF c
<1>6. Holdings(pde, new) = [Holdings(pde, regs) EXCEPT ![c] = RegionHeld(new, lp)]
  BY <1>1, <1>3, <1>4, <1>5
<1> QED
  BY <1>1, <1>4, <1>6 DEF c, Passes

(* One entry of the directory is filled in.                                 *)
Filled(pde, new, t, a) == pde[t] = {} /\ new = [pde EXCEPT ![t] = {a}]

(* A page table gets its frame.                                             *)
LEMMA TableChanges ==
  ASSUME NEW pde \in [Tables -> SUBSET Int], NEW regs, NEW t \in Tables, NEW a \in Int,
         NEW new, Filled(pde, new, t, a)
  PROVE  /\ <<"table", t>> \in Owners
         /\ Holdings(pde, regs)[<<"table", t>>] = [base |-> NULL, n |-> 0]
         /\ Passes(Holdings(pde, regs), Holdings(new, regs), <<"table", t>>, [base |-> a, n |-> 1])
<1> DEFINE c == <<"table", t>>
<1>1. c \in Owners /\ c[1] = "table" /\ c[2] = t
  BY DEF Owners
<1>2. ASSUME NEW o \in Owners, o # c, o[1] = "table" PROVE o[2] \in Tables /\ o[2] # t
  BY <1>2 DEF Owners
<1>3. pde[t] = {} /\ new[t] = {a} /\ \A u \in Tables : u # t => new[u] = pde[u]
  BY DEF Filled
<1>4. TableHeld({a}) = [base |-> a, n |-> 1] /\ TableHeld({}) = [base |-> NULL, n |-> 0]
  BY DEF TableHeld
<1>5. \A o \in Owners : o # c => Holdings(new, regs)[o] = Holdings(pde, regs)[o]
  BY <1>2, <1>3 DEF Holdings
<1>6. Holdings(new, regs)[c] = [base |-> a, n |-> 1] /\ Holdings(pde, regs)[c] = [base |-> NULL, n |-> 0]
  BY <1>1, <1>3, <1>4 DEF Holdings
<1>7. /\ Holdings(new, regs) = [o \in Owners |-> Holdings(new, regs)[o]]
      /\ Holdings(pde, regs) = [o \in Owners |-> Holdings(pde, regs)[o]]
  BY HoldingsFunction
<1> HIDE DEF c
<1>8. Holdings(new, regs) = [Holdings(pde, regs) EXCEPT ![c] = [base |-> a, n |-> 1]]
  BY <1>1, <1>5, <1>6, <1>7
<1> QED
  BY <1>1, <1>6, <1>8 DEF c, Passes

(* A page table that is missing holds no frame.                             *)
LEMMA NoTableYet ==
  ASSUME NEW pde, NEW regs, NEW t \in Tables, pde[t] = {}
  PROVE  /\ <<"table", t>> \in Owners
         /\ Holdings(pde, regs)[<<"table", t>>] = [base |-> NULL, n |-> 0]
<1> DEFINE c == <<"table", t>>
<1>1. c \in Owners /\ c[1] = "table" /\ c[2] = t
  BY DEF Owners
<1>2. TableHeld({}) = [base |-> NULL, n |-> 0]
  BY DEF TableHeld
<1>3. Holdings(pde, regs)[c] = [base |-> NULL, n |-> 0]
  BY <1>1, <1>2 DEF Holdings
<1> QED
  BY <1>1, <1>3

(* Before anything is mapped nobody holds a frame.                          *)
LEMMA InitRefines == ASSUME Init PROVE Phy!Init
<1>1. vm.pm = Phy!InitPm /\ status = "OK" /\ vm.pde = [t \in Tables |-> {}] /\ DOMAIN regions = {}
  BY DEF Init
<1>2. TableHeld({}) = Phy!NoGrant
  BY DEF TableHeld, Phy!NoGrant, Phy!NULL, NULL
<1>3. \A q : RegionHeld(regions, q) = Phy!NoGrant
  BY <1>1 DEF RegionHeld, Phy!NoGrant, Phy!NULL, NULL
<1>4. \A o \in Owners : o[1] = "table" => vm.pde[o[2]] = {}
  BY <1>1 DEF Owners
<1>5. Holdings(vm.pde, regions) = [o \in Owners |-> Phy!NoGrant]
  BY <1>2, <1>3, <1>4 DEF Holdings
<1> QED
  BY <1>1, <1>5, HoldingsForm DEF Phy!Init

(* mmap: the region at lp allocates.                                        *)
LEMMA MmapRefines ==
  ASSUME SInv, NEW lp \in HeapPages, NEW n \in 1 .. MaxRequest, Mmap(lp, n)
  PROVE  Phy!Next
<1>1. PICK r \in Phy!hwpalloc(vm.pm, n) : Opened(lp, n, r)
  BY MmapBooks DEF SInv
<1>2. /\ vm'.pm = r.pm /\ vm'.pde = vm.pde /\ lp \notin DOMAIN regions
      /\ DOMAIN regions' = DOMAIN regions \cup {lp} /\ regions'[lp].hw = r.addr /\ regions'[lp].n = n
      /\ \A q \in DOMAIN regions : q # lp /\ regions'[q] = regions[q]
  BY <1>1 DEF Opened
<1>3. vm.pm.mode = "defined" /\ status' = status
  BY DEF Mmap, Running, Defined
<1>4. OthersHold(regions, regions', lp)
  BY <1>2 DEF RegionHeld, OthersHold
<1>5. /\ RegionHeld(regions, lp) = Phy!NoGrant
      /\ r.addr = NULL => RegionHeld(regions', lp) = Phy!NoGrant
      /\ r.addr # NULL => RegionHeld(regions', lp) = [base |-> r.addr, n |-> n]
  BY <1>2 DEF RegionHeld, Phy!NoGrant, Phy!NULL, NULL
<1> DEFINE c == <<"region", lp>>
           H == Holdings(vm.pde, regions)
           K == Holdings(vm'.pde, regions')
<1>6. c \in Owners /\ H[c] = Phy!NoGrant /\ Passes(H, K, c, RegionHeld(regions', lp))
  BY <1>2, <1>4, <1>5, RegionChanges
<1>7. H = [o \in Owners |-> H[o]]
  BY HoldingsFunction
<1>8. K = IF r.addr = NULL THEN H ELSE [H EXCEPT ![c] = [base |-> r.addr, n |-> n]]
  <2> HIDE DEF c, H, K
  <2>1. CASE r.addr = NULL
    <3>1. K = [H EXCEPT ![c] = H[c]]
      BY <1>5, <1>6, <2>1 DEF Passes
    <3> QED
      BY <1>6, <1>7, <2>1, <3>1
  <2>2. CASE r.addr # NULL
    BY <1>5, <1>6, <2>2 DEF Passes
  <2> QED
    BY <2>1, <2>2
<1> HIDE DEF c
<1> QED
  BY <1>1, <1>2, <1>3, <1>6, <1>8, AllocStep

(* mapfr: a page table that is missing allocates its frame.                 *)
LEMMA NewTableRefines == ASSUME SInv, NewTable PROVE Phy!Next
<1> DEFINE t == Table(call.lp + call.i)
<1>1. /\ call.op = "map" /\ vm.pm.mode = "defined" /\ regions' = regions /\ status' = status
      /\ vm' \in WithTable(vm, t) /\ vm.pde[t] = {}
  BY DEF NewTable, Running, Defined, TableMissing
<1>2. t \in Tables
  BY <1>1, WhatIsMappedS, WhereIs
<1>3. IsVm(vm) /\ vm.pde \in [Tables -> SUBSET Int] /\ PmOK(vm.pm)
  BY DEF SInv, VmOK
<1> HIDE DEF t
<1>4. PICK r \in Phy!hwpalloc(vm.pm, 1), stale \in StaleTables : vm' = InstallTable(vm, r, t, stale)
  BY <1>1 DEF WithTable
<1>5. <<"table", t>> \in Owners /\ Holdings(vm.pde, regions)[<<"table", t>>] = [base |-> NULL, n |-> 0]
  BY <1>1, <1>2, NoTableYet
<1>6. Holdings(vm.pde, regions)[<<"table", t>>] = Phy!NoGrant
  BY <1>5 DEF Phy!NoGrant, Phy!NULL, NULL
<1>7. 1 \in 1 .. MaxRequest
  BY VirtAssumption
<1>8. CASE r.addr = NULL
  <2>1. vm' = [pm |-> r.pm, pde |-> vm.pde, pt |-> vm.pt, lost |-> "yes"]
    BY <1>3, <1>4, <1>8, LostForm DEF InstallTable
  <2>2. vm'.pm = r.pm /\ vm'.pde = vm.pde
    BY <2>1
  <2> DEFINE c == <<"table", t>>
  <2>3. c \in Owners /\ Holdings(vm.pde, regions)[c] = Phy!NoGrant
    BY <1>5, <1>6
  <2> HIDE DEF c
  <2>4. Holdings(vm'.pde, regions') = Holdings(vm.pde, regions)
    BY <1>1, <2>2
  <2> QED
    BY <1>1, <1>4, <1>7, <1>8, <2>2, <2>3, <2>4, AllocStep
<1>9. CASE r.addr # NULL
  <2>1. r.addr \in Int
    <3>1. Grants(vm.pm, r, 1)
      BY <1>3, <1>4, AllocGrants
    <3> QED
      BY <1>9, <3>1, Numbers DEF Grants
  <2> DEFINE d == [vm.pde EXCEPT ![t] = {r.addr}]
             k == [f \in DOMAIN vm.pt \cup {r.addr} |-> IF f = r.addr THEN stale ELSE vm.pt[f]]
  <2>2. vm' = Installed(vm, r.pm, d, k)
    BY <1>4, <1>9 DEF InstallTable, Installed
  <2>3. Filled(vm.pde, d, t, r.addr)
    BY <1>1 DEF Filled
  <2> HIDE DEF d, k
  <2>4. vm' = [pm |-> r.pm, pde |-> d, pt |-> k, lost |-> vm.lost]
    BY <1>3, <2>2, InstalledForm
  <2>5. vm'.pm = r.pm /\ vm'.pde = d
    BY <2>4
  <2>6. Passes(Holdings(vm.pde, regions), Holdings(d, regions), <<"table", t>>, [base |-> r.addr, n |-> 1])
    BY <1>2, <1>3, <2>1, <2>3, TableChanges
  <2> DEFINE c == <<"table", t>>
  <2>7. /\ c \in Owners /\ Holdings(vm.pde, regions)[c] = Phy!NoGrant
        /\ Holdings(vm'.pde, regions') = [Holdings(vm.pde, regions) EXCEPT ![c] = [base |-> r.addr, n |-> 1]]
    BY <1>1, <1>5, <1>6, <2>5, <2>6 DEF Passes
  <2> HIDE DEF c
  <2> QED
    BY <1>1, <1>4, <1>7, <1>9, <2>5, <2>7, AllocStep
<1> QED
  BY <1>8, <1>9

(* munmap's hwpfree: the region that is unmapped gives back the frames it   *)
(* was granted, or, when mmap had been granted none, NULL is refused.       *)
LEMMA MunmapFreeRefines == ASSUME SInv, MunmapFree PROVE Phy!Next
<1>1. /\ call.op = "unmap" /\ vm.pm.mode = "defined"
      /\ vm' = [vm EXCEPT !.pm = Phy!hwpfree(vm.pm, call.hw, call.n)]
      /\ status' = Phy!FreeStatus(vm.pm, call.hw, call.n)
      /\ regions' = IF status' = "OK" THEN [q \in DOMAIN regions \ {call.lp} |-> regions[q]] ELSE regions
  <2>1. call.op = "unmap" /\ vm.pm.mode = "defined"
    BY DEF MunmapFree, Running, Defined
  <2>2. U16(call.n) = call.n
    BY <2>1, WhatIsUnmapped, U16Fits, VirtAssumption
  <2> QED
    BY <2>1, <2>2 DEF MunmapFree
<1>2. /\ call.n \in 1 .. MaxRequest /\ call.lp \in DOMAIN regions /\ call.lp \in HeapPages
      /\ call.hw = regions[call.lp].hw /\ call.n = regions[call.lp].n
  <2>1. /\ call.n \in Nat \ {0} /\ call.n <= MaxRequest
        /\ call.lp \in DOMAIN regions /\ call.lp \in HeapPages /\ ForRegion(call, regions)
    BY <1>1, WhatIsUnmapped
  <2> QED
    BY <2>1, VirtAssumption DEF ForRegion
<1>3. vm'.pm = Phy!hwpfree(vm.pm, call.hw, call.n) /\ vm'.pde = vm.pde
  <2>1. IsVm(vm)
    BY DEF SInv, VmOK
  <2> QED
    BY <1>1, <2>1 DEF IsVm
<1>4. CASE call.hw = NULL
  <2>1. status' = "INVALID_MEM"
    <3>1. PmOK(vm.pm) /\ call.n \in Nat \ {0}
      BY <1>2 DEF SInv, VmOK
    <3> QED
      BY <1>1, <1>4, <3>1, FreeOutcome
  <2>2. Holdings(vm'.pde, regions') = Holdings(vm.pde, regions)
    BY <1>1, <1>3, <2>1
  <2> QED
    BY <1>1, <1>2, <1>3, <1>4, <2>2, StrayStep
<1>5. CASE call.hw # NULL
  <2> DEFINE c == <<"region", call.lp>>
             H == Holdings(vm.pde, regions)
  <2>1. RegionHeld(regions, call.lp) = [base |-> call.hw, n |-> call.n]
    BY <1>2, <1>5 DEF RegionHeld
  <2>2. c \in Owners /\ H[c] = [base |-> call.hw, n |-> call.n]
    BY <1>2, <2>1, RegionIs
  <2>3. [base |-> call.hw, n |-> call.n] # Phy!NoGrant
    BY <1>5 DEF Phy!NoGrant, Phy!NULL, NULL
  <2>4. status' = "OK" => Holdings(vm'.pde, regions') = [H EXCEPT ![c] = Phy!NoGrant]
    <3> SUFFICES ASSUME status' = "OK"
                 PROVE  Holdings(vm.pde, regions') = [H EXCEPT ![c] = Phy!NoGrant]
      BY <1>3
    <3>1. DOMAIN regions' = DOMAIN regions \ {call.lp} /\ \A q \in DOMAIN regions' : regions'[q] = regions[q]
      BY <1>1
    <3>2. OthersHold(regions, regions', call.lp)
      BY <3>1 DEF RegionHeld, OthersHold
    <3>3. RegionHeld(regions', call.lp) = Phy!NoGrant
      BY <3>1 DEF RegionHeld, Phy!NoGrant, Phy!NULL, NULL
    <3>4. Passes(H, Holdings(vm.pde, regions'), c, RegionHeld(regions', call.lp))
      BY <1>2, <3>2, RegionChanges
    <3> QED
      BY <3>3, <3>4 DEF Passes
  <2>5. status' # "OK" => Holdings(vm'.pde, regions') = H
    BY <1>1, <1>3
  <2> HIDE DEF c
  <2>6. Holdings(vm'.pde, regions') = IF status' = "OK" THEN [H EXCEPT ![c] = Phy!NoGrant] ELSE H
    BY <2>4, <2>5
  <2> QED
    BY <1>1, <1>3, <2>2, <2>3, <2>6, FreeStep
<1> QED
  BY <1>4, <1>5

(* The other steps do not concern the allocator: looking the address up,    *)
(* writing or clearing an entry, choosing a device's pages, and the         *)
(* processor's.                                                             *)
LEMMA OthersStutter ==
  ASSUME SInv, (\E lp \in HeapPages : Munmap(lp)) \/ UnmapStep \/ MapStep
               \/ (\E hw \in Devices : Maphwdev(hw)) \/ (\E lp \in Pages : Access(lp) \/ Evict(lp)) \/ UNCHANGED vars
  PROVE  UNCHANGED Phy!vars
<1>1. regions' = regions /\ status' = status
  BY DEF Munmap, UnmapStep, MapStep, Maphwdev, Access, Evict, vars
<1>2. vm'.pm = vm.pm /\ vm'.pde = vm.pde
  <2>1. CASE UnmapStep
    <3> DEFINE lp == call.lp + call.i
    <3>1. call.op = "unmap" /\ call.i < call.n /\ vm' = umapfr(vm, lp)
      BY <2>1 DEF UnmapStep, Running
    <3>2. call.n \in Nat /\ call.i \in 1 .. call.n /\ call.lp \in Int /\ Covered(call.lp, call.n) \subseteq HeapPages
      BY <3>1, WhatIsUnmapped
    <3>3. lp \in Covered(call.lp, call.n)
      BY <3>1, <3>2 DEF Covered
    <3>4. lp \in Pages /\ VmOK(vm)
      BY <3>2, <3>3, PagesForm DEF SInv
    <3> HIDE DEF lp
    <3>5. IsCleared(vm, vm', lp)
      BY <3>1, <3>4, umapfrOutcome
    <3> QED
      BY <3>5 DEF IsCleared
  <2>2. CASE MapStep
    <3>1. IsVm(vm) /\ vm' = SetPte(vm, call.lp + call.i, {PhysPage(call.hw, call.i)})
      BY <2>2 DEF MapStep, SInv, VmOK
    <3> QED
      BY <3>1, SetPteForm
  <2>3. CASE ~UnmapStep /\ ~MapStep
    <3>1. vm' = vm
      BY <2>3 DEF Munmap, Maphwdev, Access, Evict, vars
    <3> QED
      BY <3>1
  <2> QED
    BY <2>1, <2>2, <2>3
<1> QED
  BY <1>1, <1>2, StutterStep

(* Every step of virt-mm.c is a step of the allocator's protocol or none.   *)
LEMMA StepRefines == ASSUME SInv, [Next]_vars PROVE [Phy!Next]_(Phy!vars)
<1>1. CASE \E lp \in HeapPages, n \in 1 .. MaxRequest : Mmap(lp, n)
  BY <1>1, MmapRefines
<1>2. CASE MunmapFree
  BY <1>2, MunmapFreeRefines
<1>3. CASE NewTable
  BY <1>3, NewTableRefines
<1>4. CASE (\E lp \in HeapPages : Munmap(lp)) \/ UnmapStep \/ MapStep \/ (\E hw \in Devices : Maphwdev(hw))
           \/ (\E lp \in Pages : Access(lp) \/ Evict(lp)) \/ UNCHANGED vars
  BY <1>4, OthersStutter
<1> QED
  BY <1>1, <1>2, <1>3, <1>4 DEF Next

(* virt-mm.c frees only what hwpalloc granted it, and frees it once: every  *)
(* page table and every region is a client that keeps PhyMM's protocol.     *)
THEOREM ProtocolKept == ASSUME DriverSpaceFits PROVE Spec => KeepsProtocol
<1>1. Init => Phy!Init
  BY InitRefines
<1>2. SInv /\ [Next]_vars => [Phy!Next]_(Phy!vars)
  BY StepRefines
<1> QED
  BY <1>1, <1>2, BooksAgree, PTL DEF Spec, KeepsProtocol, Phy!Spec

(* Both instances have the same hwpfree.                                    *)
LEMMA SameFree ==
  ASSUME NEW p, NEW f, NEW n
  PROVE  /\ Phy!FreeStatus(p, f, n) = PhyP!FreeStatus(p, f, n)
         /\ Phy!hwpfree(p, f, n) = PhyP!hwpfree(p, f, n)
<1>1. Phy!FreeStatus(p, f, n) = PhyP!FreeStatus(p, f, n)
  BY Zenon DEF Phy!FreeStatus, Phy!InRegion, Phy!PushRefused,
               PhyP!FreeStatus, PhyP!InRegion, PhyP!PushRefused
<1>2. Phy!hwpfree(p, f, n) = PhyP!hwpfree(p, f, n)
  BY <1>1, Zenon DEF Phy!hwpfree, Phy!Push, PhyP!hwpfree, PhyP!Push
<1> QED
  BY <1>1, <1>2

(* So both have the same protocol and the same promises.                    *)
LEMMA SameProtocol ==
  /\ Phy!Init => PhyP!Init
  /\ [Phy!Next]_(Phy!vars) => [PhyP!Next]_(PhyP!vars)
  /\ PhyP!Exclusive => Phy!Exclusive
  /\ PhyP!InUseExact => Phy!InUseExact
<1>1. Phy!NoGrant = PhyP!NoGrant /\ Phy!vars = PhyP!vars /\ Phy!NULL = PhyP!NULL
      /\ (Phy!Defined <=> PhyP!Defined)
  BY Zenon DEF Phy!NoGrant, PhyP!NoGrant, Phy!NULL, PhyP!NULL, Phy!vars, PhyP!vars, Phy!Defined, PhyP!Defined
<1>2. Phy!Init => PhyP!Init
  BY <1>1, Zenon DEF Phy!Init, PhyP!Init, Phy!InitPm, PhyP!InitPm, Phy!Positions, PhyP!Positions
<1>3. \A c, n : Phy!Alloc(c, n) => PhyP!Alloc(c, n)
  BY <1>1, SameAlloc, Zenon DEF Phy!Alloc, PhyP!Alloc
<1>4. ASSUME NEW c, Phy!Free(c) PROVE PhyP!Free(c)
  <2> DEFINE g == [o \in Owners |-> Held(o)][c]
  <2>1. /\ Phy!FreeStatus(vm.pm, g.base, g.n) = PhyP!FreeStatus(vm.pm, g.base, g.n)
        /\ Phy!hwpfree(vm.pm, g.base, g.n) = PhyP!hwpfree(vm.pm, g.base, g.n)
    <3> HIDE DEF g
    <3> QED
      BY SameFree, Zenon
  <2> QED
    BY <1>1, <1>4, <2>1, Zenon DEF Phy!Free, PhyP!Free
<1>5. \A f, n : Phy!StrayFree(f, n) => PhyP!StrayFree(f, n)
  BY <1>1, SameFree, Zenon DEF Phy!StrayFree, PhyP!StrayFree, Phy!InRegion, PhyP!InRegion
<1>6. Phy!Next => PhyP!Next
  BY <1>3, <1>4, <1>5, Zenon DEF Phy!Next, PhyP!Next
<1>7. UNCHANGED Phy!vars => UNCHANGED PhyP!vars
  BY Zenon DEF Phy!vars, PhyP!vars
<1>8. (PhyP!Exclusive => Phy!Exclusive) /\ (PhyP!InUseExact => Phy!InUseExact)
  BY Zenon DEF PhyP!Exclusive, Phy!Exclusive, PhyP!InUseExact, Phy!InUseExact, PhyP!Frames, Phy!Frames
<1> QED
  BY <1>2, <1>6, <1>7, <1>8

(* What the frame allocator promises its clients holds of page tables and   *)
(* regions, over any sequence of mmap, munmap and maphwdev: no frame serves *)
(* two of them, and a frame is marked in use exactly when one of them holds *)
(* it.                                                                      *)
THEOREM OwnersApart == ASSUME DriverSpaceFits PROVE Spec => [](Phy!Exclusive /\ Phy!InUseExact)
<1>1. Init => PhyP!Init
  BY InitRefines, SameProtocol
<1>2. SInv /\ [Next]_vars => [PhyP!Next]_(PhyP!vars)
  BY StepRefines, SameProtocol
<1>3. Spec => PhyP!Spec
  BY <1>1, <1>2, BooksAgree, PTL DEF Spec, PhyP!Spec
<1>4. NPages \in Nat \ {0} /\ MaxRequest \in Nat \ {0}
  BY VirtAssumption
<1>5. PhyP!Spec => []PhyP!Exclusive
  BY <1>4, PhyP!FramesExclusive
<1>6. PhyP!Spec => []PhyP!InUseExact
  BY <1>4, PhyP!BitmapExact
<1>7. PhyP!Exclusive /\ PhyP!InUseExact => Phy!Exclusive /\ Phy!InUseExact
  BY SameProtocol
<1> QED
  BY <1>3, <1>5, <1>6, <1>7, PTL

=============================================================================
