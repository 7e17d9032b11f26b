----------------------------- MODULE BootProofs -----------------------------
(***************************************************************************)
(* Proofs about the start of the kernel, boot.s and init_phymm: paging is   *)
(* turned on and the low mapping removed without losing the code being      *)
(* executed, the first usable region is taken, and its frames and the       *)
(* allocator's tables are where PhyMM expects them.                         *)
(***************************************************************************)
EXTENDS Boot, TLAPS

(* Quotient and remainder.                                                  *)
LEMMA DivMod ==
  ASSUME NEW a \in Nat, NEW W \in Nat \ {0}
  PROVE  /\ a \div W \in Nat /\ a % W \in 0 .. W - 1 /\ a % W \in Nat
         /\ a = W * (a \div W) + (a % W)
  OBVIOUS

(* They are unique.                                                         *)
LEMMA SameQuotient ==
  ASSUME NEW W \in Nat \ {0}, NEW p \in Int, NEW q \in Int, NEW r \in 0 .. W - 1, NEW s \in 0 .. W - 1,
         W * p + r = W * q + s
  PROVE  p = q /\ r = s
<1>0. r \in Int /\ s \in Int /\ r < W /\ s < W /\ r >= 0 /\ s >= 0
  OBVIOUS
<1>1. W * p \in Int /\ W * q \in Int
  OBVIOUS
<1>2. ASSUME p >= q + 1 PROVE FALSE
  <2>1. W * p >= W * (q + 1)
    BY <1>2
  <2>2. W * (q + 1) = W * q + W
    OBVIOUS
  <2> QED
    BY <1>0, <1>1, <2>1, <2>2
<1>3. ASSUME q >= p + 1 PROVE FALSE
  <2>1. W * q >= W * (p + 1)
    BY <1>3
  <2>2. W * (p + 1) = W * p + W
    OBVIOUS
  <2> QED
    BY <1>0, <1>1, <2>1, <2>2
<1>4. p = q
  BY <1>2, <1>3
<1> QED
  BY <1>0, <1>1, <1>4

(* So a decomposition of a number is its quotient and remainder.            *)
LEMMA DivModOf ==
  ASSUME NEW W \in Nat \ {0}, NEW q \in Nat, NEW r \in 0 .. W - 1, NEW a, a = W * q + r
  PROVE  a \div W = q /\ a % W = r
<1>0. W * q \in Nat /\ r \in Nat
  OBVIOUS
<1>1. a \in Nat
  BY <1>0
<1>2. a \div W \in Nat /\ a % W \in 0 .. W - 1 /\ a = W * (a \div W) + (a % W)
  BY <1>1, DivMod
<1> QED
  BY <1>2, SameQuotient

(* A number below the word size is not cut.                                 *)
LEMMA ModSmall ==
  ASSUME NEW W \in Nat \ {0}, NEW a \in Nat, a < W
  PROVE  a % W = a /\ a \div W = 0
<1>1. a = W * 0 + a /\ a \in 0 .. W - 1
  OBVIOUS
<1> QED
  BY <1>1, DivModOf

(* Cutting a summand first does not change the cut sum: the address of a    *)
(* region is cut before the kernel's size is added.                         *)
LEMMA ModSum ==
  ASSUME NEW W \in Nat \ {0}, NEW a \in Nat, NEW b \in Nat
  PROVE  ((a % W) + b) % W = (a + b) % W
<1>1. /\ a \div W \in Nat /\ a % W \in Nat /\ a = W * (a \div W) + (a % W)
  BY DivMod
<1> DEFINE q == a \div W
           r == a % W
           c == r + b
<1> HIDE DEF q, r
<1>2. q \in Nat /\ r \in Nat /\ a = W * q + r
  BY <1>1 DEF q, r
<1>3. c \in Nat
  BY <1>2
<1>4. /\ c \div W \in Nat /\ c % W \in 0 .. W - 1 /\ c = W * (c \div W) + (c % W)
  BY <1>3, DivMod
<1> DEFINE k == c \div W
           m == c % W
<1> HIDE DEF k, m
<1>5. k \in Nat /\ m \in 0 .. W - 1 /\ c = W * k + m
  BY <1>4 DEF k, m
<1>6. W * (q + k) = W * q + W * k
  BY <1>2, <1>5
<1>7. a + b = W * (q + k) + m
  <2>1. W * q \in Int /\ W * k \in Int /\ m \in Int
    BY <1>2, <1>5
  <2> QED
    BY <1>2, <1>5, <1>6, <2>1
<1>8. q + k \in Nat
  BY <1>2, <1>5
<1>9. (a + b) % W = m
  <2> DEFINE x == a + b
             z == q + k
  <2>1. x = W * z + m /\ z \in Nat /\ m \in 0 .. W - 1
    BY <1>5, <1>7, <1>8
  <2> HIDE DEF x, z
  <2>2. x % W = m
    BY <2>1, DivModOf
  <2> QED
    BY <2>2 DEF x
<1> QED
  BY <1>9 DEF m, r

(* Cutting to a word, a multiple of the page size, keeps the offset in the  *)
(* page.                                                                    *)
LEMMA ModOfMultiple ==
  ASSUME NEW W \in Nat \ {0}, NEW P \in Nat \ {0}, W % P = 0, NEW a \in Nat
  PROVE  (a % W) % P = a % P
<1> DEFINE q == a \div W
           r == a % W
           v == W \div P
           s == r \div P
           t == r % P
<1>1. q \in Nat /\ r \in Nat /\ a = W * q + r
  BY DivMod
<1>2. v \in Nat /\ W = P * v + (W % P)
  BY DivMod
<1> HIDE DEF q, v
<1>3. W = P * v
  BY <1>2
<1>4. s \in Nat /\ t \in 0 .. P - 1 /\ r = P * s + t
  BY <1>1, DivMod
<1> HIDE DEF r, s, t
<1>5. a = P * (v * q + s) + t
  <2>1. W * q = P * (v * q)
    BY <1>1, <1>2, <1>3
  <2>2. v * q \in Nat
    BY <1>1, <1>2
  <2> DEFINE u == v * q
  <2> HIDE DEF u
  <2>3. u \in Nat /\ W * q = P * u
    BY <2>1, <2>2 DEF u
  <2>4. P * (u + s) = P * u + P * s
    BY <1>4, <2>3
  <2>5. P * u \in Int /\ P * s \in Int /\ t \in Int
    BY <1>4, <2>3
  <2>6. a = P * (u + s) + t
    BY <1>1, <1>4, <2>3, <2>4, <2>5
  <2> QED
    BY <2>6 DEF u
<1>6. v * q + s \in Nat
  BY <1>1, <1>2, <1>4
<1>7. a % P = t
  BY <1>4, <1>5, <1>6, DivModOf
<1> QED
  BY <1>7 DEF t, r

-----------------------------------------------------------------------------

(* The values of pc.                                                        *)
Steps == {"start", "copy", "tables", "enable", "jump", "unmap", "walk", "ok", "failed", "panic", "spilled"}

(* The steps of init_phymm.                                                 *)
Walking == {"walk", "ok", "failed"}

(* An entry of the memory map holds numbers.                                *)
IsEntry(e) == e.base \in Nat /\ e.length \in Nat /\ e.type \in Nat

(* What the boot loader left; it never changes.                             *)
LoaderOK(m, k) ==
  /\ k \in KernelEnds /\ m.n \in Nat
  /\ \A i \in 1 .. m.n + 1 : IsEntry(m.mem[i])
  /\ m.flags = "mmap" => Credible(m, k)

(* The entries of the page directory that boot.s writes.                    *)
DirKeys == {0, HighTable, SelfTable}

(* The page directory after boot.s filled it, with what is left of its low  *)
(* entry.                                                                   *)
Built(low) ==
  [t \in DirKeys |-> IF t = 0 THEN low ELSE IF t = HighTable THEN "pte_768" ELSE "pde_table"]

(* The two page tables after boot.s filled them.                            *)
Filled ==
  [t \in {"pte_0", "pte_768"} |-> [s \in Slots |-> IF t = "pte_0" THEN LowEntries(s) ELSE HighEntries(s)]]

(* Paging step by step: the tables are complete before cr0 is written, the  *)
(* low one is in place until the jump has left the low addresses.           *)
PagingOK(p, d, t, c) ==
  /\ p \in {"start", "copy", "tables", "panic", "spilled"} =>
       /\ c = [paging |-> FALSE, page |-> KernelSlot]
       /\ d = [x \in DirKeys |-> "none"] /\ t = [x \in {"pte_0", "pte_768"} |-> [s \in Slots |-> {}]]
  /\ p \in {"enable", "jump", "unmap"} => d = Built("pte_0") /\ t = Filled
  /\ p = "enable" => c = [paging |-> FALSE, page |-> KernelSlot]
  /\ p = "jump" => c = [paging |-> TRUE, page |-> KernelSlot]
  /\ p \in {"unmap"} \cup Walking => c = [paging |-> TRUE, page |-> High(KernelSlot + 1)]
  /\ p \in Walking => d = Built("none") /\ t = Filled

(* No entry before i could have been taken.                                 *)
NoneBefore(i) == \A j \in 0 .. i - 1 : ~Usable(Seen(j))

(* The search of init_phymm: it has passed by no usable entry.              *)
SearchOK(p, i) ==
  /\ i \in Nat
  /\ p \notin Walking => i = 0
  /\ p \in {"walk", "ok"} => i <= mb.n /\ NoneBefore(i)
  /\ p = "ok" => Usable(Seen(i))
  /\ p = "failed" => NoneBefore(mb.n + 1)

(* What set_phymm computed from the entry e.                                *)
PmmOK(x, e) ==
  /\ x.size = ManagedFrames(e) /\ x.start = RegionStart(e) /\ x.sp = x.size - 1
  /\ x.wiped = Wiped(x.size) /\ x.inuse \in LeftoverBits(x.size)
  /\ x.bitmap = BitmapAt(x.size) /\ x.end = PhymmEnd(x.size)

(* The inductive invariant of the start of the kernel.  RunsMapped needs    *)
(* the contents of the tables at every step, TakesFirst the entries passed  *)
(* by, the other two what was computed from the entry taken.                *)
IInv ==
  /\ pc \in Steps /\ LoaderOK(mb, kend) /\ PagingOK(pc, pde, pte, cpu)
  /\ SearchOK(pc, at) /\ (pc = "ok" => PmmOK(pmm, Seen(at)))

(* The constants.                                                           *)
LEMMA Sizes ==
  /\ TableSize \in Nat /\ PageUnits \in Nat \ {0} /\ Word \in Nat \ {0}
  /\ KernelSlot \in Nat \ {0} /\ HighTable \in Nat \ {0} /\ HighTable < SelfTable /\ SelfTable \in Nat
  /\ \A k \in KernelEnds : k \in Nat /\ KernelSlot < k /\ k < TableSize
<1>1. /\ TableSize \in Nat /\ PageUnits \in Nat \ {0} /\ Word \in Nat \ {0}
      /\ KernelSlot \in 1 .. TableSize /\ HighTable \in 1 .. (TableSize - 2)
      /\ KernelEnds \subseteq (KernelSlot + 1) .. (TableSize - 1)
  BY BootAssumption
<1>2. /\ KernelSlot \in Nat \ {0} /\ HighTable \in Nat \ {0} /\ HighTable < SelfTable /\ SelfTable \in Nat
  BY <1>1 DEF SelfTable
<1>3. ASSUME NEW k \in KernelEnds PROVE k \in Nat /\ KernelSlot < k /\ k < TableSize
  <2>1. k \in (KernelSlot + 1) .. (TableSize - 1)
    BY <1>1
  <2> QED
    BY <1>1, <1>2, <2>1
<1> QED
  BY <1>1, <1>2, <1>3

(* Every entry the search can read holds numbers.                           *)
LEMMA SeenIsEntry ==
  ASSUME LoaderOK(mb, kend), NEW i \in Nat
  PROVE  IsEntry(Seen(i))
<1>1. IsEntry(Entry0)
  BY DEF IsEntry, Entry0
<1>2. i + 1 <= mb.n + 1 => IsEntry(mb.mem[i + 1])
  BY DEF LoaderOK
<1> QED
  BY <1>1, <1>2 DEF Seen

(* The information of the boot loader and the kernel's end do not change,   *)
(* so it is enough to look at the other variables.                          *)
LEMMA SameLoader ==
  ASSUME IInv, mb' = mb, kend' = kend, pc' \in Steps, PagingOK(pc', pde', pte', cpu'),
         SearchOK(pc', at'), pc' = "ok" => PmmOK(pmm', Seen(at'))
  PROVE  IInv'
<1>1. \A i : Seen(i)' = Seen(i)
  BY DEF Seen, CopiedBytes, EntryBytes, Entry0
<1>2. \A i : NoneBefore(i)' = NoneBefore(i)
  BY <1>1 DEF NoneBefore, Usable, KernelStart
<1>3. SearchOK(pc, at)'
  BY <1>1, <1>2 DEF SearchOK, Usable, KernelStart, Walking
<1>4. LoaderOK(mb, kend)'
  BY DEF IInv
<1>5. ASSUME pc' = "ok" PROVE PmmOK(pmm, Seen(at))'
  <2>1. \A e : ManagedFrames(e)' = ManagedFrames(e) /\ RegionStart(e)' = RegionStart(e)
    BY DEF ManagedFrames, RegionPages, RegionStart, KernelSize, KernelEnd, KernelStart
  <2> QED
    BY <1>1, <1>5, <2>1 DEF PmmOK
<1> QED
  BY <1>3, <1>4, <1>5 DEF IInv, Steps

(* When boot.s starts.                                                      *)
LEMMA InitBoot == ASSUME Init PROVE IInv
<1>1. PICK n \in 0 .. MaxEntries, flags \in {"zero", "other", "mmap"} :
        \E map \in [1 .. n -> EntryPool], behind \in BehindPool :
          /\ mb = [flags |-> flags, n |-> n, mem |-> Append(map, behind)]
          /\ flags = "mmap" => Credible(mb, kend)
  BY DEF Init
<1>2. PICK map \in [1 .. n -> EntryPool], behind \in BehindPool :
        /\ mb = [flags |-> flags, n |-> n, mem |-> Append(map, behind)]
        /\ flags = "mmap" => Credible(mb, kend)
  BY <1>1
<1>3. n \in Nat
  BY BootAssumption
<1>4. mb.n = n /\ mb.flags = flags /\ mb.mem = Append(map, behind)
  BY <1>2
<1>5. \A i \in 1 .. n + 1 : mb.mem[i] \in EntryPool \cup BehindPool
  <2>1. map \in Seq(EntryPool \cup BehindPool) /\ Len(map) = n
    BY <1>3
  <2>2. /\ \A i \in 1 .. n : Append(map, behind)[i] = map[i]
        /\ Append(map, behind)[n + 1] = behind
    BY <2>1, <1>3
  <2>3. \A i \in 1 .. n + 1 : i \in 1 .. n \/ i = n + 1
    BY <1>3
  <2> QED
    BY <1>4, <2>2, <2>3
<1>6. LoaderOK(mb, kend)
  <2>1. kend \in KernelEnds
    BY DEF Init
  <2>2. \A i \in 1 .. mb.n + 1 : IsEntry(mb.mem[i])
    BY <1>4, <1>5, BootAssumption DEF IsEntry
  <2> QED
    BY <1>2, <1>3, <1>4, <2>1, <2>2 DEF LoaderOK
<1>7. pc = "start" /\ at = 0
  BY DEF Init
<1>8. PagingOK(pc, pde, pte, cpu)
  BY <1>7 DEF Init, PagingOK, DirKeys, Walking
<1>9. SearchOK(pc, at)
  BY <1>7 DEF SearchOK, Walking
<1> QED
  BY <1>6, <1>7, <1>8, <1>9 DEF IInv, Steps

(* The check of the flags and the copy of the map touch neither the tables  *)
(* nor the processor.                                                       *)
LEMMA EarlyBoot ==
  ASSUME IInv, CheckFlags \/ CopyMeminfo
  PROVE  IInv'
<1>1. /\ pc \in {"start", "copy"} /\ pc' \in {"panic", "copy", "spilled", "tables"}
      /\ mb' = mb /\ kend' = kend /\ pde' = pde /\ pte' = pte /\ cpu' = cpu /\ at' = at
  BY DEF CheckFlags, CopyMeminfo, booting
<1>2. PagingOK(pc', pde', pte', cpu')
  BY <1>1 DEF IInv, PagingOK, Walking
<1>3. SearchOK(pc', at')
  BY <1>1 DEF IInv, SearchOK, Walking
<1> QED
  BY <1>1, <1>2, <1>3, SameLoader DEF Steps

(* boot.s fills the directory and both tables.                              *)
LEMMA BuildTablesBoot == ASSUME IInv, BuildTables PROVE IInv'
<1>1. /\ pc = "tables" /\ pc' = "enable" /\ mb' = mb /\ kend' = kend /\ cpu' = cpu /\ at' = at
      /\ pde' = [pde EXCEPT ![0] = "pte_0", ![HighTable] = "pte_768", ![SelfTable] = "pde_table"]
      /\ pte' = [t \in DOMAIN pte |->
                   [s \in Slots |-> IF t = "pte_0" THEN LowEntries(s) ELSE HighEntries(s)]]
  BY DEF BuildTables
<1>2. /\ cpu = [paging |-> FALSE, page |-> KernelSlot] /\ pde = [x \in DirKeys |-> "none"]
      /\ DOMAIN pte = {"pte_0", "pte_768"}
  BY <1>1 DEF IInv, PagingOK
<1>3. pde' = Built("pte_0")
  <2>1. HighTable # 0 /\ HighTable # SelfTable /\ SelfTable # 0
    BY Sizes
  <2> QED
    BY <1>1, <1>2, <2>1 DEF Built, DirKeys
<1>4. pte' = Filled
  BY <1>1, <1>2 DEF Filled
<1>5. PagingOK(pc', pde', pte', cpu')
  BY <1>1, <1>2, <1>3, <1>4 DEF PagingOK, Walking
<1>6. SearchOK(pc', at')
  BY <1>1 DEF IInv, SearchOK, Walking
<1> QED
  BY <1>1, <1>5, <1>6, SameLoader DEF Steps

(* boot.s sets cr3 and cr0.                                                 *)
LEMMA EnablePagingBoot == ASSUME IInv, EnablePaging PROVE IInv'
<1>1. /\ pc = "enable" /\ pc' = "jump" /\ mb' = mb /\ kend' = kend /\ at' = at
      /\ pde' = pde /\ pte' = pte /\ cpu' = [cpu EXCEPT !.paging = TRUE]
  BY DEF EnablePaging
<1>2. /\ cpu = [paging |-> FALSE, page |-> KernelSlot] /\ pde = Built("pte_0") /\ pte = Filled
  BY <1>1 DEF IInv, PagingOK
<1>3. cpu' = [paging |-> TRUE, page |-> KernelSlot]
  BY <1>1, <1>2
<1>4. PagingOK(pc', pde', pte', cpu')
  BY <1>1, <1>2, <1>3 DEF PagingOK, Walking
<1>5. SearchOK(pc', at')
  BY <1>1 DEF IInv, SearchOK, Walking
<1> QED
  BY <1>1, <1>4, <1>5, SameLoader DEF Steps

(* boot.s jumps to the kernel's high addresses.                             *)
LEMMA JumpHighBoot == ASSUME IInv, JumpHigh PROVE IInv'
<1>1. /\ pc = "jump" /\ pc' = "unmap" /\ mb' = mb /\ kend' = kend /\ at' = at
      /\ pde' = pde /\ pte' = pte
      /\ cpu' = [cpu EXCEPT !.page = HighTable * TableSize + KernelSlot + 1]
  BY DEF JumpHigh
<1>2. /\ cpu = [paging |-> TRUE, page |-> KernelSlot] /\ pde = Built("pte_0") /\ pte = Filled
  BY <1>1 DEF IInv, PagingOK
<1>3. HighTable * TableSize + KernelSlot + 1 = High(KernelSlot + 1)
  BY Sizes DEF High
<1>4. cpu' = [paging |-> TRUE, page |-> High(KernelSlot + 1)]
  BY <1>1, <1>2, <1>3
<1>5. PagingOK(pc', pde', pte', cpu')
  BY <1>1, <1>2, <1>4 DEF PagingOK, Walking
<1>6. SearchOK(pc', at')
  BY <1>1 DEF IInv, SearchOK, Walking
<1> QED
  BY <1>1, <1>5, <1>6, SameLoader DEF Steps

(* boot.s removes the low mapping and calls kmain.                          *)
LEMMA UnmapLowBoot == ASSUME IInv, UnmapLow PROVE IInv'
<1>1. /\ pc = "unmap" /\ pc' = "walk" /\ mb' = mb /\ kend' = kend /\ at' = at
      /\ pde' = [pde EXCEPT ![0] = "none"] /\ pte' = pte /\ cpu' = cpu
  BY DEF UnmapLow
<1>2. /\ cpu = [paging |-> TRUE, page |-> High(KernelSlot + 1)] /\ pde = Built("pte_0") /\ pte = Filled
  BY <1>1 DEF IInv, PagingOK
<1>3. pde' = Built("none")
  BY <1>1, <1>2 DEF Built, DirKeys
<1>4. PagingOK(pc', pde', pte', cpu')
  BY <1>1, <1>2, <1>3 DEF PagingOK, Walking
<1>5. SearchOK(pc', at')
  <2>1. at = 0 /\ mb.n \in Nat
    BY <1>1 DEF IInv, SearchOK, Walking, LoaderOK
  <2> QED
    BY <1>1, <2>1 DEF SearchOK, NoneBefore, Walking
<1> QED
  BY <1>1, <1>4, <1>5, SameLoader DEF Steps

(* init_phymm takes the entry it looks at.                                  *)
LEMMA UseRegionBoot == ASSUME IInv, UseRegion PROVE IInv'
<1>1. /\ pc = "walk" /\ pc' = "ok" /\ mb' = mb /\ kend' = kend /\ at' = at
      /\ pde' = pde /\ pte' = pte /\ cpu' = cpu /\ Usable(Seen(at))
  BY DEF UseRegion, booting
<1>2. PICK n \in {ManagedFrames(Seen(at))} : \E bits \in LeftoverBits(n) :
        pmm' = [size |-> n, start |-> RegionStart(Seen(at)), sp |-> n - 1, wiped |-> Wiped(n),
                inuse |-> bits, bitmap |-> BitmapAt(n), end |-> PhymmEnd(n)]
  BY DEF UseRegion
<1>3. PICK bits \in LeftoverBits(n) :
        pmm' = [size |-> n, start |-> RegionStart(Seen(at)), sp |-> n - 1, wiped |-> Wiped(n),
                inuse |-> bits, bitmap |-> BitmapAt(n), end |-> PhymmEnd(n)]
  BY <1>2
<1>4. PmmOK(pmm', Seen(at'))
  BY <1>1, <1>2, <1>3 DEF PmmOK
<1>5. PagingOK(pc', pde', pte', cpu')
  BY <1>1 DEF IInv, PagingOK, Walking
<1>6. SearchOK(pc', at')
  BY <1>1 DEF IInv, SearchOK, Walking
<1> QED
  BY <1>1, <1>4, <1>5, <1>6, SameLoader DEF Steps

(* init_phymm passes by the entry it looks at, or has no more.              *)
LEMMA NextEntryBoot == ASSUME IInv, NextEntry PROVE IInv'
<1>1. /\ pc = "walk" /\ mb' = mb /\ kend' = kend /\ at' = at + 1
      /\ pde' = pde /\ pte' = pte /\ cpu' = cpu /\ ~Usable(Seen(at))
      /\ pc' = IF (at + 1) * EntryBytes <= mb.n * EntryBytes THEN "walk" ELSE "failed"
  BY DEF NextEntry, booting
<1>2. at \in Nat /\ at <= mb.n /\ NoneBefore(at) /\ mb.n \in Nat
  BY <1>1 DEF IInv, SearchOK, LoaderOK
<1>3. NoneBefore(at + 1)
  <2>1. \A j \in 0 .. at : j \in 0 .. at - 1 \/ j = at
    BY <1>2
  <2> QED
    BY <1>1, <1>2, <2>1 DEF NoneBefore
<1>4. pc' \in {"walk", "failed"}
  BY <1>1
<1>5. /\ pc' = "walk" => at + 1 <= mb.n
      /\ pc' = "failed" => at = mb.n
  BY <1>1, <1>2 DEF EntryBytes
<1>6. SearchOK(pc', at')
  BY <1>1, <1>2, <1>3, <1>4, <1>5 DEF SearchOK, Walking
<1>7. PagingOK(pc', pde', pte', cpu')
  BY <1>1, <1>4 DEF IInv, PagingOK, Walking
<1> QED
  BY <1>1, <1>4, <1>6, <1>7, SameLoader DEF Steps

(* Every step keeps the invariant.                                          *)
LEMMA NextBoot == ASSUME IInv, [Next]_vars PROVE IInv'
<1>1. CASE UNCHANGED vars
  BY <1>1, SameLoader DEF IInv, vars
<1> QED
  BY <1>1, EarlyBoot, BuildTablesBoot, EnablePagingBoot, JumpHighBoot, UnmapLowBoot,
     UseRegionBoot, NextEntryBoot DEF Next

(* The invariant always holds.                                              *)
THEOREM InvariantHolds == Spec => []IInv
<1>1. Init => IInv
  BY InitBoot
<1>2. IInv /\ [Next]_vars => IInv'
  BY NextBoot
<1> QED
  BY <1>1, <1>2, PTL DEF Spec

-----------------------------------------------------------------------------

(* A page of the image, high.                                               *)
LEMMA HighPage ==
  ASSUME NEW p \in Slots
  PROVE  High(p) \div TableSize = HighTable /\ High(p) % TableSize = p
<1>1. TableSize \in Nat \ {0} /\ HighTable \in Nat /\ p \in 0 .. TableSize - 1
  BY Sizes DEF Slots
<1>2. High(p) = TableSize * HighTable + p
  BY <1>1 DEF High
<1> QED
  BY <1>1, <1>2, DivModOf

(* A page of the image, low.                                                *)
LEMMA LowPage ==
  ASSUME NEW p \in Slots
  PROVE  p \div TableSize = 0 /\ p % TableSize = p
<1>1. TableSize \in Nat \ {0} /\ p \in Nat /\ p < TableSize
  BY Sizes DEF Slots
<1> QED
  BY <1>1, ModSmall

(* The tables translate the high pages to the image.                        *)
LEMMA HighWalk ==
  ASSUME NEW low, pde = Built(low), pte = Filled, NEW p \in Slots
  PROVE  Walk(High(p)) = HighEntries(p)
<1>1. pde[HighTable] = "pte_768" /\ HighTable \in DOMAIN pde
  BY Sizes DEF Built, DirKeys
<1>2. pte["pte_768"][p] = HighEntries(p)
  BY DEF Filled
<1> QED
  BY <1>1, <1>2, HighPage DEF Walk

(* While the low entry is there they translate the low pages to themselves. *)
LEMMA LowWalk ==
  ASSUME NEW low \in {"pte_0", "none"}, pde = Built(low), pte = Filled, NEW p \in Slots
  PROVE  Walk(p) = IF low = "pte_0" THEN LowEntries(p) ELSE {}
<1>1. pde[0] = low /\ 0 \in DOMAIN pde
  BY DEF Built, DirKeys
<1>2. pte["pte_0"][p] = LowEntries(p)
  BY DEF Filled
<1> QED
  BY <1>1, <1>2, LowPage DEF Walk

(* Whatever the processor fetches next is mapped, and to where the loader   *)
(* put it.                                                                  *)
LEMMA RunsMappedHolds == ASSUME IInv PROVE RunsMapped
<1>0. /\ pc \in Steps /\ PagingOK(pc, pde, pte, cpu) /\ kend \in KernelEnds
  BY DEF IInv, LoaderOK
<1>1. /\ KernelSlot \in Slots /\ KernelSlot + 1 \in Slots /\ KernelSlot - 1 \in Slots
      /\ \A p \in KernelSlot .. kend : p \in Slots /\ p >= KernelSlot
      /\ KernelSlot \in Nat
  BY <1>0, Sizes DEF Slots
<1>2. FetchMapped
  <2> SUFFICES ASSUME cpu.paging PROVE Walk(cpu.page) = {cpu.page % TableSize}
    BY DEF FetchMapped
  <2>1. CASE pc = "jump"
    <3>1. cpu.page = KernelSlot /\ pde = Built("pte_0") /\ pte = Filled
      BY <1>0, <2>1 DEF PagingOK
    <3>2. Walk(KernelSlot) = LowEntries(KernelSlot)
      BY <1>1, <3>1, LowWalk
    <3> QED
      BY <1>1, <3>1, <3>2, LowPage DEF LowEntries
  <2>2. CASE pc \in {"unmap"} \cup Walking
    <3>1. PICK low : cpu.page = High(KernelSlot + 1) /\ pde = Built(low) /\ pte = Filled
      BY <1>0, <2>2 DEF PagingOK
    <3>2. Walk(High(KernelSlot + 1)) = HighEntries(KernelSlot + 1)
      BY <1>1, <3>1, HighWalk
    <3>3. HighEntries(KernelSlot + 1) = {KernelSlot + 1}
      BY <1>1 DEF HighEntries
    <3> QED
      BY <1>1, <3>1, <3>2, <3>3, HighPage
  <2>3. CASE pc \in {"start", "copy", "tables", "panic", "spilled", "enable"}
    BY <1>0, <2>3 DEF PagingOK
  <2> QED
    BY <1>0, <2>1, <2>2, <2>3 DEF Steps, Walking
<1>3. KernelMapped
  <2> SUFFICES ASSUME pc \in Walking
               PROVE  /\ \A p \in KernelSlot .. kend : Walk(High(p)) = {p}
                      /\ Walk(High(KernelSlot - 1)) = {VgaPage}
                      /\ \A s \in Slots : Walk(s) = {}
                      /\ TableSeen(HighTable) = "pte_768" /\ TableSeen(0) = "none"
    BY DEF KernelMapped, Walking
  <2>1. pde = Built("none") /\ pte = Filled
    BY <1>0 DEF PagingOK
  <2>2. \A p \in KernelSlot .. kend : Walk(High(p)) = {p}
    <3> SUFFICES ASSUME NEW p \in KernelSlot .. kend PROVE Walk(High(p)) = {p}
      OBVIOUS
    <3>1. Walk(High(p)) = HighEntries(p)
      BY <1>1, <2>1, HighWalk
    <3> QED
      BY <1>1, <3>1 DEF HighEntries
  <2>3. Walk(High(KernelSlot - 1)) = {VgaPage}
    <3>1. Walk(High(KernelSlot - 1)) = HighEntries(KernelSlot - 1)
      BY <1>1, <2>1, HighWalk
    <3> QED
      BY <1>1, <3>1 DEF HighEntries
  <2>4. \A s \in Slots : Walk(s) = {}
    BY <2>1, LowWalk
  <2>5. /\ pde[SelfTable] = "pde_table" /\ pde[HighTable] = "pte_768" /\ pde[0] = "none"
    BY <2>1, Sizes DEF Built, DirKeys
  <2> QED
    BY <2>2, <2>3, <2>4, <2>5 DEF TableSeen
<1> QED
  BY <1>2, <1>3 DEF RunsMapped

(* The entry taken is the first usable one.                                 *)
LEMMA TakesFirstHolds == ASSUME IInv PROVE TakesFirst
<1>0. SearchOK(pc, at) /\ mb.n \in Nat
  BY DEF IInv, LoaderOK
<1>1. ASSUME pc = "ok"
      PROVE  IF FirstUsable(mb.n - 1) # {} THEN at \in FirstUsable(mb.n - 1) ELSE at \in FirstUsable(mb.n)
  <2>1. at \in Nat /\ at <= mb.n /\ NoneBefore(at) /\ Usable(Seen(at))
    BY <1>0, <1>1 DEF SearchOK
  <2>2. at \in FirstUsable(mb.n)
    BY <1>0, <2>1 DEF FirstUsable, NoneBefore
  <2>3. ASSUME NEW i \in FirstUsable(mb.n - 1) PROVE at \in FirstUsable(mb.n - 1)
    <3>1. i \in 0 .. mb.n - 1 /\ Usable(Seen(i))
      BY DEF FirstUsable
    <3>2. ~(i < at)
      BY <1>0, <2>1, <3>1 DEF NoneBefore
    <3> QED
      BY <1>0, <2>1, <3>1, <3>2 DEF FirstUsable, NoneBefore
  <2> QED
    BY <2>2, <2>3
<1>2. ASSUME pc = "failed" PROVE FirstUsable(mb.n) = {}
  <2>1. NoneBefore(mb.n + 1)
    BY <1>0, <1>2 DEF SearchOK
  <2> QED
    BY <1>0, <2>1 DEF FirstUsable, NoneBefore
<1> QED
  BY <1>1, <1>2 DEF TakesFirst

-----------------------------------------------------------------------------

(* The size init_phymm leaves out of the region: the image and a page.      *)
LEMMA KernelSizes ==
  ASSUME kend \in KernelEnds
  PROVE  /\ KernelStart \in Nat \ {0} /\ KernelEnd \in Nat /\ KernelSize \in Nat
         /\ KernelSize = KernelEnd - KernelStart + PageUnits /\ KernelSize >= PageUnits
         /\ KernelSize < Word /\ KernelSize = PageUnits * (kend - KernelSlot + 1)
<1>0. /\ PageUnits \in Nat \ {0} /\ KernelSlot \in Nat \ {0} /\ kend \in Nat /\ KernelSlot < kend
      /\ kend < TableSize /\ TableSize \in Nat /\ Word \in Nat
  BY Sizes
<1>1. /\ KernelSlot * PageUnits \in Nat \ {0} /\ kend * PageUnits \in Nat
      /\ KernelSlot * PageUnits <= kend * PageUnits
  BY <1>0
<1>2. kend * PageUnits - KernelSlot * PageUnits + PageUnits = PageUnits * (kend - KernelSlot + 1)
  BY <1>0
<1>3. PageUnits * (kend - KernelSlot + 1) < TableSize * PageUnits
  <2>1. kend - KernelSlot + 1 < TableSize /\ kend - KernelSlot + 1 \in Nat
    BY <1>0
  <2> DEFINE x == kend - KernelSlot + 1
  <2> HIDE DEF x
  <2>2. x < TableSize /\ x \in Nat
    BY <2>1 DEF x
  <2>3. PageUnits * x < TableSize * PageUnits
    BY <1>0, <2>2
  <2> QED
    BY <2>3 DEF x
<1>4. TableSize * PageUnits <= Word /\ TableSize * PageUnits \in Nat
  BY <1>0, BootAssumption
<1>5. /\ KernelStart = KernelSlot * PageUnits /\ KernelEnd = kend * PageUnits
      /\ KernelSize = kend * PageUnits - KernelSlot * PageUnits + PageUnits
  BY DEF KernelStart, KernelEnd, KernelSize
<1>6. KernelSize < Word
  BY <1>0, <1>1, <1>2, <1>3, <1>4, <1>5
<1> QED
  BY <1>0, <1>1, <1>2, <1>5, <1>6

(* Whole pages do not change the offset in a page.                          *)
LEMMA ModAddMultiple ==
  ASSUME NEW P \in Nat \ {0}, NEW a \in Nat, NEW k \in Nat
  PROVE  (a + P * k) % P = a % P
<1> DEFINE q == a \div P
           r == a % P
<1>1. q \in Nat /\ r \in 0 .. P - 1 /\ a = P * q + r
  BY DivMod
<1> HIDE DEF q, r
<1>2. P * (q + k) = P * q + P * k /\ P * q \in Int /\ P * k \in Int /\ r \in Int
  BY <1>1
<1> DEFINE x == a + P * k
           z == q + k
<1>3. x = P * z + r /\ z \in Nat
  BY <1>1, <1>2
<1> HIDE DEF x, z
<1>4. x % P = r
  BY <1>1, <1>3, DivModOf
<1> QED
  BY <1>4 DEF x, r

(* A remainder is a number.                                                 *)
LEMMA ModIsNat ==
  ASSUME NEW x \in Int, NEW W \in Nat \ {0}
  PROVE  x % W \in 0 .. W - 1 /\ x % W \in Nat
  OBVIOUS

(* What set_phymm computes are numbers, cut to FrameLimit and to a word.    *)
LEMMA RegionNumbers ==
  ASSUME kend \in KernelEnds, NEW e, IsEntry(e)
  PROVE  /\ RegionPages(e) \in Nat /\ ManagedFrames(e) \in 0 .. FrameLimit
         /\ ManagedFrames(e) \in Nat /\ RegionStart(e) \in 0 .. Word - 1 /\ RegionStart(e) \in Nat
<1>0. /\ Word \in Nat \ {0} /\ PageUnits \in Nat \ {0} /\ KernelSize \in Nat /\ FrameLimit \in Nat \ {0}
      /\ e.base \in Nat /\ e.length \in Nat
  BY KernelSizes, Sizes, BootAssumption DEF IsEntry
<1>1. Word64 \in Nat \ {0}
  BY <1>0, BootAssumption
<1>2. (e.length - KernelSize) % Word64 \in Nat
  <2>1. e.length - KernelSize \in Int
    BY <1>0
  <2> QED
    BY <1>1, <2>1, ModIsNat
<1>3. ((e.length - KernelSize) % Word64) \div PageUnits \in Nat
  BY <1>0, <1>2, DivMod
<1>4. RegionPages(e) \in Nat
  BY <1>0, <1>3, DivMod DEF RegionPages
<1>5. ManagedFrames(e) \in 0 .. FrameLimit /\ ManagedFrames(e) \in Nat
  BY <1>0, <1>4 DEF ManagedFrames
<1>6. RegionStart(e) \in 0 .. Word - 1 /\ RegionStart(e) \in Nat
  <2>1. e.base % Word \in Nat
    BY <1>0, DivMod
  <2>2. (e.base % Word) + KernelSize \in Nat
    BY <1>0, <2>1
  <2> QED
    BY <1>0, <2>2, DivMod DEF RegionStart
<1> QED
  BY <1>4, <1>5, <1>6

(* Every frame lies as the region does within its page, wrapped around 4 GB *)
(* or not.                                                                  *)
LEMMA FrameAligned ==
  ASSUME kend \in KernelEnds, IsEntry(Chosen), pmm.start = RegionStart(Chosen), NEW i \in Nat
  PROVE  Frame(i) % PageUnits = Chosen.base % PageUnits
<1> DEFINE b == Chosen.base
           c == (b % Word) + KernelSize
           s == pmm.start
           d == s + PageUnits * i
<1>0. /\ Word \in Nat \ {0} /\ PageUnits \in Nat \ {0} /\ KernelSize \in Nat /\ b \in Nat
      /\ Word % PageUnits = 0 /\ kend - KernelSlot + 1 \in Nat
      /\ KernelSize = PageUnits * (kend - KernelSlot + 1)
  BY KernelSizes, Sizes, BootAssumption DEF IsEntry
<1>1. b % Word \in Nat /\ s \in Nat
  <2>1. s \in Nat
    BY RegionNumbers
  <2> HIDE DEF b
  <2>2. b % Word \in Nat
    BY <1>0, DivMod
  <2> QED
    BY <2>1, <2>2
<1>2. c \in Nat /\ d \in Nat /\ s = c % Word
  BY <1>0, <1>1 DEF RegionStart
<1>3. Frame(i) = d % Word
  BY DEF Frame
<1>4. (b % Word) % PageUnits = b % PageUnits
  BY <1>0, ModOfMultiple
<1>5. c % PageUnits = (b % Word) % PageUnits
  <2> DEFINE m == b % Word
             k == kend - KernelSlot + 1
  <2>1. c = m + PageUnits * k /\ m \in Nat /\ k \in Nat
    BY <1>0, <1>1
  <2> HIDE DEF m, k, c
  <2>2. c % PageUnits = m % PageUnits
    BY <1>0, <2>1, ModAddMultiple
  <2> QED
    BY <2>2 DEF m
<1>6. s % PageUnits = c % PageUnits
  <2> HIDE DEF c, s
  <2>0. /\ Word \in Nat \ {0} /\ PageUnits \in Nat \ {0} /\ Word % PageUnits = 0 /\ c \in Nat
    BY <1>0, <1>2
  <2>1. (c % Word) % PageUnits = c % PageUnits
    BY ONLY <2>0, ModOfMultiple
  <2> QED
    BY <1>2, <2>1
<1>7. d % PageUnits = s % PageUnits
  <2> HIDE DEF s
  <2> QED
    BY <1>0, <1>1, ModAddMultiple
<1>8. (d % Word) % PageUnits = d % PageUnits
  <2> HIDE DEF d
  <2>0. /\ Word \in Nat \ {0} /\ PageUnits \in Nat \ {0} /\ Word % PageUnits = 0 /\ d \in Nat
    BY <1>0, <1>2
  <2> QED
    BY ONLY <2>0, ModOfMultiple
<1> HIDE DEF b, c, s, d
<1>9. Frame(i) % PageUnits = b % PageUnits
  BY <1>3, <1>4, <1>5, <1>6, <1>7, <1>8
<1> QED
  BY <1>9 DEF b

(* The stack of FrameLimit addresses and the bitmap fit a page.  The code's *)
(* limit is 128.                                                            *)
LimitFits == FrameLimit <= 193

(* The rounding of the bitmap's address: with up to 193 frames the tables   *)
(* fill less than the page behind the kernel; the bitmap starts above the   *)
(* top of the stack unless the number of frames is one more than a multiple *)
(* of 64.                                                                   *)
LEMMA TablesFit ==
  ASSUME NEW n \in 0 .. 193
  PROVE  /\ BitmapAt(n) + ((n + 7) \div 8) <= 4096 /\ PhymmEnd(n) = 4096
         /\ n > 0 => (StackTop(n) < BitmapAt(n) <=> n % 64 # 1)
         /\ n > 0 => StackTop(n) <= BitmapAt(n)
<1>1. BitmapAt(n) + ((n + 7) \div 8) <= 4096 /\ PhymmEnd(n) = 4096
  BY DEF BitmapAt, StackTop, PhymmEnd, BitmapBytes
<1>2. n > 0 => StackTop(n) <= BitmapAt(n)
  BY DEF BitmapAt, StackTop
<1>3. n > 0 => (StackTop(n) < BitmapAt(n) <=> n % 64 # 1)
  BY DEF BitmapAt, StackTop
<1> QED
  BY <1>1, <1>2, <1>3

(* The tables fit, and PhyMM's initial state is reached under exactly the   *)
(* four conditions.                                                         *)
LEMMA HandsOverHolds == ASSUME LimitFits, IInv PROVE HandsOver
<1> SUFFICES ASSUME pc = "ok"
             PROVE  /\ TablesInPage
                    /\ StartsAsAssumed <=> /\ pmm.size > 0 /\ pmm.size % 64 # 1
                                           /\ Chosen.base % PageUnits = 0 /\ pmm.inuse = {}
  BY DEF HandsOver
<1>0. /\ kend \in KernelEnds /\ IsEntry(Chosen) /\ PmmOK(pmm, Chosen)
  BY SeenIsEntry DEF IInv, LoaderOK, SearchOK, Chosen
<1> DEFINE n == pmm.size
<1>1. n \in Nat /\ n \in 0 .. 193
  <2>1. n \in 0 .. FrameLimit
    BY <1>0, RegionNumbers DEF PmmOK
  <2> QED
    BY <2>1, BootAssumption DEF LimitFits
<1>2. /\ pmm.bitmap = BitmapAt(n) /\ pmm.end = PhymmEnd(n) /\ pmm.sp = n - 1 /\ pmm.wiped = Wiped(n)
      /\ pmm.start = RegionStart(Chosen)
  BY <1>0 DEF PmmOK
<1>3. TablesInPage
  <2>1. ASSUME Chosen.base = KernelStart PROVE pmm.start = (KernelEnd + PageUnits) % Word
    <3>1. /\ KernelStart \in Nat /\ KernelSize \in Nat /\ Word \in Nat \ {0}
          /\ KernelStart + KernelSize = KernelEnd + PageUnits
      BY <1>0, KernelSizes, Sizes
    <3>2. ((KernelStart % Word) + KernelSize) % Word = (KernelStart + KernelSize) % Word
      BY <3>1, ModSum
    <3> QED
      BY <1>2, <2>1, <3>1, <3>2 DEF RegionStart
  <2> QED
    BY <1>1, <1>2, <2>1, TablesFit DEF TablesInPage
<1>4. (\A i \in Frames : Frame(i) % PageUnits = 0) <=> (n > 0 => Chosen.base % PageUnits = 0)
  <2>1. \A i \in Frames : Frame(i) % PageUnits = Chosen.base % PageUnits
    BY <1>0, <1>2, FrameAligned DEF Frames
  <2>2. n > 0 => 0 \in Frames
    BY <1>1 DEF Frames
  <2>3. ~(n > 0) => Frames = {}
    BY <1>1 DEF Frames
  <2> QED
    BY <2>1, <2>2, <2>3
<1>5. n > 0 /\ StackTop(n) < pmm.bitmap => pmm.wiped = {}
  <2> SUFFICES ASSUME n > 0, StackTop(n) < BitmapAt(n), NEW i \in Wiped(n) PROVE FALSE
    BY <1>2
  <2>1. i \in 0 .. n - 1 /\ BitmapAt(n) <= 4 * i
    BY DEF Wiped
  <2>2. BitmapAt(n) \in Int
    BY <1>1 DEF BitmapAt, StackTop
  <2> QED
    BY <1>1, <2>1, <2>2 DEF StackTop
<1>6. n > 0 => (StackTop(n) < pmm.bitmap <=> n % 64 # 1)
  BY <1>1, <1>2, TablesFit
<1>7. StartsAsAssumed <=> /\ n > 0 /\ n % 64 # 1 /\ Chosen.base % PageUnits = 0 /\ pmm.inuse = {}
  <2>1. StartsAsAssumed <=> /\ n > 0 /\ pmm.sp = n - 1
                            /\ (\A i \in Frames : Frame(i) % PageUnits = 0)
                            /\ pmm.wiped = {} /\ pmm.inuse = {} /\ StackTop(n) < pmm.bitmap
    BY DEF StartsAsAssumed
  <2> QED
    BY <1>2, <1>4, <1>5, <1>6, <2>1
<1> QED
  BY <1>3, <1>7

-----------------------------------------------------------------------------

(* The pages counted fit the length, cut to a word or not.                  *)
LEMMA FitsIn ==
  ASSUME NEW P \in Nat \ {0}, NEW W \in Nat \ {0}, NEW V \in Nat \ {0}, NEW x \in Nat,
         NEW n \in Nat, n <= ((x % W) \div P) % V
  PROVE  P * n <= x
<1> DEFINE y == x % W
           z == y \div P
<1>1. y \in Nat /\ y <= x
  <2>1. y \in Nat /\ x \div W \in Nat /\ x = W * (x \div W) + y
    BY DivMod
  <2>2. W * (x \div W) \in Nat
    BY <2>1
  <2> QED
    BY <2>1, <2>2
<1> HIDE DEF y
<1>2. z \in Nat /\ P * z <= y
  <2>1. z \in Nat /\ y % P \in Nat /\ y = P * z + (y % P)
    BY <1>1, DivMod
  <2>2. P * z \in Nat
    BY <2>1
  <2> QED
    BY <2>1, <2>2
<1> HIDE DEF z
<1>3. z % V \in Nat /\ z % V <= z
  <2>1. z % V \in Nat /\ z \div V \in Nat /\ z = V * (z \div V) + (z % V)
    BY <1>2, DivMod
  <2>2. V * (z \div V) \in Nat
    BY <2>1
  <2> QED
    BY <2>1, <2>2
<1>4. n <= z
  <2>1. n <= z % V
    BY DEF z, y
  <2> QED
    BY <1>2, <1>3, <2>1
<1>5. P * n <= P * z
  BY <1>2, <1>4
<1>6. P * n \in Nat /\ P * z \in Nat
  BY <1>2
<1> QED
  BY <1>1, <1>2, <1>5, <1>6

(* A start at or above its region's base did not wrap.                      *)
LEMMA StartNoWrap ==
  ASSUME NEW W \in Nat \ {0}, NEW b \in Nat, NEW K \in Nat, K < W,
         NEW s \in Nat, s = ((b % W) + K) % W, b <= s
  PROVE  s = b + K /\ b + K < W
<1>1. b % W \in Nat
  BY DivMod
<1>2. (b % W) + K \in Nat
  BY <1>1
<1>3. s \in Nat /\ s < W
  BY <1>2, DivMod
<1>4. b < W
  BY <1>3
<1>5. b % W = b
  BY <1>4, ModSmall
<1>6. s = (b + K) % W
  BY <1>5
<1>7. CASE b + K < W
  BY <1>6, <1>7, ModSmall
<1>8. CASE b + K >= W
  <2>1. b + K = W * 1 + (b + K - W) /\ b + K - W \in 0 .. W - 1
    BY <1>4, <1>8
  <2> DEFINE x == b + K
             r == b + K - W
  <2>2. x = W * 1 + r /\ r \in 0 .. W - 1
    BY <2>1
  <2>3. r < b
    OBVIOUS
  <2> HIDE DEF x, r
  <2>4. x % W = r
    BY <2>2, DivModOf
  <2>5. s = r
    BY <1>6, <2>4 DEF x
  <2>6. r \in Int
    BY <2>2
  <2> QED
    BY <2>3, <2>5, <2>6
<1> QED
  BY <1>7, <1>8

(* If no frame lies below the base of its region or across 4 GB, none       *)
(* wrapped: the first one beyond 4 GB would be at 0 or straddle.            *)
LEMMA FramesNoWrap ==
  ASSUME NEW W \in Nat \ {0}, NEW P \in Nat \ {0}, NEW b \in Nat \ {0}, NEW n \in Nat \ {0},
         NEW s \in Nat, s < W,
         \A i \in 0 .. n - 1 : b <= (s + P * i) % W /\ ((s + P * i) % W) + P <= W
  PROVE  s + P * n <= W
<1> SUFFICES ASSUME ~(s + P * n <= W) PROVE FALSE
  OBVIOUS
<1> DEFINE x == W - s
           i == x \div P
           r == x % P
<1>1. x \in Nat
  OBVIOUS
<1>2. i \in Nat /\ r \in 0 .. P - 1 /\ x = P * i + r
  BY <1>1, DivMod
<1>3. W = s + x
  OBVIOUS
<1> HIDE DEF x, i, r
<1>4. P * i \in Nat /\ P * n \in Nat /\ r \in Nat /\ r < P
  BY <1>2
<1>5. i < n
  <2> SUFFICES ASSUME i >= n PROVE FALSE
    BY <1>2
  <2>1. P * i >= P * n
    BY <1>2
  <2> QED
    BY <1>1, <1>2, <1>3, <1>4, <2>1
<1>6. i \in 0 .. n - 1
  BY <1>2, <1>5
<1>7. CASE r = 0
  <2>1. s + P * i = W * 1 + 0 /\ 0 \in 0 .. W - 1
    BY <1>1, <1>2, <1>3, <1>4, <1>7
  <2> DEFINE y == s + P * i
  <2>2. y = W * 1 + 0
    BY <2>1
  <2> HIDE DEF y
  <2>3. y % W = 0
    BY <2>1, <2>2, DivModOf
  <2>4. b <= (s + P * i) % W
    BY <1>6
  <2>5. b <= y % W
    BY <2>4 DEF y
  <2> QED
    BY <2>3, <2>5
<1>8. CASE r > 0
  <2> DEFINE y == s + P * i
  <2>1. y \in Nat /\ y < W /\ y = W - r
    BY <1>1, <1>2, <1>3, <1>4, <1>8
  <2> HIDE DEF y
  <2>2. y % W = y
    BY <2>1, ModSmall
  <2>3. y + P <= W
    BY <1>6, <2>2 DEF y
  <2> QED
    BY <1>4, <2>1, <2>3
<1> QED
  BY <1>4, <1>7, <1>8

(* Below 4 GB the addresses of the frames are not cut.                      *)
LEMMA PlainFrames ==
  ASSUME NEW W \in Nat \ {0}, NEW P \in Nat \ {0}, NEW s \in Nat, NEW n \in Nat,
         s + P * n <= W, NEW i \in 0 .. n - 1
  PROVE  /\ (s + P * i) % W = s + P * i /\ P * i \in Nat
         /\ s + P * i + P <= s + P * n
<1>0. i \in Nat /\ i + 1 <= n
  OBVIOUS
<1>1. P * i \in Nat /\ P * n \in Nat /\ P * (i + 1) = P * i + P
  BY <1>0
<1>2. P * (i + 1) <= P * n
  BY <1>0
<1>3. s + P * i + P <= s + P * n
  BY <1>1, <1>2
<1>4. s + P * i \in Nat /\ s + P * i < W
  BY <1>1, <1>3
<1>5. (s + P * i) % W = s + P * i
  BY <1>4, ModSmall
<1> QED
  BY <1>1, <1>3, <1>5

(* The frames lie in the region exactly when nothing was lost, and then off *)
(* the kernel.                                                              *)
LEMMA FramesAreSpareHolds == ASSUME IInv PROVE FramesAreSpare
<1> SUFFICES ASSUME pc = "ok", pmm.size > 0
             PROVE  /\ NothingLost <=> \A i \in Frames : InChosen(i)
                    /\ NothingLost /\ mb.flags = "mmap" /\ at < mb.n =>
                         \A i \in Frames : \/ Frame(i) + PageUnits <= KernelStart
                                           \/ KernelEnd + PageUnits <= Frame(i)
  BY DEF FramesAreSpare
<1> DEFINE b == Chosen.base
           L == Chosen.length
           K == KernelSize
           P == PageUnits
           W == Word
           n == pmm.size
           s == pmm.start
<1>0. /\ kend \in KernelEnds /\ IsEntry(Chosen) /\ PmmOK(pmm, Chosen) /\ Usable(Chosen)
      /\ LoaderOK(mb, kend) /\ at \in Nat
  BY SeenIsEntry DEF IInv, LoaderOK, SearchOK, Chosen
<1>1. /\ b \in Nat \ {0} /\ L \in Nat /\ K \in Nat /\ P \in Nat \ {0} /\ W \in Nat \ {0}
      /\ K < W /\ b >= KernelStart /\ KernelStart \in Nat /\ KernelEnd \in Nat
      /\ K = KernelEnd - KernelStart + P /\ K >= P
  BY <1>0, KernelSizes, Sizes DEF IsEntry, Usable
<1>2. n \in Nat \ {0} /\ n \in Nat /\ s \in Nat /\ s < W /\ s = ((b % W) + K) % W
  <2>1. n \in Nat
    BY <1>0, RegionNumbers, BootAssumption DEF PmmOK, ManagedFrames
  <2>2. n \in Nat \ {0}
    BY <2>1
  <2>3. s = RegionStart(Chosen)
    BY <1>0 DEF PmmOK
  <2>4. RegionStart(Chosen) \in 0 .. W - 1
    BY <1>0, RegionNumbers
  <2>5. s = ((b % W) + K) % W
    BY <2>3 DEF RegionStart
  <2> HIDE DEF n, s, W, b, K
  <2>6. s \in Nat /\ s < W
    BY <1>1, <2>3, <2>4
  <2> QED
    BY <2>1, <2>2, <2>5, <2>6
<1>3. L >= K => P * n <= L - K
  <2> SUFFICES ASSUME L >= K PROVE P * n <= L - K
    OBVIOUS
  <2>1. L - K \in Nat
    BY <1>1
  <2>2. Word64 \in Nat \ {0}
    BY <1>1, BootAssumption
  <2>3. n <= RegionPages(Chosen)
    BY <1>0, RegionNumbers, BootAssumption DEF PmmOK, ManagedFrames
  <2>4. n <= (((L - K) % Word64) \div P) % W
    BY <2>3 DEF RegionPages
  <2> DEFINE x == L - K
  <2> HIDE DEF x, P, W, n
  <2>5. P * n <= x
    BY <1>1, <1>2, <2>1, <2>2, <2>4, FitsIn DEF x
  <2> QED
    BY <2>5 DEF x
<1>4. \A i : Frame(i) = (s + P * i) % W
  BY DEF Frame
<1>5. \A i : InChosen(i) <=> b <= Frame(i) /\ Frame(i) + P <= b + L /\ Frame(i) + P <= W
  BY DEF InChosen, Holds
<1>6. NothingLost <=> L >= K /\ b + K + P * n <= W
  BY DEF NothingLost
<1>7. Frames = 0 .. n - 1
  BY DEF Frames
<1> HIDE DEF b, L, K, P, W, n, s
<1>9. P * n \in Nat /\ P * n >= P
  BY <1>1, <1>2
<1>10. ASSUME NothingLost
       PROVE  /\ s = b + K
              /\ \A i \in Frames : Frame(i) \in Nat /\ Frame(i) >= s /\ Frame(i) + P <= s + P * n /\ InChosen(i)
  <2>1. L >= K /\ b + K + P * n <= W /\ P * n <= L - K
    BY <1>3, <1>6, <1>10
  <2>2. s = b + K
    <3>1. b < W /\ b + K < W /\ b + K \in Nat
      BY <1>1, <1>9, <2>1
    <3>2. b % W = b /\ (b + K) % W = b + K
      BY <1>1, <3>1, ModSmall
    <3> QED
      BY <1>2, <3>2
  <2>3. s + P * n <= W
    BY <1>1, <1>9, <2>1, <2>2
  <2>4. ASSUME NEW i \in Frames
        PROVE  Frame(i) \in Nat /\ Frame(i) >= s /\ Frame(i) + P <= s + P * n
    <3>0. i \in 0 .. n - 1
      BY <1>7
    <3>1. /\ (s + P * i) % W = s + P * i /\ P * i \in Nat
          /\ s + P * i + P <= s + P * n
      BY <1>1, <1>2, <2>3, <3>0, PlainFrames
    <3> QED
      BY <1>1, <1>2, <1>4, <3>1
  <2>5. \A i \in Frames : InChosen(i)
    BY <1>1, <1>2, <1>5, <1>9, <2>1, <2>2, <2>3, <2>4
  <2> QED
    BY <2>2, <2>4, <2>5
<1>11. ASSUME \A i \in Frames : InChosen(i) PROVE NothingLost
  <2>1. \A i \in 0 .. n - 1 : /\ b <= (s + P * i) % W /\ ((s + P * i) % W) + P <= b + L
                              /\ ((s + P * i) % W) + P <= W
    BY <1>4, <1>5, <1>7, <1>11
  <2>2. b <= s /\ s + P <= b + L
    <3>1. 0 \in 0 .. n - 1 /\ s + P * 0 = s
      BY <1>1, <1>2
    <3>2. s % W = s
      BY <1>1, <1>2, ModSmall
    <3> QED
      BY <2>1, <3>1, <3>2
  <2>3. s = b + K
    <3>1. b \in Nat /\ s \in Nat /\ K \in Nat /\ W \in Nat \ {0} /\ K < W
      BY <1>1, <1>2
    <3>2. s = ((b % W) + K) % W
      BY <1>2
    <3>3. b <= s
      BY <2>2
    <3> QED
      BY ONLY <3>1, <3>2, <3>3, StartNoWrap
  <2>4. s + P * n <= W
    BY <1>1, <1>2, <2>1, FramesNoWrap
  <2>5. L >= K
    BY <1>1, <2>2, <2>3
  <2>6. b + K + P * n <= W
    BY <1>1, <1>9, <2>3, <2>4
  <2> QED
    BY <1>6, <2>5, <2>6
<1>12. ASSUME NothingLost, mb.flags = "mmap", at < mb.n, NEW i \in Frames
       PROVE  Frame(i) + P <= KernelStart \/ KernelEnd + P <= Frame(i)
  <2>1. /\ s = b + K /\ Frame(i) \in Nat /\ Frame(i) >= s /\ Frame(i) + P <= b + L
    BY <1>5, <1>10, <1>12
  <2>2. mb.n \in Nat /\ at + 1 \in 1 .. mb.n
    BY <1>0, <1>12 DEF LoaderOK
  <2>3. Chosen = mb.mem[at + 1]
    BY <1>0, <1>12, <2>2 DEF Chosen, Seen, CopiedBytes, EntryBytes
  <2>4. Credible(mb, kend)
    BY <1>0, <1>12 DEF LoaderOK
  <2>5. PICK j \in 1 .. mb.n : Holds(mb.mem[j], KernelStart, KernelEnd)
    BY <2>4 DEF Credible, KernelEnd
  <2> DEFINE f == mb.mem[j]
  <2>6. f.base \in Nat /\ f.length \in Nat /\ f.base <= KernelStart /\ KernelEnd <= f.base + f.length
    BY <1>0, <2>2, <2>5 DEF LoaderOK, IsEntry, Holds
  <2>7. CASE j = at + 1
    <3>1. f.base = b
      BY <2>3, <2>7 DEF b
    <3> HIDE DEF f
    <3>2. b = KernelStart
      BY <1>1, <2>6, <3>1
    <3> QED
      BY <1>1, <2>1, <3>2
  <2>8. CASE j # at + 1
    <3>1. ~Overlap(Chosen, f)
      BY <2>2, <2>3, <2>4, <2>8 DEF Credible
    <3>2. ~(b < f.base + f.length) \/ ~(f.base < b + L)
      BY <3>1 DEF Overlap, b, L
    <3> HIDE DEF f
    <3> QED
      BY <1>1, <2>1, <2>6, <3>2
  <2> QED
    BY <2>7, <2>8
<1> QED
  BY <1>10, <1>11, <1>12 DEF P

(* For any layout of the tables, boot.s never executes an address that is   *)
(* not mapped, before, while and after paging is turned on.                 *)
THEOREM RunsWhereLoaded == Spec => []RunsMapped
<1>1. IInv => RunsMapped
  BY RunsMappedHolds
<1> QED
  BY <1>1, InvariantHolds, PTL

(* For every memory map init_phymm takes the first usable entry.            *)
THEOREM FirstRegionTaken == Spec => []TakesFirst
<1>1. IInv => TakesFirst
  BY TakesFirstHolds
<1> QED
  BY <1>1, InvariantHolds, PTL

(* For every memory map, kernel size and word size, the frames handed to    *)
(* the allocator lie in the region taken exactly when no conversion lost    *)
(* anything, and then none overlaps the kernel or the allocator's own       *)
(* tables.                                                                  *)
THEOREM FramesKeepClear == Spec => []FramesAreSpare
<1>1. IInv => FramesAreSpare
  BY FramesAreSpareHolds
<1> QED
  BY <1>1, InvariantHolds, PTL

(* As long as the limit on the frames is at most 193, the allocator's       *)
(* tables fit their page, and it starts as PhyMM assumes under exactly the  *)
(* four conditions of HandsOver.                                            *)
THEOREM AllocatorStarts == ASSUME LimitFits PROVE Spec => []HandsOver
<1>1. IInv => HandsOver
  BY HandsOverHolds
<1> QED
  BY <1>1, InvariantHolds, PTL

=============================================================================
