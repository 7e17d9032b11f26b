----------------------------- MODULE PciProofs -----------------------------
(***************************************************************************)
(* Proofs about the scan of the PCI buses and the loading of drivers: the   *)
(* three nested loops with their early exits find exactly what answers, and *)
(* a network card that counts as ready is one card.                         *)
(***************************************************************************)
EXTENDS Pci, TLAPS

(* What gpci_devs lists.                                                    *)
Listed(d) == {d[k] : k \in 1 .. Len(d)}

(* It lists nothing twice.                                                  *)
Once(d) == \A j, k \in 1 .. Len(d) : d[j] = d[k] => j = k

(* An entry is added behind the others.                                     *)
LEMMA AppendListed ==
  ASSUME NEW S, NEW d \in Seq(S), Once(d), NEW e \in S, e \notin Listed(d)
  PROVE  /\ Append(d, e) \in Seq(S) /\ Once(Append(d, e))
         /\ Listed(Append(d, e)) = Listed(d) \cup {e}
<1> DEFINE x == Append(d, e)
<1>1. /\ x \in Seq(S) /\ Len(x) = Len(d) + 1 /\ Len(d) \in Nat /\ x[Len(d) + 1] = e
      /\ \A k \in 1 .. Len(d) : x[k] = d[k]
  OBVIOUS
<1> HIDE DEF x
<1>2. \A k \in 1 .. Len(x) : k \in 1 .. Len(d) \/ k = Len(d) + 1
  BY <1>1
<1>3. \A k \in 1 .. Len(d) : d[k] # e /\ k \in 1 .. Len(x)
  BY <1>1 DEF Listed
<1>4. Once(x)
  <2> SUFFICES ASSUME NEW j \in 1 .. Len(x), NEW k \in 1 .. Len(x), x[j] = x[k] PROVE j = k
    BY DEF Once
  <2>1. CASE j \in 1 .. Len(d) /\ k \in 1 .. Len(d)
    BY <1>1, <2>1 DEF Once
  <2>2. CASE j = Len(d) + 1 \/ k = Len(d) + 1
    BY <1>1, <1>2, <1>3, <2>2
  <2> QED
    BY <1>2, <2>1, <2>2
<1>5. Listed(x) \subseteq Listed(d) \cup {e}
  BY <1>1, <1>2 DEF Listed
<1>6. Listed(d) \cup {e} \subseteq Listed(x)
  <2>1. Len(d) + 1 \in 1 .. Len(x)
    BY <1>1
  <2> QED
    BY <1>1, <1>3, <2>1 DEF Listed
<1> QED
  BY <1>1, <1>4, <1>5, <1>6 DEF x

-----------------------------------------------------------------------------

(* The configuration space the scan reads.                                  *)
CfgOK == cfg \in [Where -> [kind : Kinds, multi : BOOLEAN]]

(* Function 0 of the same slot.                                             *)
Zero(w) == Place(w.bus, w.slot, 0)

(* Functions above 0 count where function 0 says so.                        *)
Announced(w) == w.func # 0 => Present(Zero(w)) /\ cfg[Zero(w)].multi

(* What a scan should find, with function 0 written out.                    *)
LEMMA ExpectedForm ==
  ASSUME NEW w
  PROVE  w \in Expected <=> w \in Where /\ w.bus \in BusesThere /\ Present(w) /\ Announced(w)
<1>1. ASSUME w \in Where PROVE [w EXCEPT !.func = 0] = Zero(w)
  BY <1>1 DEF Where, Zero, Place
<1> QED
  BY <1>1 DEF Expected, Announced

(* Place w comes before place p in the order of the nested loops.           *)
Before(w, p) ==
  \/ w.bus < p.bus
  \/ w.bus = p.bus /\ w.slot < p.slot
  \/ w.bus = p.bus /\ w.slot = p.slot /\ w.func < p.func

(* The scan is over.                                                        *)
Over == {"done", "load", "panic", "break", "hang", "send"}

(* The loops have passed w.                                                 *)
Seen(w, p, a) ==
  \/ p = "bus" /\ w.bus < a.bus
  \/ p \in {"slot", "func"} /\ Before(w, a)
  \/ p \in Over

(* The values of the loop variables; the bus loop ends one past the last    *)
(* bus.                                                                     *)
Posns == [bus : 0 .. NBuses, slot : 0 .. NSlots - 1, func : Funcs]

(* The loop variables: inside a bus that is there, at function 0 in the     *)
(* slot loop, above it only where function 0 announces more.                *)
AtOK(p, a) ==
  /\ a \in Posns
  /\ p = "bus" => Multi(Root)
  /\ p \in {"slot", "func"} => a.bus \in BusesThere
  /\ p = "slot" => a.func = 0
  /\ p = "func" => a.func # 0 /\ Announced(a)

(* gpci_devs lists exactly what should have been found so far, once each.   *)
ScanOK(p, a, d) ==
  /\ p \in {"root", "bus", "slot", "func"} \cup Over
  /\ AtOK(p, a)
  /\ d \in Seq(Where) /\ Once(d)
  /\ Listed(d) = {w \in Expected : Seen(w, p, a)}

(* The inductive invariant of the scan.  FoundExactly speaks of its end     *)
(* only; this says what is listed at every point of the three loops.        *)
IInv == CfgOK /\ ScanOK(pc, at, devs)

(* Places and their parts.                                                  *)
LEMMA Numbers ==
  /\ \A w \in Where : w.bus \in Int /\ w.slot \in Int /\ w.func \in Int /\ w.bus < NBuses
                      /\ w = Place(w.bus, w.slot, w.func)
  /\ \A a \in Posns : /\ a.bus \in 0 .. NBuses /\ a.slot \in 0 .. NSlots - 1 /\ a.func \in 0 .. NFuncs - 1
                      /\ a = Place(a.bus, a.slot, a.func) /\ (a.bus # NBuses => a \in Where)
  /\ \A b \in 0 .. NBuses, s \in 0 .. NSlots - 1, f \in 0 .. NFuncs - 1 :
       /\ Place(b, s, f) \in Posns /\ Place(b, s, f).bus = b
       /\ Place(b, s, f).slot = s /\ Place(b, s, f).func = f
  /\ BusesThere \subseteq 0 .. NBuses - 1
<1>0. NBuses \in Nat \ {0} /\ NSlots \in Nat \ {0} /\ NFuncs \in Nat \ {0}
  BY PciAssumption
<1>1. \A w \in Where : w.bus \in Int /\ w.slot \in Int /\ w.func \in Int /\ w.bus < NBuses
                       /\ w = Place(w.bus, w.slot, w.func)
  BY <1>0 DEF Where, Buses, Funcs, Place
<1>2. \A a \in Posns : /\ a.bus \in 0 .. NBuses /\ a.slot \in 0 .. NSlots - 1 /\ a.func \in 0 .. NFuncs - 1
                       /\ a = Place(a.bus, a.slot, a.func)
  BY DEF Posns, Funcs, Place
<1>3. \A a \in Posns : a.bus # NBuses => a \in Where
  BY <1>0 DEF Posns, Where, Buses, Funcs
<1>4. \A b \in 0 .. NBuses, s \in 0 .. NSlots - 1, f \in 0 .. NFuncs - 1 :
        /\ Place(b, s, f) \in Posns /\ Place(b, s, f).bus = b
        /\ Place(b, s, f).slot = s /\ Place(b, s, f).func = f
  BY DEF Place, Posns, Funcs
<1>5. BusesThere \subseteq 0 .. NBuses - 1
  BY <1>0 DEF BusesThere, Buses
<1> QED
  BY <1>1, <1>2, <1>3, <1>4, <1>5

(* What should be found is somewhere the loops come by.                     *)
LEMMA ExpectedPlaces ==
  ASSUME NEW w \in Expected
  PROVE  /\ w \in Where /\ w.bus \in BusesThere
         /\ w.bus \in 0 .. NBuses - 1 /\ w.slot \in 0 .. NSlots - 1 /\ w.func \in 0 .. NFuncs - 1
         /\ w = Place(w.bus, w.slot, w.func)
<1>1. w \in Where /\ w.bus \in BusesThere
  BY ExpectedForm
<1>2. w.bus \in 0 .. NBuses - 1 /\ w.slot \in 0 .. NSlots - 1 /\ w.func \in 0 .. NFuncs - 1
  BY <1>1 DEF Where, Buses, Funcs
<1> QED
  BY <1>1, <1>2, Numbers

(* Nothing writes to the configuration space, so it is enough to look at    *)
(* the loops and the list.                                                  *)
LEMMA SameConfig ==
  ASSUME cfg' = cfg, IInv, ScanOK(pc', at', devs')
  PROVE  IInv'
<1>1. /\ Multi(Root)' = Multi(Root) /\ Expected' = Expected /\ BusesThere' = BusesThere
      /\ \A w : Announced(w)' = Announced(w)
  BY DEF Expected, BusesThere, Multi, Present, Announced, Root
<1>2. CfgOK'
  BY DEF IInv, CfgOK
<1> QED
  BY <1>1, <1>2 DEF IInv, ScanOK, AtOK, Seen, Before, Once, Listed

(* Before the scan.                                                         *)
LEMMA InitScan == ASSUME Init PROVE IInv
<1>1. CfgOK
  <2>1. PICK there \in Crowds : \E f \in [there -> Answer] : IsConfig(f, there)
    BY DEF Init
  <2>2. PICK f \in [there -> Answer] : IsConfig(f, there)
    BY <2>1
  <2>3. cfg = [w \in Where |-> IF w \in there THEN f[w] ELSE Silent]
    BY <2>2 DEF IsConfig
  <2>4. Silent \in [kind : Kinds, multi : BOOLEAN] /\ Answer \subseteq [kind : Kinds, multi : BOOLEAN]
    BY DEF Silent, Answer, Kinds
  <2>5. \A w \in there : f[w] \in [kind : Kinds, multi : BOOLEAN]
    BY <2>4
  <2> QED
    BY <2>3, <2>4, <2>5 DEF CfgOK
<1>2. pc = "root" /\ at = Place(0, 0, 0) /\ devs = <<>>
  BY DEF Init
<1>3. at \in Posns
  BY <1>2, Numbers, PciAssumption
<1>4. AtOK(pc, at)
  BY <1>2, <1>3 DEF AtOK
<1>5. devs \in Seq(Where) /\ Listed(devs) = {} /\ Once(devs)
  BY <1>2 DEF Listed, Once
<1>6. \A w : ~Seen(w, pc, at)
  BY <1>2 DEF Seen, Over
<1> QED
  BY <1>1, <1>2, <1>4, <1>5, <1>6 DEF IInv, ScanOK

(* pci_enumerate_devs starts the loop over the buses, or the scan of the    *)
(* only one.                                                                *)
LEMMA EnumerateScan == ASSUME IInv, EnumerateMulti \/ EnumerateSingle PROVE IInv'
<1>0. pc = "root" /\ at' = Place(0, 0, 0) /\ devs' = devs /\ cfg' = cfg
  BY DEF EnumerateMulti, EnumerateSingle, Root
<1>1. ScanOK(pc, at, devs)
  BY DEF IInv
<1>2. at' \in Posns /\ at'.bus = 0 /\ at'.slot = 0 /\ at'.func = 0
  BY <1>0, Numbers, PciAssumption
<1>3. Listed(devs) = {}
  BY <1>0, <1>1 DEF ScanOK, Seen, Over
<1>4. \A w \in Expected : w \in Where /\ w.bus >= 0 /\ w.slot >= 0 /\ w.func >= 0
  BY ExpectedPlaces
<1>5. ASSUME NEW p \in {"bus", "slot"}, NEW w \in Expected PROVE ~Seen(w, p, at')
  <2>1. w.bus \in Int /\ w.slot \in Int /\ w.func \in Int
    BY <1>4, Numbers
  <2> QED
    BY <1>2, <1>4, <2>1 DEF Seen, Before, Over
<1>6. CASE EnumerateMulti
  <2>1. pc' = "bus" /\ Multi(Root)
    BY <1>6 DEF EnumerateMulti
  <2>2. AtOK(pc', at')
    BY <1>2, <2>1 DEF AtOK
  <2>3. ScanOK(pc', at', devs')
    BY <1>0, <1>1, <1>3, <1>5, <2>1, <2>2 DEF ScanOK
  <2> QED
    BY <1>0, <2>3, SameConfig
<1>7. CASE EnumerateSingle
  <2>1. pc' = "slot" /\ ~Multi(Root)
    BY <1>7 DEF EnumerateSingle
  <2>2. AtOK(pc', at')
    BY <1>2, <2>1 DEF AtOK, BusesThere
  <2>3. ScanOK(pc', at', devs')
    BY <1>0, <1>1, <1>3, <1>5, <2>1, <2>2 DEF ScanOK
  <2> QED
    BY <1>0, <2>3, SameConfig
<1> QED
  BY <1>6, <1>7

(* The loop over the buses: a bus whose function of the root does not       *)
(* answer is passed by, and nothing is expected there.                      *)
LEMMA NextBusScan == ASSUME IInv, NextBus PROVE IInv'
<1>0. pc = "bus" /\ devs' = devs /\ cfg' = cfg
  BY DEF NextBus
<1>1. ScanOK(pc, at, devs)
  BY DEF IInv
<1>2. /\ at \in Posns /\ Multi(Root) /\ at.bus \in 0 .. NBuses /\ at = Place(at.bus, at.slot, at.func)
      /\ at.slot \in 0 .. NSlots - 1 /\ at.func \in 0 .. NFuncs - 1
  BY <1>0, <1>1, Numbers DEF ScanOK, AtOK
<1>3. \A w : w \in Listed(devs) <=> w \in Expected /\ w.bus < at.bus
  BY <1>0, <1>1 DEF ScanOK, Seen, Over
<1>4. \A w \in Expected : /\ w \in Where /\ w.bus \in BusesThere /\ w.bus \in Int /\ w.bus < NBuses
                          /\ w.slot \in Int /\ w.func \in Int /\ w.slot >= 0 /\ w.func >= 0
  BY ExpectedPlaces, PciAssumption
<1>5. CASE at.bus = NBuses
  <2>1. pc' = "done" /\ at' = at
    BY <1>5 DEF NextBus
  <2>2. \A w : w \in Listed(devs) <=> w \in Expected
    BY <1>3, <1>4, <1>5
  <2>3. AtOK(pc', at')
    BY <1>2, <2>1 DEF AtOK
  <2>4. ScanOK(pc', at', devs')
    BY <1>0, <1>1, <2>1, <2>2, <2>3 DEF ScanOK, Seen, Over
  <2> QED
    BY <1>0, <2>4, SameConfig
<1>6. CASE at.bus # NBuses /\ Present(Place(0, 0, at.bus))
  <2>1. pc' = "slot" /\ at' = [at EXCEPT !.slot = 0, !.func = 0]
    BY <1>6 DEF NextBus
  <2>2. at' = Place(at.bus, 0, 0)
    BY <1>2, <2>1 DEF Place
  <2>3. at' \in Posns /\ at'.bus = at.bus /\ at'.slot = 0 /\ at'.func = 0
    BY <1>2, <2>2, Numbers, PciAssumption
  <2>4. at.bus \in BusesThere
    BY <1>2, <1>6, PciAssumption DEF BusesThere, Buses
  <2>5. AtOK(pc', at')
    BY <2>1, <2>3, <2>4 DEF AtOK
  <2>6. \A w \in Expected : Seen(w, pc', at') <=> w.bus < at.bus
    BY <1>4, <2>1, <2>3 DEF Seen, Before, Over
  <2>7. ScanOK(pc', at', devs')
    BY <1>0, <1>1, <1>3, <2>1, <2>5, <2>6 DEF ScanOK
  <2> QED
    BY <1>0, <2>7, SameConfig
<1>7. CASE at.bus # NBuses /\ ~Present(Place(0, 0, at.bus))
  <2>1. pc' = pc /\ at' = [at EXCEPT !.bus = at.bus + 1]
    BY <1>7 DEF NextBus
  <2>2. at' = Place(at.bus + 1, at.slot, at.func)
    BY <1>2, <2>1 DEF Place
  <2>3. at.bus + 1 \in 0 .. NBuses
    BY <1>2, <1>7, PciAssumption
  <2>4. at' \in Posns /\ at'.bus = at.bus + 1
    BY <1>2, <2>2, <2>3, Numbers
  <2>5. AtOK(pc', at')
    BY <1>0, <1>2, <2>1, <2>4 DEF AtOK
  <2>6. at.bus \notin BusesThere
    BY <1>2, <1>7 DEF BusesThere
  <2>7. \A w \in Expected : w.bus < at.bus + 1 <=> w.bus < at.bus
    BY <1>2, <1>4, <2>6
  <2>8. \A w \in Expected : Seen(w, pc', at') <=> w.bus < at.bus
    BY <1>0, <2>1, <2>4, <2>7 DEF Seen, Over
  <2>9. ScanOK(pc', at', devs')
    BY <1>0, <1>1, <1>3, <2>1, <2>5, <2>8 DEF ScanOK
  <2> QED
    BY <1>0, <2>9, SameConfig
<1> QED
  BY <1>5, <1>6, <1>7

(* The end of a slot: everything expected in it is listed.                  *)
LEMMA NextSlotScan ==
  ASSUME IInv, pc \in {"slot", "func"}, NextSlot(at), NEW d \in Seq(Where), Once(d),
         \A w : w \in Listed(d) <=>
                  w \in Expected /\ (w.bus < at.bus \/ (w.bus = at.bus /\ w.slot <= at.slot))
  PROVE  ScanOK(pc', at', d)
<1>1. ScanOK(pc, at, devs)
  BY DEF IInv
<1>2. /\ at \in Posns /\ at.bus \in 0 .. NBuses - 1 /\ at = Place(at.bus, at.slot, at.func)
      /\ at.slot \in 0 .. NSlots - 1 /\ at.func \in 0 .. NFuncs - 1 /\ at.bus \in BusesThere
  BY <1>1, Numbers DEF ScanOK, AtOK
<1>4. \A w \in Expected : /\ w \in Where /\ w.bus \in BusesThere /\ w.bus \in Int /\ w.bus < NBuses
                          /\ w.slot \in Int /\ w.func \in Int /\ w.slot >= 0 /\ w.func >= 0
                          /\ w.slot < NSlots
  BY ExpectedPlaces, PciAssumption
<1>5. CASE at.slot + 1 < NSlots
  <2>1. pc' = "slot" /\ at' = [at EXCEPT !.slot = at.slot + 1, !.func = 0]
    BY <1>5 DEF NextSlot
  <2>2. at' = Place(at.bus, at.slot + 1, 0)
    BY <1>2, <2>1 DEF Place
  <2>3. at.slot + 1 \in 0 .. NSlots - 1 /\ 0 \in 0 .. NFuncs - 1 /\ at.bus \in 0 .. NBuses
    BY <1>2, <1>5, PciAssumption
  <2>4. at' \in Posns /\ at'.bus = at.bus /\ at'.slot = at.slot + 1 /\ at'.func = 0
    BY <2>2, <2>3, Numbers
  <2>5. AtOK(pc', at')
    BY <1>2, <2>1, <2>4 DEF AtOK
  <2>6. \A w \in Expected :
          Seen(w, pc', at') <=> (w.bus < at.bus \/ (w.bus = at.bus /\ w.slot <= at.slot))
    BY <1>2, <1>4, <2>1, <2>4 DEF Seen, Before, Over
  <2> QED
    BY <2>1, <2>5, <2>6 DEF ScanOK
<1>6. CASE ~(at.slot + 1 < NSlots) /\ Multi(Root)
  <2>1. pc' = "bus" /\ at' = [at EXCEPT !.bus = at.bus + 1]
    BY <1>6 DEF NextSlot
  <2>2. at' = Place(at.bus + 1, at.slot, at.func)
    BY <1>2, <2>1 DEF Place
  <2>3. at.bus + 1 \in 0 .. NBuses
    BY <1>2, PciAssumption
  <2>4. at' \in Posns /\ at'.bus = at.bus + 1
    BY <1>2, <2>2, <2>3, Numbers
  <2>5. AtOK(pc', at')
    BY <1>6, <2>1, <2>4 DEF AtOK
  <2>6. \A w \in Expected :
          Seen(w, pc', at') <=> (w.bus < at.bus \/ (w.bus = at.bus /\ w.slot <= at.slot))
    <3>1. \A w \in Expected : w.slot <= at.slot
      BY <1>2, <1>4, <1>6, PciAssumption
    <3> QED
      BY <1>2, <1>4, <2>1, <2>4, <3>1 DEF Seen, Over
  <2> QED
    BY <2>1, <2>5, <2>6 DEF ScanOK
<1>7. CASE ~(at.slot + 1 < NSlots) /\ ~Multi(Root)
  <2>1. pc' = "done" /\ at' = at
    BY <1>7 DEF NextSlot
  <2>2. AtOK(pc', at')
    BY <1>2, <2>1 DEF AtOK
  <2>3. \A w \in Expected : w.bus = at.bus /\ w.slot <= at.slot
    <3>1. BusesThere = {0}
      BY <1>7 DEF BusesThere
    <3> QED
      BY <1>2, <1>4, <1>7, <3>1, PciAssumption
  <2> QED
    BY <2>1, <2>2, <2>3 DEF ScanOK, Seen, Over
<1> QED
  BY <1>5, <1>6, <1>7

(* pci_add_dev lists the function at hand if it answers, and it was not     *)
(* listed before.                                                           *)
LEMMA ProbeAdds ==
  ASSUME IInv, pc \in {"slot", "func"}
  PROVE  /\ at \in Where /\ at.bus \in 0 .. NBuses - 1 /\ at.slot \in 0 .. NSlots - 1
         /\ at.func \in 0 .. NFuncs - 1 /\ at = Place(at.bus, at.slot, at.func) /\ at.bus \in BusesThere
         /\ pci_add_dev(at) \in Seq(Where) /\ Once(pci_add_dev(at))
         /\ \A w : w \in Listed(pci_add_dev(at)) <=> w \in Expected /\ (Before(w, at) \/ w = at)
<1>1. ScanOK(pc, at, devs)
  BY DEF IInv
<1>2. /\ at \in Posns /\ at.bus \in 0 .. NBuses - 1 /\ at = Place(at.bus, at.slot, at.func)
      /\ at.slot \in 0 .. NSlots - 1 /\ at.func \in 0 .. NFuncs - 1 /\ at.bus \in BusesThere
  BY <1>1, Numbers DEF ScanOK, AtOK
<1>3. at \in Where
  BY <1>2, Numbers, PciAssumption
<1>4. \A w : w \in Listed(devs) <=> w \in Expected /\ Before(w, at)
  BY <1>1 DEF ScanOK, Seen, Over
<1>5. devs \in Seq(Where) /\ Once(devs)
  BY <1>1 DEF ScanOK
<1>6. Announced(at)
  BY <1>1 DEF ScanOK, AtOK, Announced
<1>7. ~Before(at, at)
  BY <1>2 DEF Before
<1>8. CASE Present(at)
  <2>1. at \in Expected
    BY <1>2, <1>3, <1>6, <1>8, ExpectedForm
  <2>2. at \notin Listed(devs)
    BY <1>4, <1>7
  <2>3. pci_add_dev(at) = Append(devs, at)
    BY <1>8 DEF pci_add_dev
  <2>4. /\ pci_add_dev(at) \in Seq(Where) /\ Once(pci_add_dev(at))
        /\ Listed(pci_add_dev(at)) = Listed(devs) \cup {at}
    BY <1>3, <1>5, <2>2, <2>3, AppendListed
  <2> QED
    BY <1>2, <1>3, <1>4, <2>1, <2>4
<1>9. CASE ~Present(at)
  <2>1. at \notin Expected
    BY <1>9, ExpectedForm
  <2>2. pci_add_dev(at) = devs
    BY <1>9 DEF pci_add_dev
  <2> QED
    BY <1>2, <1>3, <1>4, <1>5, <2>1, <2>2
<1> QED
  BY <1>8, <1>9

(* Function 0 of a slot is probed; the others are left out exactly when     *)
(* nothing is expected of them.                                             *)
LEMMA ProbeSlotScan == ASSUME IInv, ProbeSlot PROVE IInv'
<1> DEFINE d == pci_add_dev(at)
<1>0. pc = "slot" /\ devs' = d /\ cfg' = cfg
  BY DEF ProbeSlot
<1>1. /\ at \in Where /\ at.bus \in 0 .. NBuses - 1 /\ at.slot \in 0 .. NSlots - 1
      /\ at.func \in 0 .. NFuncs - 1 /\ at = Place(at.bus, at.slot, at.func) /\ at.bus \in BusesThere
      /\ d \in Seq(Where) /\ Once(d)
      /\ \A w : w \in Listed(d) <=> w \in Expected /\ (Before(w, at) \/ w = at)
  BY <1>0, ProbeAdds
<1> HIDE DEF d
<1>2. at.func = 0 /\ Zero(at) = at
  <2>1. at.func = 0
    BY <1>0 DEF IInv, ScanOK, AtOK
  <2> QED
    BY <1>1, <2>1 DEF Zero
<1>3. CASE Present(at) /\ cfg[at].multi /\ NFuncs > 1
  <2>1. pc' = "func" /\ at' = [at EXCEPT !.func = 1]
    BY <1>3 DEF ProbeSlot
  <2>2. at' = Place(at.bus, at.slot, 1)
    BY <1>1, <2>1 DEF Place
  <2>3. 1 \in 0 .. NFuncs - 1 /\ at.bus \in 0 .. NBuses
    BY <1>1, <1>3, PciAssumption
  <2>4. at' \in Posns /\ at'.bus = at.bus /\ at'.slot = at.slot /\ at'.func = 1
    BY <1>1, <2>2, <2>3, Numbers
  <2>5. Announced(at')
    <3>1. Zero(at') = at
      BY <1>2, <2>4 DEF Zero
    <3> QED
      BY <1>3, <3>1 DEF Announced
  <2>6. AtOK(pc', at')
    BY <1>1, <2>1, <2>4, <2>5 DEF AtOK
  <2>7. ASSUME NEW w \in Expected PROVE Seen(w, pc', at') <=> (Before(w, at) \/ w = at)
    <3>1. /\ w.bus \in 0 .. NBuses - 1 /\ w.slot \in 0 .. NSlots - 1 /\ w.func \in 0 .. NFuncs - 1
          /\ w = Place(w.bus, w.slot, w.func)
      BY ExpectedPlaces
    <3>2. w = at <=> w.bus = at.bus /\ w.slot = at.slot /\ w.func = at.func
      BY <1>1, <3>1
    <3> QED
      BY <1>1, <1>2, <2>1, <2>4, <3>1, <3>2 DEF Seen, Before, Over
  <2>8. ScanOK(pc', at', d)
    BY <1>1, <2>1, <2>6, <2>7 DEF ScanOK
  <2> QED
    BY <1>0, <2>8, SameConfig
<1>4. CASE ~(Present(at) /\ cfg[at].multi /\ NFuncs > 1)
  <2>1. NextSlot(at)
    BY <1>4 DEF ProbeSlot
  <2>2. ASSUME NEW w \in Expected
        PROVE  (Before(w, at) \/ w = at) <=> (w.bus < at.bus \/ (w.bus = at.bus /\ w.slot <= at.slot))
    <3>1. /\ w.bus \in 0 .. NBuses - 1 /\ w.slot \in 0 .. NSlots - 1 /\ w.func \in 0 .. NFuncs - 1
          /\ w = Place(w.bus, w.slot, w.func)
      BY ExpectedPlaces
    <3>2. w = at <=> w.bus = at.bus /\ w.slot = at.slot /\ w.func = at.func
      BY <1>1, <3>1
    <3>3. w.bus = at.bus /\ w.slot = at.slot => w.func = 0
      <4> SUFFICES ASSUME w.bus = at.bus, w.slot = at.slot, w.func # 0 PROVE FALSE
        OBVIOUS
      <4>1. Zero(w) = at
        BY <1>2 DEF Zero
      <4>2. Present(at) /\ cfg[at].multi
        BY <4>1, ExpectedForm DEF Announced
      <4>3. NFuncs > 1
        BY <3>1, PciAssumption
      <4> QED
        BY <1>4, <4>2, <4>3
    <3> QED
      BY <1>1, <1>2, <3>1, <3>2, <3>3 DEF Before
  <2>3. ScanOK(pc', at', d)
    BY <1>0, <1>1, <2>1, <2>2, NextSlotScan
  <2> QED
    BY <1>0, <2>3, SameConfig
<1> QED
  BY <1>3, <1>4

(* Another function of a slot is probed.                                    *)
LEMMA ProbeFuncScan == ASSUME IInv, ProbeFunc PROVE IInv'
<1> DEFINE d == pci_add_dev(at)
<1>0. pc = "func" /\ devs' = d /\ cfg' = cfg
  BY DEF ProbeFunc
<1>1. /\ at \in Where /\ at.bus \in 0 .. NBuses - 1 /\ at.slot \in 0 .. NSlots - 1
      /\ at.func \in 0 .. NFuncs - 1 /\ at = Place(at.bus, at.slot, at.func) /\ at.bus \in BusesThere
      /\ d \in Seq(Where) /\ Once(d)
      /\ \A w : w \in Listed(d) <=> w \in Expected /\ (Before(w, at) \/ w = at)
  BY <1>0, ProbeAdds
<1> HIDE DEF d
<1>2. at.func # 0 /\ Announced(at)
  BY <1>0 DEF IInv, ScanOK, AtOK
<1>3. ASSUME NEW w \in Expected
      PROVE  /\ w.bus \in 0 .. NBuses - 1 /\ w.slot \in 0 .. NSlots - 1 /\ w.func \in 0 .. NFuncs - 1
             /\ w = at <=> w.bus = at.bus /\ w.slot = at.slot /\ w.func = at.func
  <2>1. /\ w.bus \in 0 .. NBuses - 1 /\ w.slot \in 0 .. NSlots - 1 /\ w.func \in 0 .. NFuncs - 1
        /\ w = Place(w.bus, w.slot, w.func)
    BY ExpectedPlaces
  <2> QED
    BY <1>1, <2>1
<1>4. CASE at.func + 1 < NFuncs
  <2>1. pc' = pc /\ at' = [at EXCEPT !.func = at.func + 1]
    BY <1>4 DEF ProbeFunc
  <2>2. at' = Place(at.bus, at.slot, at.func + 1)
    BY <1>1, <2>1 DEF Place
  <2>3. at.func + 1 \in 0 .. NFuncs - 1 /\ at.bus \in 0 .. NBuses
    BY <1>1, <1>4, PciAssumption
  <2>4. at' \in Posns /\ at'.bus = at.bus /\ at'.slot = at.slot /\ at'.func = at.func + 1
    BY <1>1, <2>2, <2>3, Numbers
  <2>5. Announced(at') /\ at'.func # 0
    <3>1. Zero(at') = Zero(at)
      BY <2>4 DEF Zero
    <3> QED
      BY <1>1, <1>2, <2>4, <3>1 DEF Announced
  <2>6. AtOK(pc', at')
    BY <1>0, <1>1, <2>1, <2>4, <2>5 DEF AtOK
  <2>7. \A w \in Expected : Seen(w, pc', at') <=> (Before(w, at) \/ w = at)
    BY <1>0, <1>1, <1>3, <2>1, <2>4 DEF Seen, Before, Over
  <2>8. ScanOK(pc', at', d)
    BY <1>0, <1>1, <2>1, <2>6, <2>7 DEF ScanOK
  <2> QED
    BY <1>0, <2>8, SameConfig
<1>5. CASE ~(at.func + 1 < NFuncs)
  <2>1. NextSlot(at)
    BY <1>5 DEF ProbeFunc
  <2>2. ASSUME NEW w \in Expected
        PROVE  (Before(w, at) \/ w = at) <=> (w.bus < at.bus \/ (w.bus = at.bus /\ w.slot <= at.slot))
    <3>1. /\ w.bus \in 0 .. NBuses - 1 /\ w.slot \in 0 .. NSlots - 1 /\ w.func \in 0 .. NFuncs - 1
          /\ w = at <=> w.bus = at.bus /\ w.slot = at.slot /\ w.func = at.func
      BY <1>3
    <3>2. w.func <= at.func
      BY <1>1, <1>5, <3>1, PciAssumption
    <3> QED
      BY <1>1, <3>1, <3>2, PciAssumption DEF Before
  <2>3. ScanOK(pc', at', d)
    BY <1>0, <1>1, <2>1, <2>2, NextSlotScan
  <2> QED
    BY <1>0, <2>3, SameConfig
<1> QED
  BY <1>4, <1>5

(* Nothing is listed or lost once the scan is over.                         *)
LEMMA LaterScan ==
  ASSUME IInv, pc \in Over, pc' \in Over, at' = at, devs' = devs, cfg' = cfg
  PROVE  IInv'
<1>1. ScanOK(pc, at, devs)
  BY DEF IInv
<1>2. AtOK(pc', at')
  BY <1>1 DEF ScanOK, AtOK, Over
<1>3. \A w : Seen(w, pc, at) /\ Seen(w, pc', at')
  BY DEF Seen
<1>4. ScanOK(pc', at', devs')
  BY <1>1, <1>2, <1>3 DEF ScanOK
<1> QED
  BY <1>4, SameConfig

(* Every step keeps the invariant.                                          *)
LEMMA NextScan == ASSUME IInv, [Next]_vars PROVE IInv'
<1>1. CASE EnumerateMulti \/ EnumerateSingle
  BY <1>1, EnumerateScan
<1>2. CASE NextBus
  BY <1>2, NextBusScan
<1>3. CASE ProbeSlot
  BY <1>3, ProbeSlotScan
<1>4. CASE ProbeFunc
  BY <1>4, ProbeFuncScan
<1>5. CASE InitPci
  BY <1>5, LaterScan DEF InitPci, Over
<1>6. CASE LoadOther
  BY <1>6, LaterScan DEF LoadOther, Over
<1>7. ASSUME NEW o \in Outcomes, LoadCard(o) PROVE IInv'
  BY <1>7, LaterScan DEF LoadCard, Over
<1>8. CASE UseCard
  BY <1>8, LaterScan DEF UseCard, Over
<1>9. CASE UNCHANGED vars
  BY <1>9, SameConfig DEF IInv, vars
<1> QED
  BY <1>1, <1>2, <1>3, <1>4, <1>5, <1>6, <1>7, <1>8, <1>9 DEF Next

(* The scan's invariant always holds.                                       *)
THEOREM InvariantHolds == Spec => []IInv
<1>1. Init => IInv
  BY InitScan
<1>2. IInv /\ [Next]_vars => IInv'
  BY NextScan
<1> QED
  BY <1>1, <1>2, PTL DEF Spec

(* For any number of buses, slots and functions, and whatever answers on    *)
(* them, init_pci lists every function that should be found, and each once. *)
THEOREM ScanFindsAll == Spec => []FoundExactly
<1>1. IInv => FoundExactly
  <2> SUFFICES ASSUME IInv, pc \notin {"root", "bus", "slot", "func"}
               PROVE  /\ {devs[k] : k \in 1 .. Len(devs)} = Expected
                      /\ \A j, k \in 1 .. Len(devs) : devs[j] = devs[k] => j = k
    BY DEF FoundExactly
  <2>1. pc \in Over /\ Once(devs) /\ \A w : w \in Listed(devs) <=> w \in Expected /\ Seen(w, pc, at)
    BY DEF IInv, ScanOK
  <2>2. Listed(devs) = Expected
    BY <2>1 DEF Seen
  <2> QED
    BY <2>1, <2>2 DEF Listed, Once
<1> QED
  BY <1>1, InvariantHolds, PTL

-----------------------------------------------------------------------------

(* What OneCard needs besides: the loop of load_pci_drivers reads entries   *)
(* that the scan wrote.                                                     *)
CardInv == IInv /\ next \in Nat \ {0} /\ drv.head \in Nat /\ OneCard

(* load_driver_eth_intel_8254x replaces the ring first and the registers    *)
(* only when the BAR is usable; netcard1 says ready only if both were       *)
(* replaced.                                                                *)
LEMMA LoadCardOne ==
  ASSUME CardInv, NEW o \in Outcomes, LoadCard(o)
  PROVE  next' \in Nat \ {0} /\ drv'.head \in Nat /\ OneCard'
<1> DEFINE card == devs[next]
<1>0. next <= Len(devs) /\ next' = next + 1
  BY DEF LoadCard
<1>1. netcard' = CASE o = "ok" -> "ready" [] o = "no ip" -> "no ip" [] OTHER -> "unset"
  BY DEF LoadCard
<1>2. next \in Nat \ {0} /\ devs \in Seq(Where) /\ drv.head \in Nat
  BY DEF CardInv, IInv, ScanOK
<1>3. card \in Where
  <2>1. next \in 1 .. Len(devs)
    BY <1>0, <1>2
  <2> QED
    BY <1>2, <2>1
<1>4. card # NoCard
  <2>1. card.bus < NBuses /\ card.bus \in Int
    BY <1>3, Numbers
  <2>2. NoCard.bus = NBuses
    BY DEF NoCard, Place
  <2> QED
    BY <2>1, <2>2, PciAssumption
<1>5. next' \in Nat \ {0}
  BY <1>0, <1>2
<1>6. CASE o = "error"
  <2>1. drv' = [drv EXCEPT !.ring = card] /\ netcard' = "unset"
    BY <1>1, <1>6 DEF LoadCard
  <2>2. drv'.head = drv.head
    BY <2>1
  <2> QED
    BY <1>2, <1>5, <2>1, <2>2 DEF OneCard
<1>7. CASE o # "error"
  <2>1. PICK regs \in Reached(card) : drv' = maphwdev(card, regs)
    BY <1>7 DEF LoadCard
  <2> HIDE DEF card
  <2>2. drv'.ring = card /\ drv'.regs = regs /\ drv'.shift = drv.head /\ drv'.head = drv.head + 32
    BY <2>1 DEF maphwdev, BarPages
  <2>3. drv'.head = BarPages => drv.head = 0
    BY <1>2, <2>2 DEF BarPages
  <2>4. drv.head = 0 => regs = card
    BY <2>1 DEF Reached
  <2>5. NoCard' = NoCard /\ BarPages' = BarPages
    BY DEF NoCard, Place, BarPages
  <2>6. OneCard'
    BY <1>4, <2>2, <2>3, <2>4, <2>5 DEF OneCard
  <2>7. drv'.head \in Nat
    BY <1>2, <2>2
  <2> QED
    BY <1>5, <2>6, <2>7
<1> QED
  BY <1>6, <1>7

(* However many cards failed, as long as the registers of only one were     *)
(* mapped a card that netcard1 calls ready has its own ring and its own     *)
(* registers, from the first on.  With a second one it has not.             *)
THEOREM RingAndRegistersAgree == Spec => []OneCard
<1>1. Init => CardInv
  BY InitScan DEF Init, CardInv, OneCard
<1>2. CardInv /\ [Next]_vars => CardInv'
  <2> SUFFICES ASSUME CardInv, [Next]_vars PROVE CardInv'
    OBVIOUS
  <2>1. IInv'
    BY NextScan DEF CardInv
  <2>2. CASE UNCHANGED <<next, netcard, drv>>
    BY <2>1, <2>2 DEF CardInv, OneCard, NoCard, Place, BarPages
  <2>3. CASE LoadOther
    <3>1. netcard' = netcard /\ drv' = drv /\ next' = next + 1
      BY <2>3 DEF LoadOther
    <3>2. next' \in Nat \ {0}
      BY <3>1 DEF CardInv
    <3>3. OneCard'
      BY <3>1 DEF CardInv, OneCard, NoCard, Place, BarPages
    <3> QED
      BY <2>1, <3>1, <3>2, <3>3 DEF CardInv
  <2>4. ASSUME NEW o \in Outcomes, LoadCard(o) PROVE CardInv'
    BY <2>1, <2>4, LoadCardOne DEF CardInv
  <2> QED
    BY <2>2, <2>3, <2>4 DEF Next, vars, EnumerateMulti, EnumerateSingle, NextBus, ProbeSlot,
       ProbeFunc, InitPci, UseCard
<1>3. CardInv => OneCard
  BY DEF CardInv
<1> QED
  BY <1>1, <1>2, <1>3, PTL DEF Spec

=============================================================================
