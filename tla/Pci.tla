-------------------------------- MODULE Pci --------------------------------
(***************************************************************************)
(* Bus enumeration and driver loading, kernel/pci-bus/pci.c, and what       *)
(* kernel_init does with the network card afterwards.                       *)
(*                                                                          *)
(* cfg is the configuration space the scan reads: which function of which   *)
(* slot of which bus answers, what it is, and its multifunction bit.  The   *)
(* scan's three nested loops are taken one probe at a time.                 *)
(***************************************************************************)
EXTENDS Integers, Sequences, FiniteSets

CONSTANTS
  NBuses,   \* 8: sub buses, one per function of the root controller
  NSlots,   \* 32
  NFuncs,   \* 8
  MaxDevs,  \* 32, entries of gpci_devs
  Crowd     \* bound: functions that answer at all

ASSUME PciAssumption ==
  /\ NBuses \in Nat \ {0} /\ NSlots \in Nat \ {0} /\ NFuncs \in Nat \ {0}
  /\ NBuses <= NFuncs /\ MaxDevs \in Nat /\ Crowd \in Nat

VARIABLES
  cfg,      \* the configuration space; nothing writes to it
  pc,       \* where the kernel is
  at,       \* the loop variables: bus (or root function), slot, function
  devs,     \* gpci_devs[0 .. gpci_devs_n - 1]
  next,     \* the loop variable of load_pci_drivers
  netcard,  \* what netcard1 points to
  drv       \* whose ring txqueue is, whose registers the page of regspace
            \* leads to and how many bytes into them regspace points; and how
            \* far __driver_space_head is past the start of driver space

vars == <<cfg, pc, at, devs, next, netcard, drv>>

Buses == 0 .. NBuses - 1
Funcs == 0 .. NFuncs - 1
Where == [bus : Buses, slot : 0 .. NSlots - 1, func : Funcs]
Kinds == {"none", "other", "nic"}

Place(b, s, f) == [bus |-> b, slot |-> s, func |-> f]
NoCard == Place(NBuses, 0, 0)

(* pci_get_vendor(...) != 0xffff *)
Present(w) == cfg[w].kind # "none"

(* pci_get_htype(...) & PCI_MULTIFUNC: nobody answers reads as all ones.    *)
Multi(w) == ~Present(w) \/ cfg[w].multi

(* Configuration spaces: the multifunction bit is told apart for function 0 *)
(* only, the others' is never looked at.                                    *)
Silent == [kind |-> "none", multi |-> FALSE]
Answer == [kind : Kinds \ {"none"}, multi : BOOLEAN]

IsConfig(f, there) ==
  /\ \A w \in there : f[w].multi => w.func = 0
  /\ cfg = [w \in Where |-> IF w \in there THEN f[w] ELSE Silent]

Crowds == {S \in SUBSET Where : Cardinality(S) <= Crowd}

Init ==
  /\ \E there \in Crowds : \E f \in [there -> Answer] : IsConfig(f, there)
  /\ pc = "root" /\ at = Place(0, 0, 0)
  /\ devs = <<>> /\ next = 1
  /\ netcard = "null" /\ drv = [ring |-> NoCard, regs |-> NoCard, shift |-> 0, head |-> 0]

-----------------------------------------------------------------------------
(* pci_enumerate_devs *)

Root == Place(0, 0, 0)

(* A root controller with several functions has a bus per function.         *)
EnumerateMulti ==
  /\ pc = "root" /\ Multi(Root)
  /\ pc' = "bus" /\ at' = Root
  /\ UNCHANGED <<cfg, devs, next, netcard, drv>>

EnumerateSingle ==
  /\ pc = "root" /\ ~Multi(Root)
  /\ pc' = "slot" /\ at' = Root
  /\ UNCHANGED <<cfg, devs, next, netcard, drv>>

(* pci_add_dev.  Nothing compares gpci_devs_n with the size of the array:   *)
(* an entry past its end falls on the heap, and the model stops there.      *)
pci_add_dev(w) == IF Present(w) THEN Append(devs, w) ELSE devs

InArray == Len(devs) <= MaxDevs

(* The loop over the root's functions.  Function `bus' of the root stands   *)
(* for bus number `bus', and only a bus whose function answers is scanned.  *)
NextBus ==
  /\ pc = "bus" /\ InArray
  /\ IF at.bus = NBuses THEN pc' = "done" /\ UNCHANGED at
     ELSE IF Present(Place(0, 0, at.bus)) THEN pc' = "slot" /\ at' = [at EXCEPT !.slot = 0, !.func = 0]
     ELSE at' = [at EXCEPT !.bus = @ + 1] /\ UNCHANGED pc
  /\ UNCHANGED <<cfg, devs, next, netcard, drv>>

(* Fault: the next slot is entered at the function the last one ended with. *)
NextSlotKeepsFunc(w) ==
  IF w.slot + 1 < NSlots THEN pc' = "slot" /\ at' = [w EXCEPT !.slot = @ + 1]
  ELSE IF Multi(Root) THEN pc' = "bus" /\ at' = [w EXCEPT !.bus = @ + 1]
  ELSE pc' = "done" /\ at' = w

(* Fault: the loop over the slots has no end.                               *)
NextSlotForever(w) ==
  IF w.slot + 1 < NSlots THEN pc' = "slot" /\ at' = [w EXCEPT !.slot = @ + 1, !.func = 0]
  ELSE IF Multi(Root) THEN pc' = "bus" /\ UNCHANGED at
  ELSE pc' = "done" /\ at' = w

(* pci_findall: function 0 of a slot, and the other functions if it says so.*)
(* pci_findall returns to the loop over the buses or, with one bus, ends    *)
(* the scan.                                                                *)
NextSlot(w) ==
  IF w.slot + 1 < NSlots THEN pc' = "slot" /\ at' = [w EXCEPT !.slot = @ + 1, !.func = 0]
  ELSE IF Multi(Root) THEN pc' = "bus" /\ at' = [w EXCEPT !.bus = @ + 1]
  ELSE pc' = "done" /\ at' = w

ProbeSlot ==
  /\ pc = "slot" /\ InArray
  /\ devs' = pci_add_dev(at)
  /\ IF Present(at) /\ cfg[at].multi /\ NFuncs > 1
     THEN pc' = "func" /\ at' = [at EXCEPT !.func = 1]
     ELSE NextSlot(at)
  /\ UNCHANGED <<cfg, next, netcard, drv>>

ProbeFunc ==
  /\ pc = "func" /\ InArray
  /\ devs' = pci_add_dev(at)
  /\ IF at.func + 1 < NFuncs THEN at' = [at EXCEPT !.func = @ + 1] /\ UNCHANGED pc
     ELSE NextSlot(at)
  /\ UNCHANGED <<cfg, next, netcard, drv>>

(* init_pci returns; _kguard stops the kernel when nothing was found.       *)
InitPci ==
  /\ pc = "done" /\ InArray
  /\ pc' = IF devs = <<>> THEN "panic" ELSE "load"
  /\ UNCHANGED <<cfg, at, devs, next, netcard, drv>>

-----------------------------------------------------------------------------
(* load_pci_drivers, which reports success whatever the drivers did.        *)

LoadOther ==
  /\ pc = "load" /\ next <= Len(devs) /\ cfg[devs[next]].kind = "other"
  /\ next' = next + 1
  /\ UNCHANGED <<cfg, pc, at, devs, netcard, drv>>

(* BAR0_SIZE / 4096, the pages of a card's registers.                       *)
BarPages == 32

(* What loading a card may come to.  The driver returns an error for a      *)
(* 64-bit BAR, panics when bus mastering cannot be enabled, waits for an    *)
(* EEPROM that does not answer, and stops the kernel when the link is down  *)
(* or paused.  Otherwise it fills in the netdev; its IP address is NULL     *)
(* when the EEPROM holds none.  The EEPROM of a card whose registers are    *)
(* where the driver looks for them does answer.                             *)
Outcomes == {"ok", "no ip", "error", "no dma", "hang", "no link"}

Possible(outcome) == outcome = "hang" => drv.head # 0

(* maphwdev maps each card at the head, which moves on by bytes, not pages: *)
(* a second card is mapped over the first, and regspace points as many      *)
(* bytes into its registers as the first one has pages.  The flush misses   *)
(* the page (VirtMM), which may lead to the earlier card still.             *)
Reached(card) == IF drv.head = 0 THEN {card} ELSE {card, drv.regs}

maphwdev(card, regs) ==
  [ring |-> card, regs |-> regs, shift |-> drv.head, head |-> drv.head + BarPages]

(* Fault: netcard1 is replaced only by a card that loads.                   *)
LoadCardLate(outcome) ==
  LET card == devs[next]
  IN /\ pc = "load" /\ next <= Len(devs) /\ cfg[card].kind = "nic" /\ Possible(outcome)
     /\ next' = next + 1
     /\ IF outcome = "error" THEN drv' = [drv EXCEPT !.ring = card]
        ELSE \E regs \in Reached(card) : drv' = maphwdev(card, regs)
     /\ netcard' = CASE outcome = "ok" -> "ready" [] outcome = "no ip" -> "no ip" [] OTHER -> netcard
     /\ pc' = CASE outcome = "no dma" -> "panic" [] outcome = "no link" -> "break"
             [] outcome = "hang" -> "hang" [] OTHER -> pc
     /\ UNCHANGED <<cfg, at, devs>>

(* A card: netcard1 is a new, uninitialised netdev and txqueue a new ring   *)
(* before anything can fail.                                                *)
LoadCard(outcome) ==
  LET card == devs[next]
  IN /\ pc = "load" /\ next <= Len(devs) /\ cfg[card].kind = "nic" /\ Possible(outcome)
     /\ next' = next + 1
     /\ IF outcome = "error" THEN drv' = [drv EXCEPT !.ring = card]
        ELSE \E regs \in Reached(card) : drv' = maphwdev(card, regs)
     /\ netcard' = CASE outcome = "ok" -> "ready" [] outcome = "no ip" -> "no ip" [] OTHER -> "unset"
     /\ pc' = CASE outcome = "no dma" -> "panic" [] outcome = "no link" -> "break"
             [] outcome = "hang" -> "hang" [] OTHER -> pc
     /\ UNCHANGED <<cfg, at, devs>>

(* kernel_init goes on to send packets through netcard1.                    *)
UseCard ==
  /\ pc = "load" /\ next > Len(devs)
  /\ pc' = "send"
  /\ UNCHANGED <<cfg, at, devs, next, netcard, drv>>

Next ==
  \/ EnumerateMulti \/ EnumerateSingle \/ NextBus \/ ProbeSlot \/ ProbeFunc \/ InitPci
  \/ LoadOther \/ (\E o \in Outcomes : LoadCard(o)) \/ UseCard

Spec == Init /\ [][Next]_vars /\ WF_vars(Next)

-----------------------------------------------------------------------------
(* Properties *)

(* What a scan should find: on every bus there is, every function that      *)
(* answers, those above 0 only where function 0 announces them.             *)
BusesThere == IF Multi(Root) THEN {b \in Buses : Present(Place(0, 0, b))} ELSE {0}

Expected ==
  {w \in Where : /\ w.bus \in BusesThere /\ Present(w)
                 /\ w.func # 0 => LET zero == [w EXCEPT !.func = 0]
                                  IN Present(zero) /\ cfg[zero].multi}

(* The scan's nested loops and early exits list exactly those, each once.   *)
FoundExactly ==
  pc \notin {"root", "bus", "slot", "func"} =>
    /\ {devs[k] : k \in 1 .. Len(devs)} = Expected
    /\ \A j, k \in 1 .. Len(devs) : devs[j] = devs[k] => j = k

(* The kernel ends up in one of the states it stops in: the scan and the    *)
(* loading of drivers come to an end whatever the bus answers, unless the   *)
(* registers of a second card are not where its driver waits for them.      *)
Ends == <>(pc \in {"panic", "break", "send"} \/ (pc = "hang" /\ drv.shift > 0))

(* While netcard1 describes a card, and no second card was mapped, the ring *)
(* the driver fills and the registers it announces packets in are the same  *)
(* card's, and regspace points to the first of them, however many cards     *)
(* failed before or after: load_driver replaces txqueue before it knows     *)
(* whether it will replace regspace.                                        *)
OneCard ==
  netcard \in {"ready", "no ip"} /\ drv.head = BarPages =>
    drv.ring = drv.regs /\ drv.shift = 0 /\ drv.ring # NoCard

(* pci.c, init_pci: "allocate a max of 32 devices".                         *)
DevsFit == Len(devs) <= MaxDevs

(* kernel.c, kernel_init: "Loaded netcard with MAC" is printed, and packets *)
(* are sent, from a card that was loaded.                                   *)
CardUsable == pc = "send" => netcard = "ready"

=============================================================================
