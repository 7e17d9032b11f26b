-------------------------------- MODULE Irq --------------------------------
(***************************************************************************)
(* Segments, interrupt gates, interrupt controllers and kernel_init:        *)
(* kernel/mm/gdt.c, kernel/irq/{idt,cpu_traps,pic}.c and kernel/kernel.c.    *)
(*                                                                          *)
(* The kernel is one thread that interrupts, NMIs and faults cut into.      *)
(* Words, bytes and descriptors are the sets of their one bits.             *)
(***************************************************************************)
EXTENDS Integers, Sequences

CONSTANTS
  Lines,         \* interrupt lines of devices: what may be raised, and what drivers open
  FaultVectors,  \* exceptions that code may raise
  BiosMasks,     \* what the BIOS may have left in a mask register
  IsrAddr,       \* where the handlers are linked
  MaxDepth       \* bound: contexts on the stack

ASSUME IrqAssumption ==
  /\ Lines \subseteq (0 .. 15) \ {2}
  /\ FaultVectors \subseteq 0 .. 31
  /\ BiosMasks \subseteq SUBSET (0 .. 7)
  /\ IsrAddr \in [0 .. 31 \cup {64, 65} -> SUBSET (0 .. 31)]
  /\ \A a, b \in DOMAIN IsrAddr : IsrAddr[a] = IsrAddr[b] => a = b
  /\ MaxDepth \in Nat \ {0}

VARIABLES
  pc,      \* the call of kernel_init that comes next
  i,       \* the next registration of init_cpu_traps, or write of init_pic
  saved,   \* a1 and a2 of pic_remap
  gdt,     \* gdt_base, the empty sequence before it is loaded
  lidt,    \* is the IDT register loaded
  idt,     \* idt_base: vector to gate, for the vectors that were registered
  chip,    \* the two 8259s
  irr,     \* lines that request an interrupt
  stack,   \* what the CPU is in the middle of, the running context last
  nmi,     \* are NMIs blocked
  asked    \* history: the lines that drivers, and pic_noirqs, left open

vars == <<pc, i, saved, gdt, lidt, idt, chip, irr, stack, nmi, asked>>
tables == <<gdt, lidt, idt>>
pics   == <<saved, chip, asked>>

(* The number a byte stands for.                                            *)
Num(s) ==
  LET Weight(b, n) == IF b \in s THEN n ELSE 0
  IN  Weight(0, 1) + Weight(1, 2) + Weight(2, 4) + Weight(3, 8)
      + Weight(4, 16) + Weight(5, 32) + Weight(6, 64) + Weight(7, 128)

Shl(s, k) == {b + k : b \in s}
Shr(s, k) == {b - k : b \in {c \in s : c >= k}}

-----------------------------------------------------------------------------
(* gdt.c *)

make_gdt_desc(base, limit, access, flag) ==
  LET upper == UNION {Shr(base \cap 16 .. 23, 16), Shl(access, 8), limit \cap 16 .. 19,
                      Shl(flag \cap 0 .. 3, 20), base \cap 24 .. 31}
  IN  UNION {Shl(upper, 32), limit \cap 0 .. 15, Shl(base \cap 0 .. 15, 16)}

(* The access bits of gdt.h. *)
ABPRSNT == 7
ABPRIVI_R3 == {5, 6}
ABCSDS == 4
ABEXEC == 3
ABCEXECLWR == 2
ABCDRW == 1
AB_DATA0 == {ABPRSNT, ABCSDS, ABCDRW}
AB_CODE0 == {ABPRSNT, ABCSDS, ABEXEC, ABCEXECLWR, ABCDRW}
x86FLAG  == {3, 2}

Flat(access) == make_gdt_desc({}, 0 .. 31, access, x86FLAG)

GdtEntries == << make_gdt_desc({}, {}, {}, {}), Flat(AB_CODE0), Flat(AB_DATA0),
                 Flat(AB_CODE0 \cup ABPRIVI_R3), Flat(AB_DATA0 \cup ABPRIVI_R3) >>

(* How the CPU reads a descriptor: base 0, all of the 20 bit limit in pages,*)
(* 32 bit, present, a segment of ring 0; then executable or writable.       *)
FlatRing0(d) ==
  /\ d \cap (16 .. 39 \cup 56 .. 63) = {}
  /\ (0 .. 15 \cup 48 .. 51 \cup {55, 54, 47, 44}) \subseteq d
  /\ d \cap {45, 46, 53} = {}
CodeSegment(d) == FlatRing0(d) /\ 43 \in d
DataSegment(d) == FlatRing0(d) /\ 43 \notin d /\ 41 \in d

(* A selector is eight times an index; gdt is numbered from 1.              *)
Descriptor(selector) == gdt[selector \div 8 + 1]

-----------------------------------------------------------------------------
(* idt.c and cpu_traps.c *)

INTGATE  == {7, 3, 2, 1}      \* 0x8e
TRAPGATE == {7, 3, 2, 1, 0}   \* 0x8f

(* A handler of cpu_traps.c is named by its vector.                         *)
Keypress  == 64
DriverIsr == 65
Isrs      == 0 .. 31 \cup {Keypress, DriverIsr}

(* Fault: the upper half of the address is not shifted before it is cut. *)
make_idt_descLow(isr, type) ==
  [offset_1 |-> IsrAddr[isr] \cap 0 .. 15, selector |-> 8, type_attr |-> type,
   offset_2 |-> IsrAddr[isr] \cap 0 .. 15]

make_idt_desc(isr, type) ==
  [offset_1 |-> IsrAddr[isr] \cap 0 .. 15, selector |-> 8, type_attr |-> type,
   offset_2 |-> Shr(IsrAddr[isr], 16)]

Register(v, isr, type) == [w \in DOMAIN idt \cup {v} |-> IF w = v THEN make_idt_desc(isr, type) ELSE idt[w]]

(* The registrations of init_cpu_traps, in order; all but one are traps.    *)
TrapTable == <<0, 1, 2, 3, 4, 5, 6, 7, 8, 10, 11, 12, 13, 14, 16, 17, 18, 19, 20, 30>>
GateType(v) == IF v = 2 THEN INTGATE ELSE TRAPGATE

(* How the CPU reads a gate: the handlers it may lead to.                   *)
Leads(v) ==
  LET g == idt[v] IN
  IF CodeSegment(Descriptor(g.selector)) /\ g.type_attr \in {INTGATE, TRAPGATE}
  THEN {isr \in Isrs : IsrAddr[isr] = g.offset_1 \cup Shl(g.offset_2, 16)}
  ELSE {}

-----------------------------------------------------------------------------
(* What the CPU runs. *)

(* A context is what runs in it and its interrupt flag.                     *)
Top      == stack[Len(stack)]
IFlag    == Top.if = "on"
Ctx(run, if) == [run |-> run, if |-> if]
Now(ctx) == [stack EXCEPT ![Len(stack)] = ctx]
Goes(run) == Now(Ctx(run, Top.if))

(* A page fault and a key press print and end in KBREAK; the handlers of    *)
(* the other exceptions call kpanic.                                        *)
handle_pagefault == "print"
keypress         == "print"

Body(isr) ==
  CASE isr = 14        -> handle_pagefault
    [] isr = Keypress  -> keypress
    [] isr = DriverIsr -> "driver"
    [] OTHER           -> "kpanic"

(* Through an entry that was never registered, which holds what the heap    *)
(* held before, the CPU goes anywhere or finds the entry not present, which *)
(* is exception 11, or 8 when that cannot be delivered.                     *)
Unregistered ==
  {"wild"} \cup (IF {8, 11} \cap DOMAIN idt # {} THEN {"kpanic"} ELSE {"reset"})

Runs(v) == IF ~lidt THEN {"reset"}
           ELSE IF v \notin DOMAIN idt THEN Unregistered
           ELSE IF Leads(v) = {} THEN {"wild"} ELSE {Body(isr) : isr \in Leads(v)}

Masks(v) == v \in DOMAIN idt /\ idt[v].type_attr = INTGATE

Interrupt(v) ==
  /\ Len(stack) < MaxDepth
  /\ \E run \in Runs(v) : stack' = Append(stack, Ctx(run, IF Masks(v) THEN "off" ELSE Top.if))

Running == Top.run \notin {"wild", "reset"}

(* An exception in the code that runs.                                      *)
Fault(v) ==
  /\ Top.run \in {"kernel", "kpanic", "driver", "print"}
  /\ Interrupt(v)
  /\ UNCHANGED <<pc, i, tables, pics, irr, nmi>>

Nmi ==
  /\ Running /\ ~nmi
  /\ Interrupt(2) /\ nmi' = TRUE
  /\ UNCHANGED <<pc, i, tables, pics, irr>>

(* The end of handle_pagefault and keypress, once they have printed.        *)
Kbreak ==
  /\ Top.run = "print" /\ stack' = Goes("spin")
  /\ UNCHANGED <<pc, i, tables, pics, irr, nmi>>

(* Fault: kpanic leaves the interrupts on. *)
CliMissing ==
  /\ Top.run = "kpanic" /\ stack' = Goes("cli")
  /\ UNCHANGED <<pc, i, tables, pics, irr, nmi>>

(* kpanic: prints, cli, hlt. *)
Cli ==
  /\ Top.run = "kpanic" /\ stack' = Now(Ctx("cli", "off"))
  /\ UNCHANGED <<pc, i, tables, pics, irr, nmi>>

Hlt ==
  /\ Top.run = "cli" /\ stack' = Goes("hlt")
  /\ UNCHANGED <<pc, i, tables, pics, irr, nmi>>

(* iret: the context below goes on.  One that was halted returns from       *)
(* kpanic, into kernel_init or into a handler that returns in turn.         *)
Back(n) ==
  /\ \A k \in (n + 1) .. (Len(stack) - 1) : stack[k].run = "hlt"
  /\ \/ stack[n].run # "hlt" /\ stack' = SubSeq(stack, 1, n)
     \/ stack[n].run = "hlt" /\ n = 1 /\ stack' = <<Ctx("kernel", stack[1].if)>>

-----------------------------------------------------------------------------
(* The interrupt controllers. *)

Pics == {"master", "slave"}
Of(l) == IF l < 8 THEN "master" ELSE "slave"
Pin(l) == l % 8

(* Command writes: bit 4 starts the initialisation, with the mask cleared.  *)
Command(c, v) == [c EXCEPT !.icw  = IF 4 \in v THEN 2 ELSE c.icw,
                           !.mask = IF 4 \in v THEN {} ELSE c.mask,
                           !.isr  = {}]

(* Data writes: the initialisation's words in order, then the mask.         *)
Data(c, v) ==
  CASE c.icw = 2 -> [c EXCEPT !.icw = 3, !.base = Num(v \ 0 .. 2)]
    [] c.icw = 3 -> [c EXCEPT !.icw = 4, !.cascade = v]
    [] c.icw = 4 -> [c EXCEPT !.icw = 0]
    [] OTHER     -> [c EXCEPT !.mask = v]

Vector(l) == chip[Of(l)].base + Pin(l)

(* The slave's requests go through the pin that both chips were told of.    *)
Cascade == {p \in 0 .. 7 : p \in chip["master"].cascade /\ p = Num(chip["slave"].cascade)}
CascadeOpen == \E p \in Cascade : p = 2 /\ p \notin chip["master"].mask

Open(l) == Pin(l) \notin chip[Of(l)].mask /\ (l >= 8 => CascadeOpen)

(* No line of the same or a lower rank is served before an end of interrupt.*)
Unserved(l) ==
  /\ \A p \in chip[Of(l)].isr : Pin(l) < p
  /\ l >= 8 => \A p \in chip["master"].isr : 2 < p

ServedPins(c, l) == {p \in 0 .. 7 : (c = Of(l) /\ p = Pin(l)) \/ (c = "master" /\ l >= 8 /\ p = 2)}
Serve(l) == [c \in Pics |-> [chip[c] EXCEPT !.isr = @ \cup ServedPins(c, l)]]

Raise(l) ==
  /\ l \notin irr /\ irr' = irr \cup {l}
  /\ UNCHANGED <<pc, i, tables, pics, stack, nmi>>

Deliver(l) ==
  /\ Running /\ IFlag
  /\ l \in irr /\ Open(l) /\ Unserved(l)
  /\ Interrupt(Vector(l))
  /\ irr' = irr \ {l} /\ chip' = Serve(l)
  /\ UNCHANGED <<pc, i, tables, saved, asked, nmi>>

(* A request withdrawn too late, on a line that is open: pin 7 is reported. *)
Spurious(l) ==
  /\ Running /\ IFlag /\ Open(l) /\ Unserved(l)
  /\ Interrupt(chip[Of(l)].base + 7)
  /\ UNCHANGED <<pc, i, tables, pics, irr, nmi>>

(* A driver's handler tells the controllers and returns.                    *)
DriverReturns ==
  /\ Top.run = "driver"
  /\ chip' = [c \in Pics |-> [chip[c] EXCEPT !.isr = {}]]
  /\ \E n \in 1 .. Len(stack) - 1 : Back(n)
  /\ nmi' = FALSE
  /\ UNCHANGED <<pc, i, tables, saved, asked, irr>>

-----------------------------------------------------------------------------
(* kernel_init, with interrupts off as the boot loader left them. *)

Init ==
  /\ pc = "serial" /\ i = 1 /\ saved = <<{}, {}>>
  /\ gdt = <<>> /\ lidt = FALSE /\ idt = <<>>
  /\ \E masks \in [Pics -> BiosMasks] :
       chip = [c \in Pics |-> [icw |-> 0, base |-> IF c = "master" THEN 8 ELSE 112,
                               cascade |-> IF c = "master" THEN {2} ELSE {1},
                               mask |-> masks[c], isr |-> {}]]
  /\ irr = {} /\ stack = <<Ctx("kernel", "off")>> /\ nmi = FALSE /\ asked = {}

InKernel == Top.run = "kernel"

(* _kguard(init()): an init that may fail leaves the kernel in `jmp .'.     *)
Guarded(from, to, fallible) ==
  /\ InKernel /\ pc = from
  /\ \/ pc' = to /\ UNCHANGED stack
     \/ fallible /\ stack' = Goes("spin") /\ UNCHANGED pc
  /\ UNCHANGED <<i, tables, pics, irr, nmi>>

InitSerial == Guarded("serial", "phymm", TRUE)
InitPhymm  == Guarded("phymm", "virtmm", TRUE)
InitVirtmm == Guarded("virtmm", "gdt", FALSE)
InitPci    == Guarded("pci", "sti", TRUE)

InitGdt ==
  /\ InKernel /\ pc = "gdt"
  /\ gdt' = GdtEntries /\ pc' = "idt"
  /\ UNCHANGED <<i, lidt, idt, pics, irr, stack, nmi>>

InitIdt ==
  /\ InKernel /\ pc = "idt"
  /\ lidt' = TRUE /\ pc' = "traps" /\ i' = 1
  /\ UNCHANGED <<gdt, idt, pics, irr, stack, nmi>>

InitCpuTraps ==
  /\ InKernel /\ pc = "traps"
  /\ idt' = Register(TrapTable[i], TrapTable[i], GateType(TrapTable[i]))
  /\ IF i < Len(TrapTable) THEN i' = i + 1 /\ UNCHANGED pc ELSE i' = 1 /\ pc' = "remap"
  /\ UNCHANGED <<gdt, lidt, pics, irr, stack, nmi>>

(* pic_remap saves the masks. *)
PicSave ==
  /\ InKernel /\ pc = "remap"
  /\ saved' = <<chip["master"].mask, chip["slave"].mask>>
  /\ pc' = "pic" /\ i' = 1
  /\ UNCHANGED <<tables, chip, asked, irr, stack, nmi>>

Icw1(c)    == [to |-> c, port |-> "command", value |-> {4, 0}]
Write(c, v) == [to |-> c, port |-> "data", value |-> v]

(* Fault: the controllers share one offset. *)
PicProgramOne(masks) ==
  << Icw1("master"), Icw1("slave"), Write("master", {5}), Write("slave", {5}),
     Write("master", {2}), Write("slave", {1}), Write("master", {0}), Write("slave", {0}),
     Write("master", masks[1]), Write("slave", masks[2]),
     Write("master", 0 .. 7 \ {2}), Write("slave", 0 .. 7 \ {1}) >>

(* The masks of pic_noirqs, ~4 and ~2, and the lines they leave open.       *)
pic_noirqs == [c \in Pics |-> 0 .. 7 \ (IF c = "master" THEN {2} ELSE {1})]
LeftOpen   == {l \in 0 .. 15 : Pin(l) \notin pic_noirqs[Of(l)]}

(* The writes of pic_remap(0x20, 0x28) and of pic_noirqs.                   *)
PicProgram(masks) ==
  << Icw1("master"), Icw1("slave"), Write("master", {5}), Write("slave", {5, 3}),
     Write("master", {2}), Write("slave", {1}), Write("master", {0}), Write("slave", {0}),
     Write("master", masks[1]), Write("slave", masks[2]),
     Write("master", pic_noirqs["master"]), Write("slave", pic_noirqs["slave"]) >>

PicWrite ==
  /\ InKernel /\ pc = "pic"
  /\ LET w == PicProgram(saved)[i] IN
       chip' = [chip EXCEPT ![w.to] = IF w.port = "command" THEN Command(chip[w.to], w.value)
                                                            ELSE Data(chip[w.to], w.value)]
  /\ IF i < 12 THEN i' = i + 1 /\ UNCHANGED <<pc, asked>>
               ELSE i' = 1 /\ pc' = "pci" /\ asked' = LeftOpen
  /\ UNCHANGED <<tables, saved, irr, stack, nmi>>

Sti ==
  /\ InKernel /\ pc = "sti"
  /\ stack' = Now(Ctx("kernel", "on")) /\ pc' = "drivers"
  /\ UNCHANGED <<i, tables, pics, irr, nmi>>

(* load_pci_drivers and the test traffic.  pci_enable_bus_mastering calls   *)
(* kpanic and, should that return, goes on; a driver may also `jmp .'.      *)
LoadPciDrivers ==
  /\ InKernel /\ pc = "drivers"
  /\ \/ pc' = "end" /\ UNCHANGED stack
     \/ pc' = "end" /\ stack' = Goes("kpanic")
     \/ stack' = Goes("spin") /\ UNCHANGED pc
  /\ UNCHANGED <<i, tables, pics, irr, nmi>>

End ==
  /\ InKernel /\ pc = "end" /\ stack' = Goes("spin")
  /\ UNCHANGED <<pc, i, tables, pics, irr, nmi>>

-----------------------------------------------------------------------------
(* The calls a driver makes to get a line's interrupts, in the order of the *)
(* keyboard's in kernel_init: a handler first, then the line.               *)

Clients == InKernel /\ pc \in {"sti", "drivers"}

idt_mapint(l, isr) ==
  /\ Clients /\ 32 + l \notin DOMAIN idt
  /\ idt' = Register(32 + l, isr, INTGATE)
  /\ UNCHANGED <<pc, i, gdt, lidt, pics, irr, stack, nmi>>

WriteMask(c, mask) == chip' = [chip EXCEPT ![c] = Data(chip[c], mask)]

(* Fault: the line's number on its own controller is not worked out. *)
pic_yesirqWhole(l) ==
  /\ Clients /\ 32 + l \in DOMAIN idt
  /\ WriteMask(Of(l), chip[Of(l)].mask \ {l})
  /\ asked' = asked \cup {l}
  /\ UNCHANGED <<pc, i, tables, saved, irr, stack, nmi>>

pic_yesirq(l) ==
  /\ Clients /\ 32 + l \in DOMAIN idt
  /\ WriteMask(Of(l), chip[Of(l)].mask \ {Pin(l)})
  /\ asked' = asked \cup {l}
  /\ UNCHANGED <<pc, i, tables, saved, irr, stack, nmi>>

pic_noirq(l) ==
  /\ Clients /\ l \in asked
  /\ WriteMask(Of(l), chip[Of(l)].mask \cup {Pin(l)})
  /\ asked' = asked \ {l}
  /\ UNCHANGED <<pc, i, tables, saved, irr, stack, nmi>>

-----------------------------------------------------------------------------

Kernel ==
  \/ InitSerial \/ InitPhymm \/ InitVirtmm \/ InitGdt \/ InitIdt \/ InitCpuTraps
  \/ PicSave \/ PicWrite \/ InitPci \/ Sti \/ LoadPciDrivers \/ End

Cpu == Kbreak \/ Cli \/ Hlt \/ DriverReturns \/ Nmi \/ \E v \in FaultVectors : Fault(v)

Drivers == \E l \in Lines : \/ \E isr \in {Keypress, DriverIsr} : idt_mapint(l, isr)
                            \/ pic_yesirq(l) \/ pic_noirq(l)

Next ==
  \/ Kernel \/ Cpu \/ Drivers
  \/ \E l \in Lines : Raise(l) \/ Deliver(l) \/ Spurious(l)

Spec == Init /\ [][Next]_vars

-----------------------------------------------------------------------------
(* Properties. *)

(* Whenever interrupts are on, both controllers are out of their            *)
(* initialisation and line l, or the spurious line of its controller, comes *)
(* in at vector 32 + l: no device is ever taken for a CPU exception.        *)
IrqsApart ==
  IFlag => \A l \in 0 .. 15 : chip[Of(l)].icw = 0 /\ Vector(l) = 32 + l

(* From init_pic on, over every sequence of pic_yesirq and pic_noirq, the   *)
(* lines that can reach the CPU, the slave's through the cascade, are the   *)
(* ones that were asked for.                                                *)
OpenExactly ==
  pc \in {"pci", "sti", "drivers", "end"} => {l \in 0 .. 15 : Open(l)} = asked

(* After init_cpu_traps every exception goes to its own handler, through    *)
(* segments that cover all of memory, whatever drivers register later.      *)
FaultsHandled ==
  pc \notin {"serial", "phymm", "virtmm", "gdt", "idt", "traps"} =>
    /\ CodeSegment(Descriptor(8)) /\ DataSegment(Descriptor(16))
    /\ \A n \in DOMAIN TrapTable : Leads(TrapTable[n]) = {TrapTable[n]}

(* A kernel that has panicked, by an exception, an NMI or its own call of   *)
(* kpanic, never goes on with kernel_init: neither the interrupts that its  *)
(* trap gates leave on nor an NMI get it out of the hlt.                    *)
Panicked == \E n \in DOMAIN stack : stack[n].run \in {"kpanic", "cli", "hlt"}
StopsForGood == [][Panicked => Panicked' /\ pc' = pc]_vars

(* pic.h on init_pic: "and then masks all IRLs".                            *)
AllMasked == pc = "sti" /\ asked = LeftOpen => \A l \in Lines : ~Open(l)
=============================================================================
