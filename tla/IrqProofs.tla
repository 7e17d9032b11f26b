------------------------------ MODULE IrqProofs ------------------------------
(***************************************************************************)
(* Proofs about segments, gates, interrupt controllers and kernel_init. The *)
(* argument has three parts: the shape of the stack of contexts, with the   *)
(* order of their interrupt flags; what every registered gate leads to; and *)
(* how far the two 8259s are in their initialisation, word by word, with    *)
(* the masks that follow from it.                                           *)
(***************************************************************************)
EXTENDS Irq, SequenceTheorems, TLAPS

(* What a context may be running, and a context: that and its interrupt     *)
(* flag.                                                                    *)
Runnable == {"kernel", "kpanic", "cli", "hlt", "spin", "driver", "print", "wild", "reset"}
Contexts == [run : Runnable, if : {"on", "off"}]

(* The values of pc, and those before the GDT is loaded, before every trap  *)
(* is registered, and after init_pic.                                       *)
Steps  == {"serial", "phymm", "virtmm", "gdt", "idt", "traps", "remap", "pic", "pci", "sti",
           "drivers", "end"}
NoGdt  == {"serial", "phymm", "virtmm", "gdt"}
Early  == NoGdt \cup {"idt", "traps"}
Ready  == {"pci", "sti", "drivers", "end"}

(* Context k of the stack.  kernel_init is only ever at the bottom; kpanic  *)
(* halts with interrupts off; a driver's handler cuts only into code that   *)
(* had interrupts on; and a flag that is on is on all the way down, and     *)
(* only after the sti of kernel_init.                                       *)
ContextOK(s, k, p) ==
  /\ s[k].run = "kernel" => k = 1
  /\ s[k].run \in {"cli", "hlt"} => s[k].if = "off"
  /\ s[k].run = "driver" => k > 1 /\ s[k - 1].if = "on"
  /\ s[k].if = "on" => /\ p \in {"drivers", "end"}
                       /\ k > 1 => s[k - 1].if = "on"

(* The stack, context by context.                                           *)
StackOK(s, p) ==
  /\ s \in Seq(Contexts) /\ Len(s) >= 1
  /\ \A k \in 1 .. Len(s) : ContextOK(s, k, p)

(* A gate: of an exception, leading to that exception's own handler; or of  *)
(* a device, leading to one of the two handlers that drivers register.      *)
GateOK(v, g) ==
  \/ v \in 0 .. 31 /\ g = make_idt_desc(v, GateType(v))
  \/ v \in 32 .. 47 /\ \E isr \in {Keypress, DriverIsr} : g = make_idt_desc(isr, INTGATE)

(* Every gate that was registered.                                          *)
GatesOK(d) == \A v \in DOMAIN d : GateOK(v, d[v])

(* How far the tables are filled: the GDT from its step on, the gates of    *)
(* the exceptions one after the other and then all of them.                 *)
TablesOK(p, k, g, d) ==
  /\ p \notin NoGdt => g = GdtEntries
  /\ p = "traps" => k \in 1 .. 20 /\ \A n \in 1 .. k - 1 : TrapTable[n] \in DOMAIN d
  /\ p \notin Early => \A n \in 1 .. 20 : TrapTable[n] \in DOMAIN d

(* A controller, field by field.                                            *)
ChipType == [icw : {0, 2, 3, 4}, base : Int, cascade : SUBSET Int, mask : SUBSET Int, isr : SUBSET Int]

(* What the first n words of a chip's program leave of it.                  *)
ChipAt(c, n, icw2, icw3) ==
  /\ n \in {0, 4, 5, 6} => c.icw = 0
  /\ n = 1 => c.icw = 2
  /\ n = 2 => c.icw = 3
  /\ n = 3 => c.icw = 4
  /\ n >= 2 => c.base = icw2
  /\ n >= 3 => c.cascade = icw3

(* The two chips, with the mask that pic_noirqs writes last.                *)
MasterAt(c, n) == ChipAt(c, n, 32, {2}) /\ (n = 6 => c.mask = 0 .. 7 \ {2})
SlaveAt(c, n)  == ChipAt(c, n, 40, {1}) /\ (n = 6 => c.mask = 0 .. 7 \ {1})

(* The chips follow the program: the write numbered k goes to the master    *)
(* when k is odd.  Outside init_pic no chip is in its initialisation.       *)
PicOK(p, k, ch) ==
  /\ ch \in [Pics -> ChipType]
  /\ p = "pic" => /\ k \in 1 .. 12
                  /\ MasterAt(ch["master"], k \div 2)
                  /\ SlaveAt(ch["slave"], (k - 1) \div 2)
  /\ p \in Ready => ChipAt(ch["master"], 6, 32, {2}) /\ ChipAt(ch["slave"], 6, 40, {1})
  /\ p \notin Ready \cup {"pic"} => ch["master"].icw = 0 /\ ch["slave"].icw = 0

(* The masks are the lines asked for, bit by bit, and the cascade pin is    *)
(* never masked.                                                            *)
OpenOK(p, ch, as) ==
  p \in Ready =>
    /\ 2 \notin ch["master"].mask
    /\ as \subseteq 0 .. 15
    /\ \A l \in 0 .. 15 : l \in as <=> Pin(l) \notin ch[Of(l)].mask

(* The inductive invariant.                                                 *)
IInv ==
  /\ pc \in Steps
  /\ StackOK(stack, pc)
  /\ GatesOK(idt)
  /\ TablesOK(pc, i, gdt, idt)
  /\ saved[1] \in SUBSET Int /\ saved[2] \in SUBSET Int
  /\ PicOK(pc, i, chip)
  /\ OpenOK(pc, chip, asked)

-----------------------------------------------------------------------------

(* The stack allows any later step of kernel_init.                          *)
LEMMA StackMoves ==
  ASSUME NEW s, NEW p, NEW q, StackOK(s, p), p \in {"drivers", "end"} => q \in {"drivers", "end"}
  PROVE  StackOK(s, q)
BY DEF StackOK, ContextOK

(* An interrupt, exception or NMI adds a context: its flag is on only if    *)
(* the flag below is.                                                       *)
LEMMA Appended ==
  ASSUME NEW s, NEW p, StackOK(s, p), NEW c \in Contexts,
         c.run \notin {"kernel", "cli", "hlt"},
         c.run = "driver" => s[Len(s)].if = "on",
         c.if = "on" => s[Len(s)].if = "on"
  PROVE  StackOK(Append(s, c), p)
<1> DEFINE t == Append(s, c)
<1>1. s \in Seq(Contexts) /\ Len(s) \in Nat /\ Len(s) >= 1 /\ \A k \in 1 .. Len(s) : ContextOK(s, k, p)
  BY DEF StackOK
<1>2. t \in Seq(Contexts) /\ Len(t) = Len(s) + 1
  BY <1>1
<1>3. t[Len(s) + 1] = c /\ \A k \in 1 .. Len(s) : t[k] = s[k]
  BY <1>1
<1>4. ASSUME NEW k \in 1 .. Len(s) PROVE ContextOK(t, k, p)
  <2>1. t[k] = s[k] /\ (k > 1 => t[k - 1] = s[k - 1])
    BY <1>1, <1>3
  <2> QED BY <1>1, <2>1 DEF ContextOK
<1>5. ContextOK(t, Len(s) + 1, p)
  <2>1. t[Len(s) + 1] = c /\ t[Len(s) + 1 - 1] = s[Len(s)] /\ Len(s) + 1 > 1
    BY <1>1, <1>3
  <2>2. ContextOK(s, Len(s), p)
    BY <1>1
  <2> QED BY <2>1, <2>2 DEF ContextOK
<1>6. \A k \in 1 .. Len(t) : k \in 1 .. Len(s) \/ k = Len(s) + 1
  BY <1>1, <1>2
<1> QED BY <1>1, <1>2, <1>4, <1>5, <1>6 DEF StackOK

(* cli, hlt, sti and a guard change what the running context does.          *)
LEMMA Replaced ==
  ASSUME NEW s, NEW p, StackOK(s, p), NEW c \in Contexts,
         c.run # "driver",
         c.run = "kernel" => Len(s) = 1,
         c.run \in {"cli", "hlt"} => c.if = "off",
         c.if = "on" => p \in {"drivers", "end"} /\ (Len(s) > 1 => s[Len(s) - 1].if = "on")
  PROVE  StackOK([s EXCEPT ![Len(s)] = c], p)
<1> DEFINE t == [s EXCEPT ![Len(s)] = c]
<1>1. s \in Seq(Contexts) /\ Len(s) \in Nat /\ Len(s) >= 1 /\ \A k \in 1 .. Len(s) : ContextOK(s, k, p)
  BY DEF StackOK
<1>2. t \in Seq(Contexts) /\ Len(t) = Len(s)
  BY <1>1, ExceptSeq
<1>3. t[Len(s)] = c /\ \A k \in 1 .. Len(s) - 1 : t[k] = s[k]
  BY <1>1, ExceptSeq
<1>4. ASSUME NEW k \in 1 .. Len(s) - 1 PROVE ContextOK(t, k, p)
  <2>1. t[k] = s[k] /\ (k > 1 => t[k - 1] = s[k - 1])
    BY <1>1, <1>3
  <2> QED BY <1>1, <2>1 DEF ContextOK
<1>5. ContextOK(t, Len(s), p)
  <2>1. t[Len(s)] = c /\ (Len(s) > 1 => t[Len(s) - 1] = s[Len(s) - 1])
    BY <1>1, <1>3
  <2> QED BY <1>1, <2>1 DEF ContextOK
<1>6. \A k \in 1 .. Len(s) : k \in 1 .. Len(s) - 1 \/ k = Len(s)
  BY <1>1
<1> HIDE DEF t
<1>7. StackOK(t, p)
  BY <1>1, <1>2, <1>4, <1>5, <1>6 DEF StackOK
<1> QED BY <1>7 DEF t

(* iret removes the running context.                                        *)
LEMMA Popped ==
  ASSUME NEW s, NEW p, StackOK(s, p), Len(s) > 1
  PROVE  /\ StackOK(SubSeq(s, 1, Len(s) - 1), p)
         /\ Len(SubSeq(s, 1, Len(s) - 1)) = Len(s) - 1
         /\ \A k \in 1 .. Len(s) - 1 : SubSeq(s, 1, Len(s) - 1)[k] = s[k]
<1> DEFINE t == SubSeq(s, 1, Len(s) - 1)
<1>1. s \in Seq(Contexts) /\ Len(s) \in Nat /\ \A k \in 1 .. Len(s) : ContextOK(s, k, p)
  BY DEF StackOK
<1>2. t \in Seq(Contexts) /\ Len(t) = Len(s) - 1
  BY <1>1
<1>3. \A k \in 1 .. Len(s) - 1 : t[k] = s[k]
  BY <1>1
<1>4. ASSUME NEW k \in 1 .. Len(s) - 1 PROVE ContextOK(t, k, p)
  <2>1. t[k] = s[k] /\ (k > 1 => t[k - 1] = s[k - 1])
    BY <1>1, <1>3
  <2> QED BY <1>1, <2>1 DEF ContextOK
<1> QED BY <1>1, <1>2, <1>3, <1>4 DEF StackOK

-----------------------------------------------------------------------------

(* make_idt_desc cuts a handler's address in two halves and the CPU joins   *)
(* them again: nothing is lost.                                             *)
LEMMA HalvesJoin ==
  ASSUME NEW s \in SUBSET (0 .. 31)
  PROVE  (s \cap 0 .. 15) \cup Shl(Shr(s, 16), 16) = s
<1> DEFINE High == Shl(Shr(s, 16), 16)
<1>1. ASSUME NEW b \in High PROVE b \in s
  <2>1. PICK c \in Shr(s, 16) : b = c + 16
    BY <1>1 DEF Shl
  <2>2. PICK d \in s : d >= 16 /\ c = d - 16
    BY <2>1 DEF Shr
  <2>3. d \in Int
    OBVIOUS
  <2> QED BY <2>1, <2>2, <2>3
<1>2. ASSUME NEW b \in s, b \notin 0 .. 15 PROVE b \in High
  <2>1. b \in Int /\ b >= 16
    BY <1>2
  <2>2. b - 16 \in Shr(s, 16)
    BY <2>1 DEF Shr
  <2>3. b = (b - 16) + 16
    BY <2>1
  <2> QED BY <2>2, <2>3 DEF Shl
<1> HIDE DEF High
<1> QED BY <1>1, <1>2 DEF High

(* Hence a gate leads to the one handler it was made for: no two are linked *)
(* at one address.                                                          *)
LEMMA GateLeads ==
  ASSUME NEW v \in DOMAIN idt, NEW isr \in Isrs, NEW type, idt[v] = make_idt_desc(isr, type)
  PROVE  /\ Leads(v) \subseteq {isr}
         /\ CodeSegment(Descriptor(8)) /\ type \in {INTGATE, TRAPGATE} => Leads(v) = {isr}
<1> DEFINE g == make_idt_desc(isr, type)
<1>1. /\ g.offset_1 = IsrAddr[isr] \cap 0 .. 15 /\ g.offset_2 = Shr(IsrAddr[isr], 16)
      /\ g.selector = 8 /\ g.type_attr = type
  BY DEF make_idt_desc
<1>2. IsrAddr[isr] \in SUBSET (0 .. 31)
  BY IrqAssumption DEF Isrs, Keypress, DriverIsr
<1>3. g.offset_1 \cup Shl(g.offset_2, 16) = IsrAddr[isr]
  BY <1>1, <1>2, HalvesJoin
<1>4. \A a \in Isrs : IsrAddr[a] = IsrAddr[isr] => a = isr
  BY IrqAssumption DEF Isrs, Keypress, DriverIsr
<1>5. {a \in Isrs : IsrAddr[a] = g.offset_1 \cup Shl(g.offset_2, 16)} = {isr}
  BY <1>3, <1>4
<1> HIDE DEF g
<1>6. idt[v] = g
  BY DEF g
<1> QED BY <1>1, <1>5, <1>6 DEF Leads

(* Every registered gate leads to a handler, and that of an exception to    *)
(* its own.                                                                 *)
LEMMA GatesLead ==
  ASSUME NEW v \in DOMAIN idt, GatesOK(idt)
  PROVE  /\ v \in 0 .. 31 => Leads(v) \subseteq {v}
         /\ Leads(v) \subseteq Isrs
         /\ v \in 0 .. 31 /\ CodeSegment(Descriptor(8)) => Leads(v) = {v}
<1>1. GateOK(v, idt[v])
  BY DEF GatesOK
<1>2. CASE v \in 0 .. 31
  <2>1. idt[v] = make_idt_desc(v, GateType(v)) /\ v \in Isrs
    BY <1>1, <1>2 DEF GateOK, Isrs
  <2>2. GateType(v) \in {INTGATE, TRAPGATE}
    BY DEF GateType
  <2> QED BY <2>1, <2>2, GateLeads
<1>3. CASE v \notin 0 .. 31
  <2>1. PICK isr \in {Keypress, DriverIsr} : idt[v] = make_idt_desc(isr, INTGATE)
    BY <1>1, <1>3 DEF GateOK
  <2>2. isr \in Isrs
    BY DEF Isrs
  <2> QED BY <1>3, <2>1, <2>2, GateLeads
<1> QED BY <1>2, <1>3

(* An interrupt through a registered gate or not keeps the order of the     *)
(* stack, whatever runs next.                                               *)
LEMMA Interrupted ==
  ASSUME NEW v, IInv, Interrupt(v), IFlag \/ v \in 0 .. 31
  PROVE  /\ StackOK(stack', pc)
         /\ Len(stack') = Len(stack) + 1
         /\ \A k \in 1 .. Len(stack) : stack'[k] = stack[k]
<1>1. StackOK(stack, pc) /\ GatesOK(idt)
  BY DEF IInv
<1>2. stack \in Seq(Contexts) /\ Len(stack) \in Nat /\ Len(stack) >= 1 /\ Top \in Contexts
  BY <1>1 DEF StackOK, Top
<1>3. PICK run \in Runs(v) : stack' = Append(stack, Ctx(run, IF Masks(v) THEN "off" ELSE Top.if))
  BY DEF Interrupt
<1> DEFINE c == Ctx(run, IF Masks(v) THEN "off" ELSE Top.if)
<1>4. run \in {"wild", "kpanic", "reset", "print", "driver"} /\ (run = "driver" => IFlag)
  <2>1. CASE ~lidt \/ v \notin DOMAIN idt
    BY <1>3, <2>1 DEF Runs, Unregistered
  <2>2. CASE lidt /\ v \in DOMAIN idt /\ Leads(v) = {}
    BY <1>3, <2>2 DEF Runs
  <2>3. CASE lidt /\ v \in DOMAIN idt /\ Leads(v) # {}
    <3>1. PICK isr \in Leads(v) : run = Body(isr)
      BY <1>3, <2>3 DEF Runs
    <3>2. Body(isr) \in {"kpanic", "print", "driver"} /\ (Body(isr) = "driver" => isr = DriverIsr)
      BY DEF Body, handle_pagefault, keypress
    <3>3. v \in 0 .. 31 => isr = v
      BY <2>3, <1>1, <3>1, GatesLead
    <3> QED BY <3>1, <3>2, <3>3 DEF DriverIsr
  <2> QED BY <2>1, <2>2, <2>3
<1>5. c \in Contexts /\ c.run = run /\ (c.if = "on" => Top.if = "on")
  BY <1>2, <1>4 DEF Ctx, Contexts, Runnable
<1> HIDE DEF c
<1>6. stack' = Append(stack, c)
  BY <1>3 DEF c
<1>7. StackOK(Append(stack, c), pc)
  BY <1>1, <1>4, <1>5, Appended DEF Top, IFlag
<1> QED BY <1>2, <1>5, <1>6, <1>7

-----------------------------------------------------------------------------

(* The bits that make_gdt_desc sets for a flat segment.                     *)
LEMMA FlatBits ==
  ASSUME NEW a \in SUBSET (0 .. 7), NEW b
  PROVE  b \in Flat(a) <=> b \in 0 .. 15 \cup 48 .. 51 \cup {54, 55} \/ \E x \in a : b = x + 40
<1> DEFINE upper == UNION {Shr({} \cap 16 .. 23, 16), Shl(a, 8), (0 .. 31) \cap 16 .. 19,
                           Shl(x86FLAG \cap 0 .. 3, 20), {} \cap 24 .. 31}
<1>1. Shr({} \cap 16 .. 23, 16) = {} /\ Shl({} \cap 0 .. 15, 16) = {}
  BY DEF Shr, Shl
<1>2. (0 .. 31) \cap 16 .. 19 = 16 .. 19 /\ (0 .. 31) \cap 0 .. 15 = 0 .. 15
  OBVIOUS
<1>3. Shl(x86FLAG \cap 0 .. 3, 20) = {22, 23}
  BY DEF Shl, x86FLAG
<1>4. upper = UNION {{}, Shl(a, 8), 16 .. 19, {22, 23}, {}}
  BY <1>1, <1>2, <1>3
<1>5. Flat(a) = UNION {Shl(upper, 32), (0 .. 31) \cap 0 .. 15, Shl({} \cap 0 .. 15, 16)}
  BY DEF Flat, make_gdt_desc
<1> HIDE DEF upper
<1>6. b \in Flat(a) <=> b \in Shl(upper, 32) \/ b \in 0 .. 15
  BY <1>1, <1>2, <1>5
<1>7. b \in Shl(upper, 32) <=> \E u \in upper : b = u + 32
  BY DEF Shl
<1>8. \A u : u \in upper <=> (\E x \in a : u = x + 8) \/ u \in 16 .. 19 \/ u \in {22, 23}
  BY <1>4 DEF Shl
<1>9. (\E u \in upper : b = u + 32) <=> b \in 48 .. 51 \cup {54, 55} \/ \E x \in a : b = x + 40
  <2>1. ASSUME NEW u \in upper, b = u + 32
        PROVE  b \in 48 .. 51 \cup {54, 55} \/ \E x \in a : b = x + 40
    <3>1. CASE \E x \in a : u = x + 8
      <4>1. PICK x \in a : u = x + 8
        BY <3>1
      <4>2. x \in Int
        OBVIOUS
      <4> QED BY <2>1, <4>1, <4>2
    <3>2. CASE u \in 16 .. 19 \/ u \in {22, 23}
      BY <2>1, <3>2
    <3> QED BY <1>8, <3>1, <3>2
  <2>2. ASSUME b \in 48 .. 51 \cup {54, 55} PROVE \E u \in upper : b = u + 32
    <3>1. b - 32 \in upper /\ b = (b - 32) + 32
      BY <1>8, <2>2
    <3> QED BY <3>1
  <2>3. ASSUME NEW x \in a, b = x + 40 PROVE \E u \in upper : b = u + 32
    <3>1. x \in Int
      OBVIOUS
    <3>2. x + 8 \in upper /\ b = (x + 8) + 32
      BY <1>8, <2>3, <3>1
    <3> QED BY <3>2
  <2> QED BY <2>1, <2>2, <2>3
<1> QED BY <1>6, <1>7, <1>9

(* The CPU reads them as all of memory, in ring 0: selector 8 is code and   *)
(* 16 is data.                                                              *)
LEMMA SegmentsFlat == CodeSegment(Flat(AB_CODE0)) /\ DataSegment(Flat(AB_DATA0))
<1>1. AB_CODE0 = {7, 4, 3, 2, 1} /\ AB_DATA0 = {7, 4, 1}
  BY DEF AB_CODE0, AB_DATA0, ABPRSNT, ABCSDS, ABEXEC, ABCEXECLWR, ABCDRW
<1>2. \A b : b \in Flat(AB_CODE0) <=> b \in 0 .. 15 \cup 48 .. 51 \cup {54, 55} \cup {47, 44, 43, 42, 41}
  <2> TAKE b
  <2>1. AB_CODE0 \in SUBSET (0 .. 7)
    BY <1>1
  <2>2. (\E x \in AB_CODE0 : b = x + 40) <=> b \in {47, 44, 43, 42, 41}
    BY <1>1
  <2> QED BY <2>1, <2>2, FlatBits
<1>3. \A b : b \in Flat(AB_DATA0) <=> b \in 0 .. 15 \cup 48 .. 51 \cup {54, 55} \cup {47, 44, 41}
  <2> TAKE b
  <2>1. AB_DATA0 \in SUBSET (0 .. 7)
    BY <1>1
  <2>2. (\E x \in AB_DATA0 : b = x + 40) <=> b \in {47, 44, 41}
    BY <1>1
  <2> QED BY <2>1, <2>2, FlatBits
<1>4. FlatRing0(Flat(AB_CODE0))
  BY <1>2 DEF FlatRing0
<1>5. FlatRing0(Flat(AB_DATA0))
  BY <1>3 DEF FlatRing0
<1>6. 43 \in Flat(AB_CODE0) /\ 43 \notin Flat(AB_DATA0) /\ 41 \in Flat(AB_DATA0)
  BY <1>2, <1>3
<1> QED BY <1>4, <1>5, <1>6 DEF CodeSegment, DataSegment

(* The GDT in use is the one that init_gdt loads.                           *)
LEMMA SegmentsHold ==
  ASSUME gdt = GdtEntries
  PROVE  CodeSegment(Descriptor(8)) /\ DataSegment(Descriptor(16))
<1>1. 8 \div 8 + 1 = 2 /\ 16 \div 8 + 1 = 3
  OBVIOUS
<1>2. GdtEntries[2] = Flat(AB_CODE0) /\ GdtEntries[3] = Flat(AB_DATA0)
  BY DEF GdtEntries
<1> QED BY <1>1, <1>2, SegmentsFlat DEF Descriptor

(* The invariant gives every exception its handler.                         *)
LEMMA FaultsHandledHolds == ASSUME IInv PROVE FaultsHandled
<1> SUFFICES ASSUME pc \notin Early
             PROVE  /\ CodeSegment(Descriptor(8)) /\ DataSegment(Descriptor(16))
                    /\ \A n \in DOMAIN TrapTable : Leads(TrapTable[n]) = {TrapTable[n]}
  BY DEF FaultsHandled, Early, NoGdt
<1>1. gdt = GdtEntries /\ GatesOK(idt) /\ \A n \in 1 .. 20 : TrapTable[n] \in DOMAIN idt
  BY DEF IInv, TablesOK, Early
<1>2. CodeSegment(Descriptor(8)) /\ DataSegment(Descriptor(16))
  BY <1>1, SegmentsHold
<1>3. DOMAIN TrapTable = 1 .. 20 /\ \A n \in 1 .. 20 : TrapTable[n] \in 0 .. 31
  BY DEF TrapTable
<1>4. ASSUME NEW n \in 1 .. 20 PROVE Leads(TrapTable[n]) = {TrapTable[n]}
  BY <1>1, <1>2, <1>3, GatesLead
<1> QED BY <1>2, <1>3, <1>4

-----------------------------------------------------------------------------

(* The first initialisation word restarts a chip.                           *)
LEMMA CommandOutcome ==
  ASSUME NEW c \in ChipType, NEW v, 4 \in v
  PROVE  Command(c, v) \in ChipType /\ Command(c, v).icw = 2
BY DEF Command, ChipType

(* A word on the data port: what each stage of the initialisation makes of  *)
(* it.                                                                      *)
LEMMA DataOutcome ==
  ASSUME NEW c \in ChipType, NEW v \in SUBSET Int
  PROVE  /\ Data(c, v) \in ChipType
         /\ c.icw = 2 => Data(c, v).icw = 3 /\ Data(c, v).base = Num(v \ 0 .. 2)
         /\ c.icw = 3 => Data(c, v).icw = 4 /\ Data(c, v).cascade = v /\ Data(c, v).base = c.base
         /\ c.icw = 4 => Data(c, v).icw = 0 /\ Data(c, v).cascade = c.cascade /\ Data(c, v).base = c.base
         /\ c.icw = 0 => /\ Data(c, v).icw = 0 /\ Data(c, v).mask = v
                         /\ Data(c, v).cascade = c.cascade /\ Data(c, v).base = c.base
<1>1. Num(v \ 0 .. 2) \in Int
  BY DEF Num
<1>2. CASE c.icw = 2
  <2> DEFINE d == [c EXCEPT !.icw = 3]
  <2>1. d \in ChipType /\ d.icw = 3 /\ d.base = c.base
    BY DEF ChipType
  <2>2. Data(c, v) = [d EXCEPT !.base = Num(v \ 0 .. 2)]
    BY <1>2 DEF Data
  <2> HIDE DEF d
  <2> QED BY <1>1, <1>2, <2>1, <2>2 DEF ChipType
<1>3. CASE c.icw = 3
  <2> DEFINE d == [c EXCEPT !.icw = 4]
  <2>1. d \in ChipType /\ d.icw = 4 /\ d.base = c.base
    BY DEF ChipType
  <2>2. Data(c, v) = [d EXCEPT !.cascade = v]
    BY <1>3 DEF Data
  <2> HIDE DEF d
  <2> QED BY <1>3, <2>1, <2>2 DEF ChipType
<1>4. CASE c.icw = 4
  <2>1. Data(c, v) = [c EXCEPT !.icw = 0]
    BY <1>4 DEF Data
  <2> QED BY <1>4, <2>1 DEF ChipType
<1>5. CASE c.icw = 0
  <2>1. Data(c, v) = [c EXCEPT !.mask = v]
    BY <1>5 DEF Data
  <2> QED BY <1>5, <2>1 DEF ChipType
<1>6. c.icw \in {0, 2, 3, 4}
  BY DEF ChipType
<1> QED BY <1>2, <1>3, <1>4, <1>5, <1>6

(* Outside the initialisation it is the mask.                               *)
LEMMA MaskWritten ==
  ASSUME NEW c \in ChipType, NEW v \in SUBSET Int, c.icw = 0
  PROVE  /\ Data(c, v) \in ChipType /\ Data(c, v).icw = 0 /\ Data(c, v).mask = v
         /\ Data(c, v).cascade = c.cascade /\ Data(c, v).base = c.base
BY DataOutcome

(* Interrupts are on only after init_pic, so the chips are where            *)
(* pic_remap(0x20, 0x28) put them.                                          *)
LEMMA IrqsApartHolds == ASSUME IInv PROVE IrqsApart
<1> SUFFICES ASSUME IFlag, NEW l \in 0 .. 15
             PROVE  chip[Of(l)].icw = 0 /\ Vector(l) = 32 + l
  BY DEF IrqsApart
<1>1. pc \in Ready
  BY DEF IInv, StackOK, ContextOK, IFlag, Top, Ready
<1>2. /\ chip["master"].icw = 0 /\ chip["master"].base = 32
      /\ chip["slave"].icw = 0 /\ chip["slave"].base = 40
  BY <1>1 DEF IInv, PicOK, ChipAt
<1>3. l < 8 => l % 8 = l
  OBVIOUS
<1>4. l >= 8 => l % 8 = l - 8
  OBVIOUS
<1> QED BY <1>2, <1>3, <1>4 DEF Of, Pin, Vector

(* A slave's line is open when its own bit is clear: the cascade always is. *)
LEMMA OpenExactlyHolds == ASSUME IInv PROVE OpenExactly
<1> SUFFICES ASSUME pc \in Ready PROVE {l \in 0 .. 15 : Open(l)} = asked
  BY DEF OpenExactly, Ready
<1>1. chip["master"].cascade = {2} /\ chip["slave"].cascade = {1}
  BY DEF IInv, PicOK, ChipAt
<1>2. Num({1}) = 2
  BY DEF Num
<1>3. 2 \notin chip["master"].mask
  BY DEF IInv, OpenOK
<1>4. CascadeOpen
  BY <1>1, <1>2, <1>3 DEF CascadeOpen, Cascade
<1>5. \A l \in 0 .. 15 : Open(l) <=> Pin(l) \notin chip[Of(l)].mask
  BY <1>4 DEF Open
<1> QED BY <1>5 DEF IInv, OpenOK

(* A write of the program reaches its chip.                                 *)
Take(c, w) == IF w.port = "command" THEN Command(c, w.value) ELSE Data(c, w.value)

(* pic_noirqs leaves the cascade's line and line 9 open.                    *)
LEMMA NoIrqs ==
  /\ pic_noirqs["master"] = 0 .. 7 \ {2} /\ pic_noirqs["slave"] = 0 .. 7 \ {1}
  /\ LeftOpen = {2, 9}
<1>1. pic_noirqs["master"] = 0 .. 7 \ {2} /\ pic_noirqs["slave"] = 0 .. 7 \ {1}
  BY DEF pic_noirqs, Pics
<1>2. ASSUME NEW l \in 0 .. 15 PROVE Pin(l) \notin pic_noirqs[Of(l)] <=> l \in {2, 9}
  BY <1>1 DEF Pin, Of
<1>3. LeftOpen = {2, 9}
  BY <1>2 DEF LeftOpen
<1> QED BY <1>1, <1>3

(* Word n of the master's program takes it from stage n to the next.        *)
LEMMA MasterWord ==
  ASSUME NEW c \in ChipType, NEW n \in 0 .. 5, MasterAt(c, n), NEW masks, masks[1] \in SUBSET Int
  PROVE  LET w == PicProgram(masks)[2 * n + 1] IN
           w.to = "master" /\ Take(c, w) \in ChipType /\ MasterAt(Take(c, w), n + 1)
<1>1. /\ PicProgram(masks)[1] = Icw1("master")
      /\ PicProgram(masks)[3] = Write("master", {5})
      /\ PicProgram(masks)[5] = Write("master", {2})
      /\ PicProgram(masks)[7] = Write("master", {0})
      /\ PicProgram(masks)[9] = Write("master", masks[1])
      /\ PicProgram(masks)[11] = Write("master", 0 .. 7 \ {2})
  BY NoIrqs DEF PicProgram
<1>2. Take(c, Icw1("master")) = Command(c, {4, 0}) /\ Icw1("master").to = "master"
  BY DEF Take, Icw1
<1>3. \A v : Take(c, Write("master", v)) = Data(c, v) /\ Write("master", v).to = "master"
  BY DEF Take, Write
<1>4. CASE n = 0
  <2>1. 4 \in {4, 0} /\ 2 * n + 1 = 1 /\ n + 1 = 1
    BY <1>4
  <2> QED BY <1>1, <1>2, <2>1, CommandOutcome DEF MasterAt, ChipAt
<1>5. CASE n = 1
  <2>1. c.icw = 2 /\ 2 * n + 1 = 3 /\ n + 1 = 2 /\ {5} \in SUBSET Int
    BY <1>5 DEF MasterAt, ChipAt
  <2>2. {5} \ 0 .. 2 = {5} /\ Num({5}) = 32
    BY DEF Num
  <2> QED BY <1>1, <1>3, <2>1, <2>2, DataOutcome DEF MasterAt, ChipAt
<1>6. CASE n = 2
  <2>1. c.icw = 3 /\ c.base = 32 /\ 2 * n + 1 = 5 /\ n + 1 = 3 /\ {2} \in SUBSET Int
    BY <1>6 DEF MasterAt, ChipAt
  <2> DEFINE d == Data(c, {2})
  <2>2. d \in ChipType /\ d.icw = 4 /\ d.base = 32 /\ d.cascade = {2}
    BY <2>1, DataOutcome
  <2>3. PicProgram(masks)[2 * n + 1] = Write("master", {2})
    BY <1>1, <2>1
  <2> HIDE DEF d
  <2>4. MasterAt(d, n + 1)
    BY ONLY <2>1, <2>2 DEF MasterAt, ChipAt
  <2> QED BY <1>3, <2>2, <2>3, <2>4 DEF d
<1>7. CASE n = 3
  <2>1. /\ c.icw = 4 /\ c.base = 32 /\ c.cascade = {2}
        /\ 2 * n + 1 = 7 /\ n + 1 = 4 /\ {0} \in SUBSET Int
    BY <1>7 DEF MasterAt, ChipAt
  <2> DEFINE d == Data(c, {0})
  <2>2. d \in ChipType /\ d.icw = 0 /\ d.base = 32 /\ d.cascade = {2}
    BY <2>1, DataOutcome
  <2>3. PicProgram(masks)[2 * n + 1] = Write("master", {0})
    BY <1>1, <2>1
  <2> HIDE DEF d
  <2>4. MasterAt(d, n + 1)
    BY ONLY <2>1, <2>2 DEF MasterAt, ChipAt
  <2> QED BY <1>3, <2>2, <2>3, <2>4 DEF d
<1>8. CASE n = 4
  <2>1. /\ c.icw = 0 /\ c.base = 32 /\ c.cascade = {2}
        /\ 2 * n + 1 = 9 /\ n + 1 = 5 /\ masks[1] \in SUBSET Int
    BY <1>8 DEF MasterAt, ChipAt
  <2> DEFINE d == Data(c, masks[1])
  <2> DEFINE v == masks[1]
  <2>a. c \in ChipType /\ v \in SUBSET Int /\ c.icw = 0 /\ c.base = 32 /\ c.cascade = {2}
    BY <2>1
  <2> HIDE DEF v
  <2>b. /\ Data(c, v) \in ChipType /\ Data(c, v).icw = 0 /\ Data(c, v).mask = v
        /\ Data(c, v).cascade = c.cascade /\ Data(c, v).base = c.base
    BY ONLY <2>a, MaskWritten
  <2>2. d \in ChipType /\ d.icw = 0 /\ d.base = 32 /\ d.cascade = {2} /\ d.mask = masks[1]
    BY <2>a, <2>b DEF v
  <2>3. PicProgram(masks)[2 * n + 1] = Write("master", masks[1])
    BY <1>1, <2>1
  <2> HIDE DEF d
  <2>4. MasterAt(d, n + 1)
    BY ONLY <2>1, <2>2 DEF MasterAt, ChipAt
  <2> QED BY <1>3, <2>2, <2>3, <2>4 DEF d
<1>9. CASE n = 5
  <2>1. /\ c.icw = 0 /\ c.base = 32 /\ c.cascade = {2}
        /\ 2 * n + 1 = 11 /\ n + 1 = 6 /\ (0 .. 7 \ {2}) \in SUBSET Int
    BY <1>9 DEF MasterAt, ChipAt
  <2> DEFINE d == Data(c, (0 .. 7 \ {2}))
  <2> DEFINE v == (0 .. 7 \ {2})
  <2>a. c \in ChipType /\ v \in SUBSET Int /\ c.icw = 0 /\ c.base = 32 /\ c.cascade = {2}
    BY <2>1
  <2> HIDE DEF v
  <2>b. /\ Data(c, v) \in ChipType /\ Data(c, v).icw = 0 /\ Data(c, v).mask = v
        /\ Data(c, v).cascade = c.cascade /\ Data(c, v).base = c.base
    BY ONLY <2>a, MaskWritten
  <2>2. d \in ChipType /\ d.icw = 0 /\ d.base = 32 /\ d.cascade = {2} /\ d.mask = (0 .. 7 \ {2})
    BY <2>a, <2>b DEF v
  <2>3. PicProgram(masks)[2 * n + 1] = Write("master", (0 .. 7 \ {2}))
    BY <1>1, <2>1
  <2> HIDE DEF d
  <2>4. MasterAt(d, n + 1)
    BY ONLY <2>1, <2>2 DEF MasterAt, ChipAt
  <2> QED BY <1>3, <2>2, <2>3, <2>4 DEF d
<1> QED BY <1>4, <1>5, <1>6, <1>7, <1>8, <1>9

(* The same of the slave's.                                                 *)
LEMMA SlaveWord ==
  ASSUME NEW c \in ChipType, NEW n \in 0 .. 5, SlaveAt(c, n), NEW masks, masks[2] \in SUBSET Int
  PROVE  LET w == PicProgram(masks)[2 * n + 2] IN
           w.to = "slave" /\ Take(c, w) \in ChipType /\ SlaveAt(Take(c, w), n + 1)
<1>1. /\ PicProgram(masks)[2] = Icw1("slave")
      /\ PicProgram(masks)[4] = Write("slave", {5, 3})
      /\ PicProgram(masks)[6] = Write("slave", {1})
      /\ PicProgram(masks)[8] = Write("slave", {0})
      /\ PicProgram(masks)[10] = Write("slave", masks[2])
      /\ PicProgram(masks)[12] = Write("slave", 0 .. 7 \ {1})
  BY NoIrqs DEF PicProgram
<1>2. Take(c, Icw1("slave")) = Command(c, {4, 0}) /\ Icw1("slave").to = "slave"
  BY DEF Take, Icw1
<1>3. \A v : Take(c, Write("slave", v)) = Data(c, v) /\ Write("slave", v).to = "slave"
  BY DEF Take, Write
<1>4. CASE n = 0
  <2>1. 4 \in {4, 0} /\ 2 * n + 2 = 2 /\ n + 1 = 1
    BY <1>4
  <2> QED BY <1>1, <1>2, <2>1, CommandOutcome DEF SlaveAt, ChipAt
<1>5. CASE n = 1
  <2>1. c.icw = 2 /\ 2 * n + 2 = 4 /\ n + 1 = 2 /\ {5, 3} \in SUBSET Int
    BY <1>5 DEF SlaveAt, ChipAt
  <2>2. {5, 3} \ 0 .. 2 = {5, 3} /\ Num({5, 3}) = 40
    BY DEF Num
  <2> QED BY <1>1, <1>3, <2>1, <2>2, DataOutcome DEF SlaveAt, ChipAt
<1>6. CASE n = 2
  <2>1. c.icw = 3 /\ c.base = 40 /\ 2 * n + 2 = 6 /\ n + 1 = 3 /\ {1} \in SUBSET Int
    BY <1>6 DEF SlaveAt, ChipAt
  <2> DEFINE d == Data(c, {1})
  <2>2. d \in ChipType /\ d.icw = 4 /\ d.base = 40 /\ d.cascade = {1}
    BY <2>1, DataOutcome
  <2>3. PicProgram(masks)[2 * n + 2] = Write("slave", {1})
    BY <1>1, <2>1
  <2> HIDE DEF d
  <2>4. SlaveAt(d, n + 1)
    BY ONLY <2>1, <2>2 DEF SlaveAt, ChipAt
  <2> QED BY <1>3, <2>2, <2>3, <2>4 DEF d
<1>7. CASE n = 3
  <2>1. /\ c.icw = 4 /\ c.base = 40 /\ c.cascade = {1}
        /\ 2 * n + 2 = 8 /\ n + 1 = 4 /\ {0} \in SUBSET Int
    BY <1>7 DEF SlaveAt, ChipAt
  <2> DEFINE d == Data(c, {0})
  <2>2. d \in ChipType /\ d.icw = 0 /\ d.base = 40 /\ d.cascade = {1}
    BY <2>1, DataOutcome
  <2>3. PicProgram(masks)[2 * n + 2] = Write("slave", {0})
    BY <1>1, <2>1
  <2> HIDE DEF d
  <2>4. SlaveAt(d, n + 1)
    BY ONLY <2>1, <2>2 DEF SlaveAt, ChipAt
  <2> QED BY <1>3, <2>2, <2>3, <2>4 DEF d
<1>8. CASE n = 4
  <2>1. /\ c.icw = 0 /\ c.base = 40 /\ c.cascade = {1}
        /\ 2 * n + 2 = 10 /\ n + 1 = 5 /\ masks[2] \in SUBSET Int
    BY <1>8 DEF SlaveAt, ChipAt
  <2> DEFINE d == Data(c, masks[2])
  <2> DEFINE v == masks[2]
  <2>a. c \in ChipType /\ v \in SUBSET Int /\ c.icw = 0 /\ c.base = 40 /\ c.cascade = {1}
    BY <2>1
  <2> HIDE DEF v
  <2>b. /\ Data(c, v) \in ChipType /\ Data(c, v).icw = 0 /\ Data(c, v).mask = v
        /\ Data(c, v).cascade = c.cascade /\ Data(c, v).base = c.base
    BY ONLY <2>a, MaskWritten
  <2>2. d \in ChipType /\ d.icw = 0 /\ d.base = 40 /\ d.cascade = {1} /\ d.mask = masks[2]
    BY <2>a, <2>b DEF v
  <2>3. PicProgram(masks)[2 * n + 2] = Write("slave", masks[2])
    BY <1>1, <2>1
  <2> HIDE DEF d
  <2>4. SlaveAt(d, n + 1)
    BY ONLY <2>1, <2>2 DEF SlaveAt, ChipAt
  <2> QED BY <1>3, <2>2, <2>3, <2>4 DEF d
<1>9. CASE n = 5
  <2>1. /\ c.icw = 0 /\ c.base = 40 /\ c.cascade = {1}
        /\ 2 * n + 2 = 12 /\ n + 1 = 6 /\ (0 .. 7 \ {1}) \in SUBSET Int
    BY <1>9 DEF SlaveAt, ChipAt
  <2> DEFINE d == Data(c, (0 .. 7 \ {1}))
  <2> DEFINE v == (0 .. 7 \ {1})
  <2>a. c \in ChipType /\ v \in SUBSET Int /\ c.icw = 0 /\ c.base = 40 /\ c.cascade = {1}
    BY <2>1
  <2> HIDE DEF v
  <2>b. /\ Data(c, v) \in ChipType /\ Data(c, v).icw = 0 /\ Data(c, v).mask = v
        /\ Data(c, v).cascade = c.cascade /\ Data(c, v).base = c.base
    BY ONLY <2>a, MaskWritten
  <2>2. d \in ChipType /\ d.icw = 0 /\ d.base = 40 /\ d.cascade = {1} /\ d.mask = (0 .. 7 \ {1})
    BY <2>a, <2>b DEF v
  <2>3. PicProgram(masks)[2 * n + 2] = Write("slave", (0 .. 7 \ {1}))
    BY <1>1, <2>1
  <2> HIDE DEF d
  <2>4. SlaveAt(d, n + 1)
    BY ONLY <2>1, <2>2 DEF SlaveAt, ChipAt
  <2> QED BY <1>3, <2>2, <2>3, <2>4 DEF d
<1> QED BY <1>4, <1>5, <1>6, <1>7, <1>8, <1>9

(* A write of init_pic advances one chip and leaves the other where it is;  *)
(* the last one opens lines 2 and 9.                                        *)
LEMMA PicWriteKeeps ==
  ASSUME IInv, PicWrite
  PROVE  PicOK(pc', i', chip') /\ OpenOK(pc', chip', asked')
<1>1. pc = "pic" /\ i \in 1 .. 12 /\ chip \in [Pics -> ChipType] /\ saved[1] \in SUBSET Int /\ saved[2] \in SUBSET Int
  BY DEF IInv, PicOK, PicWrite
<1>2. chip["master"] \in ChipType /\ chip["slave"] \in ChipType
  BY <1>1 DEF Pics
<1> DEFINE w == PicProgram(saved)[i]
<1>3. chip' = [chip EXCEPT ![w.to] = Take(chip[w.to], w)]
  BY DEF PicWrite, Take
<1>4. MasterAt(chip["master"], i \div 2) /\ SlaveAt(chip["slave"], (i - 1) \div 2)
  BY <1>1 DEF IInv, PicOK
<1>5. (i < 12 /\ i' = i + 1 /\ pc' = "pic") \/ (i = 12 /\ pc' = "pci" /\ asked' = {2, 9})
  BY <1>1, NoIrqs DEF PicWrite
<1>6. /\ chip' \in [Pics -> ChipType]
      /\ MasterAt(chip'["master"], (i + 1) \div 2)
      /\ SlaveAt(chip'["slave"], i \div 2)
  <2>1. CASE i \in {1, 3, 5, 7, 9, 11}
    <3> DEFINE n == (i - 1) \div 2
    <3>1. n \in 0 .. 5 /\ i = 2 * n + 1 /\ i \div 2 = n /\ (i + 1) \div 2 = n + 1
      BY <2>1
    <3> HIDE DEF n
    <3>2. w.to = "master" /\ Take(chip["master"], w) \in ChipType /\ MasterAt(Take(chip["master"], w), n + 1)
      BY <1>1, <1>2, <1>4, <3>1, MasterWord
    <3> HIDE DEF w
    <3>3. chip' \in [Pics -> ChipType] /\ chip'["master"] = Take(chip["master"], w) /\ chip'["slave"] = chip["slave"]
      BY <1>1, <1>3, <3>2 DEF Pics
    <3>4. i \div 2 = (i - 1) \div 2
      BY <2>1
    <3> QED BY <1>4, <3>1, <3>2, <3>3, <3>4
  <2>2. CASE i \in {2, 4, 6, 8, 10, 12}
    <3> DEFINE n == (i - 1) \div 2
    <3>1. n \in 0 .. 5 /\ i = 2 * n + 2 /\ i \div 2 = n + 1 /\ (i + 1) \div 2 = i \div 2
      BY <2>2
    <3> HIDE DEF n
    <3>2. w.to = "slave" /\ Take(chip["slave"], w) \in ChipType /\ SlaveAt(Take(chip["slave"], w), n + 1)
      <4>1. SlaveAt(chip["slave"], n)
        BY <1>4 DEF n
      <4> QED BY <1>1, <1>2, <3>1, <4>1, SlaveWord
    <3> HIDE DEF w
    <3>3. chip' \in [Pics -> ChipType] /\ chip'["slave"] = Take(chip["slave"], w) /\ chip'["master"] = chip["master"]
      BY <1>1, <1>3, <3>2 DEF Pics
    <3> QED BY <1>4, <3>1, <3>2, <3>3
  <2> QED BY <1>1, <2>1, <2>2
<1>7. CASE i < 12
  <2>1. (i' - 1) = i /\ i' \in 1 .. 12 /\ i' \div 2 = (i + 1) \div 2 /\ pc' = "pic" /\ (i' - 1) \div 2 = i \div 2
    BY <1>1, <1>5, <1>7
  <2> QED BY <1>6, <2>1 DEF PicOK, OpenOK, Ready
<1>8. CASE i = 12
  <2>1. MasterAt(chip'["master"], 6) /\ SlaveAt(chip'["slave"], 6)
    BY <1>6, <1>8
  <2>2. PicOK(pc', i', chip')
    BY <1>5, <1>6, <1>8, <2>1 DEF PicOK, Ready, MasterAt, SlaveAt
  <2>3. chip'["master"].mask = 0 .. 7 \ {2} /\ chip'["slave"].mask = 0 .. 7 \ {1} /\ asked' = {2, 9}
    BY <1>5, <1>8, <2>1 DEF MasterAt, SlaveAt
  <2>4. \A l \in 0 .. 15 : l \in asked' <=> Pin(l) \notin chip'[Of(l)].mask
    BY <2>3 DEF Pin, Of
  <2> QED BY <2>2, <2>3, <2>4 DEF OpenOK
<1> QED BY <1>1, <1>7, <1>8

-----------------------------------------------------------------------------

(* The stack is never empty, and while kernel_init runs it is alone on it.  *)
LEMMA StackFacts ==
  ASSUME IInv
  PROVE  /\ stack \in Seq(Contexts) /\ Len(stack) \in Nat /\ Len(stack) >= 1
         /\ Top \in Contexts /\ ContextOK(stack, Len(stack), pc)
         /\ InKernel => Len(stack) = 1
<1>1. stack \in Seq(Contexts) /\ Len(stack) \in Nat /\ Len(stack) >= 1 /\ ContextOK(stack, Len(stack), pc)
  BY DEF IInv, StackOK
<1>2. Top \in Contexts
  BY <1>1 DEF Top
<1>3. InKernel => Len(stack) = 1
  BY <1>1 DEF InKernel, Top, ContextOK
<1> QED BY <1>1, <1>2, <1>3

(* A step of the code that runs, with its flag as it was.                   *)
LEMMA TopGoes ==
  ASSUME IInv, NEW run \in {"spin", "kpanic", "hlt"}, run = "hlt" => Top.if = "off"
  PROVE  StackOK(Goes(run), pc)
<1> DEFINE c == Ctx(run, Top.if)
<1>1. c \in Contexts /\ c.run = run /\ c.if = Top.if
  BY StackFacts DEF Ctx, Contexts, Runnable
<1> HIDE DEF c
<1>2. c.if = "on" => pc \in {"drivers", "end"} /\ (Len(stack) > 1 => stack[Len(stack) - 1].if = "on")
  BY <1>1, StackFacts DEF ContextOK, Top
<1>3. StackOK(stack, pc)
  BY DEF IInv
<1>4. StackOK([stack EXCEPT ![Len(stack)] = c], pc)
  BY <1>1, <1>2, <1>3, Replaced
<1> QED BY <1>4 DEF Goes, Now, c

(* pc moves on, without going back before a table that is loaded.           *)
Follows(p, q) ==
  /\ q \in Steps \ {"traps", "pic"} /\ p # "pic"
  /\ p \in {"drivers", "end"} => q \in {"drivers", "end"}
  /\ p \in NoGdt => q \in NoGdt
  /\ p \in Early => q \in Early
  /\ p \in Ready <=> q \in Ready

(* Such a step keeps everything when it changes no table.                   *)
LEMMA PcMoves ==
  ASSUME IInv, NEW q, Follows(pc, q)
  PROVE  /\ q \in Steps /\ StackOK(stack, q) /\ TablesOK(q, i, gdt, idt)
         /\ PicOK(q, i, chip) /\ OpenOK(q, chip, asked)
<1>1. pc \in Steps /\ StackOK(stack, pc) /\ TablesOK(pc, i, gdt, idt) /\ PicOK(pc, i, chip) /\ OpenOK(pc, chip, asked)
  BY DEF IInv
<1>2. StackOK(stack, q) /\ q \in Steps
  BY <1>1, StackMoves DEF Follows
<1>3. TablesOK(q, i, gdt, idt)
  BY <1>1 DEF TablesOK, Follows, Steps
<1>4. PicOK(q, i, chip) /\ OpenOK(q, chip, asked)
  BY <1>1 DEF PicOK, OpenOK, Follows, Ready
<1> QED BY <1>2, <1>3, <1>4

(* The invariant holds when kernel_init starts.                             *)
LEMMA InitEstablishes == ASSUME Init PROVE IInv
<1>1. pc = "serial" /\ stack = <<Ctx("kernel", "off")>> /\ idt = <<>> /\ asked = {} /\ saved = <<{}, {}>>
  BY DEF Init
<1> DEFINE c == Ctx("kernel", "off")
<1>2. c \in Contexts /\ c.run = "kernel" /\ c.if = "off"
  BY DEF Ctx, Contexts, Runnable
<1> HIDE DEF c
<1>3. stack = <<c>>
  BY <1>1 DEF c
<1>4. stack \in Seq(Contexts) /\ Len(stack) = 1 /\ stack[1] = c
  BY <1>2, <1>3
<1>5. StackOK(stack, pc)
  BY <1>2, <1>4 DEF StackOK, ContextOK
<1>6. GatesOK(idt)
  BY <1>1 DEF GatesOK
<1>7. TablesOK(pc, i, gdt, idt)
  BY <1>1 DEF TablesOK, NoGdt, Early
<1>8. PicOK(pc, i, chip)
  <2>1. PICK masks \in [Pics -> BiosMasks] :
          chip = [x \in Pics |-> [icw |-> 0, base |-> IF x = "master" THEN 8 ELSE 112,
                               cascade |-> IF x = "master" THEN {2} ELSE {1},
                               mask |-> masks[x], isr |-> {}]]
    BY DEF Init
  <2>2. ASSUME NEW x \in Pics PROVE chip[x] \in ChipType /\ chip[x].icw = 0
    <3>1. masks[x] \in SUBSET (0 .. 7)
      BY IrqAssumption
    <3> QED BY <2>1, <3>1 DEF ChipType
  <2>3. chip \in [Pics -> ChipType]
    <3>1. DOMAIN chip = Pics /\ chip = [x \in Pics |-> chip[x]]
      BY <2>1
    <3> QED BY <2>2, <3>1
  <2> QED BY <1>1, <2>2, <2>3 DEF PicOK, Ready, Pics
<1>9. OpenOK(pc, chip, asked) /\ pc \in Steps
  BY <1>1 DEF OpenOK, Ready, Steps
<1>10. saved[1] \in SUBSET Int /\ saved[2] \in SUBSET Int
  BY <1>1
<1> QED BY <1>5, <1>6, <1>7, <1>8, <1>9, <1>10 DEF IInv

(* _kguard goes on or spins.                                                *)
LEMMA GuardedKeeps ==
  ASSUME IInv, NEW to, NEW fallible, Guarded(pc, to, fallible), Follows(pc, to)
  PROVE  IInv'
<1>1. UNCHANGED <<i, gdt, lidt, idt, saved, chip, asked>>
  BY DEF Guarded, tables, pics
<1>2. CASE pc' = to /\ stack' = stack
  BY <1>1, <1>2, PcMoves DEF IInv
<1>3. CASE stack' = Goes("spin") /\ pc' = pc
  BY <1>1, <1>3, TopGoes DEF IInv
<1> QED BY <1>2, <1>3 DEF Guarded

(* The four inits that change nothing modelled here.                        *)
LEMMA GuardsKeep ==
  ASSUME IInv, InitSerial \/ InitPhymm \/ InitVirtmm \/ InitPci
  PROVE  IInv'
<1>1. CASE InitSerial
  <2>1. Guarded(pc, "phymm", TRUE) /\ Follows(pc, "phymm")
    BY <1>1 DEF InitSerial, Guarded, Follows, Steps, NoGdt, Early, Ready
  <2> QED BY <2>1, GuardedKeeps
<1>2. CASE InitPhymm
  <2>1. Guarded(pc, "virtmm", TRUE) /\ Follows(pc, "virtmm")
    BY <1>2 DEF InitPhymm, Guarded, Follows, Steps, NoGdt, Early, Ready
  <2> QED BY <2>1, GuardedKeeps
<1>3. CASE InitVirtmm
  <2>1. Guarded(pc, "gdt", FALSE) /\ Follows(pc, "gdt")
    BY <1>3 DEF InitVirtmm, Guarded, Follows, Steps, NoGdt, Early, Ready
  <2> QED BY <2>1, GuardedKeeps
<1>4. CASE InitPci
  <2>1. Guarded(pc, "sti", TRUE) /\ Follows(pc, "sti")
    BY <1>4 DEF InitPci, Guarded, Follows, Steps, NoGdt, Early, Ready
  <2> QED BY <2>1, GuardedKeeps
<1> QED BY <1>1, <1>2, <1>3, <1>4

(* init_gdt loads the segments.                                             *)
LEMMA InitGdtKeeps == ASSUME IInv, InitGdt PROVE IInv'
<1>1. UNCHANGED <<i, idt, saved, chip, asked, stack>> /\ pc = "gdt" /\ pc' = "idt" /\ gdt' = GdtEntries
  BY DEF InitGdt, pics
<1>2. TablesOK("idt", i, GdtEntries, idt) /\ PicOK("idt", i, chip) /\ OpenOK("idt", chip, asked) /\ "idt" \in Steps
  BY <1>1 DEF IInv, TablesOK, PicOK, OpenOK, Ready, Early, NoGdt, Steps
<1>3. StackOK(stack, "idt")
  BY <1>1, StackMoves DEF IInv
<1> QED BY <1>1, <1>2, <1>3 DEF IInv

(* init_idt loads the table's address.                                      *)
LEMMA InitIdtKeeps == ASSUME IInv, InitIdt PROVE IInv'
<1>1. UNCHANGED <<gdt, idt, saved, chip, asked, stack>> /\ pc = "idt" /\ pc' = "traps" /\ i' = 1
  BY DEF InitIdt, pics
<1>2. TablesOK("traps", 1, gdt, idt) /\ PicOK("traps", 1, chip) /\ OpenOK("traps", chip, asked) /\ "traps" \in Steps
  BY <1>1 DEF IInv, TablesOK, PicOK, OpenOK, Ready, Early, NoGdt, Steps
<1>3. StackOK(stack, "traps")
  BY <1>1, StackMoves DEF IInv
<1> QED BY <1>1, <1>2, <1>3 DEF IInv

(* Registering a gate keeps the others.                                     *)
LEMMA RegisterKeeps ==
  ASSUME GatesOK(idt), NEW v, NEW isr, NEW type, GateOK(v, make_idt_desc(isr, type))
  PROVE  /\ GatesOK(Register(v, isr, type))
         /\ DOMAIN Register(v, isr, type) = DOMAIN idt \cup {v}
<1> DEFINE d == Register(v, isr, type)
<1>1. DOMAIN d = DOMAIN idt \cup {v}
  BY DEF Register
<1>2. \A w \in DOMAIN idt \cup {v} : d[w] = IF w = v THEN make_idt_desc(isr, type) ELSE idt[w]
  BY DEF Register
<1> HIDE DEF d
<1>3. GatesOK(d)
  BY <1>1, <1>2 DEF GatesOK
<1> QED BY <1>1, <1>3 DEF d

(* init_cpu_traps registers the next exception; after the last one all are  *)
(* there.                                                                   *)
LEMMA InitCpuTrapsKeeps == ASSUME IInv, InitCpuTraps PROVE IInv'
<1>1. UNCHANGED <<gdt, saved, chip, asked, stack>> /\ pc = "traps"
  BY DEF InitCpuTraps, pics
<1>2. i \in 1 .. 20 /\ gdt = GdtEntries /\ \A n \in 1 .. i - 1 : TrapTable[n] \in DOMAIN idt
  BY <1>1 DEF IInv, TablesOK, NoGdt
<1>3. Len(TrapTable) = 20 /\ TrapTable[i] \in 0 .. 31
  BY <1>2 DEF TrapTable
<1> DEFINE v == TrapTable[i]
<1>4. GateOK(v, make_idt_desc(v, GateType(v)))
  BY <1>3 DEF GateOK
<1>5. idt' = Register(v, v, GateType(v))
  BY DEF InitCpuTraps
<1>6. GatesOK(idt') /\ DOMAIN idt' = DOMAIN idt \cup {v}
  BY <1>4, <1>5, RegisterKeeps DEF IInv
<1>7. \A n \in 1 .. i : TrapTable[n] \in DOMAIN idt'
  BY <1>2, <1>6
<1>8. CASE i < 20
  <2>1. i' = i + 1 /\ pc' = "traps"
    BY <1>1, <1>3, <1>8 DEF InitCpuTraps
  <2>2. TablesOK(pc', i', gdt', idt')
    BY <1>1, <1>2, <1>7, <1>8, <2>1 DEF TablesOK, NoGdt, Early
  <2>3. PicOK("traps", i', chip) /\ OpenOK("traps", chip, asked) /\ "traps" \in Steps
    BY <1>1 DEF IInv, PicOK, OpenOK, Ready, Steps
  <2> QED BY <1>1, <1>6, <2>1, <2>2, <2>3 DEF IInv
<1>9. CASE i = 20
  <2>1. pc' = "remap"
    BY <1>1, <1>3, <1>9 DEF InitCpuTraps
  <2>2. TablesOK(pc', i', gdt', idt')
    BY <1>1, <1>2, <1>7, <1>9, <2>1 DEF TablesOK, NoGdt, Early
  <2>3. PicOK("remap", i', chip) /\ OpenOK("remap", chip, asked) /\ "remap" \in Steps
    BY <1>1 DEF IInv, PicOK, OpenOK, Ready, Steps
  <2>4. StackOK(stack, "remap")
    BY <1>1, StackMoves DEF IInv
  <2> QED BY <1>1, <1>6, <2>1, <2>2, <2>3, <2>4 DEF IInv
<1> QED BY <1>2, <1>8, <1>9

(* init_pic: the masks are saved, then the program is written.              *)
LEMMA PicKeeps == ASSUME IInv, PicSave \/ PicWrite PROVE IInv'
<1>1. CASE PicSave
  <2>1. /\ UNCHANGED <<gdt, idt, chip, asked, stack>> /\ pc = "remap" /\ pc' = "pic" /\ i' = 1
        /\ saved' = <<chip["master"].mask, chip["slave"].mask>>
    BY <1>1 DEF PicSave, tables
  <2>2. TablesOK("pic", 1, gdt, idt) /\ OpenOK("pic", chip, asked) /\ "pic" \in Steps
    BY <2>1 DEF IInv, TablesOK, OpenOK, Ready, Early, NoGdt, Steps
  <2>3. chip \in [Pics -> ChipType] /\ chip["master"].icw = 0 /\ chip["slave"].icw = 0
    BY <2>1 DEF IInv, PicOK, Ready
  <2>4. PicOK("pic", 1, chip)
    <3>1. 1 \div 2 = 0 /\ (1 - 1) \div 2 = 0
      OBVIOUS
    <3> QED BY <2>3, <3>1 DEF PicOK, Ready, MasterAt, SlaveAt, ChipAt
  <2>5. chip["master"].mask \in SUBSET Int /\ chip["slave"].mask \in SUBSET Int
    BY <2>3 DEF Pics, ChipType
  <2>6. StackOK(stack, "pic")
    BY <2>1, StackMoves DEF IInv
  <2> QED BY <2>1, <2>2, <2>4, <2>5, <2>6 DEF IInv
<1>2. CASE PicWrite
  <2>1. UNCHANGED <<gdt, idt, saved, stack>> /\ pc = "pic" /\ pc' \in {"pic", "pci"}
    BY <1>2 DEF PicWrite, tables
  <2>2. TablesOK(pc', i', gdt, idt) /\ pc' \in Steps
    BY <2>1 DEF IInv, TablesOK, Early, NoGdt, Steps
  <2>3. StackOK(stack, pc')
    BY <2>1, StackMoves DEF IInv
  <2> QED BY <1>2, <2>1, <2>2, <2>3, PicWriteKeeps DEF IInv
<1> QED BY <1>1, <1>2

(* sti: from here on the running context may have interrupts on.            *)
LEMMA StiKeeps == ASSUME IInv, Sti PROVE IInv'
<1>1. /\ UNCHANGED <<i, gdt, idt, saved, chip, asked>> /\ InKernel /\ pc = "sti" /\ pc' = "drivers"
      /\ stack' = [stack EXCEPT ![Len(stack)] = Ctx("kernel", "on")]
  BY DEF Sti, tables, pics, Now
<1>2. Follows(pc, "drivers")
  BY <1>1 DEF Follows, Steps, NoGdt, Early, Ready
<1> DEFINE c == Ctx("kernel", "on")
<1>3. c \in Contexts /\ c.run = "kernel" /\ c.if = "on"
  BY DEF Ctx, Contexts, Runnable
<1> HIDE DEF c
<1>4. StackOK([stack EXCEPT ![Len(stack)] = c], "drivers")
  <2>1. StackOK(stack, "drivers") /\ Len(stack) = 1
    BY <1>1, <1>2, PcMoves, StackFacts
  <2>2. c.run # "driver" /\ (c.run \in {"cli", "hlt"} => c.if = "off") /\ ~(Len(stack) > 1)
    BY <1>3, <2>1
  <2> QED BY ONLY <1>3, <2>1, <2>2, Replaced
<1>5. StackOK(stack', pc')
  BY <1>1, <1>4 DEF c
<1> QED BY <1>1, <1>2, <1>5, PcMoves DEF IInv

(* Loading the drivers and the end of kernel_init.                          *)
LEMMA LastKeeps == ASSUME IInv, LoadPciDrivers \/ End PROVE IInv'
<1>1. UNCHANGED <<i, gdt, idt, saved, chip, asked>> /\ pc \in {"drivers", "end"}
  BY DEF LoadPciDrivers, End, tables, pics
<1>2. Follows(pc, "end")
  BY <1>1 DEF Follows, Steps, NoGdt, Early, Ready
<1>3. CASE pc' = "end" /\ stack' = stack
  BY <1>1, <1>2, <1>3, PcMoves DEF IInv
<1>4. CASE pc' = "end" /\ stack' = Goes("kpanic")
  <2>1. StackOK(stack', "end")
    BY <1>4, TopGoes, StackMoves
  <2> QED BY <1>1, <1>2, <1>4, <2>1, PcMoves DEF IInv
<1>5. CASE stack' = Goes("spin") /\ pc' = pc
  BY <1>1, <1>5, TopGoes DEF IInv
<1> QED BY <1>3, <1>4, <1>5 DEF LoadPciDrivers, End

(* Every step of kernel_init.                                               *)
LEMMA KernelKeeps == ASSUME IInv, Kernel PROVE IInv'
BY GuardsKeep, InitGdtKeeps, InitIdtKeeps, InitCpuTrapsKeeps, PicKeeps, StiKeeps, LastKeeps DEF Kernel

-----------------------------------------------------------------------------

(* A handler that only prints ends in a loop.                               *)
LEMMA KbreakKeeps == ASSUME IInv, Kbreak PROVE IInv'
<1>1. UNCHANGED <<pc, i, gdt, idt, saved, chip, asked>> /\ stack' = Goes("spin")
  BY DEF Kbreak, tables, pics
<1>2. StackOK(stack', pc)
  BY <1>1, TopGoes
<1> QED BY <1>1, <1>2 DEF IInv

(* kpanic turns interrupts off before it halts.                             *)
LEMMA KpanicKeeps == ASSUME IInv, Cli \/ Hlt PROVE IInv'
<1>1. UNCHANGED <<pc, i, gdt, idt, saved, chip, asked>>
  BY DEF Cli, Hlt, tables, pics
<1>2. StackOK(stack', pc)
  <2>1. CASE Cli
    <3> DEFINE c == Ctx("cli", "off")
    <3>1. c \in Contexts /\ c.run = "cli" /\ c.if = "off"
      BY DEF Ctx, Contexts, Runnable
    <3>2. stack' = [stack EXCEPT ![Len(stack)] = c]
      BY <2>1 DEF Cli, Now
    <3> HIDE DEF c
    <3>3. StackOK(stack, pc)
      BY DEF IInv
    <3> QED BY <3>1, <3>2, <3>3, Replaced
  <2>2. CASE Hlt
    <3>1. Top.if = "off" /\ stack' = Goes("hlt")
      BY <2>2, StackFacts DEF Hlt, ContextOK, Top
    <3> QED BY <3>1, TopGoes
  <2> QED BY <2>1, <2>2
<1> QED BY <1>1, <1>2 DEF IInv

(* A driver's handler returns to the context just below: that one has       *)
(* interrupts on, so it is not a halted panic, and the iret never unwinds   *)
(* one.                                                                     *)
LEMMA ReturnsBelow ==
  ASSUME IInv, DriverReturns
  PROVE  Len(stack) > 1 /\ stack' = SubSeq(stack, 1, Len(stack) - 1)
<1> DEFINE m == Len(stack) - 1
<1>1. Len(stack) > 1 /\ stack[m].if = "on" /\ m \in 1 .. Len(stack)
  BY StackFacts DEF DriverReturns, ContextOK, Top
<1>2. stack[m].run # "hlt"
  BY <1>1 DEF IInv, StackOK, ContextOK
<1>3. PICK n \in 1 .. m : Back(n)
  BY DEF DriverReturns
<1>4. n = m
  <2> SUFFICES ASSUME n # m PROVE FALSE
    OBVIOUS
  <2>1. m \in (n + 1) .. m /\ m \in Int
    BY <1>1, StackFacts
  <2> QED BY <1>2, <1>3, <2>1 DEF Back
<1> QED BY <1>1, <1>2, <1>3, <1>4 DEF Back

(* Only what the chips are serving changes.                                 *)
SameButIsr(a, b) ==
  /\ b \in [Pics -> ChipType]
  /\ \A c \in Pics : b[c].icw = a[c].icw /\ b[c].base = a[c].base /\ b[c].cascade = a[c].cascade /\ b[c].mask = a[c].mask

(* What the chips serve is apart from how they are set up.                  *)
LEMMA IsrApart ==
  ASSUME IInv, NEW b, SameButIsr(chip, b)
  PROVE  PicOK(pc, i, b) /\ OpenOK(pc, b, asked)
<1>1. PicOK(pc, i, chip) /\ OpenOK(pc, chip, asked)
  BY DEF IInv
<1>2. PicOK(pc, i, b)
  BY <1>1 DEF SameButIsr, PicOK, Pics, MasterAt, SlaveAt, ChipAt
<1>3. \A l \in 0 .. 15 : Of(l) \in Pics
  BY DEF Of, Pics
<1>4. OpenOK(pc, b, asked)
  BY <1>1, <1>3 DEF SameButIsr, OpenOK, Pics
<1> QED BY <1>2, <1>4

(* A handler's return.                                                      *)
LEMMA DriverReturnsKeeps == ASSUME IInv, DriverReturns PROVE IInv'
<1>1. /\ UNCHANGED <<pc, i, gdt, idt, saved, asked>>
      /\ chip' = [c \in Pics |-> [chip[c] EXCEPT !.isr = {}]]
  BY DEF DriverReturns, tables
<1>2. StackOK(stack', pc)
  BY ReturnsBelow, Popped DEF IInv
<1>3. SameButIsr(chip, chip')
  <2>1. chip \in [Pics -> ChipType]
    BY DEF IInv, PicOK
  <2> QED BY <1>1, <2>1 DEF SameButIsr, ChipType
<1>4. PicOK(pc, i, chip') /\ OpenOK(pc, chip', asked)
  BY <1>3, IsrApart
<1> QED BY <1>1, <1>2, <1>4 DEF IInv

(* An exception or an NMI.                                                  *)
LEMMA TrapKeeps ==
  ASSUME IInv, Nmi \/ \E v \in FaultVectors : Fault(v)
  PROVE  IInv' /\ \E v \in 0 .. 31 : Interrupt(v)
<1>1. UNCHANGED <<pc, i, gdt, idt, saved, chip, asked>>
  BY DEF Nmi, Fault, tables, pics
<1>2. \E v \in 0 .. 31 : Interrupt(v)
  <2>1. CASE Nmi
    <3>1. Interrupt(2) /\ 2 \in 0 .. 31
      BY <2>1 DEF Nmi
    <3> QED BY <3>1
  <2>2. ASSUME NEW v \in FaultVectors, Fault(v) PROVE \E u \in 0 .. 31 : Interrupt(u)
    <3>1. Interrupt(v) /\ v \in 0 .. 31
      BY <2>2, IrqAssumption DEF Fault
    <3> QED BY <3>1
  <2> QED BY <2>1, <2>2
<1>3. StackOK(stack', pc)
  BY <1>2, Interrupted
<1> QED BY <1>1, <1>2, <1>3 DEF IInv

(* idt_mapint registers gates of devices only: 32 and above.                *)
LEMMA MapIntKeeps ==
  ASSUME IInv, NEW l \in Lines, NEW isr \in {Keypress, DriverIsr}, idt_mapint(l, isr)
  PROVE  IInv'
<1>1. UNCHANGED <<pc, i, gdt, saved, chip, asked, stack>> /\ idt' = Register(32 + l, isr, INTGATE) /\ pc \in {"sti", "drivers"}
  BY DEF idt_mapint, pics, Clients
<1>2. GateOK(32 + l, make_idt_desc(isr, INTGATE))
  <2>1. 32 + l \in 32 .. 47
    BY IrqAssumption
  <2> QED BY <2>1 DEF GateOK
<1>3. GatesOK(idt') /\ DOMAIN idt' = DOMAIN idt \cup {32 + l}
  BY <1>1, <1>2, RegisterKeeps DEF IInv
<1>4. TablesOK(pc, i, gdt, idt')
  BY <1>1, <1>3 DEF IInv, TablesOK
<1> QED BY <1>1, <1>3, <1>4 DEF IInv

(* Two lines of one chip have different pins.                               *)
LEMMA PinsApart ==
  ASSUME NEW l \in 0 .. 15, NEW m \in 0 .. 15
  PROVE  /\ Pin(l) \in 0 .. 7 /\ Of(l) \in Pics
         /\ Of(l) = Of(m) /\ Pin(l) = Pin(m) => l = m
         /\ l # 2 => ~(Of(l) = "master" /\ Pin(l) = 2)
<1>1. \A x \in 0 .. 15 : x % 8 = IF x < 8 THEN x ELSE x - 8
  OBVIOUS
<1> QED BY <1>1 DEF Pin, Of, Pics

(* pic_yesirq and pic_noirq change one bit of one mask, and the history by  *)
(* the same line.                                                           *)
LEMMA MaskKeeps ==
  ASSUME IInv, NEW l \in Lines, pic_yesirq(l) \/ pic_noirq(l)
  PROVE  IInv'
<1>1. UNCHANGED <<pc, i, gdt, idt, saved, stack>> /\ pc \in Ready
  BY DEF pic_yesirq, pic_noirq, tables, Clients, Ready
<1>2. l \in 0 .. 15 /\ l # 2
  BY IrqAssumption
<1>3. chip \in [Pics -> ChipType] /\ Of(l) \in Pics /\ Pin(l) \in 0 .. 7
  BY <1>2, PinsApart DEF IInv, PicOK
<1>4. \A c \in Pics : chip[c] \in ChipType /\ chip[c].icw = 0
  BY <1>1, <1>3 DEF IInv, PicOK, ChipAt, Pics
<1>5. PICK mask \in SUBSET Int :
        /\ chip' = [chip EXCEPT ![Of(l)] = Data(chip[Of(l)], mask)]
        /\ \/ mask = chip[Of(l)].mask \ {Pin(l)} /\ asked' = asked \cup {l}
           \/ mask = chip[Of(l)].mask \cup {Pin(l)} /\ asked' = asked \ {l}
  <2>1. chip[Of(l)].mask \in SUBSET Int
    BY <1>3, <1>4 DEF ChipType
  <2>2. CASE pic_yesirq(l)
    <3>1. chip[Of(l)].mask \ {Pin(l)} \in SUBSET Int
      BY <2>1
    <3> QED BY <2>2, <3>1 DEF pic_yesirq, WriteMask
  <2>3. CASE pic_noirq(l)
    <3>1. chip[Of(l)].mask \cup {Pin(l)} \in SUBSET Int
      BY <1>3, <2>1
    <3> QED BY <2>3, <3>1 DEF pic_noirq, WriteMask
  <2> QED BY <2>2, <2>3
<1> DEFINE d == Data(chip[Of(l)], mask)
<1>6. /\ d \in ChipType /\ d.icw = 0 /\ d.mask = mask
      /\ d.cascade = chip[Of(l)].cascade /\ d.base = chip[Of(l)].base
  <2>1. chip[Of(l)] \in ChipType /\ chip[Of(l)].icw = 0 /\ mask \in SUBSET Int
    BY <1>3, <1>4
  <2> QED BY ONLY <2>1, DataOutcome
<1> HIDE DEF d
<1>7. chip' = [chip EXCEPT ![Of(l)] = d]
  BY <1>5 DEF d
<1>8. chip' \in [Pics -> ChipType]
  BY <1>3, <1>6, <1>7
<1>9. \A c \in Pics : chip'[c].icw = 0 /\ chip'[c].cascade = chip[c].cascade /\ chip'[c].base = chip[c].base
  BY <1>3, <1>4, <1>6, <1>7
<1>10. chip'[Of(l)].mask = mask /\ \A c \in Pics : c # Of(l) => chip'[c] = chip[c]
  BY <1>3, <1>6, <1>7
<1>11. PicOK(pc, i, chip')
  BY <1>1, <1>8, <1>9 DEF IInv, PicOK, ChipAt, Ready, Pics
<1>12. 2 \notin chip["master"].mask /\ asked \subseteq 0 .. 15 /\ \A m \in 0 .. 15 : m \in asked <=> Pin(m) \notin chip[Of(m)].mask
  BY <1>1 DEF IInv, OpenOK
<1>13. 2 \notin chip'["master"].mask
  <2>1. CASE Of(l) = "master"
    BY <1>2, <1>5, <1>10, <1>12, <2>1, PinsApart
  <2>2. CASE Of(l) # "master"
    BY <1>10, <1>12, <2>2 DEF Pics
  <2> QED BY <2>1, <2>2
<1>14. ASSUME NEW m \in 0 .. 15 PROVE m \in asked' <=> Pin(m) \notin chip'[Of(m)].mask
  <2>1. Of(m) \in Pics /\ (Of(l) = Of(m) /\ Pin(l) = Pin(m) => l = m)
    BY <1>2, PinsApart
  <2>2. CASE m = l
    BY <1>5, <1>10, <2>2
  <2>3. CASE m # l /\ Of(m) = Of(l)
    BY <1>5, <1>10, <1>12, <2>1, <2>3
  <2>4. CASE m # l /\ Of(m) # Of(l)
    BY <1>5, <1>10, <1>12, <2>1, <2>4
  <2> QED BY <2>2, <2>3, <2>4
<1>15. asked' \subseteq 0 .. 15
  BY <1>2, <1>5, <1>12
<1>16. OpenOK(pc, chip', asked')
  BY <1>13, <1>14, <1>15 DEF OpenOK
<1> QED BY <1>1, <1>11, <1>16 DEF IInv

(* A request, its delivery and a spurious interrupt.                        *)
LEMMA LineKeeps ==
  ASSUME IInv, NEW l \in Lines, Raise(l) \/ Deliver(l) \/ Spurious(l)
  PROVE  IInv'
<1>1. CASE Raise(l)
  BY <1>1 DEF Raise, tables, pics, IInv
<1>2. CASE Deliver(l)
  <2>1. UNCHANGED <<pc, i, gdt, idt, saved, asked>> /\ chip' = Serve(l) /\ Interrupt(Vector(l)) /\ IFlag
    BY <1>2 DEF Deliver, tables
  <2>2. StackOK(stack', pc)
    BY <2>1, Interrupted
  <2>3. SameButIsr(chip, chip')
    <3>1. chip \in [Pics -> ChipType]
      BY DEF IInv, PicOK
    <3>2. \A c \in Pics : ServedPins(c, l) \in SUBSET Int
      BY DEF ServedPins
    <3> HIDE DEF ServedPins
    <3>3. ASSUME NEW c \in Pics
          PROVE  /\ chip'[c] \in ChipType
                 /\ chip'[c].icw = chip[c].icw /\ chip'[c].base = chip[c].base
                 /\ chip'[c].cascade = chip[c].cascade /\ chip'[c].mask = chip[c].mask
      <4>1. chip'[c] = [chip[c] EXCEPT !.isr = chip[c].isr \cup ServedPins(c, l)] /\ chip[c] \in ChipType
        BY <2>1, <3>1 DEF Serve
      <4>2. chip[c].isr \cup ServedPins(c, l) \in SUBSET Int
        BY <3>2, <4>1 DEF ChipType
      <4> QED BY ONLY <4>1, <4>2 DEF ChipType
    <3>4. chip' \in [Pics -> ChipType]
      BY <2>1, <3>3 DEF Serve
    <3> QED BY <3>3, <3>4 DEF SameButIsr
  <2>4. PicOK(pc, i, chip') /\ OpenOK(pc, chip', asked)
    BY <2>3, IsrApart
  <2> QED BY <2>1, <2>2, <2>4 DEF IInv
<1>3. CASE Spurious(l)
  <2>1. UNCHANGED <<pc, i, gdt, idt, saved, chip, asked>> /\ Interrupt(chip[Of(l)].base + 7) /\ IFlag
    BY <1>3 DEF Spurious, tables, pics
  <2>2. StackOK(stack', pc)
    BY <2>1, Interrupted
  <2> QED BY <2>1, <2>2 DEF IInv
<1> QED BY <1>1, <1>2, <1>3

(* Every step keeps the invariant.                                          *)
LEMMA StepKeeps == ASSUME IInv, [Next]_vars PROVE IInv'
<1>1. CASE Kernel
  BY <1>1, KernelKeeps
<1>2. CASE Cpu
  BY <1>2, KbreakKeeps, KpanicKeeps, DriverReturnsKeeps, TrapKeeps DEF Cpu
<1>3. CASE Drivers
  BY <1>3, MapIntKeeps, MaskKeeps DEF Drivers
<1>4. CASE \E l \in Lines : Raise(l) \/ Deliver(l) \/ Spurious(l)
  BY <1>4, LineKeeps
<1>5. CASE UNCHANGED vars
  BY <1>5 DEF vars, IInv
<1> QED BY <1>1, <1>2, <1>3, <1>4, <1>5 DEF Next

(* The invariant always holds.                                              *)
THEOREM InvariantHolds == Spec => []IInv
<1>1. Init => IInv
  BY InitEstablishes
<1>2. IInv /\ [Next]_vars => IInv'
  BY StepKeeps
<1> QED BY <1>1, <1>2, PTL DEF Spec

(* For any lines, any masks the BIOS left and interrupts nested to any      *)
(* depth: whenever interrupts are on no device's line comes in at the       *)
(* vector of a CPU exception.                                               *)
THEOREM DevicesApart == Spec => []IrqsApart
<1>1. IInv => IrqsApart
  BY IrqsApartHolds
<1> QED BY <1>1, InvariantHolds, PTL

(* Over any sequence of pic_yesirq and pic_noirq, the lines that can reach  *)
(* the CPU are exactly those asked for, lines 2 and 9 of pic_noirqs         *)
(* included.                                                                *)
THEOREM LinesOpenExactly == Spec => []OpenExactly
<1>1. IInv => OpenExactly
  BY OpenExactlyHolds
<1> QED BY <1>1, InvariantHolds, PTL

(* Wherever the handlers are linked, every exception reaches its own once   *)
(* init_cpu_traps is done, whatever drivers register afterwards.            *)
THEOREM ExceptionsHandled == Spec => []FaultsHandled
<1>1. IInv => FaultsHandled
  BY FaultsHandledHolds
<1> QED BY <1>1, InvariantHolds, PTL

(* A panicked context is never removed: only a driver's handler returns,    *)
(* and it lies above a context with interrupts on, which kpanic is not once *)
(* it is halted.                                                            *)
LEMMA PanicStays ==
  ASSUME IInv, [Next]_vars, Panicked
  PROVE  Panicked' /\ pc' = pc
<1>1. PICK n \in DOMAIN stack : stack[n].run \in {"kpanic", "cli", "hlt"}
  BY DEF Panicked
<1>2. stack \in Seq(Contexts) /\ Len(stack) \in Nat /\ Len(stack) >= 1 /\ n \in 1 .. Len(stack)
  BY StackFacts
<1>3. ~InKernel
  BY <1>1, <1>2, StackFacts DEF InKernel, Top
<1>4. ~Kernel /\ ~Drivers
  BY <1>3 DEF Kernel, InitSerial, InitPhymm, InitVirtmm, InitPci, Guarded, InitGdt, InitIdt, InitCpuTraps,
              PicSave, PicWrite, Sti, LoadPciDrivers, End, Drivers, idt_mapint, pic_yesirq, pic_noirq, Clients
<1>5. ASSUME Len(stack') = Len(stack) + 1, \A k \in 1 .. Len(stack) : stack'[k] = stack[k],
             stack' \in Seq(Contexts)
      PROVE  Panicked'
  <2>1. n \in DOMAIN stack' /\ stack'[n] = stack[n]
    BY <1>2, <1>5
  <2> QED BY <1>1, <2>1 DEF Panicked
<1>6. CASE Cli \/ Hlt
  <2>1. PICK c \in Contexts : stack' = [stack EXCEPT ![Len(stack)] = c] /\ c.run \in {"cli", "hlt"}
    <3>1. CASE Cli
      <4>1. Ctx("cli", "off") \in Contexts /\ Ctx("cli", "off").run = "cli"
        BY DEF Ctx, Contexts, Runnable
      <4> QED BY <3>1, <4>1 DEF Cli, Now
    <3>2. CASE Hlt
      <4>1. Ctx("hlt", Top.if) \in Contexts /\ Ctx("hlt", Top.if).run = "hlt"
        BY StackFacts DEF Ctx, Contexts, Runnable
      <4> QED BY <3>2, <4>1 DEF Hlt, Goes, Now
    <3> QED BY <1>6, <3>1, <3>2
  <2>2. Len(stack) \in DOMAIN stack' /\ stack'[Len(stack)] = c
    BY <1>2, <2>1
  <2>3. pc' = pc
    BY <1>6 DEF Cli, Hlt
  <2> QED BY <2>1, <2>2, <2>3 DEF Panicked
<1>7. CASE DriverReturns
  <2>1. Top.run = "driver" /\ pc' = pc
    BY <1>7 DEF DriverReturns
  <2>2. n # Len(stack)
    BY <1>1, <2>1 DEF Top
  <2>3. stack' \in Seq(Contexts) /\ Len(stack') = Len(stack) - 1 /\ stack'[n] = stack[n]
    <3>1. StackOK(stack, pc) /\ Len(stack) > 1
      BY <1>2, <2>2 DEF IInv
    <3>2. stack' = SubSeq(stack, 1, Len(stack) - 1)
      BY <1>7, ReturnsBelow
    <3>3. /\ StackOK(stack', pc) /\ Len(stack') = Len(stack) - 1
          /\ \A k \in 1 .. Len(stack) - 1 : stack'[k] = stack[k]
      BY <3>1, <3>2, Popped
    <3> QED BY <1>2, <2>2, <3>3 DEF StackOK
  <2>4. n \in DOMAIN stack'
    BY <1>2, <2>2, <2>3
  <2> QED BY <1>1, <2>1, <2>3, <2>4 DEF Panicked
<1>8. CASE Nmi \/ \E v \in FaultVectors : Fault(v)
  <2>1. pc' = pc
    BY <1>8 DEF Nmi, Fault
  <2>2. PICK v \in 0 .. 31 : Interrupt(v)
    BY <1>8, TrapKeeps
  <2>3. Panicked'
    BY <1>5, <2>2, Interrupted DEF StackOK
  <2> QED BY <2>1, <2>3
<1>9. ASSUME NEW l \in Lines, Raise(l) \/ Deliver(l) \/ Spurious(l) PROVE Panicked' /\ pc' = pc
  <2>1. pc' = pc
    BY <1>9 DEF Raise, Deliver, Spurious
  <2>2. CASE Raise(l)
    BY <2>1, <2>2 DEF Raise, Panicked
  <2>3. CASE Deliver(l) \/ Spurious(l)
    <3>1. IFlag /\ \E v : Interrupt(v)
      BY <2>3 DEF Deliver, Spurious
    <3> QED BY <1>5, <2>1, <3>1, Interrupted DEF StackOK
  <2> QED BY <1>9, <2>2, <2>3
<1>10. CASE UNCHANGED vars
  BY <1>10 DEF vars, Panicked
<1>11. CASE Kbreak
  <2>1. Top.run = "print" /\ stack' = Goes("spin") /\ pc' = pc
    BY <1>11 DEF Kbreak
  <2>2. n # Len(stack)
    BY <1>1, <2>1 DEF Top
  <2>3. n \in DOMAIN stack' /\ stack'[n] = stack[n]
    BY <1>2, <2>1, <2>2 DEF Goes, Now
  <2> QED BY <1>1, <2>1, <2>3 DEF Panicked
<1> QED BY <1>4, <1>6, <1>7, <1>8, <1>9, <1>10, <1>11 DEF Next, Cpu

(* A kernel that panicked never goes on with kernel_init, under any nesting *)
(* of interrupts, NMIs and further exceptions.                              *)
THEOREM PanicIsFinal == Spec => StopsForGood
<1>1. IInv /\ [Next]_vars => [Panicked => Panicked' /\ pc' = pc]_vars
  BY PanicStays
<1> QED BY <1>1, InvariantHolds, PTL DEF Spec, StopsForGood

=============================================================================
