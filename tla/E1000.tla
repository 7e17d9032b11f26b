------------------------------- MODULE E1000 -------------------------------
(***************************************************************************)
(* An Intel 8254x network card, driver/eth/intel_8254x.c: loading the       *)
(* driver, and transmission of the packets kernel/net/netdev.c hands to it. *)
(*                                                                          *)
(* Driver and card share a ring of descriptors in memory.  The driver fills *)
(* the descriptor at txtail and moves the card's tail register TDT past it; *)
(* the card works on its own from its head register TDH up to TDT, and      *)
(* marks a descriptor done (the DD status bit) once its buffer is sent.     *)
(* Packet number p is the p-th call of add_tx_buffer; 0 is the null buffer  *)
(* of a descriptor that was never used.                                     *)
(*                                                                          *)
(* The card is given physical addresses, which the driver makes with _lpa   *)
(* of virt-mm.h: the frame of the page, and of the offset in the page only  *)
(* the low ten bits.  Ring and packets are blocks of the heap and may lie   *)
(* at any offset.                                                           *)
(***************************************************************************)
EXTENDS Naturals, Sequences

CONSTANTS
  RingN,     \* txqueue_n, 64
  FrameLen,  \* bytes of an Ethernet header and an ARP frame, 42
  RingOffset,    \* where in its page the heap has put txqueue
  BufferOffsets, \* where in their pages it may put the packets
  Firmware,  \* how firmware that used the card may have left its transmit unit
  MaxSends   \* bound: packets the kernel sends

ASSUME E1000Assumption ==
  /\ RingN \in Nat \ {0} /\ RingN % 8 = 0 /\ FrameLen \in Nat \ {0} /\ MaxSends \in Nat

(* txqueue is 16 byte aligned in its page of 4096 bytes.                    *)
ASSUME OffsetAssumption ==
  /\ RingOffset \in 0 .. 4095 /\ RingOffset % 16 = 0
  /\ BufferOffsets \subseteq 0 .. 4095

ASSUME FirmwareAssumption ==
  Firmware \subseteq [enabled : BOOLEAN, tdlen : Nat, tdh : Nat, tdt : Nat]

VARIABLES
  ring,    \* the descriptors in memory, txqueue[0 .. txqueue_n]
  txtail,  \* txtail - txqueue
  pc,      \* where load_driver_eth_intel_8254x or add_tx_buffer is
  todo,    \* words of the EEPROM, or registers of the ring, that come next
  sends,   \* calls of add_tx_buffer so far
  eerd,    \* the card's EEPROM read register
  regs,    \* the card's TDBAL, TDLEN and the enable bit of TCTL
  tdh,     \* the card's head register
  tdt,     \* the card's tail register
  dma,     \* the descriptor the card is working on, <<>> when it is idle
  wire     \* what the card has sent, in order

driver == <<txtail, pc, sends>>
card   == <<tdh, dma, wire>>
setup  == <<todo, eerd, regs>>
vars   == <<ring, driver, setup, tdt, card>>

(* A descriptor has 16 bytes; TDLEN is in bytes.                            *)
HwN == regs.tdlen \div 16

(* The queue has RingN descriptors; RingN itself is the first one past it.  *)
Slots == 0 .. RingN

Unused == [buffer |-> 0, length |-> 0, cmd |-> "none", dd |-> FALSE]

(* No read of the EEPROM is under way; the next one clears the done bit.    *)
Quiet == [start |-> FALSE, done |-> FALSE, offset |-> 0]

(* The offset in its page of the address that _lpa makes of an offset.      *)
LpaOffset(o) == o % 1024

(* Memory that is neither the ring nor one of the driver's packets: in the  *)
(* page of txqueue there is no such offset, and no packet has this number.  *)
OtherPage == 4096
Astray    == MaxSends + 1

(* What _lpa names for packet p whose buffer lies at offset o: the packet,  *)
(* or other memory of the same page.                                        *)
Addressed(p, o) == IF LpaOffset(o) = o THEN p ELSE Astray

(* A zeroed ring, its tail at its start, and a card as firmware left it.    *)
Init ==
  /\ ring = [i \in Slots |-> Unused]
  /\ txtail = 0 /\ pc = "bar" /\ sends = 0
  /\ todo = <<>> /\ eerd = Quiet
  /\ \E f \in Firmware :
       /\ regs = [tdbal |-> OtherPage, tdlen |-> f.tdlen, enabled |-> f.enabled]
       /\ tdh = f.tdh /\ tdt = f.tdt
  /\ dma = <<>> /\ wire = <<>>

-----------------------------------------------------------------------------
(* load_driver_eth_intel_8254x *)

loading == <<ring, txtail, sends, tdt, card>>

(* A 64 bit BAR is refused and kpanic stops a card that cannot be bus       *)
(* master; then the vendor, the hardware address and the management word    *)
(* are read.                                                                *)
ReadBar ==
  /\ pc = "bar"
  /\ \/ pc' = "failed" /\ UNCHANGED todo
     \/ pc' = "stopped" /\ UNCHANGED todo
     \/ pc' = "probe" /\ todo' = <<14, 0, 1, 2, 35>>
  /\ UNCHANGED <<eerd, regs, loading>>

Reading == pc \in {"probe", "ip", "mac"}

(* Fault: the start bit is not set. *)
EerdUnstarted(offset) == [start |-> FALSE, done |-> FALSE, offset |-> offset]

(* eeprom_rword: 1 | (offset << 8) is written ...                           *)
EerdRead(offset) == [start |-> TRUE, done |-> FALSE, offset |-> offset]

EepromAsk ==
  /\ Reading /\ todo # <<>> /\ eerd = Quiet
  /\ eerd' = EerdRead(Head(todo))
  /\ UNCHANGED <<pc, todo, regs, loading>>

(* ... and the answer is waited for.                                        *)
EepromTake ==
  /\ Reading /\ eerd.done
  /\ todo' = Tail(todo) /\ eerd' = Quiet
  /\ UNCHANGED <<pc, regs, loading>>

(* get_ipv4_addr reads two more words when the management word says so.     *)
ProbeDone ==
  /\ pc = "probe" /\ todo = <<>>
  /\ \/ pc' = "ip" /\ todo' = <<37, 38>>
     \/ pc' = "link" /\ UNCHANGED todo
  /\ UNCHANGED <<eerd, regs, loading>>

IpDone ==
  /\ pc = "ip" /\ todo = <<>> /\ pc' = "link"
  /\ UNCHANGED <<setup, loading>>

(* KBREAK when the link is down or transmission is paused.  (Never for an   *)
(* unaligned ring: txqueue was aligned, and _lpa keeps the lowest bits.)    *)
CheckLink ==
  /\ pc = "link"
  /\ \/ pc' = "stopped" /\ UNCHANGED todo
     \/ pc' = "ring" /\ todo' = <<"TDBAL", "TDLEN", "TDH", "TDT", "TCTL">>
  /\ UNCHANGED <<eerd, regs, loading>>

(* The registers of the ring, one after the other: TDBAL is what _lpa makes *)
(* of txqueue, TDLEN = txqueue_n * 2, and TCTL is only added to.            *)
WriteRing ==
  /\ pc = "ring" /\ todo # <<>>
  /\ LET r == Head(todo) IN
       /\ regs' = [tdbal   |-> IF r = "TDBAL" THEN LpaOffset(RingOffset) ELSE regs.tdbal,
                   tdlen   |-> IF r = "TDLEN" THEN RingN * 2 ELSE regs.tdlen,
                   enabled |-> regs.enabled \/ r = "TCTL"]
       /\ tdh' = IF r = "TDH" THEN 0 ELSE tdh
       /\ tdt' = IF r = "TDT" THEN 0 ELSE tdt
  /\ todo' = Tail(todo)
  /\ UNCHANGED <<ring, driver, eerd, dma, wire>>

(* The hardware address is read again for the network device.               *)
RingDone ==
  /\ pc = "ring" /\ todo = <<>>
  /\ pc' = "mac" /\ todo' = <<0, 1, 2>>
  /\ UNCHANGED <<eerd, regs, loading>>

MacDone ==
  /\ pc = "mac" /\ todo = <<>> /\ pc' = "idle"
  /\ UNCHANGED <<setup, loading>>

Load == \/ ReadBar \/ EepromAsk \/ EepromTake \/ ProbeDone \/ IpDone \/ CheckLink
        \/ WriteRing \/ RingDone \/ MacDone

-----------------------------------------------------------------------------
(* add_tx_buffer.  Every packet is a buffer of its own that is never freed. *)

Send ==
  /\ pc = "idle" /\ sends < MaxSends
  /\ sends' = sends + 1 /\ pc' = "wait"
  /\ UNCHANGED <<ring, txtail, tdt, card, setup>>

(* The busy wait ends when the descriptor was never used or is done.        *)
MayOverwrite(d) == d.buffer = 0 \/ d.dd

(* Fault: the card is told of the descriptor before it is written.          *)
WaitedKicks ==
  /\ pc = "wait" /\ MayOverwrite(ring[txtail])
  /\ pc' = "fill" /\ tdt' = txtail + 1
  /\ UNCHANGED <<ring, txtail, sends, card, setup>>

Waited ==
  /\ pc = "wait" /\ MayOverwrite(ring[txtail])
  /\ pc' = "fill"
  /\ UNCHANGED <<ring, txtail, sends, tdt, card, setup>>

(* The descriptor is written field by field: first the buffer's address as  *)
(* _lpa makes it, and the length ...                                        *)
FillBuffer ==
  /\ pc = "fill"
  /\ \E o \in BufferOffsets :
       ring' = [ring EXCEPT ![txtail] =
                  [@ EXCEPT !.buffer = Addressed(sends, o), !.length = FrameLen * 2]]
  /\ pc' = "command"
  /\ UNCHANGED <<txtail, sends, tdt, card, setup>>

(* ... then the command (RS, and IFCS and EOP for a whole packet) and a     *)
(* cleared status.                                                          *)
FillCommand ==
  /\ pc = "command"
  /\ ring' = [ring EXCEPT ![txtail] = [@ EXCEPT !.cmd = "RS|IFCS|EOP", !.dd = FALSE]]
  /\ pc' = "advance"
  /\ UNCHANGED <<txtail, sends, tdt, card, setup>>

(* Fault: the tail moves on by a descriptor's bytes.                        *)
AdvanceBytes(t) == IF t + 16 > RingN * 16 THEN 0 ELSE t + 16

(* txtail++, wrapped around when it is more than txqueue_n past the start.  *)
Advance(t) == IF t + 1 > RingN THEN 0 ELSE t + 1

(* Fault: TDT is not written.                                               *)
KickSilent ==
  /\ pc = "advance"
  /\ txtail' = Advance(txtail)
  /\ pc' = "idle"
  /\ UNCHANGED <<ring, sends, tdt, card, setup>>

Kick ==
  /\ pc = "advance"
  /\ txtail' = Advance(txtail) /\ tdt' = txtail'
  /\ pc' = "idle"
  /\ UNCHANGED <<ring, sends, card, setup>>

-----------------------------------------------------------------------------
(* The card. *)

(* Bound: nothing new can be learnt from a card that keeps repeating.       *)
Repeats == Len(wire) > MaxSends + HwN

(* Memory that is no descriptor of the driver's.                            *)
Foreign == [buffer |-> Astray, length |-> 1, cmd |-> "foreign", dd |-> FALSE]

(* Descriptor i as the card finds it: in txqueue, if that is where TDBAL    *)
(* points.                                                                  *)
Descriptor(i) == IF regs.tdbal = RingOffset /\ i \in Slots THEN ring[i] ELSE Foreign

Fetch ==
  /\ regs.enabled /\ dma = <<>> /\ tdh # tdt /\ HwN > 0 /\ ~Repeats
  /\ dma' = <<Descriptor(tdh)>>
  /\ UNCHANGED <<ring, driver, setup, tdt, tdh, wire>>

(* The buffer is sent, unless it is empty, the status is written back to a  *)
(* descriptor of the ring that asks for it (RS), and the head moves on      *)
(* around the ring the card knows.                                          *)
Complete ==
  /\ dma # <<>>
  /\ wire' = IF dma[1].length = 0 THEN wire ELSE Append(wire, dma[1])
  /\ ring' = IF dma[1].cmd = "RS|IFCS|EOP"
             THEN [ring EXCEPT ![tdh] = [@ EXCEPT !.dd = TRUE]] ELSE ring
  /\ tdh' = (tdh + 1) % HwN
  /\ dma' = <<>>
  /\ UNCHANGED <<driver, setup, tdt>>

(* The EEPROM's word arrives. *)
EepromAnswer ==
  /\ eerd.start /\ ~eerd.done
  /\ eerd' = [eerd EXCEPT !.done = TRUE]
  /\ UNCHANGED <<ring, driver, todo, regs, tdt, card>>

Next == Load \/ EepromAnswer \/ Send \/ Waited \/ FillBuffer \/ FillCommand \/ Kick \/ Fetch \/ Complete

(* The processor, which does nothing else, runs the driver's functions to   *)
(* their end, the card its transmit unit, and the EEPROM answers.  Nothing  *)
(* obliges the kernel to send.                                              *)
Fairness ==
  /\ WF_vars(Load)
  /\ WF_vars(EepromAnswer)
  /\ WF_vars(Waited \/ FillBuffer \/ FillCommand \/ Kick)
  /\ WF_vars(Fetch \/ Complete)

Spec == Init /\ [][Next]_vars /\ Fairness

-----------------------------------------------------------------------------
(* Properties *)

(* All the card ever sends are the packets, once each and in the order they *)
(* were handed to the driver.                                               *)
WireInOrder == \A k \in 1 .. Len(wire) : wire[k].buffer = k

(* What the card works on is a descriptor the driver has finished: it never *)
(* sees a buffer without its command, nor the status of an earlier packet,  *)
(* nor memory that is not the ring.                                         *)
FetchedWhole == dma # <<>> => dma[1].cmd = "RS|IFCS|EOP" /\ ~dma[1].dd

(* The driver never writes the descriptor the card is working on.           *)
NoWriteUnderDma == [][dma # <<>> /\ dma' = dma => ring'[tdh] = ring[tdh]]_vars

(* Every packet handed to add_tx_buffer is sent eventually.                 *)
EverySent == \A p \in 1 .. MaxSends : sends >= p ~> \E k \in 1 .. Len(wire) : wire[k].buffer = p

(* Loading the driver ends, though eeprom_rword waits for each word without *)
(* a limit: the card works, is refused, or the kernel was stopped on purpose.*)
Loads == <>(pc \in {"idle", "failed", "stopped"})

(* intel_8254x.c, add_tx_buffer: the tail wraps around, so only             *)
(* descriptors of the queue are written.                                    *)
RingInBounds == ring[RingN] = Unused

(* intel_8254x.c, add_tx_buffer, of the buffer field: "physical address of  *)
(* buffer".  Whatever descriptor is in use names a packet that was handed   *)
(* over.                                                                    *)
BufferPhysical == \A i \in Slots : ring[i].buffer \in 0 .. sends

(* intel_8254x.c, add_tx_buffer, of the length field: "length of buffer".   *)
LengthIsBuffer == \A k \in 1 .. Len(wire) : wire[k].length = FrameLen

=============================================================================
