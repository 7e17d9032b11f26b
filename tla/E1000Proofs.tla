---------------------------- MODULE E1000Proofs ----------------------------
(***************************************************************************)
(* The transmit ring of the 8254x card: the packets it sends, for every     *)
(* size of the ring and every interleaving of driver and card, as long as   *)
(* the ring has not been used up once, its addresses survive _lpa and the   *)
(* card was quiet when the driver was loaded.                               *)
(*                                                                          *)
(* The invariant has two halves.  Loading describes the card while its      *)
(* registers are set one by one, Sending the ring in use; between them they *)
(* say where the card's head and the driver's tail are, what each           *)
(* descriptor holds on either side of them, and what was sent.              *)
(***************************************************************************)
EXTENDS E1000, TLAPS

(* The descriptors the card takes the ring to have: TDLEN was given two     *)
(* bytes for each of the driver's, not sixteen.                             *)
HwRing == RingN \div 8

(* The command of a descriptor that add_tx_buffer has finished.             *)
Done == "RS|IFCS|EOP"

(* A descriptor in memory.                                                  *)
Desc == [buffer : Nat, length : Nat, cmd : {"none", Done}, dd : BOOLEAN]

(* Descriptor d is ready to be sent, for packet p.                          *)
Whole(d, p) == d.buffer = p /\ d.length # 0 /\ d.cmd = Done /\ ~d.dd

(* The card's registers once load_driver_eth_intel_8254x has set the ring.  *)
Armed == [tdbal |-> RingOffset, tdlen |-> RingN * 2, enabled |-> TRUE]

(* Ring and packets lie in the first kilobyte of their pages, where _lpa is *)
(* right.  Elsewhere the card is sent to other memory: run e1000_lpa.       *)
Placed == RingOffset < 1024 /\ \A o \in BufferOffsets : o < 1024

(* A transmit unit that firmware has left on has nothing to send and starts *)
(* at descriptor 0.  The driver does not reset the card; one that was left  *)
(* on elsewhere runs through the new ring while it is set (MCE1000Live).    *)
LeftQuiet == \A f \in Firmware : f.enabled => f.tdh = 0 /\ f.tdt = 0

(* What the theorems need of heap and firmware.                             *)
Prepared == Placed /\ LeftQuiet

(* The card has nothing to do.                                              *)
Still == regs.enabled => tdh = 0 /\ tdt = 0

(* How far the registers of the ring have been written: the enable bit,     *)
(* which lets the card go, comes last unless firmware had set it.           *)
Setting ==
  \/ todo = <<"TDBAL", "TDLEN", "TDH", "TDT", "TCTL">> /\ Still
  \/ todo = <<"TDLEN", "TDH", "TDT", "TCTL">> /\ Still /\ regs.tdbal = RingOffset
  \/ /\ todo = <<"TDH", "TDT", "TCTL">> /\ Still
     /\ regs.tdbal = RingOffset /\ regs.tdlen = RingN * 2
  \/ /\ todo = <<"TDT", "TCTL">> /\ Still
     /\ regs.tdbal = RingOffset /\ regs.tdlen = RingN * 2 /\ tdh = 0
  \/ /\ todo = <<"TCTL">> /\ Still
     /\ regs.tdbal = RingOffset /\ regs.tdlen = RingN * 2 /\ tdh = 0 /\ tdt = 0
  \/ todo = <<>> /\ regs = Armed /\ tdh = 0 /\ tdt = 0

(* Until the ring is set nothing was sent and the card does nothing,        *)
(* whatever firmware left in its head and tail registers.                   *)
Loading ==
  /\ pc \in {"bar", "probe", "ip", "link", "ring", "failed", "stopped"}
  /\ ring = [i \in Slots |-> Unused]
  /\ txtail = 0 /\ sends = 0 /\ dma = <<>> /\ wire = <<>>
  /\ pc = "ring" => Setting
  /\ pc # "ring" => Still

(* The ring in use: the card's head and tail are inside it, the descriptors *)
(* between them are finished and hold the packets that follow what is on    *)
(* the wire, those past the tail were never used, and the one at the tail   *)
(* is as far as add_tx_buffer has come.  The card, when it is busy, works   *)
(* on a copy of the descriptor at its head.                                 *)
Sending ==
  /\ pc \in {"mac", "idle", "wait", "fill", "command", "advance"}
  /\ regs = Armed
  /\ sends \in 0 .. MaxSends /\ txtail \in Nat /\ tdt = txtail
  /\ pc \in {"mac", "idle"} => sends = txtail
  /\ pc \notin {"mac", "idle"} => sends = txtail + 1
  /\ tdh \in 0 .. txtail
  /\ ring \in [Slots -> Desc]
  /\ \A i \in Slots : tdh <= i /\ i < txtail => Whole(ring[i], i + 1)
  /\ \A i \in Slots : txtail < i => ring[i] = Unused
  /\ pc \in {"mac", "idle", "wait", "fill"} => ring[txtail] = Unused
  /\ pc \in {"command", "advance"} => ring[txtail].buffer = sends /\ ring[txtail].length # 0
  /\ pc = "advance" => Whole(ring[txtail], sends)
  /\ wire \in Seq(Desc) /\ Len(wire) = tdh
  /\ \A k \in 1 .. Len(wire) : wire[k].buffer = k
  /\ dma = <<>> \/ (tdh < txtail /\ dma = <<ring[tdh]>>)

(* The inductive invariant, as long as the ring lasts.                      *)
IInv == Loading \/ Sending

(* Fewer packets were handed over than the card knows descriptors.          *)
Early == sends < HwRing

(* TDLEN in bytes, divided by the bytes of a descriptor.                    *)
LEMMA HwRingFits == HwRing \in Nat /\ HwRing <= RingN /\ (RingN * 2) \div 16 = HwRing
  BY E1000Assumption DEF HwRing

(* Before the driver is loaded.                                             *)
LEMMA InitIInv == ASSUME LeftQuiet, Init PROVE IInv
<1>1. Still
  BY DEF Init, LeftQuiet, Still
<1> QED
  BY <1>1 DEF Init, IInv, Loading

(* _lpa keeps an offset in the first kilobyte of a page.                    *)
LEMMA LpaLow == ASSUME NEW o \in Nat, o < 1024 PROVE LpaOffset(o) = o
  BY DEF LpaOffset

(* Each write of a register of the ring keeps the invariant.                *)
LEMMA WriteRingIInv == ASSUME Placed, IInv, WriteRing PROVE IInv'
<1> USE DEF WriteRing, driver
<1>1. Loading /\ Setting /\ pc = "ring"
  BY DEF IInv, Loading, Sending
<1>2. UNCHANGED <<ring, txtail, pc, sends, dma, wire>>
  OBVIOUS
<1>3. LpaOffset(RingOffset) = RingOffset
  BY LpaLow, OffsetAssumption DEF Placed
<1>4. Setting'
  <2>1. CASE todo = <<"TDBAL", "TDLEN", "TDH", "TDT", "TCTL">> /\ Still
    <3>1. Head(todo) = "TDBAL" /\ Tail(todo) = <<"TDLEN", "TDH", "TDT", "TCTL">>
      BY <2>1
    <3> QED
      BY <1>3, <2>1, <3>1 DEF Setting, Still
  <2>2. CASE todo = <<"TDLEN", "TDH", "TDT", "TCTL">> /\ Still /\ regs.tdbal = RingOffset
    <3>1. Head(todo) = "TDLEN" /\ Tail(todo) = <<"TDH", "TDT", "TCTL">>
      BY <2>2
    <3> QED
      BY <1>3, <2>2, <3>1 DEF Setting, Still
  <2>3. CASE /\ todo = <<"TDH", "TDT", "TCTL">> /\ Still
             /\ regs.tdbal = RingOffset /\ regs.tdlen = RingN * 2
    <3>1. Head(todo) = "TDH" /\ Tail(todo) = <<"TDT", "TCTL">>
      BY <2>3
    <3> QED
      BY <1>3, <2>3, <3>1 DEF Setting, Still
  <2>4. CASE /\ todo = <<"TDT", "TCTL">> /\ Still
             /\ regs.tdbal = RingOffset /\ regs.tdlen = RingN * 2 /\ tdh = 0
    <3>1. Head(todo) = "TDT" /\ Tail(todo) = <<"TCTL">>
      BY <2>4
    <3> QED
      BY <1>3, <2>4, <3>1 DEF Setting, Still
  <2>5. CASE /\ todo = <<"TCTL">> /\ Still
             /\ regs.tdbal = RingOffset /\ regs.tdlen = RingN * 2 /\ tdh = 0 /\ tdt = 0
    <3>1. Head(todo) = "TCTL" /\ Tail(todo) = <<>>
      BY <2>5
    <3>2. regs' = Armed
      BY <2>5, <3>1 DEF Armed
    <3> QED
      BY <2>5, <3>1, <3>2 DEF Setting, Still
  <2> QED
    BY <1>1, <2>1, <2>2, <2>3, <2>4, <2>5 DEF Setting
<1> QED
  BY <1>1, <1>2, <1>4 DEF IInv, Loading

(* The EEPROM is read and the link looked at without any effect on the      *)
(* ring.                                                                    *)
LEMMA QuietLoadIInv ==
  ASSUME IInv,
         \/ ReadBar \/ EepromAsk \/ EepromTake \/ ProbeDone \/ IpDone
         \/ CheckLink \/ EepromAnswer
  PROVE  IInv'
<1>1. CASE Loading
  <2>1. CASE ReadBar
    BY <1>1, <2>1 DEF ReadBar, loading, card, IInv, Loading, Still
  <2>2. CASE EepromAsk
    BY <1>1, <2>2 DEF EepromAsk, Reading, loading, card, IInv, Loading, Still
  <2>3. CASE EepromTake
    BY <1>1, <2>3 DEF EepromTake, Reading, loading, card, IInv, Loading, Still
  <2>4. CASE ProbeDone
    BY <1>1, <2>4 DEF ProbeDone, loading, card, IInv, Loading, Still
  <2>5. CASE IpDone
    BY <1>1, <2>5 DEF IpDone, setup, loading, card, IInv, Loading, Still
  <2>6. CASE CheckLink
    BY <1>1, <2>6 DEF CheckLink, loading, card, IInv, Loading, Still, Setting
  <2>7. CASE EepromAnswer
    BY <1>1, <2>7 DEF EepromAnswer, driver, card, IInv, Loading, Still, Setting
  <2> QED
    BY <2>1, <2>2, <2>3, <2>4, <2>5, <2>6, <2>7
<1>2. CASE Sending
  <2>1. UNCHANGED <<ring, txtail, pc, sends, regs, tdt, tdh, dma, wire>>
    BY <1>2 DEF ReadBar, EepromAsk, EepromTake, ProbeDone, IpDone, CheckLink, EepromAnswer,
                loading, card, setup, driver, Sending
  <2> QED
    BY <1>2, <2>1 DEF IInv, Sending
<1> QED
  BY <1>1, <1>2 DEF IInv

(* Once its registers are set the ring is in use, and empty.                *)
LEMMA RingDoneIInv == ASSUME IInv, RingDone PROVE IInv'
<1>1. Loading /\ Setting /\ pc = "ring" /\ todo = <<>>
  BY DEF RingDone, IInv, Loading, Sending
<1>2. regs = Armed /\ tdh = 0 /\ tdt = 0
  BY <1>1 DEF Setting
<1>3. UNCHANGED <<ring, txtail, sends, regs, tdt, tdh, dma, wire>> /\ pc' = "mac"
  BY DEF RingDone, loading, card
<1>4. ring \in [Slots -> Desc] /\ \A i \in Slots : ring[i] = Unused
  BY <1>1 DEF Loading, Desc, Unused, Done
<1>5. 0 \in Slots /\ Slots \subseteq Nat /\ MaxSends \in Nat
  BY E1000Assumption DEF Slots
<1>6. wire = <<>> /\ dma = <<>> /\ sends = 0 /\ txtail = 0
  BY <1>1 DEF Loading
<1>7. <<>> \in Seq(Desc) /\ Len(<<>>) = 0
  OBVIOUS
<1>8. \A k \in 1 .. 0 : FALSE
  OBVIOUS
<1> QED
  BY <1>2, <1>3, <1>4, <1>5, <1>6, <1>7, <1>8 DEF IInv, Sending

(* The driver has been loaded.                                              *)
LEMMA MacDoneIInv == ASSUME IInv, MacDone PROVE IInv'
<1>1. Sending /\ pc = "mac" /\ pc' = "idle"
  BY DEF MacDone, IInv, Loading
<1>2. UNCHANGED <<ring, txtail, sends, regs, tdt, tdh, dma, wire>>
  BY DEF MacDone, loading, card, setup
<1> QED
  BY <1>1, <1>2 DEF IInv, Sending

(* A call of add_tx_buffer.                                                 *)
LEMMA SendIInv == ASSUME IInv, Send PROVE IInv'
<1>1. Sending /\ pc = "idle" /\ pc' = "wait" /\ sends < MaxSends /\ sends' = sends + 1
  BY DEF Send, IInv, Loading
<1>2. UNCHANGED <<ring, txtail, regs, tdt, tdh, dma, wire>>
  BY DEF Send, card, setup
<1> QED
  BY <1>1, <1>2, E1000Assumption DEF IInv, Sending

(* The busy wait of add_tx_buffer ends.                                     *)
LEMMA WaitedIInv == ASSUME IInv, Waited PROVE IInv'
<1>1. Sending /\ pc = "wait" /\ pc' = "fill"
  BY DEF Waited, IInv, Loading
<1>2. UNCHANGED <<ring, txtail, sends, regs, tdt, tdh, dma, wire>>
  BY DEF Waited, card, setup
<1> QED
  BY <1>1, <1>2 DEF IInv, Sending

(* txtail points into the part of the ring the card knows.                  *)
LEMMA TailInside ==
  ASSUME Sending, Early
  PROVE  /\ txtail \in Slots /\ txtail < HwRing /\ Slots \subseteq Nat
         /\ pc \notin {"mac", "idle"} => txtail + 1 < HwRing
  BY HwRingFits, E1000Assumption DEF Sending, Early, Slots

(* A write to the descriptor at the tail leaves the others alone.           *)
LEMMA WriteTail ==
  ASSUME Early, Sending, NEW d \in Desc, ring' = [ring EXCEPT ![txtail] = d]
  PROVE  /\ ring' \in [Slots -> Desc] /\ ring'[txtail] = d
         /\ \A i \in Slots : i # txtail => ring'[i] = ring[i]
<1>1. txtail \in Slots
  BY TailInside
<1>2. ring \in [Slots -> Desc]
  BY DEF Sending
<1> QED
  BY <1>1, <1>2

(* Both writes of add_tx_buffer keep the invariant: the card, which is      *)
(* below the tail, sees neither of them.                                    *)
LEMMA WroteTail ==
  ASSUME Early, Sending, NEW d \in Desc, ring' = [ring EXCEPT ![txtail] = d],
         UNCHANGED <<txtail, sends, regs, tdt, tdh, dma, wire>>,
         \/ pc = "fill" /\ pc' = "command" /\ d.buffer = sends /\ d.length # 0
         \/ pc = "command" /\ pc' = "advance" /\ Whole(d, sends)
  PROVE  Sending'
<1>1. /\ ring' \in [Slots -> Desc] /\ ring'[txtail] = d
      /\ \A i \in Slots : i # txtail => ring'[i] = ring[i]
  BY WriteTail
<1>2. txtail \in Slots /\ Slots \subseteq Nat /\ txtail < HwRing /\ txtail \in Nat
  BY TailInside DEF Sending
<1>3. dma = <<>> \/ (tdh < txtail /\ dma = <<ring'[tdh]>>)
  <2>1. CASE tdh < txtail /\ dma = <<ring[tdh]>>
    <3>1. tdh \in Slots /\ tdh # txtail
      BY <1>2, <2>1, HwRingFits, E1000Assumption DEF Sending, Slots
    <3> QED
      BY <1>1, <2>1, <3>1
  <2> QED
    BY <2>1 DEF Sending
<1>4. \A i \in Slots : tdh <= i /\ i < txtail => Whole(ring'[i], i + 1)
  BY <1>1, <1>2 DEF Sending
<1>5. \A i \in Slots : txtail < i => ring'[i] = Unused
  <2>1. \A i \in Slots : txtail < i => i # txtail /\ ring[i] = Unused
    BY <1>2 DEF Sending
  <2> QED
    BY <1>1, <2>1
<1>6. pc' \in {"command", "advance"} => ring'[txtail].buffer = sends /\ ring'[txtail].length # 0
  BY <1>1 DEF Whole
<1>7. pc' = "advance" => Whole(ring'[txtail], sends)
  BY <1>1
<1> QED
  BY <1>1, <1>2, <1>3, <1>4, <1>5, <1>6, <1>7 DEF Sending

(* The two writes of add_tx_buffer to a descriptor, of two fields each.     *)
Buffered(e, x, y)  == [e EXCEPT !.buffer = x, !.length = y]
Commanded(e, x, y) == [e EXCEPT !.cmd = x, !.dd = y]

(* The first write leaves command and status alone.                         *)
LEMMA BufferedForm ==
  ASSUME NEW e \in Desc, NEW x, NEW y
  PROVE  Buffered(e, x, y) = [buffer |-> x, length |-> y, cmd |-> e.cmd, dd |-> e.dd]
<1> DEFINE q == [e EXCEPT !.buffer = x]
<1>1. q = [buffer |-> x, length |-> e.length, cmd |-> e.cmd, dd |-> e.dd]
  BY DEF Desc
<1>2. [e EXCEPT !.buffer = x, !.length = y] = [q EXCEPT !.length = y]
  OBVIOUS
<1> HIDE DEF q
<1>3. [q EXCEPT !.length = y] = [buffer |-> x, length |-> y, cmd |-> e.cmd, dd |-> e.dd]
  BY <1>1
<1> QED
  BY <1>2, <1>3 DEF Buffered

(* The second write leaves buffer and length alone.                         *)
LEMMA CommandedForm ==
  ASSUME NEW e \in Desc, NEW x, NEW y
  PROVE  Commanded(e, x, y) = [buffer |-> e.buffer, length |-> e.length, cmd |-> x, dd |-> y]
<1> DEFINE q == [e EXCEPT !.cmd = x]
<1>1. q = [buffer |-> e.buffer, length |-> e.length, cmd |-> x, dd |-> e.dd]
  BY DEF Desc
<1>2. [e EXCEPT !.cmd = x, !.dd = y] = [q EXCEPT !.dd = y]
  OBVIOUS
<1> HIDE DEF q
<1>3. [q EXCEPT !.dd = y] = [buffer |-> e.buffer, length |-> e.length, cmd |-> x, dd |-> y]
  BY <1>1
<1> QED
  BY <1>2, <1>3 DEF Commanded

(* add_tx_buffer writes buffer and length.                                  *)
LEMMA FillBufferIInv == ASSUME Placed, Early, IInv, FillBuffer PROVE IInv'
<1> DEFINE old == ring[txtail]
           d == Buffered(old, sends, FrameLen * 2)
<1>1. Sending /\ pc = "fill" /\ pc' = "command"
  BY DEF FillBuffer, IInv, Loading
<1>2. UNCHANGED <<txtail, sends, regs, tdt, tdh, dma, wire>>
  BY DEF FillBuffer, card, setup
<1>3. ring' = [ring EXCEPT ![txtail] = d]
  <2>1. PICK o \in BufferOffsets :
          ring' = [ring EXCEPT ![txtail] = Buffered(old, Addressed(sends, o), FrameLen * 2)]
    BY DEF FillBuffer, Buffered
  <2>2. o \in Nat /\ o < 1024
    BY OffsetAssumption DEF Placed
  <2>3. LpaOffset(o) = o
    BY <2>2, LpaLow
  <2>4. Addressed(sends, o) = sends
    BY <2>3 DEF Addressed
  <2> QED
    BY <2>1, <2>4
<1>4. old \in Desc /\ sends \in Nat /\ FrameLen * 2 \in Nat /\ FrameLen * 2 # 0
  BY <1>1, TailInside, E1000Assumption DEF Sending
<1>5. d = [buffer |-> sends, length |-> FrameLen * 2, cmd |-> old.cmd, dd |-> old.dd]
  BY <1>4, BufferedForm
<1> HIDE DEF d, old
<1>6. d \in Desc /\ d.buffer = sends /\ d.length # 0
  BY <1>4, <1>5 DEF Desc
<1> QED
  BY <1>1, <1>2, <1>3, <1>6, WroteTail DEF IInv

(* add_tx_buffer writes the command and clears the status.                  *)
LEMMA FillCommandIInv == ASSUME Early, IInv, FillCommand PROVE IInv'
<1> DEFINE old == ring[txtail]
           d == Commanded(old, Done, FALSE)
<1>1. Sending /\ pc = "command" /\ pc' = "advance" /\ old.buffer = sends /\ old.length # 0
  BY DEF FillCommand, IInv, Loading, Sending
<1>2. UNCHANGED <<txtail, sends, regs, tdt, tdh, dma, wire>>
  BY DEF FillCommand, card, setup
<1>3. ring' = [ring EXCEPT ![txtail] = d]
  BY DEF FillCommand, Commanded, Done
<1>4. old \in Desc
  BY <1>1, TailInside DEF Sending
<1>5. d = [buffer |-> old.buffer, length |-> old.length, cmd |-> Done, dd |-> FALSE]
  BY <1>4, CommandedForm
<1> HIDE DEF d, old
<1>6. d \in Desc /\ Whole(d, sends)
  BY <1>1, <1>4, <1>5 DEF Desc, Whole
<1> QED
  BY <1>1, <1>2, <1>3, <1>6, WroteTail DEF IInv

(* add_tx_buffer moves the tail, and with it the card's tail register, past *)
(* a finished descriptor.                                                   *)
LEMMA KickIInv == ASSUME Early, IInv, Kick PROVE IInv'
<1>1. Sending /\ pc = "advance" /\ pc' = "idle"
  BY DEF Kick, IInv, Loading
<1>2. UNCHANGED <<ring, sends, regs, tdh, dma, wire>>
  BY DEF Kick, card, setup
<1>3. txtail \in Nat /\ txtail + 1 < HwRing /\ Slots \subseteq Nat /\ sends = txtail + 1
  BY <1>1, TailInside DEF Sending
<1>4. txtail' = txtail + 1 /\ tdt' = txtail'
  BY <1>3, HwRingFits, E1000Assumption DEF Kick, Advance
<1>5. txtail + 1 \in Slots
  BY <1>3, HwRingFits, E1000Assumption DEF Slots
<1>6. \A i \in Slots : tdh <= i /\ i < txtail + 1 => Whole(ring[i], i + 1)
  <2>1. \A i \in Slots : tdh <= i /\ i < txtail => Whole(ring[i], i + 1)
    BY <1>1 DEF Sending
  <2>2. Whole(ring[txtail], txtail + 1)
    BY <1>1, <1>3 DEF Sending
  <2>3. \A i \in Slots : i < txtail + 1 => i < txtail \/ i = txtail
    BY <1>3
  <2> QED
    BY <2>1, <2>2, <2>3
<1>7. (\A i \in Slots : txtail + 1 < i => ring[i] = Unused) /\ ring[txtail + 1] = Unused
  <2>1. \A i \in Slots : txtail < i => ring[i] = Unused
    BY <1>1 DEF Sending
  <2>2. \A i \in Slots : txtail + 1 < i => txtail < i
    BY <1>3
  <2> QED
    BY <1>3, <1>5, <2>1, <2>2
<1>8. tdh \in 0 .. (txtail + 1) /\ (dma = <<>> \/ (tdh < txtail + 1 /\ dma = <<ring[tdh]>>))
  BY <1>1, <1>3 DEF Sending
<1>9. Sending'
  BY <1>1, <1>2, <1>3, <1>4, <1>6, <1>7, <1>8 DEF Sending
<1> QED
  BY <1>9 DEF IInv

(* The card fetches the descriptor at its head.                             *)
LEMMA FetchIInv == ASSUME Early, IInv, Fetch PROVE IInv'
<1>1. regs.enabled /\ tdh # tdt
  BY DEF Fetch
<1>2. UNCHANGED <<ring, txtail, pc, sends, todo, regs, tdt, tdh, wire>>
  BY DEF Fetch, driver, setup
<1>3. ~Loading
  BY <1>1 DEF Loading, Setting, Still
<1>4. Sending
  BY <1>3 DEF IInv
<1>5. tdh < txtail /\ tdh \in Slots
  BY <1>1, <1>4, TailInside, HwRingFits, E1000Assumption DEF Sending, Slots
<1>6. dma' = <<ring[tdh]>>
  BY <1>4, <1>5 DEF Sending, Fetch, Armed, Descriptor
<1> QED
  BY <1>2, <1>4, <1>5, <1>6 DEF IInv, Sending

(* The card has sent the packet, marks the descriptor done and moves on.    *)
LEMMA CompleteIInv == ASSUME Early, IInv, Complete PROVE IInv'
<1>1. Sending /\ dma # <<>>
  BY DEF Complete, IInv, Loading
<1>2. UNCHANGED <<txtail, pc, sends, regs, tdt>> /\ dma' = <<>>
  BY DEF Complete, driver, setup
<1>3. tdh < txtail /\ tdh \in Nat /\ dma[1] = ring[tdh] /\ txtail \in Nat
  BY <1>1 DEF Sending
<1>4. tdh \in Slots /\ txtail < HwRing /\ Slots \subseteq Nat
  BY <1>1, <1>3, TailInside, HwRingFits, E1000Assumption DEF Slots
<1>5. tdh' = tdh + 1
  <2>1. HwN = HwRing
    BY <1>1, HwRingFits DEF HwN, Sending, Armed
  <2>2. (tdh + 1) % HwRing = tdh + 1
    BY <1>3, <1>4, HwRingFits
  <2> QED
    BY <2>1, <2>2 DEF Complete
<1>6. ring[tdh] \in Desc /\ Whole(ring[tdh], tdh + 1) /\ ring[tdh].buffer = tdh + 1
  BY <1>1, <1>3, <1>4 DEF Sending, Whole
<1>7. /\ wire' \in Seq(Desc) /\ Len(wire') = tdh + 1
      /\ \A k \in 1 .. Len(wire') : wire'[k].buffer = k
  <2>1. wire' = Append(wire, ring[tdh]) /\ wire \in Seq(Desc) /\ Len(wire) = tdh
    BY <1>1, <1>3, <1>6 DEF Complete, Sending, Whole
  <2>2. \A k \in 1 .. Len(wire) : wire[k].buffer = k
    BY <1>1 DEF Sending
  <2>3. /\ wire' \in Seq(Desc) /\ Len(wire') = tdh + 1 /\ wire'[tdh + 1] = ring[tdh]
        /\ \A k \in 1 .. tdh : wire'[k] = wire[k]
    BY <1>3, <1>6, <2>1
  <2>4. \A k \in 1 .. (tdh + 1) : k \in 1 .. tdh \/ k = tdh + 1
    BY <1>3
  <2> QED
    BY <1>6, <2>1, <2>2, <2>3, <2>4
<1>8. /\ ring' \in [Slots -> Desc] /\ \A i \in Slots : i # tdh => ring'[i] = ring[i]
  <2>1. ring \in [Slots -> Desc]
    BY <1>1 DEF Sending
  <2>2. [ring[tdh] EXCEPT !.dd = TRUE] \in Desc
    BY <1>6 DEF Desc
  <2>3. ring' = [ring EXCEPT ![tdh] = [ring[tdh] EXCEPT !.dd = TRUE]]
    BY <1>3, <1>6 DEF Complete, Whole, Done
  <2> QED
    BY <1>4, <2>1, <2>2, <2>3
<1>9. \A i \in Slots : tdh + 1 <= i => ring'[i] = ring[i]
  <2>1. \A i \in Slots : tdh + 1 <= i => i # tdh
    BY <1>3, <1>4
  <2> QED
    BY <1>8, <2>1
<1>10. txtail \in Slots /\ ring'[txtail] = ring[txtail]
  BY <1>1, <1>3, <1>4, <1>8, TailInside
<1>11. /\ \A i \in Slots : tdh + 1 <= i /\ i < txtail => Whole(ring'[i], i + 1)
       /\ \A i \in Slots : txtail < i => ring'[i] = Unused
  <2>1. \A i \in Slots : (tdh + 1 <= i => tdh <= i) /\ (txtail < i => tdh + 1 <= i)
    BY <1>3, <1>4
  <2> QED
    BY <1>1, <1>9, <2>1 DEF Sending
<1>12. tdh' \in 0 .. txtail
  BY <1>3, <1>5
<1>13. Sending'
  BY <1>1, <1>2, <1>5, <1>7, <1>8, <1>10, <1>11, <1>12 DEF Sending
<1> QED
  BY <1>13 DEF IInv

(* Every step of driver and card keeps the invariant.                       *)
LEMMA NextIInv == ASSUME Placed, Early, IInv, [Next]_vars PROVE IInv'
<1>1. CASE UNCHANGED vars
  <2>1. UNCHANGED <<ring, txtail, pc, sends, todo, regs, tdt, tdh, dma, wire>>
    BY <1>1 DEF vars, driver, setup, card
  <2> QED
    BY <2>1 DEF IInv, Loading, Setting, Sending, Still
<1> QED
  BY <1>1, QuietLoadIInv, WriteRingIInv, RingDoneIInv, MacDoneIInv, SendIInv, WaitedIInv,
     FillBufferIInv, FillCommandIInv, KickIInv, FetchIInv, CompleteIInv DEF Next, Load

(* Packets are counted one by one.                                          *)
LEMMA SendsGrow ==
  ASSUME sends \in 0 .. MaxSends, [Next]_vars
  PROVE  sends' \in 0 .. MaxSends /\ sends <= sends'
<1>1. UNCHANGED sends \/ (sends < MaxSends /\ sends' = sends + 1)
  BY DEF Next, Load, vars, driver, ReadBar, EepromAsk, EepromTake, ProbeDone, IpDone, CheckLink,
         WriteRing, RingDone, MacDone, EepromAnswer, Send, Waited, FillBuffer, FillCommand, Kick, Fetch,
         Complete, loading
<1> QED
  BY <1>1, E1000Assumption

(* Early on, the invariant holds.                                           *)
JInv == sends \in 0 .. MaxSends /\ (Early => IInv)

(* As long as add_tx_buffer has been called less often than the card knows  *)
(* descriptors, driver and card agree on the ring, whatever happens later;  *)
(* provided _lpa keeps the addresses of ring and packets and firmware left  *)
(* the transmit unit quiet.                                                 *)
THEOREM InvariantHolds == ASSUME Prepared PROVE Spec => []JInv
<1>1. Init => JInv
  BY InitIInv, E1000Assumption DEF JInv, Init, Prepared
<1>2. JInv /\ [Next]_vars => JInv'
  <2> SUFFICES ASSUME JInv, [Next]_vars PROVE JInv'
    OBVIOUS
  <2>1. sends' \in 0 .. MaxSends /\ sends <= sends'
    BY SendsGrow DEF JInv
  <2>2. Early' => Early
    BY <2>1, HwRingFits DEF Early, JInv, HwRing
  <2> QED
    BY <2>1, <2>2, NextIInv DEF JInv, Prepared
<1> QED
  BY <1>1, <1>2, PTL DEF Spec

(* All the packets fit the ring as the card knows it.  Beyond that the tail *)
(* passes the card's end of the ring and the card never comes to it: run    *)
(* e1000_stuck.                                                             *)
RingLasts == MaxSends < HwRing

(* Then it is always early.                                                 *)
LEMMA AlwaysEarly == ASSUME RingLasts, JInv PROVE Early /\ IInv
  BY HwRingFits, E1000Assumption DEF RingLasts, JInv, Early

(* The invariant gives the order on the wire.                               *)
LEMMA IInvWireInOrder == IInv => WireInOrder
<1>1. ASSUME Loading PROVE WireInOrder
  <2>1. wire = <<>>
    BY <1>1 DEF Loading
  <2>2. Len(wire) = 0
    BY <2>1
  <2> QED
    BY <2>2 DEF WireInOrder
<1>2. ASSUME Sending PROVE WireInOrder
  BY <1>2 DEF Sending, WireInOrder
<1> QED
  BY <1>1, <1>2 DEF IInv

(* The invariant gives that the card sees finished descriptors only.        *)
LEMMA IInvFetchedWhole == Early /\ IInv => FetchedWhole
<1> SUFFICES ASSUME Early, IInv, dma # <<>> PROVE dma[1].cmd = Done /\ ~dma[1].dd
  BY DEF FetchedWhole, Done
<1>1. Sending
  BY DEF IInv, Loading
<1>2. tdh < txtail /\ tdh \in Nat /\ dma[1] = ring[tdh] /\ txtail \in Nat
  BY <1>1 DEF Sending
<1>3. tdh \in Slots
  BY <1>1, <1>2, TailInside, HwRingFits, E1000Assumption DEF Slots
<1>4. Whole(ring[tdh], tdh + 1)
  BY <1>1, <1>2, <1>3 DEF Sending
<1> QED
  BY <1>2, <1>4 DEF Whole

(* No step writes the descriptor the card is working on: add_tx_buffer      *)
(* writes at the tail, the card works below it.                             *)
LEMMA StepUnderDma ==
  ASSUME Early, IInv, [Next]_vars, dma # <<>>, dma' = dma
  PROVE  ring'[tdh] = ring[tdh]
<1>1. Sending
  BY DEF IInv, Loading
<1>2. tdh < txtail /\ tdh \in Nat /\ txtail \in Nat
  BY <1>1 DEF Sending
<1>3. tdh # txtail
  BY <1>2
<1>4. UNCHANGED ring \/ FillBuffer \/ FillCommand
  BY DEF Next, Load, vars, ReadBar, EepromAsk, EepromTake, ProbeDone, IpDone, CheckLink, WriteRing,
         RingDone, MacDone, EepromAnswer, Send, Waited, Kick, Fetch, Complete, loading
<1>5. FillBuffer \/ FillCommand => ring'[tdh] = ring[tdh]
  <2>1. ring \in [Slots -> Desc] /\ tdh \in Slots
    BY <1>1, <1>2, TailInside, HwRingFits, E1000Assumption DEF Sending, Slots
  <2> QED
    BY <1>3, <2>1 DEF FillBuffer, FillCommand
<1> QED
  BY <1>4, <1>5

(* The card sends the packets once each and in the order in which           *)
(* add_tx_buffer was called, for every size of the ring and every           *)
(* interleaving of driver and card.                                         *)
THEOREM PacketsInOrder == ASSUME Prepared, RingLasts PROVE Spec => []WireInOrder
<1>1. JInv => WireInOrder
  BY AlwaysEarly, IInvWireInOrder
<1> QED
  BY <1>1, InvariantHolds, PTL

(* The card never works on a descriptor that add_tx_buffer has half         *)
(* written, nor on memory that is not the ring.                             *)
THEOREM DescriptorsWhole == ASSUME Prepared, RingLasts PROVE Spec => []FetchedWhole
<1>1. JInv => FetchedWhole
  BY AlwaysEarly, IInvFetchedWhole
<1> QED
  BY <1>1, InvariantHolds, PTL

(* add_tx_buffer never writes the descriptor that the card is working on.   *)
THEOREM CardUndisturbed == ASSUME Prepared, RingLasts PROVE Spec => NoWriteUnderDma
<1>1. JInv /\ [Next]_vars => [dma # <<>> /\ dma' = dma => ring'[tdh] = ring[tdh]]_vars
  BY AlwaysEarly, StepUnderDma
<1> QED
  BY <1>1, InvariantHolds, PTL DEF Spec, NoWriteUnderDma

=============================================================================
