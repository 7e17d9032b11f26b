------------------------------- MODULE Serial -------------------------------
(***************************************************************************)
(* The serial port, kernel/debug/serial.c: how init_serial programs the     *)
(* UART and serial_putchar feeds it.  The UART is a record; module Vga,     *)
(* which prints every character to it too, keeps it as a variable.          *)
(***************************************************************************)
EXTENDS Integers, Sequences

CONSTANT UartDepth   \* 16, characters the transmitter's FIFO holds

ASSUME SerialAssumption == UartDepth \in Nat \ {0}

(* A UART the firmware may have left: thr is its transmitter, rx its        *)
(* receiver.                                                                *)
Reset == [dlab |-> 0, divisor |-> 12, loop |-> 0, thr |-> <<>>, rx |-> 0]

Bit(v, mask) == (v \div mask) % 2

(* A character that finds the transmitter full is lost; in loopback it      *)
(* comes back to the receiver.                                              *)
Transmit(u, v) ==
  IF u.loop = 1 THEN [u EXCEPT !.rx = v]
  ELSE IF Len(u.thr) < UartDepth THEN [u EXCEPT !.thr = Append(@, v)] ELSE u

(* What a write of v to the port at _COM1PORT + 0, 1, ... does.             *)
Out0(u, v) == IF u.dlab = 1 THEN [u EXCEPT !.divisor = ((@ \div 256) * 256) + v] ELSE Transmit(u, v)
Out1(u, v) == IF u.dlab = 1 THEN [u EXCEPT !.divisor = (v * 256) + (@ % 256)] ELSE u
Out2(u, v) == u
Out3(u, v) == [u EXCEPT !.dlab = Bit(v, 128)]
Out4(u, v) == [u EXCEPT !.loop = Bit(v, 16)]

(* init_serial up to the loopback test.                                     *)
Programmed ==
  LET u1 == Out1(Reset, 0)
      u2 == Out3(u1, 128)
      u3 == Out0(u2, 3)
      u4 == Out1(u3, 0)
      u5 == Out3(u4, 3)
      u6 == Out2(u5, 199)
  IN Out4(u6, 11)

(* A chip that works returns the test byte, a faulty one anything else.     *)
Tested   == Out0(Out4(Programmed, 30), 174)
Faulty   == [Tested EXCEPT !.rx = 0]
Passes(u) == u.rx = 174

(* Normal operation.                                                        *)
init_serial(u) == Out4(u, 15)

(* Fault: the transmitter is not waited for.                                *)
is_transmit_emptyAlways(u) == TRUE

is_transmit_empty(u) == u.thr = <<>>

serial_putchar(u, ch) == Out0(u, ch)
=============================================================================
