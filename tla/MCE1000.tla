------------------------------ MODULE MCE1000 ------------------------------
(***************************************************************************)
(* Model checking of E1000.                                                 *)
(***************************************************************************)
EXTENDS E1000

(* Cards whose transmit unit does nothing until it is told of a descriptor: *)
(* switched off with any head and tail, or on with both at the start.       *)
QuietCards ==
  [enabled : {FALSE}, tdlen : {0, 256}, tdh : {0, 3}, tdt : {0, 3}]
  \cup [enabled : {TRUE}, tdlen : {0, 256}, tdh : {0}, tdt : {0}]

(* A card that firmware has left switched on, its last packet sent.         *)
LiveCards == [enabled : {TRUE}, tdlen : {256}, tdh : {3}, tdt : {3}]

=============================================================================
