--------------------------- MODULE AllocContract ---------------------------
(***************************************************************************)
(* What kmalloc.h promises of kmalloc, krealloc, kcalloc and kfree, "the    *)
(* default malloc-family behavior as defined in the libc standard", with no *)
(* mention of blocks, headers or lists: every pointer handed out is fresh   *)
(* and its bytes belong to no other allocation until it is freed.           *)
(***************************************************************************)
EXTENDS Integers

CONSTANTS
  HeapStart,  \* the lowest address that may be handed out
  Top         \* the first address above them

VARIABLE live  \* the allocations: address -> length that was asked for

Fresh(p, len, others) ==
  /\ HeapStart <= p /\ p + len <= Top
  /\ \A q \in others : p + len <= q \/ q + live[q] <= p

Init == live = [p \in {} |-> 0]

(* Some p outside the live allocations now has a length of its own. *)
Malloc(p) ==
  /\ p \notin DOMAIN live
  /\ DOMAIN live' = DOMAIN live \cup {p}
  /\ \A q \in DOMAIN live : live'[q] = live[q]
  /\ Fresh(p, live'[p], DOMAIN live)

Free(p) ==
  /\ p \in DOMAIN live
  /\ live' = [q \in DOMAIN live \ {p} |-> live[q]]

(* Allocation p changes its length and may move to an address that was free *)
(* while p was still allocated.                                             *)
Resize(p) ==
  /\ p \in DOMAIN live
  /\ DOMAIN live' = DOMAIN live
  /\ \A q \in DOMAIN live \ {p} : live'[q] = live[q]
  /\ Fresh(p, live'[p], DOMAIN live \ {p})

Move(p, q) ==
  /\ p \in DOMAIN live /\ q \notin DOMAIN live
  /\ DOMAIN live' = (DOMAIN live \ {p}) \cup {q}
  /\ \A r \in DOMAIN live \ {p} : live'[r] = live[r]
  /\ Fresh(q, live'[q], DOMAIN live)

Next ==
  \/ \E p \in DOMAIN live' : Malloc(p)
  \/ \E p \in DOMAIN live : Free(p)
  \/ \E p \in DOMAIN live : Resize(p)
  \/ \E p \in DOMAIN live : \E q \in DOMAIN live' : Move(p, q)

Spec == Init /\ [][Next]_live

=============================================================================
