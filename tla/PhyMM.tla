------------------------------- MODULE PhyMM -------------------------------
(***************************************************************************)
(* The physical page frame allocator, kernel/mm/phy-mm.c.                   *)
(*                                                                          *)
(* A frame is named by its index in the managed region: frame f is the      *)
(* hardware address _hwa_mmstart + 4096 * f.  The region holds NPages       *)
(* (_hwas_ssize) frames.  Two structures describe it:                       *)
(*                                                                          *)
(*   - _hwas_bp[0 .. _hwas_ssize-1], a stack of frame addresses whose top   *)
(*     element is at _hwas_sp.  Single frames are popped from it; requests  *)
(*     for several frames scan it from the bottom and never pop;            *)
(*   - _hwa_inu_bitmap, one bit per frame, shared by both kinds of request. *)
(*                                                                          *)
(* An operator that models a C function takes the allocator's state as a    *)
(* record and returns its outcomes, so that virt-mm.c, which calls it       *)
(* several times in one operation, can compose the calls.                   *)
(***************************************************************************)
EXTENDS Integers

CONSTANTS
  NPages,      \* _hwas_ssize, the number of managed frames
  MaxRequest,  \* bound: the most frames one request asks for
  Clients      \* the callers; each holds at most one grant (bounds the grants)

ASSUME NPagesAssumption     == NPages \in Nat \ {0}
ASSUME MaxRequestAssumption == MaxRequest \in Nat \ {0}

VARIABLES
  pm,      \* the allocator's tables, see PmType
  holds,   \* holds[c]: what client c was granted and has not freed
  status   \* what the last hwpfree returned

vars == <<pm, holds, status>>

(***************************************************************************)
(* NULL is hardware address 0, a frame below the managed region.            *)
(***************************************************************************)
NULL == -1

Positions == 0 .. NPages - 1

NoGrant == [base |-> NULL, n |-> 0]
Frames(g) == g.base .. (g.base + g.n - 1)

Statuses == {"OK", "INVALID_MEM", "DOUBLE_FREE", "BORKD_MEM"}

(***************************************************************************)
(* sp is _hwas_sp - _hwas_bp, inuse the set of frames whose bit is set.     *)
(* Bits past NPages exist too: the bitmap is followed by unused memory of   *)
(* the page init_phymm reserves.  mode is "wild" once hwpalloc has used a   *)
(* word outside the stack as a frame address: below _hwas_bp, or at         *)
(* _hwas_bp[_hwas_ssize].  The C program's behaviour is undefined from      *)
(* there on, and the model stops.                                           *)
(***************************************************************************)
PmType == [sp : Int, stack : [Positions -> Int], inuse : SUBSET Int, mode : {"defined", "wild"}]

(* Fault: the stack pointer starts one entry above the top.                 *)
InitPmAboveTop ==
  [sp |-> NPages, stack |-> [i \in Positions |-> i], inuse |-> {}, mode |-> "defined"]

InitPm ==
  [sp |-> NPages - 1, stack |-> [i \in Positions |-> i], inuse |-> {}, mode |-> "defined"]

-----------------------------------------------------------------------------
(* hwpalloc *)

IsFree(p, i) == p.stack[i] \notin p.inuse

Grant(p, f, n) == [addr |-> f, pm |-> [p EXCEPT !.inuse = @ \cup (f .. (f + n - 1))]]

Wild(p) == [addr |-> NULL, pm |-> [p EXCEPT !.mode = "wild"]]

(* Fault: a frame is popped without a look at the bitmap.                   *)
PopStopUnchecked(p) == {k \in {p.sp} : k \in Positions}

(* Where the do-while loop of hwpalloc(1) stops: the highest free entry at  *)
(* or below the stack pointer.                                              *)
PopStop(p) ==
  {k \in 0 .. p.sp : k \in Positions /\ IsFree(p, k) /\ \A j \in (k + 1) .. p.sp : ~IsFree(p, j)}

(* The entry test was made before the loop, which does not repeat it: with  *)
(* no free entry left it walks below _hwas_bp.                              *)
PopFrame(p) ==
  IF PopStop(p) = {}
  THEN {Wild(p)}
  ELSE {Grant([p EXCEPT !.sp = k - 1], p.stack[k], 1) : k \in PopStop(p)}

(* Fault: a run that is one entry short counts.                             *)
WindowsShort(p, n) == {s \in 0 .. (NPages - n) : \A j \in s .. (s + n - 2) : IsFree(p, j)}

(* Where n free entries in a row start, and the length of the free run that *)
(* ends the stack: `cons' when the loop of hwpalloc(n) runs out of entries. *)
Windows(p, n) == {s \in 0 .. (NPages - n) : \A j \in s .. (s + n - 1) : IsFree(p, j)}

TailRun(p) ==
  {c \in 0 .. NPages : /\ \A j \in (NPages - c) .. (NPages - 1) : IsFree(p, j)
                       /\ c = NPages \/ ~IsFree(p, NPages - c - 1)}

(* The scan stops at the first window.  Without one it still takes          *)
(* _hwas_bp[i - cons] and marks n frames from there; cons = 0 makes that    *)
(* the word after the stack.                                                *)
ScanFrames(p, n) ==
  IF Windows(p, n) # {}
  THEN {Grant(p, p.stack[s], n) : s \in {s \in Windows(p, n) : \A t \in Windows(p, n) : s <= t}}
  ELSE {IF c = 0 THEN Wild(p) ELSE Grant(p, p.stack[NPages - c], n) : c \in TailRun(p)}

hwpalloc(p, n) ==
  IF p.sp = 0 THEN {[addr |-> NULL, pm |-> p]}
  ELSE IF n = 1 THEN PopFrame(p)
  ELSE ScanFrames(p, n)

-----------------------------------------------------------------------------
(* hwpfree *)

InRegion(f) == 0 <= f /\ f < NPages

(* The overrun test the comment in hwpfree describes, which would let the   *)
(* push happen and with it reorder the stack.                               *)
PushRefusedOnOverrun(p) == p.sp >= NPages - 1

(* The test `_hwas_sp < _hwas_bp + _hwas_ssize' that guards the push.       *)
PushRefused(p) == p.sp < NPages

FreeStatus(p, f, n) ==
  CASE ~InRegion(f)            -> "INVALID_MEM"
    [] InRegion(f) /\ f \notin p.inuse -> "DOUBLE_FREE"
    [] InRegion(f) /\ f \in p.inuse /\ n = 1 /\ PushRefused(p) -> "BORKD_MEM"
    [] OTHER -> "OK"

Push(p, f) ==
  [p EXCEPT !.inuse = @ \ {f}, !.sp = @ + 1, !.stack = [p.stack EXCEPT ![p.sp + 1] = f]]

(* Fault: the last frame of a run keeps its bit.                            *)
hwpfreeShort(p, f, n) ==
  IF FreeStatus(p, f, n) # "OK" THEN p
  ELSE IF n = 1 THEN Push(p, f)
  ELSE [p EXCEPT !.inuse = @ \ (f .. (f + n - 2))]

hwpfree(p, f, n) ==
  IF FreeStatus(p, f, n) # "OK" THEN p
  ELSE IF n = 1 THEN Push(p, f)
  ELSE [p EXCEPT !.inuse = @ \ (f .. (f + n - 1))]

-----------------------------------------------------------------------------
(* The allocator and its callers *)

Init ==
  /\ pm = InitPm
  /\ holds = [c \in Clients |-> NoGrant]
  /\ status = "OK"

(* Nothing is said of the program once it has used a wild address.          *)
Defined == pm.mode = "defined"

(* A caller that holds nothing asks for n frames. *)
Alloc(c, n) ==
  /\ Defined /\ holds[c] = NoGrant
  /\ \E r \in hwpalloc(pm, n) :
       /\ pm' = r.pm
       /\ holds' = IF r.addr = NULL THEN holds
                   ELSE [holds EXCEPT ![c] = [base |-> r.addr, n |-> n]]
  /\ UNCHANGED status

(* A caller frees exactly what it was granted; on an error status it still  *)
(* holds the frames.                                                        *)
Free(c) ==
  /\ Defined /\ holds[c] # NoGrant
  /\ pm' = hwpfree(pm, holds[c].base, holds[c].n)
  /\ status' = FreeStatus(pm, holds[c].base, holds[c].n)
  /\ holds' = IF status' = "OK" THEN [holds EXCEPT ![c] = NoGrant] ELSE holds

(* A call on an address that is outside the region or already free.         *)
StrayFree(f, n) ==
  /\ Defined /\ (~InRegion(f) \/ f \notin pm.inuse)
  /\ pm' = hwpfree(pm, f, n)
  /\ status' = FreeStatus(pm, f, n)
  /\ UNCHANGED holds

Next ==
  \/ \E c \in Clients, n \in 1 .. MaxRequest : Alloc(c, n)
  \/ \E c \in Clients : Free(c)
  \/ \E f \in -1 .. NPages, n \in 1 .. MaxRequest : StrayFree(f, n)

Spec == Init /\ [][Next]_vars

-----------------------------------------------------------------------------
(* Properties *)

(* The tables, the grants and the status have their types; hwpalloc never   *)
(* leaves the stack pointer at or above _hwas_bp + _hwas_ssize.             *)
TypeOK ==
  /\ pm \in PmType
  /\ pm.sp < NPages
  /\ holds \in [Clients -> [base : Int, n : Nat]]
  /\ status \in Statuses

(* No frame is granted to two callers: neither by popping it from the       *)
(* stack while a scan has taken it, nor by scanning over a popped one.      *)
Exclusive ==
  \A c, d \in Clients : c # d => Frames(holds[c]) \cap Frames(holds[d]) = {}

(* The bitmap marks exactly the frames somebody holds: no allocation leaves *)
(* a frame of its grant unmarked and no free forgets one.                   *)
InUseExact == pm.inuse = UNION {Frames(holds[c]) : c \in Clients}

(* The stack lists the region's frames in address order, which is what lets *)
(* the scan of hwpalloc(n) take n entries in a row for n frames in a row.   *)
StackInOrder == pm.stack = [i \in Positions |-> i]

(* phy-mm.h, of _hwa_mmstart: valid pages are drawn from the region.        *)
WithinRegion == \A c \in Clients : Frames(holds[c]) \subseteq Positions

(* phy-mm.c, hwpfree: STATUS_BORKD_MEM is the answer to a stack overrun.    *)
BorkdMeansOverrun == status = "BORKD_MEM" => pm.sp >= NPages

(* phy-mm.h, of hwpalloc: it returns an unused frame from the stack, so     *)
(* it never takes a frame address from outside it.                          *)
NeverWild == Defined

=============================================================================
