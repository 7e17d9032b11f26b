---------------------------- MODULE PhyMMProofs ----------------------------
(***************************************************************************)
(* Proofs about PhyMM, for every region size, request size and set of       *)
(* callers.  The inductive invariant adds to the properties of PhyMM that a *)
(* grant starts inside the region: one that runs past its end therefore     *)
(* covers the last frame, and no later scan can start beside it.            *)
(***************************************************************************)
EXTENDS PhyMM, TLAPS

GrantsStartInside ==
  \A c \in Clients : holds[c] = NoGrant \/ (holds[c].base \in Positions /\ holds[c].n >= 1)

IInv == TypeOK /\ StackInOrder /\ GrantsStartInside /\ InUseExact /\ Exclusive

(* What the bitmap of a reachable state is like past the end of the region. *)
TailHeld(p) == \A f \in p.inuse : f >= NPages => NPages - 1 \in p.inuse

-----------------------------------------------------------------------------
(* Granting n frames from f changes the bitmap only.                        *)
LEMMA GrantOutcome ==
  ASSUME NEW p \in PmType, NEW f \in Int, NEW n \in Nat
  PROVE  /\ Grant(p, f, n).addr = f
         /\ Grant(p, f, n).pm \in PmType
         /\ Grant(p, f, n).pm.sp = p.sp
         /\ Grant(p, f, n).pm.stack = p.stack
         /\ Grant(p, f, n).pm.inuse = p.inuse \cup (f .. (f + n - 1))
<1> DEFINE q == [p EXCEPT !.inuse = @ \cup (f .. (f + n - 1))]
<1>1. Grant(p, f, n).addr = f /\ Grant(p, f, n).pm = q
  BY DEF Grant
<1>2. p.inuse \cup (f .. (f + n - 1)) \in SUBSET Int
  BY DEF PmType
<1>3. q \in PmType /\ q.sp = p.sp /\ q.stack = p.stack /\ q.inuse = p.inuse \cup (f .. (f + n - 1))
  BY <1>2 DEF PmType
<1> QED
  BY <1>1, <1>3

(* hwpalloc answers NULL and marks nothing, or returns the first of n       *)
(* frames that were all free and marks exactly those.  It never raises the  *)
(* stack pointer and never writes the stack.                                *)
LEMMA AllocOutcome ==
  ASSUME NEW p \in PmType, p.sp < NPages, p.stack = [i \in Positions |-> i], TailHeld(p),
         NEW n \in Nat \ {0}, NEW r \in hwpalloc(p, n)
  PROVE  /\ r.pm \in PmType /\ r.pm.sp <= p.sp /\ r.pm.stack = p.stack
         /\ \/ r.addr = NULL /\ r.pm.inuse = p.inuse
            \/ /\ r.addr \in Positions
               /\ r.pm.inuse = p.inuse \cup (r.addr .. (r.addr + n - 1))
               /\ p.inuse \cap (r.addr .. (r.addr + n - 1)) = {}
<1> USE NPagesAssumption
<1>0. \A i \in Positions : p.stack[i] = i
  OBVIOUS
<1>1. CASE p.sp = 0
  BY <1>1 DEF hwpalloc, PmType, NULL
<1>2. CASE p.sp # 0 /\ n = 1
  <2>1. r \in PopFrame(p)
    BY <1>2 DEF hwpalloc
  <2>2. CASE PopStop(p) = {}
    <3>1. r = Wild(p)
      BY <2>1, <2>2 DEF PopFrame
    <3> QED
      BY <3>1 DEF Wild, PmType
  <2>3. CASE PopStop(p) # {}
    <3>1. PICK k \in PopStop(p) : r = Grant([p EXCEPT !.sp = k - 1], p.stack[k], 1)
      BY <2>1, <2>3 DEF PopFrame
    <3>2. /\ k \in Positions /\ k <= p.sp /\ p.stack[k] = k /\ k \notin p.inuse
      BY <1>0, <3>1 DEF PopStop, IsFree, PmType
    <3>3. /\ r.addr = k /\ r.pm \in PmType
          /\ r.pm.sp = k - 1 /\ r.pm.stack = p.stack /\ r.pm.inuse = p.inuse \cup (k .. k)
      <4> DEFINE q == [p EXCEPT !.sp = k - 1]
      <4>1. q \in PmType /\ q.sp = k - 1 /\ q.stack = p.stack /\ q.inuse = p.inuse
        BY <3>2 DEF PmType, Positions
      <4>2. r = Grant(q, k, 1) /\ k \in Int
        BY <3>1, <3>2 DEF Positions
      <4> HIDE DEF q
      <4> QED
        BY <4>1, <4>2, GrantOutcome
    <3> QED
      BY <1>2, <3>2, <3>3 DEF PmType, Positions
  <2> QED
    BY <2>2, <2>3
<1>3. CASE p.sp # 0 /\ n # 1
  <2>1. r \in ScanFrames(p, n)
    BY <1>3 DEF hwpalloc
  <2>2. CASE Windows(p, n) # {}
    <3>1. PICK s \in Windows(p, n) : r = Grant(p, p.stack[s], n)
      BY <2>1, <2>2 DEF ScanFrames
    <3>2. /\ s \in Positions /\ p.stack[s] = s
          /\ \A j \in s .. (s + n - 1) : j \notin p.inuse
      <4>1. \A j \in s .. (s + n - 1) : p.stack[j] \notin p.inuse
        BY <3>1 DEF Windows, IsFree
      <4>2. s \in 0 .. (NPages - n)
        BY <3>1 DEF Windows
      <4>3. s \in s .. (s + n - 1) /\ \A j \in s .. (s + n - 1) : j \in Positions
        BY <4>2 DEF Positions
      <4> QED
        BY <1>0, <4>1, <4>3
    <3>3. /\ r.addr = s /\ r.pm \in PmType /\ r.pm.sp = p.sp /\ r.pm.stack = p.stack
          /\ r.pm.inuse = p.inuse \cup (s .. (s + n - 1))
      BY <3>1, <3>2, GrantOutcome DEF Positions
    <3> QED
      BY <3>2, <3>3 DEF PmType, Positions
  <2>3. CASE Windows(p, n) = {}
    <3>1. PICK c \in TailRun(p) :
            r = IF c = 0 THEN Wild(p) ELSE Grant(p, p.stack[NPages - c], n)
      BY <2>1, <2>3 DEF ScanFrames
    <3>2. CASE c = 0
      BY <3>1, <3>2 DEF Wild, PmType
    <3>3. CASE c # 0
      <4> DEFINE s == NPages - c
      <4>1. /\ s \in Positions /\ p.stack[s] = s
            /\ \A j \in s .. (NPages - 1) : j \notin p.inuse
        <5>1. \A j \in s .. (NPages - 1) : p.stack[j] \notin p.inuse
          BY <3>1 DEF TailRun, IsFree
        <5>2. c \in 0 .. NPages
          BY <3>1 DEF TailRun
        <5>3. s \in s .. (NPages - 1) /\ \A j \in s .. (NPages - 1) : j \in Positions
          BY <3>3, <5>2 DEF Positions
        <5> QED
          BY <1>0, <5>1, <5>3
      <4>2. \A j \in s .. (s + n - 1) : j \notin p.inuse
        BY <4>1 DEF TailHeld, PmType, Positions
      <4>3. /\ r.addr = s /\ r.pm \in PmType /\ r.pm.sp = p.sp /\ r.pm.stack = p.stack
            /\ r.pm.inuse = p.inuse \cup (s .. (s + n - 1))
        BY <3>1, <3>3, <4>1, GrantOutcome DEF Positions
      <4> QED
        BY <4>1, <4>2, <4>3 DEF PmType, Positions
    <3> QED
      BY <3>2, <3>3
  <2> QED
    BY <2>2, <2>3
<1> QED
  BY <1>1, <1>2, <1>3

-----------------------------------------------------------------------------
(* In a state of the invariant, a bit past the end of the region belongs to *)
(* a grant that starts inside it, and that grant covers the last frame.     *)
LEMMA TailIsHeld == IInv => TailHeld(pm)
<1> SUFFICES ASSUME IInv, NEW f \in pm.inuse, f >= NPages
             PROVE  NPages - 1 \in pm.inuse
  BY DEF TailHeld
<1> USE NPagesAssumption
<1>1. PICK c \in Clients : f \in Frames(holds[c])
  BY DEF IInv, InUseExact
<1>2. holds[c].base \in Int /\ holds[c].n \in Nat
  BY DEF IInv, TypeOK
<1>3. holds[c] # NoGrant
  BY <1>1 DEF Frames, NoGrant, NULL
<1>4. holds[c].base \in 0 .. NPages - 1
  BY <1>3 DEF IInv, GrantsStartInside, Positions
<1>5. NPages - 1 \in Frames(holds[c])
  BY <1>1, <1>2, <1>4 DEF Frames, IInv, TypeOK, PmType
<1> QED
  BY <1>5 DEF IInv, InUseExact

LEMMA InitIInv == Init => IInv
<1> SUFFICES ASSUME Init PROVE IInv
  OBVIOUS
<1> USE NPagesAssumption
<1>1. TypeOK
  BY DEF Init, InitPm, TypeOK, PmType, NoGrant, NULL, Statuses, Positions
<1>2. StackInOrder
  BY DEF Init, InitPm, StackInOrder
<1>3. \A c \in Clients : holds[c] = NoGrant /\ Frames(holds[c]) = {}
  BY DEF Init, NoGrant, NULL, Frames
<1>4. GrantsStartInside /\ Exclusive
  BY <1>3 DEF GrantsStartInside, Exclusive
<1>5. InUseExact
  BY <1>3 DEF Init, InitPm, InUseExact
<1> QED
  BY <1>1, <1>2, <1>4, <1>5 DEF IInv

(* An allocation takes frames nobody holds and marks them.                  *)
LEMMA AllocIInv ==
  ASSUME IInv, NEW c \in Clients, NEW n \in 1 .. MaxRequest, Alloc(c, n)
  PROVE  IInv'
<1> USE NPagesAssumption, MaxRequestAssumption
<1>1. PICK r \in hwpalloc(pm, n) :
        /\ pm' = r.pm
        /\ holds' = IF r.addr = NULL THEN holds
                    ELSE [holds EXCEPT ![c] = [base |-> r.addr, n |-> n]]
  BY DEF Alloc
<1>2. /\ pm' \in PmType /\ pm'.sp <= pm.sp /\ pm'.stack = pm.stack
      /\ \/ r.addr = NULL /\ pm'.inuse = pm.inuse
         \/ /\ r.addr \in Positions
            /\ pm'.inuse = pm.inuse \cup (r.addr .. (r.addr + n - 1))
            /\ pm.inuse \cap (r.addr .. (r.addr + n - 1)) = {}
  BY <1>1, TailIsHeld, AllocOutcome DEF IInv, TypeOK, StackInOrder
<1>3. CASE r.addr = NULL
  <2>1. holds' = holds /\ status' = status /\ pm'.inuse = pm.inuse
    BY <1>1, <1>2, <1>3 DEF Alloc, Positions, NULL
  <2>2. TypeOK'
    BY <1>2, <2>1 DEF IInv, TypeOK, PmType
  <2> QED
    BY <1>2, <2>1, <2>2
       DEF IInv, StackInOrder, GrantsStartInside, InUseExact, Exclusive
<1>4. CASE r.addr # NULL
  <2> DEFINE g == [base |-> r.addr, n |-> n]
  <2>1. /\ r.addr \in Positions
        /\ pm'.inuse = pm.inuse \cup (r.addr .. (r.addr + n - 1))
        /\ pm.inuse \cap (r.addr .. (r.addr + n - 1)) = {}
        /\ holds' = [holds EXCEPT ![c] = g] /\ status' = status
    BY <1>1, <1>2, <1>4 DEF Alloc
  <2>2. Frames(g) = r.addr .. (r.addr + n - 1)
    BY DEF Frames
  <2>3. g \in [base : Int, n : Nat] /\ g.base = r.addr /\ g.n = n
    BY <2>1 DEF Positions
  <2> HIDE DEF g
  <2>4. TypeOK'
    BY <1>2, <2>1, <2>3 DEF IInv, TypeOK, PmType
  <2>5. holds'[c] = g /\ \A d \in Clients \ {c} : holds'[d] = holds[d]
    BY <2>1 DEF IInv, TypeOK
  <2>6. GrantsStartInside'
    BY <2>1, <2>3, <2>5 DEF IInv, GrantsStartInside
  <2>7. Frames(holds[c]) = {}
    BY DEF Alloc, NoGrant, NULL, Frames
  <2>8. \A d \in Clients : Frames(holds[d]) \cap Frames(g) = {}
    BY <2>1, <2>2 DEF IInv, InUseExact
  <2>9. InUseExact'
    <3>1. ASSUME NEW x PROVE x \in pm'.inuse <=> \E d \in Clients : x \in Frames(holds'[d])
      <4>1. x \in pm'.inuse <=> (\E d \in Clients : x \in Frames(holds[d])) \/ x \in Frames(g)
        BY <2>1, <2>2 DEF IInv, InUseExact
      <4> QED
        BY <4>1, <2>5, <2>7
    <3> QED
      BY <3>1 DEF InUseExact
  <2>10. Exclusive'
    BY <2>5, <2>8 DEF IInv, Exclusive
  <2> QED
    BY <1>2, <2>4, <2>6, <2>9, <2>10 DEF IInv, StackInOrder
<1> QED
  BY <1>3, <1>4

(* A free of one frame is refused, a free of several unmarks exactly what   *)
(* its caller held.                                                         *)
LEMMA FreeIInv ==
  ASSUME IInv, NEW c \in Clients, Free(c)
  PROVE  IInv'
<1> USE NPagesAssumption
<1> DEFINE f == holds[c].base
           n == holds[c].n
<1>1. f \in Positions /\ n >= 1 /\ f \in Int /\ n \in Nat /\ pm.sp \in Int
  BY DEF Free, IInv, TypeOK, GrantsStartInside, PmType
<1>2. InRegion(f) /\ f \in pm.inuse
  <2>1. f \in Frames(holds[c])
    BY <1>1 DEF Frames
  <2> QED
    BY <1>1, <2>1 DEF IInv, InUseExact, InRegion, Positions
<1>3. CASE n = 1
  <2>1. FreeStatus(pm, f, n) = "BORKD_MEM"
    BY <1>2, <1>3 DEF FreeStatus, PushRefused, IInv, TypeOK
  <2>2. pm' = pm /\ holds' = holds /\ status' = "BORKD_MEM"
    BY <2>1 DEF Free, hwpfree
  <2> QED
    BY <1>1, <2>2 DEF IInv, TypeOK, Statuses, StackInOrder, GrantsStartInside, InUseExact, Exclusive
<1>4. CASE n # 1
  <2>1. FreeStatus(pm, f, n) = "OK"
    BY <1>2, <1>4 DEF FreeStatus
  <2>2. /\ pm' = [pm EXCEPT !.inuse = @ \ (f .. (f + n - 1))]
        /\ holds' = [holds EXCEPT ![c] = NoGrant] /\ status' = "OK"
    BY <1>4, <2>1 DEF Free, hwpfree
  <2>3. /\ pm' \in PmType /\ pm'.sp = pm.sp /\ pm'.stack = pm.stack
        /\ pm'.inuse = pm.inuse \ Frames(holds[c])
    BY <2>2 DEF IInv, TypeOK, PmType, Frames
  <2>4. holds'[c] = NoGrant /\ \A d \in Clients \ {c} : holds'[d] = holds[d]
    BY <2>2 DEF IInv, TypeOK
  <2>5. Frames(NoGrant) = {} /\ NoGrant \in [base : Int, n : Nat]
    BY DEF NoGrant, NULL, Frames
  <2>6. TypeOK'
    BY <2>2, <2>3, <2>5 DEF IInv, TypeOK, Statuses
  <2>7. StackInOrder' /\ GrantsStartInside'
    BY <2>3, <2>4 DEF IInv, StackInOrder, GrantsStartInside
  <2>8. Exclusive'
    BY <2>4, <2>5 DEF IInv, Exclusive
  <2>9. InUseExact'
    <3>1. ASSUME NEW x PROVE x \in pm'.inuse <=> \E d \in Clients : x \in Frames(holds'[d])
      <4>1. x \in pm'.inuse <=> (\E d \in Clients : x \in Frames(holds[d])) /\ x \notin Frames(holds[c])
        BY <2>3 DEF IInv, InUseExact
      <4>2. ASSUME NEW d \in Clients \ {c}, x \in Frames(holds[d]) PROVE x \notin Frames(holds[c])
        BY <4>2 DEF IInv, Exclusive
      <4> QED
        BY <4>1, <4>2, <2>4, <2>5
    <3> QED
      BY <3>1 DEF InUseExact
  <2> QED
    BY <1>1, <2>3, <2>6, <2>7, <2>8, <2>9 DEF IInv
<1> QED
  BY <1>3, <1>4

(* A stray free is answered with an error and changes nothing.              *)
LEMMA StrayFreeIInv ==
  ASSUME IInv, NEW f \in -1 .. NPages, NEW n \in 1 .. MaxRequest, StrayFree(f, n)
  PROVE  IInv'
<1>1. FreeStatus(pm, f, n) \in {"INVALID_MEM", "DOUBLE_FREE"}
  BY DEF StrayFree, FreeStatus
<1>2. pm' = pm /\ holds' = holds /\ status' \in Statuses
  BY <1>1 DEF StrayFree, hwpfree, Statuses
<1> QED
  BY <1>2 DEF IInv, TypeOK, PmType, StackInOrder, GrantsStartInside, InUseExact, Exclusive

LEMMA NextIInv == IInv /\ [Next]_vars => IInv'
<1> SUFFICES ASSUME IInv, [Next]_vars PROVE IInv'
  OBVIOUS
<1>1. ASSUME NEW c \in Clients, NEW n \in 1 .. MaxRequest, Alloc(c, n)
      PROVE  IInv'
  BY <1>1, AllocIInv
<1>2. ASSUME NEW c \in Clients, Free(c) PROVE IInv'
  BY <1>2, FreeIInv
<1>3. ASSUME NEW f \in -1 .. NPages, NEW n \in 1 .. MaxRequest, StrayFree(f, n)
      PROVE  IInv'
  BY <1>3, StrayFreeIInv
<1>4. CASE UNCHANGED vars
  BY <1>4 DEF vars, IInv, TypeOK, PmType, StackInOrder, GrantsStartInside, InUseExact, Exclusive
<1> QED
  BY <1>1, <1>2, <1>3, <1>4 DEF Next

(* The invariant holds in every behaviour of the allocator.                 *)
THEOREM Invariance == Spec => []IInv
  BY InitIInv, NextIInv, PTL DEF Spec

(* The tables keep their types, and _hwas_sp stays below the stack's end.   *)
THEOREM TypeCorrect == Spec => []TypeOK
<1>1. IInv => TypeOK
  BY DEF IInv
<1> QED
  BY <1>1, Invariance, PTL

(* No two callers of hwpalloc ever hold the same frame, whichever of the    *)
(* stack and the scan served them, and although scans can run past the end  *)
(* of the region.                                                           *)
THEOREM FramesExclusive == Spec => []Exclusive
<1>1. IInv => Exclusive
  BY DEF IInv
<1> QED
  BY <1>1, Invariance, PTL

(* The bitmap marks exactly the frames that are held.                       *)
THEOREM BitmapExact == Spec => []InUseExact
<1>1. IInv => InUseExact
  BY DEF IInv
<1> QED
  BY <1>1, Invariance, PTL

(* The stack stays in address order.                                        *)
THEOREM StackOrdered == Spec => []StackInOrder
<1>1. IInv => StackInOrder
  BY DEF IInv
<1> QED
  BY <1>1, Invariance, PTL

=============================================================================
