------------------------------ MODULE MCPhyMM ------------------------------
(***************************************************************************)
(* Model checking of PhyMM, and the loops of hwpalloc written out as in the *)
(* source, to compare with the set definitions PhyMM uses.                  *)
(***************************************************************************)
EXTENDS PhyMM, FiniteSets, TLC

Symmetry == Permutations(Clients)

(* The do-while loop of hwpalloc(1), from stack position k down; -1 stands  *)
(* for a walk below _hwas_bp.                                               *)
RECURSIVE PopLoop(_, _)
PopLoop(p, k) ==
  IF k < 0 THEN -1 ELSE IF IsFree(p, k) THEN k ELSE PopLoop(p, k - 1)

(* The for loop of hwpalloc(n): the final values of i and cons.             *)
RECURSIVE ScanLoop(_, _, _, _)
ScanLoop(p, n, i, cons) ==
  IF i = NPages \/ cons = n THEN <<i, cons>>
  ELSE ScanLoop(p, n, i + 1, IF IsFree(p, i) THEN cons + 1 ELSE 0)

LoopAlloc(p, n) ==
  IF p.sp = 0 THEN NULL
  ELSE IF n = 1
  THEN LET k == PopLoop(p, p.sp) IN IF k < 0 THEN NULL ELSE p.stack[k]
  ELSE LET r == ScanLoop(p, n, 0, 0)
       IN IF r[1] - r[2] = NPages THEN NULL ELSE p.stack[r[1] - r[2]]

(* In every reachable state and for every request, the outcome PhyMM        *)
(* defines is unique and is the one the two loops of hwpalloc compute.      *)
LoopsAgree ==
  \A n \in 1 .. MaxRequest :
    /\ Cardinality(hwpalloc(pm, n)) = 1
    /\ \A r \in hwpalloc(pm, n) : r.addr = LoopAlloc(pm, n)

=============================================================================
