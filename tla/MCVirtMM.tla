------------------------------ MODULE MCVirtMM ------------------------------
(***************************************************************************)
(* Model checking of VirtMM.                                                *)
(***************************************************************************)
EXTENDS VirtMM

=============================================================================
