------------------------------- MODULE MCPci -------------------------------
(***************************************************************************)
(* Model checking of Pci.                                                   *)
(***************************************************************************)
EXTENDS Pci

=============================================================================
