------------------------------- MODULE MCVga -------------------------------
(***************************************************************************)
(* Model checking of Vga.                                                   *)
(***************************************************************************)
EXTENDS Vga

(* An empty screen and full ones.                                           *)
MCBootScreens == {BlankScreen} \cup {[y \in Rows |-> [x \in Cols |-> g]] : g \in Glyphs}

=============================================================================
