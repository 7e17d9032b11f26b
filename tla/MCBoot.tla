------------------------------- MODULE MCBoot -------------------------------
(***************************************************************************)
(* Memory maps for module Boot.  The kernel image is two or three pages    *)
(* from page 4 on; lengths are chosen around the sizes at which the tables  *)
(* of init_phymm change shape.                                              *)
(***************************************************************************)
EXTENDS Boot

MCKernelEnds == {6, 7}

(* Kilobytes of a region that holds the image, the page of tables, n frames *)
(* and x more.                                                              *)
Room(n, x) == 16 + 4 * n + x

KernelRegions == {[base |-> 16, length |-> Room(n, x), type |-> 1] :
                    n \in {0, 1, 2, 11, 64, 65, 140}, x \in {2}}

MCEntryPool ==
  KernelRegions
    \cup {[base |-> 16, length |-> 14, type |-> 1],             \* the image and a bit
          [base |-> 0, length |-> 700, type |-> 1],             \* from 0 on
          [base |-> 0, length |-> 16, type |-> 1],              \* low memory
          [base |-> 610, length |-> 100, type |-> 1],           \* not on a page
          [base |-> 700, length |-> 8, type |-> 1],             \* smaller than the kernel
          [base |-> 800, length |-> 400, type |-> 1],           \* across 4 GB
          [base |-> 1024, length |-> 300, type |-> 1],          \* from 4 GB on
          [base |-> 1010, length |-> 16, type |-> 1],           \* a frame across 4 GB
          [base |-> 720, length |-> 40, type |-> 2]}            \* reserved

MCBehindPool == {[base |-> 0, length |-> 0, type |-> 0], [base |-> 16, length |-> 60, type |-> 1],
                 [base |-> 300, length |-> 100, type |-> 1]}

=============================================================================
