------------------------------- MODULE MCIrq -------------------------------
(* Interrupts with a line of the master and the line of the slave that      *)
(* pic_noirqs leaves open.                                                  *)
EXTENDS Irq

MCLines        == {1, 9}
MCFaultVectors == {13, 14}
MCBiosMasks    == {{}, {0, 3, 4, 5, 7}}

(* Addresses above 2 GiB that differ in both halves.                        *)
MCIsrAddr == [isr \in Isrs |-> {31, 16 + (isr \div 8), isr % 8}]
=============================================================================
