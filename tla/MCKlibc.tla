------------------------------ MODULE MCKlibc ------------------------------
(* The C library on a heap of the real sizes, and the text of numbers, with *)
(* halves of 8 bits.                                                        *)
EXTENDS Klibc, Sequences

LOCAL INSTANCE FiniteSetsExt
Seqs == INSTANCE SequencesExt

CONSTANTS
  Halves,     \* what either 32 bit half of a number may be
  HalfWord,   \* 2^32, the values of such a half
  MaxLost,    \* bound: bytes of absorbed headers, which grow without end
  Explored    \* bound: states with a larger heap are checked but not continued

(* The bytes of the heap that no block on the list accounts for.            *)
Lost    == heap.size - MapThenSumSet(LAMBDA a : EndOf(a) - a, Blocks)
FewLost == Lost <= MaxLost /\ heap.size <= Explored

-----------------------------------------------------------------------------
(* The text of a number: itoa's digits, and the characters of an address.   *)

(* The digits that the while loop of itoa produces, in its order.           *)
RECURSIVE LoopDigits(_, _)
LoopDigits(val, base) ==
  IF val = 0 THEN <<>> ELSE <<val % base>> \o LoopDigits(val \div base, base)

(* Fault: the upper half is converted first. *)
itoa_textUpper(upper, lower, base) ==
  IF upper = 0 /\ lower = 0 THEN <<0>>
  ELSE Seqs!Reverse(LoopDigits(upper, base) \o LoopDigits(lower, base))

(* The lower half is written right to left, the upper half before it.       *)
itoa_text(upper, lower, base) ==
  IF upper = 0 /\ lower = 0 THEN <<0>>
  ELSE Seqs!Reverse(LoopDigits(lower, base) \o LoopDigits(upper, base))

(* The two characters of get_mac_addr for a byte; past the end of a text is *)
(* the NUL, which ends the string.                                          *)
NUL == 0 - 1
MacPair(byte) ==
  LET s == itoa_text(0, byte, 16)
  IN  <<s[1], IF s[1] = 0 THEN 0 ELSE IF Len(s) = 1 THEN NUL ELSE s[2]>>

(* A number is printed right exactly when its upper half is zero or, in     *)
(* hexadecimal, its lower half has no leading zeros; a byte of a hardware   *)
(* address exactly when it is zero or has two digits.  No state matters, so *)
(* the first one is asked.                                                  *)
ValueOf(text, base) == Seqs!FoldLeft(LAMBDA acc, d : base * acc + d, 0, text)
TextRight == Ready /\ call.op = "none" =>
  /\ \A upper, lower \in Halves, base \in {10, 16} :
       ValueOf(itoa_text(upper, lower, base), base) = upper * HalfWord + lower
         <=> upper = 0 \/ (base = 16 /\ lower >= HalfWord \div 16)
  /\ \A byte \in 0 .. 255 :
       ValueOf(MacPair(byte), 16) = byte <=> byte = 0 \/ byte >= 16
=============================================================================
