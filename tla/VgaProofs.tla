------------------------------ MODULE VgaProofs ------------------------------
(***************************************************************************)
(* Proofs about the text console and its serial port: the screen is a       *)
(* window on everything printed since it was cleared, and the line carries  *)
(* every character.                                                         *)
(***************************************************************************)
EXTENDS Vga, TLAPS

(* The UART, field by field.                                                *)
Uart(d, v, l, t, x) == [dlab |-> d, divisor |-> v, loop |-> l, thr |-> t, rx |-> x]

(* What the seven writes of init_serial leave: divisor 3, the divisor latch *)
(* closed again.                                                            *)
LEMMA ProgrammedUart == Programmed = Uart(0, 3, 0, <<>>, 0)
<1>1. Out1(Reset, 0) = Uart(0, 12, 0, <<>>, 0)
  BY DEF Out1, Reset, Uart
<1>2. Out3(Uart(0, 12, 0, <<>>, 0), 128) = Uart(1, 12, 0, <<>>, 0)
  <2>1. Bit(128, 128) = 1
    BY DEF Bit
  <2> QED
    BY <2>1 DEF Out3, Uart
<1>3. Out0(Uart(1, 12, 0, <<>>, 0), 3) = Uart(1, 3, 0, <<>>, 0)
  BY DEF Out0, Uart
<1>4. Out1(Uart(1, 3, 0, <<>>, 0), 0) = Uart(1, 3, 0, <<>>, 0)
  BY DEF Out1, Uart
<1>5. Out3(Uart(1, 3, 0, <<>>, 0), 3) = Uart(0, 3, 0, <<>>, 0)
  <2>1. Bit(3, 128) = 0
    BY DEF Bit
  <2> QED
    BY <2>1 DEF Out3, Uart
<1>6. Out2(Uart(0, 3, 0, <<>>, 0), 199) = Uart(0, 3, 0, <<>>, 0)
  BY DEF Out2
<1>7. Out4(Uart(0, 3, 0, <<>>, 0), 11) = Uart(0, 3, 0, <<>>, 0)
  <2>1. Bit(11, 16) = 0
    BY DEF Bit
  <2> QED
    BY <2>1 DEF Out4, Uart
<1> QED
  BY <1>1, <1>2, <1>3, <1>4, <1>5, <1>6, <1>7 DEF Programmed

(* The port after the loopback test, on a good chip, on a bad one, and in   *)
(* normal operation.                                                        *)
LEMMA TestedUart ==
  /\ Tested = Uart(0, 3, 1, <<>>, 174) /\ Faulty = Uart(0, 3, 1, <<>>, 0)
  /\ init_serial(Tested) = Uart(0, 3, 0, <<>>, 174)
<1>0. Bit(30, 16) = 1 /\ Bit(15, 16) = 0
  BY DEF Bit
<1>1. Out4(Programmed, 30) = Uart(0, 3, 1, <<>>, 0)
  BY <1>0, ProgrammedUart DEF Out4, Uart
<1>2. Tested = Uart(0, 3, 1, <<>>, 174)
  <2>1. Out0(Uart(0, 3, 1, <<>>, 0), 174) = Uart(0, 3, 1, <<>>, 174)
    BY DEF Out0, Transmit, Uart
  <2> QED
    BY <1>1, <2>1 DEF Tested
<1>3. Faulty = Uart(0, 3, 1, <<>>, 0)
  BY <1>2 DEF Faulty, Uart
<1>4. init_serial(Tested) = Uart(0, 3, 0, <<>>, 174)
  BY <1>0, <1>2 DEF init_serial, Out4, Uart
<1> QED
  BY <1>2, <1>3, <1>4

(* Only the transmitter's queue changes.                                    *)
LEMMA QueueChanges ==
  ASSUME NEW x, NEW o, NEW m
  PROVE  [Uart(0, 3, 0, o, x) EXCEPT !.thr = m] = Uart(0, 3, 0, m, x) /\ Uart(0, 3, 0, o, x).thr = o
  BY DEF Uart

(* The port holds what the line still owes; one that failed its test is in  *)
(* loopback and owes nothing.                                               *)
LineOK(s, u, o) ==
  /\ s \in {"no", "OK", "FAILED_INIT", "STUCK"} /\ o \in Seq(Glyphs \cup Control)
  /\ s = "no" => o = <<>>
  /\ s = "OK" => u = Uart(0, 3, 0, o, u.rx)
  /\ s \in {"FAILED_INIT", "STUCK"} => o = <<>> /\ u = Uart(0, 3, 1, <<>>, u.rx)

(* The inductive invariant of the serial port.                              *)
LineInv == LineOK(started, uart, owed)

(* serial_putchar waits until the transmitter is empty, so the character    *)
(* always finds room.                                                       *)
LEMMA PutcharLine ==
  ASSUME LineInv, NEW ch \in Glyphs \cup Control, vga_putchar(ch) PROVE LineInv'
<1>1. started' = started /\ started \notin {"no", "STUCK"} /\ uart.thr = <<>> /\ uart' = Out0(uart, ch)
      /\ owed' = IF started = "OK" THEN Append(owed, ch) ELSE owed
  BY DEF vga_putchar, is_transmit_empty, serial_putchar
<1>2. CASE started = "OK"
  <2>1. owed \in Seq(Glyphs \cup Control) /\ uart = Uart(0, 3, 0, owed, uart.rx)
    BY <1>2 DEF LineInv, LineOK
  <2>2. owed = <<>>
    BY <1>1, <2>1 DEF Uart
  <2>3. uart' = Transmit(uart, ch)
    BY <1>1, <2>1 DEF Out0, Uart
  <2>4. Len(uart.thr) < UartDepth
    BY <1>1, SerialAssumption
  <2>5. uart' = [uart EXCEPT !.thr = Append(uart.thr, ch)]
    BY <2>1, <2>3, <2>4 DEF Transmit, Uart
  <2>6. uart' = Uart(0, 3, 0, Append(owed, ch), uart.rx)
    <3> DEFINE x == uart.rx
    <3>1. uart = Uart(0, 3, 0, owed, x)
      BY <2>1
    <3> HIDE DEF x
    <3>2. uart' = Uart(0, 3, 0, Append(owed, ch), x)
      BY <2>5, <3>1, QueueChanges
    <3> QED
      BY <3>2 DEF x
  <2>7. uart'.rx = uart.rx
    BY <2>6 DEF Uart
  <2> QED
    BY <1>1, <1>2, <2>1, <2>6, <2>7 DEF LineInv, LineOK
<1>3. CASE started = "FAILED_INIT"
  <2>1. owed = <<>> /\ uart = Uart(0, 3, 1, <<>>, uart.rx)
    BY <1>3 DEF LineInv, LineOK
  <2>3. uart' = Transmit(uart, ch)
    BY <1>1, <2>1 DEF Out0, Uart
  <2>4. uart' = Uart(0, 3, 1, <<>>, ch)
    BY <2>1, <2>3 DEF Transmit, Uart
  <2>5. uart'.rx = ch
    BY <2>4 DEF Uart
  <2> QED
    BY <1>1, <1>3, <2>1, <2>4, <2>5 DEF LineInv, LineOK
<1> QED
  BY <1>1, <1>2, <1>3 DEF LineInv, LineOK

(* Every step keeps it.                                                     *)
LEMMA NextLine == ASSUME LineInv, [Next]_vars PROVE LineInv'
<1>1. CASE InitSerial
  <2>1. PICK u \in {Tested, Faulty} :
          IF Passes(u) THEN started' = "OK" /\ uart' = init_serial(u)
                       ELSE started' \in {"FAILED_INIT", "STUCK"} /\ uart' = u
    BY <1>1 DEF InitSerial
  <2>2. owed' = <<>>
    BY <1>1 DEF InitSerial, LineInv, LineOK
  <2>3. CASE u = Tested
    <3>1. Passes(u)
      BY <2>3, TestedUart DEF Passes, Uart
    <3>2. started' = "OK" /\ uart' = Uart(0, 3, 0, <<>>, 174)
      BY <2>1, <2>3, <3>1, TestedUart
    <3>3. uart'.rx = 174
      BY <3>2 DEF Uart
    <3> QED
      BY <2>2, <3>2, <3>3 DEF LineInv, LineOK
  <2>4. CASE u = Faulty
    <3>1. ~Passes(u)
      BY <2>4, TestedUart DEF Passes, Uart
    <3>2. started' \in {"FAILED_INIT", "STUCK"} /\ uart' = Uart(0, 3, 1, <<>>, 0)
      BY <2>1, <2>4, <3>1, TestedUart
    <3>3. uart'.rx = 0
      BY <3>2 DEF Uart
    <3> QED
      BY <2>2, <3>2, <3>3 DEF LineInv, LineOK
  <2> QED
    BY <2>1, <2>3, <2>4
<1>2. CASE UartSends
  <2>1. /\ owed # <<>> /\ uart' = [uart EXCEPT !.thr = Tail(uart.thr)] /\ owed' = Tail(owed)
        /\ started' = started
    BY <1>2 DEF UartSends
  <2>2. started = "OK" /\ uart = Uart(0, 3, 0, owed, uart.rx) /\ owed \in Seq(Glyphs \cup Control)
    BY <2>1 DEF LineInv, LineOK
  <2>3. Tail(owed) \in Seq(Glyphs \cup Control)
    BY <2>1, <2>2
  <2>4. uart' = Uart(0, 3, 0, Tail(owed), uart.rx)
    <3> DEFINE x == uart.rx
    <3>1. uart = Uart(0, 3, 0, owed, x)
      BY <2>2
    <3> HIDE DEF x
    <3>2. uart' = Uart(0, 3, 0, Tail(owed), x)
      BY <2>1, <3>1, QueueChanges
    <3> QED
      BY <3>2 DEF x
  <2>5. uart'.rx = uart.rx
    BY <2>4 DEF Uart
  <2> QED
    BY <2>1, <2>2, <2>3, <2>4, <2>5 DEF LineInv, LineOK
<1>3. CASE vga_clear \/ UNCHANGED vars
  BY <1>3 DEF vga_clear, vars, LineInv, LineOK
<1>4. CASE \E ch \in Glyphs \cup Control : vga_putchar(ch)
  BY <1>4, PutcharLine
<1> QED
  BY <1>1, <1>2, <1>3, <1>4 DEF Next

(* For any depth of the transmitter and any text, every character reaches   *)
(* the line once and in order.                                              *)
THEOREM LineKeepsUp == Spec => []LineFaithful
<1>1. Init => LineInv
  BY DEF Init, LineInv, LineOK
<1>2. LineInv /\ [Next]_vars => LineInv'
  BY NextLine
<1>3. LineInv => LineFaithful
  BY DEF LineInv, LineOK, LineFaithful, Uart
<1> QED
  BY <1>1, <1>2, <1>3, PTL DEF Spec

-----------------------------------------------------------------------------

(* What a cell shows.                                                       *)
Cells == Glyphs \cup {Blank}
(* The contents of a row.                                                   *)
Lines == [Cols -> Cells]

(* Types: the cursor is on the screen above its last row, and log has a     *)
(* line for every row up to the cursor's.                                   *)
ScreenOK(s, y, x, l) ==
  /\ s \in [Rows -> Lines] /\ y \in 0 .. Height - 2 /\ x \in Cols
  /\ l \in Seq(Lines) /\ y < Len(l)

(* The rows up to the cursor are the last lines of log, the ones below it   *)
(* are blank.                                                               *)
Shows(s, y, l) ==
  /\ \A z \in 0 .. y : s[z] = l[Len(l) - y + z]
  /\ y = Height - 2 \/ Len(l) = y + 1
  /\ \A z \in Rows : z > y => s[z] = BlankRow

(* The inductive invariant of the screen.  That the rows below the cursor   *)
(* are blank is what makes a scroll, which clears nothing, show an empty    *)
(* line.                                                                    *)
ScreenInv == ScreenOK(screen, r, c, log) /\ (started # "no" => Shows(screen, r, log))

(* Rows, columns and a blank row.                                           *)
LEMMA Numbers ==
  /\ Width \in Nat /\ Width > 4 /\ Height \in Nat /\ Height > 2
  /\ \A y : y \in Rows <=> y \in Nat /\ y < Height
  /\ \A x : x \in Cols <=> x \in Nat /\ x < Width
  /\ BlankRow \in Lines
  BY VgaAssumption DEF Rows, Cols, BlankRow, Lines, Cells

(* A cleared screen shows an empty page.                                    *)
LEMMA BlankScreenInv == ScreenOK(BlankScreen, 0, 0, <<BlankRow>>) /\ Shows(BlankScreen, 0, <<BlankRow>>)
<1>1. BlankScreen \in [Rows -> Lines] /\ \A y \in Rows : BlankScreen[y] = BlankRow
  BY Numbers DEF BlankScreen
<1>2. 0 \in 0 .. Height - 2 /\ 0 \in Cols /\ 0 \in Rows
  BY Numbers
<1>3. <<BlankRow>> \in Seq(Lines) /\ Len(<<BlankRow>>) = 1 /\ <<BlankRow>>[1] = BlankRow
  BY Numbers
<1>4. \A z \in 0 .. 0 : BlankScreen[z] = <<BlankRow>>[1 - 0 + z]
  BY <1>1, <1>2, <1>3
<1> QED
  BY <1>1, <1>2, <1>3, <1>4 DEF ScreenOK, Shows

(* vga_set_char changes the same cell of the screen and of the page.        *)
LEMMA Drawing ==
  ASSUME ScreenInv, started # "no", NEW ch \in Glyphs \cup Control
  PROVE  /\ ScreenOK(Drawn(ch), r, c, LogDrawn(ch)) /\ Shows(Drawn(ch), r, LogDrawn(ch))
         /\ Len(LogDrawn(ch)) = Len(log)
<1>1. CASE ch \in Control
  BY <1>1 DEF ScreenInv, Drawn, LogDrawn
<1>2. CASE ch \notin Control
  <2> DEFINE n == Len(log)
             line == [log[n] EXCEPT ![c] = ch]
  <2>1. /\ screen \in [Rows -> Lines] /\ r \in 0 .. Height - 2 /\ c \in Cols
        /\ log \in Seq(Lines) /\ r < n /\ n \in Nat
    BY DEF ScreenInv, ScreenOK
  <2>2. r \in Rows /\ r \in Nat /\ 0 \in 0 .. r /\ r \in 0 .. r
    BY <2>1, Numbers
  <2>3. /\ \A z \in 0 .. r : screen[z] = log[n - r + z]
        /\ r = Height - 2 \/ n = r + 1
        /\ \A z \in Rows : z > r => screen[z] = BlankRow
    BY DEF ScreenInv, Shows
  <2>4. screen[r] = log[n]
    <3>1. n - r + r = n
      BY <2>1, <2>2
    <3> QED
      BY <2>2, <2>3, <3>1
  <2>5. log[n] \in Lines /\ ch \in Cells
    BY <1>2, <2>1, <2>2 DEF Cells
  <2>6. line \in Lines
    BY <2>1, <2>5 DEF Lines
  <2>7. Drawn(ch) = [screen EXCEPT ![r] = line]
    BY <1>2, <2>1, <2>2, <2>4 DEF Drawn, vga_set_char
  <2>8. LogDrawn(ch) = [log EXCEPT ![n] = line]
    BY <1>2 DEF LogDrawn
  <2> HIDE DEF line
  <2>9. /\ Drawn(ch) \in [Rows -> Lines] /\ Drawn(ch)[r] = line
        /\ \A z \in Rows : z # r => Drawn(ch)[z] = screen[z]
    BY <2>1, <2>2, <2>6, <2>7
  <2>10. /\ LogDrawn(ch) \in Seq(Lines) /\ Len(LogDrawn(ch)) = n /\ LogDrawn(ch)[n] = line
         /\ \A i \in 1 .. n : i # n => LogDrawn(ch)[i] = log[i]
    BY <2>1, <2>2, <2>6, <2>8
  <2> HIDE DEF n
  <2>11. ASSUME NEW z \in 0 .. r PROVE Drawn(ch)[z] = LogDrawn(ch)[n - r + z]
    <3>1. z \in Rows /\ n - r + z \in 1 .. n /\ (n - r + z = n <=> z = r)
      BY <2>1, <2>2, Numbers
    <3> QED
      BY <2>3, <2>9, <2>10, <3>1
  <2>12. ASSUME NEW z \in Rows, z > r PROVE Drawn(ch)[z] = BlankRow
    <3>1. z # r
      BY <2>2, <2>12, Numbers
    <3> QED
      BY <2>3, <2>9, <2>12, <3>1
  <2> QED
    BY <2>1, <2>3, <2>9, <2>10, <2>11, <2>12 DEF ScreenOK, Shows, n
<1> QED
  BY <1>1, <1>2

(* A character moves the cursor by at most one row, and a wrap leaves it in *)
(* the first column: a tab at the right edge does not pass over a row.      *)
LEMMA CursorMoves ==
  ASSUME ScreenInv, NEW ch \in Glyphs \cup Control
  PROVE  LET p == Wrapped(CursorAfter(ch)) IN (p[1] = r \/ p[1] = r + 1) /\ p[2] \in Cols
<1>1. r \in Nat /\ c \in Nat /\ c < Width
  BY Numbers DEF ScreenInv, ScreenOK
<1> DEFINE q == CursorAfter(ch)
<1>2. q = <<r + 1, c>> \/ q = <<r, 0>> \/ q = <<r, c + 4>> \/ q = <<r, c + 1>>
  BY DEF CursorAfter
<1> HIDE DEF q
<1>3. \/ q[1] = r + 1 /\ q[2] = c
      \/ q[1] = r /\ q[2] \in Nat
  BY <1>1, <1>2
<1>4. CASE q[2] >= Width
  <2>1. Wrapped(q) = <<q[1] + 1, 0>>
    BY <1>4 DEF Wrapped
  <2>2. q[1] = r
    BY <1>1, <1>3, <1>4, Numbers
  <2> QED
    BY <2>1, <2>2, Numbers DEF q
<1>5. CASE ~(q[2] >= Width)
  <2>1. Wrapped(q) = q
    BY <1>5 DEF Wrapped
  <2>2. q[2] \in Cols
    BY <1>1, <1>3, <1>5, Numbers
  <2> QED
    BY <1>3, <2>1, <2>2 DEF q
<1> QED
  BY <1>4, <1>5

(* A new line either moves the cursor down or scrolls; both leave it on an  *)
(* empty row.                                                               *)
LEMMA LineFed ==
  ASSUME NEW s, NEW l, NEW x \in Cols, NEW d \in Cols, ScreenOK(s, r, x, l), Shows(s, r, l)
  PROVE  LET g == Append(l, BlankRow)
             t == IF r + 1 >= Height - 1 THEN vga_scrolldown(s) ELSE s
             y == IF r + 1 >= Height - 1 THEN r ELSE r + 1
         IN ScreenOK(t, y, d, g) /\ Shows(t, y, g)
<1> DEFINE n == Len(l)
           g == Append(l, BlankRow)
<1>1. /\ s \in [Rows -> Lines] /\ r \in 0 .. Height - 2 /\ r \in Nat
      /\ l \in Seq(Lines) /\ r < n /\ n \in Nat
  BY Numbers DEF ScreenOK
<1>2. /\ \A z \in 0 .. r : s[z] = l[n - r + z]
      /\ r = Height - 2 \/ n = r + 1
      /\ \A z \in Rows : z > r => s[z] = BlankRow
  BY DEF Shows
<1>3. g \in Seq(Lines) /\ Len(g) = n + 1 /\ g[n + 1] = BlankRow /\ \A i \in 1 .. n : g[i] = l[i]
  BY <1>1, Numbers
<1> HIDE DEF n, g
<1>4. CASE r + 1 >= Height - 1
  <2> DEFINE t == vga_scrolldown(s)
  <2>0. r = Height - 2
    BY <1>1, <1>4, Numbers
  <2>1. /\ \A z \in Rows : t[z] = IF z < Height - 1 THEN s[z + 1] ELSE s[z]
        /\ t = [z \in Rows |-> IF z < Height - 1 THEN s[z + 1] ELSE s[z]]
    BY DEF vga_scrolldown
  <2>2. t \in [Rows -> Lines]
    <3>1. \A z \in Rows : z < Height - 1 => z + 1 \in Rows
      BY Numbers
    <3> QED
      BY <1>1, <2>1, <3>1
  <2> HIDE DEF t
  <2>3. ASSUME NEW z \in 0 .. r PROVE t[z] = g[(n + 1) - r + z]
    <3>0. z \in Rows /\ z < Height - 1 /\ z + 1 \in Rows
      BY <1>1, <2>0, Numbers
    <3>1. z \in Rows /\ z < Height - 1 /\ z + 1 \in Rows /\ t[z] = s[z + 1]
      BY <2>1, <3>0
    <3>2. CASE z < r
      <4>1. z + 1 \in 0 .. r /\ n - r + (z + 1) \in 1 .. n /\ (n + 1) - r + z = n - r + (z + 1)
        BY <1>1, <3>2
      <4> QED
        BY <1>2, <1>3, <3>1, <4>1
    <3>3. CASE z = r
      <4>1. z + 1 > r /\ (n + 1) - r + z = n + 1
        BY <1>1, <3>3
      <4> QED
        BY <1>2, <1>3, <3>1, <4>1
    <3> QED
      BY <1>1, <3>2, <3>3
  <2>4. ASSUME NEW z \in Rows, z > r PROVE t[z] = BlankRow
    <3>1. ~(z < Height - 1)
      BY <2>0, <2>4, Numbers
    <3> QED
      BY <1>2, <2>1, <2>4, <3>1
  <2>5. r < n + 1
    BY <1>1
  <2>6. ScreenOK(t, r, d, g)
    BY <1>1, <1>3, <2>2, <2>5 DEF ScreenOK
  <2>7. Shows(t, r, g)
    <3>1. \A z \in 0 .. r : t[z] = g[Len(g) - r + z]
      <4>1. Len(g) = n + 1
        BY <1>3
      <4> QED
        BY <2>3, <4>1
    <3> QED
      BY <2>0, <2>4, <3>1 DEF Shows
  <2> QED
    BY <1>4, <2>6, <2>7 DEF t, g
<1>5. CASE ~(r + 1 >= Height - 1)
  <2>0. n = r + 1 /\ r + 1 \in 0 .. Height - 2 /\ r + 1 \in Rows /\ r + 1 < n + 1
    BY <1>1, <1>2, <1>5, Numbers
  <2>1. ASSUME NEW z \in 0 .. r + 1 PROVE s[z] = g[(n + 1) - (r + 1) + z]
    <3>1. CASE z \in 0 .. r
      <4>1. (n + 1) - (r + 1) + z = n - r + z /\ n - r + z \in 1 .. n
        BY <1>1, <3>1
      <4> QED
        BY <1>2, <1>3, <3>1, <4>1
    <3>2. CASE z = r + 1
      <4>1. z > r /\ z \in Rows /\ (n + 1) - (r + 1) + z = n + 1
        BY <1>1, <2>0, <3>2
      <4> QED
        BY <1>2, <1>3, <4>1
    <3> QED
      BY <1>1, <3>1, <3>2
  <2>2. ASSUME NEW z \in Rows, z > r + 1 PROVE s[z] = BlankRow
    BY <1>1, <1>2, <2>2, Numbers
  <2>3. n + 1 = (r + 1) + 1
    BY <2>0
  <2>4. ScreenOK(s, r + 1, d, g)
    BY <1>1, <1>3, <2>0 DEF ScreenOK
  <2>5. Shows(s, r + 1, g)
    <3>1. \A z \in 0 .. r + 1 : s[z] = g[Len(g) - (r + 1) + z]
      <4>1. Len(g) = n + 1
        BY <1>3
      <4> QED
        BY <2>1, <4>1
    <3>2. Len(g) = (r + 1) + 1
      BY <1>3, <2>3
    <3> QED
      BY <2>2, <3>1, <3>2 DEF Shows
  <2> QED
    BY <1>5, <2>4, <2>5 DEF g
<1> QED
  BY <1>4, <1>5

(* vga_putchar draws, moves and scrolls.                                    *)
LEMMA PutcharScreen ==
  ASSUME ScreenInv, NEW ch \in Glyphs \cup Control, vga_putchar(ch) PROVE ScreenInv'
<1> DEFINE p == Wrapped(CursorAfter(ch))
           s == Drawn(ch)
           l == LogDrawn(ch)
<1>1. /\ screen' = IF p[1] >= Height - 1 THEN vga_scrolldown(s) ELSE s
      /\ r' = IF p[1] >= Height - 1 THEN p[1] - 1 ELSE p[1]
      /\ c' = p[2]
      /\ log' = IF p[1] > r THEN Append(l, BlankRow) ELSE l
  BY DEF vga_putchar, MustScroll
<1>2. (p[1] = r \/ p[1] = r + 1) /\ p[2] \in Cols
  BY CursorMoves
<1>3. ScreenOK(s, r, c, l) /\ Shows(s, r, l)
  BY Drawing DEF vga_putchar
<1>4. r \in 0 .. Height - 2 /\ r \in Nat /\ c \in Cols
  BY Numbers DEF ScreenInv, ScreenOK
<1> HIDE DEF p, s, l
<1>5. CASE p[1] = r
  <2>1. ~(p[1] >= Height - 1) /\ ~(p[1] > r)
    BY <1>4, <1>5, Numbers
  <2>2. screen' = s /\ r' = r /\ c' = p[2] /\ log' = l
    BY <1>1, <1>5, <2>1
  <2> QED
    BY <1>2, <1>3, <2>2 DEF ScreenInv, ScreenOK
<1>6. CASE p[1] = r + 1
  <2> DEFINE g == Append(l, BlankRow)
             t == IF r + 1 >= Height - 1 THEN vga_scrolldown(s) ELSE s
             y == IF r + 1 >= Height - 1 THEN r ELSE r + 1
  <2>1. ScreenOK(t, y, p[2], g) /\ Shows(t, y, g)
    BY <1>2, <1>3, <1>4, LineFed
  <2>2. screen' = t /\ c' = p[2]
    BY <1>1, <1>6
  <2>3. r' = y
    BY <1>1, <1>4, <1>6
  <2>4. log' = g
    BY <1>1, <1>4, <1>6
  <2> HIDE DEF g, t, y
  <2> QED
    BY <2>1, <2>2, <2>3, <2>4 DEF ScreenInv
<1> QED
  BY <1>2, <1>5, <1>6

(* Every step keeps the invariant.                                          *)
LEMMA NextScreen == ASSUME ScreenInv, [Next]_vars PROVE ScreenInv'
<1>1. CASE UNCHANGED <<started, console>>
  BY <1>1 DEF console, ScreenInv
<1>2. CASE vga_clear \/ InitSerial
  BY <1>2, BlankScreenInv DEF vga_clear, InitSerial, Cleared, ScreenInv
<1>3. CASE \E ch \in Glyphs \cup Control : vga_putchar(ch)
  BY <1>3, PutcharScreen
<1> QED
  BY <1>1, <1>2, <1>3 DEF Next, UartSends, vars

(* The invariant always holds.                                              *)
THEOREM InvariantHolds == Spec => []ScreenInv
<1>1. Init => ScreenInv
  BY BlankScreenInv, BootScreensAssumption DEF Init, ScreenInv, ScreenOK, Lines, Cells
<1>2. ScreenInv /\ [Next]_vars => ScreenInv'
  BY NextScreen
<1> QED
  BY <1>1, <1>2, PTL DEF Spec

(* For any size of screen above the smallest, vga_set_char never writes     *)
(* outside the text buffer.                                                 *)
THEOREM CursorOnScreen == Spec => []TypeOK
<1>1. ScreenInv => TypeOK
  BY DEF ScreenInv, ScreenOK, TypeOK, Lines, Cells
<1> QED
  BY <1>1, InvariantHolds, PTL

(* For any size of screen and any text, the screen shows exactly the lines  *)
(* printed last.                                                            *)
THEOREM ScreenShowsLog == Spec => []ShowsLog
<1>1. ScreenInv => ShowsLog
  BY DEF ScreenInv, ScreenOK, Shows, ShowsLog
<1> QED
  BY <1>1, InvariantHolds, PTL

=============================================================================
