-------------------------------- MODULE Vga --------------------------------
(***************************************************************************)
(* The text console, kernel/vga/vga.c: a cursor over a screen of Height     *)
(* rows and Width columns that scrolls, and the serial port that gets every *)
(* character too.                                                           *)
(*                                                                          *)
(* `log' is the paper a printer would have produced from the same           *)
(* characters: the same cells without an upper edge.  The console keeps no  *)
(* such thing; it says what the screen is a window on.                      *)
(***************************************************************************)
EXTENDS Serial

CONSTANTS
  Width,    \* VGA_WIDTH, 80
  Height,   \* VGA_HEIGHT, 25
  Glyphs,   \* the characters that are drawn
  Blank,    \* ' ', what vga_clear draws; not in Glyphs
  BootScreens,  \* what the boot loader may have left on the screen
  MaxLines  \* bound: lines printed since the screen was cleared

ASSUME VgaAssumption ==
  /\ Width \in Nat /\ Width > 4 /\ Height \in Nat /\ Height > 2
  /\ Blank \notin Glyphs /\ MaxLines \in Nat

VARIABLES
  started, \* "no", or how init_serial ended; "STUCK" is a failed port whose
           \* transmitter never reports that it is empty
  uart,    \* the serial port
  owed,    \* history: characters printed that the line has not carried yet
  screen,  \* VGA_BASE, a character per cell
  r, c,    \* vga_cursor_r, vga_cursor_c
  log      \* every line since the last vga_clear

console == <<screen, r, c, log>>
vars == <<started, uart, owed, console>>

Rows == 0 .. Height - 1
Cols == 0 .. Width - 1

BlankRow    == [x \in Cols |-> Blank]
BlankScreen == [y \in Rows |-> BlankRow]

ASSUME BootScreensAssumption == BootScreens \subseteq [Rows -> [Cols -> Glyphs \cup {Blank}]]

(* vga_set_char(y, x, ch) *)
vga_set_char(s, y, x, ch) == [s EXCEPT ![y] = [@ EXCEPT ![x] = ch]]

(* Fault: one row too few is moved.                                         *)
vga_scrolldownShort(s) == [y \in Rows |-> IF y < Height - 2 THEN s[y + 1] ELSE s[y]]

(* vga_scrolldown(1): memmove of the rows from 1 on to row 0; the last row  *)
(* keeps what it held.                                                      *)
vga_scrolldown(s) == [y \in Rows |-> IF y < Height - 1 THEN s[y + 1] ELSE s[y]]

-----------------------------------------------------------------------------
(* vga_putchar: what a character does to screen and cursor ...              *)

Control == {"\n", "\r", "\t"}

CursorAfter(ch) ==
  CASE ch = "\n" -> <<r + 1, c>>
    [] ch = "\r" -> <<r, 0>>
    [] ch = "\t" -> <<r, c + 4>>
    [] OTHER     -> <<r, c + 1>>

Drawn(ch) == IF ch \in Control THEN screen ELSE vga_set_char(screen, r, c, ch)

(* ... then a cursor past the right edge starts the next line ...           *)
Wrapped(p) == IF p[2] >= Width THEN <<p[1] + 1, 0>> ELSE p

(* Fault: the screen scrolls once the cursor has left it.                   *)
MustScrollLate(p) == p[1] >= Height

(* ... and one on the last row scrolls.                                     *)
MustScroll(p) == p[1] >= Height - 1

(* The line the cursor is on is the last of log.                            *)
LogDrawn(ch) ==
  IF ch \in Control THEN log ELSE [log EXCEPT ![Len(log)] = [@ EXCEPT ![c] = ch]]

Init ==
  /\ started = "no" /\ uart = Reset /\ owed = <<>>
  /\ screen \in BootScreens /\ r = 0 /\ c = 0 /\ log = <<BlankRow>>

Cleared == screen' = BlankScreen /\ r' = 0 /\ c' = 0 /\ log' = <<BlankRow>>

(* init_serial; kernel_init, and _kguard when it failed, clear the screen   *)
(* next.  _kguard prints to a port that failed its test just as well, which *)
(* may never be done: serial_putchar waits without a limit.                 *)
InitSerial ==
  /\ started = "no"
  /\ \E u \in {Tested, Faulty} :
       IF Passes(u) THEN started' = "OK" /\ uart' = init_serial(u)
                    ELSE started' \in {"FAILED_INIT", "STUCK"} /\ uart' = u
  /\ Cleared
  /\ UNCHANGED owed

(* The port puts a character on the line.                                   *)
UartSends ==
  /\ uart.thr # <<>> /\ owed # <<>>
  /\ uart' = [uart EXCEPT !.thr = Tail(@)] /\ owed' = Tail(owed)
  /\ UNCHANGED <<started, console>>

vga_putchar(ch) ==
  LET p == Wrapped(CursorAfter(ch))
  IN /\ started \notin {"no", "STUCK"} /\ is_transmit_empty(uart)
     /\ uart' = serial_putchar(uart, ch)
     /\ owed' = IF started = "OK" THEN Append(owed, ch) ELSE owed
     /\ Len(log) < MaxLines \/ p[1] = r
     /\ screen' = IF MustScroll(p) THEN vga_scrolldown(Drawn(ch)) ELSE Drawn(ch)
     /\ r' = IF MustScroll(p) THEN p[1] - 1 ELSE p[1]
     /\ c' = p[2]
     /\ log' = IF p[1] > r THEN Append(LogDrawn(ch), BlankRow) ELSE LogDrawn(ch)
     /\ UNCHANGED started

vga_clear ==
  /\ started # "no"
  /\ Cleared
  /\ UNCHANGED <<started, uart, owed>>

Next == InitSerial \/ UartSends \/ vga_clear \/ \E ch \in Glyphs \cup Control : vga_putchar(ch)

Spec == Init /\ [][Next]_vars

-----------------------------------------------------------------------------
(* Properties *)

(* The cursor is on the screen and never on its last row, so vga_set_char   *)
(* writes inside the text buffer.                                           *)
TypeOK ==
  /\ screen \in [Rows -> [Cols -> Glyphs \cup {Blank}]]
  /\ r \in 0 .. Height - 2 /\ c \in Cols

(* Whatever was printed, the screen shows the lines printed last, in order  *)
(* and complete: the cursor's line and as many before it as there are rows  *)
(* above it.  No line is scrolled off while a row is still unused, and the  *)
(* rows below the cursor are blank although vga_scrolldown clears no row.   *)
ShowsLog ==
  started # "no" =>
    /\ r < Len(log)
    /\ \A y \in 0 .. r : screen[y] = log[Len(log) - r + y]
    /\ r = Height - 2 \/ Len(log) = r + 1
    /\ \A y \in Rows : y > r => screen[y] = BlankRow

(* On a port that passed its test every character printed, and nothing      *)
(* else, goes out once, in order and at the speed that was programmed; one  *)
(* that failed it is left in loopback and its line stays silent.            *)
LineFaithful ==
  started # "no" =>
    uart.thr = owed /\ uart.divisor = 3 /\ uart.dlab = 0 /\ (uart.loop = 1 <=> started # "OK")

=============================================================================
