------------------------------- MODULE Screen -------------------------------
(***************************************************************************)
(* A character on the screen: fbcon_putc in the terminal window            *)
(* (gfx/fbcon.c) and vga_putc in text mode (drivers/vga.c), as functions   *)
(* of the screen.  A screen is its cells and the cursor of the console     *)
(* that shows it.  In text mode the cursor may be anywhere when vga_putc   *)
(* begins, because it interrupts another; cells outside are not shown.     *)
(***************************************************************************)
EXTENDS Integers, Sequences

CONSTANTS NL, CR, BS, TAB, SPACE, Cols, Rows, TAB_STOP

Blank == [c \in 1..Cols |-> SPACE]
Empty == [screen |-> [r \in 1..Rows |-> Blank], cx |-> 0, cy |-> 0]

TabStop(c) == ((c \div TAB_STOP) + 1) * TAB_STOP

\* fbcon.c

\* Mutant: at the bottom the cursor stays, and nothing is scrolled.
NewlineNoScroll(t) == [t EXCEPT !.cx = 0, !.cy = IF t.cy + 1 < Rows THEN t.cy + 1 ELSE Rows - 1]

newline(t) ==
  IF t.cy + 1 < Rows THEN [t EXCEPT !.cx = 0, !.cy = @ + 1]
  ELSE [screen |-> Append(Tail(t.screen), Blank), cx |-> 0, cy |-> Rows - 1]

fbcon_putc(t, c) ==
  LET moved == CASE c = CR -> [t EXCEPT !.cx = 0]
                 [] c = BS -> [t EXCEPT !.cx = IF @ > 0 THEN @ - 1 ELSE 0]
                 [] c = TAB -> [t EXCEPT !.cx = TabStop(@)]
                 [] OTHER -> [t EXCEPT !.screen[t.cy + 1][t.cx + 1] = c, !.cx = @ + 1]
  IN IF c = NL THEN newline(t) ELSE IF moved.cx >= Cols THEN newline(moved) ELSE moved

\* vga.c

Cell(row, col) == row * Cols + col
Put(s, cell, c) ==
  IF cell \in 0..Rows * Cols - 1 THEN [s EXCEPT ![(cell \div Cols) + 1][(cell % Cols) + 1] = c] ELSE s

vga_scroll(s) == Append(Tail(s), Blank)

vga_putc(t, c) ==
  LET wrapped(u) == IF u.cx >= Cols THEN [u EXCEPT !.cx = 0, !.cy = @ + 1] ELSE u
      next == CASE c = NL -> [t EXCEPT !.cx = 0, !.cy = @ + 1]
                [] c = CR -> [t EXCEPT !.cx = 0]
                [] c = BS /\ t.cx > 0 -> [t EXCEPT !.cx = @ - 1, !.screen = Put(@, Cell(t.cy, t.cx - 1), SPACE)]
                [] c = BS /\ t.cx <= 0 -> t
                [] c = TAB -> wrapped([t EXCEPT !.cx = TabStop(@)])
                [] OTHER -> wrapped([t EXCEPT !.cx = @ + 1, !.screen = Put(@, Cell(t.cy, t.cx), c)])
  IN IF next.cy >= Rows THEN [screen |-> vga_scroll(next.screen), cx |-> 0, cy |-> Rows - 1] ELSE next
=============================================================================
