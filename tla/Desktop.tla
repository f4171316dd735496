------------------------------ MODULE Desktop -------------------------------
(***************************************************************************)
(* The desktop between two polls of the shell (gui/desktop.c): the mouse   *)
(* (drivers/mouse.c), the pointer and the clock drawn through the back     *)
(* buffer (gfx/gfx.c), and rtc_read, in module Rtc.                        *)
(*                                                                         *)
(* desktop_tick runs in the shell with interrupts on.  The mouse's         *)
(* interrupt delivers one byte of a packet, the keyboard's draws a         *)
(* character of the console; both run whole, between two steps of          *)
(* desktop_tick's.  Bytes are kept as far as the handler looks at them:    *)
(* bit 3, the signs and the overflow bits of the first, the movements of   *)
(* the others.                                                             *)
(***************************************************************************)
EXTENDS Rtc

CONSTANTS
  W, H, CUR_W, CUR_H,  \* the screen and the pointer, in pixels
  Console, Clock,      \* the pixels of the console window and of the clock
  Moves,               \* movements <<dx, dy>> the mouse may report, y upward
  BYTE,                \* 256
  MaxMoves, MaxChars   \* bounds: movements, and characters echoed

VARIABLES
  mx, my, mchanged, packet,  \* the driver: position, changed flag, bytes of a packet
  wire,                      \* bytes the mouse has yet to hand over
  sent, drawn,               \* movements reported and characters echoed so far
  lost,                      \* ghost: a byte has been lost
  want,                      \* ghost: where the movements reported lead
  back, front,               \* the two buffers
  cur, cur_on,               \* cur and cur_y
  dpc, m, last_second        \* desktop_tick: where it is, and its copy of the position

mouseVars == <<mx, my, mchanged, packet, wire, sent, lost, want>>
gfxVars == <<back, front, cur, cur_on>>
vars == <<rtcVars, mouseVars, gfxVars, drawn, dpc, m, last_second>>

Pixels == (0..W - 1) \X (0..H - 1)

ASSUME ScreenAssumption ==
  W \in Nat \ {0} /\ H \in Nat \ {0} /\ Console \subseteq Pixels /\ Clock \subseteq Pixels
ASSUME MouseAssumption == BYTE \in Nat \ {0} /\ Moves \subseteq Int \X Int

\* What desktop_init, at some second, and mouse_init have left.
Init ==
  /\ RtcInit
  /\ mx = W \div 2 /\ my = H \div 2 /\ mchanged = TRUE /\ packet = <<>> /\ wire = <<>>
  /\ sent = 0 /\ drawn = 0 /\ lost = FALSE /\ want = <<W \div 2, H \div 2>>
  /\ back = [p \in Pixels |-> IF p \in Clock THEN "digits" ELSE "paper"] /\ front = back /\ cur = <<0, 0>> /\ cur_on = FALSE
  /\ dpc = "hlt" /\ m = <<0, 0>> /\ last_second \in 0..SECONDS - 1

-----------------------------------------------------------------------------
\* The mouse.

\* External: a movement as it is sent.  The first byte has bit 3 set, the signs,
\* and a flag for a movement that does not fit in nine bits; the others are the
\* movements' low bits, whatever bit 3 of them is.
Fits(d) == -BYTE <= d /\ d < BYTE
FirstByte(d) ==
  [bit3 |-> TRUE, xneg |-> d[1] < 0, yneg |-> d[2] < 0, overflow |-> ~(Fits(d[1]) /\ Fits(d[2])), move |-> 0]
MoveByte(d) ==
  [bit3 |-> ((d % BYTE) \div 8) % 2 = 1, xneg |-> FALSE, yneg |-> FALSE, overflow |-> FALSE, move |-> d % BYTE]
\* The place on the screen a movement to x leads to: x, or the edge it goes beyond.
Within(x, n) == CHOOSE y \in 0..n - 1 : (x < y => y = 0) /\ (x > y => y = n - 1)

MouseMoves ==
  /\ wire = <<>> /\ sent < MaxMoves /\ sent' = sent + 1
  /\ \E d \in Moves :
       /\ wire' = <<FirstByte(d), MoveByte(d[1]), MoveByte(d[2])>>
       /\ want' = IF FirstByte(d).overflow THEN want
                  ELSE <<Within(want[1] + d[1], W), Within(want[2] - d[2], H)>>
  /\ UNCHANGED <<rtcVars, mx, my, mchanged, packet, lost, gfxVars, drawn, dpc, m, last_second>>

\* External: the controller's buffer is overwritten before the interrupt is taken.
\* One loss is enough to put the driver out of step.
ByteLost ==
  /\ ~lost /\ wire # <<>> /\ wire' = Tail(wire) /\ lost' = TRUE
  /\ UNCHANGED <<rtcVars, mx, my, mchanged, packet, sent, want, gfxVars, drawn, dpc, m, last_second>>

\* Mutant: the movement keeps eight bits.
DeltaUnsigned(neg, move) == move

Delta(neg, move) == move - (IF neg THEN BYTE ELSE 0)

Clamp(x, n) == IF x < 0 THEN 0 ELSE IF x >= n THEN n - 1 ELSE x

\* mouse_handle_irq: a byte that cannot begin a packet is dropped; a packet with
\* an overflow is discarded; the others move the pointer, within the screen.
mouse_handle_irq ==
  LET bytes == Append(packet, Head(wire))
      first == bytes[1]
  IN /\ wire # <<>> /\ wire' = Tail(wire)
     /\ IF packet = <<>> /\ ~first.bit3 THEN UNCHANGED <<packet, mx, my, mchanged>>
        ELSE IF Len(bytes) < 3 THEN packet' = bytes /\ UNCHANGED <<mx, my, mchanged>>
        ELSE /\ packet' = <<>>
             /\ IF first.overflow THEN UNCHANGED <<mx, my, mchanged>>
                ELSE /\ mx' = Clamp(mx + Delta(first.xneg, bytes[2].move), W)
                     /\ my' = Clamp(my - Delta(first.yneg, bytes[3].move), H)
                     /\ mchanged' = TRUE
     /\ UNCHANGED <<rtcVars, sent, lost, want, gfxVars, drawn, dpc, m, last_second>>

-----------------------------------------------------------------------------
\* gfx_present of some pixels, and the pointer on top of them.

Under(c) == {p \in Pixels : p[1] \in c[1]..c[1] + CUR_W - 1 /\ p[2] \in c[2]..c[2] + CUR_H - 1}
Pointer(c, on) == IF on THEN Under(c) ELSE {}

gfx_present(f, bk, P, c, on) ==
  [p \in Pixels |-> IF p \in P \cap Pointer(c, on) THEN "pointer" ELSE IF p \in P THEN bk[p] ELSE f[p]]

\* The keyboard's interrupt: fbcon_putc draws and presents a cell of the console.
fbcon_putc ==
  /\ drawn < MaxChars /\ drawn' = drawn + 1
  /\ \E p \in Console :
       /\ back' = [back EXCEPT ![p] = "char"]
       /\ front' = gfx_present(front, back', {p}, cur, cur_on)
  /\ UNCHANGED <<rtcVars, mouseVars, cur, cur_on, dpc, m, last_second>>

-----------------------------------------------------------------------------
\* desktop_tick.

At(k, next) == dpc = k /\ dpc' = next

\* Mutant: mchanged is cleared after interrupts are on again.
PollThenClear ==
  \/ At("hlt", "clear") /\ m' = <<mx, my>> /\ UNCHANGED <<rtcVars, mouseVars, gfxVars, drawn, last_second>>
  \/ /\ At("clear", IF mchanged THEN "cursor" ELSE "rtc") /\ mchanged' = FALSE
     /\ UNCHANGED <<rtcVars, mx, my, packet, wire, sent, lost, want, gfxVars, drawn, m, last_second>>

mouse_poll ==
  /\ At("hlt", IF mchanged THEN "cursor" ELSE "rtc") /\ mchanged' = FALSE
  /\ m' = IF mchanged THEN <<mx, my>> ELSE m
  /\ UNCHANGED <<rtcVars, mx, my, packet, wire, sent, lost, want, gfxVars, drawn, last_second>>
gfx_cursor_set ==
  /\ At("cursor", "rtc") /\ cur' = m /\ cur_on' = TRUE /\ m' = <<0, 0>>
  /\ LET old == gfx_present(front, back, Pointer(cur, cur_on), m, TRUE)
     IN front' = gfx_present(old, back, Under(m), m, TRUE)
  /\ UNCHANGED <<rtcVars, mouseVars, back, drawn, last_second>>
TickRead ==
  /\ At("rtc", "reading") /\ rtc_read
  /\ UNCHANGED <<mouseVars, gfxVars, drawn, m, last_second>>
TickReading == Reading /\ UNCHANGED <<mouseVars, gfxVars, drawn, dpc, m, last_second>>
TickSame ==
  /\ At("reading", "hlt") /\ RtcDone /\ time.second = last_second
  /\ UNCHANGED <<mouseVars, gfxVars, drawn, m, last_second>>
TickDraws ==
  /\ At("reading", "fill") /\ RtcDone /\ time.second # last_second
  /\ last_second' = time.second
  /\ UNCHANGED <<mouseVars, gfxVars, drawn, m>>

\* draw_clock: the bar, the digits, gfx_present's copy and its pointer.
DrawBack(k, next, colour) ==
  /\ At(k, next) /\ back' = [p \in Pixels |-> IF p \in Clock THEN colour ELSE back[p]]
  /\ UNCHANGED <<rtcVars, mouseVars, front, cur, cur_on, drawn, m, last_second>>
DrawBar == DrawBack("fill", "text", "bar")
DrawDigits == DrawBack("text", "copy", "digits")
PresentCopy ==
  /\ At("copy", "overlay") /\ front' = gfx_present(front, back, Clock, cur, FALSE)
  /\ UNCHANGED <<rtcVars, mouseVars, back, cur, cur_on, drawn, m, last_second>>

\* Mutant: nothing is painted over the copy.
OverlayNothing == At("overlay", "hlt") /\ UNCHANGED <<rtcVars, mouseVars, gfxVars, drawn, m, last_second>>

overlay_cursor ==
  /\ At("overlay", "hlt")
  /\ front' = [p \in Pixels |-> IF p \in Clock \cap Pointer(cur, cur_on) THEN "pointer" ELSE front[p]]
  /\ UNCHANGED <<rtcVars, mouseVars, back, cur, cur_on, drawn, m, last_second>>

desktop_tick == \/ mouse_poll \/ gfx_cursor_set \/ TickRead \/ TickReading \/ TickSame \/ TickDraws
                \/ DrawBar \/ DrawDigits \/ PresentCopy \/ overlay_cursor
Chip == Updating /\ UNCHANGED <<mouseVars, gfxVars, drawn, dpc, m, last_second>>
Next == desktop_tick \/ Chip \/ MouseMoves \/ ByteLost \/ mouse_handle_irq \/ fbcon_putc

\* The timer ends every hlt, the shell runs on, and the chip ends its updates.
Spec == Init /\ [][Next]_vars /\ WF_vars(desktop_tick) /\ WF_vars(Chip /\ uip)

-----------------------------------------------------------------------------
\* rtc_read: "we never mix the seconds from before a tick with the minutes from
\* after it".  What it returns is a time the chip had during the call, in
\* 24 hours, whatever format the chip is set to.
TimeRight == [][Compare /\ rpc' = "done" /\ ~broken => time' \in during]_vars

\* mouse_handle_irq: as long as no byte is lost, the pointer is where the
\* movements sent lead, kept within the screen at every one of them.
MouseRight == ~lost /\ wire = <<>> => <<mx, my>> = want

\* Whatever desktop_tick and the echo draw, and in whatever order, the screen
\* shows the back buffer with the whole pointer on top of it, except for the
\* clock while it is being drawn.
PointerOnTop ==
  \A p \in Pixels \ (IF dpc \in {"text", "copy", "overlay"} THEN Clock ELSE {}) :
    front[p] = IF p \in Pointer(cur, cur_on) THEN "pointer" ELSE back[p]

\* The pointer catches up with the mouse: no movement is missed between the poll
\* and the interrupt that changes the position, and rtc_read always returns.
PointerFollows == <>[](cur_on /\ cur = <<mx, my>>)
=============================================================================
