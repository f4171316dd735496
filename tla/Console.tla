------------------------------ MODULE Console -------------------------------
(***************************************************************************)
(* The console: kprintf's path to the kernel log and the screen            *)
(* (kprintf.c, drivers/vga.c, gfx/fbcon.c), the keyboard                   *)
(* (drivers/keyboard.c) and the shell's loop that takes lines from it      *)
(* (shell.c).                                                              *)
(*                                                                         *)
(* The shell runs with interrupts on, one memory access per step, as the   *)
(* kernel is built without optimisation; the keyboard's and the timer's    *)
(* handlers run whole, between two steps of the shell's, when interrupts   *)
(* are on.  The keyboard's handler prints what it echoes through the same  *)
(* emit_char.  The screen is either the terminal window, whose fbcon_putc  *)
(* keeps interrupts out, or in text mode, where vga_putc does not.         *)
(***************************************************************************)
EXTENDS Screen, SequencesExt, FiniteSets, FiniteSetsExt

CONSTANTS
  Printed,          \* characters the shell prints
  Keys,             \* keys with a character: [plain, shifted]
  OutSizes,         \* the buffers lines are taken into: shell_run's and cmd_dmesg's
  KLOG_SIZE, KB_BUF_SIZE,
  MaxEvents         \* bound: key events and characters the shell prints, together

VARIABLES
  active,                   \* fbcon_active: the terminal window is there
  klog_buf, klog_total,
  screen, cx, cy, hw,       \* the screen, its console's cursor, and the hardware's in text mode
  line_buf, shift_down, ready_line, line_ready,
  pc, intr, size,           \* the shell: where it is, IF, and the size of the buffer it polls into
  ch, reg,                  \* in emit_char: the character, and what was loaded last
  out,                      \* the line keyboard_poll_line is copying
  events,                   \* key events, and characters the shell has printed, so far
  \* ghosts: what emit_char was called with since the screen was cleared, in the order it
  \* reached it, and before; the lines entered since the last poll; whether a key was echoed
  \* inside an emit_char of the shell's; inside the moving of the hardware's cursor since it
  \* last moved; inside a backspace of the shell's; whether a backspace or a carriage return was printed
  shown, before, entered, raced, lag, cut, erased

log == <<klog_buf, klog_total>>
term == <<screen, cx, cy, hw, shown, before, erased, lag>>
keyboard == <<line_buf, shift_down, ready_line, line_ready, entered>>
vars == <<active, log, term, keyboard, pc, intr, size, ch, reg, events, out, raced, cut>>

Init ==
  /\ klog_buf = [k \in 0..KLOG_SIZE - 1 |-> SPACE] /\ klog_total = 0
  /\ active \in BOOLEAN /\ screen = Empty.screen /\ cx = 0 /\ cy = 0 /\ hw = 0
  /\ line_buf = <<>> /\ shift_down = FALSE /\ ready_line = <<>> /\ line_ready = FALSE
  /\ pc = "poll" /\ intr = TRUE /\ size = Max(OutSizes) /\ ch = SPACE /\ reg = 0 /\ out = <<>>
  /\ events = 0 /\ shown = <<>> /\ before = <<>> /\ entered = {}
  /\ raced = FALSE /\ lag = FALSE /\ cut = FALSE /\ erased = FALSE

-----------------------------------------------------------------------------
Terminal == [screen |-> screen, cx |-> cx, cy |-> cy]
Shown(s) == shown' = shown \o s /\ erased' = (erased \/ ToSet(s) \cap {BS, CR} # {}) /\ UNCHANGED before

\* out_char on a whole string.
Show(s) ==
  LET t == IF active THEN FoldLeft(fbcon_putc, Terminal, s) ELSE FoldLeft(vga_putc, Terminal, s)
  IN /\ screen' = t.screen /\ cx' = t.cx /\ cy' = t.cy /\ Shown(s)
     /\ hw' = (IF active THEN hw ELSE Cell(t.cy, t.cx))

\* emit_char on a whole string, as it runs inside an interrupt handler.
Log(s) ==
  /\ klog_total' = klog_total + Len(s)
  /\ klog_buf' = [k \in DOMAIN klog_buf |->
       LET here == {j \in 1..Len(s) : (klog_total + j - 1) % KLOG_SIZE = k}
       IN IF here = {} THEN klog_buf[k] ELSE s[Max(here)]]

-----------------------------------------------------------------------------
\* emit_char in the shell, access by access; any key may be echoed in between.

Drawing == {"row", "col", "cell", "incr", "col+", "wrap", "zero", "down", "row+", "end", "scroll",
            "bottom", "left", "test", "back", "col-", "tab", "tab+", "top", "home", "hw", "hw+", "out"}
InEmit == pc \in {"index", "store", "load", "add", "putc"} \cup Drawing
Step(k) == pc' = k /\ UNCHANGED <<active, intr, size, keyboard, out, raced, cut>>
Goto(k) == Step(k) /\ UNCHANGED events
Finish == Goto("work") /\ ch' = SPACE /\ reg' = 0

PrintChar ==
  /\ pc = "work" /\ events < MaxEvents /\ events' = events + 1
  /\ ch' \in Printed /\ Step("index") /\ UNCHANGED <<log, term, reg>>
EmitIndex == pc = "index" /\ reg' = klog_total /\ Goto("store") /\ UNCHANGED <<log, term, ch>>
EmitStore ==
  /\ pc = "store" /\ klog_buf' = [klog_buf EXCEPT ![reg % KLOG_SIZE] = ch]
  /\ Goto("load") /\ UNCHANGED <<klog_total, term, ch, reg>>
EmitLoad == pc = "load" /\ reg' = klog_total /\ Goto("add") /\ UNCHANGED <<log, term, ch>>

\* Mutant: the total stays within the ring.
AddWrapped ==
  /\ pc = "add" /\ klog_total' = (reg + 1) % KLOG_SIZE
  /\ Goto("putc") /\ UNCHANGED <<klog_buf, term, ch, reg>>

EmitAdd ==
  /\ pc = "add" /\ klog_total' = reg + 1
  /\ Goto("putc") /\ UNCHANGED <<klog_buf, term, ch, reg>>

\* out_char: in the terminal window it is one step; in text mode it has only begun.
EmitPutc ==
  /\ pc = "putc" /\ UNCHANGED log
  /\ \/ active /\ Show(<<ch>>) /\ lag' = lag /\ Finish
     \/ /\ ~active /\ Shown(<<ch>>) /\ UNCHANGED <<screen, cx, cy, hw, lag, ch, reg>>
        /\ Goto(CASE ch \in {NL, CR} -> "zero" [] ch = BS -> "test" [] ch = TAB -> "tab" [] OTHER -> "row")

\* vga_putc in the shell, access by access.
Load(p, value, q) == pc = p /\ reg' = value /\ Goto(q) /\ UNCHANGED <<log, term, ch>>
Test(p, holds, q, r) == pc = p /\ Goto(IF holds THEN q ELSE r) /\ UNCHANGED <<log, term, ch, reg>>
SetCol(p, value, q) ==
  pc = p /\ cx' = value /\ Goto(q) /\ UNCHANGED <<log, screen, cy, hw, shown, before, erased, lag, ch, reg>>
SetRow(p, value, q) ==
  pc = p /\ cy' = value /\ Goto(q) /\ UNCHANGED <<log, screen, cx, hw, shown, before, erased, lag, ch, reg>>

TextCell ==
  \/ Load("row", Cell(cy, 0), "col")
  \/ Load("col", reg + cx, "cell")
  \/ /\ pc = "cell" /\ screen' = Put(screen, reg, IF ch = BS THEN SPACE ELSE ch)
     /\ Goto(IF ch = BS THEN "end" ELSE "incr")
     /\ UNCHANGED <<log, cx, cy, hw, shown, before, erased, lag, ch, reg>>
TextAdvance == Load("incr", cx, "col+") \/ SetCol("col+", reg + 1, "wrap")
TextBack == Test("test", cx > 0, "back", "end") \/ Load("back", cx, "col-") \/ SetCol("col-", reg - 1, "row")
TextTab == Load("tab", cx, "tab+") \/ SetCol("tab+", TabStop(reg), "wrap")

\* Mutant: a full row is not left.
NoWrap == Test("wrap", cx > Cols, "zero", "end") \/ SetCol("zero", 0, IF ch = CR THEN "end" ELSE "down")
          \/ Load("down", cy, "row+") \/ SetRow("row+", reg + 1, "end")

TextNewline == Test("wrap", cx >= Cols, "zero", "end") \/ SetCol("zero", 0, IF ch = CR THEN "end" ELSE "down")
               \/ Load("down", cy, "row+") \/ SetRow("row+", reg + 1, "end")
\* The cells move in one step: a key echoed meanwhile may leave any of them wrong, and the
\* properties say nothing of the cells then (raced).
TextScroll ==
  \/ Test("end", cy >= Rows, "scroll", "hw")
  \/ /\ pc = "scroll" /\ screen' = vga_scroll(screen) /\ Goto("bottom")
     /\ UNCHANGED <<log, cx, cy, hw, shown, before, erased, lag, ch, reg>>
  \/ SetRow("bottom", Rows - 1, "left") \/ SetCol("left", 0, "hw")

\* vga_update_hw_cursor
TextCursor ==
  \/ /\ pc = "hw" /\ reg' = Cell(cy, 0) /\ lag' = FALSE /\ Goto("hw+")
     /\ UNCHANGED <<log, screen, cx, cy, hw, shown, before, erased, ch>>
  \/ Load("hw+", reg + cx, "out")
  \/ /\ pc = "out" /\ hw' = reg /\ Finish
     /\ UNCHANGED <<log, screen, cx, cy, shown, before, erased, lag>>

\* cmd_clear: fbcon_clear at once, vga_clear from the cells to the cursor.
ClearScreen ==
  \/ /\ pc = "work" /\ shown # <<>> /\ screen' = Empty.screen
     /\ before' = before \o shown /\ shown' = <<>>
     /\ \/ active /\ cx' = 0 /\ cy' = 0 /\ Goto("work")
        \/ ~active /\ UNCHANGED <<cx, cy>> /\ Goto("top")
     /\ UNCHANGED <<log, hw, erased, lag, ch, reg>>
  \/ SetRow("top", 0, "home") \/ SetCol("home", 0, "hw")

vga == TextCell \/ TextAdvance \/ TextBack \/ TextTab \/ TextNewline \/ TextScroll \/ TextCursor

\* klog_snapshot, interrupts off: the oldest bytes up to a line break are dropped
\* once the ring has been overwritten.
klog_snapshot ==
  LET count == Min({klog_total, KLOG_SIZE})
      stored == [k \in 1..count |-> klog_buf[(klog_total - count + k - 1) % KLOG_SIZE]]
      breaks == {k \in 1..count : stored[k] = NL}
  IN IF klog_total <= KLOG_SIZE THEN stored
     ELSE IF breaks = {} THEN <<>> ELSE SubSeq(stored, Min(breaks) + 1, count)

-----------------------------------------------------------------------------
\* keyboard_handle_scancode, from the keyboard's interrupt.  It wakes the shell.

Woken == IF pc = "asleep" THEN "poll" ELSE pc
Interrupt ==
  /\ intr /\ events < MaxEvents /\ events' = events + 1
  /\ pc' = Woken /\ UNCHANGED <<active, intr, size, ch, reg, out>>
Echo(s) ==
  /\ Log(s) /\ Show(s)
  /\ raced' = (raced \/ (InEmit /\ pc # "index"))
  /\ lag' = (pc \in {"hw+", "out"}) /\ cut' = (cut \/ pc \in {"back", "col-"})
Quiet == UNCHANGED <<log, term, raced, cut>>

ShiftKey ==
  /\ Interrupt /\ shift_down' = ~shift_down
  /\ Quiet /\ UNCHANGED <<line_buf, ready_line, line_ready, entered>>

Room == Len(line_buf) < KB_BUF_SIZE - 1

\* A full line takes no more, and echoes nothing.
CharKey(key) ==
  LET c == IF shift_down THEN key.shifted ELSE key.plain
  IN /\ Interrupt
     /\ \/ Room /\ line_buf' = Append(line_buf, c) /\ Echo(<<c>>)
        \/ ~Room /\ Quiet /\ UNCHANGED line_buf
     /\ UNCHANGED <<shift_down, ready_line, line_ready, entered>>
BackspaceKey ==
  /\ Interrupt
  /\ \/ line_buf # <<>> /\ line_buf' = Front(line_buf) /\ Echo(<<BS, SPACE, BS>>)
     \/ line_buf = <<>> /\ Quiet /\ UNCHANGED line_buf
  /\ UNCHANGED <<shift_down, ready_line, line_ready, entered>>
EnterKey ==
  /\ Interrupt /\ Echo(<<NL>>)
  /\ ready_line' = line_buf /\ line_ready' = TRUE /\ line_buf' = <<>>
  /\ entered' = entered \cup {line_buf} /\ UNCHANGED shift_down

\* Mutant: the timer does not wake the processor.
TickNoWake == pc = "asleep" /\ UNCHANGED vars

\* The timer's interrupt, which ends a hlt.
Tick == intr /\ pc = "asleep" /\ pc' = "poll" /\ UNCHANGED <<active, log, term, keyboard, intr, size, ch, reg, events, out, raced, cut>>

-----------------------------------------------------------------------------
\* The shell: keyboard_poll_line, the command, hlt.

Unmoved == UNCHANGED <<active, log, term, line_buf, shift_down, ready_line, ch, reg, events, raced, cut>>

\* Mutant: interrupts stay on while the line is copied.
PollNoCli ==
  /\ pc = "poll" /\ pc' = "check" /\ size' \in OutSizes /\ out' = <<>>
  /\ Unmoved /\ UNCHANGED <<intr, line_ready, entered>>

\* keyboard_poll_line is called with a buffer, nothing of which is used unless it
\* returns a line.
PollCli ==
  /\ pc = "poll" /\ pc' = "check" /\ size' \in OutSizes /\ out' = <<>> /\ intr' = FALSE
  /\ Unmoved /\ UNCHANGED <<line_ready, entered>>
PollCheck ==
  /\ pc = "check"
  /\ \/ line_ready /\ pc' = "copy" /\ UNCHANGED <<intr, size>>
     \/ ~line_ready /\ pc' = "hlt" /\ intr' = TRUE /\ size' = Max(OutSizes)
  /\ Unmoved /\ UNCHANGED <<line_ready, entered, out>>
PollCopy ==
  /\ pc = "copy" /\ Len(out) < Len(ready_line) /\ Len(out) < size - 1
  /\ out' = Append(out, ready_line[Len(out) + 1])
  /\ Unmoved /\ UNCHANGED <<pc, intr, size, line_ready, entered>>

\* line_ready is cleared and interrupts are on again.  What the line says is of no
\* consequence here: the command prints what it likes.
PollDone ==
  /\ pc = "copy" /\ (Len(out) >= Len(ready_line) \/ Len(out) >= size - 1)
  /\ line_ready' = FALSE /\ intr' = TRUE /\ pc' = "work" /\ entered' = {}
  /\ out' = <<>> /\ size' = Max(OutSizes) /\ Unmoved
CommandDone ==
  /\ pc = "work" /\ pc' = "hlt" /\ Unmoved /\ UNCHANGED <<intr, size, line_ready, entered, out>>

\* Nothing stops an interrupt between the poll and the hlt.
Hlt == pc = "hlt" /\ pc' = "asleep" /\ Unmoved /\ UNCHANGED <<intr, size, line_ready, entered, out>>

Shell == \/ PrintChar \/ EmitIndex \/ EmitStore \/ EmitLoad \/ EmitAdd \/ EmitPutc \/ vga \/ ClearScreen
         \/ PollCli \/ PollCheck \/ PollCopy \/ PollDone \/ CommandDone \/ Hlt
Typing == ShiftKey \/ BackspaceKey \/ EnterKey \/ \E key \in Keys : CharKey(key)
Next == Shell \/ Tick \/ Typing

\* The processor goes on executing the shell, and when it sleeps the timer goes on ticking:
\* never are both enabled.
Spec == Init /\ [][Next]_vars /\ WF_vars(Shell \/ Tick)

-----------------------------------------------------------------------------
\* The text cursor is on the screen whenever the shell is not printing, although in text
\* mode keys are echoed inside vga_putc and see it beyond the last column or row, and the
\* hardware's cursor is where it is.  Excepted: a key echoed between the two halves of a
\* backspace the shell prints, or while the hardware's cursor is being moved, until it moves next.
CursorRight ==
  ~InEmit /\ ~cut => /\ cx \in 0..Cols - 1 /\ cy \in 0..Rows - 1
                     /\ ~active /\ ~lag => hw = Cell(cy, cx)

\* keyboard_poll_line: the shell is handed one line that was entered since it
\* last took one, whole or cut to its buffer, and never parts of two, although
\* the next line is latched over it by an interrupt.  With its end it fits both buffers.
LineWhole ==
  [][PollDone => \E l \in entered : Len(l) < KB_BUF_SIZE /\ out = SubSeq(l, 1, Min({Len(l), size - 1}))]_vars

\* The log holds the last KLOG_SIZE characters printed and a snapshot begins with
\* a whole line, as long as no key was echoed inside an emit_char of the shell's.
SnapshotRight ==
  ~InEmit /\ ~raced =>
    LET all == before \o shown
        kept == SubSeq(all, Len(all) - Min({Len(all), KLOG_SIZE}) + 1, Len(all))
        breaks == {k \in 1..Len(kept) : kept[k] = NL}
    IN klog_snapshot =
         IF Len(all) <= KLOG_SIZE THEN kept
         ELSE IF breaks = {} THEN <<>> ELSE SubSeq(kept, Min(breaks) + 1, Len(kept))

\* The text cut into rows: at each line break, and where a row is full.
RECURSIVE Wrap(_, _)
Wrap(s, row) ==
  IF s = <<>> THEN <<row>>
  ELSE IF Head(s) = NL THEN <<row>> \o Wrap(Tail(s), <<>>)
  ELSE IF Head(s) = TAB THEN
    IF TabStop(Len(row)) >= Cols THEN <<row>> \o Wrap(Tail(s), <<>>)
    ELSE Wrap(Tail(s), row \o [c \in 1..TabStop(Len(row)) - Len(row) |-> SPACE])
  ELSE IF Len(row) + 1 = Cols THEN <<Append(row, Head(s))>> \o Wrap(Tail(s), <<>>)
  ELSE Wrap(Tail(s), Append(row, Head(s)))
Padded(row) == [c \in 1..Cols |-> IF c <= Len(row) THEN row[c] ELSE SPACE]

\* The screen shows the last rows of everything printed since it was cleared, by the shell
\* and by the keyboard's echo, in whatever order they interleave, with the cursor at its
\* end, as long as nothing was printed over it; in text mode as long as no key was echoed
\* inside an emit_char of the shell's.
ScreenRight ==
  ~erased /\ (active \/ ~(InEmit \/ raced)) =>
    LET rows == Wrap(shown, <<>>)
        top == Max({0, Len(rows) - Rows})
    IN /\ \A r \in 1..Rows :
            screen[r] = IF top + r <= Len(rows) THEN Padded(rows[top + r]) ELSE Blank
       /\ cy = Len(rows) - top - 1 /\ cx = Len(Last(rows))

\* A line entered is taken: nothing is lost by going to sleep between the poll
\* and the hlt, because the timer wakes the shell again.
LineTaken == line_ready ~> ~line_ready
=============================================================================
