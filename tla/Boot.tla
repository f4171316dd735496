-------------------------------- MODULE Boot --------------------------------
(***************************************************************************)
(* kmain (main.c) with the interrupts that come in while it runs: the      *)
(* descriptor tables (gdt.c, idt.c, irq.c), the interrupt controllers      *)
(* (pic.c), the screen (vga.c, gfx.c, fbcon.c) and mouse_init's dialogue   *)
(* with the 8042 controller of keyboard and mouse (mouse.c).               *)
(*                                                                         *)
(* kmain takes a step per call, in mouse_init a step per poll.  Handlers   *)
(* run whole.  The 8042 has one byte of input and one of output.  A full   *)
(* output buffer holds up an interrupt line; the interrupt controllers     *)
(* latch the moment a line rises, and keep it when the byte is then read   *)
(* by somebody else.  Reading an empty buffer gives the last byte again.   *)
(* Of the configuration byte three bits matter; the others (translation    *)
(* among them) make it a scancode without a character.                     *)
(***************************************************************************)
EXTENDS Integers, Sequences, FiniteSets, FiniteSetsExt

CONSTANTS
  PS2_TIMEOUT,    \* polls of the status register
  STALE,          \* bytes mouse_init drops at most
  MaxKeys,        \* bound: keys pressed
  MaxMoves        \* bound: bytes the mouse reports

ASSUME BoundsOK == {PS2_TIMEOUT, STALE, MaxKeys, MaxMoves} \subseteq Nat

VARIABLES
  pc, intr,             \* the next call of kmain's, and IF
  up,                   \* what kmain has set up
  imr, irr, isr,        \* both 8259s
  cfg, in, out, expects, last,      \* the 8042; the byte read last
  keys, moves, reporting, owes,     \* keyboard and mouse; the mouse owes an ACK
  at, polls, local, ready,          \* mouse_init: its place, polls and cfg; the driver's ready
  \* ghosts: bytes keyboard_handle_scancode took; IRQ1 is pending for a byte mouse_init took;
  \* mouse_init took a byte for an answer that was none; a device answered too late or refused
  typed, poked, mixed, slow

pic == <<imr, irr, isr>>
mouse == <<keys, moves, reporting, owes>>
ps2 == <<cfg, in, out, expects, last, mouse>>
driver == <<at, polls, local, ready>>
ghosts == <<typed, poked, mixed, slow>>
vars == <<pc, intr, up, pic, ps2, driver, ghosts>>

Flags == {"irq1", "irq12", "off2"}   \* configuration bits 0, 1 and 5
None == [src |-> "none"]
Key(n) == [src |-> "kbd", n |-> n]
Ack == [src |-> "aux", n |-> 0]
Resend == [src |-> "aux", n |-> 1]
Move == [src |-> "aux", n |-> 2]
Config(f) == [src |-> "ctl", flags |-> f]
Plain(b) == [src |-> "cpu", byte |-> b]

\* Interrupts are off; the firmware left the keyboard on, and perhaps a byte of it.
Init ==
  /\ pc = "gdt" /\ intr = FALSE /\ up = {}
  /\ imr = {} /\ irr \in {{}, {1}} /\ isr = {}
  /\ cfg \in {f \in SUBSET Flags : "irq1" \in f} /\ in = None /\ expects = "none"
  /\ keys \in {0, 1} /\ out = (IF keys = 0 THEN None ELSE Key(1)) /\ last = None
  /\ moves = 0 /\ reporting = FALSE /\ owes = FALSE
  /\ at = 1 /\ polls = 0 /\ local = {} /\ ready = FALSE
  /\ typed = <<>> /\ poked = FALSE /\ mixed = FALSE /\ slow = FALSE

-----------------------------------------------------------------------------
\* The interrupt lines, and the requests that a step leaves.
Lines(o, c) ==
  (IF o.src \in {"kbd", "ctl"} /\ "irq1" \in c THEN {1} ELSE {}) \cup
  (IF o.src = "aux" /\ "irq12" \in c THEN {12} ELSE {})
Risen == Lines(out', cfg') \ Lines(out, cfg)

\* The 8259s: a request is passed on unless it is masked or one of its rank or above is
\* being served; the second one is connected to line 2 of the first.
Passes(i) ==
  /\ i \in irr \ imr
  /\ \A j \in isr : j <= 7 => j > Min({i, 2})
  /\ i = 12 => 2 \notin imr /\ 12 \notin isr
Served(i) == isr \cup {i} \cup (IF i >= 8 THEN {2} ELSE {})
Highest(s) == IF s = {} THEN {} ELSE {Min(s)}

\* Mutant: only the first controller is told.
EoiFirst(irq, s) == s \ Highest(s \cap 0..7)

pic_send_eoi(irq, s) ==
  s \ (Highest(s \cap 0..7) \cup IF irq >= 8 THEN Highest(s \cap 8..15) ELSE {})

-----------------------------------------------------------------------------
\* kmain, call by call.

Quiet == UNCHANGED <<ps2, driver, ghosts>>
SetUp(p, q) == pc = p /\ pc' = q /\ up' = up \cup {p} /\ Quiet

gdt_init == SetUp("gdt", "idt") /\ UNCHANGED <<intr, pic>>
idt_init == SetUp("idt", "pic") /\ UNCHANGED <<intr, pic>>

\* Initialising an 8259 forgets its requests, and a line that is up already is not seen.
pic_remap == SetUp("pic", "irq") /\ irr' = {} /\ isr' = {} /\ imr' = 0..15 /\ UNCHANGED intr

\* Mutant: interrupts are let in before the gates are there.
InstallLate ==
  \/ pc = "irq" /\ pc' = "gates" /\ imr' = imr \ {0, 1} /\ intr' = TRUE /\ Quiet /\ UNCHANGED <<up, irr, isr>>
  \/ pc = "gates" /\ pc' = "hhdm" /\ up' = up \cup {"irq"} /\ Quiet /\ UNCHANGED <<intr, pic>>

\* irq_install, and kmain's sti.
irq_install == SetUp("irq", "hhdm") /\ imr' = imr \ {0, 1} /\ intr' = TRUE /\ UNCHANGED <<irr, isr>>

vmm_init == SetUp("hhdm", "vga") /\ UNCHANGED <<intr, pic>>
vga_enable == SetUp("vga", "gfx") /\ UNCHANGED <<intr, pic>>

\* Without a frame buffer, or memory for a second one, the screen stays in text mode.
gfx_init ==
  \/ SetUp("gfx", "fbcon") /\ UNCHANGED <<intr, pic>>
  \/ pc = "gfx" /\ pc' = "irq_save" /\ Quiet /\ UNCHANGED <<up, intr, pic>>
desktop_init == SetUp("fbcon", "irq_save") /\ UNCHANGED <<intr, pic>>

\* The boot task is filled in, then published as current, which is what schedule asks for.
sched_init == (SetUp("task", "current") \/ SetUp("current", "syscall")) /\ UNCHANGED <<intr, pic>>
syscall_init == SetUp("syscall", "shell") /\ intr' = TRUE /\ UNCHANGED pic

-----------------------------------------------------------------------------
\* mouse_init.  Its dialogue is a sequence of bytes sent and awaited.

ctrl_cmd(c) == <<[op |-> "send", to |-> "cmd", byte |-> c]>>
Data(b) == <<[op |-> "send", to |-> "data", byte |-> b]>>
Await(what) == <<[op |-> "await", for |-> what]>>
read_config == ctrl_cmd("20") \o Await("config")
write_config(b) == ctrl_cmd("60") \o Data(b)
mouse_write(b) == ctrl_cmd("D4") \o Data(b) \o Await("ack")

Dialogue ==
  ctrl_cmd("A8") \o read_config \o write_config("clock on") \o mouse_write("F6")
    \o mouse_write("F4") \o read_config \o write_config("irq on")

\* The byte that is written: both configurations are made of the one read before.
Byte(b) == CASE b = "clock on" -> Config(local \ {"off2"})
             [] b = "irq on" -> Config(local \cup {"irq12"})
             [] OTHER -> Plain(b)

\* inb of the data port, by mouse_init or by a handler.
Taken == IF out = None THEN last ELSE out
Inb == out' = None /\ last' = Taken /\ UNCHANGED <<cfg, in, expects, mouse>>

\* Mutant: the controller is polled with interrupts on.
SaveNothing == pc = "irq_save" /\ pc' = "drain" /\ Quiet /\ UNCHANGED <<intr, up, pic>>

irq_save == pc = "irq_save" /\ pc' = "drain" /\ intr' = FALSE /\ Quiet /\ UNCHANGED <<up, pic>>

DropStale ==
  /\ pc = "drain"
  /\ \/ /\ out # None /\ polls < STALE /\ polls' = polls + 1 /\ Inb
        /\ poked' = (poked \/ 1 \in irr) /\ pc' = pc
     \/ /\ out = None \/ polls = STALE
        /\ pc' = "dialogue" /\ polls' = 0 /\ UNCHANGED <<ps2, poked>>
  /\ UNCHANGED <<intr, up, pic, at, local, ready, typed, mixed, slow>>

Op == Dialogue[at]
NextOp == at' = at + 1 /\ polls' = 0 /\ pc' = IF at = Len(Dialogue) THEN "enable" ELSE "dialogue"
GiveUp == pc' = "give up" /\ UNCHANGED <<at, polls>>

\* The status register is polled; it says that the controller is not ready.
NotReady == pc = "dialogue" /\ IF Op.op = "send" THEN in # None ELSE out = None

\* Mutant: polling goes on until there is an answer.
PollForEver == NotReady /\ UNCHANGED vars

\* wait_write and wait_read: one poll in vain.  It was the device's fault if it owes an answer.
Poll ==
  /\ NotReady
  /\ \/ polls + 1 < PS2_TIMEOUT /\ polls' = polls + 1 /\ UNCHANGED <<pc, at, slow>>
     \/ polls + 1 >= PS2_TIMEOUT /\ GiveUp /\ slow' = (slow \/ in # None \/ owes)
  /\ UNCHANGED <<intr, up, pic, ps2, local, ready, typed, poked, mixed>>
Send ==
  /\ pc = "dialogue" /\ Op.op = "send" /\ in = None
  /\ in' = [to |-> Op.to, byte |-> Byte(Op.byte)] /\ NextOp
  /\ UNCHANGED <<intr, up, pic, cfg, out, expects, last, mouse, local, ready, ghosts>>

\* Whoever sent it, the byte in the buffer is taken for the answer.  A scancode or a
\* movement may have any bit set of what is believed to be the configuration.
Receive ==
  /\ pc = "dialogue" /\ Op.op = "await" /\ out # None /\ Inb
  /\ \/ Op.for = "config" /\ NextOp /\ local' \in (IF out.src = "ctl" THEN {out.flags} ELSE SUBSET Flags)
     \/ Op.for = "ack" /\ out = Ack /\ NextOp /\ local' = local
     \/ Op.for = "ack" /\ out # Ack /\ GiveUp /\ local' = local
  /\ mixed' = (mixed \/ IF Op.for = "config" THEN out.src # "ctl" ELSE out \notin {Ack, Resend})
  /\ poked' = (poked \/ 1 \in irr) /\ slow' = (slow \/ out = Resend)
  /\ UNCHANGED <<intr, up, pic, ready, typed>>

\* irq_restore, and what follows it.
mouse_off ==
  /\ pc = "give up" /\ pc' = "task" /\ intr' = TRUE /\ Quiet /\ UNCHANGED <<up, pic>>
mouse_on ==
  /\ pc = "enable" /\ pc' = "unmask" /\ intr' = TRUE /\ ready' = TRUE
  /\ UNCHANGED <<up, pic, ps2, at, polls, local, ghosts>>

pic_clear_mask ==
  /\ pc = "unmask" /\ pc' = "task" /\ imr' = imr \ {2, 12} /\ Quiet /\ UNCHANGED <<intr, up, irr, isr>>

mouse_init == irq_save \/ DropStale \/ Poll \/ Send \/ Receive \/ mouse_off \/ mouse_on \/ pic_clear_mask
kmain == \/ gdt_init \/ idt_init \/ pic_remap \/ irq_install \/ vmm_init \/ vga_enable
         \/ gfx_init \/ desktop_init \/ mouse_init \/ sched_init \/ syscall_init

-----------------------------------------------------------------------------
\* irq_handler: a request is served, whole, up to its acknowledgement.

Accept(i) ==
  /\ intr /\ Passes(i) /\ \A j \in irr : Passes(j) => i <= j
  /\ irr' = irr \ {i} /\ isr' = pic_send_eoi(i, Served(i))
  /\ UNCHANGED <<pc, intr, up, imr, driver, mixed, slow>>

\* The keyboard's handler reads without looking at the status.
Scancode ==
  /\ Inb /\ poked' = FALSE
  /\ typed' = IF Taken.src \in {"kbd", "aux"} THEN Append(typed, [byte |-> Taken, poked |-> poked]) ELSE typed

\* Mutant: the timer's case runs into the keyboard's.
FallsThrough == Accept(0) /\ Scancode

\* The timer's, after which schedule finds no other task.
TimerIrq == Accept(0) /\ UNCHANGED <<ps2, typed, poked>>
KeyboardIrq == Accept(1) /\ Scancode

\* mouse_handle_irq, here without the packets.
MouseIrq ==
  /\ Accept(12) /\ UNCHANGED <<typed, poked>>
  /\ IF out = None THEN UNCHANGED ps2 ELSE Inb

-----------------------------------------------------------------------------
\* The devices.

Device == irr' = irr \cup Risen /\ UNCHANGED <<pc, intr, up, imr, isr, driver, ghosts>>
Offer(b) == out = None /\ out' = b /\ UNCHANGED <<cfg, in, expects, last>> /\ Device

Tick == irr' = irr \cup {0} /\ UNCHANGED <<pc, intr, up, imr, isr, ps2, driver, ghosts>>
Press == keys < MaxKeys /\ keys' = keys + 1 /\ Offer(Key(keys + 1)) /\ UNCHANGED <<moves, reporting, owes>>
Report ==
  /\ reporting /\ ~owes /\ "off2" \notin cfg /\ moves < MaxMoves /\ moves' = moves + 1
  /\ Offer(Move) /\ UNCHANGED <<keys, reporting, owes>>
Answer ==
  /\ owes /\ "off2" \notin cfg /\ owes' = FALSE
  /\ \E b \in {Ack, Resend} : Offer(b)
  /\ UNCHANGED <<keys, moves, reporting>>

\* The controller takes a byte from its input buffer and obeys it.
Obey ==
  /\ in # None /\ in' = None
  /\ \/ in.to = "cmd" /\ in.byte = Plain("A8") /\ cfg' = cfg \ {"off2"} /\ UNCHANGED <<out, expects, mouse>>
     \/ in.to = "cmd" /\ in.byte = Plain("20") /\ out = None /\ out' = Config(cfg) /\ UNCHANGED <<cfg, expects, mouse>>
     \/ /\ in.to = "cmd" /\ in.byte \in {Plain("60"), Plain("D4")} /\ expects' = in.byte.byte
        /\ UNCHANGED <<cfg, out, mouse>>
     \/ /\ in.to = "data" /\ expects = "60" /\ expects' = "none" /\ cfg' = in.byte.flags
        /\ UNCHANGED <<out, mouse>>
     \/ /\ in.to = "data" /\ expects = "D4" /\ expects' = "none"
        /\ owes' = TRUE /\ reporting' = (in.byte = Plain("F4")) /\ UNCHANGED <<cfg, out, keys, moves>>
  /\ UNCHANGED last /\ Device

Next == kmain \/ TimerIrq \/ KeyboardIrq \/ MouseIrq \/ Tick \/ Press \/ Report \/ Answer \/ Obey

\* The processor goes on, the controller takes its input some time, and the timer's handler
\* is shorter than its period, so that the other two get their turn.
Spec == Init /\ [][Next]_vars /\ WF_vars(kmain) /\ WF_vars(Obey) /\ WF_vars(TimerIrq)
             /\ SF_vars(KeyboardIrq) /\ SF_vars(MouseIrq)

-----------------------------------------------------------------------------
\* Interrupts are live from the first half of kmain on.  One that can come in now finds its
\* gate and the tables behind it; the keyboard's echo finds the memory of the screen that
\* vga_putc will choose; and the timer's schedule finds either no current task or a whole one.
EarlySafe ==
  intr => /\ \A i \in irr : Passes(i) => {"gdt", "idt", "irq"} \subseteq up
          /\ "fbcon" \in up => "gfx" \in up
          /\ "vga" \in up => "hhdm" \in up
          /\ "current" \in up => "task" \in up

\* mouse_init succeeds if the devices answer ACK in time and nothing else is sent meanwhile:
\* "no IRQ may steal bytes" (mouse.c:68).  Then, once the controller has taken the last byte,
\* the mouse is on and interrupts, and the keyboard still does.
MouseEnabled ==
  pc \in {"give up", "task", "current", "syscall", "shell"} /\ ~mixed /\ ~slow =>
    /\ pc # "give up" /\ ready /\ reporting /\ {2, 12} \cap imr = {}
    /\ in = None => {"irq1", "irq12"} \subseteq cfg /\ "off2" \notin cfg

\* Every key is typed at most once, in the order of the presses, although mouse_init drops
\* bytes whose interrupt stays pending; and a byte of the mouse's is taken for a key only by
\* such a left-over interrupt.
TypedRight ==
  \A i \in 1..Len(typed) :
    /\ typed[i].byte.src = "aux" => typed[i].poked
    /\ \A j \in 1..i - 1 :
         typed[i].byte.src = "kbd" /\ typed[j].byte.src = "kbd" => typed[j].byte.n < typed[i].byte.n

\* No byte blocks the 8042's output for ever, also one from before the first interrupt:
\* "MUST acknowledge, or no more IRQs of this type" (irq.c:81).  Excepted are a controller
\* that was given a wrong configuration and a mouse that answers after mouse_init gave up.
BytesRead == out # None ~> (out = None \/ mixed \/ (~ready /\ out.src = "aux"))

\* kmain reaches the shell, whatever the devices do.
BootReturns == <>(pc = "shell")
=============================================================================
