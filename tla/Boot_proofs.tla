---------------------------- MODULE Boot_proofs -----------------------------
(***************************************************************************)
(* Proofs about Boot for any number of polls, stale bytes, keys and mouse  *)
(* reports.  Order says how far kmain has come when interrupts are let in, *)
(* Fresh what the keyboard's handler can find when it runs, and Spoken     *)
(* where the 8042 is in mouse_init's dialogue.                             *)
(***************************************************************************)
EXTENDS Boot, TLAPS

\* What kmain does before interrupts are on, and what it has set up where.
Dark == {"gdt", "idt", "pic", "irq"}
Order ==
  /\ isr = {}
  /\ intr => pc \notin Dark
  /\ pc \notin Dark => {"gdt", "idt", "irq"} \subseteq up /\ 0 \notin imr /\ 1 \notin imr
  /\ pc \in {"pic", "irq"} => {"gdt", "idt"} \subseteq up
  /\ pc = "idt" => "gdt" \in up
  /\ pc = "vga" \/ "vga" \in up => "hhdm" \in up
  /\ pc = "fbcon" \/ "fbcon" \in up => "gfx" \in up
  /\ pc = "current" \/ "current" \in up => "task" \in up

\* The bytes keyboard and mouse send.
Scan == {Key(n) : n \in Nat} \cup {Ack, Resend, Move}
Typed == [byte : Scan, poked : BOOLEAN]
Scanned(b) == b.src \in {"kbd", "aux"} => b \in Scan
TypedBelow(n) == \A i \in 1..Len(typed) : typed[i].byte.src = "kbd" => typed[i].byte.n < n

\* A key in the 8042 is the newest one and has not been typed; the byte read last is not older
\* than any typed key, and newer while a request of the keyboard's has no byte; and such a
\* request was left over by mouse_init.
Fresh ==
  /\ keys \in Nat /\ poked \in BOOLEAN /\ typed \in Seq(Typed)
  /\ Scanned(out) /\ Scanned(last) /\ TypedBelow(keys + 1)
  /\ out.src = "kbd" => out.n = keys /\ TypedBelow(out.n)
  /\ last.src = "kbd" => /\ last.n <= keys /\ TypedBelow(last.n + 1)
                         /\ 1 \in irr /\ out = None => TypedBelow(last.n)
  /\ 1 \in irr /\ pc \notin {"gdt", "idt", "pic"} => poked \/ out.src \in {"kbd", "ctl"}

\* mouse_init's dialogue with the 8042, as long as nothing was mixed up or late.
Rest == in = None /\ expects = "none"
Command(c) == in = [to |-> "cmd", byte |-> Plain(c)] /\ expects = "none"
Obeyed(c) == in = None /\ expects = c

\* Before it: the mouse is silent, and the controller has been told nothing.
Silent ==
  /\ at = 1 /\ Rest /\ ~owes /\ ~reporting
  /\ "irq1" \in cfg /\ out.src \in {"none", "kbd"}

\* In it: what the controller has been told, has obeyed and has answered at each place.
Talk ==
  /\ at \in 1..15
  /\ "irq1" \in cfg /\ (at >= 3 => "off2" \notin cfg)
  /\ at \in {4, 5, 6, 14, 15} => local = cfg
  /\ reporting <=> (at >= 12 \/ (at = 11 /\ in = None))
  /\ owes => at \in {8, 11} /\ in = None
  /\ out.src = "ctl" => at \in {3, 13} /\ in = None /\ out = Config(cfg)
  /\ out.src = "aux" => \/ at \in {8, 11} /\ in = None /\ ~owes /\ out \in {Ack, Resend}
                        \/ at >= 12 /\ out = Move
  /\ at \in {1, 4, 9, 12, 14} => Rest
  /\ at = 2 => Command("A8") \/ (Rest /\ "off2" \notin cfg)
  /\ at \in {3, 13} => Command("20") \/ (Rest /\ out = Config(cfg))
  /\ at \in {5, 15} => Command("60") \/ Obeyed("60")
  /\ at = 6 => Rest \/ (in = [to |-> "data", byte |-> Config(cfg)] /\ expects = "60")
  /\ at \in {7, 10} => Command("D4") \/ Obeyed("D4")
  /\ at \in {8, 11} => \/ Rest /\ (owes \/ out \in {Ack, Resend})
                       \/ /\ in = [to |-> "data", byte |-> Plain(IF at = 8 THEN "F6" ELSE "F4")]
                          /\ expects = "D4"

\* After it: the controller has, or is about to get, the configuration with IRQ12.
Enabled ==
  /\ reporting /\ ~owes /\ "irq1" \in cfg /\ "off2" \notin cfg
  /\ \/ Rest /\ "irq12" \in cfg
     \/ in = [to |-> "data", byte |-> Config(cfg \cup {"irq12"})] /\ expects = "60"
  /\ pc # "enable" => ready
  /\ pc \notin {"enable", "unmask"} => 2 \notin imr /\ 12 \notin imr

Front == Dark \cup {"hhdm", "vga", "gfx", "fbcon", "irq_save", "drain"}
Rear == {"enable", "unmask", "task", "current", "syscall", "shell"}
Spoken ==
  /\ {intr, owes, reporting, mixed, slow} \subseteq BOOLEAN
  /\ pc \in Front \cup {"dialogue", "give up"} \cup Rear
  /\ pc \in {"drain", "dialogue"} => ~intr
  /\ pc \in Front => Silent
  /\ ~mixed /\ ~slow => /\ pc # "give up"
                        /\ pc = "dialogue" => Talk
                        /\ pc \in Rear => Enabled

IInv == Order /\ Fresh /\ TypedRight /\ Spoken

-----------------------------------------------------------------------------
LEMMA MinOne ==
  ASSUME NEW k \in Int
  PROVE  Min({k}) = k
BY DEF Min

\* A handler's acknowledgement ends its service on both controllers.
LEMMA Acknowledged ==
  ASSUME isr = {}, NEW k \in {0, 1, 12}
  PROVE  pic_send_eoi(k, Served(k)) = {}
<1>1. CASE k \in {0, 1}
  <2>1. Served(k) = {k} /\ Served(k) \cap 0..7 = {k}
    BY <1>1 DEF Served
  <2>2. Highest({k}) = {k}
    BY <1>1, MinOne DEF Highest
  <2>. QED  BY <1>1, <2>1, <2>2 DEF pic_send_eoi
<1>2. CASE k = 12
  <2>1. Served(12) = {2, 12} /\ Served(12) \cap 0..7 = {2} /\ Served(12) \cap 8..15 = {12}
    BY DEF Served
  <2>2. Highest({2}) = {2} /\ Highest({12}) = {12}
    BY MinOne DEF Highest
  <2>. QED  BY <1>2, <2>1, <2>2 DEF pic_send_eoi
<1>. QED  BY <1>1, <1>2

\* Where the mouse's request is accepted the keyboard's, which goes first, is not pending.
LEMMA KeyboardFirst ==
  ASSUME Order, Accept(12)
  PROVE  1 \notin irr
BY DEF Order, Accept, Passes

-----------------------------------------------------------------------------
\* What kmain's calls do to Order, one by one, and that nothing else touches it.
LEMMA OrderStep ==
  ASSUME Order, [Next]_vars
  PROVE  Order'
<1>1. CASE UNCHANGED vars
  BY <1>1, Zenon DEF vars, pic, Order
<1>2. CASE gdt_init \/ idt_init \/ vmm_init \/ vga_enable
  BY <1>2 DEF gdt_init, idt_init, vmm_init, vga_enable, SetUp, pic, Order, Dark
<1>3. CASE pic_remap \/ irq_install
  BY <1>3 DEF pic_remap, irq_install, SetUp, Order, Dark
<1>4. CASE gfx_init \/ desktop_init
  BY <1>4 DEF gfx_init, desktop_init, SetUp, pic, Order, Dark
<1>5. CASE sched_init \/ syscall_init
  BY <1>5 DEF sched_init, syscall_init, SetUp, pic, Order, Dark
<1>6. CASE mouse_init
  <2>1. up' = up /\ isr' = isr /\ imr' \subseteq imr
    BY <1>6, Zenon DEF mouse_init, irq_save, DropStale, Poll, Send, Receive, mouse_off, mouse_on, pic_clear_mask, pic
  <2>2. pc \in {"irq_save", "drain", "dialogue", "give up", "enable", "unmask"}
    BY <1>6, Zenon DEF mouse_init, irq_save, DropStale, NotReady, Poll, Send, Receive, mouse_off, mouse_on, pic_clear_mask
  <2>3. pc' \in {"drain", "dialogue", "give up", "enable", "unmask", "task"}
    BY <1>6, Zenon DEF mouse_init, irq_save, DropStale, NotReady, Poll, NextOp, GiveUp, Send, Receive, mouse_off, mouse_on, pic_clear_mask
  <2>. QED  BY <2>1, <2>2, <2>3, Zenon DEF Order, Dark
<1>7. CASE TimerIrq \/ KeyboardIrq \/ MouseIrq
  <2>1. UNCHANGED <<pc, intr, up, imr>> /\ isr' = {}
    BY <1>7, Acknowledged DEF TimerIrq, KeyboardIrq, MouseIrq, Accept, Order
  <2>. QED  BY <2>1 DEF Order
<1>8. CASE Tick \/ Press \/ Report \/ Answer \/ Obey
  <2>1. UNCHANGED <<pc, intr, up, imr, isr>>
    BY <1>8 DEF Tick, Press, Report, Answer, Obey, Offer, Device
  <2>. QED  BY <2>1 DEF Order
<1>. QED  BY <1>1, <1>2, <1>3, <1>4, <1>5, <1>6, <1>7, <1>8 DEF Next, kmain

-----------------------------------------------------------------------------
\* Bytes that are told apart by their source.
LEMMA Sources ==
  /\ None.src = "none" /\ Ack.src = "aux" /\ Resend.src = "aux" /\ Move.src = "aux"
  /\ \A n : Key(n).src = "kbd" /\ Key(n).n = n
  /\ \A f : Config(f).src = "ctl"
  /\ \A b \in Scan : b.src = "kbd" => b.n \in Nat
BY DEF None, Ack, Resend, Move, Key, Config, Scan

\* Keys below a bound are below a larger one.
LEMMA BelowMore ==
  ASSUME typed \in Seq(Typed), NEW m \in Nat, NEW n \in Nat, m <= n, TypedBelow(m)
  PROVE  TypedBelow(n)
<1>1. \A k \in 1..Len(typed) : typed[k] \in Typed
  OBVIOUS
<1>2. \A k \in 1..Len(typed) : typed[k].byte.src = "kbd" => typed[k].byte.n \in Nat
  BY <1>1, Sources DEF Typed
<1>. QED  BY <1>2 DEF TypedBelow

\* A step that neither takes nor brings a byte, and raises no request.
LEMMA NoByte ==
  ASSUME Fresh, TypedRight, UNCHANGED <<typed, poked, keys, out, last>>,
         1 \in irr' => 1 \in irr /\ (pc' \in {"gdt", "idt", "pic"} \/ pc \notin {"gdt", "idt", "pic"})
  PROVE  Fresh' /\ TypedRight'
BY DEF Fresh, TypedRight, Scanned, TypedBelow

\* A byte that mouse_init or the mouse's handler takes is then the byte read last.
LEMMA ByteTaken ==
  ASSUME Fresh, TypedRight, out # None, Inb, typed' = typed, irr' \subseteq irr,
         poked' \in BOOLEAN, 1 \in irr' => poked'
  PROVE  Fresh' /\ TypedRight'
<1>1. UNCHANGED <<keys, typed>> /\ out' = None /\ last' = out
  BY DEF Inb, Taken, mouse
<1>2. TypedRight'
  BY <1>1 DEF TypedRight
<1>3. Scanned(out)' /\ Scanned(last)' /\ out'.src = "none"
  BY <1>1, Sources DEF Fresh, Scanned
<1>4. \A n : TypedBelow(n)' <=> TypedBelow(n)
  BY <1>1 DEF TypedBelow
<1>5. ASSUME last'.src = "kbd"
      PROVE  last'.n = keys /\ last'.n \in Nat /\ TypedBelow(last'.n) /\ TypedBelow(keys + 1)
  BY <1>1, <1>5 DEF Fresh
<1>. QED  BY <1>1, <1>2, <1>3, <1>4, <1>5 DEF Fresh

\* A byte that a device brings, and the requests it may raise.
LEMMA ByteBrought ==
  ASSUME Fresh, TypedRight, UNCHANGED <<pc, typed, poked, last>>, irr' = irr \cup Risen,
         \/ UNCHANGED <<out, keys>>
         \/ out = None /\ keys' = keys /\ \/ out'.src = "ctl" 
                                          \/ out' \in {Ack, Resend, Move}
         \/ out = None /\ keys' = keys + 1 /\ out' = Key(keys + 1)
  PROVE  Fresh' /\ TypedRight'
<1>1. TypedRight'
  BY DEF TypedRight
<1>2. \A n : TypedBelow(n)' <=> TypedBelow(n)
  BY DEF TypedBelow
<1>3. 1 \in irr' => 1 \in irr \/ out'.src \in {"kbd", "ctl"}
  BY DEF Risen, Lines
<1>4. 1 \in irr' /\ out' = None => 1 \in irr /\ out = None
  BY <1>3, Sources
<1>5. Scanned(out)' /\ Scanned(last)'
  BY Sources DEF Fresh, Scanned, Scan
<1>6. keys' \in Nat /\ keys' >= keys /\ TypedBelow(keys + 1) /\ TypedBelow(keys' + 1)
  BY BelowMore DEF Fresh
<1>7. out'.src = "kbd" => out'.n = keys' /\ TypedBelow(out'.n)
  BY <1>6, Sources DEF Fresh
<1>8. last.src = "kbd" => /\ last.n <= keys' /\ TypedBelow(last.n + 1)
                          /\ 1 \in irr' /\ out' = None => TypedBelow(last.n)
  BY <1>4, <1>6, Sources DEF Fresh, Scanned
<1>9. 1 \in irr' /\ pc \notin {"gdt", "idt", "pic"} => poked \/ out'.src \in {"kbd", "ctl"}
  BY <1>3, Sources DEF Fresh
<1>. QED  BY <1>1, <1>2, <1>5, <1>6, <1>7, <1>8, <1>9 DEF Fresh

\* The keyboard's handler types the byte in the 8042, or the one read last, and its request is gone.
LEMMA ByteTyped ==
  ASSUME Order, Fresh, TypedRight, KeyboardIrq
  PROVE  Fresh' /\ TypedRight'
<1>1. /\ UNCHANGED <<pc, keys>> /\ 1 \in irr /\ 1 \notin irr' /\ pc \notin Dark
      /\ out' = None /\ last' = Taken /\ poked' = FALSE
  BY DEF KeyboardIrq, Accept, Passes, Scancode, Inb, mouse, Order
<1>2. Scanned(out)' /\ Scanned(last)' /\ Scanned(Taken) /\ out'.src = "none"
  BY <1>1, Sources DEF Fresh, Scanned, Taken
<1>3. Taken.src = "kbd" => Taken.n \in Nat /\ Taken.n <= keys /\ TypedBelow(Taken.n)
  BY <1>1, <1>2, Sources DEF Fresh, Taken, Scanned
<1>4. Taken.src = "aux" => poked
  BY <1>1, Sources DEF Fresh, Taken, Dark
<1>5. CASE Taken.src \notin {"kbd", "aux"}
  <2>1. typed' = typed
    BY <1>5 DEF KeyboardIrq, Scancode
  <2>2. TypedRight' /\ TypedBelow(keys + 1)'
    BY <1>1, <2>1 DEF TypedRight, TypedBelow, Fresh
  <2>. QED  BY <1>1, <1>2, <1>5, <2>1, <2>2, Zenon DEF Fresh
<1>6. CASE Taken.src \in {"kbd", "aux"}
  <2>. DEFINE e == [byte |-> Taken, poked |-> poked]
  <2>1. typed' = Append(typed, e)
    BY <1>6 DEF KeyboardIrq, Scancode
  <2>2. e \in Typed /\ e.byte = Taken /\ e.poked = poked
    BY <1>2, <1>6 DEF Fresh, Scanned, Typed
  <2>. HIDE DEF e
  <2>3. /\ typed \in Seq(Typed) /\ typed' \in Seq(Typed) /\ Len(typed') = Len(typed) + 1 /\ Len(typed) \in Nat
        /\ typed'[Len(typed) + 1] = e /\ \A k \in 1..Len(typed) : typed'[k] = typed[k]
    BY <2>1, <2>2 DEF Fresh
  <2>4. \A k \in 1..Len(typed') : k \in 1..Len(typed) \/ typed'[k] = e
    BY <2>3
  <2>5. TypedRight'
    <3>. SUFFICES ASSUME NEW k \in 1..Len(typed')
                  PROVE  /\ typed'[k].byte.src = "aux" => typed'[k].poked
                         /\ \A j \in 1..k - 1 : typed'[k].byte.src = "kbd" /\ typed'[j].byte.src = "kbd" =>
                                                  typed'[j].byte.n < typed'[k].byte.n
      BY DEF TypedRight
    <3>1. CASE k \in 1..Len(typed)
      <4>1. typed'[k] = typed[k] /\ \A j \in 1..k - 1 : j \in 1..Len(typed) /\ typed'[j] = typed[j]
        BY <2>3, <3>1
      <4>. QED  BY <3>1, <4>1 DEF TypedRight
    <3>2. CASE k = Len(typed) + 1
      <4>1. typed'[k] = e /\ \A j \in 1..k - 1 : j \in 1..Len(typed) /\ typed'[j] = typed[j]
        BY <2>3, <3>2
      <4>. QED  BY <1>3, <1>4, <2>2, <4>1 DEF TypedBelow
    <3>. QED  BY <2>3, <3>1, <3>2
  <2>6. ASSUME NEW n \in Nat, TypedBelow(n), Taken.src = "kbd" => Taken.n < n
        PROVE  TypedBelow(n)'
    BY <2>2, <2>3, <2>4, <2>6 DEF TypedBelow
  <2>7. TypedBelow(keys + 1)'
    BY <1>1, <1>3, <2>6 DEF Fresh
  <2>8. last'.src = "kbd" => last'.n <= keys' /\ TypedBelow(last.n + 1)'
    <3>. SUFFICES ASSUME last'.src = "kbd" PROVE last'.n <= keys' /\ TypedBelow(last.n + 1)'
      OBVIOUS
    <3>1. last'.n = Taken.n /\ Taken.n \in Nat /\ Taken.n < Taken.n + 1 /\ Taken.n <= keys
      BY <1>1, <1>3
    <3>2. TypedBelow(Taken.n + 1)
      BY <1>1, <1>3, <2>3, <3>1, BelowMore
    <3>3. \A k \in 1..Len(typed') : typed'[k].byte.src = "kbd" => typed'[k].byte.n < Taken.n + 1
      BY <2>2, <2>3, <2>4, <3>1, <3>2 DEF TypedBelow
    <3>. QED  BY <1>1, <3>1, <3>3 DEF TypedBelow
  <2>9. (1 \in irr /\ pc \notin {"gdt", "idt", "pic"} => poked \/ out.src \in {"kbd", "ctl"})'
    BY <1>1
  <2>10. keys' \in Nat /\ poked' \in BOOLEAN /\ (out.src = "kbd" => out.n = keys /\ TypedBelow(out.n))'
    BY <1>1, <1>2, Zenon DEF Fresh
  <2>. QED  BY <1>1, <1>2, <2>3, <2>5, <2>7, <2>8, <2>9, <2>10 DEF Fresh
<1>. QED  BY <1>5, <1>6

-----------------------------------------------------------------------------
LEMMA FreshStep ==
  ASSUME Order, Fresh, TypedRight, [Next]_vars
  PROVE  Fresh' /\ TypedRight'
<1>1. CASE UNCHANGED vars
  BY <1>1, NoByte DEF vars, pic, ps2, mouse, ghosts
<1>2. CASE gdt_init \/ idt_init \/ vmm_init \/ vga_enable \/ gfx_init \/ desktop_init \/ sched_init \/ syscall_init
  <2>1. UNCHANGED <<typed, poked, keys, out, last, irr>>
    BY <1>2 DEF gdt_init, idt_init, vmm_init, vga_enable, gfx_init, desktop_init, sched_init, syscall_init,
                SetUp, Quiet, pic, ps2, mouse, ghosts
  <2>2. pc' \in {"gdt", "idt", "pic"} \/ pc \notin {"gdt", "idt", "pic"}
    BY <1>2 DEF gdt_init, idt_init, vmm_init, vga_enable, gfx_init, desktop_init, sched_init, syscall_init, SetUp
  <2>. QED  BY <2>1, <2>2, NoByte
<1>3. CASE pic_remap \/ irq_install
  BY <1>3, NoByte DEF pic_remap, irq_install, SetUp, Quiet, ps2, mouse, ghosts
<1>4. CASE irq_save \/ Poll \/ Send \/ mouse_off \/ mouse_on \/ pic_clear_mask
  <2>1. UNCHANGED <<typed, poked, keys, out, last, irr>>
    BY <1>4, Zenon DEF irq_save, Poll, Send, mouse_off, mouse_on, pic_clear_mask, Quiet, pic, ps2, mouse, ghosts
  <2>2. pc \notin {"gdt", "idt", "pic"}
    BY <1>4, Zenon DEF irq_save, Poll, NotReady, Send, mouse_off, mouse_on, pic_clear_mask
  <2>. QED  BY <2>1, <2>2, NoByte
<1>5. CASE DropStale
  <2>1. CASE out # None /\ Inb /\ poked' = (poked \/ 1 \in irr)
    BY <1>5, <2>1, ByteTaken, Zenon DEF DropStale, pic, Fresh
  <2>2. CASE UNCHANGED <<ps2, poked>>
    BY <1>5, <2>2, NoByte DEF DropStale, pic, ps2, mouse
  <2>. QED  BY <1>5, <2>1, <2>2 DEF DropStale
<1>6. CASE Receive
  BY <1>6, ByteTaken, Zenon DEF Receive, pic, Fresh
<1>7. CASE TimerIrq
  BY <1>7, NoByte DEF TimerIrq, Accept, ps2, mouse
<1>8. CASE KeyboardIrq
  BY <1>8, ByteTyped
<1>9. CASE MouseIrq
  <2>1. 1 \notin irr /\ irr' \subseteq irr /\ UNCHANGED <<pc, typed, poked>>
    BY <1>9, KeyboardFirst DEF MouseIrq, Accept
  <2>2. CASE out = None
    BY <1>9, <2>1, <2>2, NoByte DEF MouseIrq, ps2, mouse
  <2>3. CASE out # None
    BY <1>9, <2>1, <2>3, ByteTaken DEF MouseIrq, Fresh
  <2>. QED  BY <2>2, <2>3
<1>10. CASE Tick
  BY <1>10, NoByte DEF Tick, ps2, mouse, ghosts
<1>11. CASE Press \/ Report \/ Answer
  BY <1>11, ByteBrought DEF Press, Report, Answer, Offer, Device, ghosts
<1>12. CASE Obey
  <2>1. UNCHANGED <<pc, typed, poked, last>> /\ irr' = irr \cup Risen
    BY <1>12 DEF Obey, Device, ghosts
  <2>2. keys' = keys /\ (out' = out \/ (out = None /\ out'.src = "ctl"))
    BY <1>12, Sources DEF Obey, mouse
  <2>. QED  BY <2>1, <2>2, ByteBrought
<1>. QED  BY <1>1, <1>2, <1>3, <1>4, <1>5, <1>6, <1>7, <1>8, <1>9, <1>10, <1>11, <1>12
          DEF Next, kmain, mouse_init

-----------------------------------------------------------------------------
\* Bytes and messages that are told apart.
LEMMA Messages ==
  /\ \A t, b : [to |-> t, byte |-> b] # None /\ [to |-> t, byte |-> b].to = t /\ [to |-> t, byte |-> b].byte = b
  /\ \A b : Plain(b).byte = b /\ Plain(b).src = "cpu"
  /\ \A f : Config(f).flags = f /\ Config(f) # None
  /\ Ack # Resend /\ Ack # Move /\ Resend # Move /\ Ack # None /\ Resend # None /\ Move # None
BY DEF None, Plain, Config, Ack, Resend, Move

\* Where the elements of two sequences are after they were joined.
LEMMA Concat ==
  ASSUME NEW S, NEW s \in Seq(S), NEW t \in Seq(S)
  PROVE  /\ s \o t \in Seq(S) /\ Len(s \o t) = Len(s) + Len(t)
         /\ \A m \in 1..Len(s) + Len(t) : (s \o t)[m] = IF m <= Len(s) THEN s[m] ELSE t[m - Len(s)]
OBVIOUS

LEMMA Single ==
  ASSUME NEW S, NEW x \in S
  PROVE  <<x>> \in Seq(S) /\ Len(<<x>>) = 1 /\ \A m \in 1..1 : <<x>>[m] = x
OBVIOUS

\* The messages of the dialogue.
CmdA8 == [op |-> "send", to |-> "cmd", byte |-> "A8"]
Cmd20 == [op |-> "send", to |-> "cmd", byte |-> "20"]
Cmd60 == [op |-> "send", to |-> "cmd", byte |-> "60"]
CmdD4 == [op |-> "send", to |-> "cmd", byte |-> "D4"]
DataClock == [op |-> "send", to |-> "data", byte |-> "clock on"]
DataIrq == [op |-> "send", to |-> "data", byte |-> "irq on"]
DataF6 == [op |-> "send", to |-> "data", byte |-> "F6"]
DataF4 == [op |-> "send", to |-> "data", byte |-> "F4"]
HearConfig == [op |-> "await", for |-> "config"]
HearAck == [op |-> "await", for |-> "ack"]
Said == {CmdA8, Cmd20, Cmd60, CmdD4, DataClock, DataIrq, DataF6, DataF4, HearConfig, HearAck}

IsPair(d, x, y) == d \in Seq(Said) /\ Len(d) = 2 /\ \A m \in 1..2 : (m = 1 => d[m] = x) /\ (m = 2 => d[m] = y)
IsTriple(d, x, y, z) ==
  /\ d \in Seq(Said) /\ Len(d) = 3
  /\ \A m \in 1..3 : (m = 1 => d[m] = x) /\ (m = 2 => d[m] = y) /\ (m = 3 => d[m] = z)

LEMMA Pair ==
  ASSUME NEW x \in Said, NEW y \in Said
  PROVE  IsPair(<<x>> \o <<y>>, x, y)
<1>. DEFINE s == <<x>>
            t == <<y>>
            e == s \o t
<1>1. /\ s \in Seq(Said) /\ Len(s) = 1 /\ \A m \in 1..1 : s[m] = x
      /\ t \in Seq(Said) /\ Len(t) = 1 /\ \A m \in 1..1 : t[m] = y
  BY Single, Zenon
<1>. HIDE DEF s, t
<1>3. /\ e \in Seq(Said) /\ Len(e) = Len(s) + Len(t)
      /\ \A m \in 1..Len(s) + Len(t) : e[m] = IF m <= Len(s) THEN s[m] ELSE t[m - Len(s)]
  BY <1>1, Concat, Zenon
<1>. HIDE DEF e
<1>4. Len(e) = 2 /\ \A m \in 1..2 : (m = 1 => e[m] = x) /\ (m = 2 => e[m] = y)
  BY <1>1, <1>3
<1>. QED  BY <1>3, <1>4, Zenon DEF IsPair, e, s, t

LEMMA Triple ==
  ASSUME NEW x \in Said, NEW y \in Said, NEW z \in Said
  PROVE  IsTriple(<<x>> \o <<y>> \o <<z>>, x, y, z)
<1>. DEFINE s == <<x>> \o <<y>>
            t == <<z>>
            e == s \o t
<1>1. s \in Seq(Said) /\ Len(s) = 2 /\ \A m \in 1..2 : (m = 1 => s[m] = x) /\ (m = 2 => s[m] = y)
  <2>1. IsPair(s, x, y)
    BY Pair, Zenon
  <2>. QED  BY <2>1, Zenon DEF IsPair
<1>2. t \in Seq(Said) /\ Len(t) = 1 /\ \A m \in 1..1 : t[m] = z
  BY Single, Zenon
<1>. HIDE DEF s, t
<1>4. /\ e \in Seq(Said) /\ Len(e) = Len(s) + Len(t)
      /\ \A m \in 1..Len(s) + Len(t) : e[m] = IF m <= Len(s) THEN s[m] ELSE t[m - Len(s)]
  BY <1>1, <1>2, Concat, Zenon
<1>. HIDE DEF e
<1>5. Len(e) = 3 /\ \A m \in 1..3 : (m = 1 => e[m] = x) /\ (m = 2 => e[m] = y) /\ (m = 3 => e[m] = z)
  BY <1>1, <1>2, <1>4
<1>. QED  BY <1>4, <1>5, Zenon DEF IsTriple, e, s, t

LEMMA Parts ==
  /\ ctrl_cmd("A8") \in Seq(Said) /\ Len(ctrl_cmd("A8")) = 1 /\ \A m \in 1..1 : ctrl_cmd("A8")[m] = CmdA8
  /\ IsPair(read_config, Cmd20, HearConfig)
  /\ IsPair(write_config("clock on"), Cmd60, DataClock) /\ IsPair(write_config("irq on"), Cmd60, DataIrq)
  /\ IsTriple(mouse_write("F6"), CmdD4, DataF6, HearAck) /\ IsTriple(mouse_write("F4"), CmdD4, DataF4, HearAck)
<1>1. CmdA8 \in Said /\ Cmd20 \in Said /\ Cmd60 \in Said /\ CmdD4 \in Said /\ DataClock \in Said
      /\ DataIrq \in Said /\ DataF6 \in Said /\ DataF4 \in Said /\ HearConfig \in Said /\ HearAck \in Said
  BY Zenon DEF Said
<1>4. ctrl_cmd("A8") = <<CmdA8>>
  BY Zenon DEF ctrl_cmd, CmdA8
<1>5. read_config = <<Cmd20>> \o <<HearConfig>>
  BY Zenon DEF read_config, ctrl_cmd, Await, Cmd20, HearConfig
<1>6. write_config("clock on") = <<Cmd60>> \o <<DataClock>> /\ write_config("irq on") = <<Cmd60>> \o <<DataIrq>>
  BY Zenon DEF write_config, ctrl_cmd, Data, Cmd60, DataClock, DataIrq
<1>7. /\ mouse_write("F6") = <<CmdD4>> \o <<DataF6>> \o <<HearAck>>
      /\ mouse_write("F4") = <<CmdD4>> \o <<DataF4>> \o <<HearAck>>
  BY Zenon DEF mouse_write, ctrl_cmd, Data, Await, CmdD4, DataF6, DataF4, HearAck
<1>8. IsPair(read_config, Cmd20, HearConfig)
  BY <1>1, <1>5, Pair, Zenon
<1>9. IsPair(write_config("clock on"), Cmd60, DataClock)
  BY <1>1, <1>6, Pair, Zenon
<1>10. IsPair(write_config("irq on"), Cmd60, DataIrq)
  BY <1>1, <1>6, Pair, Zenon
<1>11. IsTriple(mouse_write("F6"), CmdD4, DataF6, HearAck)
  BY <1>1, <1>7, Triple, Zenon
<1>12. IsTriple(mouse_write("F4"), CmdD4, DataF4, HearAck)
  BY <1>1, <1>7, Triple, Zenon
<1>. QED  BY <1>1, <1>4, <1>8, <1>9, <1>10, <1>11, <1>12, Single, Zenon

\* The dialogue, place by place.
LEMMA Places ==
  /\ Len(Dialogue) = 15
  /\ \A m \in 1..15 :
       /\ (m = 1 => Dialogue[m] = CmdA8) /\ (m \in {2, 12} => Dialogue[m] = Cmd20)
       /\ (m \in {3, 13} => Dialogue[m] = HearConfig) /\ (m \in {4, 14} => Dialogue[m] = Cmd60)
       /\ (m = 5 => Dialogue[m] = DataClock) /\ (m = 15 => Dialogue[m] = DataIrq)
       /\ (m \in {6, 9} => Dialogue[m] = CmdD4) /\ (m \in {8, 11} => Dialogue[m] = HearAck)
       /\ (m = 7 => Dialogue[m] = DataF6) /\ (m = 10 => Dialogue[m] = DataF4)
<1>. DEFINE a == ctrl_cmd("A8")
            r == read_config
            w == write_config("clock on")
            f == mouse_write("F6")
            g == mouse_write("F4")
            v == write_config("irq on")
<1>a. a \in Seq(Said)
  BY Parts, Zenon DEF IsPair, IsTriple
<1>r. r \in Seq(Said)
  BY Parts, Zenon DEF IsPair, IsTriple
<1>w. w \in Seq(Said)
  BY Parts, Zenon DEF IsPair, IsTriple
<1>f. f \in Seq(Said)
  BY Parts, Zenon DEF IsPair, IsTriple
<1>g. g \in Seq(Said)
  BY Parts, Zenon DEF IsPair, IsTriple
<1>v. v \in Seq(Said)
  BY Parts, Zenon DEF IsPair, IsTriple
<1>1. Len(a) = 1 /\ Len(r) = 2 /\ Len(w) = 2 /\ Len(f) = 3 /\ Len(g) = 3 /\ Len(v) = 2
  BY Parts, Zenon DEF IsPair, IsTriple
<1>2. /\ \A m \in 1..1 : a[m] = CmdA8
      /\ \A m \in 1..2 : (m = 1 => r[m] = Cmd20) /\ (m = 2 => r[m] = HearConfig)
      /\ \A m \in 1..2 : (m = 1 => w[m] = Cmd60) /\ (m = 2 => w[m] = DataClock)
      /\ \A m \in 1..2 : (m = 1 => v[m] = Cmd60) /\ (m = 2 => v[m] = DataIrq)
      /\ \A m \in 1..3 : (m = 1 => f[m] = CmdD4) /\ (m = 2 => f[m] = DataF6) /\ (m = 3 => f[m] = HearAck)
      /\ \A m \in 1..3 : (m = 1 => g[m] = CmdD4) /\ (m = 2 => g[m] = DataF4) /\ (m = 3 => g[m] = HearAck)
  BY Parts, Zenon DEF IsPair, IsTriple
<1>. DEFINE d3 == a \o r
            d5 == d3 \o w
            d8 == d5 \o f
            d11 == d8 \o g
            d13 == d11 \o r
            d15 == d13 \o v
<1>3. Dialogue = d15
  BY DEF Dialogue
<1>. HIDE DEF a, r, w, f, g, v
<1>d3. d3 \in Seq(Said)
  BY <1>a, <1>r, Concat, Zenon
<1>4. /\ Len(d3) = Len(a) + Len(r)
      /\ \A m \in 1..Len(a) + Len(r) : d3[m] = IF m <= Len(a) THEN a[m] ELSE r[m - Len(a)]
  BY <1>a, <1>r, Concat, Zenon
<1>. HIDE DEF d3
<1>5. Len(d3) = 3 /\ \A m \in 1..3 : (m <= 1 => d3[m] = a[m]) /\ (m > 1 => d3[m] = r[m - 1])
  BY <1>1, <1>4
<1>d5. d5 \in Seq(Said)
  BY <1>d3, <1>w, Concat, Zenon
<1>6. /\ Len(d5) = Len(d3) + Len(w)
      /\ \A m \in 1..Len(d3) + Len(w) : d5[m] = IF m <= Len(d3) THEN d3[m] ELSE w[m - Len(d3)]
  BY <1>d3, <1>w, Concat, Zenon
<1>. HIDE DEF d5
<1>7. Len(d5) = 5 /\ \A m \in 1..5 : (m <= 3 => d5[m] = d3[m]) /\ (m > 3 => d5[m] = w[m - 3])
  BY <1>1, <1>5, <1>6
<1>d8. d8 \in Seq(Said)
  BY <1>d5, <1>f, Concat, Zenon
<1>8. /\ Len(d8) = Len(d5) + Len(f)
      /\ \A m \in 1..Len(d5) + Len(f) : d8[m] = IF m <= Len(d5) THEN d5[m] ELSE f[m - Len(d5)]
  BY <1>d5, <1>f, Concat, Zenon
<1>. HIDE DEF d8
<1>9. Len(d8) = 8 /\ \A m \in 1..8 : (m <= 5 => d8[m] = d5[m]) /\ (m > 5 => d8[m] = f[m - 5])
  BY <1>1, <1>7, <1>8
<1>d11. d11 \in Seq(Said)
  BY <1>d8, <1>g, Concat, Zenon
<1>10. /\ Len(d11) = Len(d8) + Len(g)
      /\ \A m \in 1..Len(d8) + Len(g) : d11[m] = IF m <= Len(d8) THEN d8[m] ELSE g[m - Len(d8)]
  BY <1>d8, <1>g, Concat, Zenon
<1>. HIDE DEF d11
<1>11. Len(d11) = 11 /\ \A m \in 1..11 : (m <= 8 => d11[m] = d8[m]) /\ (m > 8 => d11[m] = g[m - 8])
  BY <1>1, <1>9, <1>10
<1>d13. d13 \in Seq(Said)
  BY <1>d11, <1>r, Concat, Zenon
<1>12. /\ Len(d13) = Len(d11) + Len(r)
      /\ \A m \in 1..Len(d11) + Len(r) : d13[m] = IF m <= Len(d11) THEN d11[m] ELSE r[m - Len(d11)]
  BY <1>d11, <1>r, Concat, Zenon
<1>. HIDE DEF d13
<1>13. Len(d13) = 13 /\ \A m \in 1..13 : (m <= 11 => d13[m] = d11[m]) /\ (m > 11 => d13[m] = r[m - 11])
  BY <1>1, <1>11, <1>12
<1>d15. d15 \in Seq(Said)
  BY <1>d13, <1>v, Concat, Zenon
<1>14. /\ Len(d15) = Len(d13) + Len(v)
      /\ \A m \in 1..Len(d13) + Len(v) : d15[m] = IF m <= Len(d13) THEN d13[m] ELSE v[m - Len(d13)]
  BY <1>d13, <1>v, Concat, Zenon
<1>. HIDE DEF d15
<1>15. Len(d15) = 15 /\ \A m \in 1..15 : (m <= 13 => d15[m] = d13[m]) /\ (m > 13 => d15[m] = v[m - 13])
  BY <1>1, <1>13, <1>14
<1>. SUFFICES ASSUME NEW m \in 1..15
              PROVE  /\ (m = 1 => d15[m] = CmdA8) /\ (m \in {2, 12} => d15[m] = Cmd20)
                     /\ (m \in {3, 13} => d15[m] = HearConfig) /\ (m \in {4, 14} => d15[m] = Cmd60)
                     /\ (m = 5 => d15[m] = DataClock) /\ (m = 15 => d15[m] = DataIrq)
                     /\ (m \in {6, 9} => d15[m] = CmdD4) /\ (m \in {8, 11} => d15[m] = HearAck)
                     /\ (m = 7 => d15[m] = DataF6) /\ (m = 10 => d15[m] = DataF4)
  BY <1>3, <1>15, Zenon
<1>16. m \in 14..15 => d15[m] = v[m - 13] /\ m - 13 \in 1..2
  BY <1>15
<1>17. m \in 12..13 => d15[m] = r[m - 11] /\ m - 11 \in 1..2
  BY <1>13, <1>15
<1>18. m \in 9..11 => d15[m] = g[m - 8] /\ m - 8 \in 1..3
  BY <1>11, <1>13, <1>15
<1>19. m \in 6..8 => d15[m] = f[m - 5] /\ m - 5 \in 1..3
  BY <1>9, <1>11, <1>13, <1>15
<1>20. m \in 4..5 => d15[m] = w[m - 3] /\ m - 3 \in 1..2
  BY <1>7, <1>9, <1>11, <1>13, <1>15
<1>21. m \in 2..3 => d15[m] = r[m - 1] /\ m - 1 \in 1..2
  BY <1>5, <1>7, <1>9, <1>11, <1>13, <1>15
<1>22. m = 1 => d15[m] = a[m]
  BY <1>5, <1>7, <1>9, <1>11, <1>13, <1>15
<1>23. m \in {1, 2, 3, 12, 13} => /\ m = 1 => d15[m] = CmdA8
                                  /\ m \in {2, 12} => d15[m] = Cmd20
                                  /\ m \in {3, 13} => d15[m] = HearConfig
  BY <1>2, <1>17, <1>21, <1>22
<1>24. m \in {4, 5, 14, 15} => /\ m \in {4, 14} => d15[m] = Cmd60
                               /\ m = 5 => d15[m] = DataClock
                               /\ m = 15 => d15[m] = DataIrq
  BY <1>2, <1>16, <1>20
<1>25. m \in 6..11 => /\ m \in {6, 9} => d15[m] = CmdD4
                      /\ m = 7 => d15[m] = DataF6
                      /\ m = 10 => d15[m] = DataF4
                      /\ m \in {8, 11} => d15[m] = HearAck
  BY <1>2, <1>18, <1>19
<1>. QED  BY <1>23, <1>24, <1>25

-----------------------------------------------------------------------------
\* What mouse_init puts into the controller's input at each place.
LEMMA Bytes ==
  /\ \A b \in {"A8", "20", "60", "D4", "F6", "F4"} : Byte(b) = Plain(b)
  /\ Byte("clock on") = Config(local \ {"off2"}) /\ Byte("irq on") = Config(local \cup {"irq12"})
BY DEF Byte

LEMMA Input ==
  ASSUME at \in 1..15, Dialogue[at].op = "send", NEW x, x = [to |-> Dialogue[at].to, byte |-> Byte(Dialogue[at].byte)]
  PROVE  /\ at \notin {3, 8, 11, 13}
         /\ at = 1 => x = [to |-> "cmd", byte |-> Plain("A8")]
         /\ at \in {2, 12} => x = [to |-> "cmd", byte |-> Plain("20")]
         /\ at \in {4, 14} => x = [to |-> "cmd", byte |-> Plain("60")]
         /\ at = 5 => x = [to |-> "data", byte |-> Config(local \ {"off2"})]
         /\ at \in {6, 9} => x = [to |-> "cmd", byte |-> Plain("D4")]
         /\ at = 7 => x = [to |-> "data", byte |-> Plain("F6")]
         /\ at = 10 => x = [to |-> "data", byte |-> Plain("F4")]
         /\ at = 15 => x = [to |-> "data", byte |-> Config(local \cup {"irq12"})]
<1>1. at \notin {3, 8, 11, 13}
  BY Places DEF HearConfig, HearAck
<1>2. /\ CmdA8.to = "cmd" /\ CmdA8.byte = "A8" /\ Cmd20.to = "cmd" /\ Cmd20.byte = "20"
      /\ Cmd60.to = "cmd" /\ Cmd60.byte = "60" /\ CmdD4.to = "cmd" /\ CmdD4.byte = "D4"
      /\ DataClock.to = "data" /\ DataClock.byte = "clock on" /\ DataIrq.to = "data" /\ DataIrq.byte = "irq on"
      /\ DataF6.to = "data" /\ DataF6.byte = "F6" /\ DataF4.to = "data" /\ DataF4.byte = "F4"
  BY DEF CmdA8, Cmd20, Cmd60, CmdD4, DataClock, DataIrq, DataF6, DataF4
<1>3. /\ Byte(CmdA8.byte) = Plain("A8") /\ Byte(Cmd20.byte) = Plain("20") /\ Byte(Cmd60.byte) = Plain("60")
      /\ Byte(CmdD4.byte) = Plain("D4") /\ Byte(DataF6.byte) = Plain("F6") /\ Byte(DataF4.byte) = Plain("F4")
      /\ Byte(DataClock.byte) = Config(local \ {"off2"}) /\ Byte(DataIrq.byte) = Config(local \cup {"irq12"})
  BY <1>2, Bytes, Zenon
<1>4. at = 1 => x = [to |-> "cmd", byte |-> Plain("A8")]
  <2>1. at = 1 => Dialogue[at] = CmdA8
    BY Places
  <2>. QED  BY <1>2, <1>3, <2>1, Zenon
<1>5. at \in {2, 12} => x = [to |-> "cmd", byte |-> Plain("20")]
  <2>1. at \in {2, 12} => Dialogue[at] = Cmd20
    BY Places
  <2>. QED  BY <1>2, <1>3, <2>1, Zenon
<1>6. at \in {4, 14} => x = [to |-> "cmd", byte |-> Plain("60")]
  <2>1. at \in {4, 14} => Dialogue[at] = Cmd60
    BY Places
  <2>. QED  BY <1>2, <1>3, <2>1, Zenon
<1>7. at = 5 => x = [to |-> "data", byte |-> Config(local \ {"off2"})]
  <2>1. at = 5 => Dialogue[at] = DataClock
    BY Places
  <2>. QED  BY <1>2, <1>3, <2>1, Zenon
<1>8. at \in {6, 9} => x = [to |-> "cmd", byte |-> Plain("D4")]
  <2>1. at \in {6, 9} => Dialogue[at] = CmdD4
    BY Places
  <2>. QED  BY <1>2, <1>3, <2>1, Zenon
<1>9. at = 7 => x = [to |-> "data", byte |-> Plain("F6")]
  <2>1. at = 7 => Dialogue[at] = DataF6
    BY Places
  <2>. QED  BY <1>2, <1>3, <2>1, Zenon
<1>10. at = 10 => x = [to |-> "data", byte |-> Plain("F4")]
  <2>1. at = 10 => Dialogue[at] = DataF4
    BY Places
  <2>. QED  BY <1>2, <1>3, <2>1, Zenon
<1>11. at = 15 => x = [to |-> "data", byte |-> Config(local \cup {"irq12"})]
  <2>1. at = 15 => Dialogue[at] = DataIrq
    BY Places
  <2>. QED  BY <1>2, <1>3, <2>1, Zenon
<1>. QED  BY <1>1, <1>4, <1>5, <1>6, <1>7, <1>8, <1>9, <1>10, <1>11, Zenon

\* mouse_init sends: what is then on its way is the message of the place it has left.
LEMMA SendStep ==
  ASSUME Talk, Send
  PROVE  /\ pc' = "dialogue" => Talk'
         /\ pc' # "dialogue" => /\ pc' = "enable" /\ reporting' /\ ~owes' /\ "irq1" \in cfg' /\ "off2" \notin cfg'
                                /\ in' = [to |-> "data", byte |-> Config(cfg' \cup {"irq12"})] /\ expects' = "60"
<1>. USE DEF Talk
<1>1. /\ in = None /\ at \in 1..15 /\ at' = at + 1 /\ UNCHANGED <<cfg, out, expects, owes, reporting, local>>
      /\ pc' = IF at = 15 THEN "enable" ELSE "dialogue"
      /\ in' = [to |-> Dialogue[at].to, byte |-> Byte(Dialogue[at].byte)] /\ Dialogue[at].op = "send"
  BY Places DEF Send, NextOp, Op, mouse
<1>2. /\ at \notin {3, 8, 11, 13}
      /\ at = 1 => in' = [to |-> "cmd", byte |-> Plain("A8")]
      /\ at \in {2, 12} => in' = [to |-> "cmd", byte |-> Plain("20")]
      /\ at \in {4, 14} => in' = [to |-> "cmd", byte |-> Plain("60")]
      /\ at = 5 => in' = [to |-> "data", byte |-> Config(local \ {"off2"})]
      /\ at \in {6, 9} => in' = [to |-> "cmd", byte |-> Plain("D4")]
      /\ at = 7 => in' = [to |-> "data", byte |-> Plain("F6")]
      /\ at = 10 => in' = [to |-> "data", byte |-> Plain("F4")]
      /\ at = 15 => in' = [to |-> "data", byte |-> Config(local \cup {"irq12"})]
  BY <1>1, Input, Zenon
<1>3. in' # None
  BY <1>1, Messages, Zenon
<1>4. \A c : ~Command(c)
  BY <1>1, Messages, Zenon DEF Command
<1>5. /\ at \in {1, 2, 4, 6, 9, 12, 14} => expects = "none"
      /\ at = 2 => "off2" \notin cfg
      /\ at \in {5, 15} => expects = "60"
      /\ at \in {7, 10} => expects = "D4"
  BY <1>1, <1>4, Messages DEF Rest, Obeyed
<1>6. ~owes /\ out.src # "ctl" /\ (out.src = "aux" => at >= 12 /\ out = Move) /\ (reporting <=> at >= 12)
  BY <1>2
<1>7. ASSUME pc' = "dialogue"
      PROVE  Talk'
  <2>1. /\ at' \in 1..15 /\ "irq1" \in cfg' /\ (at' >= 3 => "off2" \notin cfg')
        /\ at' \in {4, 5, 6, 14, 15} => local' = cfg'
        /\ reporting' <=> (at' >= 12 \/ (at' = 11 /\ in' = None))
    BY <1>1, <1>2, <1>3, <1>5, <1>6, <1>7, SMTT(30)
  <2>2. at' \notin {1, 4, 9, 12, 14}
    BY <1>1, <1>2
  <2>4. /\ at' = 2 => Command("A8")'
        /\ at' \in {3, 13} => Command("20")'
        /\ at' \in {5, 15} => Command("60")'
        /\ at' \in {7, 10} => Command("D4")'
    BY <1>1, <1>2, <1>5, SMTT(30) DEF Command
  <2>5. at' = 6 => in' = [to |-> "data", byte |-> Config(cfg')] /\ expects' = "60"
    <3>1. at = 5 => local \ {"off2"} = cfg
      OBVIOUS
    <3>. QED  BY <1>1, <1>2, <1>5, <3>1
  <2>6. /\ at' = 8 => in' = [to |-> "data", byte |-> Plain("F6")] /\ expects' = "D4"
        /\ at' = 11 => in' = [to |-> "data", byte |-> Plain("F4")] /\ expects' = "D4"
    BY <1>1, <1>2, <1>5
  <2>7. ~owes' /\ out'.src # "ctl" /\ (out'.src = "aux" => at' >= 12 /\ out' = Move)
    BY <1>1, <1>6
  <2>. QED  BY <2>1, <2>2, <2>4, <2>5, <2>6, <2>7, SMTT(30)
<1>8. ASSUME pc' # "dialogue"
      PROVE  /\ pc' = "enable" /\ reporting' /\ ~owes' /\ "irq1" \in cfg' /\ "off2" \notin cfg'
             /\ in' = [to |-> "data", byte |-> Config(cfg' \cup {"irq12"})] /\ expects' = "60"
  <2>1. at = 15 /\ pc' = "enable" /\ local = cfg
    BY <1>1, <1>8
  <2>2. reporting' /\ ~owes' /\ "irq1" \in cfg' /\ "off2" \notin cfg' /\ expects' = "60"
    BY <1>1, <1>5, <1>6, <2>1
  <2>. QED  BY <1>1, <1>2, <2>1, <2>2
<1>. QED  BY <1>7, <1>8, Zenon

\* Where mouse_init waits, and what for.
LEMMA Awaits ==
  /\ \A m \in 1..15 : Dialogue[m].op # "send" => m \in {3, 8, 11, 13}
  /\ \A m \in {3, 13} : Dialogue[m].for = "config"
  /\ \A m \in {8, 11} : Dialogue[m].for = "ack"
<1>1. /\ CmdA8.op = "send" /\ Cmd20.op = "send" /\ Cmd60.op = "send" /\ CmdD4.op = "send"
      /\ DataClock.op = "send" /\ DataIrq.op = "send" /\ DataF6.op = "send" /\ DataF4.op = "send"
  BY DEF CmdA8, Cmd20, Cmd60, CmdD4, DataClock, DataIrq, DataF6, DataF4
<1>2. HearConfig.for = "config" /\ HearAck.for = "ack"
  BY DEF HearConfig, HearAck
<1>3. \A m \in 1..15 : m \in {1, 2, 4, 5, 6, 7, 9, 10, 12, 14, 15} \/ m \in {3, 8, 11, 13}
  OBVIOUS
<1>4. \A m \in {1, 2, 4, 5, 6, 7, 9, 10, 12, 14, 15} : Dialogue[m].op = "send"
  BY <1>1, Places, SMTT(30)
<1>. QED  BY <1>2, <1>3, <1>4, Places

\* It takes an answer: the configuration as it is, or the mouse's ACK.
LEMMA ReceiveStep ==
  ASSUME Talk, Receive, ~mixed', ~slow'
  PROVE  pc' = "dialogue" /\ Talk'
<1>. USE DEF Talk
<1>1. /\ at \in 1..15 /\ Dialogue[at].op = "await" /\ out # None /\ out' = None
      /\ UNCHANGED <<cfg, in, expects, reporting, owes>>
      /\ \/ Dialogue[at].for = "config" /\ NextOp /\ local' \in (IF out.src = "ctl" THEN {out.flags} ELSE SUBSET Flags)
         \/ Dialogue[at].for = "ack" /\ out = Ack /\ NextOp /\ local' = local
         \/ Dialogue[at].for = "ack" /\ out # Ack /\ GiveUp /\ local' = local
      /\ Dialogue[at].for = "config" => out.src = "ctl"
      /\ Dialogue[at].for # "config" => out \in {Ack, Resend}
      /\ out # Resend
  BY Zenon DEF Receive, Inb, Op, mouse
<1>2. at \in {3, 8, 11, 13}
  BY <1>1, Awaits, SMTT(30)
<1>3. (at \in {3, 13} => Dialogue[at].for = "config") /\ (at \in {8, 11} => Dialogue[at].for = "ack")
  BY Awaits
<1>4. NextOp => at' = at + 1 /\ pc' = "dialogue"
  BY <1>2, Places DEF NextOp
<1>5. CASE at \in {3, 13}
  <2>1. in = None /\ out = Config(cfg) /\ at' = at + 1 /\ pc' = "dialogue" /\ local' = out.flags
    BY <1>1, <1>3, <1>4, <1>5, SMTT(30)
  <2>2. local' = cfg'
    BY <1>1, <2>1, SMTT(30) DEF Config
  <2>3. Rest
    BY <2>1, <1>5, Messages DEF Command, Rest
  <2>4. out'.src = "none"
    BY <1>1, SMTT(30) DEF None
  <2>. QED  BY <1>1, <1>5, <2>1, <2>2, <2>3, <2>4 DEF Rest
<1>6. CASE at \in {8, 11}
  <2>1. out = Ack /\ out.src = "aux" /\ at' = at + 1 /\ pc' = "dialogue" /\ local' = local
    BY <1>1, <1>3, <1>4, <1>6 DEF Ack
  <2>2. in = None /\ ~owes
    BY <2>1, <1>6
  <2>3. Rest
    BY <2>2, <1>6, Messages, SMTT(30)
  <2>4. out'.src = "none"
    BY <1>1 DEF None
  <2>. QED  BY <1>1, <1>6, <2>1, <2>2, <2>3, <2>4, SMTT(30) DEF Rest
<1>. QED  BY <1>2, <1>5, <1>6

\* It polls in vain, and gives up only when a device is late.
LEMMA PollStep ==
  ASSUME Talk, Poll, ~slow'
  PROVE  pc' = "dialogue" /\ Talk'
<1>. USE DEF Talk
<1>1. UNCHANGED <<cfg, in, out, expects, reporting, owes, local>> /\ pc = "dialogue"
  BY SMTT(30) DEF Poll, NotReady, ps2, mouse
<1>2. CASE UNCHANGED <<pc, at, slow>>
  BY <1>1, <1>2, SMTT(30) DEF Rest, Command, Obeyed
<1>3. CASE GiveUp /\ slow' = (slow \/ in # None \/ owes)
  <2>1. in = None /\ ~owes
    BY <1>3, Zenon
  <2>2. Dialogue[at].op # "send" /\ out = None
    BY <2>1 DEF Poll, NotReady, Op
  <2>3. at \in {3, 8, 11, 13}
    BY <2>2, Awaits
  <2>4. None # Config(cfg) /\ None \notin {Ack, Resend}
    BY DEF None, Config, Ack, Resend
  <2>. QED  BY <2>1, <2>2, <2>3, <2>4, Messages DEF Command
<1>. QED  BY <1>2, <1>3, Zenon DEF Poll

\* The keyboard or the mouse sends a byte.
LEMMA OfferStep ==
  ASSUME Talk, Press \/ Report \/ Answer
  PROVE  Talk'
<1>. USE DEF Talk
<1>1. UNCHANGED <<cfg, in, expects, at, local, reporting>> /\ out = None
  BY SMTT(30) DEF Press, Report, Answer, Offer, Device, driver
<1>2. None # Config(cfg) /\ None \notin {Ack, Resend}
  BY DEF None, Config, Ack, Resend
<1>3. \A c : (Command(c) => Command(c)') /\ (Obeyed(c) => Obeyed(c)') /\ (Rest => Rest')
  BY <1>1, Zenon DEF Command, Obeyed, Rest
<1>4. CASE Press
  <2>1. owes' = owes /\ out'.src = "kbd"
    BY <1>4 DEF Press, Offer, Key
  <2>. QED  BY <1>1, <1>2, <1>3, <2>1
<1>5. CASE Report
  <2>1. owes' = owes /\ out' = Move /\ reporting /\ ~owes /\ out'.src = "aux"
    BY <1>5 DEF Report, Offer, Move
  <2>2. at >= 12
    BY <1>1, <1>2, <2>1, Messages
  <2>. QED  BY <1>1, <1>2, <1>3, <2>1, <2>2
<1>6. CASE Answer
  <2>1. owes /\ ~owes' /\ out' \in {Ack, Resend} /\ out'.src = "aux"
    BY <1>6 DEF Answer, Offer, Ack, Resend
  <2>2. at \in {8, 11} /\ in = None
    BY <2>1
  <2>. QED  BY <1>1, <1>2, <1>3, <2>1, <2>2
<1>. QED  BY <1>4, <1>5, <1>6, Zenon

\* The controller obeys.
LEMMA ObeyStep ==
  ASSUME Talk, Obey
  PROVE  Talk'
<1>1. in # None /\ in' = None /\ UNCHANGED <<at, local>>
  BY DEF Obey, Device, driver
<1>2. at \in {2, 3, 5, 6, 7, 8, 10, 11, 13, 15} /\ ~owes /\ out.src # "ctl" /\ (out.src = "aux" => at >= 12 /\ out = Move)
      /\ (reporting <=> at >= 12)
  BY <1>1, SMTT(30) DEF Rest, Talk
<1>3. CASE at = 2
  <2>1. Command("A8")
    BY <1>1, <1>3, SMTT(30) DEF Rest, Talk
  <2>2. cfg' = cfg \ {"off2"} /\ UNCHANGED <<out, expects, reporting, owes>>
    BY <2>1, Messages, SMTT(30) DEF Obey, Command, mouse
  <2>. QED  BY <1>1, <1>2, <1>3, <2>1, <2>2, SMTT(30) DEF Rest, Command, Talk
<1>4. CASE at \in {3, 13}
  <2>1. Command("20")
    BY <1>1, <1>4 DEF Rest, Talk
  <2>2. out' = Config(cfg) /\ UNCHANGED <<cfg, expects, reporting, owes>>
    BY <2>1, Messages DEF Obey, Command, mouse
  <2>3. out'.src = "ctl"
    BY <2>2, Sources, Zenon
  <2>. QED  BY <1>1, <1>2, <1>4, <2>1, <2>2, <2>3, SMTT(30) DEF Rest, Command, Talk
<1>5. CASE at \in {5, 15}
  <2>1. Command("60")
    BY <1>1, <1>5, SMTT(30) DEF Obeyed, Talk
  <2>2. expects' = "60" /\ UNCHANGED <<cfg, out, reporting, owes>>
    BY <2>1, Messages, SMTT(30) DEF Obey, Command, mouse
  <2>. QED  BY <1>1, <1>2, <1>5, <2>2 DEF Obeyed, Talk
<1>6. CASE at = 6
  <2>1. in = [to |-> "data", byte |-> Config(cfg)] /\ expects = "60"
    BY <1>1, <1>6 DEF Rest, Talk
  <2>2. cfg' = in.byte.flags /\ expects' = "none" /\ UNCHANGED <<out, reporting, owes>>
    BY <2>1, Messages, SMTT(30) DEF Obey, mouse
  <2>3. cfg' = cfg
    BY <2>1, <2>2, Messages, SMTT(30)
  <2>. QED  BY <1>1, <1>2, <1>6, <2>2, <2>3, SMTT(30) DEF Rest, Talk
<1>7. CASE at \in {7, 10}
  <2>1. Command("D4")
    BY <1>1, <1>7, SMTT(30) DEF Obeyed, Talk
  <2>2. expects' = "D4" /\ UNCHANGED <<cfg, out, reporting, owes>>
    BY <2>1, Messages, SMTT(30) DEF Obey, Command, mouse
  <2>. QED  BY <1>1, <1>2, <1>7, <2>2 DEF Obeyed, Talk
<1>8. CASE at \in {8, 11}
  <2>1. in = [to |-> "data", byte |-> Plain(IF at = 8 THEN "F6" ELSE "F4")] /\ expects = "D4"
    BY <1>1, <1>8 DEF Rest, Talk
  <2>2. expects' = "none" /\ owes' = TRUE /\ reporting' = (in.byte = Plain("F4")) /\ UNCHANGED <<cfg, out>>
    BY <2>1, Messages DEF Obey
  <2>3. in.byte = Plain("F4") <=> at = 11
    BY <1>8, <2>1, Messages
  <2>4. (reporting' <=> at = 11) /\ out'.src \notin {"ctl", "aux"} /\ Rest' /\ owes'
    <3>1. reporting' <=> at = 11
      BY <2>2, <2>3, Zenon
    <3>2. out'.src # "ctl" /\ out'.src # "aux"
      BY <1>2, <1>8, <2>2
    <3>3. Rest' /\ owes'
      BY <1>1, <2>2, Zenon DEF Rest
    <3>. QED  BY <3>1, <3>2, <3>3
  <2>5. cfg' = cfg /\ at' = at /\ in' = None /\ local' = local
    BY <1>1, <2>2
  <2>. QED  BY <1>8, <2>4, <2>5 DEF Talk
<1>. QED  BY <1>2, <1>3, <1>4, <1>5, <1>6, <1>7, <1>8, SMTT(30)

\* What the steps outside the dialogue leave alone.
LEMMA FrontStep ==
  ASSUME Silent, UNCHANGED <<at, in, expects, owes, reporting, cfg>>, out'.src \in {"none", "kbd"}
  PROVE  Silent'
BY DEF Silent, Rest

LEMMA RearStep ==
  ASSUME Enabled, UNCHANGED <<in, expects, owes, reporting, cfg>>, imr' \subseteq imr, ready => ready',
         pc' # "enable" => ready', pc' \notin {"enable", "unmask"} => 2 \notin imr' /\ 12 \notin imr'
  PROVE  Enabled'
BY DEF Enabled, Rest

\* kmain before mouse_init.
LEMMA EarlyStep ==
  ASSUME Spoken,
         \/ gdt_init \/ idt_init \/ pic_remap \/ irq_install \/ vmm_init \/ vga_enable
         \/ gfx_init \/ desktop_init \/ irq_save
  PROVE  Spoken'
<1>1. pc \in Front /\ pc' \in Front
  BY SMTT(30) DEF gdt_init, idt_init, pic_remap, irq_install, vmm_init, vga_enable, gfx_init, desktop_init, irq_save, SetUp, Front, Dark
<1>2. UNCHANGED <<at, in, expects, owes, reporting, cfg, out, mixed, slow>>
  <2>1. Quiet
    BY Zenon DEF gdt_init, idt_init, pic_remap, irq_install, vmm_init, vga_enable, gfx_init, desktop_init, irq_save, SetUp
  <2>. QED  BY <2>1, Zenon DEF Quiet, ps2, mouse, driver, ghosts
<1>3. intr' \in BOOLEAN /\ (pc' \in {"drain", "dialogue"} => ~intr')
  BY Zenon DEF Spoken, gdt_init, idt_init, pic_remap, irq_install, vmm_init, vga_enable, gfx_init, desktop_init, irq_save, SetUp
<1>4. Silent'
  BY <1>1, <1>2, FrontStep, Zenon DEF Spoken, Silent
<1>. QED  BY <1>1, <1>2, <1>3, <1>4, Zenon DEF Spoken, Front, Dark, Rear

\* mouse_init up to its end.
LEMMA DrainStep ==
  ASSUME Spoken, DropStale
  PROVE  Spoken'
<1>1. /\ pc = "drain" /\ pc' \in {"drain", "dialogue"} /\ UNCHANGED <<intr, at, in, expects, owes, reporting, cfg, mixed, slow>>
      /\ out' \in {out, None}
  BY DEF DropStale, Inb, ps2, mouse
<1>2. Silent /\ ~intr
  BY <1>1 DEF Spoken, Front
<1>3. None.src = "none"
  BY Sources, Zenon
<1>4. Silent'
  <2>1. out'.src \in {"none", "kbd"}
    BY <1>1, <1>2, <1>3 DEF Silent
  <2>. QED  BY <1>1, <1>2, <2>1, FrontStep, Zenon
<1>5. Talk'
  BY <1>4 DEF Silent, Talk
<1>. QED  BY <1>1, <1>2, <1>4, <1>5, Zenon DEF Spoken, Front, Dark, Rear

LEMMA TalkStep ==
  ASSUME Spoken, Poll \/ Send \/ Receive
  PROVE  Spoken'
<1>1. pc = "dialogue" /\ pc' \in {"dialogue", "give up", "enable"} /\ UNCHANGED <<intr, owes, reporting>>
  BY Zenon DEF Poll, NotReady, Send, Receive, Inb, NextOp, GiveUp, ps2, mouse
<1>2. mixed' \in BOOLEAN /\ slow' \in BOOLEAN /\ (mixed => mixed') /\ (slow => slow')
  <2>1. mixed \in BOOLEAN /\ slow \in BOOLEAN
    BY Zenon DEF Spoken
  <2>2. CASE Poll
    <3>1. mixed' = mixed /\ (slow' = slow \/ slow' = (slow \/ in # None \/ owes))
      BY <2>2 DEF Poll
    <3>. QED  BY <2>1, <3>1, Zenon
  <2>3. CASE Send
    BY <2>1, <2>3 DEF Send, ghosts
  <2>4. CASE Receive
    BY <2>1, <2>4, Zenon DEF Receive
  <2>. QED  BY <2>2, <2>3, <2>4
<1>3. ASSUME ~mixed', ~slow'
      PROVE  /\ pc' # "give up"
             /\ pc' = "dialogue" => Talk'
             /\ pc' = "enable" => Enabled'
  <2>1. Talk
    BY <1>1, <1>2, <1>3, Zenon DEF Spoken
  <2>2. CASE Poll
    BY <2>1, <2>2, <1>3, PollStep
  <2>3. CASE Receive
    BY <2>1, <2>3, <1>3, ReceiveStep
  <2>4. CASE Send
    BY <2>1, <2>4, SendStep, Zenon DEF Enabled
  <2>. QED  BY <2>2, <2>3, <2>4, Zenon
<1>. QED  BY <1>1, <1>2, <1>3, Zenon DEF Spoken, Front, Dark, Rear

\* The end of mouse_init, and kmain after it.
LEMMA LateStep ==
  ASSUME Spoken, mouse_off \/ mouse_on \/ pic_clear_mask \/ sched_init \/ syscall_init
  PROVE  Spoken'
<1>1. /\ UNCHANGED <<in, expects, owes, reporting, cfg, mixed, slow>> /\ imr' \subseteq imr /\ intr' \in BOOLEAN
      /\ ready => ready'
  <2>1. UNCHANGED <<in, expects, owes, reporting, cfg, mixed, slow>>
    BY Zenon DEF mouse_off, mouse_on, pic_clear_mask, sched_init, syscall_init, SetUp, Quiet, ps2, mouse, ghosts
  <2>2. imr' \subseteq imr
    BY Zenon DEF mouse_off, mouse_on, pic_clear_mask, sched_init, syscall_init, pic
  <2>3. intr' \in BOOLEAN
    BY Zenon DEF mouse_off, mouse_on, pic_clear_mask, sched_init, syscall_init, Spoken
  <2>4. ready => ready'
    BY Zenon DEF mouse_off, mouse_on, pic_clear_mask, sched_init, syscall_init, SetUp, Quiet, driver
  <2>. QED  BY <2>1, <2>2, <2>3, <2>4
<1>2. pc \in Rear \cup {"give up"} /\ pc' \in Rear \ {"enable"} /\ (pc = "give up" <=> mouse_off)
  BY Zenon DEF mouse_off, mouse_on, pic_clear_mask, sched_init, syscall_init, SetUp, Rear
<1>3. ASSUME ~mixed', ~slow'
      PROVE  Enabled'
  <2>1. pc # "give up" /\ Enabled
    BY <1>1, <1>2, <1>3, Zenon DEF Spoken
  <2>2. ready'
    BY <1>1, <1>2, <2>1, Zenon DEF Enabled, mouse_on, pic_clear_mask, sched_init, syscall_init, SetUp
  <2>3. pc' # "unmask" => 2 \notin imr' /\ 12 \notin imr'
    BY <1>1, <1>2, <2>1, Zenon DEF Enabled, mouse_on, pic_clear_mask, sched_init, syscall_init, SetUp
  <2>. QED  BY <1>1, <2>1, <2>2, <2>3, RearStep, Zenon
<1>. QED  BY <1>1, <1>2, <1>3, Zenon DEF Spoken, Front, Dark, Rear

\* An interrupt, which does not come in while mouse_init talks.
LEMMA IrqStep ==
  ASSUME Spoken, TimerIrq \/ KeyboardIrq \/ MouseIrq
  PROVE  Spoken'
<1>1. /\ intr /\ UNCHANGED <<pc, intr, at, ready, in, expects, owes, reporting, cfg, mixed, slow, imr>>
      /\ out' \in {out, None}
  BY DEF TimerIrq, KeyboardIrq, MouseIrq, Accept, Scancode, Inb, ps2, mouse, driver
<1>2. pc \notin {"drain", "dialogue"}
  BY <1>1, Zenon DEF Spoken
<1>3. None.src = "none"
  BY Sources, Zenon
<1>4. pc \in Front => Silent'
  BY <1>1, <1>3, FrontStep, Zenon DEF Spoken, Silent
<1>5. Enabled => Enabled'
  BY <1>1 DEF Enabled, Rest
<1>. QED  BY <1>1, <1>2, <1>4, <1>5, Zenon DEF Spoken

\* A device.
LEMMA DeviceStep ==
  ASSUME Spoken, Press \/ Report \/ Answer \/ Obey
  PROVE  Spoken'
<1>1. UNCHANGED <<pc, intr, at, ready, mixed, slow, imr>>
  BY Zenon DEF Press, Report, Answer, Obey, Offer, Device, driver, ghosts
<1>2. owes' \in BOOLEAN /\ reporting' \in BOOLEAN
  BY Zenon DEF Press, Report, Answer, Obey, Spoken, mouse
<1>3. ASSUME pc \in Front
      PROVE  Silent'
  <2>1. Silent
    BY <1>3, Zenon DEF Spoken
  <2>2. Press
    BY <2>1, Zenon DEF Silent, Rest, Report, Answer, Obey
  <2>3. out'.src = "kbd" /\ UNCHANGED <<at, in, expects, owes, reporting, cfg>>
    BY <1>1, <2>2 DEF Press, Offer, Key
  <2>. QED  BY <2>1, <2>3, FrontStep
<1>4. Talk => Talk'
  BY OfferStep, ObeyStep
<1>5. ASSUME Enabled
      PROVE  Enabled'
  <2>1. CASE Press \/ Report \/ Answer
    <3>1. UNCHANGED <<in, expects, owes, reporting, cfg>>
      BY <2>1, <1>5, Zenon DEF Enabled, Press, Report, Answer, Offer
    <3>. QED  BY <1>1, <1>5, <3>1 DEF Enabled, Rest
  <2>2. CASE Obey
    <3>1. in = [to |-> "data", byte |-> Config(cfg \cup {"irq12"})] /\ expects = "60"
      BY <2>2, <1>5, SMTT(30) DEF Enabled, Rest, Obey
    <3>2. in' = None /\ expects' = "none" /\ cfg' = in.byte.flags /\ UNCHANGED <<owes, reporting>>
      BY <2>2, <3>1, Messages, SMTT(30) DEF Obey, mouse
    <3>3. cfg' = cfg \cup {"irq12"}
      BY <3>1, <3>2, Messages
    <3>. QED  BY <1>1, <1>5, <3>2, <3>3 DEF Enabled, Rest
  <2>. QED  BY <2>1, <2>2
<1>. QED  BY <1>1, <1>2, <1>3, <1>4, <1>5, Zenon DEF Spoken

LEMMA SpokenStep ==
  ASSUME Spoken, [Next]_vars
  PROVE  Spoken'
<1>1. CASE Tick \/ UNCHANGED vars
  <2>1. UNCHANGED <<pc, intr, at, local, ready, in, out, expects, owes, reporting, cfg, mixed, slow, imr>>
    BY <1>1 DEF Tick, vars, pic, ps2, mouse, driver, ghosts
  <2>2. (Silent => Silent') /\ (Enabled => Enabled')
    BY <2>1, SMTT(30) DEF Silent, Enabled, Rest
  <2>3. Talk => Talk'
    <3>1. (Rest <=> Rest') /\ \A c : (Command(c) <=> Command(c)') /\ (Obeyed(c) <=> Obeyed(c)')
      BY <2>1, Zenon DEF Rest, Command, Obeyed
    <3>. QED  BY <2>1, <3>1, SMTT(30) DEF Talk
  <2>. QED  BY <2>1, <2>2, <2>3, Zenon DEF Spoken
<1>. QED  BY <1>1, EarlyStep, DrainStep, TalkStep, LateStep, IrqStep, DeviceStep DEF Next, kmain, mouse_init

LEMMA Started ==
  ASSUME Init
  PROVE  IInv
<1>1. Order
  BY DEF Init, Order, Dark
<1>2. typed = <<>> /\ Len(typed) = 0 /\ typed \in Seq(Typed)
  BY DEF Init
<1>3. TypedRight /\ \A n : TypedBelow(n)
  BY <1>2 DEF TypedRight, TypedBelow
<1>4. keys \in {0, 1} /\ last = None /\ (out = None \/ (out = Key(keys) /\ keys = 1)) /\ poked = FALSE /\ pc = "gdt"
  BY DEF Init
<1>5. Scanned(out) /\ Scanned(last)
  BY <1>4, Sources DEF Scanned, Scan
<1>6. last.src = "none" /\ (out.src = "kbd" => out.n = keys) /\ keys \in Nat
  BY <1>4, Sources
<1>7. Fresh
  BY <1>2, <1>3, <1>4, <1>5, <1>6, Zenon DEF Fresh
<1>8. Silent /\ pc \in Front
  BY <1>4, Sources DEF Init, Silent, Rest, Front, Dark
<1>9. Spoken
  BY <1>8, Zenon DEF Init, Spoken, Front, Dark, Rear
<1>. QED  BY <1>1, <1>3, <1>7, <1>9 DEF IInv

\* kmain's order of calls, and what the handlers can find, for any number of polls, keys and
\* reports of the mouse.
THEOREM BootInductive == Spec => []IInv
<1>1. IInv /\ [Next]_vars => IInv'
  BY OrderStep, FreshStep, SpokenStep DEF IInv
<1>. QED  BY Started, <1>1, PTL DEF Spec

\* An interrupt that comes in while kmain runs finds what its handler uses.
THEOREM BootEarlySafe == Spec => []EarlySafe
<1>1. IInv => EarlySafe
  BY DEF IInv, Order, EarlySafe, Dark
<1>. QED  BY BootInductive, <1>1, PTL

\* Every key is typed at most once and in order, and the mouse's bytes are taken for keys only
\* by a request left over from mouse_init.
THEOREM BootTypedRight == Spec => []TypedRight
<1>1. IInv => TypedRight
  BY DEF IInv
<1>. QED  BY BootInductive, <1>1, PTL

\* mouse_init succeeds if the devices answer ACK in time and nothing else is sent meanwhile,
\* and then both devices interrupt.
THEOREM BootMouseEnabled == Spec => []MouseEnabled
<1>1. IInv => MouseEnabled
  <2>1. SUFFICES ASSUME Spoken, pc \in {"give up", "task", "current", "syscall", "shell"}, ~mixed, ~slow
                 PROVE  /\ pc # "give up" /\ ready /\ reporting /\ {2, 12} \cap imr = {}
                        /\ in = None => {"irq1", "irq12"} \subseteq cfg /\ "off2" \notin cfg
    BY Zenon DEF IInv, MouseEnabled
  <2>2. pc # "give up" /\ Enabled
    BY <2>1, Zenon DEF Spoken, Rear
  <2>3. ready /\ reporting /\ 2 \notin imr /\ 12 \notin imr
    BY <2>1, <2>2, Zenon DEF Enabled
  <2>4. in = None => "irq1" \in cfg /\ "irq12" \in cfg /\ "off2" \notin cfg
    BY <2>2, Messages, Zenon DEF Enabled, Rest
  <2>. QED  BY <2>2, <2>3, <2>4, Zenon
<1>. QED  BY BootInductive, <1>1, PTL

=============================================================================
