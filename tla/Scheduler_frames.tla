-------------------------- MODULE Scheduler_frames --------------------------
(***************************************************************************)
(* The inductive invariant of Scheduler, for any number of task structs and*)
(* any depth of nested interrupts, and what one step of schedule() does to *)
(* a frame.  The invariant Core names every place the CPU can be in: the   *)
(* shell alone, the shell with a linked process (OnBoot), or the process   *)
(* itself (OnProc); for each it says what the frames of both stacks hold   *)
(* and whom current, CR3, TSS.rsp0 and the saved stack pointers name.  A   *)
(* tick inside schedule()'s switch breaks that order; Undoing, Messed,     *)
(* Again and Zombie say how far, which is what the invariants that hold in *)
(* spite of such a tick rest on.                                           *)
(***************************************************************************)
EXTENDS Scheduler

\* The places in schedule(): before the skip test is done, between it and the
\* assignment of current, between that and the switch of stacks.
Early == {"enter", "follow", "skip"}
Stale == {"demote", "promote", "current"}
Torn == {"cr3", "rsp0", "args", "save", "load"}
Body == Early \cup Stale \cup Torn
Shell == {"init", "idle", "link", "close", "wait", "reap", "destroy", "free"}
User == {"entry", "user", "halt"}

RspType == [on : Tasks \cup {Junk}, depth : Nat]
FrameType ==
  [pc : Body \cup {"return"} \cup Shell \cup User, ret : {"none", "irq", "yield", "exit"},
   prev : Tasks \cup {NULL}, next : Tasks \cup {NULL, Junk}, rsi : RspType]
TaskType == [state : {"ready", "running", "done"}, next : Tasks \cup {Junk}, rsp : RspType]
CpuType == [on : Tasks, intr : BOOLEAN, cr3 : Tasks, rsp0 : Tasks]

\* The types of the scheduler's state.
TypeOK ==
  /\ current \in Tasks \cup {NULL} /\ proc \in Procs \cup {NULL}
  /\ task \in [Tasks -> TaskType]
  /\ alive \subseteq Tasks /\ spaces \subseteq Tasks
  /\ stack \in [Tasks -> Seq(FrameType)]
  /\ cpu \in CpuType

\* The shell's stack, the process's, and where the shell is.
bs == stack[Boot]
ps == stack[proc]
base == bs[1].pc
HasProc == base \in {"link", "close", "wait", "reap", "destroy", "free"}
Linked == base \in {"close", "wait"}

\* The shell's stack is its own code, then at most an activation of schedule() from yield
\* or from the timer, then at most one from the timer on top of one from yield.
Shape ==
  /\ Len(bs) \in 1..3 /\ base \in Shell
  /\ Len(bs) >= 2 => /\ bs[2].pc \in Body \cup {"return"} /\ bs[2].ret \in {"irq", "yield"}
                     /\ bs[2].ret = "yield" => base = "wait"
  /\ Len(bs) = 3 => /\ bs[3].pc \in Body \cup {"return"} /\ bs[3].ret = "irq"
                    /\ bs[2].ret = "yield" /\ bs[2].pc # "return"

\* At most one process is alive besides the shell.
Live ==
  /\ alive = IF base = "init" THEN {} ELSE IF HasProc THEN {Boot, proc} ELSE {Boot}
  /\ IF HasProc THEN proc \in Procs ELSE proc = NULL
  /\ spaces = IF HasProc /\ base # "free" THEN {Boot, proc} ELSE {Boot}

\* The circle: the shell alone, or the shell and the process.
Links ==
  /\ base # "init" =>
       /\ task[Boot].state # "done"
       /\ task[Boot].next = IF base \in {"close", "wait", "reap"} THEN proc ELSE Boot
  /\ base \in {"link", "close"} => task[proc].next \in {Boot, Junk}
  /\ base \in {"wait", "reap", "destroy", "free"} => task[proc].next = Boot

Steady(t) == current = t /\ cpu.cr3 = t /\ cpu.rsp0 = t

\* The shell without a linked process: a tick comes back to where it struck.
Alone ==
  /\ cpu.on = Boot /\ cpu.cr3 = Boot /\ cpu.rsp0 = Boot
  /\ current = IF base = "init" THEN NULL ELSE Boot
  /\ Len(bs) <= 2
  /\ Len(bs) = 1 /\ base # "reap" => cpu.intr
  /\ Len(bs) = 2 =>
       /\ ~cpu.intr /\ bs[2].ret = "irq" /\ bs[2].pc \in Early
       /\ bs[2].pc \in {"follow", "skip"} => bs[2].prev = Boot /\ base # "init"
       /\ bs[2].pc = "skip" => bs[2].next = Boot \/ (base = "reap" /\ bs[2].next = proc)
  /\ base = "reap" => task[proc].state = "done"
  /\ base = "link" => /\ Len(ps) = 1 /\ ps[1].pc = "entry" /\ task[proc].state = "ready"
                      /\ task[proc].rsp = Rsp(proc, 1)

\* No tick has landed in schedule() past its skip test; the process's saved rsp has been
\* written over with an address in the shell's stack.
Clean == "stale" \notin hits /\ "torn" \notin hits
Poisoned == task[proc].rsp.on # proc

\* The variables during the switch that the frame f makes.
Switching(f) ==
  /\ current = f.next
  /\ cpu.cr3 = IF f.pc = "cr3" THEN f.prev ELSE f.next
  /\ cpu.rsp0 = IF f.pc \in {"cr3", "rsp0"} THEN f.prev ELSE f.next

\* A frame that leads from the shell to the process.
Outward(f) ==
  /\ f.pc \in Body \ {"enter"} => f.prev = Boot
  /\ f.pc = "skip" => f.next \in {Boot, proc}
  /\ f.pc \in Stale \cup Torn => f.next = proc
  /\ f.pc \in {"save", "load"} /\ f.rsi.on = proc => f.rsi.depth = Len(ps)

\* One that nothing has interfered with.
Calm(f) ==
  /\ Outward(f)
  /\ IF f.pc \in Torn THEN Switching(f) ELSE Steady(Boot)
  /\ f.pc = "load" => task[Boot].rsp = Rsp(Boot, Len(bs))
  /\ f.pc \in {"save", "load"} /\ f.rsi.on # proc => "torn" \in hits
  /\ Clean /\ f.pc \in Stale \cup Torn => task[proc].state # "done"
  /\ Clean /\ f.pc \in {"current"} \cup Torn => task[proc].state = "running"

\* yield's, after a tick inside the switch came back to it.
Messed(f) ==
  /\ Outward(f) /\ f.pc \in Torn /\ current = Boot /\ Poisoned
  /\ f.pc \in {"save", "load"} /\ f.rsi.on = proc => cpu.cr3 = Boot /\ cpu.rsp0 = Boot

\* The tick's, inside yield's switch: it leads from the process back to the shell.
Undoing(f) ==
  /\ f.pc \in Body
  /\ f.pc # "enter" => f.prev = proc
  /\ f.pc \in {"skip"} \cup Stale \cup Torn => f.next = Boot
  /\ current = IF f.pc \in Torn THEN Boot ELSE proc
  /\ f.pc \in {"rsp0", "args", "save", "load"} => cpu.cr3 = Boot
  /\ f.pc \in {"args", "save", "load"} => cpu.rsp0 = Boot
  /\ f.pc = "load" => Poisoned

\* A second such tick, on top of the messed-up frame g.
Again(f, g) ==
  /\ f.pc \in Body /\ Outward(f) /\ Poisoned
  /\ f.pc \notin Torn => /\ current = Boot
                         /\ g.pc \in {"save", "load"} /\ g.rsi.on = proc => cpu.cr3 = Boot /\ cpu.rsp0 = Boot
  /\ f.pc \in {"save", "load"} => f.rsi.on # proc

\* The process is suspended, and its rsp names the place unless it was written over.
Saved ==
  /\ ps[Len(ps)].pc = "load" \/ (Len(ps) = 1 /\ ps[1].pc = "entry")
  /\ IF Poisoned THEN "torn" \in hits ELSE task[proc].rsp.depth = Len(ps)
  /\ task[proc].state = "done" => task[proc].next = Boot

\* The shell runs and the process is suspended.
OnBoot ==
  /\ cpu.on = Boot /\ Saved
  /\ Len(bs) = 1 => Steady(Boot) /\ (base = "close" => cpu.intr)
  /\ Len(bs) = 2 /\ bs[2].ret = "irq" => Calm(bs[2]) /\ ~cpu.intr
  /\ Len(bs) = 2 /\ bs[2].ret = "yield" => /\ bs[2].pc = "return" => ~cpu.intr
                                           /\ Calm(bs[2]) \/ Messed(bs[2])
  /\ Len(bs) = 3 =>
       /\ ~cpu.intr /\ Outward(bs[2])
       /\ bs[2].pc \in Stale => "stale" \in hits
       /\ IF bs[2].pc \notin Torn THEN Calm(bs[3])
          ELSE /\ "torn" \in hits
               /\ IF bs[3].pc = "return" THEN Steady(Boot) /\ Poisoned
                  ELSE Undoing(bs[3]) \/ Again(bs[3], bs[2])

\* A frame that leads from the process to the shell.
Normal(f) ==
  /\ f.pc \in Body \ {"enter"} => f.prev = proc
  /\ f.pc \in {"skip"} \cup Stale \cup Torn => f.next = task[proc].next
  /\ f.pc \in Stale \cup Torn => f.next = Boot
  /\ IF f.pc \in Torn THEN Switching(f) ELSE Steady(proc)
  /\ task[Boot].rsp = Rsp(Boot, Len(bs))
  /\ f.pc \in {"save", "load"} => f.rsi = Rsp(Boot, Len(bs))
  /\ f.pc = "load" => task[proc].rsp = Rsp(proc, Len(ps))
  /\ Clean /\ ps[1].pc # "halt" =>
       task[proc].state = "running" \/ f.pc \in {"promote", "current"} \cup Torn

\* The process on the CPU while the scheduler believes in the shell.
Zombie(f) ==
  /\ Poisoned /\ "torn" \in hits
  /\ f.pc \in Body \ {"enter"} => f.prev = Boot
  /\ f.pc = "skip" => f.next \in {Boot, proc}
  /\ f.pc \in Stale \cup Torn => f.next = proc
  /\ f.pc \notin Torn => Steady(Boot)
  /\ f.pc \in {"save", "load"} => f.rsi.on # proc

\* The process runs and the shell is suspended.
OnProc ==
  /\ cpu.on = proc /\ Len(bs) >= 2 /\ bs[Len(bs)].pc = "load"
  /\ Len(bs) = 3 => /\ bs[2].pc \notin Torn /\ Outward(bs[2])
                    /\ bs[2].pc \in Stale => "stale" \in hits
  /\ ps[Len(ps)].pc \in Body => ~cpu.intr
  /\ ps[Len(ps)].pc = "user" => cpu.intr
  /\ Normal(ps[Len(ps)]) \/ (base = "wait" /\ Zombie(ps[Len(ps)]))

\* The process's stack: its own code, then activations of schedule() of which only the
\* last is still before its switch.
ItsStack ==
  /\ Len(ps) >= 1 /\ ps[1].pc \in User
  /\ \A i \in 2..Len(ps) : /\ ps[i].pc \in Body \cup {"return"} /\ ps[i].ret \in {"irq", "exit"}
                           /\ ps[i].ret = "exit" => ps[1].pc = "halt"
  /\ \A i \in 2..Len(ps) - 1 : ps[i].pc = "return"

\* A process that has exited stays in task_exit's schedule() as long as no tick interferes.
Gone ==
  Clean => /\ task[proc].state = "done" <=> ps[1].pc = "halt"
           /\ ps[1].pc = "halt" => Len(ps) = 2 /\ ps[2].ret = "exit" /\ ps[2].pc \in Body

Paired ==
  /\ base = "close" => Len(bs) = 1 \/ "append" \in hits
  /\ ItsStack /\ Gone
  /\ OnBoot \/ OnProc

Core == TypeOK /\ Shape /\ Live /\ Links /\ (IF Linked THEN Paired ELSE Alone)

\* While a process is linked, current, CR3 and TSS.rsp0 name it or the shell.
Pointing == Linked => {current, cpu.cr3, cpu.rsp0} \subseteq {Boot, proc}

\* The inductive invariant: Core while the machine is up, and what remains true after.
IInv ==
  /\ fate \in {"up", "halted", "lost"}
  /\ fate = "up" => Core /\ Pointing
  /\ NoDangling /\ LostExplained

-----------------------------------------------------------------------------
\* What makes OnBoot true after a step: with the shell's own code on top ...
LEMMA OnBootOne ==
  ASSUME cpu'.on = Boot, Saved', Len(bs') = 1, Steady(Boot)', base' = "close" => cpu'.intr
  PROVE  OnBoot'
BY DEF OnBoot

\* ... with yield's activation of schedule(), before it returns ...
LEMMA OnBootYield ==
  ASSUME cpu'.on = Boot, Saved', Len(bs') = 2, bs'[2].ret = "yield", bs'[2].pc # "return",
         Calm(bs[2])' \/ Messed(bs[2])'
  PROVE  OnBoot'
BY DEF OnBoot

\* ... with one of them and interrupts off ...
LEMMA OnBootTwo ==
  ASSUME cpu'.on = Boot, Saved', Len(bs') = 2, ~cpu'.intr,
         Calm(bs[2])'
  PROVE  OnBoot'
BY DEF OnBoot

\* ... and with two.
LEMMA OnBootThree ==
  ASSUME cpu'.on = Boot, Saved', Len(bs') = 3, ~cpu'.intr, Outward(bs[2])',
         bs'[2].pc \in Stale => "stale" \in hits',
         bs'[2].pc \notin Torn => Calm(bs[3])',
         bs'[2].pc \in Torn =>
           /\ "torn" \in hits'
           /\ bs'[3].pc = "return" => Steady(Boot)' /\ Poisoned'
           /\ bs'[3].pc # "return" => Undoing(bs[3])' \/ Again(bs[3], bs[2])'
  PROVE  OnBoot'
BY DEF OnBoot

\* What makes Alone and Shape true after a step with the timer's activation on the stack.
LEMMA AloneTwo ==
  ASSUME cpu'.on = Boot, cpu'.cr3 = Boot, cpu'.rsp0 = Boot,
         current' = IF base' = "init" THEN NULL ELSE Boot,
         Len(bs') = 2, ~cpu'.intr, bs'[2].ret = "irq", bs'[2].pc \in Early,
         bs'[2].pc \in {"follow", "skip"} => bs'[2].prev = Boot /\ base' # "init",
         bs'[2].pc = "skip" => bs'[2].next = Boot \/ (base' = "reap" /\ bs'[2].next = proc'),
         base' = "reap" => task'[proc'].state = "done",
         base' = "link" => /\ Len(ps') = 1 /\ ps'[1].pc = "entry" /\ task'[proc'].state = "ready"
                           /\ task'[proc'].rsp = Rsp(proc', 1)
  PROVE  Alone'
BY DEF Alone

LEMMA ShapeTwo ==
  ASSUME base' \in Shell, Len(bs') = 2, bs'[2].ret = "irq", bs'[2].pc \in Early
  PROVE  Shape'
BY DEF Shape, Body

-----------------------------------------------------------------------------
\* Stacks.

\* What a sequence holds without its last element.
LEMMA FrontFacts ==
  ASSUME NEW S, NEW s \in Seq(S), Len(s) >= 1
  PROVE  LET r == SubSeq(s, 1, Len(s) - 1) IN
         r \in Seq(S) /\ Len(r) = Len(s) - 1 /\ \A i \in 1..Len(s) - 1 : r[i] = s[i]
<1> DEFINE n == Len(s) - 1
<1>1. n \in 0..Len(s)
  OBVIOUS
<1> HIDE DEF n
<1>2. /\ SubSeq(s, 1, n) \in Seq(S) /\ Len(SubSeq(s, 1, n)) = n
      /\ \A i \in 1..n : SubSeq(s, 1, n)[i] = s[i]
  BY <1>1
<1> QED BY <1>2 DEF n

\* What it holds with another last element.
LEMMA ReplaceFacts ==
  ASSUME NEW S, NEW s \in Seq(S), Len(s) >= 1, NEW f \in S
  PROVE  LET r == [s EXCEPT ![Len(s)] = f] IN
         /\ r \in Seq(S) /\ Len(r) = Len(s) /\ r[Len(s)] = f
         /\ \A i \in 1..Len(s) - 1 : r[i] = s[i]
<1> DEFINE n == Len(s)
           r == [s EXCEPT ![n] = f]
<1>1. n \in Nat /\ s \in [1..n -> S] /\ n \in 1..n
  OBVIOUS
<1> HIDE DEF n
<1>2. r \in [1..n -> S] /\ r[n] = f /\ \A i \in 1..n - 1 : r[i] = s[i]
  BY <1>1
<1> HIDE DEF r
<1>3. r \in Seq(S) /\ Len(r) = n
  BY <1>1, <1>2
<1> QED BY <1>2, <1>3 DEF r, n

\* What is on a stack when context_switch returns to its frame k.
LEMMA ResumeFacts ==
  ASSUME NEW s \in Seq(FrameType), NEW k \in 1..Len(s)
  PROVE  LET r == Resume(SubSeq(s, 1, k)) IN
         /\ r \in Seq(FrameType) /\ Len(r) = k
         /\ \A i \in 1..k - 1 : r[i] = s[i]
         /\ r[k] = IF s[k].pc = "load" THEN [s[k] EXCEPT !.pc = "return"] ELSE s[k]
<1> DEFINE q == SubSeq(s, 1, k)
<1>1. q \in Seq(FrameType) /\ Len(q) = k /\ \A i \in 1..k : q[i] = s[i]
  OBVIOUS
<1> HIDE DEF q
<1>2. q[Len(q)] = s[k] /\ s[k] \in FrameType
  BY <1>1
<1>3. CASE s[k].pc = "load"
  <2> DEFINE g == [s[k] EXCEPT !.pc = "return"]
  <2>1. g \in FrameType
    BY <1>2 DEF FrameType
  <2> HIDE DEF g
  <2> DEFINE r == [q EXCEPT ![Len(q)] = g]
  <2>2. r \in Seq(FrameType) /\ Len(r) = k /\ r[k] = g /\ \A i \in 1..k - 1 : r[i] = s[i]
    BY <1>1, <2>1, ReplaceFacts
  <2>3. Resume(q) = r
    BY <1>1, <1>2, <1>3 DEF Resume, g
  <2> HIDE DEF r
  <2> QED BY <1>3, <2>2, <2>3 DEF q, g
<1>4. CASE s[k].pc # "load"
  <2>1. Resume(q) = q
    BY <1>2, <1>4 DEF Resume
  <2>2. /\ q \in Seq(FrameType) /\ Len(q) = k
        /\ \A i \in 1..k - 1 : q[i] = s[i]
        /\ q[k] = s[k]
    BY <1>1
  <2> QED BY <1>4, <2>1, <2>2 DEF q
<1> QED BY <1>3, <1>4

LEMMA FrameAt ==
  ASSUME NEW s \in Seq(FrameType), NEW i \in 1..Len(s)
  PROVE  s[i] \in FrameType
OBVIOUS

\* The running frame.
LEMMA TopFacts ==
  ASSUME TypeOK, Len(stack[cpu.on]) >= 1
  PROVE  /\ stack[cpu.on] \in Seq(FrameType) /\ cpu.on \in Tasks
         /\ Top = stack[cpu.on][Len(stack[cpu.on])] /\ Top \in FrameType
BY DEF TypeOK, CpuType, Top, Depth

\* The shell's stack has one to three frames.
LEMMA ShapeLength ==
  ASSUME Shape
  PROVE  Len(bs) \in {1, 2, 3} /\ Len(bs) >= 1
<1>1. Len(bs) \in 1..3
  BY DEF Shape
<1> QED BY <1>1

\* In Core the stack the CPU is on is not empty.
LEMMA Running ==
  ASSUME Core
  PROVE  /\ cpu.on \in {Boot, proc} /\ Len(stack[cpu.on]) >= 1
         /\ cpu.on = proc => Linked /\ OnProc /\ proc \in Procs
         /\ stack[cpu.on] \in Seq(FrameType) /\ cpu.on \in Tasks
         /\ Top = stack[cpu.on][Len(stack[cpu.on])] /\ Top \in FrameType
<1>1. /\ cpu.on \in {Boot, proc} /\ Len(stack[cpu.on]) >= 1
      /\ cpu.on = proc => Linked /\ OnProc /\ proc \in Procs
  <2>1. Len(bs) >= 1 /\ Len(bs) = Len(stack[Boot])
    <3>1. Shape
      BY DEF Core
    <3>2. Len(bs) >= 1
      BY <3>1, ShapeLength
    <3> QED BY <3>2 DEF bs
  <2>2. CASE ~Linked
    BY <2>1, <2>2, TasksAssumption DEF Core, Alone, Live
  <2>3. CASE Linked
    <3>1. proc \in Procs /\ proc # Boot
      BY <2>3, TasksAssumption DEF Core, Live, Linked, HasProc
    <3>2. Len(stack[proc]) >= 1
      BY <2>3 DEF Core, Paired, ItsStack, ps
    <3>3. OnBoot \/ OnProc
      BY <2>3 DEF Core, Paired
    <3> QED BY <2>1, <2>3, <3>1, <3>2, <3>3 DEF OnBoot, OnProc
  <2> QED BY <2>2, <2>3
<1> QED BY <1>1, TopFacts DEF Core

\* The running frame of the shell ...
LEMMA ShellTop ==
  ASSUME Core, cpu.on = Boot
  PROVE  Shape /\ Top = bs[Len(bs)] /\ Len(bs) \in {1, 2, 3}
<1>1. Shape
  BY DEF Core
<1>2. Top = bs[Len(bs)]
  BY Running DEF bs
<1> QED BY <1>1, <1>2, ShapeLength

\* ... and of the shell alone.
LEMMA AloneTop ==
  ASSUME Core, ~Linked
  PROVE  cpu.on = Boot /\ Top = bs[Len(bs)] /\ Len(bs) \in {1, 2}
<1>1. Alone
  BY DEF Core
<1>2. cpu.on = Boot /\ Len(bs) <= 2
  BY <1>1 DEF Alone
<1>3. Top = bs[Len(bs)] /\ Len(bs) \in {1, 2, 3}
  BY <1>2, ShellTop
<1> QED BY <1>2, <1>3

-----------------------------------------------------------------------------
\* schedule(), as the step of one frame from f to g and what it does to the shared state.
Read(f, g) ==
  /\ UNCHANGED <<current, task, cpu>>
  /\ \/ f.pc = "enter" /\ current # NULL /\ g = [f EXCEPT !.pc = "follow", !.prev = current]
     \/ f.pc = "follow" /\ g = [f EXCEPT !.pc = "skip", !.next = task[f.prev].next]
     \/ /\ f.pc = "skip" /\ Valid(f.next) /\ f.next # f.prev
        /\ \/ task[f.next].state = "done" /\ g = [f EXCEPT !.next = task[f.next].next]
           \/ task[f.next].state # "done" /\ g = [f EXCEPT !.pc = "demote"]
     \/ f.pc = "args" /\ g = [f EXCEPT !.pc = "save", !.rsi = task[f.next].rsp]
Demote(f, g) ==
  /\ f.pc = "demote" /\ g = [f EXCEPT !.pc = "promote"] /\ UNCHANGED <<current, cpu>>
  /\ task' = IF task[f.prev].state = "running"
               THEN [task EXCEPT ![f.prev].state = "ready"] ELSE task
Promote(f, g) ==
  /\ f.pc = "promote" /\ g = [f EXCEPT !.pc = "current"] /\ UNCHANGED <<current, cpu>>
  /\ task' = [task EXCEPT ![f.next].state = "running"]
Elect(f, g) ==
  /\ f.pc = "current" /\ g = [f EXCEPT !.pc = "cr3"] /\ UNCHANGED <<task, cpu>>
  /\ current' = f.next
Space(f, g) ==
  /\ f.pc = "cr3" /\ g = [f EXCEPT !.pc = "rsp0"] /\ UNCHANGED <<current, task>>
  /\ cpu' = [cpu EXCEPT !.cr3 = f.next]
Ring0(f, g) ==
  /\ f.pc = "rsp0" /\ g = [f EXCEPT !.pc = "args"] /\ UNCHANGED <<current, task>>
  /\ cpu' = [cpu EXCEPT !.rsp0 = f.next]
Save(f, g) ==
  /\ f.pc = "save" /\ g = [f EXCEPT !.pc = "load"] /\ UNCHANGED <<current, cpu>>
  /\ task' = [task EXCEPT ![f.prev].rsp = Rsp(cpu.on, Depth)]
Step(f, g) ==
  Read(f, g) \/ Demote(f, g) \/ Promote(f, g) \/ Elect(f, g) \/ Space(f, g) \/ Ring0(f, g) \/ Save(f, g)

\* How schedule() can go on.
StepUp == \E g : Step(Top, g) /\ SetTop(g) /\ UNCHANGED <<alive, spaces, proc, hits, fate>>
Leave ==
  /\ \/ Top.pc = "return"
     \/ Top.pc = "enter" /\ current = NULL
     \/ Top.pc = "skip" /\ Valid(Top.next) /\ Top.next = Top.prev
  /\ Return
Load == Resumable(Top.next, Top.rsi) /\ LoadRsp
Astray ==
  /\ \/ Top.pc = "skip" /\ ~Valid(Top.next)
     \/ Top.pc = "load" /\ ~Resumable(Top.next, Top.rsi)
  /\ Lose

\* Every step of schedule() is one of these.
LEMMA ScheduleCases ==
  ASSUME schedule, fate = "up"
  PROVE  StepUp \/ Leave \/ Load \/ Astray
<1>1. ASSUME ReadCurrent PROVE StepUp \/ Leave
  BY <1>1 DEF ReadCurrent, StepUp, Leave, At, Step, Read, mem
<1>2. ASSUME ReadNext PROVE StepUp
  BY <1>2 DEF ReadNext, StepUp, At, Step, Read, mem
<1>3. ASSUME SkipDone PROVE StepUp \/ Leave \/ Astray
  <2>1. CASE ~Valid(Top.next) \/ Top.next = Top.prev
    BY <1>3, <2>1 DEF SkipDone, Leave, Astray, At
  <2>2. CASE Valid(Top.next) /\ Top.next # Top.prev
    BY <1>3, <2>2 DEF SkipDone, StepUp, At, Step, Read, mem, Goto
  <2> QED BY <2>1, <2>2
<1>4. ASSUME DemotePrev PROVE StepUp
  BY <1>4 DEF DemotePrev, StepUp, At, Step, Demote, Goto
<1>5. ASSUME PromoteNext PROVE StepUp
  BY <1>5 DEF PromoteNext, StepUp, At, Step, Promote, Goto
<1>6. ASSUME SetCurrent PROVE StepUp
  BY <1>6 DEF SetCurrent, StepUp, At, Step, Elect, Goto
<1>7. ASSUME SwitchSpace PROVE StepUp
  BY <1>7 DEF SwitchSpace, StepUp, At, Step, Space, Goto, mem
<1>8. ASSUME SetRsp0 PROVE StepUp
  BY <1>8 DEF SetRsp0, StepUp, At, Step, Ring0, Goto, mem
<1>9. ASSUME ReadRsp PROVE StepUp
  BY <1>9 DEF ReadRsp, StepUp, At, Step, Read, mem
<1>10. ASSUME SaveRsp PROVE StepUp
  BY <1>10 DEF SaveRsp, StepUp, At, Step, Save, Goto
<1>11. ASSUME LoadRsp PROVE Load \/ Astray
  BY <1>11 DEF LoadRsp, Load, Astray, At
<1>12. ASSUME ReturnFromSwitch PROVE Leave
  BY <1>12 DEF ReturnFromSwitch, Leave, At
<1> QED BY <1>1, <1>2, <1>3, <1>4, <1>5, <1>6, <1>7, <1>8, <1>9, <1>10, <1>11, <1>12 DEF schedule

\* Writing one field of a task struct.
WriteState(t, s) == task' = [task EXCEPT ![t].state = s]
WriteRsp(t, r) == task' = [task EXCEPT ![t].rsp = r]
WriteNext(t, x) == task' = [task EXCEPT ![t].next = x]

LEMMA StateFacts ==
  ASSUME TypeOK, NEW t \in Tasks, NEW s \in {"ready", "running", "done"}, WriteState(t, s)
  PROVE  /\ task' \in [Tasks -> TaskType]
         /\ \A u \in Tasks : /\ task'[u].next = task[u].next /\ task'[u].rsp = task[u].rsp
                             /\ task'[u].state = IF u = t THEN s ELSE task[u].state
<1>1. \A u \in Tasks : task'[u] = IF u = t THEN [task[u] EXCEPT !.state = s] ELSE task[u]
  BY DEF TypeOK, WriteState
<1>2. \A u \in Tasks : task[u] \in TaskType
  BY DEF TypeOK
<1>3. \A u \in Tasks : task'[u] \in TaskType
  BY <1>1, <1>2 DEF TaskType
<1>4. task' \in [Tasks -> TaskType]
  BY <1>3 DEF TypeOK, WriteState
<1> QED BY <1>1, <1>2, <1>4 DEF TaskType

LEMMA SavedFacts ==
  ASSUME TypeOK, NEW t \in Tasks, NEW r \in RspType, WriteRsp(t, r)
  PROVE  /\ task' \in [Tasks -> TaskType]
         /\ \A u \in Tasks : /\ task'[u].next = task[u].next /\ task'[u].state = task[u].state
                             /\ task'[u].rsp = IF u = t THEN r ELSE task[u].rsp
<1>1. \A u \in Tasks : task'[u] = IF u = t THEN [task[u] EXCEPT !.rsp = r] ELSE task[u]
  BY DEF TypeOK, WriteRsp
<1>2. \A u \in Tasks : task[u] \in TaskType
  BY DEF TypeOK
<1>3. \A u \in Tasks : task'[u] \in TaskType
  BY <1>1, <1>2 DEF TaskType
<1>4. task' \in [Tasks -> TaskType]
  BY <1>3 DEF TypeOK, WriteRsp
<1> QED BY <1>1, <1>2, <1>4 DEF TaskType

LEMMA LinkFacts ==
  ASSUME TypeOK, NEW t \in Tasks, NEW x \in Tasks \cup {Junk}, WriteNext(t, x)
  PROVE  /\ task' \in [Tasks -> TaskType]
         /\ \A u \in Tasks : /\ task'[u].rsp = task[u].rsp /\ task'[u].state = task[u].state
                             /\ task'[u].next = IF u = t THEN x ELSE task[u].next
<1>1. \A u \in Tasks : task'[u] = IF u = t THEN [task[u] EXCEPT !.next = x] ELSE task[u]
  BY DEF TypeOK, WriteNext
<1>2. \A u \in Tasks : task[u] \in TaskType
  BY DEF TypeOK
<1>3. \A u \in Tasks : task'[u] \in TaskType
  BY <1>1, <1>2 DEF TaskType
<1>4. task' \in [Tasks -> TaskType]
  BY <1>3 DEF TypeOK, WriteNext
<1> QED BY <1>1, <1>2, <1>4 DEF TaskType

\* The same step, field by field.
NextPc ==
  [c \in Body |-> CASE c = "enter" -> "follow" [] c = "follow" -> "skip" [] c = "skip" -> "demote"
                    [] c = "demote" -> "promote" [] c = "promote" -> "current" [] c = "current" -> "cr3"
                    [] c = "cr3" -> "rsp0" [] c = "rsp0" -> "args" [] c = "args" -> "save" [] OTHER -> "load"]
Moved(f, g) ==
  /\ g \in FrameType /\ g.ret = f.ret /\ f.pc \in Body \ {"load"}
  /\ f.pc = "enter" => current # NULL
  /\ f.pc = "skip" => f.next \in alive /\ f.next # f.prev
  /\ g.pc = IF f.pc = "skip" /\ task[f.next].state = "done" THEN "skip" ELSE NextPc[f.pc]
  /\ g.prev = IF f.pc = "enter" THEN current ELSE f.prev
  /\ g.next = IF f.pc = "follow" THEN task[f.prev].next
              ELSE IF f.pc = "skip" /\ task[f.next].state = "done" THEN task[f.next].next ELSE f.next
  /\ g.rsi = IF f.pc = "args" THEN task[f.next].rsp ELSE f.rsi
Wrote(f) ==
  /\ current' = IF f.pc = "current" THEN f.next ELSE current
  /\ cpu' \in CpuType /\ cpu'.on = cpu.on /\ cpu'.intr = cpu.intr
  /\ cpu'.cr3 = IF f.pc = "cr3" THEN f.next ELSE cpu.cr3
  /\ cpu'.rsp0 = IF f.pc = "rsp0" THEN f.next ELSE cpu.rsp0
  /\ task' \in [Tasks -> TaskType]
  /\ \A t \in Tasks :
       /\ task'[t].next = task[t].next
       /\ task'[t].rsp = IF f.pc = "save" /\ t = f.prev THEN Rsp(cpu.on, Depth) ELSE task[t].rsp
       /\ task'[t].state = IF f.pc = "demote" /\ t = f.prev /\ task[t].state = "running" THEN "ready"
                           ELSE IF f.pc = "promote" /\ t = f.next THEN "running" ELSE task[t].state

\* Every step of a frame does that.
LEMMA StepFacts ==
  ASSUME TypeOK, NEW f \in FrameType, NEW g, Step(f, g), Depth \in Nat,
         f.pc \in Body \ {"enter"} => f.prev \in Tasks,
         f.pc \in Stale \cup Torn => f.next \in Tasks
  PROVE  Moved(f, g) /\ Wrote(f)
<1>0. current \in Tasks \cup {NULL} /\ task \in [Tasks -> TaskType] /\ cpu \in CpuType
  BY DEF TypeOK
<1>1. CASE Read(f, g)
  <2>1. /\ current' = current /\ task' = task /\ cpu' = cpu
    BY <1>1 DEF Read
  <2>2. f.pc \in {"enter", "follow", "skip", "args"}
    BY <1>1 DEF Read
  <2>3. \A t \in Tasks : task[t].next \in Tasks \cup {Junk} /\ task[t].rsp \in RspType
    BY <1>0 DEF TaskType
  <2>4. Moved(f, g)
    <3>1. CASE f.pc = "enter"
      BY <1>0, <1>1, <3>1 DEF Read, Moved, NextPc, FrameType, Body, Early, Stale, Torn
    <3>2. CASE f.pc = "follow"
      BY <1>1, <2>3, <3>2 DEF Read, Moved, NextPc, FrameType, Body, Early, Stale, Torn
    <3>3. CASE f.pc = "skip"
      <4>1. f.next \in alive /\ f.next \in Tasks /\ f.next # f.prev
        BY <1>1, <3>3 DEF Read, Valid, TypeOK
      <4> QED BY <1>1, <2>3, <3>3, <4>1 DEF Read, Moved, NextPc, FrameType, Body, Early, Stale, Torn
    <3>4. CASE f.pc = "args"
      BY <1>1, <2>3, <3>4 DEF Read, Moved, NextPc, FrameType, Body, Early, Stale, Torn
    <3> QED BY <2>2, <3>1, <3>2, <3>3, <3>4
  <2>5. Wrote(f)
    BY <1>0, <2>1, <2>2 DEF Wrote
  <2> QED BY <2>4, <2>5
<1>2. CASE Demote(f, g)
  <2>1. Moved(f, g) /\ f.pc = "demote"
    BY <1>2 DEF Demote, Moved, NextPc, FrameType, Body, Early, Stale, Torn
  <2>2. f.prev \in Tasks /\ "ready" \in {"ready", "running", "done"}
    BY <2>1 DEF Body, Stale
  <2>3. CASE task[f.prev].state = "running"
    <3>1. WriteState(f.prev, "ready") /\ cpu' = cpu /\ current' = current
      BY <1>2, <2>3 DEF Demote, WriteState
    <3>2. /\ task' \in [Tasks -> TaskType]
          /\ \A u \in Tasks : /\ task'[u].next = task[u].next /\ task'[u].rsp = task[u].rsp
                              /\ task'[u].state = IF u = f.prev THEN "ready" ELSE task[u].state
      BY <2>2, <3>1, StateFacts
    <3> QED BY <1>0, <2>1, <2>3, <3>1, <3>2 DEF Wrote
  <2>4. CASE task[f.prev].state # "running"
    <3>1. task' = task /\ cpu' = cpu /\ current' = current
      BY <1>2, <2>4 DEF Demote
    <3> QED BY <1>0, <2>1, <2>4, <3>1 DEF Wrote
  <2> QED BY <2>3, <2>4
<1>3. CASE Promote(f, g)
  <2>1. Moved(f, g) /\ f.pc = "promote"
    BY <1>3 DEF Promote, Moved, NextPc, FrameType, Body, Early, Stale, Torn
  <2>2. f.next \in Tasks /\ "running" \in {"ready", "running", "done"}
    BY <2>1 DEF Stale
  <2>3. WriteState(f.next, "running") /\ cpu' = cpu /\ current' = current
    BY <1>3 DEF Promote, WriteState
  <2>4. /\ task' \in [Tasks -> TaskType]
        /\ \A u \in Tasks : /\ task'[u].next = task[u].next /\ task'[u].rsp = task[u].rsp
                            /\ task'[u].state = IF u = f.next THEN "running" ELSE task[u].state
    BY <2>2, <2>3, StateFacts
  <2> QED BY <1>0, <2>1, <2>3, <2>4 DEF Wrote
<1>4. CASE Elect(f, g)
  <2>1. Moved(f, g)
    BY <1>4 DEF Elect, Moved, NextPc, FrameType, Body, Early, Stale, Torn
  <2>2. Wrote(f)
    BY <1>0, <1>4 DEF Elect, Wrote
  <2> QED BY <2>1, <2>2
<1>5. CASE Space(f, g)
  <2>1. Moved(f, g)
    BY <1>5 DEF Space, Moved, NextPc, FrameType, Body, Early, Stale, Torn
  <2>2. Wrote(f)
    BY <1>0, <1>5 DEF Space, Wrote, CpuType, Torn
  <2> QED BY <2>1, <2>2
<1>6. CASE Ring0(f, g)
  <2>1. Moved(f, g)
    BY <1>6 DEF Ring0, Moved, NextPc, FrameType, Body, Early, Stale, Torn
  <2>2. Wrote(f)
    BY <1>0, <1>6 DEF Ring0, Wrote, CpuType, Torn
  <2> QED BY <2>1, <2>2
<1>7. CASE Save(f, g)
  <2>1. Moved(f, g) /\ f.pc = "save"
    BY <1>7 DEF Save, Moved, NextPc, FrameType, Body, Early, Stale, Torn
  <2>2. f.prev \in Tasks /\ Rsp(cpu.on, Depth) \in RspType
    BY <1>0, <2>1 DEF Rsp, RspType, CpuType, Body, Torn
  <2>3. WriteRsp(f.prev, Rsp(cpu.on, Depth)) /\ cpu' = cpu /\ current' = current
    BY <1>7 DEF Save, WriteRsp
  <2>4. /\ task' \in [Tasks -> TaskType]
        /\ \A u \in Tasks : /\ task'[u].next = task[u].next /\ task'[u].state = task[u].state
                            /\ task'[u].rsp = IF u = f.prev THEN Rsp(cpu.on, Depth) ELSE task[u].rsp
    BY <2>2, <2>3, SavedFacts
  <2> QED BY <1>0, <2>1, <2>3, <2>4 DEF Wrote
<1> QED BY <1>1, <1>2, <1>3, <1>4, <1>5, <1>6, <1>7 DEF Step

-----------------------------------------------------------------------------
\* How the steps of schedule() keep each kind of frame.

\* What the lemmas below have in common: a process is linked, and the step neither moves to
\* another stack nor pushes nor pops a frame.
Still ==
  /\ proc' = proc /\ hits' = hits /\ Len(ps') = Len(ps) /\ Len(bs') = Len(bs)
Circle ==
  /\ proc \in Procs /\ proc # Boot /\ proc \in Tasks /\ Boot \in Tasks
  /\ task[Boot].next = proc /\ task[Boot].state # "done"

\* A frame that leads to the process keeps doing so.
LEMMA OutwardStep ==
  ASSUME Circle, Still, Saved, NEW f, NEW g, Outward(f), Moved(f, g),
         f.pc = "enter" => current = Boot
  PROVE  Outward(g)'
<1>1. g.pc \in Body \ {"enter"} => g.prev = Boot
  BY DEF Outward, Moved
<1>2. g.pc = "skip" => g.next \in {Boot, proc}
  <2> SUFFICES ASSUME g.pc = "skip" PROVE g.next \in {Boot, proc}
    OBVIOUS
  <2>1. f.pc \in {"follow", "skip"}
    BY DEF Moved, NextPc, Body, Early, Stale, Torn
  <2>2. f.prev = Boot
    BY <2>1 DEF Outward, Body, Early
  <2> QED BY <2>1, <2>2 DEF Outward, Moved, Circle, Saved
<1>3. g.pc \in Stale \cup Torn => g.next = proc
  <2> SUFFICES ASSUME g.pc \in Stale \cup Torn PROVE g.next = proc
    OBVIOUS
  <2>1. f.pc \in {"skip"} \cup Stale \cup Torn
    BY DEF Moved, NextPc, Body, Early, Stale, Torn
  <2>2. f.prev = Boot
    BY <2>1 DEF Outward, Body, Early, Stale, Torn
  <2> QED BY <2>1, <2>2 DEF Outward, Moved, Stale, Torn
<1>4. g.pc \in {"save", "load"} /\ g.rsi.on = proc => g.rsi.depth = Len(ps)
  <2> SUFFICES ASSUME g.pc \in {"save", "load"}, g.rsi.on = proc PROVE g.rsi.depth = Len(ps)
    OBVIOUS
  <2>1. f.pc \in {"args", "save"}
    BY DEF Moved, NextPc, Body, Early, Stale, Torn
  <2>2. f.next = proc
    BY <2>1 DEF Outward, Torn
  <2> QED BY <2>1, <2>2 DEF Outward, Moved, Saved, Poisoned
<1> QED BY <1>1, <1>2, <1>3, <1>4 DEF Outward, Still

\* A suspended process stays so while the shell runs.
LEMMA SavedStep ==
  ASSUME Circle, Saved, ps' = ps, proc' = proc, hits' = hits, NEW f, Wrote(f),
         f.pc = "save" => f.prev = Boot \/ (cpu.on = Boot /\ "torn" \in hits)
  PROVE  Saved'
<1>1. /\ task'[proc].next = task[proc].next
      /\ task'[proc].state = "done" => task[proc].state = "done"
      /\ task'[proc].rsp = IF f.pc = "save" /\ proc = f.prev THEN Rsp(cpu.on, Depth) ELSE task[proc].rsp
  BY DEF Wrote, Circle
<1>2. CASE f.pc = "save" /\ proc = f.prev
  <2>1. task'[proc].rsp.on # proc /\ "torn" \in hits
    BY <1>1, <1>2 DEF Circle, Rsp
  <2> QED BY <1>1, <2>1 DEF Saved, Poisoned
<1>3. CASE ~(f.pc = "save" /\ proc = f.prev)
  BY <1>1, <1>3 DEF Saved, Poisoned
<1> QED BY <1>2, <1>3

\* A switch that nothing interferes with goes on as it should.
LEMMA CalmStep ==
  ASSUME Circle, Still, Saved, cpu.on = Boot, Depth = Len(bs),
         NEW f, NEW g, Calm(f), Moved(f, g), Wrote(f)
  PROVE  Calm(g)'
<1>0. Outward(f) /\ f.pc \in Body
  BY DEF Calm, Moved
<1>1. Outward(g)'
  BY <1>0, OutwardStep DEF Calm, Steady, Torn
<1>2. IF g.pc \in Torn THEN Switching(g)' ELSE Steady(Boot)'
  <2>1. CASE f.pc \in Early \cup {"demote", "promote"}
    <3>1. g.pc \notin Torn /\ f.pc \notin Torn /\ f.pc # "current"
      BY <2>1 DEF Moved, NextPc, Body, Early, Stale, Torn
    <3> QED BY <3>1 DEF Calm, Steady, Wrote, Torn
  <2>2. CASE f.pc = "current"
    <3>1. /\ g.pc = "cr3" /\ g.next = f.next /\ g.prev = f.prev /\ f.prev = Boot
          /\ current' = f.next /\ cpu'.cr3 = cpu.cr3 /\ cpu'.rsp0 = cpu.rsp0
      BY <1>0, <2>2 DEF Outward, Moved, NextPc, Body, Early, Stale, Torn, Wrote
    <3>2. cpu.cr3 = Boot /\ cpu.rsp0 = Boot
      BY <2>2 DEF Calm, Steady, Torn
    <3> QED BY <3>1, <3>2 DEF Switching, Torn
  <2>3. CASE f.pc = "cr3"
    <3>1. /\ g.pc = "rsp0" /\ g.next = f.next /\ g.prev = f.prev
          /\ current' = current /\ cpu'.cr3 = f.next /\ cpu'.rsp0 = cpu.rsp0
      BY <2>3 DEF Moved, NextPc, Body, Early, Stale, Torn, Wrote
    <3>2. Switching(f)
      BY <2>3 DEF Calm, Torn
    <3> QED BY <2>3, <3>1, <3>2 DEF Switching, Torn
  <2>4. CASE f.pc = "rsp0"
    <3>1. /\ g.pc = "args" /\ g.next = f.next /\ g.prev = f.prev
          /\ current' = current /\ cpu'.cr3 = cpu.cr3 /\ cpu'.rsp0 = f.next
      BY <2>4 DEF Moved, NextPc, Body, Early, Stale, Torn, Wrote
    <3>2. Switching(f)
      BY <2>4 DEF Calm, Torn
    <3> QED BY <2>4, <3>1, <3>2 DEF Switching, Torn
  <2>5. CASE f.pc \in {"args", "save"}
    <3>1. /\ g.pc \in {"save", "load"} /\ g.next = f.next /\ g.prev = f.prev
          /\ current' = current /\ cpu'.cr3 = cpu.cr3 /\ cpu'.rsp0 = cpu.rsp0
      BY <2>5 DEF Moved, NextPc, Body, Early, Stale, Torn, Wrote
    <3>2. Switching(f)
      BY <2>5 DEF Calm, Torn
    <3> QED BY <2>5, <3>1, <3>2 DEF Switching, Torn
  <2> QED BY <2>1, <2>2, <2>3, <2>4, <2>5 DEF Moved, Body, Early, Stale, Torn
<1>3. g.pc = "load" => task'[Boot].rsp = Rsp(Boot, Len(bs)')
  <2> SUFFICES ASSUME g.pc = "load" PROVE task'[Boot].rsp = Rsp(Boot, Len(bs)')
    OBVIOUS
  <2>1. f.pc = "save" /\ f.prev = Boot
    BY <1>0 DEF Moved, NextPc, Outward, Body, Early, Stale, Torn
  <2> QED BY <2>1 DEF Wrote, Circle, Still
<1>4. g.pc \in {"save", "load"} /\ g.rsi.on # proc => "torn" \in hits
  <2> SUFFICES ASSUME g.pc \in {"save", "load"}, g.rsi.on # proc PROVE "torn" \in hits
    OBVIOUS
  <2>1. f.pc \in {"args", "save"}
    BY DEF Moved, NextPc, Body, Early, Stale, Torn
  <2>2. f.next = proc
    BY <1>0, <2>1 DEF Outward, Torn
  <2> QED BY <2>1, <2>2 DEF Calm, Moved, Saved, Poisoned
<1>5. Clean /\ g.pc \in Stale \cup Torn => task'[proc].state # "done"
  <2> SUFFICES ASSUME Clean, g.pc \in Stale \cup Torn PROVE task'[proc].state # "done"
    OBVIOUS
  <2>1. f.pc \in {"skip"} \cup Stale \cup Torn
    BY DEF Moved, NextPc, Body, Early, Stale, Torn
  <2>2. task[proc].state # "done"
    <3>1. CASE f.pc = "skip"
      BY <1>0, <3>1 DEF Moved, NextPc, Outward, Body, Early, Stale, Torn
    <3>2. CASE f.pc \in Stale \cup Torn
      BY <3>2 DEF Calm
    <3> QED BY <2>1, <3>1, <3>2
  <2> QED BY <2>2 DEF Wrote, Circle
<1>6. Clean /\ g.pc \in {"current"} \cup Torn => task'[proc].state = "running"
  <2> SUFFICES ASSUME Clean, g.pc \in {"current"} \cup Torn PROVE task'[proc].state = "running"
    OBVIOUS
  <2>1. f.pc \in {"promote", "current"} \cup Torn
    BY DEF Moved, NextPc, Body, Early, Stale, Torn
  <2>2. f.next = proc
    BY <1>0, <2>1 DEF Outward, Stale
  <2> QED BY <2>1, <2>2 DEF Calm, Wrote, Circle, Torn
<1> QED BY <1>1, <1>2, <1>3, <1>4, <1>5, <1>6 DEF Calm, Clean, Still

\* yield's frame, once messed up, stays so.
LEMMA MessedStep ==
  ASSUME Circle, Still, Saved, NEW f, NEW g, Messed(f), Moved(f, g), Wrote(f)
  PROVE  Messed(g)'
<1>0. Outward(f) /\ f.pc \in {"cr3", "rsp0", "args", "save"}
  BY DEF Messed, Moved, Torn
<1>1. Outward(g)'
  BY <1>0, OutwardStep DEF Messed
<1>2. /\ g.pc \in Torn /\ f.prev = Boot /\ f.next = proc /\ current' = Boot
      /\ g.pc \in {"save", "load"} => f.pc \in {"args", "save"}
  BY <1>0 DEF Messed, Moved, NextPc, Outward, Wrote, Body, Early, Stale, Torn
<1>3. Poisoned'
  BY <1>2 DEF Messed, Poisoned, Wrote, Circle, Still
<1>4. g.pc \in {"save", "load"} /\ g.rsi.on = proc => cpu'.cr3 = Boot /\ cpu'.rsp0 = Boot
  BY <1>0, <1>2 DEF Messed, Moved, Poisoned, Wrote
<1> QED BY <1>1, <1>2, <1>3, <1>4 DEF Messed, Still

\* The tick's frame inside yield's switch goes back to the shell.
LEMMA UndoingStep ==
  ASSUME Circle, Still, task[proc].next = Boot, cpu.on = Boot,
         NEW f, NEW g, Undoing(f), Moved(f, g), Wrote(f)
  PROVE  Undoing(g)'
<1>1. g.pc \in Body /\ g.pc # "enter"
  BY DEF Moved, NextPc, Body, Early, Stale, Torn
<1>2. g.prev = proc
  BY DEF Undoing, Moved, Torn
<1>3. g.pc \in {"skip"} \cup Stale \cup Torn => g.next = Boot
  <2> SUFFICES ASSUME g.pc \in {"skip"} \cup Stale \cup Torn PROVE g.next = Boot
    OBVIOUS
  <2>1. f.pc \in {"follow", "skip"} \cup Stale \cup Torn
    BY DEF Moved, NextPc, Body, Early, Stale, Torn
  <2>2. f.prev = proc
    BY <2>1 DEF Undoing, Stale, Torn
  <2>3. CASE f.pc = "follow"
    BY <2>2, <2>3 DEF Moved
  <2>4. CASE f.pc \in {"skip"} \cup Stale \cup Torn
    <3>1. f.next = Boot /\ f.pc # "follow"
      BY <2>4 DEF Undoing, Stale, Torn
    <3> QED BY <3>1 DEF Moved, Circle
  <2> QED BY <2>1, <2>3, <2>4
<1>4. current' = IF g.pc \in Torn THEN Boot ELSE proc
  <2>1. CASE f.pc = "current"
    <3>1. g.pc \in Torn /\ f.next = Boot
      BY <2>1 DEF Undoing, Moved, NextPc, Body, Early, Stale, Torn
    <3> QED BY <2>1, <3>1 DEF Wrote
  <2>2. CASE f.pc # "current"
    <3>1. g.pc \in Torn <=> f.pc \in Torn
      BY <2>2 DEF Moved, NextPc, Body, Early, Stale, Torn
    <3> QED BY <2>2, <3>1 DEF Undoing, Wrote
  <2> QED BY <2>1, <2>2
<1>5. g.pc \in {"rsp0", "args", "save", "load"} => cpu'.cr3 = Boot
  <2> SUFFICES ASSUME g.pc \in {"rsp0", "args", "save", "load"} PROVE cpu'.cr3 = Boot
    OBVIOUS
  <2>1. f.pc \in {"cr3", "rsp0", "args", "save"}
    BY DEF Moved, NextPc, Body, Early, Stale, Torn
  <2> QED BY <2>1 DEF Undoing, Wrote, Torn
<1>6. g.pc \in {"args", "save", "load"} => cpu'.rsp0 = Boot
  <2> SUFFICES ASSUME g.pc \in {"args", "save", "load"} PROVE cpu'.rsp0 = Boot
    OBVIOUS
  <2>1. f.pc \in {"rsp0", "args", "save"}
    BY DEF Moved, NextPc, Body, Early, Stale, Torn
  <2> QED BY <2>1 DEF Undoing, Wrote, Torn
<1>7. g.pc = "load" => Poisoned'
  <2> SUFFICES ASSUME g.pc = "load" PROVE Poisoned'
    OBVIOUS
  <2>1. f.pc = "save" /\ f.prev = proc
    BY DEF Undoing, Moved, NextPc, Body, Early, Stale, Torn
  <2>2. task'[proc].rsp = Rsp(Boot, Depth)
    BY <2>1 DEF Wrote, Circle
  <2> QED BY <2>2 DEF Poisoned, Circle, Rsp, Still
<1> QED BY <1>1, <1>2, <1>3, <1>4, <1>5, <1>6, <1>7 DEF Undoing, Still

\* A later tick's frame will be lost, as the process's rsp is.
LEMMA AgainStep ==
  ASSUME Circle, Still, Saved, NEW f, NEW g, NEW h, Again(f, h), Moved(f, g), Wrote(f)
  PROVE  Again(g, h)'
<1>0. Outward(f) /\ Poisoned /\ (f.pc = "enter" => current = Boot)
  BY DEF Again, Torn
<1>1. Outward(g)' /\ g.pc \in Body
  BY <1>0, OutwardStep DEF Moved, NextPc, Body, Early, Stale, Torn
<1>2. Poisoned'
  <2>1. f.pc = "save" => f.prev = Boot
    BY <1>0 DEF Outward, Body, Torn
  <2> QED BY <1>0, <2>1 DEF Poisoned, Wrote, Circle, Still
<1>3. g.pc \notin Torn =>
        /\ current' = Boot
        /\ h.pc \in {"save", "load"} /\ h.rsi.on = proc => cpu'.cr3 = Boot /\ cpu'.rsp0 = Boot
  <2> SUFFICES ASSUME g.pc \notin Torn
               PROVE  /\ current' = Boot
                      /\ h.pc \in {"save", "load"} /\ h.rsi.on = proc => cpu'.cr3 = Boot /\ cpu'.rsp0 = Boot
    OBVIOUS
  <2>1. f.pc \notin {"current", "cr3", "rsp0", "args", "save", "load"} /\ f.pc \notin Torn
    BY DEF Moved, NextPc, Body, Early, Stale, Torn
  <2> QED BY <2>1 DEF Again, Wrote
<1>4. g.pc \in {"save", "load"} => g.rsi.on # proc
  <2> SUFFICES ASSUME g.pc \in {"save", "load"} PROVE g.rsi.on # proc
    OBVIOUS
  <2>1. f.pc \in {"args", "save"}
    BY DEF Moved, NextPc, Body, Early, Stale, Torn
  <2>2. f.next = proc
    BY <1>0, <2>1 DEF Outward, Torn
  <2> QED BY <1>0, <2>1, <2>2 DEF Again, Moved, Poisoned
<1> QED BY <1>1, <1>2, <1>3, <1>4 DEF Again, Still

\* The process's own switch to the shell.
LEMMA NormalStep ==
  ASSUME Circle, Still, cpu.on = proc, Depth = Len(ps), Junk \notin alive,
         task[proc].next \in {Boot, Junk}, ps'[1].pc = ps[1].pc,
         NEW f, NEW g, Normal(f), Moved(f, g), Wrote(f)
  PROVE  Normal(g)'
<1>1. g.pc \in Body /\ g.prev = proc
  BY DEF Normal, Steady, Moved, NextPc, Body, Early, Stale, Torn
<1>2. g.pc \in {"skip"} \cup Stale \cup Torn => g.next = task[proc].next
  <2> SUFFICES ASSUME g.pc \in {"skip"} \cup Stale \cup Torn PROVE g.next = task[proc].next
    OBVIOUS
  <2>1. f.pc \in {"follow", "skip"} \cup Stale \cup Torn
    BY DEF Moved, NextPc, Body, Early, Stale, Torn
  <2>2. f.prev = proc
    BY <2>1 DEF Normal, Body, Early, Stale, Torn
  <2>3. CASE f.pc = "follow"
    BY <2>2, <2>3 DEF Moved
  <2>4. CASE f.pc = "skip"
    <3>1. f.next = Boot
      BY <2>4 DEF Normal, Moved
    <3>2. g.next = f.next
      BY <2>4, <3>1 DEF Moved, Circle
    <3> QED BY <2>4, <3>2 DEF Normal
  <2>5. CASE f.pc \in Stale \cup Torn
    <3>1. g.next = f.next
      BY <2>5 DEF Moved, Stale, Torn
    <3> QED BY <2>5, <3>1 DEF Normal
  <2> QED BY <2>1, <2>3, <2>4, <2>5
<1>3. g.pc \in Stale \cup Torn => g.next = Boot
  <2> SUFFICES ASSUME g.pc \in Stale \cup Torn PROVE g.next = Boot
    OBVIOUS
  <2>1. f.pc \in {"skip"} \cup Stale \cup Torn
    BY DEF Moved, NextPc, Body, Early, Stale, Torn
  <2>2. CASE f.pc = "skip"
    <3>1. f.next = Boot
      BY <2>2 DEF Normal, Moved
    <3> QED BY <2>2, <3>1 DEF Moved, Circle
  <2>3. CASE f.pc \in Stale \cup Torn
    BY <2>3 DEF Normal, Moved, Stale, Torn
  <2> QED BY <2>1, <2>2, <2>3
<1>4. IF g.pc \in Torn THEN Switching(g)' ELSE Steady(proc)'
  <2>1. CASE f.pc \in Early \cup {"demote", "promote"}
    <3>1. g.pc \notin Torn /\ f.pc \notin Torn /\ f.pc # "current"
      BY <2>1 DEF Moved, NextPc, Body, Early, Stale, Torn
    <3> QED BY <3>1 DEF Normal, Steady, Wrote, Torn, Still
  <2>2. CASE f.pc = "current"
    <3>1. /\ g.pc = "cr3" /\ g.next = f.next /\ g.prev = f.prev /\ f.prev = proc
          /\ current' = f.next /\ cpu'.cr3 = cpu.cr3 /\ cpu'.rsp0 = cpu.rsp0
      BY <2>2 DEF Normal, Moved, NextPc, Body, Early, Stale, Torn, Wrote
    <3>2. cpu.cr3 = proc /\ cpu.rsp0 = proc
      BY <2>2 DEF Normal, Steady, Torn
    <3> QED BY <3>1, <3>2 DEF Switching, Torn
  <2>3. CASE f.pc = "cr3"
    <3>1. /\ g.pc = "rsp0" /\ g.next = f.next /\ g.prev = f.prev
          /\ current' = current /\ cpu'.cr3 = f.next /\ cpu'.rsp0 = cpu.rsp0
      BY <2>3 DEF Moved, NextPc, Body, Early, Stale, Torn, Wrote
    <3>2. Switching(f)
      BY <2>3 DEF Normal, Torn
    <3> QED BY <2>3, <3>1, <3>2 DEF Switching, Torn
  <2>4. CASE f.pc = "rsp0"
    <3>1. /\ g.pc = "args" /\ g.next = f.next /\ g.prev = f.prev
          /\ current' = current /\ cpu'.cr3 = cpu.cr3 /\ cpu'.rsp0 = f.next
      BY <2>4 DEF Moved, NextPc, Body, Early, Stale, Torn, Wrote
    <3>2. Switching(f)
      BY <2>4 DEF Normal, Torn
    <3> QED BY <2>4, <3>1, <3>2 DEF Switching, Torn
  <2>5. CASE f.pc \in {"args", "save"}
    <3>1. /\ g.pc \in {"save", "load"} /\ g.next = f.next /\ g.prev = f.prev
          /\ current' = current /\ cpu'.cr3 = cpu.cr3 /\ cpu'.rsp0 = cpu.rsp0
      BY <2>5 DEF Moved, NextPc, Body, Early, Stale, Torn, Wrote
    <3>2. Switching(f)
      BY <2>5 DEF Normal, Torn
    <3> QED BY <2>5, <3>1, <3>2 DEF Switching, Torn
  <2> QED BY <2>1, <2>2, <2>3, <2>4, <2>5 DEF Moved, Body, Early, Stale, Torn
<1>5. task'[Boot].rsp = Rsp(Boot, Len(bs)') /\ task'[proc].next = task[proc].next
  <2>1. f.pc = "save" => f.prev = proc
    BY DEF Normal, Body, Torn
  <2> QED BY <2>1 DEF Normal, Wrote, Circle, Still
<1>6. g.pc \in {"save", "load"} => g.rsi = Rsp(Boot, Len(bs)')
  <2> SUFFICES ASSUME g.pc \in {"save", "load"} PROVE g.rsi = Rsp(Boot, Len(bs)')
    OBVIOUS
  <2>1. f.pc \in {"args", "save"}
    BY DEF Moved, NextPc, Body, Early, Stale, Torn
  <2>2. f.next = Boot
    BY <2>1 DEF Normal, Torn
  <2> QED BY <2>1, <2>2 DEF Normal, Moved, Still
<1>7. g.pc = "load" => task'[proc].rsp = Rsp(proc, Len(ps)')
  <2> SUFFICES ASSUME g.pc = "load" PROVE task'[proc].rsp = Rsp(proc, Len(ps)')
    OBVIOUS
  <2>1. f.pc = "save" /\ f.prev = proc
    BY DEF Normal, Moved, NextPc, Body, Early, Stale, Torn
  <2> QED BY <2>1 DEF Wrote, Circle, Still
<1>8. Clean /\ ps[1].pc # "halt" =>
        task'[proc].state = "running" \/ g.pc \in {"promote", "current"} \cup Torn
  <2> SUFFICES ASSUME Clean, ps[1].pc # "halt", g.pc \notin {"promote", "current"} \cup Torn
               PROVE  task'[proc].state = "running"
    OBVIOUS
  <2>1. f.pc \in Early
    BY DEF Moved, NextPc, Body, Early, Stale, Torn
  <2>2. task[proc].state = "running"
    BY <2>1 DEF Normal, Early, Torn
  <2> QED BY <2>1, <2>2 DEF Wrote, Circle, Early
<1> QED BY <1>1, <1>2, <1>3, <1>4, <1>5, <1>6, <1>7, <1>8 DEF Normal, Clean, Still

\* The process the scheduler does not believe in.
LEMMA ZombieStep ==
  ASSUME Circle, Still, cpu.on = proc, task[proc].next = Boot,
         NEW f, NEW g, Zombie(f), Moved(f, g), Wrote(f)
  PROVE  Zombie(g)'
<1>1. g.pc \in Body /\ g.prev = Boot
  BY DEF Zombie, Steady, Moved, NextPc, Body, Early, Stale, Torn
<1>2. f.pc # "enter" => f.prev = Boot
  BY DEF Zombie, Moved
<1>3. g.pc = "skip" => g.next \in {Boot, proc}
  <2> SUFFICES ASSUME g.pc = "skip" PROVE g.next \in {Boot, proc}
    OBVIOUS
  <2>1. f.pc \in {"follow", "skip"}
    BY DEF Moved, NextPc, Body, Early, Stale, Torn
  <2> QED BY <1>2, <2>1 DEF Zombie, Moved, Circle
<1>4. g.pc \in Stale \cup Torn => g.next = proc
  <2> SUFFICES ASSUME g.pc \in Stale \cup Torn PROVE g.next = proc
    OBVIOUS
  <2>1. f.pc \in {"skip"} \cup Stale \cup Torn
    BY DEF Moved, NextPc, Body, Early, Stale, Torn
  <2>2. f.prev = Boot
    BY <1>2, <2>1 DEF Stale, Torn
  <2> QED BY <2>1, <2>2 DEF Zombie, Moved, Stale, Torn
<1>5. g.pc \notin Torn => Steady(Boot)'
  <2> SUFFICES ASSUME g.pc \notin Torn PROVE Steady(Boot)'
    OBVIOUS
  <2>1. f.pc \notin {"current", "cr3", "rsp0"} /\ f.pc \notin Torn
    BY DEF Moved, NextPc, Body, Early, Stale, Torn
  <2> QED BY <2>1 DEF Zombie, Steady, Wrote
<1>6. g.pc \in {"save", "load"} => g.rsi.on # proc
  <2> SUFFICES ASSUME g.pc \in {"save", "load"} PROVE g.rsi.on # proc
    OBVIOUS
  <2>1. f.pc \in {"args", "save"}
    BY DEF Moved, NextPc, Body, Early, Stale, Torn
  <2>2. f.next = proc
    BY <2>1 DEF Zombie, Torn
  <2> QED BY <2>1, <2>2 DEF Zombie, Moved, Poisoned
<1>7. Poisoned'
  <2>1. f.pc = "save" => f.prev = Boot
    BY <1>2
  <2> QED BY <2>1 DEF Zombie, Poisoned, Wrote, Circle, Still
<1> QED BY <1>1, <1>3, <1>4, <1>5, <1>6, <1>7 DEF Zombie, Still

-----------------------------------------------------------------------------
\* What Core says of the place the CPU is in.

LEMMA CircleFacts ==
  ASSUME Core, Linked
  PROVE  /\ Circle /\ alive = {Boot, proc} /\ Junk \notin alive /\ Paired
         /\ task[proc].next \in {Boot, Junk} /\ (base = "wait" => task[proc].next = Boot)
<1>1. HasProc /\ base \in {"close", "wait"} /\ base # "init" /\ Live /\ Links /\ Paired
  BY DEF Core, Linked, HasProc
<1>2. alive = {Boot, proc} /\ proc \in Procs
  BY <1>1 DEF Live
<1> QED BY <1>1, <1>2, TasksAssumption DEF Circle, Links, Tasks

\* The locals of the running frame name tasks.
LEMMA TopLocals ==
  ASSUME Core
  PROVE  /\ Top.pc \in Body \ {"enter"} => Top.prev \in Tasks
         /\ Top.pc \in Stale \cup Torn => Top.next \in Tasks /\ Top.next \in {Boot, proc}
<1>0. Top = stack[cpu.on][Len(stack[cpu.on])] /\ Boot \in Tasks
  BY Running DEF Tasks
<1>1. CASE ~Linked
  <2>1. Alone /\ Shape
    BY <1>1 DEF Core
  <2>2. Top = bs[Len(bs)] /\ Len(bs) \in {1, 2}
    BY <1>1, AloneTop
  <2>3. CASE Len(bs) = 1
    BY <2>1, <2>2, <2>3 DEF Shape, base, Shell, Body, Early, Stale, Torn
  <2>4. CASE Len(bs) = 2
    BY <1>0, <2>1, <2>2, <2>4 DEF Alone, Early, Stale, Torn, Body
  <2> QED BY <2>2, <2>3, <2>4
<1>2. CASE Linked
  <2>0. Circle /\ Paired /\ Shape
    BY <1>2, CircleFacts DEF Core
  <2>1. CASE OnBoot
    <3>1. Top = bs[Len(bs)] /\ Len(bs) \in {1, 2, 3}
      <4>1. cpu.on = Boot
        BY <2>1 DEF OnBoot
      <4> QED BY <4>1, ShellTop
    <3>2. CASE Len(bs) = 1
      BY <2>0, <3>1, <3>2 DEF Shape, base, Shell, Body, Early, Stale, Torn
    <3>3. CASE Len(bs) = 2
      <4>1. Outward(Top)
        <5>1. bs[2].ret \in {"irq", "yield"} /\ Top = bs[2]
          BY <2>0, <3>1, <3>3 DEF Shape
        <5>2. Calm(bs[2]) \/ Messed(bs[2])
          BY <2>1, <3>3, <5>1 DEF OnBoot
        <5> QED BY <5>1, <5>2 DEF Calm, Messed
      <4> QED BY <2>0, <4>1 DEF Outward, Circle
    <3>4. CASE Len(bs) = 3
      <4>1. Outward(Top) \/ Undoing(Top) \/ Top.pc = "return"
        BY <2>0, <2>1, <3>1, <3>4 DEF OnBoot, Shape, Calm, Again
      <4> QED BY <2>0, <4>1 DEF Outward, Undoing, Circle, Body, Early, Stale, Torn
    <3> QED BY <3>1, <3>2, <3>3, <3>4
  <2>2. CASE OnProc
    <3>1. Top = ps[Len(ps)]
      BY <1>0, <2>2 DEF OnProc, ps
    <3>2. Normal(Top) \/ Zombie(Top)
      BY <2>2, <3>1 DEF OnProc
    <3> QED BY <2>0, <3>2 DEF Normal, Zombie, Circle
  <2> QED BY <2>0, <2>1, <2>2 DEF Paired
<1> QED BY <1>1, <1>2

\* Replacing the running frame.
LEMMA SetTopFacts ==
  ASSUME Core, NEW g \in FrameType, SetTop(g)
  PROVE  /\ stack' \in [Tasks -> Seq(FrameType)]
         /\ cpu.on = Boot => /\ Len(bs') = Len(bs) /\ bs'[Len(bs)] = g
                             /\ \A i \in 1..Len(bs) - 1 : bs'[i] = bs[i]
                             /\ proc \in Procs /\ proc' = proc => ps' = ps
         /\ cpu.on = proc /\ proc' = proc =>
              /\ bs' = bs /\ Len(ps') = Len(ps) /\ ps'[Len(ps)] = g
              /\ \A i \in 1..Len(ps) - 1 : ps'[i] = ps[i]
<1>1. /\ stack[cpu.on] \in Seq(FrameType) /\ Len(stack[cpu.on]) >= 1 /\ cpu.on \in Tasks
      /\ stack \in [Tasks -> Seq(FrameType)] /\ (cpu.on = proc => proc \in Procs)
  BY Running DEF Core, TypeOK
<1> DEFINE s == stack[cpu.on]
           r == [s EXCEPT ![Len(s)] = g]
<1>2. /\ r \in Seq(FrameType) /\ Len(r) = Len(s) /\ r[Len(s)] = g
      /\ \A i \in 1..Len(s) - 1 : r[i] = s[i]
  BY <1>1, ReplaceFacts
<1>3. stack' = [stack EXCEPT ![cpu.on] = r]
  BY <1>1 DEF SetTop, Depth
<1> HIDE DEF r
<1>4. /\ stack' \in [Tasks -> Seq(FrameType)] /\ stack'[cpu.on] = r
      /\ \A t \in Tasks : t # cpu.on => stack'[t] = stack[t]
  BY <1>1, <1>2, <1>3
<1> QED BY <1>1, <1>2, <1>4, TasksAssumption DEF bs, ps, Tasks

-----------------------------------------------------------------------------
\* A step of schedule() below its switch of stacks keeps Core.

\* What does not depend on the kind of frame.
LEMMA StepCommon ==
  ASSUME Core, StepUp
  PROVE  \E g \in FrameType :
           /\ Moved(Top, g) /\ Wrote(Top) /\ SetTop(g)
           /\ UNCHANGED <<alive, spaces, proc, hits, fate>>
           /\ TypeOK' /\ Top \in FrameType /\ Depth = Len(stack[cpu.on])
<1>1. PICK g : Step(Top, g) /\ SetTop(g) /\ UNCHANGED <<alive, spaces, proc, hits, fate>>
  BY DEF StepUp
<1>2. Top \in FrameType /\ Depth \in Nat /\ Depth = Len(stack[cpu.on])
  BY Running DEF Depth
<1>3. Moved(Top, g) /\ Wrote(Top)
  BY <1>1, <1>2, TopLocals, StepFacts DEF Core
<1>4. g \in FrameType
  BY <1>3 DEF Moved
<1>5. stack' \in [Tasks -> Seq(FrameType)]
  BY <1>1, <1>4, SetTopFacts
<1>6. current' \in Tasks \cup {NULL}
  <2>1. Top.pc = "current" => Top.next \in Tasks
    BY TopLocals DEF Stale
  <2> QED BY <1>3, <2>1 DEF Wrote, Core, TypeOK
<1>7. TypeOK'
  BY <1>1, <1>3, <1>5, <1>6 DEF Wrote, Core, TypeOK
<1> QED BY <1>1, <1>2, <1>3, <1>4, <1>7

\* The parts of Core that only look at where the shell is.
LEMMA StepOuter ==
  ASSUME Core, base' = base, Wrote(Top), UNCHANGED <<alive, spaces, proc>>
  PROVE  Live' /\ Links' /\ (HasProc' <=> HasProc) /\ (Linked' <=> Linked)
<1>1. (HasProc' <=> HasProc) /\ (Linked' <=> Linked)
  BY DEF HasProc, Linked
<1>2. Live'
  BY <1>1 DEF Core, Live
<1>3. task'[Boot].next = task[Boot].next /\ (task[Boot].state # "done" => task'[Boot].state # "done")
  BY DEF Wrote, Tasks
<1>4. HasProc => proc \in Tasks
  BY DEF Core, Live, Tasks
<1>5. HasProc => task'[proc].next = task[proc].next
  BY <1>4 DEF Wrote
<1>6. Links'
  BY <1>3, <1>5 DEF Core, Links, HasProc
<1> QED BY <1>1, <1>2, <1>6

\* The shell alone.
LEMMA StepAlone ==
  ASSUME Core, ~Linked, NEW g \in FrameType, Moved(Top, g), Wrote(Top), SetTop(g),
         UNCHANGED <<alive, spaces, proc, hits, fate>>, TypeOK'
  PROVE  Core'
<1>1. Alone /\ Shape /\ Live /\ Links
  BY DEF Core
<1>2. /\ cpu.on = Boot /\ Top = bs[Len(bs)] /\ Len(bs) \in {1, 2}
  BY AloneTop
<1>3. Len(bs) = 2 /\ Top = bs[2]
  BY <1>1, <1>2 DEF Moved, Shape, base, Shell, Body, Early, Stale, Torn
<1>4. Len(bs') = 2 /\ bs'[2] = g /\ bs'[1] = bs[1] /\ (proc \in Procs => ps' = ps)
  <2>1. /\ Len(bs') = Len(bs) /\ bs'[Len(bs)] = g /\ (proc \in Procs => ps' = ps)
        /\ \A i \in 1..Len(bs) - 1 : bs'[i] = bs[i]
    BY <1>2, SetTopFacts
  <2>2. 1 \in 1..Len(bs) - 1
    BY <1>3
  <2>3. bs'[1] = bs[1]
    BY <2>1, <2>2
  <2> QED BY <1>3, <2>1, <2>3
<1>5. base' = base
  BY <1>4 DEF base
<1>6. Live' /\ Links' /\ (HasProc' <=> HasProc) /\ (Linked' <=> Linked)
  BY <1>5, StepOuter
<1>7. Top.ret = "irq" /\ Top.pc \in Early /\ g.ret = "irq"
  BY <1>1, <1>3 DEF Alone, Moved
<1>8. base # "init" /\ current = Boot /\ g.prev = Boot
  <2>1. CASE Top.pc = "enter"
    BY <1>1, <2>1 DEF Alone, Moved
  <2>2. CASE Top.pc \in {"follow", "skip"}
    BY <1>1, <1>3, <2>2 DEF Alone, Moved
  <2> QED BY <1>7, <2>1, <2>2 DEF Early
<1>9. /\ current' = current /\ cpu'.on = Boot /\ cpu'.cr3 = cpu.cr3 /\ cpu'.rsp0 = cpu.rsp0
      /\ HasProc => task'[proc].state = task[proc].state /\ task'[proc].rsp = task[proc].rsp
  <2>1. HasProc => proc \in Tasks
    BY <1>1 DEF Live, Tasks
  <2> QED BY <1>2, <1>7, <2>1 DEF Wrote, Early
<1>10. /\ g.pc \in Early
       /\ g.pc = "skip" => g.next = Boot \/ (base = "reap" /\ g.next = proc)
  <2>1. CASE Top.pc = "enter"
    BY <2>1 DEF Moved, NextPc, Body, Early
  <2>2. CASE Top.pc = "follow"
    <3>1. g.pc = "skip" /\ g.next = task[Boot].next
      BY <1>8, <2>2 DEF Moved, NextPc, Body, Early
    <3>2. task[Boot].next = Boot \/ (base = "reap" /\ task[Boot].next = proc)
      BY <1>1, <1>8 DEF Links, Linked
    <3> QED BY <3>1, <3>2 DEF Early
  <2>3. CASE Top.pc = "skip"
    <3>1. base = "reap" /\ Top.next = proc
      BY <1>1, <1>3, <1>8, <2>3 DEF Alone, Moved
    <3>2. task[proc].state = "done" /\ task[proc].next = Boot
      BY <1>1, <3>1 DEF Alone, Links
    <3> QED BY <2>3, <3>1, <3>2 DEF Moved, Early
  <2> QED BY <1>7, <2>1, <2>2, <2>3 DEF Early
<1>11. Shape'
  <2>1. base' \in Shell
    BY <1>1, <1>5 DEF Shape
  <2> QED BY <1>4, <1>7, <1>10, <2>1, ShapeTwo
<1>12. Alone'
  <2>1. base = "link" => ps' = ps /\ HasProc
    BY <1>1, <1>4 DEF Live, HasProc
  <2>2. base = "reap" => HasProc
    BY DEF HasProc
  <2>3. base' = "link" => /\ Len(ps') = 1 /\ ps'[1].pc = "entry" /\ task'[proc'].state = "ready"
                          /\ task'[proc'].rsp = Rsp(proc', 1)
    BY <1>1, <1>5, <1>9, <2>1 DEF Alone
  <2>4. base' = "reap" => task'[proc'].state = "done"
    BY <1>1, <1>5, <1>9, <2>2 DEF Alone
  <2>5. /\ cpu'.on = Boot /\ cpu'.cr3 = Boot /\ cpu'.rsp0 = Boot
        /\ current' = IF base' = "init" THEN NULL ELSE Boot
    BY <1>1, <1>5, <1>8, <1>9 DEF Alone
  <2>6. ~cpu.intr
    BY <1>1, <1>3 DEF Alone
  <2>7. ~cpu'.intr
    BY <2>6 DEF Wrote
  <2>8. /\ Len(bs') = 2 /\ bs'[2].ret = "irq" /\ bs'[2].pc \in Early
        /\ bs'[2].prev = Boot /\ base' # "init"
        /\ bs'[2].pc = "skip" => bs'[2].next = Boot \/ (base' = "reap" /\ bs'[2].next = proc')
    BY <1>4, <1>5, <1>7, <1>8, <1>10
  <2> QED BY <2>3, <2>4, <2>5, <2>7, <2>8, AloneTwo
<1> QED BY <1>6, <1>11, <1>12 DEF Core

=============================================================================
