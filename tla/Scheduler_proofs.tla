-------------------------- MODULE Scheduler_proofs --------------------------
(***************************************************************************)
(* The steps of the shell, of the process and of the timer keep Core, and  *)
(* the theorems about Scheduler that follow.                               *)
(***************************************************************************)
EXTENDS Scheduler_switch, TLAPS

\* In Ring 3 it is the process that runs, and TSS.rsp0 names its stack unless it is a zombie.
LEMMA InRing3 ==
  ASSUME Core, Top.pc \in User
  PROVE  /\ Linked /\ OnProc /\ Circle /\ ItsStack /\ Gone /\ cpu.on = proc
         /\ Len(ps) = 1 /\ Top = ps[1]
         /\ (Normal(Top) /\ Steady(proc)) \/ (base = "wait" /\ Zombie(Top) /\ Steady(Boot))
<1>1. Linked /\ OnProc
  <2>1. CASE cpu.on = proc
    BY <2>1, Running
  <2>2. CASE cpu.on = Boot
    <3>1. Top = bs[Len(bs)] /\ Shape
      BY <2>2, Running DEF bs, Core
    <3> QED BY <3>1 DEF Shape, base, Shell, User, Body, Early, Stale, Torn
  <2> QED BY <2>1, <2>2, Running
<1>2. Circle /\ ItsStack /\ Gone /\ cpu.on = proc
  BY <1>1, CircleFacts DEF Paired, OnProc
<1>3. Top = ps[Len(ps)] /\ Len(ps) \in Nat /\ Len(ps) >= 1
  BY <1>2, Running DEF ps
<1>4. Len(ps) = 1
  <2> SUFFICES ASSUME Len(ps) # 1 PROVE FALSE
    OBVIOUS
  <2> DEFINE n == Len(ps)
  <2>1. n \in 2..n
    <3>1. n \in Nat /\ n # 1 /\ n >= 1
      BY <1>3
    <3> HIDE DEF n
    <3> QED BY <3>1
  <2>2. Top.pc \in Body \cup {"return"}
    BY <1>2, <1>3, <2>1 DEF ItsStack
  <2> QED BY <2>2 DEF User, Body, Early, Stale, Torn
<1>5. Top.pc \notin Torn
  BY DEF User, Torn
<1>6. Normal(Top) \/ (base = "wait" /\ Zombie(Top))
  BY <1>1, <1>3 DEF OnProc
<1> QED BY <1>1, <1>2, <1>3, <1>4, <1>5, <1>6 DEF Normal, Zombie

\* In the shell's own code the scheduler, CR3 and TSS.rsp0 name the shell.
LEMMA InShell ==
  ASSUME Core, Top.pc \in Shell
  PROVE  /\ cpu.on = Boot /\ Len(bs) = 1 /\ Top = bs[1] /\ base = Top.pc
         /\ cpu.cr3 = Boot /\ cpu.rsp0 = Boot /\ current = IF base = "init" THEN NULL ELSE Boot
         /\ base \notin {"wait", "reap"} => cpu.intr
         /\ ~Linked => Alone
         /\ Linked => OnBoot /\ Circle /\ Saved /\ ItsStack /\ Gone
<1>1. Shape
  BY DEF Core
<1>2. cpu.on = Boot
  <2>1. CASE cpu.on = proc
    <3>1. Top = ps[Len(ps)] /\ Len(ps) \in Nat /\ Len(ps) >= 1 /\ ItsStack
      BY <2>1, Running, CircleFacts DEF ps, Paired
    <3> QED BY <3>1 DEF ItsStack, Shell, User, Body, Early, Stale, Torn
  <2> QED BY <2>1, Running
<1>3. Top = bs[Len(bs)] /\ Len(bs) \in {1, 2, 3}
  BY <1>1, <1>2, Running DEF Shape, bs
<1>4. Len(bs) = 1 /\ Top = bs[1] /\ base = Top.pc
  BY <1>1, <1>3 DEF Shape, Shell, base, Body, Early, Stale, Torn
<1>5. CASE ~Linked
  BY <1>2, <1>4, <1>5 DEF Core, Alone
<1>6. CASE Linked
  <2>1. Circle /\ Paired /\ OnBoot
    BY <1>2, <1>6, CircleFacts DEF Paired, OnProc, Circle
  <2> QED BY <1>2, <1>4, <1>6, <2>1 DEF Paired, OnBoot, Steady, Linked
<1> QED BY <1>5, <1>6

-----------------------------------------------------------------------------
\* The shell's own steps.
LEMMA ShellGoto ==
  ASSUME Core, Top.pc \in Shell, NEW pc \in Shell, Goto(pc), proc' = proc
  PROVE  /\ stack' \in [Tasks -> Seq(FrameType)] /\ Len(bs') = 1 /\ base' = pc /\ Shape'
         /\ proc \in Procs => ps' = ps
<1>1. cpu.on = Boot /\ Len(bs) = 1
  BY InShell
<1> DEFINE g == [Top EXCEPT !.pc = pc]
<1>2. g \in FrameType /\ g.pc = pc
  BY Running DEF FrameType
<1>3. SetTop(g)
  BY DEF Goto
<1> HIDE DEF g
<1>4. /\ stack' \in [Tasks -> Seq(FrameType)] /\ Len(bs') = 1 /\ bs'[1] = g
      /\ proc \in Procs => ps' = ps
  BY <1>1, <1>2, <1>3, SetTopFacts
<1>5. base' = pc
  BY <1>2, <1>4 DEF base
<1>6. Shape'
  BY <1>4, <1>5 DEF Shape
<1> QED BY <1>4, <1>5, <1>6

LEMMA SchedInitCore ==
  ASSUME Core, fate = "up", sched_init
  PROVE  Core' /\ ~Linked' /\ hits' = hits /\ fate' = fate
<1>1. Top.pc = "init" /\ Goto("idle") /\ Top.pc \in Shell /\ "idle" \in Shell /\ proc' = proc
      /\ hits' = hits /\ fate' = fate /\ alive' = {Boot} /\ current' = Boot
      /\ spaces' = spaces /\ cpu' = cpu
  BY DEF sched_init, At, Shell
<1>2. Shape' /\ base' = "idle" /\ stack' \in [Tasks -> Seq(FrameType)] /\ Len(bs') = 1
  BY <1>1, ShellGoto
<1>3. base = "init" /\ ~Linked /\ Alone /\ Live /\ TypeOK /\ cpu.intr
  BY <1>1, InShell DEF Linked, Core
<1>4. task' \in [Tasks -> TaskType] /\ task'[Boot].next = Boot /\ task'[Boot].state = "running"
  BY <1>3 DEF sched_init, TypeOK, TaskType, Tasks, Rsp, RspType
<1>5. TypeOK' /\ Boot \in Tasks
  BY <1>1, <1>2, <1>3, <1>4 DEF TypeOK, Tasks
<1>6. Live'
  BY <1>1, <1>2, <1>3 DEF Live, HasProc
<1>7. Links'
  BY <1>2, <1>4 DEF Links
<1>8. Alone' /\ ~Linked'
  BY <1>1, <1>2, <1>3 DEF Alone, Linked
<1> QED BY <1>1, <1>2, <1>5, <1>6, <1>7, <1>8 DEF Core

\* task_create_user's append: the first write links the process, the second closes the circle.
LEMMA LinkCore ==
  ASSUME Core, fate = "up", LinkTask
  PROVE  Core' /\ hits' = hits /\ fate' = fate
<1>1. /\ Top.pc = "link" /\ Goto("close") /\ Top.pc \in Shell /\ "close" \in Shell /\ proc' = proc
      /\ UNCHANGED <<current, alive, spaces, cpu, hits, fate>>
  BY DEF LinkTask, At, Shell
<1>2. Shape' /\ base' = "close" /\ stack' \in [Tasks -> Seq(FrameType)] /\ Len(bs') = 1
      /\ (proc \in Procs => ps' = ps)
  BY <1>1, ShellGoto
<1>3. base = "link" /\ ~Linked /\ Alone /\ Live /\ Links /\ TypeOK /\ cpu.intr /\ cpu.on = Boot
  BY <1>1, InShell DEF Linked, Core
<1>4. proc \in Procs /\ alive \ {proc} = {Boot} /\ proc # Boot /\ Boot \in Tasks /\ proc \in Tasks
  BY <1>3, TasksAssumption DEF Live, HasProc, Tasks
<1>5. task[Boot].next = Boot /\ task[Boot].state # "done" /\ task[proc].next \in {Boot, Junk}
  BY <1>3 DEF Links
<1>6. WriteNext(Boot, proc)
  <2>1. (CHOOSE t \in alive \ {proc} : task[t].next = Boot) = Boot
    BY <1>4, <1>5
  <2> QED BY <2>1 DEF LinkTask, WriteNext
<1>7. /\ task' \in [Tasks -> TaskType] /\ task'[Boot].next = proc /\ task'[Boot].state = task[Boot].state
      /\ task'[proc].next = task[proc].next /\ task'[proc].state = task[proc].state
      /\ task'[proc].rsp = task[proc].rsp
  BY <1>3, <1>4, <1>6, LinkFacts
<1>8. TypeOK'
  BY <1>1, <1>2, <1>3, <1>7 DEF TypeOK
<1>9. Live'
  BY <1>1, <1>2, <1>3 DEF Live, HasProc
<1>10. Links'
  BY <1>1, <1>2, <1>5, <1>7 DEF Links
<1>11. /\ Len(ps') = 1 /\ ps'[1].pc = "entry" /\ task'[proc].state = "ready"
       /\ task'[proc].rsp = Rsp(proc, 1)
  BY <1>2, <1>3, <1>4, <1>7 DEF Alone
<1>12. ItsStack'
  BY <1>11 DEF ItsStack, User
<1>13. Gone'
  BY <1>1, <1>11 DEF Gone
<1>14. Saved'
  BY <1>1, <1>11 DEF Saved, Poisoned, Rsp
<1>15. OnBoot'
  BY <1>1, <1>2, <1>3, <1>14 DEF OnBoot, Steady, Alone
<1>16. Linked' /\ Paired'
  BY <1>2, <1>12, <1>13, <1>15 DEF Linked, Paired
<1> QED BY <1>1, <1>2, <1>8, <1>9, <1>10, <1>16 DEF Core

LEMMA CloseCore ==
  ASSUME Core, fate = "up", CloseCircle
  PROVE  Core' /\ hits' = hits /\ fate' = fate
<1>1. /\ Top.pc = "close" /\ Goto("wait") /\ Top.pc \in Shell /\ "wait" \in Shell /\ proc' = proc
      /\ UNCHANGED <<current, alive, spaces, cpu, hits, fate>> /\ WriteNext(proc, Boot)
  BY DEF CloseCircle, At, Shell, WriteNext
<1>2. Shape' /\ base' = "wait" /\ stack' \in [Tasks -> Seq(FrameType)] /\ Len(bs') = 1
      /\ (proc \in Procs => ps' = ps)
  BY <1>1, ShellGoto
<1>3. base = "close" /\ Linked /\ TypeOK /\ Live /\ Links /\ OnBoot /\ Circle /\ Saved /\ ItsStack /\ Gone
      /\ Len(bs) = 1
  BY <1>1, InShell DEF Linked, Core
<1>4. proc \in Procs /\ proc # Boot /\ Boot \in Tasks /\ proc \in Tasks
  BY <1>3 DEF Circle
<1>5. /\ task' \in [Tasks -> TaskType] /\ task'[Boot].next = proc /\ task'[Boot].state # "done"
      /\ task'[proc].next = Boot /\ task'[proc].state = task[proc].state
      /\ task'[proc].rsp = task[proc].rsp
  BY <1>1, <1>3, <1>4, LinkFacts DEF Circle
<1>6. TypeOK'
  BY <1>1, <1>2, <1>3, <1>5 DEF TypeOK
<1>7. Live'
  BY <1>1, <1>2, <1>3 DEF Live, HasProc
<1>8. Links'
  BY <1>1, <1>2, <1>5 DEF Links
<1>9. ItsStack' /\ Gone'
  BY <1>1, <1>2, <1>3, <1>4, <1>5 DEF ItsStack, Gone, Clean
<1>10. Saved'
  BY <1>1, <1>2, <1>3, <1>4, <1>5 DEF Saved, Poisoned
<1>11. OnBoot'
  BY <1>1, <1>2, <1>3, <1>10 DEF OnBoot, Steady
<1>12. Linked' /\ Paired'
  BY <1>2, <1>9, <1>11 DEF Linked, Paired
<1> QED BY <1>1, <1>2, <1>6, <1>7, <1>8, <1>12 DEF Core

\* A new activation of schedule().
Push(r) == stack' = [stack EXCEPT ![cpu.on] = Append(@, Call(r))]

LEMMA PushFacts ==
  ASSUME Core, NEW r \in {"irq", "yield"}, Push(r), proc' = proc
  PROVE  /\ stack' \in [Tasks -> Seq(FrameType)] /\ Call(r).pc = "enter" /\ Call(r).ret = r
         /\ cpu.on = Boot => /\ Len(bs') = Len(bs) + 1 /\ bs'[Len(bs) + 1] = Call(r)
                             /\ \A i \in 1..Len(bs) : bs'[i] = bs[i]
                             /\ proc \in Procs => ps' = ps
         /\ cpu.on = proc => /\ bs' = bs /\ Len(ps') = Len(ps) + 1 /\ ps'[Len(ps) + 1] = Call(r)
                             /\ \A i \in 1..Len(ps) : ps'[i] = ps[i]
<1>1. /\ stack[cpu.on] \in Seq(FrameType) /\ cpu.on \in Tasks
      /\ stack \in [Tasks -> Seq(FrameType)] /\ (cpu.on = proc => proc \in Procs)
  BY Running DEF Core, TypeOK
<1> DEFINE s == stack[cpu.on]
           f == Call(r)
<1>2. f \in FrameType /\ f.pc = "enter" /\ f.ret = r
  BY DEF Call, Frame, FrameType, Rsp, RspType, Body, Early
<1> HIDE DEF f
<1>3. /\ Append(s, f) \in Seq(FrameType) /\ Len(Append(s, f)) = Len(s) + 1
      /\ Append(s, f)[Len(s) + 1] = f /\ \A i \in 1..Len(s) : Append(s, f)[i] = s[i]
  BY <1>1, <1>2
<1>4. stack' = [stack EXCEPT ![cpu.on] = Append(s, f)]
  BY <1>1 DEF Push, f
<1>5. stack' \in [Tasks -> Seq(FrameType)]
  BY <1>1, <1>3, <1>4
<1>6. stack'[cpu.on] = Append(s, f) /\ \A t \in Tasks : t # cpu.on => stack'[t] = stack[t]
  BY <1>1, <1>4
<1>7. Boot \in Tasks /\ Boot \notin Procs /\ Procs \subseteq Tasks
  BY TasksAssumption DEF Tasks
<1>8. ASSUME cpu.on = Boot
      PROVE  /\ Len(bs') = Len(bs) + 1 /\ bs'[Len(bs) + 1] = f
             /\ \A i \in 1..Len(bs) : bs'[i] = bs[i]
  BY <1>3, <1>6, <1>8 DEF bs
<1>9. ASSUME cpu.on = Boot, proc \in Procs PROVE ps' = ps
  BY <1>6, <1>7, <1>9 DEF ps
<1>10. ASSUME cpu.on = proc
       PROVE  /\ Len(ps') = Len(ps) + 1 /\ ps'[Len(ps) + 1] = f
              /\ \A i \in 1..Len(ps) : ps'[i] = ps[i]
  BY <1>3, <1>6, <1>10 DEF ps
<1>11. ASSUME cpu.on = proc PROVE bs' = bs
  BY <1>1, <1>6, <1>7, <1>11 DEF bs
<1> QED BY <1>2, <1>5, <1>8, <1>9, <1>10, <1>11 DEF f

\* cmd_run's loop: another yield, or the process is done.
LEMMA WaitCore ==
  ASSUME Core, fate = "up", WaitDone
  PROVE  Core' /\ hits' = hits /\ fate' = fate
<1>1. /\ Top.pc = "wait" /\ Top.pc \in Shell /\ proc' = proc
      /\ UNCHANGED <<current, task, alive, spaces, cpu, hits, fate>>
  BY DEF WaitDone, At, Shell, mem
<1>2. base = "wait" /\ Linked /\ TypeOK /\ Shape /\ Live /\ Links /\ OnBoot /\ Circle /\ Saved
      /\ ItsStack /\ Gone /\ Len(bs) = 1 /\ cpu.on = Boot
  BY <1>1, InShell DEF Linked, Core
<1>3. proc \in Procs /\ proc # Boot /\ Boot \in Tasks /\ proc \in Tasks
  BY <1>2 DEF Circle
<1>4. Steady(Boot)
  BY <1>2 DEF OnBoot
<1>5. CASE task[proc].state = "done"
  <2>1. Goto("reap") /\ "reap" \in Shell
    BY <1>5 DEF WaitDone, Shell
  <2>2. Shape' /\ base' = "reap" /\ stack' \in [Tasks -> Seq(FrameType)] /\ Len(bs') = 1
    BY <1>1, <2>1, ShellGoto
  <2>3. TypeOK'
    BY <1>1, <1>2, <2>2 DEF TypeOK
  <2>4. Live'
    BY <1>1, <1>2, <2>2 DEF Live, HasProc
  <2>5. Links'
    BY <1>1, <1>2, <2>2 DEF Links
  <2>6. Alone' /\ ~Linked'
    BY <1>1, <1>2, <1>4, <1>5, <2>2 DEF Alone, Linked, Steady
  <2> QED BY <1>1, <2>2, <2>3, <2>4, <2>5, <2>6 DEF Core
<1>6. CASE task[proc].state # "done"
  <2>1. Push("yield")
    BY <1>6 DEF WaitDone, Push
  <2>2. /\ stack' \in [Tasks -> Seq(FrameType)] /\ Call("yield").pc = "enter" /\ Call("yield").ret = "yield"
        /\ Len(bs') = 2 /\ bs'[2] = Call("yield") /\ bs'[1] = bs[1] /\ ps' = ps
    BY <1>1, <1>2, <1>3, <2>1, PushFacts
  <2>3. base' = "wait"
    BY <1>2, <2>2 DEF base
  <2>4. TypeOK'
    BY <1>1, <1>2, <2>2 DEF TypeOK
  <2>5. Shape'
    BY <2>2, <2>3 DEF Shape, Shell, Body, Early
  <2>6. Live' /\ Links'
    BY <1>1, <1>2, <2>3 DEF Live, HasProc, Links
  <2>7. ItsStack' /\ Gone' /\ Saved'
    BY <1>1, <1>2, <2>2 DEF ItsStack, Gone, Clean, Saved, Poisoned
  <2>8. \A f : f.pc = "enter" => Calm(f)'
    BY <1>1, <1>4 DEF Calm, Outward, Steady, Stale, Torn
  <2>9. Calm(bs[2])'
    BY <2>2, <2>8
  <2>10. OnBoot'
    BY <1>1, <1>2, <2>2, <2>7, <2>9 DEF OnBoot
  <2>11. Linked' /\ Paired'
    BY <2>3, <2>7, <2>10 DEF Linked, Paired
  <2> QED BY <1>1, <2>4, <2>5, <2>6, <2>11 DEF Core
<1> QED BY <1>5, <1>6

\* task_reap: the splice takes the process out of the circle before anything is freed.
LEMMA SpliceCore ==
  ASSUME Core, fate = "up", Splice
  PROVE  Core' /\ hits' = hits /\ fate' = fate
<1>1. /\ Top.pc = "reap" /\ Goto("destroy") /\ Top.pc \in Shell /\ "destroy" \in Shell
      /\ UNCHANGED <<current, alive, spaces, proc, hits, fate>>
      /\ cpu' = [cpu EXCEPT !.intr = TRUE]
  BY DEF Splice, At, Shell
<1>2. Shape' /\ base' = "destroy" /\ stack' \in [Tasks -> Seq(FrameType)] /\ Len(bs') = 1
  BY <1>1, ShellGoto
<1>3. base = "reap" /\ Alone /\ Live /\ Links /\ TypeOK
  BY <1>1, InShell DEF Linked, Core
<1>4. proc \in Procs /\ alive = {Boot, proc} /\ proc # Boot /\ Boot \in Tasks /\ proc \in Tasks
  BY <1>3, TasksAssumption DEF Live, HasProc, Tasks
<1>5. task[Boot].next = proc /\ task[Boot].state # "done" /\ task[proc].next = Boot
  BY <1>3 DEF Links
<1>6. task' = [t \in Tasks |-> IF t = Boot THEN [task[t] EXCEPT !.next = Boot] ELSE task[t]]
  <2>1. \A t \in Tasks : t \in alive /\ task[t].next = proc <=> t = Boot
    BY <1>4, <1>5
  <2> QED BY <1>5, <2>1 DEF Splice
<1>7. task \in [Tasks -> TaskType]
  BY <1>3 DEF TypeOK
<1>8. task[Boot] \in TaskType
  BY <1>4, <1>7
<1>9. [task[Boot] EXCEPT !.next = Boot] \in TaskType
  BY <1>4, <1>8 DEF TaskType
<1>10. /\ task' \in [Tasks -> TaskType] /\ task'[Boot].next = Boot /\ task'[Boot].state # "done"
       /\ task'[proc].next = Boot
  <2>1. task' \in [Tasks -> TaskType]
    BY <1>6, <1>7, <1>9
  <2>2. task'[Boot] = [task[Boot] EXCEPT !.next = Boot]
    BY <1>4, <1>6
  <2>3. task'[proc] = task[proc]
    BY <1>4, <1>6
  <2> QED BY <1>5, <1>8, <2>1, <2>2, <2>3 DEF TaskType
<1>11. cpu' \in CpuType /\ cpu'.on = cpu.on /\ cpu'.cr3 = cpu.cr3 /\ cpu'.rsp0 = cpu.rsp0 /\ cpu'.intr
  BY <1>1, <1>3 DEF TypeOK, CpuType
<1>12. TypeOK'
  BY <1>1, <1>2, <1>3, <1>10, <1>11 DEF TypeOK
<1>13. Live' /\ Links'
  BY <1>1, <1>2, <1>3, <1>10 DEF Live, HasProc, Links
<1>14. Alone' /\ ~Linked'
  BY <1>1, <1>2, <1>3, <1>11 DEF Alone, Linked
<1> QED BY <1>1, <1>2, <1>12, <1>13, <1>14 DEF Core

LEMMA DestroyCore ==
  ASSUME Core, fate = "up", DestroySpace
  PROVE  Core' /\ hits' = hits /\ fate' = fate
<1>1. /\ Top.pc = "destroy" /\ Goto("free") /\ Top.pc \in Shell /\ "free" \in Shell
      /\ spaces' = spaces \ {proc} /\ UNCHANGED <<current, task, alive, proc, cpu, hits, fate>>
  BY DEF DestroySpace, At, Shell
<1>2. Shape' /\ base' = "free" /\ stack' \in [Tasks -> Seq(FrameType)] /\ Len(bs') = 1
  BY <1>1, ShellGoto
<1>3. base = "destroy" /\ Alone /\ Live /\ Links /\ TypeOK /\ Len(bs) = 1
  BY <1>1, InShell DEF Linked, Core
<1>4. proc \in Procs /\ spaces = {Boot, proc} /\ proc # Boot /\ Boot \in Tasks
  BY <1>3, TasksAssumption DEF Live, HasProc, Tasks
<1>5. TypeOK' /\ spaces' = {Boot}
  BY <1>1, <1>2, <1>3, <1>4 DEF TypeOK
<1>6. Live' /\ Links'
  BY <1>1, <1>2, <1>3, <1>5 DEF Live, HasProc, Links
<1>7. Alone' /\ ~Linked'
  BY <1>1, <1>2, <1>3 DEF Alone, Linked
<1> QED BY <1>1, <1>2, <1>5, <1>6, <1>7 DEF Core

LEMMA BaseFacts ==
  ASSUME NEW pc \in Shell \cup {"entry"}
  PROVE  <<Base(pc)>> \in Seq(FrameType) /\ Len(<<Base(pc)>>) = 1 /\ <<Base(pc)>>[1].pc = pc
<1>1. Base(pc) \in FrameType /\ Base(pc).pc = pc
  BY DEF Base, Frame, FrameType, Rsp, RspType, User
<1> HIDE DEF Base
<1> QED BY <1>1

LEMMA FreeCore ==
  ASSUME Core, fate = "up", FreeTask
  PROVE  Core' /\ ~Linked' /\ hits' = hits /\ fate' = fate
<1>1. /\ Top.pc = "free" /\ Top.pc \in Shell /\ alive' = alive \ {proc} /\ proc' = NULL
      /\ UNCHANGED <<current, task, spaces, cpu, hits, fate>>
  BY DEF FreeTask, At, Shell
<1>2. base = "free" /\ Alone /\ Live /\ Links /\ TypeOK /\ Len(bs) = 1
  BY <1>1, InShell DEF Linked, Core
<1>3. proc \in Procs /\ alive = {Boot, proc} /\ proc # Boot /\ Boot \in Tasks /\ proc \in Tasks
  BY <1>2, TasksAssumption DEF Live, HasProc, Tasks
<1> DEFINE s == <<Base("idle")>>
<1>4. s \in Seq(FrameType) /\ Len(s) = 1 /\ s[1].pc = "idle"
  BY BaseFacts DEF Shell
<1>5. stack' = [stack EXCEPT ![proc] = <<>>, ![Boot] = s] /\ stack \in [Tasks -> Seq(FrameType)]
  BY <1>2 DEF FreeTask, TypeOK
<1> HIDE DEF s
<1>6. stack' \in [Tasks -> Seq(FrameType)] /\ stack'[Boot] = s
  <2>1. \A e \in Seq(FrameType) :
          LET n == [stack EXCEPT ![proc] = e, ![Boot] = s]
          IN n \in [Tasks -> Seq(FrameType)] /\ n[Boot] = s
    BY <1>3, <1>4, <1>5
  <2>2. <<>> \in Seq(FrameType)
    OBVIOUS
  <2> QED BY <1>5, <2>1, <2>2, Zenon
<1>7. Len(bs') = 1 /\ base' = "idle"
  BY <1>4, <1>6 DEF bs, base
<1>8. Shape'
  BY <1>7 DEF Shape, Shell
<1>9. alive' = {Boot}
  BY <1>1, <1>3
<1>10. TypeOK'
  BY <1>1, <1>2, <1>3, <1>6, <1>9 DEF TypeOK
<1>11. Live' /\ Links'
  BY <1>1, <1>2, <1>7, <1>9 DEF Live, HasProc, Links
<1>12. Alone' /\ ~Linked'
  BY <1>1, <1>2, <1>7 DEF Alone, Linked
<1> QED BY <1>1, <1>8, <1>10, <1>11, <1>12 DEF Core

\* cmd_run when the allocations succeed.
Built ==
  \E t \in Procs \ alive, old \in {Boot, Junk} :
    /\ task' = [task EXCEPT ![t] = [state |-> "ready", next |-> old, rsp |-> Rsp(t, 1)]]
    /\ alive' = alive \cup {t} /\ spaces' = spaces \cup {t} /\ proc' = t
    /\ stack' = [stack EXCEPT ![t] = <<Base("entry")>>, ![Boot] = <<Base("link")>>]

LEMMA RunCore ==
  ASSUME Core, At("idle"), Built, UNCHANGED <<current, cpu, hits, fate>>
  PROVE  Core' /\ ~Linked'
<1>1. Top.pc = "idle" /\ Top.pc \in Shell
  BY DEF At, Shell
<1>2. base = "idle" /\ Alone /\ Live /\ Links /\ TypeOK /\ Len(bs) = 1 /\ cpu.intr
  BY <1>1, InShell DEF Linked, Core
<1>3. PICK t \in Procs \ alive, old \in {Boot, Junk} :
        /\ task' = [task EXCEPT ![t] = [state |-> "ready", next |-> old, rsp |-> Rsp(t, 1)]]
        /\ alive' = alive \cup {t} /\ spaces' = spaces \cup {t} /\ proc' = t
        /\ stack' = [stack EXCEPT ![t] = <<Base("entry")>>, ![Boot] = <<Base("link")>>]
  BY DEF Built
<1>4. alive = {Boot} /\ spaces = {Boot} /\ t \in Tasks /\ t # Boot /\ Boot \in Tasks
  BY <1>2, TasksAssumption DEF Live, HasProc, Tasks
<1> DEFINE s == <<Base("link")>>
           u == <<Base("entry")>>
           n == [state |-> "ready", next |-> old, rsp |-> Rsp(t, 1)]
<1>5. s \in Seq(FrameType) /\ Len(s) = 1 /\ s[1].pc = "link"
  BY BaseFacts DEF Shell
<1>6. u \in Seq(FrameType) /\ Len(u) = 1 /\ u[1].pc = "entry"
  BY BaseFacts
<1>7. n \in TaskType /\ n.state = "ready" /\ n.next \in {Boot, Junk} /\ n.rsp = Rsp(t, 1)
  BY <1>4 DEF TaskType, Rsp, RspType
<1>8. /\ stack' = [stack EXCEPT ![t] = u, ![Boot] = s] /\ stack \in [Tasks -> Seq(FrameType)]
      /\ task' = [task EXCEPT ![t] = n] /\ task \in [Tasks -> TaskType]
  BY <1>2, <1>3 DEF TypeOK
<1> HIDE DEF s, u, n
<1>9. stack' \in [Tasks -> Seq(FrameType)] /\ stack'[Boot] = s /\ stack'[t] = u
  BY <1>4, <1>5, <1>6, <1>8
<1>10. task' \in [Tasks -> TaskType] /\ task'[Boot] = task[Boot] /\ task'[t] = n
  BY <1>4, <1>7, <1>8
<1>11. Len(bs') = 1 /\ base' = "link" /\ Len(ps') = 1 /\ ps'[1].pc = "entry"
  BY <1>3, <1>5, <1>6, <1>9 DEF bs, ps, base
<1>12. Shape'
  BY <1>11 DEF Shape, Shell
<1>13. TypeOK'
  BY <1>2, <1>3, <1>4, <1>9, <1>10 DEF TypeOK
<1>14. Live'
  BY <1>3, <1>4, <1>11 DEF Live, HasProc
<1>15. Links'
  BY <1>2, <1>3, <1>7, <1>10, <1>11 DEF Links
<1>16. Alone' /\ ~Linked'
  BY <1>2, <1>3, <1>7, <1>10, <1>11 DEF Alone, Linked
<1> QED BY <1>12, <1>13, <1>14, <1>15, <1>16 DEF Core

-----------------------------------------------------------------------------
\* The process's own steps.

\* What they leave alone: the shell's stack, and with it the outer part of Core.
LEMMA ProcOuter ==
  ASSUME Core, Linked, OnProc, bs' = bs, UNCHANGED <<alive, spaces, proc, hits>>,
         task' \in [Tasks -> TaskType],
         \A t \in Tasks : task'[t].next = task[t].next,
         task'[Boot].state = task[Boot].state
  PROVE  /\ Shape' /\ Live' /\ Links' /\ Linked' /\ base' = base
         /\ Len(bs') = Len(bs) /\ bs'[Len(bs')] = bs[Len(bs)]
         /\ Len(bs') >= 2 /\ bs'[Len(bs')].pc = "load"
         /\ Len(bs') = 3 => /\ bs'[2].pc \notin Torn /\ Outward(bs[2])'
                            /\ bs'[2].pc \in Stale => "stale" \in hits'
<1>1. base' = base /\ Shape /\ Live /\ Links /\ Circle
  BY CircleFacts DEF base, Core
<1>2. Shape'
  BY <1>1 DEF Shape
<1>3. Live' /\ Linked'
  BY <1>1 DEF Live, HasProc, Linked
<1>4. Links'
  <2>1. task'[Boot].next = task[Boot].next /\ task'[proc].next = task[proc].next
    BY <1>1 DEF Circle
  <2> QED BY <1>1, <2>1 DEF Links
<1>5. ASSUME Len(bs) = 3 PROVE bs[2].pc \notin Torn /\ Outward(bs[2])'
  <2>1. bs[2].pc \notin Torn /\ Outward(bs[2])
    BY <1>5 DEF OnProc
  <2>2. bs'[2] = bs[2]
    OBVIOUS
  <2>3. PICK h : h = bs[2]
    OBVIOUS
  <2>4. Outward(h)'
    BY <2>1, <2>3 DEF Outward, Torn
  <2> QED BY <2>1, <2>2, <2>3, <2>4
<1> QED BY <1>1, <1>2, <1>3, <1>4, <1>5 DEF OnProc

LEMMA TrampolineCore ==
  ASSUME Core, fate = "up", user_entry_trampoline
  PROVE  Core' /\ hits' = hits /\ fate' = fate
<1>1. /\ Top.pc = "entry" /\ Top.pc \in User /\ Goto("user")
      /\ UNCHANGED <<current, task, alive, spaces, proc, hits, fate>>
      /\ cpu' = [cpu EXCEPT !.intr = TRUE]
  BY DEF user_entry_trampoline, At, User, mem
<1>2. /\ Linked /\ OnProc /\ Circle /\ ItsStack /\ Gone /\ cpu.on = proc
      /\ Len(ps) = 1 /\ Top = ps[1]
      /\ (Normal(Top) /\ Steady(proc)) \/ (base = "wait" /\ Zombie(Top) /\ Steady(Boot))
  BY <1>1, InRing3
<1>3. PICK g \in FrameType : g = [Top EXCEPT !.pc = "user"] /\ g.pc = "user"
  <2>1. Top \in FrameType
    BY Running
  <2>2. [Top EXCEPT !.pc = "user"] \in FrameType /\ [Top EXCEPT !.pc = "user"].pc = "user"
    BY <2>1 DEF FrameType, User
  <2> QED BY <2>2
<1>4. SetTop(g)
  BY <1>1, <1>3 DEF Goto
<1>5. stack' \in [Tasks -> Seq(FrameType)] /\ bs' = bs /\ Len(ps') = 1 /\ ps'[1] = g
  BY <1>1, <1>2, <1>3, <1>4, SetTopFacts
<1>6. TypeOK
  BY DEF Core
<1>7. cpu' \in CpuType /\ cpu'.on = cpu.on /\ cpu'.cr3 = cpu.cr3 /\ cpu'.rsp0 = cpu.rsp0 /\ cpu'.intr
  BY <1>1, <1>6 DEF TypeOK, CpuType
<1>8. TypeOK'
  BY <1>1, <1>5, <1>6, <1>7 DEF TypeOK
<1>9. /\ Shape' /\ Live' /\ Links' /\ Linked' /\ base' = base
      /\ Len(bs') >= 2 /\ bs'[Len(bs')].pc = "load"
      /\ Len(bs') = 3 => /\ bs'[2].pc \notin Torn /\ Outward(bs[2])'
                         /\ bs'[2].pc \in Stale => "stale" \in hits'
  BY <1>1, <1>2, <1>5, <1>6, ProcOuter DEF TypeOK
<1>10. ItsStack'
  BY <1>3, <1>5 DEF ItsStack, User
<1>11. Gone'
  BY <1>1, <1>2, <1>3, <1>5 DEF Gone, Clean
<1>12. ASSUME Normal(Top), Steady(proc) PROVE Normal(g)'
  BY <1>1, <1>2, <1>3, <1>5, <1>7, <1>12
     DEF Normal, Steady, Body, Early, Stale, Torn, Clean
<1>13. ASSUME Zombie(Top), Steady(Boot) PROVE Zombie(g)'
  BY <1>1, <1>3, <1>7, <1>13
     DEF Zombie, Steady, Poisoned, Body, Early, Stale, Torn
<1>14. Normal(ps[Len(ps)])' \/ (base' = "wait" /\ Zombie(ps[Len(ps)])')
  BY <1>2, <1>5, <1>9, <1>12, <1>13
<1>15. OnProc'
  <2>1. ps'[Len(ps')].pc = "user" /\ "user" \notin Body
    BY <1>3, <1>5 DEF Body, Early, Stale, Torn
  <2> QED BY <1>1, <1>2, <1>7, <1>9, <1>14, <2>1 DEF OnProc
<1>16. Paired'
  BY <1>1, <1>2, <1>9, <1>10, <1>11, <1>15, CircleFacts DEF Paired, OnProc
<1> QED BY <1>1, <1>8, <1>9, <1>16 DEF Core

\* SYS_EXIT through a TSS that names the process's own stack.
LEMMA ExitCore ==
  ASSUME Core, fate = "up", task_exit, cpu.rsp0 = cpu.on
  PROVE  Core' /\ hits' = hits /\ fate' = fate
<1>1. /\ Top.pc = "user" /\ Top.pc \in User /\ WriteState(current, "done")
      /\ stack' = [stack EXCEPT ![cpu.on] = <<Base("halt"), Call("exit")>>]
      /\ UNCHANGED <<current, alive, spaces, proc, hits, fate>>
      /\ cpu' = [cpu EXCEPT !.intr = FALSE]
  BY DEF task_exit, At, User, WriteState
<1>2. /\ Linked /\ OnProc /\ Circle /\ cpu.on = proc /\ Normal(Top) /\ Steady(proc)
  <2>1. Circle /\ Linked /\ OnProc /\ cpu.on = proc
    BY <1>1, InRing3
  <2>2. ~Steady(Boot)
    BY <2>1 DEF Steady, Circle
  <2> QED BY <1>1, <2>1, <2>2, InRing3
<1>3. TypeOK /\ proc \in Tasks /\ Boot \in Tasks /\ proc # Boot /\ proc \in Procs
  BY <1>2 DEF Core, Circle
<1>4. WriteState(proc, "done")
  BY <1>1, <1>2 DEF Steady
<1>5. /\ task' \in [Tasks -> TaskType]
      /\ \A u \in Tasks : /\ task'[u].next = task[u].next /\ task'[u].rsp = task[u].rsp
                          /\ task'[u].state = IF u = proc THEN "done" ELSE task[u].state
  BY <1>3, <1>4, StateFacts
<1>6. PICK f \in FrameType, g \in FrameType :
        /\ f = Base("halt") /\ f.pc = "halt"
        /\ g = Call("exit") /\ g.pc = "enter" /\ g.ret = "exit"
  <2>1. Base("halt") \in FrameType /\ Base("halt").pc = "halt"
    BY DEF Base, Frame, FrameType, Rsp, RspType, User
  <2>2. Call("exit") \in FrameType /\ Call("exit").pc = "enter" /\ Call("exit").ret = "exit"
    BY DEF Call, Frame, FrameType, Rsp, RspType, Body, Early
  <2> QED BY <2>1, <2>2
<1>7. stack' \in [Tasks -> Seq(FrameType)] /\ stack'[proc] = <<f, g>> /\ stack'[Boot] = stack[Boot]
  <2>1. stack' = [stack EXCEPT ![proc] = <<f, g>>] /\ stack \in [Tasks -> Seq(FrameType)]
    BY <1>1, <1>2, <1>3, <1>6 DEF TypeOK
  <2>2. <<f, g>> \in Seq(FrameType)
    OBVIOUS
  <2> QED BY <1>3, <2>1, <2>2
<1>8. bs' = bs /\ Len(ps') = 2 /\ ps'[1] = f /\ ps'[2] = g
  BY <1>1, <1>7 DEF bs, ps
<1>9. cpu' \in CpuType /\ cpu'.on = cpu.on /\ cpu'.cr3 = cpu.cr3 /\ cpu'.rsp0 = cpu.rsp0 /\ ~cpu'.intr
  BY <1>1, <1>3 DEF TypeOK, CpuType
<1>10. TypeOK'
  BY <1>1, <1>3, <1>5, <1>7, <1>9 DEF TypeOK
<1>11. /\ Shape' /\ Live' /\ Links' /\ Linked' /\ base' = base
       /\ Len(bs') >= 2 /\ bs'[Len(bs')].pc = "load"
       /\ Len(bs') = 3 => /\ bs'[2].pc \notin Torn /\ Outward(bs[2])'
                          /\ bs'[2].pc \in Stale => "stale" \in hits'
  BY <1>1, <1>2, <1>3, <1>5, <1>8, ProcOuter
<1>12. ItsStack'
  BY <1>6, <1>8 DEF ItsStack, User, Body, Early
<1>13. Gone'
  BY <1>1, <1>3, <1>5, <1>6, <1>8 DEF Gone, Body, Early
<1>14. Normal(g)'
  <2>1. task[Boot].rsp = Rsp(Boot, Len(bs))
    BY <1>2 DEF Normal
  <2>2. task'[Boot].rsp = Rsp(Boot, Len(bs'))
    BY <1>3, <1>5, <1>8, <2>1
  <2>3. Steady(proc)'
    BY <1>1, <1>2, <1>9 DEF Steady
  <2> QED BY <1>6, <1>8, <2>2, <2>3 DEF Normal, Stale, Torn
<1>15. OnProc'
  <2>1. Normal(ps[Len(ps)])' /\ ps'[Len(ps')].pc = "enter"
    BY <1>6, <1>8, <1>14
  <2> QED BY <1>1, <1>2, <1>9, <1>11, <2>1 DEF OnProc
<1>16. Paired'
  BY <1>1, <1>2, <1>8, <1>11, <1>12, <1>13, <1>15, CircleFacts DEF Paired, OnProc
<1> QED BY <1>1, <1>10, <1>11, <1>16 DEF Core

-----------------------------------------------------------------------------
\* The timer interrupt.
LEMMA WindowFacts ==
  /\ Window("close") = {"append"}
  /\ \A pc \in Stale : Window(pc) = {"stale"}
  /\ \A pc \in Torn : Window(pc) = {"torn"}
  /\ \A pc : pc \notin {"close"} \cup Stale \cup Torn => Window(pc) = {}
<1>1. Window("close") = {"append"}
  BY DEF Window
<1>2. \A pc \in Stale : Window(pc) = {"stale"}
  BY DEF Window, Stale
<1>3. \A pc \in Torn : Window(pc) = {"torn"}
  BY DEF Window, Torn
<1>4. \A pc : pc \notin {"close"} \cup Stale \cup Torn => Window(pc) = {}
  BY DEF Window, Stale, Torn
<1> QED BY <1>1, <1>2, <1>3, <1>4

\* A tick that enters schedule().
Enter ==
  /\ cpu.intr /\ Push("irq") /\ cpu' = [cpu EXCEPT !.intr = FALSE]
  /\ hits' = hits \cup Window(Top.pc)
  /\ UNCHANGED <<current, task, alive, spaces, proc, fate>>

LEMMA EnterFacts ==
  ASSUME Core, Enter
  PROVE  /\ TypeOK' /\ cpu'.on = cpu.on /\ cpu'.cr3 = cpu.cr3 /\ cpu'.rsp0 = cpu.rsp0 /\ ~cpu'.intr
         /\ cpu.intr
<1>1. TypeOK
  BY DEF Core
<1>2. stack' \in [Tasks -> Seq(FrameType)]
  BY PushFacts DEF Enter
<1>3. cpu' \in CpuType /\ cpu'.on = cpu.on /\ cpu'.cr3 = cpu.cr3 /\ cpu'.rsp0 = cpu.rsp0 /\ ~cpu'.intr
  BY <1>1 DEF TypeOK, CpuType, Enter
<1> QED BY <1>1, <1>2, <1>3 DEF TypeOK, Enter

LEMMA EnterAlone ==
  ASSUME Core, ~Linked, Enter
  PROVE  Core'
<1>1. Alone /\ Shape /\ Live /\ Links
  BY DEF Core
<1>2. cpu.on = Boot /\ Len(bs) = 1
  BY <1>1 DEF Alone, Enter, Shape
<1>3. /\ Len(bs') = 2 /\ bs'[2] = Call("irq") /\ bs'[1] = bs[1] /\ (proc \in Procs => ps' = ps)
      /\ Call("irq").pc = "enter" /\ Call("irq").ret = "irq"
  BY <1>2, PushFacts DEF Enter
<1>4. base' = base
  BY <1>3 DEF base
<1>5. UNCHANGED <<current, task, alive, spaces, proc>>
  BY DEF Enter
<1>6. Shape'
  <2>1. base' \in Shell
    BY <1>1, <1>4 DEF Shape
  <2>2. Len(bs') = 2 /\ bs'[2].ret = "irq" /\ bs'[2].pc \in Early
    BY <1>3 DEF Early
  <2> QED BY <2>1, <2>2, ShapeTwo
<1>7. Live' /\ Links' /\ ~Linked'
  BY <1>1, <1>4, <1>5 DEF Live, HasProc, Links, Linked
<1>8. base = "link" => ps' = ps
  BY <1>1, <1>3 DEF Live, HasProc
<1>9. Alone'
  <2>1. base' = "link" => /\ Len(ps') = 1 /\ ps'[1].pc = "entry" /\ task'[proc'].state = "ready"
                          /\ task'[proc'].rsp = Rsp(proc', 1)
    BY <1>1, <1>4, <1>5, <1>8 DEF Alone
  <2>2. base' = "reap" => task'[proc'].state = "done"
    BY <1>1, <1>4, <1>5 DEF Alone
  <2>3. /\ cpu'.on = Boot /\ cpu'.cr3 = Boot /\ cpu'.rsp0 = Boot /\ ~cpu'.intr
        /\ current' = IF base' = "init" THEN NULL ELSE Boot
    BY <1>1, <1>4, <1>5, EnterFacts DEF Alone
  <2>4. Len(bs') = 2 /\ bs'[2].ret = "irq" /\ bs'[2].pc = "enter" /\ bs'[2].pc \in Early
    BY <1>3 DEF Early
  <2> QED BY <2>1, <2>2, <2>3, <2>4, AloneTwo
<1> QED BY <1>6, <1>7, <1>9, EnterFacts DEF Core

LEMMA EnterBoot ==
  ASSUME Core, Linked, OnBoot, Enter
  PROVE  Core'
<1>1. /\ Shape /\ Live /\ Links /\ Circle /\ ItsStack /\ Gone /\ Saved /\ cpu.on = Boot
      /\ (base = "close" => Len(bs) = 1 \/ "append" \in hits)
  BY CircleFacts DEF Core, Paired, OnBoot
<1>2. /\ UNCHANGED <<current, task, alive, spaces, proc>> /\ hits' = hits \cup Window(Top.pc)
      /\ proc \in Procs /\ cpu.intr
  BY <1>1 DEF Enter, Circle
<1>3. /\ Len(bs') = Len(bs) + 1 /\ bs'[Len(bs) + 1] = Call("irq") /\ ps' = ps
      /\ \A i \in 1..Len(bs) : bs'[i] = bs[i]
      /\ Call("irq").pc = "enter" /\ Call("irq").ret = "irq"
  BY <1>1, <1>2, PushFacts DEF Enter
<1>4. /\ TypeOK' /\ cpu'.on = Boot /\ cpu'.cr3 = cpu.cr3 /\ cpu'.rsp0 = cpu.rsp0 /\ ~cpu'.intr
  BY <1>1, EnterFacts
<1>5. Len(bs) = 1 \/ (Len(bs) = 2 /\ bs[2].ret = "yield" /\ bs[2].pc # "return" /\ base = "wait")
  <2>1. Len(bs) \in {1, 2, 3} /\ Len(bs) # 3
    BY <1>1, <1>2, ShapeLength DEF OnBoot
  <2>2. CASE Len(bs) = 2
    <3>1. bs[2].ret \in {"irq", "yield"} /\ (bs[2].ret = "yield" => base = "wait")
      BY <1>1, <2>2 DEF Shape
    <3>2. bs[2].ret # "irq" /\ (bs[2].ret = "yield" => bs[2].pc # "return")
      BY <1>2, <2>2 DEF OnBoot
    <3> QED BY <2>2, <3>1, <3>2
  <2> QED BY <2>1, <2>2
<1>6. bs'[1] = bs[1] /\ base' = base
  BY <1>3, <1>5 DEF base
<1>7. Live' /\ Links' /\ Linked'
  BY <1>1, <1>2, <1>6 DEF Live, HasProc, Links, Linked
<1>8. Saved' /\ ItsStack' /\ Gone'
  BY <1>1, <1>2, <1>3 DEF Saved, Poisoned, ItsStack, Gone, Clean
<1>9. PICK c : c = Call("irq") /\ c.pc = "enter" /\ c.ret = "irq"
  BY <1>3
<1>10. Steady(Boot) => Calm(c)'
  BY <1>2, <1>4, <1>9 DEF Calm, Outward, Steady, Stale, Torn
<1>11. CASE Len(bs) = 1
  <2>1. Len(bs') = 2 /\ bs'[2] = c
    BY <1>3, <1>9, <1>11
  <2>2. Shape'
    BY <1>1, <1>6, <1>9, <2>1 DEF Shape, Body, Early
  <2>3. Calm(bs[2])'
    BY <1>10, <1>11, <2>1 DEF OnBoot
  <2>4. OnBoot'
    <3>1. cpu'.on = Boot /\ ~cpu'.intr /\ Saved' /\ Len(bs') = 2
      BY <1>4, <1>8, <2>1
    <3> QED BY <2>3, <3>1, OnBootTwo
  <2>5. base = "close" => "append" \in hits'
    <3>1. Top = bs[1]
      BY <1>1, <1>11, Running DEF bs
    <3> QED BY <1>2, <3>1, WindowFacts DEF base
  <2>6. Paired'
    BY <1>6, <1>8, <2>4, <2>5 DEF Paired
  <2> QED BY <1>4, <1>7, <2>2, <2>6 DEF Core
<1>12. CASE Len(bs) = 2 /\ bs[2].ret = "yield" /\ bs[2].pc # "return" /\ base = "wait"
  <2>1. PICK g : g = bs[2]
    OBVIOUS
  <2>2. Len(bs') = 3 /\ bs'[3] = c /\ bs'[2] = g /\ bs[2] = g
    BY <1>3, <1>9, <1>12, <2>1
  <2>3. Top = g
    BY <1>1, <1>12, <2>1, Running DEF bs
  <2>4. Shape'
    BY <1>1, <1>6, <1>9, <1>12, <2>2 DEF Shape, Body, Early
  <2>5. Calm(g) \/ Messed(g)
    BY <1>12, <2>1 DEF OnBoot
  <2>6. Outward(g)
    BY <2>5 DEF Calm, Messed
  <2>7. Outward(g)'
    BY <1>2, <1>3, <2>6 DEF Outward
  <2>8. g.pc \in Stale => "stale" \in hits'
    BY <1>2, <2>3, WindowFacts
  <2>9. ASSUME g.pc \notin Torn PROVE Calm(c)'
    BY <1>10, <2>5, <2>9 DEF Calm, Messed
  <2>10. ASSUME g.pc \in Torn PROVE "torn" \in hits' /\ (Undoing(c)' \/ Again(c, g)')
    <3>1. "torn" \in hits'
      BY <1>2, <2>3, <2>10, WindowFacts
    <3>2. CASE Calm(g)
      <4>1. current = proc
        BY <2>10, <3>2 DEF Calm, Switching, Outward
      <4>2. Undoing(c)'
        BY <1>2, <1>9, <4>1 DEF Undoing, Body, Early, Stale, Torn
      <4> QED BY <3>1, <4>2
    <3>3. CASE Messed(g)
      <4>1. Outward(c)'
        BY <1>9 DEF Outward, Stale, Torn
      <4>2. Again(c, g)'
        BY <1>2, <1>4, <1>9, <3>3, <4>1 DEF Again, Messed, Poisoned, Body, Early, Torn
      <4> QED BY <3>1, <4>2
    <3> QED BY <2>5, <3>2, <3>3
  <2>11. /\ Outward(bs[2])'
         /\ bs'[2].pc \notin Torn => Calm(bs[3])'
         /\ bs'[2].pc \in Torn => "torn" \in hits' /\ (Undoing(bs[3])' \/ Again(bs[3], bs[2])')
    BY <2>2, <2>7, <2>9, <2>10
  <2>12. OnBoot'
    <3>1. bs'[3].pc # "return"
      BY <1>9, <2>2
    <3>2. cpu'.on = Boot /\ ~cpu'.intr /\ Saved' /\ Len(bs') = 3
      BY <1>4, <1>8, <2>2
    <3>3. bs'[2].pc \in Stale => "stale" \in hits'
      BY <2>2, <2>8
    <3> QED BY <2>11, <3>1, <3>2, <3>3, OnBootThree
  <2>13. Paired'
    BY <1>6, <1>8, <1>12, <2>12 DEF Paired
  <2> QED BY <1>4, <1>7, <2>4, <2>13 DEF Core
<1> QED BY <1>5, <1>11, <1>12

LEMMA EnterProc ==
  ASSUME Core, Linked, OnProc, Enter, Top.pc = "user" => cpu.rsp0 = cpu.on
  PROVE  Core'
<1>1. /\ Circle /\ ItsStack /\ Gone /\ cpu.on = proc /\ TypeOK
      /\ (base = "close" => Len(bs) = 1 \/ "append" \in hits)
  BY CircleFacts DEF Core, Paired, OnProc
<1>2. /\ UNCHANGED <<current, task, alive, spaces, proc>> /\ hits' = hits \cup Window(Top.pc)
      /\ cpu.intr
  BY DEF Enter
<1>3. Top = ps[Len(ps)] /\ Len(ps) \in Nat /\ Len(ps) >= 1
  BY <1>1, Running DEF ps
<1>4. PICK n \in Nat : n = Len(ps) /\ n >= 1
  BY <1>3
<1>5. Top.pc \notin Body
  BY <1>2, <1>3 DEF OnProc
<1>6. Top.pc \in User \cup {"return"} /\ (n > 1 => Top.pc = "return")
  <2>1. CASE n = 1
    BY <1>1, <1>3, <1>4, <2>1 DEF ItsStack
  <2>2. CASE n > 1
    <3>1. n \in 2..n
      BY <2>2
    <3> QED BY <1>1, <1>3, <1>4, <1>5, <3>1 DEF ItsStack
  <2> QED BY <1>4, <2>1, <2>2
<1>7. hits' = hits
  <2>1. Top.pc \notin {"close"} \cup Stale \cup Torn
    BY <1>6 DEF User, Stale, Torn
  <2> QED BY <1>2, <2>1, WindowFacts
<1>8. PICK c : c = Call("irq") /\ c.pc = "enter" /\ c.ret = "irq"
  BY <1>2, PushFacts DEF Enter
<1>9. /\ bs' = bs /\ Len(ps') = n + 1 /\ ps'[n + 1] = c /\ \A i \in 1..n : ps'[i] = ps[i]
  BY <1>1, <1>2, <1>4, <1>8, PushFacts DEF Enter
<1>10. /\ TypeOK' /\ cpu'.on = proc /\ cpu'.cr3 = cpu.cr3 /\ cpu'.rsp0 = cpu.rsp0 /\ ~cpu'.intr
  BY <1>1, EnterFacts
<1>11. /\ Shape' /\ Live' /\ Links' /\ Linked' /\ base' = base
       /\ Len(bs') >= 2 /\ bs'[Len(bs')].pc = "load"
       /\ Len(bs') = 3 => /\ bs'[2].pc \notin Torn /\ Outward(bs[2])'
                          /\ bs'[2].pc \in Stale => "stale" \in hits'
  BY <1>1, <1>2, <1>7, <1>9, ProcOuter DEF TypeOK
<1>12. ps'[1] = ps[1]
  BY <1>4, <1>9
<1>13. ItsStack'
  <2>1. \A i \in 2..n + 1 : i = n + 1 \/ (i \in 2..n /\ ps'[i] = ps[i])
    BY <1>4, <1>9
  <2>2. \A i \in 2..n : ps'[i] = ps[i] /\ (i \in 2..n - 1 \/ (i = n /\ n > 1))
    BY <1>4, <1>9
  <2>3. \A i \in 2..n : ps'[i].pc = "return"
    BY <1>1, <1>3, <1>4, <1>6, <2>2 DEF ItsStack
  <2>4. \A i \in 2..n + 1 : /\ ps'[i].pc \in Body \cup {"return"} /\ ps'[i].ret \in {"irq", "exit"}
                            /\ ps'[i].ret = "exit" => ps'[1].pc = "halt"
    <3>1. c.pc \in Body
      BY <1>8 DEF Body, Early
    <3> QED BY <1>1, <1>4, <1>8, <1>9, <1>12, <2>1, <3>1 DEF ItsStack
  <2>5. Len(ps') >= 1 /\ 2..Len(ps') - 1 = 2..n /\ 2..Len(ps') = 2..n + 1
    BY <1>4, <1>9
  <2> QED BY <1>1, <1>12, <2>3, <2>4, <2>5 DEF ItsStack
<1>14. Clean => ps[1].pc # "halt"
  BY <1>1, <1>3, <1>5 DEF Gone
<1>15. Gone'
  BY <1>1, <1>2, <1>7, <1>12, <1>14 DEF Gone, Clean
<1>16. ASSUME Normal(Top) PROVE Normal(c)'
  <2>1. Steady(proc)'
    BY <1>2, <1>5, <1>10, <1>16 DEF Normal, Steady, Body
  <2>2. Clean /\ ps[1].pc # "halt" => task[proc].state = "running"
    BY <1>5, <1>16 DEF Normal, Body, Stale
  <2>3. Clean' /\ ps'[1].pc # "halt" => task'[proc'].state = "running"
    BY <1>2, <1>7, <1>12, <2>2 DEF Clean
  <2>4. task'[Boot].rsp = Rsp(Boot, Len(bs'))
    BY <1>2, <1>9, <1>16 DEF Normal
  <2> QED BY <1>8, <2>1, <2>3, <2>4 DEF Normal, Stale, Torn
<1>17. ASSUME Zombie(Top) PROVE Zombie(c)'
  <2>1. Steady(Boot)'
    BY <1>2, <1>5, <1>10, <1>17 DEF Zombie, Steady, Body
  <2> QED BY <1>2, <1>7, <1>8, <1>17, <2>1 DEF Zombie, Poisoned, Stale, Torn
<1>18. OnProc'
  <2>1. ps'[Len(ps')] = c
    BY <1>9
  <2>2. Normal(Top) \/ (base = "wait" /\ Zombie(Top))
    BY <1>3 DEF OnProc
  <2>3. Normal(ps[Len(ps)])' \/ (base' = "wait" /\ Zombie(ps[Len(ps)])')
    BY <1>11, <1>16, <1>17, <2>1, <2>2
  <2> QED BY <1>2, <1>8, <1>10, <1>11, <2>1, <2>3 DEF OnProc
<1>19. Paired'
  BY <1>1, <1>7, <1>9, <1>11, <1>13, <1>15, <1>18 DEF Paired, OnProc
<1> QED BY <1>10, <1>11, <1>19 DEF Core

-----------------------------------------------------------------------------
\* The inductive invariant and the theorems.

-----------------------------------------------------------------------------
\* Nothing dangles.
LEMMA AloneSafe ==
  ASSUME Core', ~Linked'
  PROVE  NoDangling' /\ Pointing'
<1>1. Live' /\ Links' /\ Alone'
  BY DEF Core
<1>2. spaces' \in {{Boot}, {Boot, proc'}}
  BY <1>1 DEF Live
<1>3. \A t \in alive' : task'[t].next \in alive' \cup {Junk}
  <2>1. CASE ~HasProc'
    BY <1>1, <2>1 DEF Live, Links, HasProc
  <2>2. CASE base' \in {"link", "reap"}
    BY <1>1, <2>2 DEF Live, Links, HasProc
  <2>3. CASE base' \in {"destroy", "free"}
    BY <1>1, <2>3 DEF Live, Links, HasProc
  <2> QED BY <2>1, <2>2, <2>3 DEF HasProc, Linked
<1>4. current' # NULL => {current', cpu'.on} \subseteq alive'
  BY <1>1 DEF Alone, Live
<1> QED BY <1>1, <1>2, <1>3, <1>4 DEF NoDangling, Pointing, Alone

LEMMA PairedSafe ==
  ASSUME Core', Linked', {current', cpu'.cr3, cpu'.rsp0} \subseteq {Boot, proc'}
  PROVE  NoDangling' /\ Pointing'
<1>1. Live' /\ Links' /\ Paired' /\ HasProc' /\ base' \in {"close", "wait"}
  BY DEF Core, Linked, HasProc
<1>2. alive' = {Boot, proc'} /\ spaces' = {Boot, proc'}
  BY <1>1 DEF Live
<1>3. cpu'.on \in {Boot, proc'}
  BY <1>1 DEF Paired, OnBoot, OnProc
<1>4. task'[Boot].next = proc' /\ task'[proc'].next \in {Boot, Junk}
  BY <1>1 DEF Links
<1> QED BY <1>2, <1>3, <1>4 DEF NoDangling, Pointing

\* Each of current, CR3 and TSS.rsp0 keeps its value or takes the switching frame's next.
Kept(new, old) == new = old \/ (Top.pc \in Stale \cup Torn /\ new = Top.next)

LEMMA KeptSafe ==
  ASSUME Core, Pointing, Core', alive' = alive, proc' = proc,
         Kept(current', current), Kept(cpu'.cr3, cpu.cr3), Kept(cpu'.rsp0, cpu.rsp0)
  PROVE  NoDangling' /\ Pointing'
<1>1. CASE ~Linked'
  BY <1>1, AloneSafe
<1>2. CASE Linked'
  <2>1. alive # {}
    <3>1. Live' /\ HasProc' /\ base' # "init"
      BY <1>2 DEF Core, Linked, HasProc
    <3> QED BY <3>1 DEF Live
  <2>2. current \in {Boot, proc} /\ cpu.cr3 \in {Boot, proc} /\ cpu.rsp0 \in {Boot, proc}
    <3>1. CASE Linked
      BY <3>1 DEF Pointing
    <3>2. CASE ~Linked
      <4>1. Alone /\ Live
        BY <3>2 DEF Core
      <4> QED BY <2>1, <4>1 DEF Alone, Live
    <3> QED BY <3>1, <3>2
  <2>3. Top.pc \in Stale \cup Torn => Top.next \in {Boot, proc}
    BY TopLocals
  <2>4. {current', cpu'.cr3, cpu'.rsp0} \subseteq {Boot, proc'}
    BY <2>2, <2>3 DEF Kept
  <2> QED BY <1>2, <2>4, PairedSafe
<1> QED BY <1>1, <1>2

\* A step of a machine that is up: it stays up in Core, or ends for a reason.
Ends ==
  /\ fate' = "halted" \/ (fate' = "lost" /\ hits' \cap {"append", "torn", "memory"} # {})
  /\ UNCHANGED <<current, task, alive, spaces>>
  /\ cpu'.on = cpu.on /\ cpu'.cr3 = cpu.cr3 /\ cpu'.rsp0 = cpu.rsp0

Goes == fate' = "up" /\ Core' /\ NoDangling' /\ Pointing'

LEMMA ScheduleGoes ==
  ASSUME Core, Pointing, fate = "up", schedule
  PROVE  Goes \/ Ends
<1>1. CASE StepUp
  <2>1. Core' /\ fate' = fate
    BY <1>1, StepUpCore
  <2>2. Wrote(Top) /\ alive' = alive /\ proc' = proc
    BY <1>1, StepCommon
  <2>3. Kept(current', current) /\ Kept(cpu'.cr3, cpu.cr3) /\ Kept(cpu'.rsp0, cpu.rsp0)
    BY <2>2 DEF Kept, Wrote, Stale, Torn
  <2> QED BY <2>1, <2>2, <2>3, KeptSafe DEF Goes
<1>2. CASE Leave
  <2>1. Core' /\ fate' = fate
    BY <1>2, LeaveCore
  <2>2. cpu \in CpuType
    BY DEF Core, TypeOK
  <2>3. /\ current' = current /\ alive' = alive /\ proc' = proc
        /\ cpu'.cr3 = cpu.cr3 /\ cpu'.rsp0 = cpu.rsp0
    BY <1>2, <2>2 DEF Leave, Return, mem, CpuType
  <2> QED BY <2>1, <2>3, KeptSafe DEF Goes, Kept
<1>3. CASE Load
  <2>1. Core' /\ fate' = fate
    BY <1>3, LoadCore
  <2>2. /\ current' = current /\ alive' = alive /\ proc' = proc
        /\ cpu'.cr3 = cpu.cr3 /\ cpu'.rsp0 = cpu.rsp0
    BY <1>3, LoadFacts DEF mem
  <2> QED BY <2>1, <2>2, KeptSafe DEF Goes, Kept
<1>4. CASE Astray
  <2>1. hits \cap {"append", "torn", "memory"} # {}
    BY <1>4, AstrayExplained
  <2> QED BY <1>4, <2>1 DEF Astray, Lose, Ends, mem
<1> QED BY <1>1, <1>2, <1>3, <1>4, ScheduleCases

LEMMA ShellGoes ==
  ASSUME Core, Pointing, fate = "up",
         LinkTask \/ CloseCircle \/ WaitDone \/ task_reap \/ sched_init
  PROVE  Goes
<1>1. CASE LinkTask
  <2>1. Core' /\ fate' = fate
    BY <1>1, LinkCore
  <2>2. UNCHANGED <<current, alive, proc, cpu>>
    BY <1>1 DEF LinkTask
  <2> QED BY <2>1, <2>2, KeptSafe DEF Goes, Kept
<1>2. CASE CloseCircle
  <2>1. Core' /\ fate' = fate
    BY <1>2, CloseCore
  <2>2. UNCHANGED <<current, alive, proc, cpu>>
    BY <1>2 DEF CloseCircle
  <2> QED BY <2>1, <2>2, KeptSafe DEF Goes, Kept
<1>3. CASE WaitDone
  <2>1. Core' /\ fate' = fate
    BY <1>3, WaitCore
  <2>2. UNCHANGED <<current, alive, proc, cpu>>
    BY <1>3 DEF WaitDone, mem
  <2> QED BY <2>1, <2>2, KeptSafe DEF Goes, Kept
<1>4. CASE Splice
  <2>1. Core' /\ fate' = fate
    BY <1>4, SpliceCore
  <2>2. cpu \in CpuType
    BY DEF Core, TypeOK
  <2>3. UNCHANGED <<current, alive, proc>> /\ cpu'.cr3 = cpu.cr3 /\ cpu'.rsp0 = cpu.rsp0
    BY <1>4, <2>2 DEF Splice, CpuType
  <2> QED BY <2>1, <2>3, KeptSafe DEF Goes, Kept
<1>5. CASE DestroySpace
  <2>1. Core' /\ fate' = fate
    BY <1>5, DestroyCore
  <2>2. UNCHANGED <<current, alive, proc, cpu>>
    BY <1>5 DEF DestroySpace
  <2> QED BY <2>1, <2>2, KeptSafe DEF Goes, Kept
<1>6. CASE FreeTask
  BY <1>6, FreeCore, AloneSafe DEF Goes
<1>7. CASE sched_init
  BY <1>7, SchedInitCore, AloneSafe DEF Goes
<1> QED BY <1>1, <1>2, <1>3, <1>4, <1>5, <1>6, <1>7 DEF task_reap

LEMMA RunGoes ==
  ASSUME Core, fate = "up", cmd_run
  PROVE  Goes \/ Ends
<1>1. At("idle") /\ UNCHANGED <<current, cpu>>
  BY DEF cmd_run
<1>2. CASE /\ fate' = "lost" /\ hits' = hits \cup {"memory"}
           /\ UNCHANGED <<task, alive, spaces, proc, stack>>
  BY <1>1, <1>2 DEF Ends
<1>3. CASE Built /\ UNCHANGED <<hits, fate>>
  BY <1>1, <1>3, RunCore, AloneSafe DEF Goes
<1> QED BY <1>2, <1>3 DEF cmd_run, Built

LEMMA ProcGoes ==
  ASSUME Core, Pointing, fate = "up", user_entry_trampoline \/ task_exit \/ isr_handler
  PROVE  Goes \/ Ends
<1>0. cpu \in CpuType
  BY DEF Core, TypeOK
<1>1. CASE user_entry_trampoline
  <2>1. Core' /\ fate' = fate
    BY <1>1, TrampolineCore
  <2>2. UNCHANGED <<current, alive, proc>> /\ cpu'.cr3 = cpu.cr3 /\ cpu'.rsp0 = cpu.rsp0
    BY <1>0, <1>1 DEF user_entry_trampoline, mem, CpuType
  <2> QED BY <2>1, <2>2, KeptSafe DEF Goes, Kept
<1>2. CASE task_exit /\ cpu.rsp0 = cpu.on
  <2>1. Core' /\ fate' = fate
    BY <1>2, ExitCore
  <2>2. UNCHANGED <<current, alive, proc>> /\ cpu'.cr3 = cpu.cr3 /\ cpu'.rsp0 = cpu.rsp0
    BY <1>0, <1>2 DEF task_exit, CpuType
  <2> QED BY <2>1, <2>2, KeptSafe DEF Goes, Kept
<1>3. CASE task_exit /\ cpu.rsp0 # cpu.on
  <2>1. Top.pc \in User /\ Lose
    BY <1>3 DEF task_exit, At, User
  <2>2. "torn" \in hits
    BY <1>3, <2>1, InRing3 DEF Steady, Zombie
  <2> QED BY <2>1, <2>2 DEF Lose, Ends, mem
<1>4. CASE isr_handler
  BY <1>0, <1>4 DEF isr_handler, Ends, mem, CpuType
<1> QED BY <1>1, <1>2, <1>3, <1>4

LEMMA TickGoes ==
  ASSUME Core, Pointing, fate = "up", Tick
  PROVE  Goes \/ Ends
<1>1. CASE Top.pc = "user" /\ cpu.rsp0 # cpu.on
  <2>1. Top.pc \in User /\ Lose
    BY <1>1 DEF Tick, User
  <2>2. "torn" \in hits
    BY <1>1, <2>1, InRing3 DEF Steady, Zombie
  <2> QED BY <2>1, <2>2 DEF Lose, Ends, mem
<1>2. CASE ~(Top.pc = "user" /\ cpu.rsp0 # cpu.on)
  <2>1. Enter
    BY <1>2 DEF Tick, Enter, Push, mem
  <2>2. Core'
    <3>1. CASE ~Linked
      BY <2>1, <3>1, EnterAlone
    <3>2. CASE Linked
      <4>1. OnBoot \/ OnProc
        BY <3>2, CircleFacts DEF Paired
      <4> QED BY <1>2, <2>1, <3>2, <4>1, EnterBoot, EnterProc
    <3> QED BY <3>1, <3>2
  <2>3. /\ UNCHANGED <<current, alive, proc, fate>>
        /\ cpu'.cr3 = cpu.cr3 /\ cpu'.rsp0 = cpu.rsp0
    BY <2>1, EnterFacts DEF Enter
  <2> QED BY <2>2, <2>3, KeptSafe DEF Goes, Kept
<1> QED BY <1>1, <1>2

\* The inductive invariant holds at first ...
LEMMA InitIInv ==
  ASSUME Init
  PROVE  IInv
<1> DEFINE s == <<Base("init")>>
<1>1. s \in Seq(FrameType) /\ Len(s) = 1 /\ s[1].pc = "init"
  BY BaseFacts DEF Shell
<1>2. stack = [t \in Tasks |-> IF t = Boot THEN s ELSE <<>>]
  BY DEF Init
<1> HIDE DEF s
<1>3. Boot \in Tasks
  BY DEF Tasks
<1>4. stack \in [Tasks -> Seq(FrameType)] /\ stack[Boot] = s
  <2>1. \A e \in Seq(FrameType) :
          LET n == [t \in Tasks |-> IF t = Boot THEN s ELSE e]
          IN n \in [Tasks -> Seq(FrameType)] /\ n[Boot] = s
    BY <1>1, <1>3
  <2>2. <<>> \in Seq(FrameType)
    OBVIOUS
  <2> QED BY <1>2, <2>1, <2>2, Zenon
<1>5. Len(bs) = 1 /\ base = "init"
  BY <1>1, <1>4 DEF bs, base
<1>6. task \in [Tasks -> TaskType]
  BY DEF Init, TaskType, Rsp, RspType
<1>7. TypeOK
  BY <1>3, <1>4, <1>6 DEF Init, TypeOK, CpuType
<1>8. Shape /\ Live /\ Links
  <2>1. Shape
    BY <1>5 DEF Shape, Shell
  <2>2. Live
    BY <1>5 DEF Init, Live, HasProc
  <2>3. Links
    BY <1>5 DEF Links
  <2> QED BY <2>1, <2>2, <2>3
<1>9. Alone /\ ~Linked
  <2>1. /\ cpu.on = Boot /\ cpu.cr3 = Boot /\ cpu.rsp0 = Boot /\ cpu.intr
        /\ current = NULL
    BY DEF Init
  <2> QED BY <1>5, <2>1 DEF Alone, Linked
<1>10. Core /\ Pointing
  BY <1>7, <1>8, <1>9 DEF Core, Pointing
<1>11. NoDangling /\ LostExplained /\ fate = "up"
  BY DEF Init, NoDangling, LostExplained
<1> QED BY <1>10, <1>11 DEF IInv

\* ... and every step keeps it.
LEMMA NextIInv ==
  ASSUME IInv, [Next]_vars
  PROVE  IInv'
<1>1. CASE UNCHANGED vars
  <2>1. /\ current' = current /\ task' = task /\ alive' = alive /\ spaces' = spaces /\ proc' = proc
        /\ stack' = stack /\ cpu' = cpu /\ hits' = hits /\ fate' = fate
    BY <1>1 DEF vars
  <2>2. NoDangling' /\ LostExplained'
    BY <2>1 DEF IInv, NoDangling, LostExplained
  <2>3. TypeOK' <=> TypeOK
    BY <2>1 DEF TypeOK
  <2>4. (Shape' <=> Shape) /\ (Live' <=> Live) /\ (Links' <=> Links) /\ (Linked' <=> Linked)
    BY <2>1 DEF Shape, Live, Links, Linked, HasProc, base, bs
  <2>5. (Alone' <=> Alone) /\ (Pointing' <=> Pointing)
    BY <2>1 DEF Alone, Pointing, Linked, base, bs, ps
  <2>6. Paired' <=> Paired
    <3>1. bs' = bs /\ ps' = ps /\ (Poisoned' <=> Poisoned) /\ (Clean' <=> Clean)
          /\ (Steady(Boot)' <=> Steady(Boot)) /\ base' = base
      BY <2>1 DEF bs, ps, base, Poisoned, Clean, Steady
    <3>2. \A f : Outward(f)' <=> Outward(f)
      BY <2>1, <3>1 DEF Outward
    <3>3. \A f : Calm(f)' <=> Calm(f)
      BY <2>1, <3>1, <3>2 DEF Calm, Switching, Steady
    <3>4. \A f : (Messed(f)' <=> Messed(f)) /\ (Undoing(f)' <=> Undoing(f))
      BY <2>1, <3>1, <3>2 DEF Messed, Undoing
    <3>5. \A f, g : Again(f, g)' <=> Again(f, g)
      BY <2>1, <3>1, <3>2 DEF Again
    <3>6. \A f : Normal(f)' <=> Normal(f)
      <4>1. (Steady(proc)' <=> Steady(proc)) /\ \A f : Switching(f)' <=> Switching(f)
        BY <2>1 DEF Steady, Switching
      <4> QED BY <2>1, <3>1, <4>1 DEF Normal
    <3>7. \A f : Zombie(f)' <=> Zombie(f)
      BY <2>1, <3>1 DEF Zombie
    <3>8. ItsStack' <=> ItsStack
      BY <3>1 DEF ItsStack
    <3>9. (Gone' <=> Gone) /\ (Saved' <=> Saved)
      BY <2>1, <3>1 DEF Gone, Saved
    <3>10. OnProc' <=> OnProc
      BY <2>1, <3>1, <3>2, <3>6, <3>7 DEF OnProc
    <3>11. OnBoot' <=> OnBoot
      BY <2>1, <3>1, <3>2, <3>3, <3>4, <3>5, <3>9 DEF OnBoot
    <3> QED BY <2>1, <3>1, <3>8, <3>9, <3>10, <3>11 DEF Paired
  <2> QED BY <2>1, <2>2, <2>3, <2>4, <2>5, <2>6 DEF IInv, Core
<1>2. CASE Next
  <2>1. fate = "up"
    BY <1>2 DEF Next, KernelStep, schedule, ReadCurrent, ReadNext, SkipDone, DemotePrev, PromoteNext,
                SetCurrent, SwitchSpace, SetRsp0, ReadRsp, SaveRsp, LoadRsp, ReturnFromSwitch,
                LinkTask, CloseCircle, WaitDone, task_reap, Splice, DestroySpace, FreeTask,
                sched_init, user_entry_trampoline, cmd_run, task_exit, isr_handler, Tick, At
  <2>2. Core /\ Pointing /\ NoDangling
    BY <2>1 DEF IInv
  <2>3. Goes \/ Ends
    BY <1>2, <2>1, <2>2, ScheduleGoes, ShellGoes, RunGoes, ProcGoes, TickGoes DEF Next, KernelStep
  <2>4. CASE Goes
    BY <2>4 DEF Goes, IInv, LostExplained
  <2>5. CASE Ends
    <3>1. NoDangling'
      BY <2>2, <2>5 DEF Ends, NoDangling
    <3> QED BY <2>5, <3>1 DEF Ends, IInv, LostExplained
  <2> QED BY <2>3, <2>4, <2>5
<1> QED BY <1>1, <1>2

\* Every state of a run satisfies the inductive invariant.
THEOREM SchedulerInductive == Spec => []IInv
<1>1. Init => IInv
  BY InitIInv
<1>2. IInv /\ [Next]_vars => IInv'
  BY NextIInv
<1> QED BY <1>1, <1>2, PTL DEF Spec

\* The scheduler follows no garbage link and loads no dead stack pointer (sched.c:125-151)
\* unless a tick struck the append of task_create_user or the switch of schedule(), or
\* memory ran out.
THEOREM SchedulerLostExplained == Spec => []LostExplained
<1>1. IInv => LostExplained
  BY DEF IInv
<1> QED BY <1>1, SchedulerInductive, PTL

\* task_reap (sched.c:18) frees nothing in use: the CPU's stack, CR3 and TSS.rsp0, current and
\* every link of the circle stay within what is allocated, whatever the ticks interrupt.
THEOREM SchedulerNoDangling == Spec => []NoDangling
<1>1. IInv => NoDangling
  BY DEF IInv
<1> QED BY <1>1, SchedulerInductive, PTL

\* A process that has exited stays switched away from unless a tick landed between a yield's
\* skip test and its switch of stacks.
THEOREM SchedulerExitHolds == Spec => []ExitHolds
<1>1. ASSUME IInv PROVE ExitHolds
  <2>1. SUFFICES ASSUME At("halt") PROVE hits \cap {"stale", "torn"} # {}
    BY DEF ExitHolds, Resurrected
  <2>2. Core /\ Top.pc = "halt" /\ Top.pc \in User
    BY <1>1, <2>1 DEF IInv, At, User
  <2>3. Gone /\ Len(ps) = 1 /\ Top = ps[1]
    BY <2>2, InRing3
  <2> QED BY <2>2, <2>3 DEF Gone, Clean
<1> QED BY <1>1, SchedulerInductive, PTL

\* In Ring 3 current, CR3 and TSS.rsp0 name the running process, its kernel stack is empty
\* but for the frame below, and interrupts are on, unless a tick struck inside a switch.
THEOREM SchedulerRingThree == Spec => []RingThreeContext
<1>1. ASSUME IInv PROVE RingThreeContext
  <2>1. SUFFICES ASSUME At("user"), "torn" \notin hits
                 PROVE  /\ current = cpu.on /\ cpu.cr3 = cpu.on /\ cpu.rsp0 = cpu.on /\ cpu.intr
                        /\ Depth = 1
                        /\ task[cpu.on].state = "running" \/ "stale" \in hits
    BY DEF RingThreeContext
  <2>2. Core /\ Top.pc = "user" /\ Top.pc \in User
    BY <1>1, <2>1 DEF IInv, At, User
  <2>3. /\ OnProc /\ cpu.on = proc /\ Len(ps) = 1 /\ Top = ps[1]
        /\ Normal(Top) /\ Steady(proc)
    BY <2>1, <2>2, InRing3 DEF Zombie
  <2>4. cpu.intr
    BY <2>2, <2>3 DEF OnProc
  <2>5. Depth = 1
    BY <2>3 DEF Depth, ps
  <2>6. task[proc].state = "running" \/ "stale" \in hits
    BY <2>1, <2>2, <2>3 DEF Normal, Clean, Torn
  <2> QED BY <2>3, <2>4, <2>5, <2>6 DEF Steady
<1> QED BY <1>1, SchedulerInductive, PTL

\* The shell's prompt always sleeps with interrupts on: task_reap's sti makes up for a yield
\* that returned with them off.
THEOREM SchedulerPromptAwake == Spec => []PromptAwake
<1>1. ASSUME IInv PROVE PromptAwake
  <2>1. SUFFICES ASSUME At("idle") PROVE cpu.intr
    BY DEF PromptAwake
  <2>2. Core /\ Top.pc = "idle" /\ Top.pc \in Shell
    BY <1>1, <2>1 DEF IInv, At, Shell
  <2> QED BY <2>2, InShell
<1> QED BY <1>1, SchedulerInductive, PTL

=============================================================================
