-------------------------- MODULE Scheduler_switch --------------------------
(***************************************************************************)
(* schedule() keeps Core: a step inside it, a return from it, and the      *)
(* switch of stacks; and when it goes astray, a window explains it.        *)
(***************************************************************************)
EXTENDS Scheduler_frames

\* The kinds of frame the shell runs in while a process is linked.
LEMMA BootFrames ==
  ASSUME Core, Linked, OnBoot, Len(bs) \in {2, 3}
  PROVE  \/ Calm(Top) /\ (Len(bs) = 2 \/ bs[2].pc \notin Torn)
         \/ Len(bs) = 2 /\ Messed(Top) /\ Top.ret = "yield"
         \/ /\ Len(bs) = 3 /\ bs[2].pc \in Torn /\ "torn" \in hits /\ base = "wait"
            /\ \/ Top.pc = "return" /\ Steady(Boot) /\ Poisoned
               \/ Undoing(Top) \/ Again(Top, bs[2])
<1>1. Shape
  BY DEF Core
<1>2. Top = bs[Len(bs)]
  BY Running DEF OnBoot, bs
<1>3. CASE Len(bs) = 2
  BY <1>1, <1>2, <1>3 DEF OnBoot, Shape
<1>4. CASE Len(bs) = 3
  <2>1. base = "wait"
    BY <1>1, <1>4 DEF Shape
  <2> QED BY <1>2, <1>4, <2>1 DEF OnBoot
<1> QED BY <1>3, <1>4

LEMMA StepOnBoot ==
  ASSUME Core, Linked, OnBoot, NEW g \in FrameType, Moved(Top, g), Wrote(Top), SetTop(g),
         UNCHANGED <<alive, spaces, proc, hits, fate>>, TypeOK', Depth = Len(stack[cpu.on])
  PROVE  Core'
<1>1. Shape /\ Circle /\ Paired /\ Saved /\ cpu.on = Boot /\ Depth = Len(bs)
  BY CircleFacts DEF Core, OnBoot, bs
<1>2. Top = bs[Len(bs)] /\ Len(bs) \in {1, 2, 3}
  BY <1>1, Running DEF Shape, bs
<1>3. Len(bs) \in {2, 3}
  BY <1>1, <1>2 DEF Moved, Shape, base, Shell, Body, Early, Stale, Torn
<1>4. /\ Len(bs') = Len(bs) /\ bs'[Len(bs)] = g /\ ps' = ps
      /\ \A i \in 1..Len(bs) - 1 : bs'[i] = bs[i]
  BY <1>1, SetTopFacts DEF Circle
<1>5. bs'[1] = bs[1] /\ base' = base
  BY <1>3, <1>4 DEF base
<1>6. Live' /\ Links' /\ (HasProc' <=> HasProc) /\ (Linked' <=> Linked)
  BY <1>5, StepOuter
<1>7. Still /\ proc' = proc /\ hits' = hits
  BY <1>4 DEF Still
<1>8. g.pc \in Body /\ g.pc # "return" /\ g.ret = Top.ret
  BY DEF Moved, NextPc, Body, Early, Stale, Torn
<1>9. Shape'
  <2>1. CASE Len(bs) = 2
    BY <1>1, <1>2, <1>4, <1>5, <1>8, <2>1 DEF Shape
  <2>2. CASE Len(bs) = 3
    <3>1. bs'[2] = bs[2] /\ bs'[3] = g
      BY <1>4, <2>2
    <3> QED BY <1>1, <1>2, <1>4, <1>5, <1>8, <2>2, <3>1 DEF Shape
  <2> QED BY <1>3, <2>1, <2>2
<1>10. \/ Calm(Top) /\ (Len(bs) = 2 \/ bs[2].pc \notin Torn)
       \/ Len(bs) = 2 /\ Messed(Top) /\ Top.ret = "yield"
       \/ /\ Len(bs) = 3 /\ bs[2].pc \in Torn /\ "torn" \in hits /\ base = "wait"
          /\ Undoing(Top) \/ Again(Top, bs[2])
  BY <1>3, BootFrames DEF Moved, Body, Early, Stale, Torn
<1>11. Saved'
  <2>1. Top.pc = "save" => Top.prev = Boot \/ (cpu.on = Boot /\ "torn" \in hits)
    BY <1>1, <1>10 DEF Calm, Messed, Again, Outward, Body, Torn
  <2> QED BY <1>1, <1>4, <1>7, <2>1, SavedStep
<1>12. ItsStack' /\ Gone'
  <2>1. ItsStack'
    BY <1>1, <1>4 DEF Paired, ItsStack
  <2>2. CASE Clean
    <3>1. Calm(Top)
      BY <1>1, <1>10, <2>2 DEF Messed, Saved, Clean
    <3>2. task'[proc].state = "done" <=> task[proc].state = "done"
      BY <1>1, <2>2, <3>1 DEF Calm, Wrote, Circle, Stale
    <3> QED BY <1>1, <1>4, <1>7, <2>1, <3>2 DEF Paired, Gone, Clean
  <2>3. CASE ~Clean
    BY <1>7, <2>1, <2>3 DEF Gone, Clean
  <2> QED BY <2>2, <2>3
<1>13. cpu'.on = Boot /\ cpu'.intr = cpu.intr
  BY <1>1 DEF Wrote
<1>14. OnBoot'
  <2>1. CASE Len(bs) = 2
    <3>1. CASE Calm(Top)
      <4>1. Calm(g)'
        BY <1>1, <1>7, <3>1, CalmStep
      <4>2. bs'[2] = g /\ Len(bs') = 2 /\ Calm(bs[2])'
        BY <1>4, <2>1, <4>1 DEF Calm, Outward, Switching
      <4> QED BY <1>2, <1>8, <1>11, <1>13, <2>1, <4>2 DEF OnBoot
    <3>2. CASE Messed(Top) /\ Top.ret = "yield"
      <4>1. Messed(g)'
        BY <1>1, <1>7, <3>2, MessedStep
      <4>2. bs'[2] = g /\ Len(bs') = 2 /\ Messed(bs[2])' /\ bs'[2].ret = "yield"
        BY <1>4, <1>8, <2>1, <3>2, <4>1 DEF Messed, Outward
      <4>3. bs'[2].pc # "return"
        BY <1>8, <4>2
      <4> QED BY <1>11, <1>13, <4>2, <4>3, OnBootYield
    <3> QED BY <1>10, <2>1, <3>1, <3>2
  <2>2. CASE Len(bs) = 3
    <3>0. /\ bs'[2] = bs[2] /\ bs'[3] = g /\ Len(bs') = 3 /\ ~cpu.intr /\ Outward(bs[2])
          /\ bs[2].pc \in Stale => "stale" \in hits
      BY <1>4, <2>2 DEF OnBoot
    <3>1. Outward(bs[2])'
      BY <1>4, <1>7, <3>0 DEF Outward
    <3>2. CASE Calm(Top) /\ bs[2].pc \notin Torn
      <4>1. Calm(g)'
        BY <1>1, <1>7, <3>2, CalmStep
      <4>2. Calm(bs[3])'
        BY <3>0, <4>1 DEF Calm, Outward, Switching
      <4>3. cpu'.on = Boot /\ ~cpu'.intr /\ Saved' /\ Len(bs') = 3
        BY <1>11, <1>13, <3>0
      <4> QED BY <1>7, <3>0, <3>1, <3>2, <4>2, <4>3, OnBootThree
    <3>3. CASE Undoing(Top) /\ bs[2].pc \in Torn /\ "torn" \in hits /\ base = "wait"
      <4>1. Undoing(g)'
        BY <1>1, <1>7, <3>3, CircleFacts, UndoingStep
      <4>2. Undoing(bs[3])'
        BY <3>0, <4>1 DEF Undoing
      <4>3. cpu'.on = Boot /\ ~cpu'.intr /\ Saved' /\ Len(bs') = 3
        BY <1>11, <1>13, <3>0
      <4> QED BY <1>7, <1>8, <3>0, <3>1, <3>3, <4>2, <4>3, OnBootThree
    <3>4. CASE Again(Top, bs[2]) /\ bs[2].pc \in Torn /\ "torn" \in hits
      <4>1. PICK h : h = bs[2]
        OBVIOUS
      <4>2. Again(g, h)' /\ bs'[2] = h /\ bs'[3] = g
        BY <1>1, <1>7, <3>0, <3>4, <4>1, AgainStep
      <4>3. Again(bs[3], bs[2])'
        BY <4>2 DEF Again, Outward
      <4>4. cpu'.on = Boot /\ ~cpu'.intr /\ Saved' /\ Len(bs') = 3
        BY <1>11, <1>13, <3>0
      <4> QED BY <1>7, <1>8, <3>0, <3>1, <3>4, <4>3, <4>4, OnBootThree
    <3> QED BY <1>10, <2>2, <3>2, <3>3, <3>4
  <2> QED BY <1>3, <2>1, <2>2
<1>15. Paired'
  BY <1>1, <1>4, <1>5, <1>7, <1>12, <1>14 DEF Paired
<1> QED BY <1>6, <1>9, <1>15 DEF Core

LEMMA StepOnProc ==
  ASSUME Core, Linked, OnProc, NEW g \in FrameType, Moved(Top, g), Wrote(Top), SetTop(g),
         UNCHANGED <<alive, spaces, proc, hits, fate>>, TypeOK', Depth = Len(stack[cpu.on])
  PROVE  Core'
<1>1. Shape /\ Circle /\ Paired /\ ItsStack /\ Gone /\ cpu.on = proc /\ Depth = Len(ps)
  BY CircleFacts DEF Core, Paired, OnProc, ps
<1>2. Top = ps[Len(ps)] /\ Len(ps) \in Nat /\ Len(ps) >= 1
  BY <1>1, Running DEF ps
<1>3. Len(ps) >= 2
  BY <1>1, <1>2 DEF Moved, ItsStack, User, Body, Early, Stale, Torn
<1>4. /\ bs' = bs /\ Len(ps') = Len(ps) /\ ps'[Len(ps)] = g
      /\ \A i \in 1..Len(ps) - 1 : ps'[i] = ps[i]
  BY <1>1, SetTopFacts
<1>5. base' = base /\ ps'[1] = ps[1]
  BY <1>2, <1>3, <1>4 DEF base
<1>6. Live' /\ Links' /\ (HasProc' <=> HasProc) /\ (Linked' <=> Linked)
  BY <1>5, StepOuter
<1>7. Still /\ proc' = proc /\ hits' = hits
  BY <1>4 DEF Still
<1>8. g.pc \in Body /\ g.pc # "user" /\ g.ret = Top.ret /\ Top.pc \in Body
  BY DEF Moved, NextPc, Body, Early, Stale, Torn
<1>9. Shape'
  BY <1>1, <1>4, <1>5 DEF Shape
<1>10. ItsStack'
  <2>1. /\ g.ret \in {"irq", "exit"} /\ (g.ret = "exit" => ps'[1].pc = "halt")
    BY <1>1, <1>2, <1>3, <1>5, <1>8 DEF ItsStack
  <2> QED BY <1>1, <1>2, <1>4, <1>5, <1>8, <2>1 DEF ItsStack
<1>11. Normal(Top) \/ (base = "wait" /\ Zombie(Top))
  BY <1>2 DEF OnProc
<1>12. Gone'
  <2>1. CASE Clean
    <3>1. Normal(Top)
      BY <1>11, <2>1 DEF Zombie, Clean
    <3>2. Top.pc = "promote" => Top.next = Boot
      BY <3>1 DEF Normal, Stale
    <3>3. task'[proc].state = "done" <=> task[proc].state = "done"
      BY <1>1, <3>2 DEF Wrote, Circle
    <3>4. Len(ps) = 2 => ps'[2] = g /\ Top = ps[2]
      BY <1>2, <1>4
    <3>5. ps'[1].pc = "halt" => Len(ps') = 2 /\ ps'[2].ret = "exit" /\ ps'[2].pc \in Body
      BY <1>1, <1>4, <1>5, <1>8, <2>1, <3>4 DEF Gone
    <3> QED BY <1>1, <1>5, <1>7, <2>1, <3>3, <3>5 DEF Gone, Clean
  <2>2. CASE ~Clean
    BY <1>7, <2>2 DEF Gone, Clean
  <2> QED BY <2>1, <2>2
<1>13. Normal(g)' \/ (base' = "wait" /\ Zombie(g)')
  <2>1. CASE Normal(Top)
    BY <1>1, <1>5, <1>7, <2>1, CircleFacts, NormalStep
  <2>2. CASE base = "wait" /\ Zombie(Top)
    BY <1>1, <1>5, <1>7, <2>2, CircleFacts, ZombieStep
  <2> QED BY <1>11, <2>1, <2>2
<1>14. OnProc'
  <2>1. Normal(ps[Len(ps)])' \/ (base' = "wait" /\ Zombie(ps[Len(ps)])')
    BY <1>4, <1>13 DEF Normal, Zombie, Switching
  <2>2. cpu'.on = proc /\ cpu'.intr = cpu.intr /\ ~cpu.intr
    BY <1>1, <1>2, <1>8 DEF Wrote, OnProc
  <2>3. Len(bs) = 3 => Outward(bs[2])'
    BY <1>4, <1>7 DEF OnProc, Outward
  <2>4. ps'[Len(ps')] = g
    BY <1>4
  <2> QED BY <1>4, <1>7, <1>8, <2>1, <2>2, <2>3, <2>4 DEF OnProc
<1>15. Paired'
  BY <1>1, <1>4, <1>5, <1>7, <1>10, <1>12, <1>14 DEF Paired
<1> QED BY <1>6, <1>9, <1>15 DEF Core

\* A step of schedule() that stays on its stack keeps Core.
LEMMA StepUpCore ==
  ASSUME Core, StepUp
  PROVE  Core' /\ fate' = fate /\ hits' = hits
<1>1. PICK g \in FrameType :
        /\ Moved(Top, g) /\ Wrote(Top) /\ SetTop(g)
        /\ UNCHANGED <<alive, spaces, proc, hits, fate>>
        /\ TypeOK' /\ Top \in FrameType /\ Depth = Len(stack[cpu.on])
  BY StepCommon
<1>2. CASE ~Linked
  BY <1>1, <1>2, StepAlone
<1>3. CASE Linked
  BY <1>1, <1>3, CircleFacts, StepOnBoot, StepOnProc DEF Paired
<1> QED BY <1>1, <1>2, <1>3

-----------------------------------------------------------------------------
\* A return from schedule().

\* Popping the running frame.
LEMMA ReturnFacts ==
  ASSUME Core, Return, Len(stack[cpu.on]) >= 2
  PROVE  /\ TypeOK' /\ UNCHANGED <<mem, hits, fate>>
         /\ cpu' \in CpuType /\ cpu'.on = cpu.on /\ cpu'.cr3 = cpu.cr3 /\ cpu'.rsp0 = cpu.rsp0
         /\ cpu'.intr = IF Top.ret = "irq" THEN TRUE ELSE cpu.intr
         /\ cpu.on = Boot => /\ Len(bs') = Len(bs) - 1
                             /\ \A i \in 1..Len(bs) - 1 : bs'[i] = bs[i]
                             /\ proc \in Procs => ps' = ps
         /\ cpu.on = proc => /\ bs' = bs /\ Len(ps') = Len(ps) - 1
                             /\ \A i \in 1..Len(ps) - 1 : ps'[i] = ps[i]
<1>1. /\ stack[cpu.on] \in Seq(FrameType) /\ cpu.on \in Tasks
      /\ stack \in [Tasks -> Seq(FrameType)] /\ (cpu.on = proc => proc \in Procs)
  BY Running DEF Core, TypeOK
<1>2. UNCHANGED <<mem, hits, fate>> /\ proc' = proc
  BY DEF Return, mem
<1>3. cpu \in CpuType
  BY DEF Core, TypeOK
<1>4. /\ cpu' \in CpuType /\ cpu'.on = cpu.on /\ cpu'.cr3 = cpu.cr3 /\ cpu'.rsp0 = cpu.rsp0
      /\ cpu'.intr = IF Top.ret = "irq" THEN TRUE ELSE cpu.intr
  BY <1>3 DEF Return, CpuType
<1> DEFINE s == stack[cpu.on]
           r == SubSeq(s, 1, Len(s) - 1)
<1>5. /\ r \in Seq(FrameType) /\ Len(r) = Len(s) - 1
      /\ \A i \in 1..Len(s) - 1 : r[i] = s[i]
  BY <1>1, FrontFacts
<1>6. stack' = [stack EXCEPT ![cpu.on] = r]
  BY <1>1 DEF Return, Depth
<1> HIDE DEF r
<1>7. /\ stack' \in [Tasks -> Seq(FrameType)] /\ stack'[cpu.on] = r
      /\ \A t \in Tasks : t # cpu.on => stack'[t] = stack[t]
  BY <1>1, <1>5, <1>6
<1>8. TypeOK'
  BY <1>2, <1>4, <1>7 DEF Core, TypeOK, mem
<1> QED BY <1>1, <1>2, <1>4, <1>5, <1>7, <1>8, TasksAssumption DEF bs, ps, Tasks

\* The parts of Core that only look at where the shell is, when no task struct changes.
LEMMA QuietOuter ==
  ASSUME Core, base' = base, UNCHANGED mem
  PROVE  Live' /\ Links' /\ (Linked' <=> Linked)
<1>1. (HasProc' <=> HasProc) /\ (Linked' <=> Linked)
  BY DEF HasProc, Linked
<1>2. Live'
  BY <1>1 DEF Core, Live, mem
<1>3. Links'
  BY DEF Core, Links, mem
<1> QED BY <1>1, <1>2, <1>3

LEMMA LeaveAlone ==
  ASSUME Core, ~Linked, Leave
  PROVE  Core' /\ fate' = fate /\ hits' = hits
<1>1. Alone /\ Shape /\ Live /\ Links
  BY DEF Core
<1>2. /\ cpu.on = Boot /\ Top = bs[Len(bs)] /\ Len(bs) \in {1, 2}
  BY <1>1, Running DEF Alone, Shape, bs
<1>3. Len(bs) = 2 /\ Top = bs[2]
  BY <1>1, <1>2 DEF Leave, Shape, base, Shell
<1>4. /\ TypeOK' /\ UNCHANGED <<mem, hits, fate>>
      /\ cpu'.on = cpu.on /\ cpu'.cr3 = cpu.cr3 /\ cpu'.rsp0 = cpu.rsp0
      /\ cpu'.intr = IF Top.ret = "irq" THEN TRUE ELSE cpu.intr
      /\ Len(bs') = 1 /\ bs'[1] = bs[1] /\ (proc \in Procs => ps' = ps)
  <2>1. Len(stack[cpu.on]) >= 2
    BY <1>2, <1>3 DEF bs
  <2>2. Return
    BY DEF Leave
  <2>3. /\ Len(bs') = Len(bs) - 1 /\ (proc \in Procs => ps' = ps)
        /\ \A i \in 1..Len(bs) - 1 : bs'[i] = bs[i]
    BY <1>2, <2>1, <2>2, ReturnFacts
  <2>4. Len(bs') = 1 /\ bs'[1] = bs[1]
    BY <1>3, <2>3
  <2> QED BY <2>1, <2>2, <2>3, <2>4, ReturnFacts
<1>5. base' = base
  BY <1>4 DEF base
<1>6. Live' /\ Links' /\ (Linked' <=> Linked)
  BY <1>4, <1>5, QuietOuter
<1>7. Shape'
  BY <1>1, <1>4, <1>5 DEF Shape
<1>8. Alone'
  <2>1. cpu'.intr = TRUE
    BY <1>1, <1>3, <1>4 DEF Alone
  <2>2. base = "link" => ps' = ps
    BY <1>1, <1>4 DEF Live, HasProc
  <2> QED BY <1>1, <1>2, <1>4, <1>5, <2>1, <2>2 DEF Alone, mem
<1> QED BY <1>4, <1>6, <1>7, <1>8 DEF Core

LEMMA LeaveOnBoot ==
  ASSUME Core, Linked, OnBoot, Leave
  PROVE  Core' /\ fate' = fate /\ hits' = hits
<1>1. Shape /\ Circle /\ Paired /\ Saved /\ ItsStack /\ Gone /\ cpu.on = Boot
  BY CircleFacts DEF Core, OnBoot, Paired
<1>2. Top = bs[Len(bs)] /\ Len(bs) \in {1, 2, 3}
  BY <1>1, Running DEF Shape, bs
<1>3. Len(bs) \in {2, 3} /\ Top.pc \notin Torn
  BY <1>1, <1>2 DEF Leave, Shape, base, Shell, Torn
<1>4. /\ TypeOK' /\ UNCHANGED <<mem, hits, fate>>
      /\ cpu'.on = cpu.on /\ cpu'.cr3 = cpu.cr3 /\ cpu'.rsp0 = cpu.rsp0
      /\ cpu'.intr = IF Top.ret = "irq" THEN TRUE ELSE cpu.intr
      /\ Len(bs') = Len(bs) - 1 /\ ps' = ps
      /\ \A i \in 1..Len(bs) - 1 : bs'[i] = bs[i]
  <2>1. Len(stack[cpu.on]) >= 2
    <3>1. Len(bs) >= 2
      BY <1>3
    <3>2. stack[cpu.on] = bs
      BY <1>1 DEF bs
    <3> QED BY <3>1, <3>2
  <2> QED BY <1>1, <2>1, ReturnFacts DEF Leave, Circle
<1>5. base' = base /\ bs'[1] = bs[1]
  BY <1>3, <1>4 DEF base
<1>6. Live' /\ Links' /\ (Linked' <=> Linked)
  BY <1>4, <1>5, QuietOuter
<1>7. /\ task' = task /\ current' = current /\ proc' = proc /\ hits' = hits
  BY <1>4 DEF mem
<1>8. ItsStack' /\ Gone' /\ Saved'
  BY <1>1, <1>4, <1>7 DEF ItsStack, Gone, Saved, Clean, Poisoned
<1>9. CASE Len(bs) = 2
  <2>1. Len(bs') = 1
    BY <1>4, <1>9
  <2>2. Shape'
    BY <1>1, <1>5, <2>1 DEF Shape
  <2>3. Steady(Boot)
    BY <1>3, <1>9, BootFrames DEF Calm, Messed
  <2>4. base' = "close" => cpu'.intr
    <3>1. base' = "close" => Top.ret = "irq"
      BY <1>1, <1>2, <1>5, <1>9 DEF Shape
    <3> QED BY <1>4, <3>1
  <2>5. Steady(Boot)' /\ cpu'.on = Boot
    BY <1>1, <1>4, <1>7, <2>3 DEF Steady
  <2>6. OnBoot'
    BY <1>8, <2>1, <2>4, <2>5, OnBootOne
  <2>7. Paired'
    BY <1>5, <1>8, <2>1, <2>6 DEF Paired
  <2> QED BY <1>4, <1>6, <2>2, <2>7 DEF Core
<1>10. CASE Len(bs) = 3
  <2>1. Len(bs') = 2 /\ bs'[2] = bs[2]
    BY <1>4, <1>10
  <2>2. bs[2].ret = "yield" /\ bs[2].pc # "return" /\ Shape'
    BY <1>1, <1>5, <1>10, <2>1 DEF Shape
  <2>3. Outward(bs[2])' /\ (bs[2].pc \in Stale => "stale" \in hits)
    BY <1>4, <1>7, <1>10, <2>1 DEF OnBoot, Outward
  <2>4. Calm(bs[2])' \/ Messed(bs[2])'
    <3>1. CASE bs[2].pc \notin Torn
      <4>1. Steady(Boot)
        BY <1>3, <1>10, <3>1, BootFrames DEF Calm
      <4>2. Steady(Boot)' /\ bs'[2].pc \notin Torn
        BY <1>4, <1>7, <2>1, <3>1, <4>1 DEF Steady
      <4> QED BY <1>7, <2>1, <2>3, <4>2 DEF Calm, Clean, Torn, Stale
    <3>2. CASE bs[2].pc \in Torn
      <4>1. \/ Top.pc = "return" /\ Steady(Boot) /\ Poisoned
            \/ Undoing(Top) \/ Again(Top, bs[2])
        BY <1>10, <3>2, BootFrames
      <4>2. ~Undoing(Top)
        <5>1. Undoing(Top) => Top.pc \in {"enter", "skip"} /\ current = proc
          BY <1>3 DEF Undoing, Leave, Body, Early, Stale, Torn
        <5>2. current = proc => current # NULL
          BY <1>1, TasksAssumption DEF Circle
        <5> QED BY <1>1, <5>1, <5>2 DEF Undoing, Leave, Circle
      <4>3. current = Boot /\ Poisoned
        BY <1>3, <4>1, <4>2 DEF Steady, Again
      <4>4. bs[2].pc \in {"save", "load"} /\ bs[2].rsi.on = proc => cpu.cr3 = Boot /\ cpu.rsp0 = Boot
        BY <1>3, <4>1, <4>2 DEF Steady, Again
      <4> QED BY <1>4, <1>7, <2>1, <2>3, <3>2, <4>3, <4>4 DEF Messed, Poisoned
    <3> QED BY <3>1, <3>2
  <2>5. OnBoot'
    <3>1. /\ cpu'.on = Boot /\ Saved' /\ Len(bs') = 2
          /\ bs'[2].ret = "yield" /\ bs'[2].pc # "return"
      BY <1>1, <1>4, <1>8, <2>1, <2>2
    <3> QED BY <2>4, <3>1, OnBootYield
  <2>6. Paired'
    BY <1>1, <1>5, <1>7, <1>8, <1>10, <2>1, <2>5 DEF Paired
  <2> QED BY <1>4, <1>6, <2>2, <2>6 DEF Core
<1> QED BY <1>3, <1>4, <1>9, <1>10

LEMMA LeaveOnProc ==
  ASSUME Core, Linked, OnProc, Leave
  PROVE  Core' /\ fate' = fate /\ hits' = hits
<1>1. Shape /\ Circle /\ Paired /\ ItsStack /\ Gone /\ cpu.on = proc
  BY CircleFacts DEF Core, OnProc, Paired
<1>2. Top = ps[Len(ps)] /\ Len(ps) \in Nat /\ Len(ps) >= 1
  BY <1>1, Running DEF ps
<1>3. Len(ps) >= 2 /\ Top.pc \notin Torn
  BY <1>1, <1>2 DEF Leave, ItsStack, User, Torn
<1>4. /\ TypeOK' /\ UNCHANGED <<mem, hits, fate>>
      /\ cpu'.on = cpu.on /\ cpu'.cr3 = cpu.cr3 /\ cpu'.rsp0 = cpu.rsp0
      /\ cpu'.intr = IF Top.ret = "irq" THEN TRUE ELSE cpu.intr
      /\ bs' = bs /\ Len(ps') = Len(ps) - 1
      /\ \A i \in 1..Len(ps) - 1 : ps'[i] = ps[i]
  BY <1>1, <1>3, ReturnFacts DEF Leave, ps
<1>5. base' = base /\ ps'[1] = ps[1]
  BY <1>2, <1>3, <1>4 DEF base
<1>6. Live' /\ Links' /\ (Linked' <=> Linked)
  BY <1>4, <1>5, QuietOuter
<1>7. /\ task' = task /\ current' = current /\ proc' = proc /\ hits' = hits
  BY <1>4 DEF mem
<1>8. Shape'
  BY <1>1, <1>4, <1>5 DEF Shape
<1> DEFINE k == Len(ps) - 1
           h == ps[k]
<1>9. /\ k \in Nat /\ k >= 1 /\ Len(ps') = k /\ ps'[Len(ps')] = h /\ ps'[k] = h
      /\ h.pc \in {"return"} \cup User
  <2>1. CASE k = 1
    BY <1>1, <1>2, <1>3, <1>4, <2>1 DEF ItsStack
  <2>2. CASE k # 1
    BY <1>1, <1>2, <1>3, <1>4, <2>2 DEF ItsStack
  <2> QED BY <2>1, <2>2
<1>10. h.pc \notin Body
  BY <1>9 DEF Body, Early, Stale, Torn, User
<1>11. ItsStack'
  BY <1>1, <1>2, <1>3, <1>4, <1>5 DEF ItsStack
<1>12. (Normal(Top) /\ Top.pc = "return") \/ (base = "wait" /\ Zombie(Top))
  <2>1. CASE Normal(Top)
    <3>1. current = proc
      BY <1>3, <2>1 DEF Normal, Steady
    <3>2. current # NULL /\ task[proc].next # proc
      BY <1>1, <3>1, CircleFacts, TasksAssumption DEF Circle
    <3>3. Top.pc = "skip" => Top.next # Top.prev
      BY <2>1, <3>2 DEF Normal, Body, Early
    <3> QED BY <2>1, <3>2, <3>3 DEF Leave
  <2>2. CASE base = "wait" /\ Zombie(Top)
    BY <2>2
  <2> QED BY <1>2, <2>1, <2>2 DEF OnProc
<1>13. Clean => ps[1].pc # "halt" /\ Normal(Top) /\ Top.pc = "return"
  <2> SUFFICES ASSUME Clean PROVE ps[1].pc # "halt" /\ Normal(Top) /\ Top.pc = "return"
    OBVIOUS
  <2>1. Normal(Top) /\ Top.pc = "return"
    BY <1>12 DEF Zombie, Clean
  <2>2. Top.pc \notin Body
    BY <2>1 DEF Body, Early, Stale, Torn
  <2> QED BY <1>1, <1>2, <2>1, <2>2 DEF Gone
<1>14. Gone'
  BY <1>1, <1>5, <1>7, <1>13 DEF Gone, Clean
<1>15. Normal(ps[Len(ps)])' \/ (base' = "wait" /\ Zombie(ps[Len(ps)])')
  <2>1. CASE Normal(Top) /\ Top.pc = "return"
    <3>1. /\ Steady(proc) /\ task[Boot].rsp = Rsp(Boot, Len(bs))
          /\ Clean => task[proc].state = "running"
      BY <1>13, <2>1 DEF Normal, Torn
    <3>2. Steady(proc)'
      BY <1>4, <1>7, <3>1 DEF Steady
    <3>3. ps'[Len(ps')].pc \notin Body /\ ps'[Len(ps')].pc \notin {"skip", "save", "load"} \cup Stale \cup Torn
      BY <1>9, <1>10 DEF Body, Early, Stale, Torn
    <3>4. Normal(ps[Len(ps)])'
      BY <1>4, <1>7, <3>1, <3>2, <3>3 DEF Normal, Clean
    <3> QED BY <3>4
  <2>2. CASE base = "wait" /\ Zombie(Top)
    <3>1. Steady(Boot) /\ Poisoned /\ "torn" \in hits
      BY <1>3, <2>2 DEF Zombie
    <3>2. Steady(Boot)' /\ Poisoned'
      BY <1>4, <1>7, <3>1 DEF Steady, Poisoned
    <3>3. ps'[Len(ps')].pc \notin Body /\ ps'[Len(ps')].pc \notin {"skip", "save", "load"} \cup Stale \cup Torn
      BY <1>9, <1>10 DEF Body, Early, Stale, Torn
    <3>4. Zombie(ps[Len(ps)])'
      BY <1>7, <3>1, <3>2, <3>3 DEF Zombie
    <3> QED BY <1>5, <2>2, <3>4
  <2> QED BY <1>12, <2>1, <2>2
<1>16. OnProc'
  <2>1. Len(bs) = 3 => Outward(bs[2])'
    <3>1. Len(bs) = 3 => bs'[2].pc \notin {"save", "load"}
      BY <1>4 DEF OnProc, Torn
    <3> QED BY <1>4, <1>7, <3>1 DEF OnProc, Outward
  <2>2. h.pc = "user" => cpu'.intr
    <3>1. k # 1 => h.pc = "return"
      <4>1. k # 1 => k \in 2..Len(ps) - 1
        BY <1>9
      <4> QED BY <1>1, <4>1 DEF ItsStack
    <3>2. Top.ret \in {"irq", "exit"} /\ (Top.ret = "exit" => ps[1].pc = "halt")
      BY <1>1, <1>2, <1>3 DEF ItsStack
    <3>3. h.pc = "user" => Top.ret = "irq"
      BY <3>1, <3>2
    <3> QED BY <1>4, <3>3
  <2>3. ps'[Len(ps')].pc = "user" => cpu'.intr
    BY <1>9, <2>2
  <2>4. ps'[Len(ps')].pc \notin Body
    BY <1>9, <1>10
  <2> QED BY <1>1, <1>4, <1>7, <1>9, <1>15, <2>1, <2>3, <2>4 DEF OnProc
<1>17. Paired'
  BY <1>1, <1>4, <1>5, <1>7, <1>11, <1>14, <1>16 DEF Paired
<1> QED BY <1>4, <1>6, <1>8, <1>17 DEF Core

\* A return from schedule() keeps Core.
LEMMA LeaveCore ==
  ASSUME Core, Leave
  PROVE  Core' /\ fate' = fate /\ hits' = hits
<1>1. CASE ~Linked
  BY <1>1, LeaveAlone
<1>2. CASE Linked
  BY <1>2, CircleFacts, LeaveOnBoot, LeaveOnProc DEF Paired
<1> QED BY <1>1, <1>2

-----------------------------------------------------------------------------
\* The switch of stacks.

\* Loading a stack pointer that names a suspended frame.
LEMMA LoadFacts ==
  ASSUME Core, Load
  PROVE  /\ Top.pc = "load" /\ Top.next \in Tasks /\ Top.rsi.on = Top.next
         /\ TypeOK' /\ UNCHANGED <<mem, hits, fate>>
         /\ cpu'.on = Top.next /\ cpu'.cr3 = cpu.cr3 /\ cpu'.rsp0 = cpu.rsp0 /\ cpu'.intr = cpu.intr
         /\ \A t \in Tasks : t # Top.next => stack'[t] = stack[t]
         /\ LET s == stack[Top.next]
                r == stack'[Top.next]
                k == Top.rsi.depth
            IN /\ k \in 1..Len(s) /\ s[k].pc \in {"load", "entry"}
               /\ Len(r) = k /\ \A i \in 1..k - 1 : r[i] = s[i]
               /\ r[k] = IF s[k].pc = "load" THEN [s[k] EXCEPT !.pc = "return"] ELSE s[k]
<1> DEFINE t == Top.next
           k == Top.rsi.depth
           s == stack[t]
           r == Resume(SubSeq(s, 1, k))
<1>1. /\ At("load") /\ Resumable(t, Top.rsi) /\ UNCHANGED <<mem, hits, fate>>
      /\ stack' = [stack EXCEPT ![t] = r] /\ cpu' = [cpu EXCEPT !.on = t]
  BY DEF Load, LoadRsp
<1>2. Top.pc = "load" /\ t \in Tasks
  BY <1>1, TopLocals DEF At, Torn
<1>3. s \in Seq(FrameType) /\ k \in 1..Len(s) /\ s[k].pc \in {"load", "entry"} /\ Top.rsi.on = t
  BY <1>1, <1>2 DEF Resumable, Core, TypeOK
<1>4. /\ r \in Seq(FrameType) /\ Len(r) = k /\ \A i \in 1..k - 1 : r[i] = s[i]
      /\ r[k] = IF s[k].pc = "load" THEN [s[k] EXCEPT !.pc = "return"] ELSE s[k]
  BY <1>3, ResumeFacts
<1> HIDE DEF r
<1>5. stack \in [Tasks -> Seq(FrameType)] /\ cpu \in CpuType
  BY DEF Core, TypeOK
<1>6. /\ stack' \in [Tasks -> Seq(FrameType)] /\ stack'[t] = r
      /\ \A u \in Tasks : u # t => stack'[u] = stack[u]
  BY <1>1, <1>2, <1>4, <1>5
<1>7. /\ cpu' \in CpuType
      /\ cpu'.on = t /\ cpu'.cr3 = cpu.cr3 /\ cpu'.rsp0 = cpu.rsp0 /\ cpu'.intr = cpu.intr
  BY <1>1, <1>2, <1>5 DEF CpuType
<1>8. TypeOK'
  BY <1>1, <1>6, <1>7 DEF Core, TypeOK, mem
<1> QED BY <1>1, <1>2, <1>3, <1>4, <1>6, <1>7, <1>8

\* The frame that is resumed returns.
LEMMA Resumed ==
  ASSUME NEW h \in FrameType, NEW g, h.pc \in {"load", "entry"},
         g = IF h.pc = "load" THEN [h EXCEPT !.pc = "return"] ELSE h
  PROVE  /\ g.pc = IF h.pc = "load" THEN "return" ELSE "entry"
         /\ g.ret = h.ret /\ g.pc \notin Body
         /\ g.pc \notin {"skip", "save", "load", "user"} \cup Stale \cup Torn
BY DEF FrameType, Body, Early, Stale, Torn

LEMMA LoadProc ==
  ASSUME Core, Linked, OnBoot, Load, Top.next = proc
  PROVE  Core' /\ fate' = fate /\ hits' = hits
<1>1. Shape /\ Circle /\ Paired /\ Saved /\ ItsStack /\ Gone /\ cpu.on = Boot
  BY CircleFacts DEF Core, OnBoot, Paired
<1>2. /\ Top.pc = "load" /\ Top.rsi.on = proc
      /\ TypeOK' /\ UNCHANGED <<mem, hits, fate>>
      /\ cpu'.on = proc /\ cpu'.cr3 = cpu.cr3 /\ cpu'.rsp0 = cpu.rsp0 /\ cpu'.intr = cpu.intr
  BY LoadFacts
<1>3. /\ task' = task /\ current' = current /\ proc' = proc /\ hits' = hits
  BY <1>2 DEF mem
<1>4. bs' = bs /\ base' = base
  BY <1>1, LoadFacts DEF bs, base, Circle
<1>5. Live' /\ Links' /\ (Linked' <=> Linked)
  BY <1>2, <1>4, QuietOuter
<1>6. Top = bs[Len(bs)] /\ Len(bs) \in {2, 3}
  <2>1. Top = bs[Len(bs)] /\ Len(bs) \in {1, 2, 3}
    BY <1>1, Running DEF Shape, bs
  <2> QED BY <1>1, <1>2, <2>1 DEF Shape, base, Shell
<1>7. \/ Calm(Top) /\ (Len(bs) = 2 \/ bs[2].pc \notin Torn)
      \/ Len(bs) = 2 /\ Messed(Top) /\ Top.ret = "yield"
  <2>1. ~Undoing(Top) /\ ~Again(Top, bs[2])
    BY <1>1, <1>2 DEF Undoing, Again, Circle, Torn
  <2> QED BY <1>2, <1>6, <2>1, BootFrames
<1>8. Outward(Top) /\ Top.rsi.depth = Len(ps)
  BY <1>2, <1>7 DEF Calm, Messed, Outward
<1> DEFINE k == Len(ps)
<1>9. /\ k \in 1..Len(ps) /\ ps[k].pc \in {"load", "entry"} /\ Len(ps') = k
      /\ \A i \in 1..k - 1 : ps'[i] = ps[i]
      /\ ps'[k] = IF ps[k].pc = "load" THEN [ps[k] EXCEPT !.pc = "return"] ELSE ps[k]
  BY <1>3, <1>8, LoadFacts DEF ps
<1>10. ps[k] \in FrameType /\ k \in Nat
  BY <1>1, <1>9 DEF Core, TypeOK, ps, Circle
<1>11. /\ ps'[k].pc = IF ps[k].pc = "load" THEN "return" ELSE "entry"
       /\ ps'[k].ret = ps[k].ret /\ ps'[k].pc \notin Body
       /\ ps'[k].pc \notin {"skip", "save", "load", "user"} \cup Stale \cup Torn
  BY <1>9, <1>10, Resumed
<1>12. k = 1 => ps[1].pc = "entry" /\ ps'[1].pc = "entry"
  BY <1>1, <1>9, <1>11 DEF ItsStack, User
<1>13. k >= 2 => ps'[1] = ps[1] /\ ps[k].pc = "load" /\ ps'[k].pc = "return"
  BY <1>1, <1>9, <1>10, <1>11 DEF ItsStack, Body, Early, Stale, Torn
<1>14. ps'[1].pc = ps[1].pc
  BY <1>9, <1>10, <1>12, <1>13
<1>15. ItsStack'
  <2>1. ps'[1].pc \in User /\ Len(ps') >= 1
    BY <1>1, <1>9, <1>14 DEF ItsStack
  <2>2. \A i \in 2..Len(ps) : /\ ps'[i].pc \in Body \cup {"return"} /\ ps'[i].ret \in {"irq", "exit"}
                              /\ ps'[i].ret = "exit" => ps'[1].pc = "halt"
    <3> SUFFICES ASSUME NEW i \in 2..Len(ps)
                 PROVE  /\ ps'[i].pc \in Body \cup {"return"} /\ ps'[i].ret \in {"irq", "exit"}
                        /\ ps'[i].ret = "exit" => ps'[1].pc = "halt"
      OBVIOUS
    <3>1. /\ ps[i].pc \in Body \cup {"return"} /\ ps[i].ret \in {"irq", "exit"}
          /\ ps[i].ret = "exit" => ps[1].pc = "halt"
      BY <1>1 DEF ItsStack
    <3>2. CASE i = k
      <4>1. ps'[i].pc = "return" /\ ps'[i].ret = ps[i].ret
        BY <1>11, <1>13, <3>2
      <4> QED BY <1>14, <3>1, <4>1
    <3>3. CASE i # k
      <4>1. ps'[i] = ps[i]
        BY <1>9, <3>3
      <4> QED BY <1>14, <3>1, <4>1
    <3> QED BY <3>2, <3>3
  <2>3. \A i \in 2..Len(ps) - 1 : ps'[i].pc = "return"
    BY <1>1, <1>9, <1>10 DEF ItsStack
  <2> QED BY <1>9, <2>1, <2>2, <2>3 DEF ItsStack
<1>16. Clean => task[proc].state = "running" /\ ps[1].pc # "halt"
  <2> SUFFICES ASSUME Clean PROVE task[proc].state = "running" /\ ps[1].pc # "halt"
    OBVIOUS
  <2>1. Calm(Top)
    BY <1>1, <1>7 DEF Messed, Saved, Clean
  <2>2. task[proc].state = "running"
    BY <1>2, <2>1 DEF Calm, Torn
  <2> QED BY <1>1, <2>2 DEF Gone
<1>17. Gone'
  BY <1>3, <1>14, <1>16 DEF Gone, Clean
<1>18. Normal(ps[Len(ps)])' \/ (base' = "wait" /\ Zombie(ps[Len(ps)])')
  <2>1. CASE Calm(Top)
    <3>1. Switching(Top) /\ task[Boot].rsp = Rsp(Boot, Len(bs))
      BY <1>2, <2>1 DEF Calm, Torn
    <3>2. Steady(proc)'
      BY <1>2, <1>3, <3>1 DEF Switching, Steady
    <3>3. Normal(ps[Len(ps)])'
      BY <1>3, <1>4, <1>9, <1>11, <1>14, <1>16, <3>1, <3>2 DEF Normal, Clean
    <3> QED BY <3>3
  <2>2. CASE Len(bs) = 2 /\ Messed(Top) /\ Top.ret = "yield"
    <3>1. base = "wait" /\ "torn" \in hits /\ Poisoned
      BY <1>1, <1>6, <2>2 DEF Shape, Messed, Saved
    <3>2. Steady(Boot)
      BY <1>2, <2>2 DEF Messed, Steady
    <3>3. Steady(Boot)' /\ Poisoned'
      BY <1>2, <1>3, <3>1, <3>2 DEF Steady, Poisoned
    <3>4. Zombie(ps[Len(ps)])'
      BY <1>3, <1>9, <1>11, <3>1, <3>3 DEF Zombie
    <3> QED BY <1>4, <3>1, <3>4
  <2> QED BY <1>7, <2>1, <2>2
<1>19. OnProc'
  <2>1. /\ cpu'.on = proc' /\ Len(bs') >= 2 /\ bs'[Len(bs')].pc = "load"
    <3>1. Len(bs) >= 2
      BY <1>6
    <3> QED BY <1>2, <1>3, <1>4, <1>6, <3>1
  <2>2. Len(bs') = 3 => /\ bs'[2].pc \notin Torn /\ Outward(bs[2])'
                        /\ bs'[2].pc \in Stale => "stale" \in hits'
    <3>1. Len(bs) = 3 => bs[2].pc \notin Torn /\ Outward(bs[2]) /\ (bs[2].pc \in Stale => "stale" \in hits)
      <4>1. Len(bs) = 3 => Outward(bs[2]) /\ (bs[2].pc \in Stale => "stale" \in hits)
        BY DEF OnBoot
      <4>2. Len(bs) = 3 => bs[2].pc \notin Torn
        BY <1>7
      <4> QED BY <4>1, <4>2
    <3> QED BY <1>3, <1>4, <1>9, <3>1 DEF Outward
  <2>3. ps'[Len(ps')].pc \notin Body /\ ps'[Len(ps')].pc # "user"
    BY <1>9, <1>11
  <2> QED BY <1>18, <2>1, <2>2, <2>3 DEF OnProc
<1>20. Shape'
  BY <1>1, <1>4 DEF Shape
<1>21. Paired'
  BY <1>1, <1>3, <1>4, <1>15, <1>17, <1>19 DEF Paired
<1> QED BY <1>2, <1>5, <1>20, <1>21 DEF Core

\* The process switches to the shell.
LEMMA LoadShell ==
  ASSUME Core, Linked, OnProc, Load
  PROVE  Core' /\ fate' = fate /\ hits' = hits
<1>1. Shape /\ Circle /\ Paired /\ ItsStack /\ Gone /\ cpu.on = proc
  BY CircleFacts DEF Core, OnProc, Paired
<1>2. Top = ps[Len(ps)] /\ Len(ps) \in Nat /\ Len(ps) >= 1
  BY <1>1, Running DEF ps
<1>3. Top.pc = "load" /\ Top.rsi.on = Top.next
  BY LoadFacts
<1>4. Normal(Top)
  <2>1. ~Zombie(Top)
    BY <1>3 DEF Zombie, Torn
  <2> QED BY <1>2, <2>1 DEF OnProc
<1>5. /\ Top.next = Boot /\ Top.rsi = Rsp(Boot, Len(bs)) /\ task[proc].next = Boot
      /\ task[proc].rsp = Rsp(proc, Len(ps)) /\ Switching(Top)
  BY <1>3, <1>4 DEF Normal, Torn
<1>6. Top.rsi.depth = Len(bs)
  BY <1>5 DEF Rsp
<1>7. /\ TypeOK' /\ UNCHANGED <<mem, hits, fate>>
      /\ cpu'.on = Boot /\ cpu'.cr3 = cpu.cr3 /\ cpu'.rsp0 = cpu.rsp0 /\ cpu'.intr = cpu.intr
  BY <1>5, LoadFacts
<1>8. /\ task' = task /\ current' = current /\ proc' = proc /\ hits' = hits
  BY <1>7 DEF mem
<1>9. ps' = ps
  BY <1>1, <1>5, <1>8, LoadFacts DEF ps, Circle
<1> DEFINE k == Len(bs)
<1>10. /\ k \in 1..Len(bs) /\ bs[k].pc \in {"load", "entry"} /\ Len(bs') = k
       /\ \A i \in 1..k - 1 : bs'[i] = bs[i]
       /\ bs'[k] = IF bs[k].pc = "load" THEN [bs[k] EXCEPT !.pc = "return"] ELSE bs[k]
  BY <1>5, <1>6, LoadFacts DEF bs
<1>11. bs[k] \in FrameType /\ k \in {2, 3} /\ bs[k].pc = "load"
  <2>1. bs[k] \in FrameType
    BY <1>1, <1>10 DEF Core, TypeOK, bs, Circle
  <2>2. k \in {2, 3} /\ bs[k].pc = "load"
    BY <1>1 DEF Shape, OnProc
  <2> QED BY <2>1, <2>2
<1>12. /\ bs'[k].pc = "return" /\ bs'[k].ret = bs[k].ret /\ bs'[k].pc \notin Body
       /\ bs'[k].pc \notin {"skip", "save", "load", "user"} \cup Stale \cup Torn
  BY <1>10, <1>11, Resumed
<1>13. bs'[1] = bs[1] /\ base' = base
  <2>1. 1 \in 1..k - 1
    BY <1>11
  <2> QED BY <1>10, <2>1 DEF base
<1>14. Live' /\ Links' /\ (Linked' <=> Linked)
  BY <1>7, <1>13, QuietOuter
<1>15. Len(bs) = 3 => bs'[2] = bs[2]
  BY <1>10
<1>16. Shape'
  <2>1. CASE Len(bs) = 2
    BY <1>1, <1>10, <1>12, <1>13, <2>1 DEF Shape
  <2>2. CASE Len(bs) = 3
    BY <1>1, <1>10, <1>12, <1>13, <1>15, <2>2 DEF Shape
  <2> QED BY <1>11, <2>1, <2>2
<1>17. ItsStack' /\ Gone'
  BY <1>1, <1>8, <1>9 DEF ItsStack, Gone, Clean
<1>18. Saved'
  <2>1. task[proc].rsp.on = proc /\ task[proc].rsp.depth = Len(ps)
    BY <1>5 DEF Rsp
  <2> QED BY <1>2, <1>3, <1>5, <1>8, <1>9, <2>1 DEF Saved, Poisoned
<1>19. ~cpu'.intr
  BY <1>2, <1>3, <1>7 DEF OnProc, Body, Torn
<1>20. Steady(Boot)'
  BY <1>3, <1>5, <1>7, <1>8 DEF Switching, Steady
<1>21. Calm(bs[Len(bs)])'
  BY <1>8, <1>10, <1>12, <1>20 DEF Calm, Outward
<1>22. OnBoot'
  <2>1. CASE Len(bs) = 2
    <3>1. cpu'.on = Boot /\ Len(bs') = 2 /\ Calm(bs[2])'
      BY <1>7, <1>10, <1>21, <2>1
    <3> QED BY <1>18, <1>19, <3>1, OnBootTwo
  <2>2. CASE Len(bs) = 3
    <3>1. /\ bs[2].pc \notin Torn /\ Outward(bs[2]) /\ (bs[2].pc \in Stale => "stale" \in hits)
      BY <2>2 DEF OnProc
    <3>2. /\ bs'[2].pc \notin Torn /\ Outward(bs[2])' /\ (bs'[2].pc \in Stale => "stale" \in hits')
      BY <1>8, <1>9, <1>15, <2>2, <3>1 DEF Outward
    <3>3. Len(bs') = 3 /\ Calm(bs[3])'
      BY <1>10, <1>21, <2>2
    <3> QED BY <1>7, <1>18, <1>19, <3>2, <3>3, OnBootThree
  <2> QED BY <1>11, <2>1, <2>2
<1>23. Paired'
  BY <1>1, <1>8, <1>10, <1>13, <1>17, <1>22 DEF Paired
<1> QED BY <1>7, <1>14, <1>16, <1>23 DEF Core

\* A tick inside yield's switch comes back to the shell: to yield's own frame if that had
\* saved its stack pointer, otherwise to itself if an older one happens to name its place.
LEMMA LoadUndoing ==
  ASSUME Core, Linked, OnBoot, Load, Len(bs) = 3, bs[2].pc \in Torn, "torn" \in hits,
         base = "wait", Undoing(Top)
  PROVE  Core' /\ fate' = fate /\ hits' = hits
<1>1. Shape /\ Circle /\ Paired /\ Saved /\ ItsStack /\ Gone /\ cpu.on = Boot /\ ~cpu.intr /\ Outward(bs[2])
  BY CircleFacts DEF Core, OnBoot, Paired
<1>2. Top = bs[3] /\ Top.pc = "load" /\ Top.next = Boot
  <2>1. Top = bs[Len(bs)]
    BY <1>1, Running DEF bs
  <2> QED BY <2>1, LoadFacts DEF Undoing, Torn
<1>3. Steady(Boot) /\ Poisoned
  BY <1>2 DEF Undoing, Steady, Torn
<1>4. /\ TypeOK' /\ UNCHANGED <<mem, hits, fate>>
      /\ cpu'.on = Boot /\ cpu'.cr3 = cpu.cr3 /\ cpu'.rsp0 = cpu.rsp0 /\ cpu'.intr = cpu.intr
  BY <1>2, LoadFacts
<1>5. /\ task' = task /\ current' = current /\ proc' = proc /\ hits' = hits
  BY <1>4 DEF mem
<1>6. ps' = ps
  BY <1>1, <1>2, <1>5, LoadFacts DEF ps, Circle
<1>7. Steady(Boot)' /\ Poisoned' /\ ~cpu'.intr
  BY <1>1, <1>3, <1>4, <1>5 DEF Steady, Poisoned
<1> DEFINE k == Top.rsi.depth
<1>8. /\ k \in 1..3 /\ bs[k].pc \in {"load", "entry"} /\ Len(bs') = k
      /\ \A i \in 1..k - 1 : bs'[i] = bs[i]
      /\ bs'[k] = IF bs[k].pc = "load" THEN [bs[k] EXCEPT !.pc = "return"] ELSE bs[k]
  <2>1. stack[Top.next] = bs /\ stack'[Top.next] = bs'
    BY <1>2 DEF bs
  <2>2. 1..Len(bs) = 1..3
    OBVIOUS
  <2> QED BY <2>1, <2>2, LoadFacts
<1>9. k \in {2, 3} /\ bs[k].pc = "load" /\ bs[k] \in FrameType
  <2>1. k # 1
    BY <1>1, <1>8 DEF Shape, base, Shell
  <2>2. bs[k].pc # "entry"
    BY <1>1, <1>8, <2>1 DEF Shape, Body, Early, Stale, Torn
  <2>3. bs[k] \in FrameType
    <3>1. bs \in Seq(FrameType)
      BY <1>1 DEF Core, TypeOK, bs, Circle
    <3>2. k \in 1..Len(bs)
      BY <1>8
    <3> HIDE DEF k
    <3> QED BY <3>1, <3>2, FrameAt
  <2> QED BY <1>8, <2>1, <2>2, <2>3
<1>10. /\ bs'[k].pc = "return" /\ bs'[k].ret = bs[k].ret /\ bs'[k].pc \notin Body
       /\ bs'[k].pc \notin {"skip", "save", "load", "user"} \cup Stale \cup Torn
  BY <1>8, <1>9, Resumed
<1>11. bs'[1] = bs[1] /\ base' = base
  BY <1>8, <1>9 DEF base
<1>12. Live' /\ Links' /\ (Linked' <=> Linked)
  BY <1>4, <1>11, QuietOuter
<1>13. ItsStack' /\ Gone' /\ Saved'
  BY <1>1, <1>5, <1>6 DEF ItsStack, Gone, Saved, Clean, Poisoned
<1>14. Shape' /\ OnBoot'
  <2>1. CASE k = 2
    <3>1. Len(bs') = 2 /\ bs'[2].pc = "return" /\ bs'[2].ret = "yield" /\ Shape'
      BY <1>1, <1>8, <1>10, <1>11, <2>1 DEF Shape
    <3>2. Calm(bs[2])'
      BY <1>5, <1>7, <1>10, <2>1 DEF Calm, Outward
    <3>3. cpu'.on = Boot /\ ~cpu'.intr /\ Saved' /\ Len(bs') = 2
      BY <1>4, <1>7, <1>13, <3>1
    <3>4. OnBoot'
      BY <3>2, <3>3, OnBootTwo
    <3> QED BY <3>1, <3>4
  <2>2. CASE k = 3
    <3>1. Len(bs') = 3 /\ bs'[3].pc = "return" /\ bs'[2] = bs[2]
      <4>1. 2 \in 1..k - 1
        BY <2>2
      <4>2. bs'[2] = bs[2]
        BY <1>8, <4>1
      <4> QED BY <1>8, <1>10, <2>2, <4>2
    <3>2. Shape'
      BY <1>1, <1>10, <1>11, <2>2, <3>1 DEF Shape
    <3>3. Outward(bs[2])' /\ bs'[2].pc \in Torn /\ "torn" \in hits' /\ bs'[2].pc \notin Stale
      BY <1>1, <1>5, <1>6, <3>1 DEF Outward, Torn, Stale
    <3>4. cpu'.on = Boot /\ ~cpu'.intr /\ Saved' /\ Len(bs') = 3
      BY <1>4, <1>7, <1>13, <3>1
    <3>5. OnBoot'
      BY <1>7, <3>1, <3>3, <3>4, OnBootThree
    <3> QED BY <3>2, <3>5
  <2> QED BY <1>9, <2>1, <2>2
<1>15. Paired'
  BY <1>1, <1>11, <1>13, <1>14 DEF Paired
<1> QED BY <1>4, <1>12, <1>14, <1>15 DEF Core

\* The switch of stacks keeps Core.
LEMMA LoadCore ==
  ASSUME Core, Load
  PROVE  Core' /\ fate' = fate /\ hits' = hits
<1>0. Top.pc = "load" /\ Top.rsi.on = Top.next
  BY LoadFacts
<1>1. CASE ~Linked
  <2>1. Alone /\ Shape
    BY <1>1 DEF Core
  <2>2. Top = bs[Len(bs)] /\ Len(bs) \in {1, 2}
    BY <1>1, AloneTop
  <2> QED BY <1>0, <2>1, <2>2 DEF Alone, Shape, base, Shell, Early
<1>2. CASE Linked /\ OnBoot
  <2>1. Shape /\ Circle /\ cpu.on = Boot
    BY <1>2, CircleFacts DEF Core, OnBoot
  <2>2. Top = bs[Len(bs)] /\ Len(bs) \in {1, 2, 3}
    BY <2>1, Running DEF Shape, bs
  <2>3. Len(bs) \in {2, 3}
    BY <1>0, <2>1, <2>2 DEF Shape, base, Shell
  <2>4. CASE Top.next = proc
    BY <1>2, <2>4, LoadProc
  <2>5. CASE Top.next # proc
    <3>1. ~Calm(Top) /\ ~Messed(Top) /\ ~Again(Top, bs[2])
      BY <1>0, <2>5 DEF Calm, Messed, Again, Outward, Torn
    <3> QED BY <1>0, <1>2, <2>3, <3>1, BootFrames, LoadUndoing
  <2> QED BY <2>4, <2>5
<1>3. CASE Linked /\ OnProc
  BY <1>3, LoadShell
<1> QED BY <1>1, <1>2, <1>3, CircleFacts DEF Paired

-----------------------------------------------------------------------------
\* Going astray has a reason.
LEMMA AstrayExplained ==
  ASSUME Core, Astray
  PROVE  hits \cap {"append", "torn", "memory"} # {}
<1>1. CASE ~Linked
  <2>1. Alone /\ Shape /\ Live
    BY <1>1 DEF Core
  <2>2. Top = bs[Len(bs)] /\ Len(bs) \in {1, 2}
    BY <1>1, AloneTop
  <2>3. Len(bs) = 2 /\ Top = bs[2] /\ Top.pc = "skip" /\ Top.next \notin alive
    BY <2>1, <2>2 DEF Astray, Alone, Shape, base, Shell, Early, Valid
  <2>4. base # "init" /\ (Top.next = Boot \/ (base = "reap" /\ Top.next = proc))
    BY <2>1, <2>3 DEF Alone
  <2> QED BY <2>1, <2>3, <2>4 DEF Live, HasProc
<1>2. CASE Linked /\ OnBoot
  <2>1. Shape /\ Circle /\ Saved /\ cpu.on = Boot /\ alive = {Boot, proc}
    BY <1>2, CircleFacts DEF Core, OnBoot
  <2>2. Top = bs[Len(bs)] /\ Len(bs) \in {1, 2, 3}
    BY <2>1, Running DEF Shape, bs
  <2>3. Len(bs) \in {2, 3}
    BY <2>1, <2>2 DEF Astray, Shape, base, Shell
  <2>4. CASE Calm(Top)
    <3>1. Outward(Top)
      BY <2>4 DEF Calm
    <3>2. Top.pc # "skip"
      BY <2>1, <3>1 DEF Outward, Astray, Valid
    <3>3. Top.pc = "load" /\ Top.next = proc /\ ~Resumable(proc, Top.rsi)
      BY <3>1, <3>2 DEF Outward, Astray, Torn
    <3>4. CASE Top.rsi.on = proc
      <4>1. Top.rsi.depth = Len(ps)
        BY <3>1, <3>3, <3>4 DEF Outward
      <4>2. Len(ps) >= 1 /\ ps \in Seq(FrameType)
        BY <1>2, <2>1, CircleFacts DEF Paired, ItsStack, Core, TypeOK, ps, Circle
      <4>3. Len(ps) \in 1..Len(ps) /\ ps[Len(ps)].pc \in {"load", "entry"}
        BY <2>1, <4>2 DEF Saved
      <4> QED BY <3>3, <3>4, <4>1, <4>3 DEF Resumable, ps
    <3>5. CASE Top.rsi.on # proc
      BY <2>4, <3>3, <3>5 DEF Calm
    <3> QED BY <3>4, <3>5
  <2>5. CASE Messed(Top)
    BY <2>1, <2>5 DEF Messed, Saved
  <2> QED BY <1>2, <2>3, <2>4, <2>5, BootFrames
<1>3. CASE Linked /\ OnProc
  <2>1. Shape /\ Circle /\ Paired /\ cpu.on = proc /\ alive = {Boot, proc}
    BY <1>3, CircleFacts DEF Core, OnProc
  <2>2. Top = ps[Len(ps)]
    BY <2>1, Running DEF ps
  <2>3. CASE Zombie(Top)
    BY <2>3 DEF Zombie
  <2>4. CASE Normal(Top)
    <3>1. CASE Top.pc = "skip"
      <4>1. task[proc].next # Boot
        BY <2>1, <2>4, <3>1 DEF Normal, Astray, Valid
      <4>2. base = "close"
        BY <1>3, <4>1, CircleFacts DEF Linked
      <4> QED BY <1>3, <2>1, <4>2 DEF Paired, OnProc
    <3>2. CASE Top.pc = "load"
      <4>1. Top.next = Boot /\ Top.rsi = Rsp(Boot, Len(bs)) /\ ~Resumable(Boot, Top.rsi)
        BY <2>4, <3>2 DEF Normal, Astray, Torn
      <4>2. Len(bs) \in 1..Len(bs) /\ bs[Len(bs)].pc = "load"
        <5>1. Len(bs) \in 1..Len(bs)
          BY <2>1, ShapeLength
        <5> QED BY <1>3, <5>1 DEF OnProc
      <4> QED BY <4>1, <4>2 DEF Resumable, Rsp, bs
    <3> QED BY <3>1, <3>2 DEF Astray
  <2> QED BY <1>3, <2>2, <2>3, <2>4 DEF OnProc
<1> QED BY <1>1, <1>2, <1>3, CircleFacts DEF Paired

=============================================================================
