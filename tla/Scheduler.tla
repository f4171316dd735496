------------------------------ MODULE Scheduler ------------------------------
(***************************************************************************)
(* The task scheduler, kernel/sched: the circular run queue, schedule()    *)
(* and context_switch, driven by the timer interrupt, by cmd_run's yield   *)
(* loop and by SYS_EXIT, on one CPU.                                       *)
(*                                                                         *)
(* A task is its struct task and its kernel stack, a sequence of frames.   *)
(* The bottom frame is the task's own code: the shell for Boot, Ring 3 for *)
(* a process.  Each activation of schedule() is a frame above it, with the *)
(* locals of sched.c and the way it was entered.  The timer may push one   *)
(* between any two steps while interrupts are on.  context_switch saves no *)
(* flags, so a task resumes with the interrupt flag of the one it replaces.*)
(*                                                                         *)
(* Undefined behaviour (a garbage pointer followed, a stack pointer loaded *)
(* that no longer names a suspended frame) ends the run in fate "lost".    *)
(* The ghost hits names the windows a tick has landed in; the invariants   *)
(* below say that nothing goes wrong outside these windows.                *)
(***************************************************************************)
EXTENDS Integers, Sequences

CONSTANTS
  Boot,      \* the boot context's task: the shell, and task_list
  Procs,     \* addresses kmalloc may return for a process's struct task
  NULL,
  Junk,      \* what an uninitialised pointer holds
  MaxDepth   \* bound: frames on one kernel stack (16 KB in the code)

ASSUME TasksAssumption ==
  /\ Boot \notin Procs /\ {NULL, Junk} \cap (Procs \cup {Boot}) = {} /\ NULL # Junk
  /\ MaxDepth \in Nat /\ MaxDepth >= 3

Tasks == {Boot} \cup Procs

VARIABLES
  current,  \* the scheduler's idea of who is running
  task,     \* struct task: state, next and the saved rsp
  alive,    \* task structs and kernel stacks that are allocated
  spaces,   \* tasks whose address space exists
  proc,     \* cmd_run's local
  stack,    \* each task's kernel stack, innermost frame last
  cpu,      \* whose stack rsp is in, the interrupt flag, CR3 and TSS.rsp0
  hits,     \* ghost: the windows a tick has landed in, and "memory" if it ran out
  fate      \* "up", "halted" by isr_handler, or "lost"

vars == <<current, task, alive, spaces, proc, stack, cpu, hits, fate>>
mem == <<current, task, alive, spaces, proc>>

-----------------------------------------------------------------------------
\* Saved stack pointers: the stack and how many of its frames are below rsp.
Rsp(t, n) == [on |-> t, depth |-> n]
Frame(pc, ret, r) == [pc |-> pc, ret |-> ret, prev |-> NULL, next |-> NULL, rsi |-> r]
Base(pc) == Frame(pc, "none", Rsp(Junk, 0))
Call(ret) == Frame("enter", ret, Rsp(Junk, 0))

Depth == Len(stack[cpu.on])
Top == stack[cpu.on][Depth]
At(pc) == fate = "up" /\ Top.pc = pc
SetTop(f) == stack' = [stack EXCEPT ![cpu.on][Depth] = f]
Goto(pc) == SetTop([Top EXCEPT !.pc = pc])
Lose == fate' = "lost" /\ UNCHANGED <<mem, stack, cpu, hits>>

\* A task struct that may be dereferenced.
Valid(t) == t \in alive

Init ==
  /\ current = NULL /\ proc = NULL /\ hits = {} /\ fate = "up"
  /\ task = [t \in Tasks |-> [state |-> "ready", next |-> Junk, rsp |-> Rsp(Junk, 0)]]
  /\ alive = {} /\ spaces = {Boot}
  /\ stack = [t \in Tasks |-> IF t = Boot THEN <<Base("init")>> ELSE <<>>]
  /\ cpu = [on |-> Boot, intr |-> TRUE, cr3 |-> Boot, rsp0 |-> Boot]

-----------------------------------------------------------------------------
\* schedule(), one action per access to shared state.

\* A return from schedule(): from the timer's call through iretq, which turns
\* interrupts back on; from yield or task_exit with the flag as it stands.
Return ==
  /\ stack' = [stack EXCEPT ![cpu.on] = SubSeq(@, 1, Depth - 1)]
  /\ cpu' = IF Top.ret = "irq" THEN [cpu EXCEPT !.intr = TRUE] ELSE cpu
  /\ UNCHANGED <<mem, hits, fate>>

ReadCurrent ==
  /\ At("enter")
  /\ IF current = NULL THEN Return
     ELSE /\ SetTop([Top EXCEPT !.pc = "follow", !.prev = current])
          /\ UNCHANGED <<mem, cpu, hits, fate>>

ReadNext ==
  /\ At("follow")
  /\ SetTop([Top EXCEPT !.pc = "skip", !.next = task[Top.prev].next])
  /\ UNCHANGED <<mem, cpu, hits, fate>>

\* Mutant of SkipDone: finished tasks are not skipped.
NoSkip ==
  /\ At("skip")
  /\ IF ~Valid(Top.next) THEN Lose
     ELSE IF Top.next = Top.prev THEN Return
     ELSE Goto("demote") /\ UNCHANGED <<mem, cpu, hits, fate>>

\* One turn of the loop over finished tasks, and the test after it.
SkipDone ==
  /\ At("skip")
  /\ IF ~Valid(Top.next) THEN Lose
     ELSE IF Top.next = Top.prev THEN Return
     ELSE /\ IF task[Top.next].state = "done"
               THEN SetTop([Top EXCEPT !.next = task[Top.next].next])
               ELSE Goto("demote")
          /\ UNCHANGED <<mem, cpu, hits, fate>>

DemotePrev ==
  /\ At("demote") /\ Goto("promote")
  /\ task' = IF task[Top.prev].state = "running"
               THEN [task EXCEPT ![Top.prev].state = "ready"] ELSE task
  /\ UNCHANGED <<current, alive, spaces, proc, cpu, hits, fate>>

PromoteNext ==
  /\ At("promote") /\ Goto("current")
  /\ task' = [task EXCEPT ![Top.next].state = "running"]
  /\ UNCHANGED <<current, alive, spaces, proc, cpu, hits, fate>>

SetCurrent ==
  /\ At("current") /\ Goto("cr3")
  /\ current' = Top.next
  /\ UNCHANGED <<task, alive, spaces, proc, cpu, hits, fate>>

\* Every task has a page table of its own, so the test at 141 is next # prev.
SwitchSpace ==
  /\ At("cr3") /\ Goto("rsp0")
  /\ cpu' = [cpu EXCEPT !.cr3 = Top.next]
  /\ UNCHANGED <<mem, hits, fate>>

\* Mutant of SetRsp0: the TSS keeps the previous task's stack.
KeepRsp0 == At("rsp0") /\ Goto("args") /\ UNCHANGED <<mem, cpu, hits, fate>>

SetRsp0 ==
  /\ At("rsp0") /\ Goto("args")
  /\ cpu' = [cpu EXCEPT !.rsp0 = Top.next]
  /\ UNCHANGED <<mem, hits, fate>>

ReadRsp ==
  /\ At("args")
  /\ SetTop([Top EXCEPT !.pc = "save", !.rsi = task[Top.next].rsp])
  /\ UNCHANGED <<mem, cpu, hits, fate>>

SaveRsp ==
  /\ At("save") /\ Goto("load")
  /\ task' = [task EXCEPT ![Top.prev].rsp = Rsp(cpu.on, Depth)]
  /\ UNCHANGED <<current, alive, spaces, proc, cpu, hits, fate>>

\* Does r still name a frame suspended in context_switch, or a fresh task's,
\* on next's own stack?  Only a tick inside the switch ("torn") can leave a pointer to
\* a frame returned from; if another was suspended at its depth since, that one counts.
Resumable(t, r) ==
  /\ r.on = t /\ r.depth \in 1..Len(stack[t])
  /\ stack[t][r.depth].pc \in {"load", "entry"}

Resume(s) ==
  IF s[Len(s)].pc = "load" THEN [s EXCEPT ![Len(s)].pc = "return"] ELSE s

LoadRsp ==
  /\ At("load")
  /\ IF ~Resumable(Top.next, Top.rsi) THEN Lose
     ELSE /\ stack' = [stack EXCEPT ![Top.next] = Resume(SubSeq(@, 1, Top.rsi.depth))]
          /\ cpu' = [cpu EXCEPT !.on = Top.next]
          /\ UNCHANGED <<mem, hits, fate>>

ReturnFromSwitch == At("return") /\ Return

schedule ==
  \/ ReadCurrent \/ ReadNext \/ SkipDone \/ DemotePrev \/ PromoteNext \/ SetCurrent
  \/ SwitchSpace \/ SetRsp0 \/ ReadRsp \/ SaveRsp \/ LoadRsp \/ ReturnFromSwitch

-----------------------------------------------------------------------------
\* The boot context: sched_init, then the shell's cmd_run for ever.

\* Ticks before its last line find current NULL, so it is one step.
sched_init ==
  /\ At("init") /\ Goto("idle")
  /\ task' = [task EXCEPT ![Boot] = [state |-> "running", next |-> Boot, rsp |-> Rsp(Junk, 0)]]
  /\ alive' = {Boot} /\ current' = Boot
  /\ UNCHANGED <<spaces, proc, cpu, hits, fate>>

\* cmd_run up to the append of task_create_user: the address space is built, the
\* stack primed so that context_switch returns into user_entry_trampoline, and
\* next is what the heap block held: an old struct's link, or anything.  An attempt
\* that fails earlier (no file, no buffer, a bad image) changes nothing here.  The
\* two allocations for the task itself are not tested: their failure is a NULL written to.
cmd_run ==
  /\ At("idle") /\ UNCHANGED <<current, cpu>>
  /\ \/ fate' = "lost" /\ hits' = hits \cup {"memory"} /\ UNCHANGED <<task, alive, spaces, proc, stack>>
     \/ \E t \in Procs \ alive, old \in {Boot, Junk} :
          /\ task' = [task EXCEPT ![t] = [state |-> "ready", next |-> old, rsp |-> Rsp(t, 1)]]
          /\ alive' = alive \cup {t} /\ spaces' = spaces \cup {t} /\ proc' = t
          /\ stack' = [stack EXCEPT ![t] = <<Base("entry")>>, ![Boot] = <<Base("link")>>]
          /\ UNCHANGED <<hits, fate>>

\* Mutants of LinkTask and CloseCircle: the write is missing.
NoLink == At("link") /\ Goto("close") /\ UNCHANGED <<mem, cpu, hits, fate>>
NoClose == At("close") /\ Goto("wait") /\ UNCHANGED <<mem, cpu, hits, fate>>

\* The walk stops at the last task of the circle.
LinkTask ==
  /\ At("link") /\ Goto("close")
  /\ LET p == CHOOSE t \in alive \ {proc} : task[t].next = Boot
     IN task' = [task EXCEPT ![p].next = proc]
  /\ UNCHANGED <<current, alive, spaces, proc, cpu, hits, fate>>

CloseCircle ==
  /\ At("close") /\ Goto("wait")
  /\ task' = [task EXCEPT ![proc].next = Boot]
  /\ UNCHANGED <<current, alive, spaces, proc, cpu, hits, fate>>

\* Mutant of WaitDone: the state is read once, before the loop.
WaitCached ==
  /\ At("wait")
  /\ stack' = [stack EXCEPT ![cpu.on] = Append(@, Call("yield"))]
  /\ UNCHANGED <<mem, cpu, hits, fate>>

\* while (proc->state != TASK_DONE) yield();
WaitDone ==
  /\ At("wait")
  /\ IF task[proc].state = "done" THEN Goto("reap")
     ELSE stack' = [stack EXCEPT ![cpu.on] = Append(@, Call("yield"))]
  /\ UNCHANGED <<mem, cpu, hits, fate>>

\* Mutants of Splice: the task stays linked; the sti is missing.
SpliceNothing ==
  /\ At("reap") /\ Goto("destroy")
  /\ cpu' = [cpu EXCEPT !.intr = TRUE]
  /\ UNCHANGED <<mem, hits, fate>>
SpliceNoSti ==
  /\ At("reap") /\ Goto("destroy")
  /\ task' = [t \in Tasks |-> IF t \in alive /\ task[t].next = proc
                                THEN [task[t] EXCEPT !.next = task[proc].next] ELSE task[t]]
  /\ cpu' = [cpu EXCEPT !.intr = FALSE]
  /\ UNCHANGED <<current, alive, spaces, proc, hits, fate>>

\* task_reap's splice between cli and sti.
Splice ==
  /\ At("reap") /\ Goto("destroy")
  /\ task' = [t \in Tasks |-> IF t \in alive /\ task[t].next = proc
                                THEN [task[t] EXCEPT !.next = task[proc].next] ELSE task[t]]
  /\ cpu' = [cpu EXCEPT !.intr = TRUE]
  /\ UNCHANGED <<current, alive, spaces, proc, hits, fate>>

DestroySpace ==
  /\ At("destroy") /\ Goto("free")
  /\ spaces' = spaces \ {proc}
  /\ UNCHANGED <<current, task, alive, proc, cpu, hits, fate>>

FreeTask ==
  /\ At("free")
  /\ alive' = alive \ {proc} /\ proc' = NULL
  /\ stack' = [stack EXCEPT ![proc] = <<>>, ![Boot] = <<Base("idle")>>]
  /\ UNCHANGED <<current, task, spaces, cpu, hits, fate>>

task_reap == Splice \/ DestroySpace \/ FreeTask

-----------------------------------------------------------------------------
\* A process: the trampoline's iretq, then Ring 3 until SYS_EXIT or a fault.

user_entry_trampoline ==
  /\ At("entry") /\ Goto("user")
  /\ cpu' = [cpu EXCEPT !.intr = TRUE]
  /\ UNCHANGED <<mem, hits, fate>>

\* int 0x80 enters through an interrupt gate on TSS.rsp0's stack.
task_exit ==
  /\ At("user")
  /\ IF cpu.rsp0 # cpu.on THEN Lose
     ELSE /\ task' = [task EXCEPT ![current].state = "done"]
          /\ stack' = [stack EXCEPT ![cpu.on] = <<Base("halt"), Call("exit")>>]
          /\ cpu' = [cpu EXCEPT !.intr = FALSE]
          /\ UNCHANGED <<current, alive, spaces, proc, hits, fate>>

\* A fault in Ring 3 stops the whole system.
isr_handler ==
  /\ At("user")
  /\ fate' = "halted" /\ cpu' = [cpu EXCEPT !.intr = FALSE]
  /\ UNCHANGED <<mem, stack, hits>>

\* The windows a tick can land in: between the two writes of the append, after
\* the skip test but before current is set, and after current is set but before
\* the stack has been switched.
Window(pc) ==
  CASE pc = "close" -> {"append"}
    [] pc \in {"demote", "promote", "current"} -> {"stale"}
    [] pc \in {"cr3", "rsp0", "args", "save", "load"} -> {"torn"}
    [] OTHER -> {}

\* The timer interrupt: EOI, then schedule(), with interrupts off.
Tick ==
  /\ fate = "up" /\ cpu.intr /\ Depth < MaxDepth
  /\ IF Top.pc = "user" /\ cpu.rsp0 # cpu.on THEN Lose
     ELSE /\ stack' = [stack EXCEPT ![cpu.on] = Append(@, Call("irq"))]
          /\ cpu' = [cpu EXCEPT !.intr = FALSE]
          /\ hits' = hits \cup Window(Top.pc)
          /\ UNCHANGED <<mem, fate>>

-----------------------------------------------------------------------------
KernelStep ==
  schedule \/ LinkTask \/ CloseCircle \/ WaitDone \/ task_reap
    \/ sched_init \/ user_entry_trampoline

Next == KernelStep \/ cmd_run \/ task_exit \/ isr_handler \/ Tick

\* The CPU executes the kernel code it is in; the PIT fires every 10 ms, which
\* is longer than the timer handler, so what a tick interrupts also advances.
\* Nothing makes a process exit or a user type run.
Fairness ==
  /\ WF_vars(KernelStep) /\ WF_vars(Tick)
  /\ SF_vars(KernelStep /\ Top.ret # "irq")

Spec == Init /\ [][Next]_vars /\ Fairness

-----------------------------------------------------------------------------
\* No garbage link is followed and no dead stack pointer loaded unless a tick landed between
\* the two writes of the append or inside the switch, or memory ran out in task_create_user.
LostExplained == fate = "lost" => hits \cap {"append", "torn", "memory"} # {}

\* The code after task_exit's schedule() is running.
Resurrected == At("halt")

\* A process that has exited is never switched to again, unless a tick landed
\* between yield's skip test and its switch.
ExitHolds == Resurrected => hits \cap {"stale", "torn"} # {}

\* In Ring 3 the scheduler, CR3 and TSS.rsp0 all name the running process, its
\* kernel stack is otherwise empty, interrupts are on and it counts as running
\* (ready, after a tick in the stale window).
RingThreeContext ==
  At("user") /\ "torn" \notin hits =>
    /\ current = cpu.on /\ cpu.cr3 = cpu.on /\ cpu.rsp0 = cpu.on /\ cpu.intr
    /\ Depth = 1
    /\ task[cpu.on].state = "running" \/ "stale" \in hits

\* task_reap frees nothing in use: neither the CPU, the scheduler nor the list
\* refers to a freed task, its stack or its address space.
NoDangling ==
  /\ cpu.cr3 \in spaces
  /\ current # NULL => {current, cpu.on} \subseteq alive
  /\ cpu.rsp0 \in alive \cup {Boot}
  /\ \A t \in alive : task[t].next \in alive \cup {Junk}

\* The prompt always sleeps with interrupts on, although yield may return to the
\* shell with them off: task_reap's sti restores them.
PromptAwake == At("idle") => cpu.intr

\* A process that is ready, just started or preempted, gets the CPU.
ReadyRuns ==
  \A t \in Procs : (t \in alive /\ task[t].state = "ready") ~> (cpu.on = t \/ fate # "up" \/ "torn" \in hits)

\* After a process exits its task is reaped and the prompt comes back.
PromptReturns ==
  \A t \in Procs : (t \in alive /\ task[t].state = "done")
                     ~> (At("idle") \/ fate # "up" \/ hits \cap {"stale", "torn"} # {})

-----------------------------------------------------------------------------
\* What the comments of sched.c say, for the runs that refute it.

\* task_exit: "switch away for good", "unreachable if others exist".
ExitIsForGood == ~Resurrected
=============================================================================
