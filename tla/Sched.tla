------------------------------- MODULE Sched -------------------------------
(***************************************************************************)
(* The preemptive scheduler of NaumiOS: kernel/sched/sched.c together with *)
(* the exception entry and return it relies on (exceptions.c, exceptions.S *)
(* and timer.c).                                                           *)
(*                                                                         *)
(* There is one core.  A handler entered through a vector runs with IRQs   *)
(* masked, so it is one atomic action here; task code at EL0 and kernel    *)
(* task code at EL1 run with IRQs open, so the timer IRQ may fall between  *)
(* any two actions of a task.                                              *)
(*                                                                         *)
(* Time is kept relative: wake_tick[t] is the number of ticks left until   *)
(* the absolute tick the code stores, and every timer IRQ takes one off.   *)
(* That is all wake_sleepers() can tell apart, and it leaves no counter to *)
(* bound.                                                                  *)
(***************************************************************************)
EXTENDS Naturals, Sequences, FiniteSets

CONSTANTS
  Kmain,        \* task0, pid 0: main.c's kmain, which never blocks or exits
  KernelTasks,  \* the other EL1 tasks: task_a, task_b, shell, compositor
  Compositor,   \* the one kernel task that calls sched_kill()
  UserTasks,    \* the EL0 processes there will ever be
  BootUsers,    \* those spawned by kmain before irq_enable()
  MayFault,     \* processes that may take an exception other than svc
  MaxSleep,     \* bound: the longest sleep asked for, in ticks
  None

ASSUME TaskAssumption ==
  /\ Compositor \in KernelTasks
  /\ Kmain \notin KernelTasks \cup UserTasks
  /\ KernelTasks \cap UserTasks = {}
  /\ None \notin KernelTasks \cup UserTasks \cup {Kmain}
  /\ BootUsers \subseteq UserTasks
  /\ MayFault \subseteq UserTasks

ASSUME SleepAssumption == MaxSleep \in Nat \ {0}

Task == {Kmain} \cup KernelTasks \cup UserTasks

\* The address space of a task: every kernel task runs in the kernel's own.
Space(t) == IF t \in UserTasks THEN t ELSE Kmain

NoWake == MaxSleep + 1      \* wake_tick == 0, "not asleep"

States == {"absent", "ready", "blocked", "zombie"}
Points == {"user", "kernel", "ksvc", "syscall", "halt", "unset"}
Levels == {"EL0", "EL1", "EL1masked"}

VARIABLES
  next,        \* round-robin order, the PCBs' `next` pointers
  state,       \* task_state_t, "absent" before the PCB exists
  wake_tick,   \* ticks left of a sleep, or NoWake
  deadline,    \* x0 of a kernel task about to trap for KSVC_SLEEP
  wq,          \* a wait_queue_t, as the sequence its links spell
  current,     \* the task the scheduler believes is running
  pcb,         \* saved context: sp, elr, spsr, sp_el0, as
  svc,         \* svc_handler()'s saved_elr and saved_spsr, on the task's stack
  cpu          \* the live machine: whose registers, pc, PSTATE, SP_EL0, TTBR0

vars == <<next, state, wake_tick, deadline, wq, current, pcb, svc, cpu>>

\* A PCB's context before anything has been saved in it.
Unset(as) == [sp |-> None, elr |-> "unset", spsr |-> "EL1", sp_el0 |-> None, as |-> as]

-----------------------------------------------------------------------------
\* Helpers: each is one C function, or the part of one that computes a value.

\* The n-th PCB after the current one.
Walk[n \in Nat] == IF n = 0 THEN current ELSE next[Walk[n - 1]]

\* The same walk, started at task0 instead of the running task.
WalkFromKmain[n \in Nat] == IF n = 0 THEN Kmain ELSE next[WalkFromKmain[n - 1]]

\* Round robin without the READY test.
pick_any(st, t) == t = next[current]

\* "First READY task", always counted from task0.
pick_first(st, t) ==
  /\ st[t] = "ready"
  /\ \E n \in 1 .. Cardinality(Task) :
       /\ WalkFromKmain[n] = t
       /\ \A m \in 1 .. n - 1 : st[WalkFromKmain[m]] # "ready"

\* t is the first READY task met when walking the ring from the current one.
pick_next(st, t) ==
  /\ st[t] = "ready"
  /\ \E n \in 1 .. Cardinality(Task) :
       /\ Walk[n] = t
       /\ \A m \in 1 .. n - 1 : st[Walk[m]] # "ready"

\* A switch that forgets vmm_switch().
restore_no_switch(p, t) ==
  [regs |-> p[t].sp, pc |-> p[t].elr, pstate |-> p[t].spsr,
   sp_el0 |-> p[t].sp_el0, ttbr0 |-> cpu.ttbr0]

\* restore_next(), vmm_switch() and the eret that follows: t's saved context
\* becomes the live one.
restore_next(p, t) ==
  [regs |-> p[t].sp, pc |-> p[t].elr, pstate |-> p[t].spsr,
   sp_el0 |-> p[t].sp_el0, ttbr0 |-> p[t].as]

\* The outgoing task's context as a trap taken at `pc`, PSTATE `level` saves it.
saved(pc, level) ==
  [pcb EXCEPT ![current] = [sp |-> cpu.regs, elr |-> pc, spsr |-> level,
                            sp_el0 |-> cpu.sp_el0, as |-> @.as]]

\* Leave the current task for the next READY one under the states st.
switch(st, p) ==
  \E t \in Task : /\ pick_next(st, t)
                  /\ current' = t
                  /\ cpu' = restore_next(p, t)

Unfloored(n) == IF n = NoWake THEN n ELSE n - 1

\* A tick counted off a deadline; one that has passed stays due.
OneLess(n) == IF n = 0 \/ n = NoWake THEN n ELSE n - 1

\* now == wake_tick, and a test that forgets the state.
due_exactly(t) == state[t] = "blocked" /\ wake_tick[t] = 1

due_any_state(t) == wake_tick[t] # NoWake /\ wake_tick[t] <= 1

\* The test of wake_sleepers(), read after timer_handle_irq() has counted the
\* tick: BLOCKED, asleep, and now >= wake_tick.
due(t) == state[t] = "blocked" /\ wake_tick[t] # NoWake /\ wake_tick[t] <= 1

\* The new PCB linked to itself: the rest of the ring is cut off.
link_self(t) == [next EXCEPT ![t] = t, ![current] = t]

\* alloc_task() links the new PCB right after the running task.
link(t) == [next EXCEPT ![t] = next[current], ![current] = t]

\* What task_create() and task_create_user() leave in a new PCB.
fresh(t) ==
  IF t \in UserTasks
  THEN [sp |-> t, elr |-> "user", spsr |-> "EL0", sp_el0 |-> t, as |-> t]
  ELSE [sp |-> t, elr |-> "kernel", spsr |-> "EL1", sp_el0 |-> None, as |-> Kmain]

create(t) ==
  /\ state[t] = "absent"
  /\ next' = link(t)
  /\ state' = [state EXCEPT ![t] = "ready"]
  /\ pcb' = [pcb EXCEPT ![t] = fresh(t)]
  /\ UNCHANGED <<wake_tick, deadline, wq, current, svc, cpu>>

-----------------------------------------------------------------------------
\* Boot: kmain creates its tasks with IRQs masked, then opens them.

booting == cpu.pc = "kernel" /\ cpu.pstate = "EL1masked"

\* kmain's task_create() and spawn_elf_bytes() calls.
BootCreate(t) == booting /\ create(t)

irq_enable ==
  /\ booting
  /\ \A t \in KernelTasks \cup BootUsers : state[t] # "absent"
  /\ cpu' = [cpu EXCEPT !.pstate = "EL1"]
  /\ UNCHANGED <<next, state, wake_tick, deadline, wq, current, pcb, svc>>

-----------------------------------------------------------------------------
\* The timer IRQ, taken from EL0 or from a kernel task.

sched_tick ==
  LET st == [t \in Task |-> IF due(t) THEN "ready" ELSE state[t]]
      p  == saved(cpu.pc, cpu.pstate)
  IN  /\ cpu.pstate # "EL1masked"
      /\ state' = st
      /\ wake_tick' = [t \in Task |-> IF due(t) THEN NoWake ELSE OneLess(wake_tick[t])]
      /\ deadline' = [t \in Task |-> OneLess(deadline[t])]
      /\ pcb' = p
      /\ switch(st, p)
      /\ UNCHANGED <<next, wq, svc>>

-----------------------------------------------------------------------------
\* A kernel task sleeps: sched_sleep_ticks() reads the clock with IRQs open
\* and traps later, so ticks may pass between the two.

sched_sleep_ticks(n) ==
  /\ cpu.pc = "kernel"
  /\ current \in KernelTasks
  /\ deadline' = [deadline EXCEPT ![current] = n]
  /\ cpu' = [cpu EXCEPT !.pc = "ksvc"]
  /\ UNCHANGED <<next, state, wake_tick, wq, current, pcb, svc>>

ksvc_sleep ==
  LET st == [state EXCEPT ![current] = "blocked"]
      p  == saved("kernel", cpu.pstate)
  IN  /\ cpu.pc = "ksvc"
      /\ state' = st
      /\ wake_tick' = [wake_tick EXCEPT ![current] = deadline[current]]
      /\ deadline' = [deadline EXCEPT ![current] = NoWake]
      /\ pcb' = p
      /\ switch(st, p)
      /\ UNCHANGED <<next, wq, svc>>

enqueue == Append(wq, current)

\* KSVC_BLOCK: append the caller to the queue's tail and switch away.
sched_block ==
  LET st == [state EXCEPT ![current] = "blocked"]
      p  == saved("kernel", cpu.pstate)
  IN  /\ cpu.pc = "kernel"
      /\ current \in KernelTasks
      /\ wq' = enqueue
      /\ state' = st
      /\ pcb' = p
      /\ switch(st, p)
      /\ UNCHANGED <<next, wake_tick, deadline, svc>>

\* The compositor closes a window: sched_kill() of the process that owns it.
sched_kill(t) ==
  /\ cpu.pc = "kernel"
  /\ current = Compositor
  /\ t \in UserTasks
  /\ state[t] # "absent"
  /\ state' = [state EXCEPT ![t] = "zombie"]
  /\ UNCHANGED <<next, wake_tick, deadline, wq, current, pcb, svc, cpu>>

-----------------------------------------------------------------------------
\* System calls of the running process, IRQs masked from svc to eret.

\* SYS_SLEEP_MS: svc_handler() keeps ELR/SPSR on the task's stack, and
\* sched_sleep_ticks() takes a second svc from inside it.
sys_sleep(n) ==
  LET st == [state EXCEPT ![current] = "blocked"]
      p  == saved("syscall", "EL1masked")
  IN  /\ cpu.pc = "user"
      /\ svc' = [svc EXCEPT ![current] = [elr |-> cpu.pc, spsr |-> cpu.pstate]]
      /\ state' = st
      /\ wake_tick' = [wake_tick EXCEPT ![current] = n]
      /\ pcb' = p
      /\ switch(st, p)
      /\ UNCHANGED <<next, deadline, wq>>

\* eret with the SPSR_EL1 the nested trap left behind.
eret_elr_only == [cpu EXCEPT !.pc = svc[cpu.regs].elr]

\* svc_handler()'s own restore of ELR_EL1 and SPSR_EL1, and the eret.
eret_syscall == [cpu EXCEPT !.pc = svc[cpu.regs].elr, !.pstate = svc[cpu.regs].spsr]

\* A sleeper picked again unwinds through svc_handler() to EL0.
svc_return ==
  /\ cpu.pc = "syscall"
  /\ cpu' = eret_syscall
  /\ UNCHANGED <<next, state, wake_tick, deadline, wq, current, pcb, svc>>

\* SYS_EXIT: ZOMBIE, and no save of the exiting task's context.
sched_exit_current ==
  LET st == [state EXCEPT ![current] = "zombie"]
  IN  /\ cpu.pc = "user"
      /\ state' = st
      /\ switch(st, pcb)
      /\ UNCHANGED <<next, wake_tick, deadline, wq, pcb, svc>>

\* SYS_SPAWN: the masked path of task creation (the shell's is module Spawn).
sys_spawn(t) == cpu.pc = "user" /\ t \in UserTasks /\ create(t)

\* sched_wake_one() and sched_wake_all(), called with IRQs masked.
sched_wake_one ==
  /\ cpu.pc = "user"
  /\ wq # <<>>
  /\ wq' = Tail(wq)
  /\ state' = [state EXCEPT ![Head(wq)] = "ready"]
  /\ UNCHANGED <<next, wake_tick, deadline, current, pcb, svc, cpu>>

wake_all_but_last == SubSeq(wq, Len(wq), Len(wq))

emptied == <<>>

sched_wake_all ==
  /\ cpu.pc = "user"
  /\ wq # <<>>
  /\ wq' = emptied
  /\ state' = [t \in Task |-> IF \E i \in DOMAIN wq : wq[i] = t THEN "ready" ELSE state[t]]
  /\ UNCHANGED <<next, wake_tick, deadline, current, pcb, svc, cpu>>

-----------------------------------------------------------------------------
\* Any other exception of a process ends in exc_handler()'s for (;;) wfi,
\* masked: the whole machine stays there.

exc_handler_halt ==
  /\ cpu.pc = "user"
  /\ current \in MayFault
  /\ cpu' = [cpu EXCEPT !.pc = "halt", !.pstate = "EL1masked"]
  /\ UNCHANGED <<next, state, wake_tick, deadline, wq, current, pcb, svc>>

halted == cpu.pc = "halt" /\ UNCHANGED vars

-----------------------------------------------------------------------------

\* sched_init(): only task0 exists, and it is what is running.
Init ==
  /\ next = [t \in Task |-> IF t = Kmain THEN Kmain ELSE None]
  /\ state = [t \in Task |-> IF t = Kmain THEN "ready" ELSE "absent"]
  /\ wake_tick = [t \in Task |-> NoWake]
  /\ deadline = [t \in Task |-> NoWake]
  /\ wq = <<>>
  /\ current = Kmain
  /\ pcb = [t \in Task |-> Unset(IF t = Kmain THEN Kmain ELSE None)]
  /\ svc = [t \in Task |-> [elr |-> "unset", spsr |-> "EL1"]]
  /\ cpu = [regs |-> Kmain, pc |-> "kernel", pstate |-> "EL1masked", sp_el0 |-> None, ttbr0 |-> Kmain]

Next ==
  \/ \E t \in KernelTasks \cup BootUsers : BootCreate(t)
  \/ irq_enable
  \/ sched_tick
  \/ \E n \in 1 .. MaxSleep : sched_sleep_ticks(n) \/ sys_sleep(n)
  \/ ksvc_sleep
  \/ sched_block
  \/ \E t \in UserTasks : sched_kill(t) \/ sys_spawn(t)
  \/ svc_return
  \/ sched_exit_current
  \/ sched_wake_one
  \/ sched_wake_all
  \/ exc_handler_halt
  \/ halted

Spec == Init /\ [][Next]_vars

\* kmain is straight-line code up to irq_enable(); after it the timer keeps
\* firing, and masked code keeps running to its eret.
Fairness ==
  /\ WF_vars(\E t \in KernelTasks \cup BootUsers : BootCreate(t))
  /\ WF_vars(irq_enable)
  /\ WF_vars(sched_tick)
  /\ WF_vars(svc_return)

FairSpec == Spec /\ Fairness
-----------------------------------------------------------------------------
\* Properties.

Context == [sp : Task \cup {None}, elr : Points, spsr : Levels,
            sp_el0 : Task \cup {None}, as : Task \cup {None}]

\* Every variable holds a value of its type.
TypeOK ==
  /\ next \in [Task -> Task \cup {None}]
  /\ state \in [Task -> States]
  /\ wake_tick \in [Task -> 0 .. NoWake]
  /\ deadline \in [Task -> 0 .. NoWake]
  /\ wq \in Seq(KernelTasks)
  /\ current \in Task
  /\ pcb \in [Task -> Context]
  /\ svc \in [Task -> [elr : Points, spsr : Levels]]
  /\ cpu \in [regs : Task \cup {None}, pc : Points, pstate : Levels,
              sp_el0 : Task \cup {None}, ttbr0 : Task \cup {None}]

Linked == {t \in Task : state[t] # "absent"}

\* The PCBs' `next` pointers form one cycle through every task created and no
\* other: the walks of pick_next(), wake_sleepers(), sched_kill() and
\* sched_for_each() meet each task once and come back (sched.c:132-133).
RingClosed ==
  /\ {Walk[n] : n \in 1 .. Cardinality(Linked)} = Linked
  /\ Walk[Cardinality(Linked)] = current

\* c is t's own context: t's stack, address space and user stack pointer, and
\* a PSTATE that fits the place it resumes at.
Owns(t, c) ==
  /\ c.sp = t
  /\ c.as = Space(t)
  /\ IF t \in UserTasks
     THEN /\ c.sp_el0 = t
          /\ <<c.elr, c.spsr>> \in {<<"user", "EL0">>, <<"syscall", "EL1masked">>}
     ELSE /\ c.elr = "kernel" \/ (c.elr = "ksvc" /\ t # Kmain)
          /\ c.spsr = "EL1"

SavedOwned ==
  \A t \in Task : state[t] \in {"ready", "blocked"} /\ t # current => Owns(t, pcb[t])

LiveOwned ==
  \/ booting
  \/ cpu.pc = "halt" /\ cpu.pstate = "EL1masked"
  \/ Owns(current, [sp |-> cpu.regs, elr |-> cpu.pc, spsr |-> cpu.pstate,
                    sp_el0 |-> cpu.sp_el0, as |-> cpu.ttbr0])

\* No task ever runs on, or is saved with, another task's registers, stack or
\* address space, and EL0 code never runs at EL1: the switch on a tick, a
\* sleep, a block or an exit restores all of what it must (sched.c:180-226).
ContextsOwned == SavedOwned /\ LiveOwned

\* The running task is READY, so a task that slept, blocked, exited or was
\* killed is off the CPU at once; and kmain is always READY, which is why
\* pick_next() ends (sched.c:166).
RunsReady == state[current] = "ready" /\ state[Kmain] = "ready"

\* Tasks on the wait queue are BLOCKED without a sleep, once each, and they
\* are all of those: none is lost by a block or woken by the clock.
QueueHoldsBlocked ==
  /\ \A i, j \in DOMAIN wq : wq[i] = wq[j] => i = j
  /\ \A t \in Task :
       (\E i \in DOMAIN wq : wq[i] = t) <=> (state[t] = "blocked" /\ wake_tick[t] = NoWake)

\* A SYS_SLEEP_MS that really slept comes back to EL0 of its own caller, for
\* all the traps taken meanwhile (exceptions.c:59-84).
ReturnsToCaller ==
  [][cpu.pc = "syscall" => /\ current' = current /\ current \in UserTasks
                           /\ cpu'.pc = "user" /\ cpu'.pstate = "EL0"
                           /\ cpu'.regs = current]_cpu

\* Sched implements TaskLife.
status ==
  [t \in Task |-> CASE state[t] = "absent" -> "absent"
                    [] state[t] = "ready" -> "runnable"
                    [] state[t] = "zombie" -> "dead"
                    [] state[t] = "blocked" /\ wake_tick[t] = NoWake -> "queued"
                    [] OTHER -> "asleep"]

owed == [t \in Task |-> IF state[t] = "blocked" /\ wake_tick[t] # NoWake THEN wake_tick[t] ELSE 0]

Life == INSTANCE TaskLife WITH First <- Kmain, queue <- wq, running <- current

\* Every step of the scheduler is one the interface of sched.h allows.
ImplementsLife == Life!LifeSpec

\* Round robin starves no one: a READY task gets the CPU unless it is killed,
\* or a fault has stopped the machine, before (sched.h:41-46).
ReadyRuns ==
  \A t \in Task : state[t] = "ready" ~> (current = t \/ state[t] = "zombie" \/ cpu.pc = "halt")

\* A sleeper is woken even if its deadline had passed when it trapped, which
\* takes the >= of wake_sleepers() (sched.c:192), unless a fault stops the
\* machine first.
SleeperWakes ==
  \A t \in Task :
    (state[t] = "blocked" /\ wake_tick[t] # NoWake) ~> (state[t] # "blocked" \/ cpu.pc = "halt")
=============================================================================
