----------------------------- MODULE SchedProofs ----------------------------
(***************************************************************************)
(* Theorems about Sched for any number of tasks and any sleep, checked by  *)
(* TLAPS.  IInv is the inductive invariant: the properties of Sched, and   *)
(* what they rest on.                                                      *)
(***************************************************************************)
EXTENDS Sched, SharedFacts

\* During boot the CPU is still in kmain, on kmain's own context.
BootOwned ==
  booting =>
    /\ current = Kmain
    /\ cpu = [regs |-> Kmain, pc |-> "kernel", pstate |-> "EL1masked",
              sp_el0 |-> None, ttbr0 |-> Kmain]

\* A PCB's address space never changes once the PCB exists.
SpaceFixed == \A t \in Task : state[t] # "absent" => pcb[t].as = Space(t)

\* A process inside SYS_SLEEP_MS has its EL0 return point on its stack.
SvcOwned ==
  \A t \in UserTasks :
    \/ state[t] \in {"ready", "blocked"} /\ t # current /\ pcb[t].elr = "syscall"
    \/ t = current /\ cpu.pc = "syscall"
    => svc[t] = [elr |-> "user", spsr |-> "EL0"]

\* Only blocked tasks (and those killed asleep) have a wake-up tick.
AwakeNoWake == \A t \in Task : state[t] \in {"ready", "absent"} => wake_tick[t] = NoWake

\* A kernel task about to trap for a sleep has its deadline in x0.
DeadlineSet ==
  \A t \in KernelTasks :
    \/ state[t] \in {"ready", "blocked"} /\ t # current /\ pcb[t].elr = "ksvc"
    \/ t = current /\ cpu.pc = "ksvc"
    => deadline[t] # NoWake

IInv ==
  /\ TypeOK
  /\ ContextsOwned
  /\ RunsReady
  /\ QueueHoldsBlocked
  /\ BootOwned
  /\ SpaceFixed
  /\ SvcOwned
  /\ AwakeNoWake
  /\ DeadlineSet
-----------------------------------------------------------------------------
\* Switching.

\* Whatever pick_next() returns is READY.
LEMMA PickReady ==
  ASSUME NEW st, NEW t, pick_next(st, t)
  PROVE  st[t] = "ready"
BY DEF pick_next

\* The context a trap saves for the running task is its own, and leaves the
\* other tasks' as they were.
LEMMA SavedKeeps ==
  ASSUME TypeOK, SavedOwned, SpaceFixed, RunsReady,
         NEW pc \in Points, NEW level \in Levels,
         Owns(current, [sp |-> cpu.regs, elr |-> pc, spsr |-> level,
                        sp_el0 |-> cpu.sp_el0, as |-> Space(current)])
  PROVE  /\ saved(pc, level) \in [Task -> Context]
         /\ \A t \in Task : state[t] \in {"ready", "blocked"} => Owns(t, saved(pc, level)[t])
         /\ \A t \in Task : state[t] # "absent" => saved(pc, level)[t].as = Space(t)
         /\ saved(pc, level)[current].elr = pc
         /\ \A t \in Task \ {current} : saved(pc, level)[t] = pcb[t]
<1> DEFINE c == [sp |-> cpu.regs, elr |-> pc, spsr |-> level,
                 sp_el0 |-> cpu.sp_el0, as |-> pcb[current].as]
<1>1. c.as = Space(current)
  BY DEF TypeOK, SpaceFixed, RunsReady
<1>2. c \in Context
  BY DEF TypeOK, Context
<1>3. saved(pc, level) = [pcb EXCEPT ![current] = c]
  BY DEF saved
<1>4. Owns(current, c)
  BY <1>1 DEF Owns
<1> HIDE DEF c
<1>5. saved(pc, level) \in [Task -> Context]
  BY <1>2, <1>3 DEF TypeOK
<1>6. saved(pc, level)[current] = c /\ \A t \in Task \ {current} : saved(pc, level)[t] = pcb[t]
  BY <1>3 DEF TypeOK
<1>7. c.elr = pc
  BY DEF c
<1>8. QED
  BY <1>1, <1>4, <1>5, <1>6, <1>7 DEF SavedOwned, SpaceFixed

\* After a switch the CPU runs a READY task on that task's own context.
LEMMA SwitchOwned ==
  ASSUME NEW st \in [Task -> States], NEW p \in [Task -> Context],
         \A t \in Task : st[t] = "ready" => Owns(t, p[t]),
         switch(st, p)
  PROVE  /\ current' \in Task
         /\ st[current'] = "ready"
         /\ cpu' = [regs |-> p[current'].sp, pc |-> p[current'].elr,
                    pstate |-> p[current'].spsr, sp_el0 |-> p[current'].sp_el0,
                    ttbr0 |-> p[current'].as]
         /\ LiveOwned'
         /\ ~booting'
<1>1. PICK t \in Task : pick_next(st, t) /\ current' = t /\ cpu' = restore_next(p, t)
  BY DEF switch
<1>2. st[t] = "ready" /\ Owns(t, p[t])
  BY <1>1, PickReady
<1>3. p[t] \in Context
  OBVIOUS
<1>4. cpu' = [regs |-> p[t].sp, pc |-> p[t].elr, pstate |-> p[t].spsr,
              sp_el0 |-> p[t].sp_el0, ttbr0 |-> p[t].as]
  BY <1>1 DEF restore_next
<1>5. Owns(t, [sp |-> cpu'.regs, elr |-> cpu'.pc, spsr |-> cpu'.pstate,
               sp_el0 |-> cpu'.sp_el0, as |-> cpu'.ttbr0])
  BY <1>2, <1>3, <1>4 DEF Owns
<1>6. LiveOwned'
  BY <1>1, <1>5 DEF LiveOwned, Owns, Space
<1>7. ~booting'
  BY <1>2, <1>4 DEF booting, Owns
<1>8. QED
  BY <1>1, <1>2, <1>4, <1>6, <1>7

-----------------------------------------------------------------------------
\* IInv is inductive: one step per action.

LEMMA InitIInv == Init => IInv
<1> SUFFICES ASSUME Init PROVE IInv
  OBVIOUS
<1> USE TaskAssumption, SleepAssumption
<1>1. TypeOK
  BY DEF Init, TypeOK, Task, Context, Points, Levels, States, NoWake, Unset
<1>2. booting /\ BootOwned
  BY DEF Init, booting, BootOwned
<1>3. ContextsOwned
  BY <1>2 DEF Init, ContextsOwned, SavedOwned, LiveOwned, Task
<1>4. RunsReady
  BY DEF Init, RunsReady, Task
<1>5. QueueHoldsBlocked
  BY DEF Init, QueueHoldsBlocked
<1>6. SpaceFixed
  BY DEF Init, SpaceFixed, Space, Task, Unset
<1>7. SvcOwned /\ DeadlineSet
  BY DEF Init, SvcOwned, DeadlineSet, Task, Unset
<1>8. AwakeNoWake
  BY DEF Init, AwakeNoWake
<1>9. QED
  BY <1>1, <1>2, <1>3, <1>4, <1>5, <1>6, <1>7, <1>8 DEF IInv

LEMMA CreateIInv ==
  ASSUME IInv, NEW t \in KernelTasks \cup UserTasks, create(t)
  PROVE  IInv'
<1> USE TaskAssumption, SleepAssumption DEF IInv
<1>1. t \in Task /\ t # current /\ t # Kmain /\ next' = link(t)
  BY DEF create, RunsReady, Task
<1>2. fresh(t) \in Context /\ Owns(t, fresh(t)) /\ fresh(t).elr \in {"user", "kernel"}
  BY <1>1 DEF fresh, Context, Points, Levels, Owns, Space, Task
<1>3. /\ pcb' = [pcb EXCEPT ![t] = fresh(t)]
      /\ state' = [state EXCEPT ![t] = "ready"]
      /\ UNCHANGED <<wake_tick, deadline, wq, current, svc, cpu>>
  BY DEF create
<1>4. TypeOK'
  BY <1>1, <1>2, <1>3 DEF TypeOK, link, States
<1>5. SavedOwned'
  BY <1>1, <1>2, <1>3 DEF TypeOK, ContextsOwned, SavedOwned
<1>6. LiveOwned' /\ BootOwned'
  BY <1>3 DEF ContextsOwned, LiveOwned, BootOwned, booting
<1>7. RunsReady'
  BY <1>1, <1>3 DEF RunsReady, TypeOK
<1>8. QueueHoldsBlocked'
  BY <1>1, <1>3 DEF QueueHoldsBlocked, TypeOK, create
<1>9. SpaceFixed'
  BY <1>1, <1>2, <1>3 DEF SpaceFixed, TypeOK, Owns
<1>10. SvcOwned' /\ DeadlineSet'
  BY <1>1, <1>2, <1>3 DEF SvcOwned, DeadlineSet, TypeOK, Task
<1>11. AwakeNoWake'
  BY <1>1, <1>3 DEF AwakeNoWake, TypeOK, create
<1>12. QED
  BY <1>4, <1>5, <1>6, <1>7, <1>8, <1>9, <1>10, <1>11 DEF ContextsOwned

\* The timer IRQ.
LEMMA TickIInv ==
  ASSUME IInv, sched_tick
  PROVE  IInv'
<1> USE TaskAssumption, SleepAssumption DEF IInv
<1> DEFINE st == [t \in Task |-> IF due(t) THEN "ready" ELSE state[t]]
           p  == saved(cpu.pc, cpu.pstate)
<1>1. /\ cpu.pstate # "EL1masked"
      /\ state' = st
      /\ wake_tick' = [t \in Task |-> IF due(t) THEN NoWake ELSE OneLess(wake_tick[t])]
      /\ deadline' = [t \in Task |-> OneLess(deadline[t])]
      /\ pcb' = p
      /\ switch(st, p)
      /\ UNCHANGED <<next, wq, svc>>
  BY DEF sched_tick
<1>2. Owns(current, [sp |-> cpu.regs, elr |-> cpu.pc, spsr |-> cpu.pstate,
                     sp_el0 |-> cpu.sp_el0, as |-> Space(current)])
  BY <1>1 DEF ContextsOwned, LiveOwned, booting, Owns
<1>3. cpu.pc \in Points /\ cpu.pstate \in Levels
  BY DEF TypeOK
<1>4. /\ p \in [Task -> Context]
      /\ \A t \in Task : state[t] \in {"ready", "blocked"} => Owns(t, p[t])
      /\ \A t \in Task : state[t] # "absent" => p[t].as = Space(t)
      /\ p[current].elr = cpu.pc
      /\ \A t \in Task \ {current} : p[t] = pcb[t]
  BY <1>2, <1>3, SavedKeeps DEF ContextsOwned
<1>5. /\ st \in [Task -> States]
      /\ \A t \in Task : /\ st[t] \in {"ready", "blocked"} <=> state[t] \in {"ready", "blocked"}
                         /\ st[t] = "absent" <=> state[t] = "absent"
                         /\ state[t] = "ready" => st[t] = "ready"
                         /\ st[t] = "blocked" <=> (state[t] = "blocked" /\ ~due(t))
  BY DEF due, States, TypeOK
<1> HIDE DEF st, p
<1>6. /\ current' \in Task
      /\ st[current'] = "ready"
      /\ cpu' = [regs |-> p[current'].sp, pc |-> p[current'].elr,
                 pstate |-> p[current'].spsr, sp_el0 |-> p[current'].sp_el0,
                 ttbr0 |-> p[current'].as]
      /\ LiveOwned'
      /\ ~booting'
  BY <1>1, <1>4, <1>5, SwitchOwned
<1>7. \A n \in 0 .. NoWake : OneLess(n) \in 0 .. NoWake /\ (OneLess(n) = NoWake <=> n = NoWake)
  BY DEF OneLess, NoWake
<1>8. \A t \in Task : wake_tick[t] \in 0 .. NoWake /\ deadline[t] \in 0 .. NoWake
  BY DEF TypeOK
<1>9. NoWake \in 0 .. NoWake
  BY DEF NoWake
<1>10. TypeOK'
  <2>1. wake_tick' \in [Task -> 0 .. NoWake] /\ deadline' \in [Task -> 0 .. NoWake]
    BY <1>1, <1>7, <1>8, <1>9
  <2>2. cpu' \in [regs : Task \cup {None}, pc : Points, pstate : Levels,
                  sp_el0 : Task \cup {None}, ttbr0 : Task \cup {None}]
    BY <1>4, <1>6 DEF Context
  <2>3. QED
    BY <1>1, <1>4, <1>5, <1>6, <2>1, <2>2 DEF TypeOK
<1>11. SavedOwned' /\ SpaceFixed'
  BY <1>1, <1>4, <1>5 DEF SavedOwned, SpaceFixed
<1>12. RunsReady'
  BY <1>1, <1>5, <1>6 DEF RunsReady, Task
<1>13. QueueHoldsBlocked'
  <2>1. \A t \in Task : (st[t] = "blocked" /\ wake_tick'[t] = NoWake)
                         <=> (state[t] = "blocked" /\ wake_tick[t] = NoWake)
    BY <1>1, <1>5, <1>7, <1>8 DEF due
  <2>2. QED
    BY <1>1, <2>1 DEF QueueHoldsBlocked
<1>14. BootOwned'
  BY <1>6 DEF BootOwned
<1>15. SvcOwned'
  BY <1>1, <1>4, <1>5, <1>6 DEF SvcOwned, RunsReady, Task
<1>16. DeadlineSet'
  <2>1. \A t \in Task : deadline[t] # NoWake => deadline'[t] # NoWake
    BY <1>1, <1>7, <1>8
  <2>2. QED
    BY <1>1, <1>4, <1>5, <1>6, <2>1 DEF DeadlineSet, RunsReady, Task
<1>17. AwakeNoWake'
  BY <1>1, <1>5, <1>7, <1>8 DEF AwakeNoWake, due
<1>18. QED
  BY <1>6, <1>10, <1>11, <1>12, <1>13, <1>14, <1>15, <1>16, <1>17 DEF ContextsOwned

\* What blocking the running task does, whichever trap it takes.
LEMMA LeaveKeeps ==
  ASSUME IInv, current # Kmain,
         NEW pc \in Points, NEW level \in Levels,
         Owns(current, [sp |-> cpu.regs, elr |-> pc, spsr |-> level,
                        sp_el0 |-> cpu.sp_el0, as |-> Space(current)]),
         state' = [state EXCEPT ![current] = "blocked"],
         pcb' = saved(pc, level),
         switch([state EXCEPT ![current] = "blocked"], saved(pc, level))
  PROVE  /\ state' \in [Task -> States] /\ pcb' \in [Task -> Context]
         /\ current' \in Task /\ current' # current /\ state[current'] = "ready"
         /\ cpu' = [regs |-> pcb[current'].sp, pc |-> pcb[current'].elr,
                    pstate |-> pcb[current'].spsr, sp_el0 |-> pcb[current'].sp_el0,
                    ttbr0 |-> pcb[current'].as]
         /\ cpu' \in [regs : Task \cup {None}, pc : Points, pstate : Levels,
                      sp_el0 : Task \cup {None}, ttbr0 : Task \cup {None}]
         /\ pcb'[current].elr = pc
         /\ \A t \in Task \ {current} : pcb'[t] = pcb[t] /\ state'[t] = state[t]
         /\ ContextsOwned' /\ RunsReady' /\ BootOwned' /\ SpaceFixed'
<1> USE TaskAssumption DEF IInv
<1>1. /\ pcb' \in [Task -> Context]
      /\ \A t \in Task : state[t] \in {"ready", "blocked"} => Owns(t, pcb'[t])
      /\ \A t \in Task : state[t] # "absent" => pcb'[t].as = Space(t)
      /\ pcb'[current].elr = pc
      /\ \A t \in Task \ {current} : pcb'[t] = pcb[t]
  BY SavedKeeps DEF ContextsOwned
<1>2. /\ state' \in [Task -> States]
      /\ \A t \in Task \ {current} : state'[t] = state[t]
      /\ state[current] = "ready" /\ state'[current] = "blocked"
  BY DEF TypeOK, States, RunsReady
<1>3. \A t \in Task : state'[t] = "ready" => Owns(t, pcb'[t])
  BY <1>1, <1>2
<1>4. /\ current' \in Task
      /\ state'[current'] = "ready"
      /\ cpu' = [regs |-> pcb'[current'].sp, pc |-> pcb'[current'].elr,
                 pstate |-> pcb'[current'].spsr, sp_el0 |-> pcb'[current'].sp_el0,
                 ttbr0 |-> pcb'[current'].as]
      /\ LiveOwned' /\ ~booting'
  BY <1>1, <1>2, <1>3, SwitchOwned
<1>5. current' # current /\ state[current'] = "ready" /\ pcb'[current'] = pcb[current']
  BY <1>1, <1>2, <1>4
<1>6. cpu' \in [regs : Task \cup {None}, pc : Points, pstate : Levels,
                sp_el0 : Task \cup {None}, ttbr0 : Task \cup {None}]
  BY <1>1, <1>4 DEF Context
<1>7. SavedOwned' /\ SpaceFixed'
  BY <1>1, <1>2 DEF SavedOwned, SpaceFixed
<1>8. RunsReady' /\ BootOwned'
  BY <1>2, <1>4 DEF RunsReady, BootOwned, Task
<1>9. QED
  BY <1>1, <1>2, <1>4, <1>5, <1>6, <1>7, <1>8 DEF ContextsOwned

LEMMA KernelOwns ==
  ASSUME IInv, (cpu.pc = "kernel" /\ ~booting) \/ cpu.pc = "ksvc"
  PROVE  /\ current \notin UserTasks
         /\ cpu.pc = "ksvc" => current \in KernelTasks
         /\ cpu.pstate = "EL1"
         /\ Owns(current, [sp |-> cpu.regs, elr |-> "kernel", spsr |-> cpu.pstate,
                           sp_el0 |-> cpu.sp_el0, as |-> Space(current)])
BY DEF IInv, ContextsOwned, LiveOwned, booting, Owns, Task, TypeOK

LEMMA UserOwns ==
  ASSUME IInv, cpu.pc = "user"
  PROVE  /\ current \in UserTasks /\ current # Kmain
         /\ cpu.pstate = "EL0"
         /\ Owns(current, [sp |-> cpu.regs, elr |-> "syscall", spsr |-> "EL1masked",
                           sp_el0 |-> cpu.sp_el0, as |-> Space(current)])
BY TaskAssumption DEF IInv, ContextsOwned, LiveOwned, booting, Owns, Task, TypeOK

\* A kernel task's sleep, in its two steps.
LEMMA SleepCallIInv ==
  ASSUME IInv, NEW n \in 1 .. MaxSleep, sched_sleep_ticks(n)
  PROVE  IInv'
<1> USE TaskAssumption, SleepAssumption DEF IInv
<1>1. /\ cpu.pc = "kernel" /\ current \in KernelTasks
      /\ deadline' = [deadline EXCEPT ![current] = n]
      /\ cpu' = [cpu EXCEPT !.pc = "ksvc"]
      /\ UNCHANGED <<next, state, wake_tick, wq, current, pcb, svc>>
  BY DEF sched_sleep_ticks
<1>2. ~booting /\ current # Kmain
  BY <1>1 DEF BootOwned
<1>3. cpu.pstate = "EL1" /\ current \notin UserTasks
  BY <1>1, <1>2, KernelOwns
<1>4. n \in 0 .. NoWake /\ n # NoWake
  BY DEF NoWake
<1>5. TypeOK'
  BY <1>1, <1>4 DEF TypeOK, Points
<1>6. ContextsOwned' /\ BootOwned'
  BY <1>1, <1>2, <1>3 DEF TypeOK, ContextsOwned, SavedOwned, LiveOwned, BootOwned, booting, Owns, Space
<1>7. RunsReady' /\ QueueHoldsBlocked' /\ SpaceFixed' /\ AwakeNoWake'
  BY <1>1 DEF RunsReady, QueueHoldsBlocked, SpaceFixed, AwakeNoWake
<1>8. SvcOwned'
  BY <1>1, <1>3 DEF SvcOwned, TypeOK
<1>9. DeadlineSet'
  BY <1>1, <1>4 DEF DeadlineSet, TypeOK
<1>10. QED
  BY <1>5, <1>6, <1>7, <1>8, <1>9

LEMMA KsvcSleepIInv ==
  ASSUME IInv, ksvc_sleep
  PROVE  IInv'
<1> USE TaskAssumption, SleepAssumption DEF IInv
<1>1. /\ cpu.pc = "ksvc"
      /\ state' = [state EXCEPT ![current] = "blocked"]
      /\ wake_tick' = [wake_tick EXCEPT ![current] = deadline[current]]
      /\ deadline' = [deadline EXCEPT ![current] = NoWake]
      /\ pcb' = saved("kernel", cpu.pstate)
      /\ switch([state EXCEPT ![current] = "blocked"], saved("kernel", cpu.pstate))
      /\ UNCHANGED <<next, wq, svc>>
  BY DEF ksvc_sleep
<1>2. /\ current \in KernelTasks /\ current # Kmain /\ current \notin UserTasks
      /\ "kernel" \in Points /\ cpu.pstate \in Levels
      /\ Owns(current, [sp |-> cpu.regs, elr |-> "kernel", spsr |-> cpu.pstate,
                        sp_el0 |-> cpu.sp_el0, as |-> Space(current)])
  BY <1>1, KernelOwns DEF Points, TypeOK
<1>3. /\ state' \in [Task -> States] /\ pcb' \in [Task -> Context]
      /\ current' \in Task /\ current' # current /\ state[current'] = "ready"
      /\ cpu' = [regs |-> pcb[current'].sp, pc |-> pcb[current'].elr,
                 pstate |-> pcb[current'].spsr, sp_el0 |-> pcb[current'].sp_el0,
                 ttbr0 |-> pcb[current'].as]
      /\ cpu' \in [regs : Task \cup {None}, pc : Points, pstate : Levels,
                   sp_el0 : Task \cup {None}, ttbr0 : Task \cup {None}]
      /\ pcb'[current].elr = "kernel"
      /\ \A t \in Task \ {current} : pcb'[t] = pcb[t] /\ state'[t] = state[t]
      /\ ContextsOwned' /\ RunsReady' /\ BootOwned' /\ SpaceFixed'
  BY <1>1, <1>2, LeaveKeeps
<1>4. deadline[current] \in 0 .. NoWake /\ deadline[current] # NoWake /\ NoWake \in 0 .. NoWake
  BY <1>1, <1>2 DEF DeadlineSet, TypeOK, NoWake
<1>5. state'[current] = "blocked" /\ state[current] = "ready" /\ wake_tick'[current] # NoWake
  BY <1>1, <1>4 DEF TypeOK, RunsReady
<1>6. \A t \in Task \ {current} : wake_tick'[t] = wake_tick[t] /\ deadline'[t] = deadline[t]
  BY <1>1 DEF TypeOK
<1>7. TypeOK'
  BY <1>1, <1>3, <1>4 DEF TypeOK
<1>8. QueueHoldsBlocked'
  BY <1>1, <1>3, <1>5, <1>6 DEF QueueHoldsBlocked
<1>9. SvcOwned'
  BY <1>1, <1>2, <1>3 DEF SvcOwned, Task
<1>10. DeadlineSet'
  BY <1>3, <1>6 DEF DeadlineSet, Task
<1>11. AwakeNoWake'
  BY <1>3, <1>5, <1>6 DEF AwakeNoWake
<1>12. QED
  BY <1>3, <1>7, <1>8, <1>9, <1>10, <1>11

LEMMA BlockIInv ==
  ASSUME IInv, sched_block
  PROVE  IInv'
<1> USE TaskAssumption, SleepAssumption DEF IInv
<1>1. /\ cpu.pc = "kernel" /\ current \in KernelTasks
      /\ wq' = Append(wq, current)
      /\ state' = [state EXCEPT ![current] = "blocked"]
      /\ pcb' = saved("kernel", cpu.pstate)
      /\ switch([state EXCEPT ![current] = "blocked"], saved("kernel", cpu.pstate))
      /\ UNCHANGED <<next, wake_tick, deadline, svc>>
  BY DEF sched_block, enqueue
<1>2. ~booting /\ current # Kmain
  BY <1>1 DEF BootOwned
<1>3. /\ current \notin UserTasks
      /\ "kernel" \in Points /\ cpu.pstate \in Levels
      /\ Owns(current, [sp |-> cpu.regs, elr |-> "kernel", spsr |-> cpu.pstate,
                        sp_el0 |-> cpu.sp_el0, as |-> Space(current)])
  BY <1>1, <1>2, KernelOwns DEF Points, TypeOK
<1>4.  /\ state' \in [Task -> States] /\ pcb' \in [Task -> Context]
      /\ current' \in Task /\ current' # current /\ state[current'] = "ready"
      /\ cpu' = [regs |-> pcb[current'].sp, pc |-> pcb[current'].elr,
                 pstate |-> pcb[current'].spsr, sp_el0 |-> pcb[current'].sp_el0,
                 ttbr0 |-> pcb[current'].as]
      /\ cpu' \in [regs : Task \cup {None}, pc : Points, pstate : Levels,
                   sp_el0 : Task \cup {None}, ttbr0 : Task \cup {None}]
      /\ pcb'[current].elr = "kernel"
      /\ \A t \in Task \ {current} : pcb'[t] = pcb[t] /\ state'[t] = state[t]
      /\ ContextsOwned' /\ RunsReady' /\ BootOwned' /\ SpaceFixed'
  BY <1>1, <1>2, <1>3, LeaveKeeps
<1>5. state'[current] = "blocked" /\ state[current] = "ready" /\ wake_tick[current] = NoWake
  BY <1>1 DEF TypeOK, RunsReady, AwakeNoWake
<1>6. TypeOK'
  <2>1. wq' \in Seq(KernelTasks)
    BY <1>1 DEF TypeOK
  <2>2. QED
    BY <1>1, <1>4, <2>1 DEF TypeOK
<1>7. QueueHoldsBlocked'
  <2>1. \A i \in DOMAIN wq : wq[i] # current
    BY <1>1, <1>5 DEF QueueHoldsBlocked, TypeOK, Task
  <2>2. /\ Len(wq) \in Nat /\ DOMAIN wq = 1 .. Len(wq) /\ DOMAIN wq' = 1 .. Len(wq) + 1
        /\ \A i \in DOMAIN wq : wq'[i] = wq[i]
        /\ wq'[Len(wq) + 1] = current
    BY <1>1 DEF TypeOK
  <2>3. \A i, j \in DOMAIN wq' : wq'[i] = wq'[j] => i = j
    BY <2>1, <2>2 DEF QueueHoldsBlocked
  <2>4. \A t \in Task : (\E i \in DOMAIN wq' : wq'[i] = t)
                         <=> (\E i \in DOMAIN wq : wq[i] = t) \/ t = current
    BY <2>2
  <2>5. QED
    BY <1>1, <1>4, <1>5, <2>3, <2>4 DEF QueueHoldsBlocked
<1>8. SvcOwned'
  BY <1>1, <1>3, <1>4 DEF SvcOwned, Task
<1>9. DeadlineSet'
  BY <1>1, <1>4 DEF DeadlineSet, Task
<1>10. AwakeNoWake'
  BY <1>1, <1>4, <1>5 DEF AwakeNoWake
<1>11. QED
  BY <1>4, <1>6, <1>7, <1>8, <1>9, <1>10

LEMMA SysSleepIInv ==
  ASSUME IInv, NEW n \in 1 .. MaxSleep, sys_sleep(n)
  PROVE  IInv'
<1> USE TaskAssumption, SleepAssumption DEF IInv
<1>1. /\ cpu.pc = "user"
      /\ svc' = [svc EXCEPT ![current] = [elr |-> cpu.pc, spsr |-> cpu.pstate]]
      /\ state' = [state EXCEPT ![current] = "blocked"]
      /\ wake_tick' = [wake_tick EXCEPT ![current] = n]
      /\ pcb' = saved("syscall", "EL1masked")
      /\ switch([state EXCEPT ![current] = "blocked"], saved("syscall", "EL1masked"))
      /\ UNCHANGED <<next, deadline, wq>>
  BY DEF sys_sleep
<1>2. /\ current \in UserTasks /\ current # Kmain /\ cpu.pstate = "EL0"
      /\ "syscall" \in Points /\ "EL1masked" \in Levels
      /\ Owns(current, [sp |-> cpu.regs, elr |-> "syscall", spsr |-> "EL1masked",
                        sp_el0 |-> cpu.sp_el0, as |-> Space(current)])
  BY <1>1, UserOwns DEF Points, Levels
<1>3.  /\ state' \in [Task -> States] /\ pcb' \in [Task -> Context]
      /\ current' \in Task /\ current' # current /\ state[current'] = "ready"
      /\ cpu' = [regs |-> pcb[current'].sp, pc |-> pcb[current'].elr,
                 pstate |-> pcb[current'].spsr, sp_el0 |-> pcb[current'].sp_el0,
                 ttbr0 |-> pcb[current'].as]
      /\ cpu' \in [regs : Task \cup {None}, pc : Points, pstate : Levels,
                   sp_el0 : Task \cup {None}, ttbr0 : Task \cup {None}]
      /\ pcb'[current].elr = "syscall"
      /\ \A t \in Task \ {current} : pcb'[t] = pcb[t] /\ state'[t] = state[t]
      /\ ContextsOwned' /\ RunsReady' /\ BootOwned' /\ SpaceFixed'
  BY <1>1, <1>2, LeaveKeeps
<1>4. n \in 0 .. NoWake /\ n # NoWake
  BY DEF NoWake
<1>5. state'[current] = "blocked" /\ state[current] = "ready" /\ wake_tick'[current] # NoWake
  BY <1>1, <1>4 DEF TypeOK, RunsReady
<1>6. \A t \in Task \ {current} : wake_tick'[t] = wake_tick[t] /\ svc'[t] = svc[t]
  BY <1>1 DEF TypeOK
<1>7. TypeOK'
  BY <1>1, <1>2, <1>3, <1>4 DEF TypeOK, Points, Levels
<1>8. QueueHoldsBlocked'
  <2>1. \A i \in DOMAIN wq : wq[i] # current
    BY <1>5 DEF QueueHoldsBlocked, TypeOK, RunsReady
  <2>2. QED
    BY <1>1, <1>3, <1>5, <1>6, <2>1 DEF QueueHoldsBlocked
<1>9. SvcOwned'
  <2>1. svc'[current] = [elr |-> "user", spsr |-> "EL0"]
    BY <1>1, <1>2 DEF TypeOK
  <2>2. QED
    BY <1>3, <1>6, <2>1 DEF SvcOwned, Task
<1>10. DeadlineSet'
  BY <1>1, <1>2, <1>3 DEF DeadlineSet, Task
<1>11. AwakeNoWake'
  BY <1>3, <1>5, <1>6 DEF AwakeNoWake
<1>12. QED
  BY <1>3, <1>7, <1>8, <1>9, <1>10, <1>11

LEMMA ExitIInv ==
  ASSUME IInv, sched_exit_current
  PROVE  IInv'
<1> USE TaskAssumption, SleepAssumption DEF IInv
<1> DEFINE st == [state EXCEPT ![current] = "zombie"]
<1>1. cpu.pc = "user" /\ state' = st /\ switch(st, pcb)
      /\ UNCHANGED <<next, wake_tick, deadline, wq, pcb, svc>>
  BY DEF sched_exit_current
<1>2. current \in UserTasks /\ current # Kmain
  BY <1>1, UserOwns
<1>3. /\ st \in [Task -> States] /\ st[current] = "zombie" /\ state[current] = "ready"
      /\ \A t \in Task \ {current} : st[t] = state[t]
  BY DEF TypeOK, States, RunsReady
<1> HIDE DEF st
<1>4. \A t \in Task : st[t] \in {"ready", "blocked"} => Owns(t, pcb[t])
  BY <1>3 DEF ContextsOwned, SavedOwned
<1>5. pcb \in [Task -> Context]
  BY DEF TypeOK
<1>6. /\ current' \in Task
      /\ st[current'] = "ready"
      /\ cpu' = [regs |-> pcb[current'].sp, pc |-> pcb[current'].elr,
                 pstate |-> pcb[current'].spsr, sp_el0 |-> pcb[current'].sp_el0,
                 ttbr0 |-> pcb[current'].as]
      /\ LiveOwned' /\ ~booting'
  BY <1>1, <1>3, <1>4, <1>5, SwitchOwned
<1>7. current' # current
  BY <1>3, <1>6
<1>8. TypeOK'
  BY <1>1, <1>3, <1>5, <1>6 DEF TypeOK, Context
<1>9. ContextsOwned' /\ BootOwned' /\ SpaceFixed'
  BY <1>1, <1>3, <1>4, <1>6 DEF ContextsOwned, SavedOwned, BootOwned, SpaceFixed
<1>10. RunsReady' /\ AwakeNoWake'
  BY <1>1, <1>2, <1>3, <1>6 DEF RunsReady, AwakeNoWake, Task
<1>11. QueueHoldsBlocked'
  BY <1>1, <1>3 DEF QueueHoldsBlocked
<1>12. SvcOwned' /\ DeadlineSet'
  BY <1>1, <1>3, <1>6, <1>7 DEF SvcOwned, DeadlineSet, Task
<1>13. QED
  BY <1>8, <1>9, <1>10, <1>11, <1>12

LEMMA KillIInv ==
  ASSUME IInv, NEW t \in UserTasks, sched_kill(t)
  PROVE  IInv'
<1> USE TaskAssumption, SleepAssumption DEF IInv
<1>1. /\ cpu.pc = "kernel" /\ current = Compositor /\ state[t] # "absent"
      /\ state' = [state EXCEPT ![t] = "zombie"]
      /\ UNCHANGED <<next, wake_tick, deadline, wq, current, pcb, svc, cpu>>
  BY DEF sched_kill
<1>2. t \in Task /\ t # current /\ t # Kmain /\ t \notin KernelTasks
  BY <1>1 DEF Task
<1>3. state'[t] = "zombie" /\ \A u \in Task \ {t} : state'[u] = state[u]
  BY <1>1, <1>2 DEF TypeOK
<1>4. TypeOK'
  BY <1>1 DEF TypeOK, States
<1>5. ContextsOwned' /\ BootOwned' /\ SpaceFixed'
  BY <1>1, <1>3 DEF ContextsOwned, SavedOwned, LiveOwned, BootOwned, booting, SpaceFixed
<1>6. RunsReady' /\ AwakeNoWake'
  BY <1>1, <1>2, <1>3 DEF RunsReady, AwakeNoWake, Task, TypeOK
<1>7. QueueHoldsBlocked'
  <2>1. \A i \in DOMAIN wq : wq[i] # t
    BY <1>2 DEF TypeOK
  <2>2. QED
    BY <1>1, <1>3, <2>1 DEF QueueHoldsBlocked
<1>8. SvcOwned' /\ DeadlineSet'
  BY <1>1, <1>2, <1>3 DEF SvcOwned, DeadlineSet, Task
<1>9. QED
  BY <1>4, <1>5, <1>6, <1>7, <1>8

LEMMA WakeIInv ==
  ASSUME IInv, sched_wake_one \/ sched_wake_all
  PROVE  IInv'
<1> USE TaskAssumption, SleepAssumption DEF IInv
<1> DEFINE woken == {t \in Task : state'[t] # state[t]}
<1>1. /\ cpu.pc = "user" /\ wq # <<>>
      /\ UNCHANGED <<next, wake_tick, deadline, current, pcb, svc, cpu>>
  BY DEF sched_wake_one, sched_wake_all
<1>2. \A i \in DOMAIN wq : wq[i] \in KernelTasks /\ wq[i] \in Task
                            /\ state[wq[i]] = "blocked" /\ wake_tick[wq[i]] = NoWake
  BY DEF QueueHoldsBlocked, TypeOK, Task
<1>3. Len(wq) \in Nat /\ DOMAIN wq = 1 .. Len(wq) /\ 1 \in DOMAIN wq
  BY <1>1 DEF TypeOK
\* Both wakes leave a queue of the same tasks, less those made READY.
<1>4. /\ wq' \in Seq(KernelTasks) /\ state' \in [Task -> States]
      /\ \A i, j \in DOMAIN wq' : wq'[i] = wq'[j] => i = j
      /\ \A t \in Task :
           \/ state'[t] = state[t] /\ ((\E i \in DOMAIN wq' : wq'[i] = t)
                                      <=> (\E i \in DOMAIN wq : wq[i] = t))
           \/ /\ state[t] = "blocked" /\ wake_tick[t] = NoWake /\ state'[t] = "ready"
              /\ ~\E i \in DOMAIN wq' : wq'[i] = t
  <2>1. CASE sched_wake_one
    <3>1. wq' = Tail(wq) /\ state' = [state EXCEPT ![wq[1]] = "ready"]
      BY <2>1 DEF sched_wake_one
    <3>2. wq' \in Seq(KernelTasks) /\ Len(wq') = Len(wq) - 1
      BY <1>1, <3>1 DEF TypeOK
    <3>3. DOMAIN wq' = 1 .. Len(wq) - 1 /\ \A i \in DOMAIN wq' : wq'[i] = wq[i + 1]
      BY <1>1, <1>3, <3>1, <3>2 DEF TypeOK
    <3>4. \A i, j \in DOMAIN wq : wq[i] = wq[j] => i = j
      BY DEF QueueHoldsBlocked
    <3>5. \A i \in DOMAIN wq' : i + 1 \in DOMAIN wq /\ i + 1 # 1
      BY <1>3, <3>3
    <3>6. \A i, j \in DOMAIN wq' : wq'[i] = wq'[j] => i = j
      <4> SUFFICES ASSUME NEW i \in DOMAIN wq', NEW j \in DOMAIN wq', wq'[i] = wq'[j]
                   PROVE  i = j
        OBVIOUS
      <4>1. i + 1 = j + 1 /\ i \in Nat /\ j \in Nat
        BY <1>3, <3>3, <3>4, <3>5
      <4>2. QED
        BY <4>1
    <3>7. \A t \in Task \ {wq[1]} : (\E i \in DOMAIN wq' : wq'[i] = t)
                                   <=> (\E i \in DOMAIN wq : wq[i] = t)
      <4>1. \A i \in DOMAIN wq \ {1} : i - 1 \in DOMAIN wq' /\ wq'[i - 1] = wq[i]
        BY <1>3, <3>3
      <4>2. QED
        BY <1>3, <3>3, <3>5, <4>1
    <3>8. ~\E i \in DOMAIN wq' : wq'[i] = wq[1]
      BY <1>3, <3>3, <3>4, <3>5
    <3>9. state' \in [Task -> States] /\ state'[wq[1]] = "ready"
          /\ \A t \in Task \ {wq[1]} : state'[t] = state[t]
      BY <1>2, <1>3, <3>1 DEF TypeOK, States
    <3>10. QED
      BY <1>2, <1>3, <3>2, <3>6, <3>7, <3>8, <3>9
  <2>2. CASE sched_wake_all
    <3>1. wq' = <<>>
          /\ state' = [t \in Task |-> IF \E i \in DOMAIN wq : wq[i] = t THEN "ready" ELSE state[t]]
      BY <2>2 DEF sched_wake_all, emptied
    <3>2. wq' \in Seq(KernelTasks) /\ DOMAIN wq' = {}
      BY <3>1
    <3>3. state' \in [Task -> States]
      BY <3>1 DEF TypeOK, States
    <3>4. QED
      BY <1>2, <3>1, <3>2, <3>3
  <2>3. QED
    BY <2>1, <2>2
<1>5. TypeOK'
  BY <1>1, <1>4 DEF TypeOK
<1>6. current \in UserTasks /\ ~booting
  BY <1>1, UserOwns DEF booting
<1>7. ContextsOwned' /\ BootOwned' /\ SpaceFixed'
  <2>1. SavedOwned'
    BY <1>1, <1>4 DEF ContextsOwned, SavedOwned
  <2>2. QED
    BY <1>1, <1>4, <2>1 DEF ContextsOwned, LiveOwned, BootOwned, booting, SpaceFixed
<1>8. RunsReady' /\ AwakeNoWake'
  BY <1>1, <1>4 DEF RunsReady, AwakeNoWake, TypeOK, Task
<1>9. QueueHoldsBlocked'
  BY <1>1, <1>4 DEF QueueHoldsBlocked
<1>10. SvcOwned' /\ DeadlineSet'
  BY <1>1, <1>4 DEF SvcOwned, DeadlineSet, Task
<1>11. QED
  BY <1>5, <1>7, <1>8, <1>9, <1>10

LEMMA CpuOnlyIInv ==
  ASSUME IInv, irq_enable \/ svc_return \/ exc_handler_halt
  PROVE  IInv'
<1> USE TaskAssumption, SleepAssumption DEF IInv
<1>1. UNCHANGED <<next, state, wake_tick, deadline, wq, current, pcb, svc>>
  BY DEF irq_enable, svc_return, exc_handler_halt
<1>2. /\ cpu' \in [regs : Task \cup {None}, pc : Points, pstate : Levels,
                   sp_el0 : Task \cup {None}, ttbr0 : Task \cup {None}]
      /\ LiveOwned' /\ ~booting'
      /\ cpu'.pc \notin {"syscall", "ksvc"}
  <2>1. CASE irq_enable
    <3>1. booting /\ cpu' = [cpu EXCEPT !.pstate = "EL1"] /\ current' = current
      BY <2>1 DEF irq_enable
    <3>2. cpu' = [regs |-> Kmain, pc |-> "kernel", pstate |-> "EL1",
                  sp_el0 |-> None, ttbr0 |-> Kmain] /\ current = Kmain
      BY <3>1 DEF BootOwned
    <3>3. LiveOwned'
      BY <3>1, <3>2 DEF LiveOwned, Owns, Space
    <3>4. QED
      BY <3>2, <3>3 DEF booting, Task, Points, Levels
  <2>2. CASE svc_return
    <3>1. cpu.pc = "syscall" /\ cpu' = eret_syscall
      BY <2>2 DEF svc_return
    <3>2. Owns(current, [sp |-> cpu.regs, elr |-> cpu.pc, spsr |-> cpu.pstate,
                         sp_el0 |-> cpu.sp_el0, as |-> cpu.ttbr0])
      BY <3>1 DEF ContextsOwned, LiveOwned, booting
    <3>3. current \in UserTasks /\ cpu.regs = current
      BY <3>1, <3>2 DEF Owns
    <3>4. svc[current] = [elr |-> "user", spsr |-> "EL0"]
      BY <3>1, <3>3 DEF SvcOwned
    <3>5. cpu' = [cpu EXCEPT !.pc = "user", !.pstate = "EL0"]
      BY <3>1, <3>3, <3>4 DEF eret_syscall
    <3>6. /\ cpu' \in [regs : Task \cup {None}, pc : Points, pstate : Levels,
                       sp_el0 : Task \cup {None}, ttbr0 : Task \cup {None}]
          /\ cpu'.regs = cpu.regs /\ cpu'.pc = "user" /\ cpu'.pstate = "EL0"
          /\ cpu'.sp_el0 = cpu.sp_el0 /\ cpu'.ttbr0 = cpu.ttbr0
      BY <3>5 DEF Points, Levels, TypeOK
    <3>7. Owns(current, [sp |-> cpu'.regs, elr |-> cpu'.pc, spsr |-> cpu'.pstate,
                         sp_el0 |-> cpu'.sp_el0, as |-> cpu'.ttbr0])
      BY <3>2, <3>3, <3>6 DEF Owns
    <3>8. QED
      BY <1>1, <3>6, <3>7 DEF LiveOwned, Owns, Space, booting
  <2>3. CASE exc_handler_halt
    <3>1. cpu' = [cpu EXCEPT !.pc = "halt", !.pstate = "EL1masked"]
      BY <2>3 DEF exc_handler_halt
    <3>2. QED
      BY <3>1 DEF LiveOwned, booting, Points, Levels, TypeOK
  <2>4. QED
    BY <2>1, <2>2, <2>3
<1>3. TypeOK'
  BY <1>1, <1>2 DEF TypeOK
<1>4. ContextsOwned' /\ BootOwned' /\ SpaceFixed'
  BY <1>1, <1>2 DEF ContextsOwned, SavedOwned, BootOwned, SpaceFixed
<1>5. RunsReady' /\ AwakeNoWake' /\ QueueHoldsBlocked'
  BY <1>1 DEF RunsReady, AwakeNoWake, QueueHoldsBlocked
<1>6. SvcOwned' /\ DeadlineSet'
  BY <1>1, <1>2 DEF SvcOwned, DeadlineSet
<1>7. QED
  BY <1>2, <1>3, <1>4, <1>5, <1>6

LEMMA NextIInv == IInv /\ [Next]_vars => IInv'
<1> SUFFICES ASSUME IInv, [Next]_vars PROVE IInv'
  OBVIOUS
<1> USE TaskAssumption
<1>1. CASE \E t \in KernelTasks \cup BootUsers : BootCreate(t)
  BY <1>1, CreateIInv DEF BootCreate
<1>2. CASE irq_enable \/ svc_return \/ exc_handler_halt
  BY <1>2, CpuOnlyIInv
<1>3. CASE sched_tick
  BY <1>3, TickIInv
<1>4. CASE \E n \in 1 .. MaxSleep : sched_sleep_ticks(n) \/ sys_sleep(n)
  BY <1>4, SleepCallIInv, SysSleepIInv
<1>5. CASE ksvc_sleep
  BY <1>5, KsvcSleepIInv
<1>6. CASE sched_block
  BY <1>6, BlockIInv
<1>7. CASE \E t \in UserTasks : sched_kill(t) \/ sys_spawn(t)
  BY <1>7, KillIInv, CreateIInv DEF sys_spawn
<1>8. CASE sched_exit_current
  BY <1>8, ExitIInv
<1>9. CASE sched_wake_one \/ sched_wake_all
  BY <1>9, WakeIInv
<1>10. CASE halted \/ UNCHANGED vars
  <2>1. UNCHANGED vars
    BY <1>10 DEF halted
  <2>2. QED
    BY <2>1 DEF vars, IInv, TypeOK, ContextsOwned, SavedOwned, LiveOwned, booting, RunsReady,
                QueueHoldsBlocked, BootOwned, SpaceFixed, SvcOwned, AwakeNoWake, DeadlineSet
<1>11. QED
  BY <1>1, <1>2, <1>3, <1>4, <1>5, <1>6, <1>7, <1>8, <1>9, <1>10 DEF Next

THEOREM Invariance == Spec => []IInv
BY InitIInv, NextIInv, PTL DEF Spec

\* Every variable keeps its type, for any number of tasks.
THEOREM TypeCorrect == Spec => []TypeOK
<1>1. IInv => TypeOK
  BY DEF IInv
<1>2. QED
  BY <1>1, Invariance, PTL

\* No task ever runs on, or is saved with, another's registers, stack or
\* address space, whatever the interleaving of ticks, sleeps, exits and kills.
THEOREM ContextIsolation == Spec => []ContextsOwned
<1>1. IInv => ContextsOwned
  BY DEF IInv
<1>2. QED
  BY <1>1, Invariance, PTL

\* The running task is READY and so is kmain.
THEOREM RunsReadyAlways == Spec => []RunsReady
<1>1. IInv => RunsReady
  BY DEF IInv
<1>2. QED
  BY <1>1, Invariance, PTL

\* The wait queue holds exactly the tasks blocked without a sleep, once each.
THEOREM QueueExact == Spec => []QueueHoldsBlocked
<1>1. IInv => QueueHoldsBlocked
  BY DEF IInv
<1>2. QED
  BY <1>1, Invariance, PTL

\* A slept system call returns to EL0 of its own caller: while it is unwinding
\* no trap can be taken, and svc_handler() restores its own ELR and SPSR.
THEOREM SyscallReturns == Spec => ReturnsToCaller
<1>1. IInv /\ [Next]_vars
      => [cpu.pc = "syscall" => /\ current' = current /\ current \in UserTasks
                                /\ cpu'.pc = "user" /\ cpu'.pstate = "EL0"
                                /\ cpu'.regs = current]_cpu
  <2> SUFFICES ASSUME IInv, [Next]_vars, cpu' # cpu, cpu.pc = "syscall"
               PROVE  /\ current' = current /\ current \in UserTasks
                      /\ cpu'.pc = "user" /\ cpu'.pstate = "EL0" /\ cpu'.regs = current
    BY Zenon
  <2>1. /\ Owns(current, [sp |-> cpu.regs, elr |-> cpu.pc, spsr |-> cpu.pstate,
                          sp_el0 |-> cpu.sp_el0, as |-> cpu.ttbr0])
        /\ ~booting
    BY DEF IInv, ContextsOwned, LiveOwned, booting
  <2>2. current \in UserTasks /\ cpu.regs = current /\ cpu.pstate = "EL1masked"
    BY <2>1 DEF Owns
  <2>3. svc_return
    BY <2>1, <2>2 DEF Next, vars, BootCreate, irq_enable, sched_tick, sched_sleep_ticks, sys_sleep,
         ksvc_sleep, sched_block, sched_kill, sys_spawn, sched_exit_current, sched_wake_one,
         sched_wake_all, exc_handler_halt, halted
  <2>4. svc[current] = [elr |-> "user", spsr |-> "EL0"]
    BY <2>2 DEF IInv, SvcOwned
  <2>5. cpu' = [cpu EXCEPT !.pc = "user", !.pstate = "EL0"] /\ current' = current
    BY <2>2, <2>3, <2>4 DEF svc_return, eret_syscall
  <2>6. QED
    BY <2>2, <2>5 DEF IInv, TypeOK
<1>2. QED
  BY <1>1, Invariance, PTL DEF Spec, ReturnsToCaller

-----------------------------------------------------------------------------
\* Sched implements TaskLife under the mapping status, owed, wq, current.

LEMMA StatusOf ==
  ASSUME TypeOK
  PROVE  \A t \in Task :
           /\ status[t] = "absent" <=> state[t] = "absent"
           /\ status[t] = "runnable" <=> state[t] = "ready"
           /\ status[t] = "dead" <=> state[t] = "zombie"
           /\ status[t] = "queued" <=> state[t] = "blocked" /\ wake_tick[t] = NoWake
           /\ status[t] = "asleep" <=> state[t] = "blocked" /\ wake_tick[t] # NoWake
           /\ owed[t] = IF status[t] = "asleep" THEN wake_tick[t] ELSE 0
           /\ status[t] \in {"absent", "runnable", "dead", "queued", "asleep"}
BY DEF TypeOK, States, status, owed

\* A switch to a READY task is a Dispatch.
LEMMA SwitchDispatches ==
  ASSUME NEW st, NEW p, switch(st, p)
  PROVE  \E t \in Task : st[t] = "ready" /\ current' = t
BY PickReady DEF switch

LEMMA InitRefines == TypeOK /\ Init => Life!Init
BY DEF Init, Life!Init, status, owed, TypeOK

LEMMA CreateRefines ==
  ASSUME IInv, IInv', NEW t \in Task, create(t)
  PROVE  Life!Create(t)
<1>1. /\ state[t] = "absent" /\ state' = [state EXCEPT ![t] = "ready"]
      /\ UNCHANGED <<wake_tick, wq, current>>
  BY DEF create
<1>2. TypeOK /\ TypeOK'
  BY DEF IInv
<1>3. status' = [status EXCEPT ![t] = "runnable"]
  BY <1>1, <1>2 DEF status, TypeOK
<1>4. owed' = owed
  BY <1>1, <1>2 DEF owed, TypeOK
<1>5. QED
  BY <1>1, <1>2, <1>3, <1>4, StatusOf DEF Life!Create

LEMMA TickRefines ==
  ASSUME IInv, IInv', sched_tick
  PROVE  Life!Tick
<1> DEFINE st == [t \in Task |-> IF due(t) THEN "ready" ELSE state[t]]
           W  == {t \in Task : due(t)}
<1>1. /\ state' = st
      /\ wake_tick' = [t \in Task |-> IF due(t) THEN NoWake ELSE OneLess(wake_tick[t])]
      /\ switch(st, pcb') /\ wq' = wq
  BY DEF sched_tick
<1>2. TypeOK /\ TypeOK'
  BY DEF IInv
<1>3. \A t \in Task : wake_tick[t] \in 0 .. NoWake
  BY <1>2 DEF TypeOK
<1>4. W \in SUBSET {t \in Task : status[t] = "asleep" /\ owed[t] <= 1}
  BY <1>2, <1>3, StatusOf DEF due
<1>5. \A n \in 0 .. NoWake : n # NoWake => OneLess(n) # NoWake /\ OneLess(n) = (IF n = 0 THEN 0 ELSE n - 1)
  BY SleepAssumption DEF OneLess, NoWake
<1>6. OneLess(NoWake) = NoWake
  BY DEF OneLess
<1>7. status' = [t \in Task |-> IF t \in W THEN "runnable" ELSE status[t]]
  <2>1. \A t \in Task : status'[t] = IF t \in W THEN "runnable" ELSE status[t]
    BY <1>1, <1>2, <1>3, <1>5, <1>6 DEF status, due
  <2>2. QED
    BY <2>1 DEF status
<1>8. owed' = [t \in Task |-> IF t \in W \/ owed[t] = 0 THEN 0 ELSE owed[t] - 1]
  <2>1. \A t \in Task : owed'[t] = IF t \in W \/ owed[t] = 0 THEN 0 ELSE owed[t] - 1
    BY <1>1, <1>2, <1>3, <1>5, <1>6 DEF owed, due
  <2>2. QED
    BY <2>1 DEF owed
<1>9. \E t \in Task : status'[t] = "runnable" /\ current' = t
  BY <1>1, <1>2, SwitchDispatches, StatusOf DEF status
<1> HIDE DEF W
<1>10. QED
  BY <1>1, <1>4, <1>7, <1>8, <1>9 DEF Life!Tick, Life!Dispatch

LEMMA SleepRefines ==
  ASSUME IInv, IInv', NEW n \in 0 .. MaxSleep,
         state' = [state EXCEPT ![current] = "blocked"],
         wake_tick' = [wake_tick EXCEPT ![current] = n],
         switch(state', pcb'), wq' = wq
  PROVE  Life!Sleep(n)
<1>1. TypeOK /\ TypeOK' /\ n # NoWake
  BY SleepAssumption DEF IInv, NoWake
<1>2. status' = [status EXCEPT ![current] = "asleep"]
  BY <1>1 DEF status, TypeOK
<1>3. owed' = [owed EXCEPT ![current] = n]
  BY <1>1 DEF owed, TypeOK
<1>4. \E t \in Task : status'[t] = "runnable" /\ current' = t
  BY <1>1, SwitchDispatches, StatusOf DEF status
<1>5. QED
  BY <1>2, <1>3, <1>4 DEF Life!Sleep, Life!Dispatch

LEMMA BlockRefines ==
  ASSUME IInv, IInv', sched_block
  PROVE  Life!Enqueue
<1>1. /\ state' = [state EXCEPT ![current] = "blocked"] /\ wq' = Append(wq, current)
      /\ switch(state', pcb') /\ wake_tick' = wake_tick
  BY DEF sched_block, enqueue
<1>2. TypeOK /\ TypeOK' /\ state[current] = "ready" /\ wake_tick[current] = NoWake
  BY DEF IInv, RunsReady, AwakeNoWake, TypeOK
<1>3. status' = [status EXCEPT ![current] = "queued"]
  BY <1>1, <1>2 DEF status, TypeOK
<1>4. owed' = owed
  BY <1>1, <1>2 DEF owed, TypeOK
<1>5. \E t \in Task : status'[t] = "runnable" /\ current' = t
  BY <1>1, <1>2, SwitchDispatches, StatusOf DEF status
<1>6. QED
  BY <1>1, <1>3, <1>4, <1>5 DEF Life!Enqueue, Life!Dispatch

LEMMA WakeOneRefines ==
  ASSUME IInv, IInv', sched_wake_one
  PROVE  Life!WakeFirst
<1>1. /\ wq # <<>> /\ wq' = Tail(wq) /\ state' = [state EXCEPT ![Head(wq)] = "ready"]
      /\ UNCHANGED <<wake_tick, current>>
  BY DEF sched_wake_one
<1>2. TypeOK /\ TypeOK'
  BY DEF IInv
<1>3. /\ Head(wq) \in Task /\ state[Head(wq)] = "blocked" /\ wake_tick[Head(wq)] = NoWake
  <2>1. 1 \in DOMAIN wq /\ Head(wq) = wq[1] /\ Head(wq) \in Task
    BY <1>1, <1>2 DEF TypeOK, Task
  <2>2. QED
    BY <2>1 DEF IInv, QueueHoldsBlocked
<1>4. status' = [status EXCEPT ![Head(wq)] = "runnable"]
  BY <1>1, <1>2, <1>3 DEF status, TypeOK
<1>5. owed' = owed
  BY <1>1, <1>2, <1>3 DEF owed, TypeOK
<1>6. QED
  BY <1>1, <1>4, <1>5 DEF Life!WakeFirst

LEMMA WakeAllRefines ==
  ASSUME IInv, IInv', sched_wake_all
  PROVE  Life!WakeAll
<1>1. /\ wq' = <<>>
      /\ state' = [t \in Task |-> IF \E i \in DOMAIN wq : wq[i] = t THEN "ready" ELSE state[t]]
      /\ UNCHANGED <<wake_tick, current>>
  BY DEF sched_wake_all, emptied
<1>2. TypeOK /\ TypeOK'
  BY DEF IInv
<1>3. \A t \in Task : (\E i \in DOMAIN wq : wq[i] = t)
                       <=> (state[t] = "blocked" /\ wake_tick[t] = NoWake)
  BY DEF IInv, QueueHoldsBlocked
<1>4. status' = [t \in Task |-> IF status[t] = "queued" THEN "runnable" ELSE status[t]]
  BY <1>1, <1>2, <1>3 DEF status, TypeOK
<1>5. owed' = owed
  BY <1>1, <1>2, <1>3 DEF owed, TypeOK
<1>6. QED
  BY <1>1, <1>4, <1>5 DEF Life!WakeAll

LEMMA ExitRefines ==
  ASSUME IInv, IInv', sched_exit_current
  PROVE  Life!Exit
<1>1. /\ state' = [state EXCEPT ![current] = "zombie"] /\ switch(state', pcb)
      /\ UNCHANGED <<wq, wake_tick>>
  BY DEF sched_exit_current
<1>2. TypeOK /\ TypeOK' /\ state[current] = "ready"
  BY DEF IInv, RunsReady
<1>3. status' = [status EXCEPT ![current] = "dead"]
  BY <1>1, <1>2 DEF status, TypeOK
<1>4. owed' = owed
  BY <1>1, <1>2 DEF owed, TypeOK
<1>5. \E t \in Task : status'[t] = "runnable" /\ current' = t
  BY <1>1, <1>2, SwitchDispatches, StatusOf DEF status
<1>6. QED
  BY <1>1, <1>3, <1>4, <1>5 DEF Life!Exit, Life!Dispatch

LEMMA KillRefines ==
  ASSUME IInv, IInv', NEW t \in UserTasks, sched_kill(t)
  PROVE  Life!Kill(t) \/ UNCHANGED <<status, owed, wq, current>>
<1>1. /\ current = Compositor /\ state[t] # "absent" /\ state' = [state EXCEPT ![t] = "zombie"]
      /\ UNCHANGED <<wake_tick, wq, current>>
  BY DEF sched_kill
<1>2. TypeOK /\ TypeOK' /\ t \in Task /\ t # current /\ t \notin KernelTasks
  BY <1>1, TaskAssumption DEF IInv, Task
<1>3. ~(state[t] = "blocked" /\ wake_tick[t] = NoWake)
  BY <1>2 DEF IInv, QueueHoldsBlocked, TypeOK
<1>4. CASE state[t] = "zombie"
  BY <1>1, <1>2, <1>4 DEF status, owed, TypeOK
<1>5. CASE state[t] # "zombie"
  <2>1. status' = [status EXCEPT ![t] = "dead"] /\ owed' = [owed EXCEPT ![t] = 0]
    BY <1>1, <1>2 DEF status, owed, TypeOK
  <2>2. status[t] \in {"runnable", "asleep"}
    BY <1>1, <1>2, <1>3, <1>5, StatusOf
  <2>3. QED
    BY <1>1, <1>2, <2>1, <2>2 DEF Life!Kill
<1>6. QED
  BY <1>4, <1>5

LEMMA NextRefines ==
  ASSUME IInv, IInv', [Next]_vars
  PROVE  [Life!Next]_(Life!lifeVars)
<1> USE TaskAssumption
<1>1. CASE UNCHANGED <<state, wake_tick, wq, current>>
  BY <1>1 DEF Life!lifeVars, status, owed
<1>2. CASE \E t \in KernelTasks \cup BootUsers : BootCreate(t)
  BY <1>2, CreateRefines DEF BootCreate, Life!Next, Task
<1>3. CASE sched_tick
  BY <1>3, TickRefines DEF Life!Next
<1>4. CASE \E n \in 1 .. MaxSleep : sched_sleep_ticks(n) \/ sys_sleep(n)
  <2> PICK n \in 1 .. MaxSleep : sched_sleep_ticks(n) \/ sys_sleep(n)
    BY <1>4
  <2>1. CASE sched_sleep_ticks(n)
    BY <1>1, <2>1 DEF sched_sleep_ticks
  <2>2. CASE sys_sleep(n)
    <3>1. n \in 0 .. MaxSleep
      BY SleepAssumption
    <3>2. Life!Sleep(n)
      BY <2>2, <3>1, SleepRefines DEF sys_sleep
    <3>3. QED
      BY <3>1, <3>2 DEF Life!Next
  <2>3. QED
    BY <2>1, <2>2
<1>5. CASE ksvc_sleep
  <2>1. deadline[current] \in 0 .. MaxSleep
    <3>1. deadline[current] \in 0 .. NoWake
      BY DEF IInv, TypeOK
    <3>2. deadline[current] # NoWake
      BY <1>5, KernelOwns DEF IInv, DeadlineSet, ksvc_sleep
    <3>3. QED
      BY <3>1, <3>2, SleepAssumption DEF NoWake
  <2>2. Life!Sleep(deadline[current])
    BY <1>5, <2>1, SleepRefines DEF ksvc_sleep
  <2>3. QED
    BY <2>1, <2>2 DEF Life!Next
<1>6. CASE sched_block
  BY <1>6, BlockRefines DEF Life!Next
<1>7. CASE \E t \in UserTasks : sched_kill(t) \/ sys_spawn(t)
  <2> PICK t \in UserTasks : sched_kill(t) \/ sys_spawn(t)
    BY <1>7
  <2>1. t \in Task
    BY DEF Task
  <2>2. CASE sched_kill(t)
    BY <2>1, <2>2, KillRefines DEF Life!Next, Life!lifeVars
  <2>3. CASE sys_spawn(t)
    BY <2>1, <2>3, CreateRefines DEF sys_spawn, Life!Next
  <2>4. QED
    BY <2>2, <2>3
<1>8. CASE sched_exit_current
  BY <1>8, ExitRefines DEF Life!Next
<1>9. CASE sched_wake_one
  BY <1>9, WakeOneRefines DEF Life!Next
<1>10. CASE sched_wake_all
  BY <1>10, WakeAllRefines DEF Life!Next
<1>11. CASE irq_enable \/ svc_return \/ exc_handler_halt \/ halted \/ UNCHANGED vars
  BY <1>1, <1>11 DEF irq_enable, svc_return, exc_handler_halt, halted, vars
<1>12. QED
  BY <1>2, <1>3, <1>4, <1>5, <1>6, <1>7, <1>8, <1>9, <1>10, <1>11 DEF Next

\* Every behaviour of the scheduler is one the interface of sched.h promises:
\* the dead stay dead, sleepers get their ticks, waiters are served in order.
THEOREM Refinement == Spec => ImplementsLife
<1>1. Init => Life!Init
  BY InitIInv, InitRefines DEF IInv
<1>2. IInv /\ IInv' /\ [Next]_vars => [Life!Next]_(Life!lifeVars)
  BY NextRefines
<1>3. QED
  BY <1>1, <1>2, Invariance, PTL DEF Spec, ImplementsLife, Life!LifeSpec


-----------------------------------------------------------------------------
\* The ring.

RingInv == \E size, ring : IsRing(Linked, next, size, ring)

LEMMA InitRing == Init => RingInv
<1> SUFFICES ASSUME Init PROVE RingInv
  OBVIOUS
<1>1. Linked = {Kmain} /\ next[Kmain] = Kmain
  BY DEF Init, Linked, Task
<1>2. PICK ring : ring = [i \in 1 .. 1 |-> Kmain]
  OBVIOUS
<1>3. IsRing(Linked, next, 1, ring)
  BY <1>1, <1>2 DEF IsRing, after
<1> QED
  BY <1>3 DEF RingInv

LEMMA LinkKeepsRing ==
  ASSUME IInv, RingInv, NEW t \in Task, create(t)
  PROVE  RingInv'
<1>1. PICK size, ring : IsRing(Linked, next, size, ring)
  BY DEF RingInv
<1>2. current \in Linked /\ t \notin Linked /\ next \in [Task -> Task \cup {None}] /\ t # current
  BY DEF IInv, RunsReady, TypeOK, Linked, create
<1>3. Linked' = Linked \cup {t}
  BY DEF IInv, TypeOK, Linked, create
<1>4. /\ next'[t] = next[current] /\ next'[current] = t
      /\ \A x \in Linked : x # current => next'[x] = next[x]
  BY <1>2 DEF create, link, Linked
<1>5. \E q : IsRing(Linked \cup {t}, next', size + 1, q)
  BY <1>1, <1>2, <1>4, RingInserted
<1> QED
  BY <1>3, <1>5 DEF RingInv

\* No other step links a task or takes one out.
LEMMA OthersLinked ==
  ASSUME IInv, [Next]_vars, ~ \E t \in Task : create(t)
  PROVE  UNCHANGED next /\ Linked' = Linked
<1>1. TypeOK /\ RunsReady /\ QueueHoldsBlocked
  BY DEF IInv
<1>2. CASE sched_tick
  <2>1. state' = [t \in Task |-> IF due(t) THEN "ready" ELSE state[t]] /\ UNCHANGED next
    BY <1>2 DEF sched_tick
  <2>2. \A t \in Task : due(t) => state[t] # "absent"
    BY DEF due
  <2> QED
    BY <2>1, <2>2 DEF Linked
<1>3. CASE ksvc_sleep \/ sched_block \/ sched_exit_current \/ \E n \in 1 .. MaxSleep : sys_sleep(n)
  <2>1. /\ UNCHANGED next
        /\ \E st \in {"blocked", "zombie"} : state' = [state EXCEPT ![current] = st]
    BY <1>3 DEF ksvc_sleep, sched_block, sched_exit_current, sys_sleep
  <2> QED
    BY <1>1, <2>1 DEF Linked, TypeOK, RunsReady
<1>4. CASE \E t \in UserTasks : sched_kill(t)
  BY <1>1, <1>4 DEF sched_kill, Linked, TypeOK
<1>5. \A i \in DOMAIN wq : wq[i] \in Task /\ state[wq[i]] # "absent"
  BY <1>1, TaskAssumption DEF TypeOK, QueueHoldsBlocked, Task
<1>6. CASE sched_wake_one
  <2>1. Head(wq) = wq[1] /\ 1 \in DOMAIN wq
    BY <1>1, <1>6 DEF sched_wake_one, TypeOK
  <2> QED
    BY <1>1, <1>5, <1>6, <2>1 DEF sched_wake_one, Linked, TypeOK
<1>7. CASE sched_wake_all
  BY <1>5, <1>7 DEF sched_wake_all, Linked
<1>8. CASE \/ irq_enable \/ svc_return \/ exc_handler_halt \/ halted \/ UNCHANGED vars
           \/ \E n \in 1 .. MaxSleep : sched_sleep_ticks(n)
  BY <1>8 DEF irq_enable, svc_return, exc_handler_halt, halted, vars, sched_sleep_ticks, Linked
<1>9. ~ (\E t \in KernelTasks \cup BootUsers : BootCreate(t)) /\ ~ \E t \in UserTasks : sys_spawn(t)
  BY TaskAssumption DEF BootCreate, sys_spawn, Task
<1> QED
  BY <1>2, <1>3, <1>4, <1>6, <1>7, <1>8, <1>9 DEF Next

LEMMA NextRing == IInv /\ RingInv /\ [Next]_vars => RingInv'
<1> SUFFICES ASSUME IInv, RingInv, [Next]_vars PROVE RingInv'
  OBVIOUS
<1>1. CASE \E t \in Task : create(t)
  BY <1>1, LinkKeepsRing
<1>2. CASE ~ \E t \in Task : create(t)
  BY <1>2, OthersLinked DEF RingInv
<1> QED
  BY <1>1, <1>2

LEMMA RingCloses == IInv /\ RingInv => RingClosed
<1> SUFFICES ASSUME IInv, RingInv PROVE RingClosed
  OBVIOUS
<1>1. PICK size, ring : IsRing(Linked, next, size, ring)
  BY DEF RingInv
<1>2. Cardinality(Linked) = size /\ size \in Nat \ {0}
  <2>1. Cardinality(Linked) = size
    BY <1>1, RingSize
  <2> QED
    BY <1>1, <2>1 DEF IsRing
<1>3. PICK k \in 1 .. size : ring[k] = current
  BY <1>1 DEF IsRing, IInv, TypeOK, RunsReady, Linked
<1>4. Walk = [n \in Nat |-> IF n = 0 THEN current ELSE next[Walk[n - 1]]]
  <2>1. \E w : IsWalk(w, next, current)
    BY WalkThere
  <2>2. Walk = CHOOSE w : IsWalk(w, next, current)
    BY DEF Walk, IsWalk
  <2> QED
    BY <2>1, <2>2 DEF IsWalk
<1>5. PICK w : w = Walk
  OBVIOUS
<1>6. w[0] = ring[k] /\ \A n \in 1 .. size : w[n] = next[w[n - 1]]
  BY <1>2, <1>3, <1>4, <1>5
<1>7. {w[n] : n \in 1 .. size} = Linked /\ w[size] = current
  BY <1>1, <1>3, <1>6, RingWalked
<1> QED
  BY <1>2, <1>5, <1>7 DEF RingClosed

\* Tasks are linked in behind whichever is running, and never taken out: the
\* walks of the list meet each task once and end (sched.c:132-133).
THEOREM RingAlwaysClosed == Spec => []RingClosed
<1>1. Init => RingInv
  BY InitRing
<1>2. IInv /\ RingInv /\ [Next]_vars => RingInv'
  BY NextRing
<1>3. IInv /\ RingInv => RingClosed
  BY RingCloses
<1> QED
  BY <1>1, <1>2, <1>3, Invariance, PTL DEF Spec
=============================================================================
