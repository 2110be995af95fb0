------------------------------- MODULE Spawn --------------------------------
(***************************************************************************)
(* Task creation store by store: alloc_task() and task_create_user()       *)
(* (kernel/sched/sched.c) as the two callers reach them after boot.        *)
(*                                                                         *)
(* SYS_SPAWN runs inside svc_handler() with IRQs masked and is one action. *)
(* The shell's `run` command calls spawn_elf_bytes() from an EL1 task with *)
(* IRQs open: the timer may fall between any two of its stores, and a      *)
(* process scheduled there may itself spawn or exit.  Module Sched takes   *)
(* creation as one step; this module is where that is questioned.          *)
(***************************************************************************)
EXTENDS Naturals, FiniteSets

CONSTANTS
  Kmain,   \* task0, pid 0
  Shell,   \* the one task that spawns with IRQs open
  Booted,  \* processes already running when the shell starts
  Users,   \* processes there will ever be
  None

ASSUME SpawnAssumption ==
  /\ Kmain # Shell
  /\ {Kmain, Shell} \cap Users = {}
  /\ Booted \subseteq Users
  /\ IsFiniteSet(Users)
  /\ None \notin Users \cup {Kmain, Shell}

Task == {Kmain, Shell} \cup Users

VARIABLES
  next,      \* the PCBs' round-robin links
  state,     \* "absent" (no PCB), "new" (allocated, unlinked), "ready", "zombie"
  pid,
  next_pid,
  filled,    \* tasks whose elr, spsr, sp_el0 and as have been assigned
  current,
  run        \* the shell's call: where it is, the PCB it builds, the next_pid it read

vars == <<next, state, pid, next_pid, filled, current, run>>

Steps == {"idle", "alloc", "count", "chain", "link", "fill"}

Linked == {t \in Task : state[t] \in {"ready", "zombie"}}

-----------------------------------------------------------------------------
\* Walks of the ring.

From(t) == LET walk[n \in Nat] == IF n = 0 THEN t ELSE next[walk[n - 1]] IN walk

\* pick_next(): the first READY task after the current one, under the states st.
pick_next(st, t) ==
  \E n \in 1 .. Cardinality(Task) :
    /\ From(current)[n] = t
    /\ st[t] = "ready"
    /\ \A m \in 1 .. n - 1 : st[From(current)[m]] # "ready"

\* sched_task_alive(): the answer is that of the first task with this pid.
sched_task_alive(p) ==
  \E n \in 0 .. Cardinality(Task) - 1 :
    /\ pid[From(Kmain)[n]] = p
    /\ state[From(Kmain)[n]] # "zombie"
    /\ \A m \in 0 .. n - 1 : pid[From(Kmain)[m]] # p

\* A task runs its own code only if its context was complete when dispatched.
Runs(t) == current = t /\ t \in filled

-----------------------------------------------------------------------------
\* The shell's `run`, one action per store another task could observe.

\* fat16_read_file(), vmm_new_addrspace(), elf_load(), and the two kmalloc()s.
run_run(t) ==
  /\ Runs(Shell)
  /\ run.at = "idle"
  /\ state[t] = "absent"
  /\ state' = [state EXCEPT ![t] = "new"]
  /\ run' = [run EXCEPT !.at = "alloc", !.new = t]
  /\ UNCHANGED <<next, pid, next_pid, filled, current>>

\* t->pid = next_pid++: a load, then a store.
alloc_read_pid ==
  /\ Runs(Shell)
  /\ run.at = "alloc"
  /\ pid' = [pid EXCEPT ![run.new] = next_pid]
  /\ run' = [run EXCEPT !.at = "count", !.seen = next_pid]
  /\ UNCHANGED <<next, state, next_pid, filled, current>>

\* The ++ of next_pid++.
plus_one(n) == n + 1

alloc_count_pid ==
  /\ Runs(Shell)
  /\ run.at = "count"
  /\ next_pid' = plus_one(run.seen)
  /\ run' = [run EXCEPT !.at = "chain"]
  /\ UNCHANGED <<next, state, pid, filled, current>>

anchor_task0 == Kmain

\* A new PCB goes right after the running task, whose own link nobody else
\* writes; task0's could be written by a process while the shell is preempted.
anchor == current

\* t->next = current->next, while nobody can reach t yet.
alloc_chain ==
  /\ Runs(Shell)
  /\ run.at = "chain"
  /\ next' = [next EXCEPT ![run.new] = next[anchor]]
  /\ run' = [run EXCEPT !.at = "link"]
  /\ UNCHANGED <<state, pid, next_pid, filled, current>>

\* current->next = t: a READY task from here on.
alloc_link ==
  /\ Runs(Shell)
  /\ run.at = "link"
  /\ next' = [next EXCEPT ![anchor] = run.new]
  /\ state' = [state EXCEPT ![run.new] = "ready"]
  /\ run' = [run EXCEPT !.at = "fill"]
  /\ UNCHANGED <<pid, next_pid, filled, current>>

\* Back in task_create_user(): elr, spsr, sp_el0, as.
task_create_user ==
  /\ Runs(Shell)
  /\ run.at = "fill"
  /\ filled' = filled \cup {run.new}
  /\ run' = [run EXCEPT !.at = "idle", !.new = None]
  /\ UNCHANGED <<next, state, pid, next_pid, current>>

-----------------------------------------------------------------------------
\* The rest of the system, between any two of those stores.

\* SYS_SPAWN by the running process: all of the above in one masked step.
sys_spawn(t) ==
  /\ \E u \in Users : Runs(u)
  /\ state[t] = "absent"
  /\ next' = [next EXCEPT ![t] = next[anchor], ![anchor] = t]
  /\ state' = [state EXCEPT ![t] = "ready"]
  /\ pid' = [pid EXCEPT ![t] = next_pid]
  /\ next_pid' = plus_one(next_pid)
  /\ filled' = filled \cup {t}
  /\ UNCHANGED <<current, run>>

sched_tick ==
  /\ Runs(current)
  /\ \E t \in Task : pick_next(state, t) /\ current' = t
  /\ UNCHANGED <<next, state, pid, next_pid, filled, run>>

\* SYS_EXIT of the running process.
sched_exit_current ==
  LET st == [state EXCEPT ![current] = "zombie"]
  IN  /\ \E u \in Users : Runs(u)
      /\ state' = st
      /\ \E t \in Task : pick_next(st, t) /\ current' = t
      /\ UNCHANGED <<next, pid, next_pid, filled, run>>

\* A PCB dispatched before it was filled restores whatever kmalloc()'s memory
\* held; nothing of the system is modelled after that.
lost == current \notin filled /\ UNCHANGED vars

-----------------------------------------------------------------------------

\* After boot: each task kmain created got the next pid and a place right after
\* kmain, so the ring counts the pids down (all of it precedes irq_enable()).
Init ==
  /\ state = [t \in Task |-> IF t \in Users \ Booted THEN "absent" ELSE "ready"]
  /\ \E number \in [{Kmain, Shell} \cup Booted -> 0 .. Cardinality(Booted) + 1] :
       LET last == Cardinality(Booted) + 1
           Numbered(n) == CHOOSE t \in DOMAIN number : number[t] = n
       IN  /\ number[Kmain] = 0
           /\ \A t, u \in DOMAIN number : number[t] = number[u] => t = u
           /\ pid = [t \in Task |-> IF t \in DOMAIN number THEN number[t] ELSE 0]
           /\ next = [t \in Task |-> IF t \notin DOMAIN number THEN None
                                     ELSE IF t = Kmain THEN Numbered(last)
                                     ELSE Numbered(number[t] - 1)]
  /\ next_pid = Cardinality(Booted) + 2
  /\ filled = {Kmain, Shell} \cup Booted
  /\ current = Kmain
  /\ run = [at |-> "idle", new |-> None, seen |-> 0]

Next ==
  \/ \E t \in Users : run_run(t) \/ sys_spawn(t)
  \/ alloc_read_pid
  \/ alloc_count_pid
  \/ alloc_chain
  \/ alloc_link
  \/ task_create_user
  \/ sched_tick
  \/ sched_exit_current
  \/ lost

Spec == Init /\ [][Next]_vars

-----------------------------------------------------------------------------
\* Properties.

\* Linking is safe under preemption although nothing locks the ring: every
\* linked task, and no other, is on the one cycle through task0, whatever is
\* linked between the shell's two stores (sched.c:132-133).
RingClosed ==
  LET k == Cardinality(Linked)
  IN  /\ {From(Kmain)[n] : n \in 0 .. k - 1} = Linked
      /\ From(Kmain)[k] = Kmain

\* "Registers a new EL1 (kernel-mode) task that starts executing at `entry`
\* once scheduled" (sched.h:26), and likewise at entry_va (sched.h:33): a task
\* dispatched has been given the context it is to start with.
StartsAtEntry == current \in filled

\* "1 if `pid` names a task that exists and hasn't exited" (sched.h:99): the
\* compositor frees the window of a process this says is gone.
AliveAnswersTrue ==
  \A t \in Linked : state[t] = "ready" /\ t # run.new => sched_task_alive(pid[t])
=============================================================================
