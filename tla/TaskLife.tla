------------------------------ MODULE TaskLife ------------------------------
(***************************************************************************)
(* What the scheduler promises its callers (kernel/sched/sched.h), with no *)
(* ring, saved contexts or registers: one runnable task runs at a time, a  *)
(* dead task stays dead, a sleeper is not woken before its ticks have      *)
(* passed, and a wait queue is first in, first out.                        *)
(***************************************************************************)
EXTENDS Naturals, Sequences

CONSTANTS Task, First, MaxSleep

VARIABLES
  status,   \* the life of each task
  owed,     \* ticks a sleeper must still be left alone for
  queue,    \* tasks waiting to be woken by another one
  running

lifeVars == <<status, owed, queue, running>>

Status == {"absent", "runnable", "asleep", "queued", "dead"}

Dispatch(st) == \E t \in Task : st[t] = "runnable" /\ running' = t

Init ==
  /\ status = [t \in Task |-> IF t = First THEN "runnable" ELSE "absent"]
  /\ owed = [t \in Task |-> 0]
  /\ queue = <<>>
  /\ running = First

Create(t) ==
  /\ status[t] = "absent"
  /\ status' = [status EXCEPT ![t] = "runnable"]
  /\ UNCHANGED <<owed, queue, running>>

Tick ==
  \E W \in SUBSET {t \in Task : status[t] = "asleep" /\ owed[t] <= 1} :
    /\ status' = [t \in Task |-> IF t \in W THEN "runnable" ELSE status[t]]
    /\ owed' = [t \in Task |-> IF t \in W \/ owed[t] = 0 THEN 0 ELSE owed[t] - 1]
    /\ Dispatch(status')
    /\ UNCHANGED queue

Sleep(n) ==
  /\ status' = [status EXCEPT ![running] = "asleep"]
  /\ owed' = [owed EXCEPT ![running] = n]
  /\ Dispatch(status')
  /\ UNCHANGED queue

Enqueue ==
  /\ status' = [status EXCEPT ![running] = "queued"]
  /\ queue' = Append(queue, running)
  /\ Dispatch(status')
  /\ UNCHANGED owed

WakeFirst ==
  /\ queue # <<>>
  /\ status' = [status EXCEPT ![Head(queue)] = "runnable"]
  /\ queue' = Tail(queue)
  /\ UNCHANGED <<owed, running>>

WakeAll ==
  /\ status' = [t \in Task |-> IF status[t] = "queued" THEN "runnable" ELSE status[t]]
  /\ queue' = <<>>
  /\ UNCHANGED <<owed, running>>

Exit ==
  /\ status' = [status EXCEPT ![running] = "dead"]
  /\ Dispatch(status')
  /\ UNCHANGED <<owed, queue>>

Kill(t) ==
  /\ t # running
  /\ status[t] \in {"runnable", "asleep"}
  /\ status' = [status EXCEPT ![t] = "dead"]
  /\ owed' = [owed EXCEPT ![t] = 0]
  /\ UNCHANGED <<queue, running>>

Next ==
  \/ \E t \in Task : Create(t) \/ Kill(t)
  \/ Tick
  \/ \E n \in 0 .. MaxSleep : Sleep(n)
  \/ Enqueue
  \/ WakeFirst
  \/ WakeAll
  \/ Exit

LifeSpec == Init /\ [][Next]_lifeVars
=============================================================================
