----------------------------- MODULE EventQueue -----------------------------
(***************************************************************************)
(* One window's event queue (kernel/gfx/compositor.c, evq_t), an access at *)
(* a time: push_event() runs in compositor_task with IRQs open, and the    *)
(* window's process may take an event with SYS_POLL_INPUT, IRQs masked,    *)
(* between any two of its accesses.                                        *)
(*                                                                         *)
(* An event stands for its number, 0 for what the ring holds at boot.      *)
(***************************************************************************)
EXTENDS Naturals, SequencesExt

CONSTANTS
  EVQ_SIZE,
  MaxEvents    \* bound: events the devices send

VARIABLES
  q, head, tail, count,
  push,      \* push_event(): where it is, and the count it has loaded
  sent,      \* the events accepted so far, oldest first
  got        \* those the process was given

queueVars == <<q, head, tail, count, push, sent, got>>

Returned == [at |-> "idle", count |-> 0]

\* if (q->count >= EVQ_SIZE) return;
push_event ==
  /\ push.at = "idle"
  /\ Len(sent) < MaxEvents
  /\ count < EVQ_SIZE
  /\ sent' = Append(sent, Len(sent) + 1)
  /\ push' = [at |-> "store", count |-> count]
  /\ UNCHANGED <<q, head, tail, count, got>>

\* q->q[q->tail] = ...; the tail moves on.
store ==
  /\ push.at = "store"
  /\ q' = [q EXCEPT ![tail] = Len(sent)]
  /\ tail' = (tail + 1) % EVQ_SIZE
  /\ push' = [push EXCEPT !.at = "load"]
  /\ UNCHANGED <<head, count, sent, got>>

\* The load of q->count++, unless the compiler has kept the one of the test.
load_count ==
  /\ push.at = "load"
  /\ \E c \in {count, push.count} : push' = [at |-> "count", count |-> c]
  /\ UNCHANGED <<q, head, tail, count, sent, got>>

store_count ==
  /\ push.at = "count"
  /\ count' = push.count + 1
  /\ push' = Returned
  /\ UNCHANGED <<q, head, tail, sent, got>>

pop_event ==
  /\ count # 0
  /\ got' = Append(got, q[head])
  /\ head' = (head + 1) % EVQ_SIZE
  /\ count' = count - 1
  /\ UNCHANGED <<q, tail, push, sent>>

InitQueue ==
  /\ q = [i \in 0 .. EVQ_SIZE - 1 |-> 0]
  /\ head = 0 /\ tail = 0 /\ count = 0
  /\ push = Returned
  /\ sent = <<>> /\ got = <<>>

NextQueue == push_event \/ store \/ load_count \/ store_count \/ pop_event

SpecQueue == InitQueue /\ [][NextQueue]_queueVars

\* "Returns 1 with *out filled if an event was waiting for this window"
\* (compositor.h:78-79): what the process is given are the events sent to its
\* window, in their order, each once.
PollGivesWaiting == IsPrefix(got, sent)
=============================================================================
