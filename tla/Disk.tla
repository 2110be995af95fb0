-------------------------------- MODULE Disk --------------------------------
(***************************************************************************)
(* What virtio_blk.h promises the file system: a sector read or written on *)
(* the caller's own buffer by the time 0 is returned, nothing promised for *)
(* a call that returns -1. A call that gave up waiting leaves its request  *)
(* with the device, and the driver has no way to tell its completion from  *)
(* the next one's: from then on (broken) nothing is promised.              *)
(***************************************************************************)
CONSTANTS Client, Sector, Value

VARIABLES stored,   \* the sectors of the disk
          buf,      \* the buffer each caller hands over
          call,     \* the call each caller is in: [op, sector, done]
          answer,   \* what its last call returned
          broken    \* some call has timed out

diskVars == <<stored, buf, call, answer, broken>>

Idle(c) == call[c].op = "idle"

Init ==
  /\ \A c \in Client : Idle(c) /\ ~call[c].done /\ answer[c] = "none"
  /\ broken = FALSE

Begin(c, op, s) ==
  /\ Idle(c)
  /\ call' = [call EXCEPT ![c] = [op |-> op, sector |-> s, done |-> FALSE]]
  /\ answer' = [answer EXCEPT ![c] = "none"]
  /\ UNCHANGED <<stored, broken>>

Read(c, s) == Begin(c, "in", s) /\ UNCHANGED buf

Write(c, s, v) == Begin(c, "out", s) /\ buf' = [buf EXCEPT ![c] = v]

\* The transfer: at one instant between the call and its return.
Do(c) ==
  /\ ~Idle(c)
  /\ ~call[c].done
  /\ call' = [call EXCEPT ![c].done = TRUE]
  /\ \/ call[c].op = "in" /\ buf' = [buf EXCEPT ![c] = stored[call[c].sector]] /\ UNCHANGED stored
     \/ call[c].op = "out" /\ stored' = [stored EXCEPT ![call[c].sector] = buf[c]] /\ UNCHANGED buf
  /\ UNCHANGED <<answer, broken>>

Return(c, result) ==
  /\ ~Idle(c)
  /\ call' = [call EXCEPT ![c].op = "idle"]
  /\ answer' = [answer EXCEPT ![c] = result]
  /\ UNCHANGED <<stored, buf>>

Succeed(c) == call[c].done /\ Return(c, "ok") /\ UNCHANGED broken

Fail(c) == Return(c, "failed") /\ UNCHANGED broken

GiveUp(c) == Return(c, "failed") /\ broken' = TRUE

Next ==
  \E c \in Client :
    \/ \E s \in Sector : Read(c, s) \/ \E v \in Value : Write(c, s, v)
    \/ Do(c)
    \/ Succeed(c)
    \/ Fail(c)
    \/ GiveUp(c)

Spec == Init /\ [][Next \/ (broken /\ broken')]_diskVars
=============================================================================
