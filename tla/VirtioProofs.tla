---------------------------- MODULE VirtioProofs ----------------------------
(***************************************************************************)
(* The two virtio drivers that keep to themselves.                         *)
(*                                                                         *)
(* The block driver implements Disk whenever no caller can be interrupted  *)
(* by another: with IRQs masked in every one, or with nobody preempting.   *)
(* The invariant says, for each point of a call, where the one request is  *)
(* and what the three indices and the status byte are; it is claimed until *)
(* the first timeout, after which Disk promises nothing.                   *)
(*                                                                         *)
(* An input device's events come back in order and whole, as long as no    *)
(* poll is interrupted by another.  The invariant counts the events under  *)
(* way and says which buffers they are in.                                 *)
(***************************************************************************)
EXTENDS VirtioBlk, VirtioInput, SharedFacts

Exclusive == ~Preempt \/ Client \subseteq Masked

Active(c) == stage[c] # "idle"

Idx == 0 .. IdxMod - 1

TypeBlk ==
  /\ req_hdr \in Request
  /\ req_status \in {"sentinel", "ok", "error"}
  /\ desc \in [buf : Client, write : BOOLEAN]
  /\ avail \in Idx /\ used \in Idx /\ last_used_idx \in Idx /\ popped \in Idx
  /\ flight \subseteq [n : Idx, ask : Request, buf : Client, write : BOOLEAN]
  /\ stage \in [Client -> Stages]
  /\ ask \in [Client -> Request]
  /\ avail_idx \in [Client -> Idx]
  /\ timeouts \in Nat
  /\ result \in [Client -> {"none", "ok", "failed"}]
  /\ moved \in [Client -> BOOLEAN]

OneCall == \A c, d \in Client : Active(c) /\ Active(d) => c = d

\* Nothing is with the device, nothing waits to be taken.
QueueEmpty == flight = {} /\ popped = avail /\ used = avail /\ last_used_idx = avail

\* The shared structures hold c's request; the descriptor from stage "avail" on.
HeaderOf(c) == req_hdr = ask[c] /\ req_status = "sentinel" /\ ~moved[c]
DescOf(c) == desc = [buf |-> c, write |-> ask[c].type = "in"]

Done(c) == req_status \in {"ok", "error"} /\ (req_status = "ok" => moved[c])

\* c's request is published: still in the ring, in work, or done.
Waiting(c) ==
  /\ flight = {} /\ popped = last_used_idx /\ used = last_used_idx
  /\ avail = plus(last_used_idx)
  /\ HeaderOf(c) /\ DescOf(c)

InWork(c) ==
  /\ flight = {[n |-> last_used_idx, ask |-> ask[c], buf |-> c, write |-> ask[c].type = "in"]}
  /\ avail = plus(last_used_idx) /\ popped = avail /\ used = last_used_idx
  /\ ~moved[c]

Completed(c) ==
  /\ flight = {} /\ avail = plus(last_used_idx) /\ popped = avail /\ used = avail
  /\ Done(c)

AtStage(c) ==
  /\ stage[c] = "desc" => QueueEmpty /\ HeaderOf(c)
  /\ stage[c] = "avail" => QueueEmpty /\ HeaderOf(c) /\ DescOf(c)
  /\ stage[c] = "publish" => QueueEmpty /\ HeaderOf(c) /\ DescOf(c) /\ avail_idx[c] = avail
  /\ stage[c] = "poll" => Waiting(c) \/ InWork(c) \/ Completed(c)
  /\ stage[c] = "take" => Completed(c)
  /\ stage[c] = "status" => QueueEmpty /\ Done(c)

Kept ==
  /\ (\A c \in Client : ~Active(c)) => QueueEmpty
  /\ \A c \in Client : AtStage(c)

IInv == TypeBlk /\ OneCall /\ (timeouts = 0 => Kept)

-----------------------------------------------------------------------------

\* Indices stay in range and never stand still.
LEMMA PlusMoves == \A i \in Idx : plus(i) \in Idx /\ plus(i) # i
BY BlkAssumption DEF Idx, plus

\* With the callers exclusive, a step of one finds the others outside.
LEMMA Alone == ASSUME Exclusive, NEW c \in Client, HasCpu(c)
               PROVE \A d \in Client \ {c} : stage[d] = "idle"
BY DEF Exclusive, HasCpu

LEMMA InitInv == InitBlk => IInv
<1> SUFFICES ASSUME InitBlk PROVE IInv
  OBVIOUS
<1>1. TypeBlk
  <2>1. desc \in [buf : Client, write : BOOLEAN]
    BY DEF InitBlk
  <2>2. 0 \in Idx
    BY BlkAssumption DEF Idx
  <2>3. ask \in [Client -> Request] /\ moved \in [Client -> BOOLEAN] /\ stage \in [Client -> Stages]
    BY DEF InitBlk, Stages
  <2>4. avail_idx \in [Client -> Idx]
    BY <2>2 DEF InitBlk
  <2> QED
    BY <2>1, <2>2, <2>3, <2>4 DEF InitBlk, TypeBlk
<1>2. \A c \in Client : stage[c] = "idle"
  BY DEF InitBlk
<1>3. OneCall
  BY <1>2 DEF OneCall, Active
<1>4. Kept
  BY <1>2 DEF InitBlk, Kept, AtStage, QueueEmpty
<1> QED
  BY <1>1, <1>3, <1>4 DEF IInv

-----------------------------------------------------------------------------

LEMMA TypeStep == TypeBlk /\ [NextBlk]_blkVars => TypeBlk'
<1> SUFFICES ASSUME TypeBlk, [NextBlk]_blkVars PROVE TypeBlk'
  OBVIOUS
<1> USE DEF TypeBlk
<1>1. ASSUME NEW c \in Client, NEW s \in Sector, NEW t \in {"in", "out"}, header(c, t, s)
      PROVE TypeBlk'
  <2>1. [type |-> t, sector |-> s] \in Request
    BY DEF Request
  <2> QED
    BY <1>1, <2>1 DEF header, Goes, Stages, deviceVars
<1>2. ASSUME NEW c \in Client, set_desc(c) PROVE TypeBlk'
  BY <1>2 DEF set_desc, Goes, Stages, deviceVars, device_writes
<1>3. ASSUME NEW c \in Client, load_avail(c) PROVE TypeBlk'
  BY <1>3 DEF load_avail, Goes, Stages, deviceVars, sharedVars
<1>4. ASSUME NEW c \in Client, publish(c) PROVE TypeBlk'
  BY <1>4, PlusMoves DEF publish, Goes, Stages, deviceVars
<1>5. ASSUME NEW c \in Client, poll_done(c) PROVE TypeBlk'
  BY <1>5 DEF poll_done, Goes, Stages, deviceVars, sharedVars
<1>6. ASSUME NEW c \in Client, poll_timed_out(c) PROVE TypeBlk'
  BY <1>6 DEF poll_timed_out, Goes, Stages, deviceVars, sharedVars
<1>7. ASSUME NEW c \in Client, take_used(c) PROVE TypeBlk'
  BY <1>7 DEF take_used, taken, Goes, Stages, deviceVars
<1>8. ASSUME NEW c \in Client, read_status(c) PROVE TypeBlk'
  BY <1>8 DEF read_status, Goes, Stages, deviceVars, sharedVars
<1>9. CASE device_pop
  <2>1. [n |-> popped, ask |-> req_hdr, buf |-> desc.buf, write |-> desc.write]
          \in [n : Idx, ask : Request, buf : Client, write : BOOLEAN]
    OBVIOUS
  <2> QED
    BY <1>9, <2>1, PlusMoves DEF device_pop, sharedVars, callVars
<1>10. ASSUME NEW r \in flight, device_complete(r) PROVE TypeBlk'
  <2>1. r.buf \in Client
    OBVIOUS
  <2>2. moved' \in [Client -> BOOLEAN]
    BY <1>10, <2>1 DEF device_complete
  <2> QED
    BY <1>10, <2>2, PlusMoves DEF device_complete
<1>11. ASSUME NEW r \in flight, device_error(r) PROVE TypeBlk'
  BY <1>11, PlusMoves DEF device_error, callVars
<1>12. CASE UNCHANGED blkVars
  BY <1>12 DEF blkVars, deviceVars, sharedVars, callVars
<1> QED
  BY <1>1, <1>2, <1>3, <1>4, <1>5, <1>6, <1>7, <1>8, <1>9, <1>10, <1>11, <1>12
  DEF NextBlk, CallStep, virtio_blk_read, virtio_blk_write

-----------------------------------------------------------------------------

\* A step of c's call has only c's own place to account for.
LEMMA CallKeeps ==
  ASSUME Exclusive, IInv, TypeBlk',
         NEW c \in Client, HasCpu(c),
         NEW to \in Stages, stage' = [stage EXCEPT ![c] = to],
         timeouts' = 0 => AtStage(c)' /\ (to = "idle" => QueueEmpty')
  PROVE  IInv'
<1>1. \A d \in Client \ {c} : stage'[d] = "idle"
  BY Alone DEF IInv, TypeBlk
<1>2. stage'[c] = to
  BY DEF IInv, TypeBlk
<1>3. OneCall'
  BY <1>1 DEF OneCall, Active
<1>4. \A d \in Client \ {c} : AtStage(d)'
  BY <1>1 DEF AtStage
<1>5. timeouts' = 0 => Kept'
  BY <1>2, <1>4 DEF Kept, Active
<1> QED
  BY <1>3, <1>5 DEF IInv

\* Until the first timeout, a caller outside finds the queue empty if it may
\* start, and any other its place as AtStage says.
LEMMA Quiet ==
  ASSUME Exclusive, IInv, timeouts = 0, NEW c \in Client, HasCpu(c), stage[c] = "idle"
  PROVE  QueueEmpty
BY Alone DEF IInv, Kept, Active

LEMMA CallStepInv ==
  ASSUME Exclusive, IInv, TypeBlk', NEW c \in Client, CallStep(c)
  PROVE  IInv'
<1> USE DEF Goes
<1>t. stage \in [Client -> Stages] /\ ask \in [Client -> Request] /\ moved \in [Client -> BOOLEAN]
      /\ avail_idx \in [Client -> Idx] /\ timeouts \in Nat
      /\ avail \in Idx /\ used \in Idx /\ last_used_idx \in Idx /\ popped \in Idx
  BY DEF IInv, TypeBlk
<1>k. timeouts = 0 => AtStage(c)
  BY DEF IInv, Kept
<1>1. ASSUME NEW s \in Sector, NEW t \in {"in", "out"}, header(c, t, s)
      PROVE IInv'
  <2>1. HasCpu(c) /\ stage[c] = "idle" /\ stage' = [stage EXCEPT ![c] = "desc"]
    BY <1>1 DEF header
  <2>2. HeaderOf(c)'
    BY <1>1, <1>t DEF header, HeaderOf
  <2>3. timeouts' = 0 => QueueEmpty'
    BY <1>1, <2>1, Quiet DEF header, QueueEmpty, deviceVars
  <2>4. stage'[c] = "desc"
    BY <2>1, <1>t
  <2>5. timeouts' = 0 => AtStage(c)'
    BY <2>2, <2>3, <2>4 DEF AtStage
  <2> QED
    BY <2>1, <2>5, CallKeeps DEF Stages
<1>2. CASE set_desc(c)
  <2>1. HasCpu(c) /\ stage[c] = "desc" /\ stage' = [stage EXCEPT ![c] = "avail"] /\ stage'[c] = "avail"
    BY <1>2, <1>t DEF set_desc
  <2>2. timeouts' = 0 => QueueEmpty' /\ HeaderOf(c)'
    BY <1>2, <1>k, <2>1 DEF set_desc, AtStage, QueueEmpty, HeaderOf, deviceVars
  <2>3. DescOf(c)'
    BY <1>2 DEF set_desc, DescOf, device_writes
  <2>4. timeouts' = 0 => AtStage(c)'
    BY <2>1, <2>2, <2>3 DEF AtStage
  <2> QED
    BY <2>1, <2>4, CallKeeps DEF Stages
<1>3. CASE load_avail(c)
  <2>1. HasCpu(c) /\ stage[c] = "avail" /\ stage' = [stage EXCEPT ![c] = "publish"] /\ stage'[c] = "publish"
    BY <1>3, <1>t DEF load_avail
  <2>2. timeouts' = 0 => QueueEmpty' /\ HeaderOf(c)' /\ DescOf(c)'
    BY <1>3, <1>k, <2>1 DEF load_avail, AtStage, QueueEmpty, HeaderOf, DescOf, deviceVars, sharedVars
  <2>3. avail_idx'[c] = avail'
    BY <1>3, <1>t DEF load_avail, sharedVars
  <2>4. timeouts' = 0 => AtStage(c)'
    BY <2>1, <2>2, <2>3 DEF AtStage
  <2> QED
    BY <2>1, <2>4, CallKeeps DEF Stages
<1>4. CASE publish(c)
  <2>1. HasCpu(c) /\ stage[c] = "publish" /\ stage' = [stage EXCEPT ![c] = "poll"] /\ stage'[c] = "poll"
    BY <1>4, <1>t DEF publish
  <2>2. timeouts' = 0 => Waiting(c)'
    <3> SUFFICES ASSUME timeouts' = 0 PROVE Waiting(c)'
      OBVIOUS
    <3>1. QueueEmpty /\ HeaderOf(c) /\ DescOf(c) /\ avail_idx[c] = avail
      BY <1>4, <1>k, <2>1 DEF publish, AtStage
    <3>2. avail' = plus(last_used_idx')
      BY <1>4, <3>1 DEF publish, QueueEmpty, plus
    <3> QED
      BY <1>4, <3>1, <3>2 DEF publish, Waiting, QueueEmpty, HeaderOf, DescOf, deviceVars
  <2>3. timeouts' = 0 => AtStage(c)'
    BY <2>1, <2>2 DEF AtStage
  <2> QED
    BY <2>1, <2>3, CallKeeps DEF Stages
<1>5. CASE poll_done(c)
  <2>1. /\ HasCpu(c) /\ stage[c] = "poll" /\ stage' = [stage EXCEPT ![c] = "take"] /\ stage'[c] = "take"
        /\ used # last_used_idx
    BY <1>5, <1>t DEF poll_done
  <2>2. timeouts' = 0 => Completed(c)
    BY <1>5, <1>k, <2>1 DEF poll_done, AtStage, Waiting, InWork
  <2>3. Completed(c) => Completed(c)'
    BY <1>5 DEF poll_done, Completed, Done, plus, deviceVars, sharedVars
  <2>4. timeouts' = 0 => AtStage(c)'
    BY <2>1, <2>2, <2>3 DEF AtStage
  <2> QED
    BY <2>1, <2>4, CallKeeps DEF Stages
<1>6. CASE poll_timed_out(c)
  <2>1. HasCpu(c) /\ stage' = [stage EXCEPT ![c] = "idle"] /\ timeouts' # 0
    BY <1>6, <1>t DEF poll_timed_out
  <2> QED
    BY <2>1, CallKeeps DEF Stages
<1>7. CASE take_used(c)
  <2>1. HasCpu(c) /\ stage[c] = "take" /\ stage' = [stage EXCEPT ![c] = "status"] /\ stage'[c] = "status"
    BY <1>7, <1>t DEF take_used
  <2>2. timeouts' = 0 => QueueEmpty' /\ Done(c)'
    BY <1>7, <1>k, <2>1 DEF take_used, taken, AtStage, Completed, Done, QueueEmpty, deviceVars
  <2>3. timeouts' = 0 => AtStage(c)'
    BY <2>1, <2>2 DEF AtStage
  <2> QED
    BY <2>1, <2>3, CallKeeps DEF Stages
<1>8. CASE read_status(c)
  <2>1. HasCpu(c) /\ stage[c] = "status" /\ stage' = [stage EXCEPT ![c] = "idle"] /\ stage'[c] = "idle"
    BY <1>8, <1>t DEF read_status
  <2>2. timeouts' = 0 => QueueEmpty'
    BY <1>8, <1>k, <2>1 DEF read_status, AtStage, QueueEmpty, deviceVars, sharedVars
  <2>3. timeouts' = 0 => AtStage(c)'
    BY <2>1, <2>2 DEF AtStage
  <2> QED
    BY <2>1, <2>2, <2>3, CallKeeps DEF Stages
<1> QED
  BY <1>1, <1>2, <1>3, <1>4, <1>5, <1>6, <1>7, <1>8 DEF CallStep, virtio_blk_read, virtio_blk_write

-----------------------------------------------------------------------------
\* The device.

\* Whenever something waits in the ring or is in work, before the first timeout,
\* it is the request of the one caller that polls.
LEMMA RequestOfPoller ==
  ASSUME IInv, timeouts = 0, popped # avail \/ flight # {}
  PROVE  \E c \in Client : stage[c] = "poll" /\ (\/ Waiting(c) /\ popped # avail
                                               \/ InWork(c))
<1>1. PICK c \in Client : Active(c)
  BY DEF IInv, Kept, QueueEmpty
<1>2. AtStage(c) /\ stage[c] \in Stages
  BY DEF IInv, Kept, TypeBlk
<1>3. stage[c] = "poll"
  BY <1>1, <1>2 DEF AtStage, QueueEmpty, Completed, Active, Stages
<1>4. Waiting(c) \/ InWork(c)
  BY <1>2, <1>3 DEF AtStage, Completed
<1> QED
  BY <1>3, <1>4 DEF Waiting

\* A step of the device leaves every caller where it is.
LEMMA DeviceKeeps ==
  ASSUME IInv, TypeBlk', stage' = stage, NEW c \in Client, stage[c] = "poll",
         Waiting(c)' \/ InWork(c)' \/ Completed(c)'
  PROVE  OneCall' /\ Kept'
<1>1. OneCall'
  BY DEF IInv, OneCall, Active
<1>2. \A d \in Client \ {c} : stage'[d] = "idle"
  BY DEF IInv, OneCall, Active
<1>3. \A d \in Client : AtStage(d)'
  BY <1>2 DEF AtStage
<1> QED
  BY <1>1, <1>3 DEF Kept, Active

LEMMA PopInv == ASSUME IInv, TypeBlk', device_pop PROVE IInv'
<1>1. stage' = stage /\ timeouts' = timeouts /\ OneCall'
  BY DEF device_pop, callVars, IInv, OneCall, Active
<1>2. ASSUME timeouts = 0 PROVE Kept'
  <2>1. PICK c \in Client : stage[c] = "poll" /\ ((Waiting(c) /\ popped # avail) \/ InWork(c))
    BY <1>2, RequestOfPoller DEF device_pop
  <2>2. Waiting(c)
    BY <2>1 DEF InWork, device_pop
  <2>3. InWork(c)'
    BY <2>2 DEF device_pop, Waiting, InWork, HeaderOf, DescOf, sharedVars, callVars, plus
  <2> QED
    BY <1>1, <2>1, <2>3, DeviceKeeps
<1> QED
  BY <1>1, <1>2 DEF IInv

\* What the completion of a request does to its caller, before any timeout.
LEMMA CompleteIsDone ==
  ASSUME IInv, timeouts = 0, NEW r \in flight
  PROVE  \E c \in Client :
           /\ stage[c] = "poll" /\ InWork(c)
           /\ flight = {r} /\ r.buf = c /\ r.ask = ask[c] /\ Usable(r)
<1>1. PICK c \in Client : stage[c] = "poll" /\ (Waiting(c) \/ InWork(c))
  BY RequestOfPoller
<1>2. InWork(c)
  BY <1>1 DEF Waiting
<1>3. r = [n |-> last_used_idx, ask |-> ask[c], buf |-> c, write |-> ask[c].type = "in"]
  BY <1>2 DEF InWork
<1> QED
  BY <1>1, <1>2, <1>3 DEF InWork, Usable

LEMMA CompleteInv ==
  ASSUME IInv, TypeBlk', NEW r \in flight, device_complete(r) \/ device_error(r)
  PROVE  IInv'
<1>1. stage' = stage /\ timeouts' = timeouts /\ OneCall'
  BY DEF device_complete, device_error, callVars, IInv, OneCall, Active
<1>2. ASSUME timeouts = 0 PROVE Kept'
  <2>1. PICK c \in Client :
          /\ stage[c] = "poll" /\ InWork(c)
          /\ flight = {r} /\ r.buf = c /\ r.ask = ask[c] /\ Usable(r)
    BY <1>2, CompleteIsDone
  <2>2. /\ flight' = {} /\ popped' = popped /\ avail' = avail
        /\ last_used_idx' = last_used_idx /\ used' = plus(used)
    BY <2>1 DEF device_complete, device_error, callVars
  <2>3. Done(c)'
    <3>1. CASE device_complete(r)
      BY <2>1, <3>1 DEF device_complete, Done, IInv, TypeBlk
    <3>2. CASE device_error(r)
      BY <3>2 DEF device_error, Done
    <3> QED
      BY <3>1, <3>2
  <2>4. Completed(c)'
    BY <2>1, <2>2, <2>3 DEF InWork, Completed, plus
  <2> QED
    BY <1>1, <2>1, <2>4, DeviceKeeps
<1> QED
  BY <1>1, <1>2 DEF IInv

-----------------------------------------------------------------------------

LEMMA StepInv == Exclusive /\ IInv /\ [NextBlk]_blkVars => IInv'
<1> SUFFICES ASSUME Exclusive, IInv, [NextBlk]_blkVars PROVE IInv'
  OBVIOUS
<1>1. TypeBlk'
  BY TypeStep DEF IInv
<1>2. CASE \E c \in Client : CallStep(c)
  BY <1>1, <1>2, CallStepInv
<1>3. CASE device_pop
  BY <1>1, <1>3, PopInv
<1>4. CASE \E r \in flight : device_complete(r) \/ device_error(r)
  BY <1>1, <1>4, CompleteInv
<1>5. CASE UNCHANGED blkVars
  <2>1. /\ UNCHANGED <<req_hdr, req_status, desc, avail, used, last_used_idx>>
        /\ UNCHANGED <<popped, flight, disk, stage, ask, avail_idx, result, moved, timeouts>>
    BY <1>5 DEF blkVars, deviceVars, sharedVars, callVars
  <2>2. OneCall'
    BY <2>1 DEF IInv, OneCall, Active
  <2>3. timeouts' = 0 => Kept'
    BY <2>1 DEF IInv, Kept, Active, AtStage, QueueEmpty, HeaderOf, DescOf, Waiting, InWork, Completed, Done, plus
  <2> QED
    BY <1>1, <2>2, <2>3 DEF IInv
<1> QED
  BY <1>2, <1>3, <1>4, <1>5 DEF NextBlk

\* The inductive invariant holds in every reachable state if no caller can be
\* interrupted by another (virtio_blk.c:173-292).
THEOREM BlkInvariance == Exclusive => (SpecBlk => []IInv)
<1> SUFFICES ASSUME Exclusive PROVE SpecBlk => []IInv
  OBVIOUS
<1>1. IInv /\ [NextBlk]_blkVars => IInv'
  BY StepInv
<1> QED
  BY <1>1, InitInv, PTL DEF SpecBlk

-----------------------------------------------------------------------------
\* The refinement.

\* The variable `call` of Disk, as VirtioBlk maps it.
calls == [c \in Client |-> [op |-> IF stage[c] = "idle" THEN "idle" ELSE ask[c].type,
                           sector |-> ask[c].sector, done |-> moved[c]]]

Broken == timeouts > 0

DiskStep == [Promise!Next \/ (Broken /\ Broken')]_(Promise!diskVars)

\* `call` stays as it is while no call begins, ends or has its transfer.
LEMMA CallsKept ==
  ASSUME TypeBlk, UNCHANGED <<ask, moved>>, TypeBlk',
         \A c \in Client : stage'[c] = "idle" <=> stage[c] = "idle"
  PROVE  calls' = calls
BY DEF calls

LEMMA InitRefines == InitBlk => Promise!Init
BY DEF InitBlk, Promise!Init, Promise!Idle

\* A call that begins is Read or Write.
LEMMA BeginRefines ==
  ASSUME TypeBlk, NEW c \in Client, NEW s \in Sector, NEW t \in {"in", "out"}, header(c, t, s)
  PROVE  Promise!Begin(c, t, s)
<1>1. stage[c] = "idle" /\ stage' = [stage EXCEPT ![c] = "desc"]
  BY DEF header, Goes
<1>2. calls' = [calls EXCEPT ![c] = [op |-> t, sector |-> s, done |-> FALSE]]
  <2> SUFFICES ASSUME NEW d \in Client
               PROVE  calls'[d] = [calls EXCEPT ![c] = [op |-> t, sector |-> s, done |-> FALSE]][d]
    BY DEF calls
  <2>1. CASE d = c
    BY <2>1, <1>1 DEF header, calls, TypeBlk
  <2>2. CASE d # c
    BY <2>2, <1>1 DEF header, calls, TypeBlk
  <2> QED
    BY <2>1, <2>2
<1> QED
  BY <1>1, <1>2 DEF Promise!Begin, Promise!Idle, calls, header, deviceVars

LEMMA ReturnRefines ==
  ASSUME TypeBlk, NEW c \in Client, NEW answer, stage[c] # "idle",
         stage' = [stage EXCEPT ![c] = "idle"], result' = [result EXCEPT ![c] = answer],
         UNCHANGED <<disk, mem, ask, moved>>
  PROVE  Promise!Return(c, answer)
<1>1. calls' = [calls EXCEPT ![c].op = "idle"]
  <2> SUFFICES ASSUME NEW d \in Client PROVE calls'[d] = [calls EXCEPT ![c].op = "idle"][d]
    BY DEF calls
  <2>1. CASE d = c
    BY <2>1 DEF calls, TypeBlk
  <2>2. CASE d # c
    BY <2>2 DEF calls, TypeBlk
  <2> QED
    BY <2>1, <2>2
<1>2. ask[c].type # "idle"
  BY DEF TypeBlk, Request
<1> QED
  BY <1>1, <1>2 DEF Promise!Return, Promise!Idle, calls

LEMMA CallStepRefines ==
  ASSUME IInv, TypeBlk', NEW c \in Client, CallStep(c)
  PROVE  DiskStep
<1>t. TypeBlk
  BY DEF IInv
<1>1. ASSUME NEW s \in Sector, virtio_blk_read(c, s) PROVE DiskStep
  <2>1. header(c, "in", s) /\ UNCHANGED mem
    BY <1>1 DEF virtio_blk_read
  <2>2. Promise!Read(c, s)
    BY <1>t, <2>1, BeginRefines DEF Promise!Read
  <2> QED
    BY <2>2 DEF DiskStep, Promise!Next
<1>2. ASSUME NEW s \in Sector, NEW v \in Value, virtio_blk_write(c, s, v) PROVE DiskStep
  <2>1. header(c, "out", s) /\ mem' = [mem EXCEPT ![c] = v]
    BY <1>2 DEF virtio_blk_write
  <2>2. Promise!Write(c, s, v)
    BY <1>t, <2>1, BeginRefines DEF Promise!Write
  <2> QED
    BY <2>2 DEF DiskStep, Promise!Next
<1>3. CASE set_desc(c) \/ load_avail(c) \/ publish(c) \/ poll_done(c) \/ take_used(c)
  <2>1. UNCHANGED <<disk, mem, ask, moved, result, timeouts>>
    BY <1>3 DEF set_desc, load_avail, publish, poll_done, take_used, deviceVars
  <2>2. \A d \in Client : stage'[d] = "idle" <=> stage[d] = "idle"
    BY <1>3, <1>t DEF set_desc, load_avail, publish, poll_done, take_used, Goes, TypeBlk
  <2>3. calls' = calls
    BY <1>t, <2>1, <2>2, CallsKept
  <2> QED
    BY <2>1, <2>3 DEF DiskStep, Promise!diskVars, calls
<1>4. CASE poll_timed_out(c)
  <2>1. Promise!Return(c, "failed")
    BY <1>4, <1>t, ReturnRefines DEF poll_timed_out, Goes, deviceVars
  <2>2. Broken'
    BY <1>4, <1>t DEF poll_timed_out, Broken, TypeBlk
  <2>3. Promise!GiveUp(c)
    BY <2>1, <2>2 DEF Promise!GiveUp, Broken
  <2> QED
    BY <2>3 DEF DiskStep, Promise!Next
<1>5. CASE read_status(c)
  <2>1. stage[c] = "status" /\ stage' = [stage EXCEPT ![c] = "idle"] /\ timeouts' = timeouts
        /\ UNCHANGED <<disk, mem, ask, moved>>
    BY <1>5 DEF read_status, Goes, deviceVars
  <2>2. CASE Broken
    BY <2>1, <2>2 DEF DiskStep, Broken
  <2>3. CASE ~Broken /\ req_status = "ok"
    <3>1. moved[c]
      BY <2>1, <2>3, <1>t DEF IInv, Kept, AtStage, Done, Broken, TypeBlk
    <3>2. Promise!Return(c, "ok")
      BY <1>5, <1>t, <2>1, <2>3, ReturnRefines DEF read_status
    <3>3. Promise!Succeed(c)
      BY <3>1, <3>2, <2>1 DEF Promise!Succeed
    <3> QED
      BY <3>3 DEF DiskStep, Promise!Next
  <2>4. CASE req_status # "ok"
    <3>1. Promise!Return(c, "failed")
      BY <1>5, <1>t, <2>1, <2>4, ReturnRefines DEF read_status
    <3>2. Promise!Fail(c)
      BY <3>1, <2>1 DEF Promise!Fail
    <3> QED
      BY <3>2 DEF DiskStep, Promise!Next
  <2> QED
    BY <2>2, <2>3, <2>4
<1> QED
  BY <1>1, <1>2, <1>3, <1>4, <1>5 DEF CallStep

\* Completion is the transfer; until the first timeout it is the caller's own.
LEMMA CompleteRefines ==
  ASSUME IInv, TypeBlk', NEW r \in flight, device_complete(r)
  PROVE  DiskStep
<1>t. TypeBlk /\ timeouts \in Nat /\ timeouts' = timeouts
  BY DEF IInv, TypeBlk, device_complete
<1>1. CASE timeouts # 0
  BY <1>1, <1>t DEF DiskStep, Broken
<1>2. CASE timeouts = 0
  <2>1. PICK c \in Client :
          /\ stage[c] = "poll" /\ InWork(c)
          /\ flight = {r} /\ r.buf = c /\ r.ask = ask[c] /\ Usable(r)
    BY <1>2, CompleteIsDone
  <2>2. moved' = [moved EXCEPT ![c] = TRUE] /\ UNCHANGED <<stage, ask, result>>
    BY <2>1 DEF device_complete
  <2>3. calls' = [calls EXCEPT ![c].done = TRUE]
    <3> SUFFICES ASSUME NEW d \in Client PROVE calls'[d] = [calls EXCEPT ![c].done = TRUE][d]
      BY DEF calls
    <3>1. CASE d = c
      BY <3>1, <2>2, <1>t DEF calls, TypeBlk
    <3>2. CASE d # c
      BY <3>2, <2>2, <1>t DEF calls, TypeBlk
    <3> QED
      BY <3>1, <3>2
  <2>4. ask[c].type \in {"in", "out"}
    BY <1>t DEF TypeBlk, Request
  <2>5. /\ ask[c].type = "in" => mem' = [mem EXCEPT ![c] = disk[ask[c].sector]] /\ disk' = disk
        /\ ask[c].type = "out" => disk' = [disk EXCEPT ![ask[c].sector] = mem[c]] /\ mem' = mem
    BY <2>1 DEF device_complete, Usable
  <2>6. ~moved[c]
    BY <2>1 DEF InWork
  <2>7. Promise!Do(c)
    BY <1>t, <2>1, <2>2, <2>3, <2>4, <2>5, <2>6 DEF Promise!Do, Promise!Idle, calls
  <2> QED
    BY <2>7 DEF DiskStep, Promise!Next
<1> QED
  BY <1>1, <1>2

LEMMA NextRefines == IInv /\ [NextBlk]_blkVars => DiskStep
<1> SUFFICES ASSUME IInv, [NextBlk]_blkVars PROVE DiskStep
  OBVIOUS
<1>t. TypeBlk /\ TypeBlk'
  BY TypeStep DEF IInv
<1>1. CASE \E c \in Client : CallStep(c)
  BY <1>t, <1>1, CallStepRefines
<1>2. CASE device_pop \/ (\E r \in flight : device_error(r)) \/ UNCHANGED blkVars
  <2>1. UNCHANGED <<disk, mem, stage, ask, moved, result, timeouts>>
    BY <1>2 DEF device_pop, device_error, blkVars, callVars, deviceVars
  <2>2. calls' = calls
    BY <1>t, <2>1, CallsKept
  <2> QED
    BY <2>1, <2>2 DEF DiskStep, Promise!diskVars, calls
<1>3. CASE \E r \in flight : device_complete(r)
  BY <1>t, <1>3, CompleteRefines
<1> QED
  BY <1>1, <1>2, <1>3 DEF NextBlk

\* The driver is the disk virtio_blk.h promises, up to the first request that
\* times out, whenever no caller can be interrupted by another: so for every
\* system call as long as the shell leaves the disk alone.
THEOREM DriverIsDisk == Exclusive => (SpecBlk => ImplementsDisk)
<1> SUFFICES ASSUME Exclusive PROVE SpecBlk => ImplementsDisk
  OBVIOUS
<1>1. IInv /\ [NextBlk]_blkVars => [Promise!Next \/ (timeouts > 0 /\ (timeouts > 0)')]_(Promise!diskVars)
  BY NextRefines DEF DiskStep, Broken
<1> QED
  BY <1>1, InitRefines, BlkInvariance, PTL DEF SpecBlk, ImplementsDisk, Promise!Spec

-----------------------------------------------------------------------------
\* The promise of the header on its own.

RightSoFar == timeouts = 0 => AnswerRight

LEMMA FirstTimeout ==
  ASSUME TypeBlk, NEW c \in Client, CallStep(c), timeouts' = 0
  PROVE  timeouts = 0
<1>1. timeouts \in Nat
  BY DEF TypeBlk
<1>2. CASE poll_timed_out(c)
  BY <1>1, <1>2 DEF poll_timed_out
<1>3. CASE \/ \E s \in Sector, t \in {"in", "out"} : header(c, t, s)
           \/ set_desc(c) \/ load_avail(c) \/ publish(c) \/ poll_done(c) \/ take_used(c) \/ read_status(c)
  <2>1. timeouts' = timeouts
    BY <1>3 DEF header, set_desc, load_avail, publish, poll_done, take_used, read_status
  <2> QED
    BY <2>1
<1> QED
  BY <1>2, <1>3 DEF CallStep, virtio_blk_read, virtio_blk_write

LEMMA CallStepAnswers ==
  ASSUME IInv, AnswerRight, timeouts' = 0, NEW c \in Client, CallStep(c)
  PROVE  AnswerRight'
<1> SUFFICES ASSUME NEW d \in Client, result'[d] = "ok" PROVE moved'[d]
  BY DEF AnswerRight
<1>t. result[d] = "ok" => moved[d]
  BY DEF AnswerRight
<1>m. TypeBlk /\ timeouts = 0
  BY FirstTimeout DEF IInv
<1>1. ASSUME NEW s \in Sector, NEW t \in {"in", "out"}, header(c, t, s) PROVE moved'[d]
  BY <1>1, <1>t, <1>m DEF header, TypeBlk
<1>2. CASE set_desc(c) \/ load_avail(c) \/ publish(c) \/ poll_done(c) \/ take_used(c)
  BY <1>2, <1>t DEF set_desc, load_avail, publish, poll_done, take_used
<1>3. CASE poll_timed_out(c)
  BY <1>3, <1>m DEF poll_timed_out
<1>4. CASE read_status(c)
  <2>1. req_status = "ok" => moved[c]
    BY <1>4, <1>m DEF read_status, Goes, IInv, Kept, AtStage, Done
  <2> QED
    BY <1>4, <1>t, <2>1 DEF read_status
<1> QED
  BY <1>1, <1>2, <1>3, <1>4 DEF CallStep, virtio_blk_read, virtio_blk_write

\* A call that returned 0 has had its own request done, until a poll runs out,
\* if no caller can be interrupted by another (virtio_blk.h, "Returns 0 on
\* success"): what the shell's requests break, and only they.
THEOREM AnswersRight == Exclusive => (SpecBlk => [](timeouts = 0 => AnswerRight))
<1> SUFFICES ASSUME Exclusive PROVE SpecBlk => []RightSoFar
  BY DEF RightSoFar
<1>1. InitBlk => RightSoFar
  BY DEF InitBlk, RightSoFar, AnswerRight
<1>2. IInv /\ RightSoFar /\ [NextBlk]_blkVars => RightSoFar'
  <2> SUFFICES ASSUME IInv, RightSoFar, [NextBlk]_blkVars, timeouts' = 0 PROVE AnswerRight'
    BY DEF RightSoFar
  <2>1. CASE \E c \in Client : CallStep(c)
    <3>1. timeouts = 0
      BY <2>1, FirstTimeout DEF IInv
    <3> QED
      BY <2>1, <3>1, CallStepAnswers DEF RightSoFar
  <2>2. CASE device_pop \/ (\E r \in flight : device_error(r)) \/ UNCHANGED blkVars
    BY <2>2 DEF device_pop, device_error, blkVars, callVars, RightSoFar, AnswerRight
  <2>3. ASSUME NEW r \in flight, device_complete(r) PROVE AnswerRight'
    <3>1. UNCHANGED <<result, timeouts>> /\ \A d \in Client : moved[d] => moved'[d]
      BY <2>3 DEF device_complete, IInv, TypeBlk
    <3> QED
      BY <3>1 DEF RightSoFar, AnswerRight
  <2> QED
    BY <2>1, <2>2, <2>3 DEF NextBlk
<1> QED
  BY <1>1, <1>2, BlkInvariance, PTL DEF SpecBlk

-----------------------------------------------------------------------------
\* Indices that wrap.

\* x + n in a range of m, for n no larger than m.
wrap(x, n, m) == IF x + n < m THEN x + n ELSE x + n - m

LEMMA WrapOne == ASSUME NEW m \in Nat \ {0}, NEW x \in 0 .. m - 1 PROVE (x + 1) % m = wrap(x, 1, m)
<1>1. CASE x + 1 < m
  BY <1>1, Remainder DEF wrap
<1>2. CASE x + 1 = m
  BY <1>2, Remainder DEF wrap
<1> QED
  BY <1>1, <1>2

\* A step of an index is a step of its place in the ring.
LEMMA WrapPlace == ASSUME NEW i \in 0 .. RingMod - 1
                   PROVE  /\ QSIZE \in Nat \ {0} /\ i % QSIZE \in Buffers
                          /\ next_idx(i) = wrap(i, 1, RingMod) /\ next_idx(i) \in 0 .. RingMod - 1
                          /\ next_idx(i) % QSIZE = wrap(i % QSIZE, 1, QSIZE)
<1>1. QSIZE \in Nat \ {0} /\ RingMod \in Nat /\ RingMod > QSIZE /\ RingMod % QSIZE = 0
  BY InputAssumption
<1>2. next_idx(i) = wrap(i, 1, RingMod) /\ next_idx(i) \in 0 .. RingMod - 1
  BY <1>1, WrapOne DEF next_idx, wrap
<1>3. PICK q, r : q = i \div QSIZE /\ r = i % QSIZE
  OBVIOUS
<1>4. q \in Nat /\ r \in 0 .. QSIZE - 1 /\ i = q * QSIZE + r /\ i \in Nat
  <2>1. i \in Nat
    BY <1>1
  <2>2. i \div QSIZE \in Nat /\ i % QSIZE \in 0 .. QSIZE - 1 /\ i = (i \div QSIZE) * QSIZE + (i % QSIZE)
    BY <1>1, <2>1, DivMod
  <2> QED
    BY <1>3, <2>1, <2>2
<1>5. (i + 1) % QSIZE = wrap(r, 1, QSIZE)
  <2>1. q * QSIZE \in Nat /\ (q + 1) * QSIZE = q * QSIZE + QSIZE /\ i + 1 \in Nat /\ q + 1 \in Nat
    BY <1>1, <1>4
  <2>2. CASE r + 1 < QSIZE
    <3>1. i + 1 = q * QSIZE + (r + 1) /\ r + 1 \in 0 .. QSIZE - 1
      BY <1>1, <1>4, <2>1, <2>2
    <3> QED
      BY <1>1, <1>4, <2>1, <2>2, <3>1, Remainder DEF wrap
  <2>3. CASE r + 1 = QSIZE
    <3>1. PICK p, t, o : p = q + 1 /\ t = i + 1 /\ o = 0
      OBVIOUS
    <3>2. p \in Nat /\ t \in Nat /\ o \in 0 .. QSIZE - 1
      BY <1>1, <2>1, <3>1
    <3>3. t = p * QSIZE + o
      BY <1>1, <1>4, <2>1, <2>3, <3>1
    <3>4. t % QSIZE = o
      BY <1>1, <3>2, <3>3, Remainder
    <3> QED
      BY <1>1, <1>4, <2>3, <3>1, <3>4 DEF wrap
  <2> QED
    BY <1>1, <1>4, <2>2, <2>3
<1>6. next_idx(i) % QSIZE = wrap(r, 1, QSIZE)
  <2>1. CASE i + 1 < RingMod
    BY <1>2, <1>5, <2>1 DEF wrap
  <2>2. CASE i + 1 = RingMod
    <3>1. next_idx(i) = 0 /\ wrap(r, 1, QSIZE) = 0
      BY <1>1, <1>2, <1>5, <2>2 DEF wrap
    <3>2. 0 % QSIZE = 0
      <4>1. 0 = 0 * QSIZE + 0 /\ 0 \in 0 .. QSIZE - 1
        BY <1>1
      <4> QED
        BY <1>1, <4>1, Remainder
    <3> QED
      BY <3>1, <3>2
  <2> QED
    BY <1>1, <2>1, <2>2
<1> QED
  BY <1>1, <1>2, <1>3, <1>4, <1>6 DEF Buffers

-----------------------------------------------------------------------------
\* The invariant, while no poll is interrupted by another.

Index == 0 .. RingMod - 1
Number == 0 .. Numbers - 1
Steps == {"out", "read", "advance", "load", "repost", "notify"}

InputTyped ==
  /\ events \in [Buffers -> Number]
  /\ posted = [idx |-> posted.idx, ring |-> [i \in Buffers |-> i]]
  /\ handed = [idx |-> handed.idx, ring |-> handed.ring] /\ handed.ring \in [Buffers -> Buffers]
  /\ seen \in Index /\ returned \in Number
  /\ poll \in [Poller -> [step : Steps, desc : Buffers, ev : Number, idx : Index]]

\* The next event to return is at index b, and n are on their way.
Counts(b, n) ==
  /\ b \in Index /\ n \in 0 .. QSIZE
  /\ handed.idx = wrap(b, n, RingMod) /\ handed.idx % QSIZE = wrap(b % QSIZE, n, QSIZE)
  /\ consumed = handed.idx
  /\ posted.idx = wrap(b, QSIZE, RingMod) /\ posted.idx % QSIZE = b % QSIZE
  /\ delivered = wrap(returned, n, Numbers)

\* They are in the buffers that follow s, in order.
Unread(s, n, ring, ev, ret) ==
  \A j \in 0 .. n - 1 : /\ ring[wrap(s, j, QSIZE)] = wrap(s, j, QSIZE)
                        /\ ev[wrap(s, j, QSIZE)] = wrap(ret, j + 1, Numbers)

\* How far a poll has got with the first of them.
Polled(p, b, n) ==
  /\ p.step \in {"read", "advance"} => seen = b
  /\ p.step \in {"load", "repost", "notify"} => seen = wrap(b, 1, RingMod)
  /\ p.step # "out" => n > 0
  /\ p.step \in {"advance", "load", "repost", "notify"} =>
       p.desc = b % QSIZE /\ p.ev = wrap(returned, 1, Numbers)
  /\ p.step \in {"repost", "notify"} => p.idx = posted.idx

OnePoll == \A p, q \in Poller : poll[p].step # "out" /\ poll[q].step # "out" => p = q

InOrder(b, n) ==
  /\ Counts(b, n)
  /\ Unread(b % QSIZE, n, handed.ring, events, returned)
  /\ \A p \in Poller : Polled(poll[p], b, n)
  /\ (\A p \in Poller : poll[p].step = "out") => seen = b

InputInv == InputTyped /\ OnePoll /\ \E b, n : InOrder(b, n)

LEMMA Bounds == /\ QSIZE \in Nat \ {0} /\ RingMod \in Nat /\ RingMod > QSIZE
                /\ Numbers \in Nat /\ Numbers > QSIZE + 1
BY InputAssumption

LEMMA InitOrdered == InitInput => InputInv
<1> SUFFICES ASSUME InitInput PROVE InputInv
  OBVIOUS
<1>1. 0 % QSIZE = 0 /\ QSIZE % QSIZE = 0
  <2>1. /\ QSIZE \in Nat \ {0} /\ 0 \in 0 .. QSIZE - 1 /\ 0 = 0 * QSIZE + 0 /\ QSIZE = 1 * QSIZE + 0
        /\ 0 \in Nat /\ 1 \in Nat /\ QSIZE \in Nat
    BY Bounds
  <2>2. 0 % QSIZE = 0
    BY <2>1, Remainder
  <2>3. QSIZE % QSIZE = 0
    BY <2>1, Remainder
  <2> QED
    BY <2>2, <2>3
<1>2. InputTyped /\ OnePoll
  BY Bounds DEF InitInput, InputTyped, OnePoll, Outside, Buffers, Index, Number, Steps
<1>3. Counts(0, 0)
  BY <1>1, Bounds DEF InitInput, Counts, Index, wrap
<1>4. InOrder(0, 0)
  BY <1>3, Bounds DEF InitInput, InOrder, Unread, Polled, Outside
<1> QED
  BY <1>2, <1>4 DEF InputInv

\* The device fills the buffer after the last it filled.
LEMMA EventKeeps ==
  ASSUME InputTyped, NEW b, NEW n, InOrder(b, n), device_event
  PROVE  InputTyped' /\ InOrder(b, n + 1)'
<1>1. PICK s, h : s = b % QSIZE /\ h = handed.idx
  OBVIOUS
<1>2. /\ b \in Index /\ n \in 0 .. QSIZE /\ s \in Buffers /\ h \in Index
      /\ h = wrap(b, n, RingMod) /\ h % QSIZE = wrap(s, n, QSIZE) /\ consumed = h
      /\ posted.idx = wrap(b, QSIZE, RingMod) /\ posted.idx % QSIZE = s
  <2>1. b % QSIZE \in Buffers
    BY WrapPlace DEF InOrder, Counts, Index
  <2> QED
    BY <1>1, <2>1, Bounds DEF InOrder, Counts, Index, wrap
<1>3. n < QSIZE
  BY <1>2, Bounds DEF device_event
<1>4. PICK d : d = wrap(s, n, QSIZE)
  OBVIOUS
<1>5. d \in Buffers /\ posted.ring[consumed % QSIZE] = d
  <2>1. d \in Buffers
    BY <1>2, <1>3, <1>4, Bounds DEF Buffers, wrap
  <2>2. posted.ring = [i \in Buffers |-> i]
    BY DEF InputTyped
  <2>3. consumed % QSIZE = d
    BY <1>2, <1>4
  <2> QED
    BY <2>1, <2>2, <2>3
<1>6. /\ delivered' = next_event(delivered) /\ events' = [events EXCEPT ![d] = delivered']
      /\ handed' = [idx |-> next_idx(h), ring |-> [handed.ring EXCEPT ![d] = d]]
      /\ consumed' = next_idx(h) /\ UNCHANGED <<posted, seen, returned, poll>>
  BY <1>1, <1>2, <1>4, <1>5 DEF device_event
<1>7. delivered' = wrap(returned, n + 1, Numbers) /\ delivered' \in Number
  <2>1. delivered = wrap(returned, n, Numbers) /\ delivered \in 0 .. Numbers - 1
    BY <1>2, Bounds DEF InOrder, Counts, InputTyped, Number, wrap
  <2>2. delivered' = wrap(delivered, 1, Numbers)
    BY <1>6, <2>1, Bounds, WrapOne DEF next_event
  <2> QED
    BY <1>2, <1>3, <2>1, <2>2, Bounds DEF InputTyped, Number, wrap
<1>8. /\ next_idx(h) = wrap(h, 1, RingMod) /\ next_idx(h) \in Index
      /\ next_idx(h) % QSIZE = wrap(wrap(s, n, QSIZE), 1, QSIZE)
  BY <1>2, WrapPlace DEF Index
<1>9. InputTyped'
  BY <1>5, <1>6, <1>7 DEF InputTyped
<1>10. Counts(b, n + 1)'
  <2>1. wrap(h, 1, RingMod) = wrap(b, n + 1, RingMod) /\ wrap(wrap(s, n, QSIZE), 1, QSIZE) = wrap(s, n + 1, QSIZE)
    BY <1>2, <1>3, Bounds DEF Index, Buffers, wrap
  <2> QED
    BY <1>1, <1>2, <1>3, <1>6, <1>7, <1>8, <2>1, Bounds DEF Counts
<1>11. Unread(s, n + 1, handed'.ring, events', returned)
  <2> SUFFICES ASSUME NEW j \in 0 .. n
               PROVE  /\ handed'.ring[wrap(s, j, QSIZE)] = wrap(s, j, QSIZE)
                      /\ events'[wrap(s, j, QSIZE)] = wrap(returned, j + 1, Numbers)
    BY <1>2 DEF Unread
  <2>1. PICK e : e = wrap(s, j, QSIZE)
    OBVIOUS
  <2>2. e \in Buffers /\ (e = d => j = n)
    BY <1>2, <1>3, <1>4, <2>1, Bounds DEF Buffers, wrap
  <2>3. CASE j = n
    BY <1>4, <1>5, <1>6, <1>7, <2>1, <2>3 DEF InputTyped
  <2>4. CASE j # n
    <3>1. handed.ring[e] = e /\ events[e] = wrap(returned, j + 1, Numbers)
      BY <1>1, <1>2, <2>1, <2>4 DEF InOrder, Unread
    <3> QED
      BY <1>6, <2>1, <2>2, <2>4, <3>1 DEF InputTyped
  <2> QED
    BY <2>3, <2>4
<1>12. \A p \in Poller : Polled(poll[p], b, n + 1)'
  BY <1>2, <1>6 DEF InOrder, Polled
<1> QED
  BY <1>1, <1>6, <1>9, <1>10, <1>11, <1>12 DEF InOrder

LEMMA PollKeeps ==
  ASSUME ~Interrupts, InputTyped, OnePoll, NEW b, NEW n, InOrder(b, n), NEW p \in Poller,
         poll_begin(p) \/ read_event(p) \/ advance(p) \/ load_idx(p) \/ repost(p)
  PROVE  InputTyped' /\ OnePoll' /\ InOrder(b, n)'
<1>1. PICK s : s = b % QSIZE
  OBVIOUS
<1>2. /\ b \in Index /\ n \in 0 .. QSIZE /\ s \in Buffers /\ Counts(b, n)
      /\ handed.idx = wrap(b, n, RingMod)
      /\ posted.idx = wrap(b, QSIZE, RingMod) /\ posted.idx % QSIZE = s /\ posted.idx \in Index
  <2>1. b % QSIZE \in Buffers
    BY WrapPlace DEF InOrder, Counts, Index
  <2> QED
    BY <1>1, <2>1, Bounds DEF InOrder, Counts, Index, wrap
<1>3. /\ \A q \in Poller : q # p => poll[q].step = "out" /\ poll'[q] = poll[q]
      /\ UNCHANGED <<events, handed, consumed, delivered, returned>>
      /\ posted'.idx = posted.idx /\ poll'[p].step # "out"
  <2>1. Polls(p)
    BY DEF poll_begin, read_event, advance, load_idx, repost, Enters
  <2>2. \A q \in Poller : q # p => poll[q].step = "out"
    BY <2>1 DEF Polls
  <2>3. UNCHANGED <<events, handed, consumed, delivered, returned>> /\ posted'.idx = posted.idx
    BY DEF InputTyped, poll_begin, read_event, advance, load_idx, repost
  <2>4. /\ \A q \in Poller : q # p => poll'[q] = poll[q]
        /\ poll'[p].step # "out"
    <3>1. \/ \E to \in Steps \ {"out"} : poll' = [poll EXCEPT ![p].step = to]
          \/ \E d, e : poll' = [poll EXCEPT ![p] = [@ EXCEPT !.step = "advance", !.desc = d, !.ev = e]]
          \/ \E i : poll' = [poll EXCEPT ![p].step = "repost", ![p].idx = i]
      BY DEF poll_begin, read_event, advance, load_idx, repost, Enters, Steps
    <3> QED
      BY <3>1 DEF InputTyped
  <2> QED
    BY <2>2, <2>3, <2>4
<1>4. OnePoll'
  BY <1>3 DEF OnePoll
<1>5. Counts(b, n)' /\ Unread(s, n, handed'.ring, events', returned')
  BY <1>1, <1>2, <1>3 DEF InOrder, Counts
<1>6. ASSUME InputTyped', Polled(poll[p], b, n)' PROVE InOrder(b, n)'
  BY <1>1, <1>3, <1>5, <1>6 DEF InOrder, Polled
<1>7. Polled(poll[p], b, n) /\ (poll[p].step = "out" => seen = b)
  BY <1>3 DEF InOrder
<1>8. CASE poll_begin(p)
  <2>1. seen = b /\ n > 0
    BY <1>2, <1>7, <1>8, Bounds DEF poll_begin, Enters, any_used, wrap, Index
  <2>2. InputTyped'
    BY <1>8 DEF poll_begin, Enters, InputTyped, Steps
  <2>3. Polled(poll[p], b, n)'
    BY <1>8, <2>1 DEF poll_begin, Enters, Polled, InputTyped
  <2> QED
    BY <1>4, <1>6, <2>2, <2>3
<1>9. CASE read_event(p)
  <2>1. seen = b /\ n > 0
    BY <1>7, <1>9 DEF read_event, Polled
  <2>2. handed.ring[s] = s /\ events[s] = wrap(returned, 1, Numbers)
    <3>1. wrap(s, 0, QSIZE) = s /\ 0 \in 0 .. n - 1
      BY <1>2, <2>1, Bounds DEF Buffers, wrap
    <3> QED
      BY <1>1, <3>1 DEF InOrder, Unread
  <2>3. poll' = [poll EXCEPT ![p] = [@ EXCEPT !.step = "advance", !.desc = s, !.ev = events[s]]] /\ UNCHANGED <<posted, seen>>
    BY <1>1, <1>9, <2>1, <2>2 DEF read_event
  <2>4. InputTyped'
    <3>1. events[s] \in Number
      BY <1>2 DEF InputTyped
    <3>2. PICK r : r = [poll[p] EXCEPT !.step = "advance", !.desc = s, !.ev = events[s]]
      OBVIOUS
    <3>3. r \in [step : Steps, desc : Buffers, ev : Number, idx : Index]
      BY <1>2, <3>1, <3>2 DEF InputTyped, Steps
    <3>4. poll' = [poll EXCEPT ![p] = r]
      BY <2>3, <3>2
    <3>5. poll' \in [Poller -> [step : Steps, desc : Buffers, ev : Number, idx : Index]]
      BY <3>3, <3>4 DEF InputTyped
    <3> QED
      BY <1>3, <2>3, <3>5 DEF InputTyped
  <2>5. Polled(poll[p], b, n)'
    BY <1>1, <1>3, <2>1, <2>2, <2>3 DEF Polled, InputTyped
  <2> QED
    BY <1>4, <1>6, <2>4, <2>5
<1>10. CASE advance(p)
  <2>1. seen = b
    BY <1>7, <1>10 DEF advance, Enters, Polled
  <2>2. seen' = wrap(b, 1, RingMod) /\ seen' \in Index
    BY <1>2, <1>10, <2>1, WrapPlace DEF advance, Index
  <2>3. InputTyped'
    BY <1>10, <2>2 DEF advance, Enters, InputTyped, Steps
  <2>4. Polled(poll[p], b, n)'
    BY <1>7, <1>10, <2>2 DEF advance, Enters, Polled, InputTyped
  <2> QED
    BY <1>4, <1>6, <2>3, <2>4
<1>11. CASE load_idx(p)
  <2>1. InputTyped'
    BY <1>2, <1>11 DEF load_idx, InputTyped, Steps
  <2>2. Polled(poll[p], b, n)'
    BY <1>7, <1>11 DEF load_idx, Polled, InputTyped
  <2> QED
    BY <1>4, <1>6, <2>1, <2>2
<1>12. CASE repost(p)
  <2>1. poll[p].idx = posted.idx /\ poll[p].desc = s
    BY <1>1, <1>7, <1>12 DEF repost, Enters, Polled
  <2>2. UNCHANGED posted
    <3>1. posted' = [posted EXCEPT !.ring[s] = s]
      BY <1>2, <1>12, <2>1 DEF repost, reposted_at
    <3>2. posted.ring = [i \in Buffers |-> i] /\ posted = [idx |-> posted.idx, ring |-> posted.ring]
      BY DEF InputTyped
    <3>3. [posted.ring EXCEPT ![s] = s] = posted.ring
      BY <3>2
    <3> QED
      BY <3>1, <3>2, <3>3
  <2>3. InputTyped'
    BY <1>12, <2>2 DEF repost, Enters, InputTyped, Steps
  <2>4. Polled(poll[p], b, n)'
    BY <1>7, <1>12, <2>2 DEF repost, Enters, Polled, InputTyped
  <2> QED
    BY <1>4, <1>6, <2>3, <2>4
<1> QED
  BY <1>8, <1>9, <1>10, <1>11, <1>12

\* The event is the next, and everything moves up by one place.
LEMMA ReturnKeeps ==
  ASSUME ~Interrupts, InputTyped, OnePoll, NEW b, NEW n, InOrder(b, n), NEW p \in Poller, poll_return(p)
  PROVE  /\ InputTyped' /\ OnePoll' /\ InOrder(wrap(b, 1, RingMod), n - 1)'
         /\ returned # delivered /\ returned' = next_event(returned)
<1>1. PICK s, c, t : s = b % QSIZE /\ c = wrap(b, 1, RingMod) /\ t = wrap(s, 1, QSIZE)
  OBVIOUS
<1>2. /\ b \in Index /\ n \in 0 .. QSIZE /\ s \in Buffers /\ t \in Buffers
      /\ handed.idx = wrap(b, n, RingMod) /\ handed.idx % QSIZE = wrap(s, n, QSIZE) /\ consumed = handed.idx
      /\ posted.idx = wrap(b, QSIZE, RingMod) /\ posted.idx % QSIZE = s /\ posted.idx \in Index
      /\ delivered = wrap(returned, n, Numbers)
      /\ c \in Index /\ c % QSIZE = t
  <2>1. b \in Index
    BY DEF InOrder, Counts
  <2>2. b % QSIZE \in Buffers /\ c \in Index /\ c % QSIZE = t
    BY <1>1, <2>1, WrapPlace DEF Index
  <2> QED
    BY <1>1, <2>1, <2>2, Bounds DEF InOrder, Counts, Index, Buffers, wrap
<1>3. /\ poll[p].step = "notify" /\ n > 0 /\ poll[p].ev = wrap(returned, 1, Numbers)
      /\ poll[p].idx = posted.idx /\ seen = c
  BY <1>1 DEF InOrder, Polled, poll_return
<1>4. \A q \in Poller : q # p => poll[q].step = "out"
  BY DEF poll_return, Polls
<1>5. /\ posted' = [posted EXCEPT !.idx = next_idx(posted.idx)] /\ returned' = wrap(returned, 1, Numbers)
      /\ poll' = [poll EXCEPT ![p] = Outside] /\ UNCHANGED <<events, handed, seen, consumed, delivered>>
  BY <1>3 DEF poll_return
<1>6. /\ next_idx(posted.idx) = wrap(posted.idx, 1, RingMod) /\ next_idx(posted.idx) % QSIZE = t
  BY <1>1, <1>2, WrapPlace DEF Index
<1>7. returned \in Number /\ wrap(returned, 1, Numbers) \in Number /\ wrap(returned, 1, Numbers) = next_event(returned)
  <2>1. returned \in 0 .. Numbers - 1
    BY DEF InputTyped, Number
  <2> QED
    BY <2>1, Bounds, WrapOne DEF Number, next_event, wrap
<1>8. InputTyped' /\ posted'.idx = next_idx(posted.idx)
  <2>1. posted.ring = [i \in Buffers |-> i] /\ posted = [idx |-> posted.idx, ring |-> posted.ring]
    BY DEF InputTyped
  <2>2. posted' = [idx |-> next_idx(posted.idx), ring |-> posted.ring]
    BY <1>5, <2>1
  <2>3. posted' = [idx |-> posted'.idx, ring |-> [i \in Buffers |-> i]] /\ posted'.idx = next_idx(posted.idx)
    BY <2>1, <2>2
  <2>4. Outside \in [step : Steps, desc : Buffers, ev : Number, idx : Index]
    BY Bounds DEF Outside, Steps, Buffers, Number, Index
  <2>5. seen' \in Index /\ returned' \in Number
    BY <1>2, <1>3, <1>5, <1>7
  <2> QED
    BY <1>5, <2>3, <2>4, <2>5 DEF InputTyped
<1>9. \A q \in Poller : poll'[q].step = "out"
  BY <1>4, <1>5 DEF InputTyped, Outside
<1>10. Counts(c, n - 1)'
  <2>1. /\ handed.idx = wrap(c, n - 1, RingMod) /\ handed.idx % QSIZE = wrap(t, n - 1, QSIZE)
        /\ wrap(posted.idx, 1, RingMod) = wrap(c, QSIZE, RingMod) /\ n - 1 \in 0 .. QSIZE
        /\ delivered = wrap(wrap(returned, 1, Numbers), n - 1, Numbers)
    BY <1>1, <1>2, <1>3, <1>7, Bounds DEF Index, Buffers, Number, wrap
  <2> QED
    BY <1>2, <1>5, <1>6, <1>8, <2>1 DEF Counts
<1>11. Unread(t, n - 1, handed.ring, events, returned')
  <2> SUFFICES ASSUME NEW j \in 0 .. n - 2
               PROVE  /\ handed.ring[wrap(t, j, QSIZE)] = wrap(t, j, QSIZE)
                      /\ events[wrap(t, j, QSIZE)] = wrap(returned', j + 1, Numbers)
    BY <1>2 DEF Unread
  <2>1. /\ j + 1 \in 0 .. n - 1 /\ wrap(t, j, QSIZE) = wrap(s, j + 1, QSIZE)
        /\ wrap(returned', j + 1, Numbers) = wrap(returned, (j + 1) + 1, Numbers)
    BY <1>1, <1>2, <1>5, <1>7, Bounds DEF Buffers, Number, wrap
  <2> QED
    BY <1>1, <2>1 DEF InOrder, Unread
<1>12. returned # delivered
  BY <1>2, <1>3, <1>7, Bounds DEF Number, wrap
<1>13. InOrder(c, n - 1)'
  BY <1>2, <1>3, <1>5, <1>9, <1>10, <1>11 DEF InOrder, Polled
<1> QED
  BY <1>1, <1>5, <1>7, <1>8, <1>9, <1>12, <1>13 DEF OnePoll

LEMMA NextOrdered ==
  ASSUME ~Interrupts, InputInv, [NextInput]_inputVars
  PROVE  InputInv' /\ (returned' # returned => returned # delivered /\ returned' = next_event(returned))
<1>1. PICK b, n : InOrder(b, n)
  BY DEF InputInv
<1>2. InputTyped /\ OnePoll
  BY DEF InputInv
<1>3. CASE device_event
  <2>1. InputTyped' /\ InOrder(b, n + 1)'
    BY <1>1, <1>2, <1>3, EventKeeps
  <2> QED
    BY <1>2, <1>3, <2>1 DEF InputInv, OnePoll, device_event
<1>4. ASSUME NEW p \in Poller, poll_begin(p) \/ read_event(p) \/ advance(p) \/ load_idx(p) \/ repost(p)
      PROVE  InputInv' /\ UNCHANGED returned
  <2>1. InputTyped' /\ OnePoll' /\ InOrder(b, n)'
    BY <1>1, <1>2, <1>4, PollKeeps
  <2> QED
    BY <1>4, <2>1 DEF InputInv, poll_begin, read_event, advance, load_idx, repost
<1>5. ASSUME NEW p \in Poller, poll_return(p)
      PROVE  InputInv' /\ returned # delivered /\ returned' = next_event(returned)
  BY <1>1, <1>2, <1>5, ReturnKeeps DEF InputInv
<1>6. CASE UNCHANGED inputVars
  <2>1. InOrder(b, n)'
    BY <1>1, <1>6 DEF inputVars, InOrder, Counts, Polled
  <2> QED
    BY <1>2, <1>6, <2>1 DEF inputVars, InputInv, InputTyped, OnePoll
<1> QED
  BY <1>3, <1>4, <1>5, <1>6 DEF NextInput, PollStep, device_event, device_drop

\* The events a device delivers are returned once each and in its order, none
\* from a buffer it has written again, if no poll starts inside another's: the
\* buffer is given back only after its event is copied (virtio_input.c:205-222).
THEOREM EventsNeverMixed == ASSUME ~Interrupts PROVE SpecInput => EventsInOrder
<1>1. InitInput => InputInv
  BY InitOrdered
<1>2. InputInv /\ [NextInput]_inputVars => InputInv'
  BY NextOrdered
<1>3. InputInv /\ [NextInput]_inputVars
        => [returned' # returned => returned # delivered /\ returned' = next_event(returned)]_inputVars
  BY NextOrdered
<1> QED
  BY <1>1, <1>2, <1>3, PTL DEF SpecInput, EventsInOrder
=============================================================================
