----------------------------- MODULE VirtioBlk ------------------------------
(***************************************************************************)
(* The block driver (virtio_blk.c) and the device behind its queue. One    *)
(* header, one status byte and one descriptor chain serve every request. A *)
(* call is taken apart at the stores the device or another caller can see: *)
(* the header, the descriptors, the load and the store of avail->idx, the  *)
(* poll, last_used_idx, the status. A system call makes its requests with  *)
(* IRQs masked and the CPU to itself; the shell (`cat`, `run`, `sector`)   *)
(* does not, and with Preempt the timer may come between its stores. A     *)
(* request of several sectors is one sector here.                          *)
(***************************************************************************)
EXTENDS Naturals

CONSTANTS
  Client,       \* tasks that read and write sectors
  Masked,       \* those that do it in system calls
  Preempt,      \* whether the others can be interrupted during a request
  Sector, Value,
  Blank,        \* a buffer nothing was read into yet
  IdxMod,       \* 2^16: the range of avail->idx and used->idx
  MaxTimeouts   \* how many polls may run out

ASSUME BlkAssumption ==
  /\ Masked \subseteq Client
  /\ Preempt \in BOOLEAN
  /\ IdxMod \in Nat \ {0, 1}
  /\ MaxTimeouts \in Nat

VARIABLES
  req_hdr, req_status, desc,     \* shared memory: header, status, data descriptor
  avail, used,                   \* avail->idx, used->idx
  last_used_idx,
  popped, flight,                \* the device: requests popped so far, those in work
  disk, mem,                     \* sectors, and each caller's buffer
  stage, ask, avail_idx,         \* each caller's place in the code, arguments, local
  result, moved,                 \* what it returned; history: its transfer happened
  timeouts                       \* calls that gave up, up to MaxTimeouts

deviceVars == <<popped, flight, disk>>
sharedVars == <<req_hdr, req_status, desc, avail, used, last_used_idx>>
callVars == <<stage, ask, avail_idx, result, moved, timeouts>>
blkVars == <<deviceVars, sharedVars, callVars, mem>>

Stages == {"idle", "desc", "avail", "publish", "poll", "take", "status"}
Request == [type : {"in", "out"}, sector : Sector]

\* uint16_t arithmetic.
plus(i) == IF i = IdxMod - 1 THEN 0 ELSE i + 1

Goes(c, from, to) == stage[c] = from /\ stage' = [stage EXCEPT ![c] = to]

\* c has the CPU: whoever else is in a request was interrupted in it.
HasCpu(c) == \A d \in Client \ {c} : stage[d] # "idle" => Preempt /\ d \notin Masked

-----------------------------------------------------------------------------
\* A call, from its arguments to its result.

header(c, type, s) ==
  /\ HasCpu(c)
  /\ Goes(c, "idle", "desc")
  /\ req_hdr' = [type |-> type, sector |-> s]
  /\ req_status' = "sentinel"
  /\ ask' = [ask EXCEPT ![c] = [type |-> type, sector |-> s]]
  /\ result' = [result EXCEPT ![c] = "none"]
  /\ moved' = [moved EXCEPT ![c] = FALSE]
  /\ UNCHANGED <<deviceVars, desc, avail, used, last_used_idx, avail_idx, timeouts>>

virtio_blk_read(c, s) == header(c, "in", s) /\ UNCHANGED mem

virtio_blk_write(c, s, v) == header(c, "out", s) /\ mem' = [mem EXCEPT ![c] = v]

device_writes_any(c) == TRUE

device_writes(c) == ask[c].type = "in"

set_desc(c) ==
  /\ HasCpu(c)
  /\ Goes(c, "desc", "avail")
  /\ desc' = [buf |-> c, write |-> device_writes(c)]
  /\ UNCHANGED <<deviceVars, req_hdr, req_status, avail, used, last_used_idx, mem,
                 ask, avail_idx, result, moved, timeouts>>

load_avail(c) ==
  /\ HasCpu(c)
  /\ Goes(c, "avail", "publish")
  /\ avail_idx' = [avail_idx EXCEPT ![c] = avail]
  /\ UNCHANGED <<deviceVars, sharedVars, mem, ask, result, moved, timeouts>>

publish(c) ==
  /\ HasCpu(c)
  /\ Goes(c, "publish", "poll")
  /\ avail' = plus(avail_idx[c])
  /\ UNCHANGED <<deviceVars, req_hdr, req_status, desc, used, last_used_idx, mem,
                 ask, avail_idx, result, moved, timeouts>>

poll_done(c) ==
  /\ HasCpu(c)
  /\ Goes(c, "poll", "take")
  /\ used # last_used_idx
  /\ UNCHANGED <<deviceVars, sharedVars, mem, ask, avail_idx, result, moved, timeouts>>

poll_timed_out(c) ==
  /\ HasCpu(c)
  /\ Goes(c, "poll", "idle")
  /\ used = last_used_idx
  /\ timeouts < MaxTimeouts
  /\ timeouts' = timeouts + 1
  /\ result' = [result EXCEPT ![c] = "failed"]
  /\ UNCHANGED <<deviceVars, sharedVars, mem, ask, avail_idx, moved>>

taken == used

take_used(c) ==
  /\ HasCpu(c)
  /\ Goes(c, "take", "status")
  /\ last_used_idx' = taken
  /\ UNCHANGED <<deviceVars, req_hdr, req_status, desc, avail, used, mem,
                 ask, avail_idx, result, moved, timeouts>>

read_status(c) ==
  /\ HasCpu(c)
  /\ Goes(c, "status", "idle")
  /\ result' = [result EXCEPT ![c] = IF req_status = "ok" THEN "ok" ELSE "failed"]
  /\ UNCHANGED <<deviceVars, sharedVars, mem, ask, avail_idx, moved, timeouts>>

-----------------------------------------------------------------------------
\* The device (not part of the repository): it copies the header and the
\* descriptors of a request when it pops it, moves the data at some later time,
\* in any order, and then writes the status byte and advances used->idx.

device_pop ==
  /\ popped # avail
  /\ popped' = plus(popped)
  /\ flight' = flight \cup {[n |-> popped, ask |-> req_hdr, buf |-> desc.buf, write |-> desc.write]}
  /\ UNCHANGED <<disk, sharedVars, callVars, mem>>

\* The data descriptor is one the request's type can use.
Usable(r) == r.write = (r.ask.type = "in")

device_complete(r) ==
  /\ flight' = flight \ {r}
  /\ used' = plus(used)
  /\ req_status' = "ok"
  /\ mem' = IF Usable(r) /\ r.write THEN [mem EXCEPT ![r.buf] = disk[r.ask.sector]] ELSE mem
  /\ disk' = IF Usable(r) /\ ~r.write THEN [disk EXCEPT ![r.ask.sector] = mem[r.buf]] ELSE disk
  /\ moved' = IF Usable(r) /\ stage[r.buf] # "idle" /\ ask[r.buf] = r.ask
              THEN [moved EXCEPT ![r.buf] = TRUE] ELSE moved
  /\ UNCHANGED <<popped, req_hdr, desc, avail, last_used_idx,
                 stage, ask, avail_idx, result, timeouts>>

\* A request the device refuses moves nothing.
device_error(r) ==
  /\ flight' = flight \ {r}
  /\ used' = plus(used)
  /\ req_status' = "error"
  /\ UNCHANGED <<popped, disk, req_hdr, desc, avail, last_used_idx, callVars, mem>>

-----------------------------------------------------------------------------

\* virtio_blk_init() returned 0: queue pages zeroed, header and status as
\* kmalloc() left them (and `ask` as the header, for want of a call).
InitBlk ==
  /\ req_hdr \in Request /\ req_status = "sentinel"
  /\ desc \in [buf : Client, write : {FALSE}]
  /\ avail = 0 /\ used = 0 /\ last_used_idx = 0 /\ popped = 0
  /\ flight = {}
  /\ disk \in [Sector -> Value]
  /\ mem = [c \in Client |-> Blank]
  /\ stage = [c \in Client |-> "idle"]
  /\ ask = [c \in Client |-> req_hdr]
  /\ avail_idx = [c \in Client |-> 0]
  /\ result = [c \in Client |-> "none"]
  /\ moved = [c \in Client |-> FALSE]
  /\ timeouts = 0

CallStep(c) ==
  \/ \E s \in Sector : virtio_blk_read(c, s) \/ \E v \in Value : virtio_blk_write(c, s, v)
  \/ set_desc(c)
  \/ load_avail(c)
  \/ publish(c)
  \/ poll_done(c)
  \/ poll_timed_out(c)
  \/ take_used(c)
  \/ read_status(c)

NextBlk ==
  \/ \E c \in Client : CallStep(c)
  \/ device_pop
  \/ \E r \in flight : device_complete(r) \/ device_error(r)

SpecBlk == InitBlk /\ [][NextBlk]_blkVars

-----------------------------------------------------------------------------
\* Properties.

Promise == INSTANCE Disk WITH
  stored <- disk, buf <- mem, answer <- result, broken <- timeouts > 0,
  call <- [c \in Client |->
             [op |-> IF stage[c] = "idle" THEN "idle" ELSE ask[c].type,
              sector |-> ask[c].sector, done |-> moved[c]]]

\* The driver is the disk its header promises as long as callers do not
\* interrupt each other and no poll has run out: a call that returns 0 has had
\* its own sector moved on its own buffer, exactly once, during the call, and a
\* completion is never taken for another request's (virtio_blk.c:174-230).
ImplementsDisk == Promise!Spec

\* "Reads ... sectors starting at `start_sector` into `buf` ... Returns 0 on
\* success" (virtio_blk.h): a call that returned 0 has had its request done.
AnswerRight == \A c \in Client : result[c] = "ok" => moved[c]
=============================================================================
