---------------------------- MODULE VirtioInput -----------------------------
(***************************************************************************)
(* One input device (virtio_input.c): a ring of buffers posted to the      *)
(* device in advance, each reposted as soon as its event is copied out.    *)
(* The device fills buffers between any two stores of the driver. Two      *)
(* tasks poll the same device, compositor_task() and the shell's           *)
(* `keytest`, both with IRQs open; with Interrupts one may be preempted    *)
(* inside virtio_input_poll() by the other. Events are numbered as the     *)
(* device delivers them, which is all that is kept of their contents.      *)
(***************************************************************************)
EXTENDS Naturals

CONSTANTS
  Poller,       \* tasks that poll the device
  Interrupts,   \* whether a poll can be interrupted by another's
  QSIZE,
  RingMod,      \* 2^16: the range of the two indices, a multiple of QSIZE
  Numbers       \* events are numbered modulo this, more than can be under way

ASSUME InputAssumption ==
  /\ Interrupts \in BOOLEAN
  /\ QSIZE \in Nat \ {0}
  /\ RingMod \in Nat /\ RingMod % QSIZE = 0 /\ RingMod > QSIZE
  /\ Numbers \in Nat /\ Numbers > QSIZE + 1

VARIABLES
  events,            \* dev->events: the number of the event each buffer holds
  posted,            \* dev->avail: [idx, ring]
  handed,            \* dev->used: [idx, ring]
  seen,              \* dev->last_used_idx
  consumed,          \* the device: buffers of the avail ring it has taken
  delivered,         \* the number of the last event it delivered
  returned,          \* the number of the last event a poll returned
  poll               \* each poller's place in virtio_input_poll() and its locals

inputVars == <<events, posted, handed, seen, consumed, delivered, returned, poll>>

Buffers == 0 .. QSIZE - 1

next_idx(i) == (i + 1) % RingMod

next_event(n) == (n + 1) % Numbers

Outside == [step |-> "out", desc |-> 0, ev |-> 0, idx |-> 0]

Polls(p) == \A q \in Poller \ {p} : poll[q].step # "out" => Interrupts

Enters(p, from, to) == Polls(p) /\ poll[p].step = from /\ poll' = [poll EXCEPT ![p].step = to]

-----------------------------------------------------------------------------
\* virtio_input_poll(), with the callers' `while (input_poll_keyboard(&ev))`.

used_above == handed.idx > seen

\* Something used since the last poll.
any_used == handed.idx # seen

\* Nothing new: 0. Otherwise on to the ring.
poll_begin(p) ==
  /\ any_used
  /\ Enters(p, "out", "read")
  /\ UNCHANGED <<events, posted, handed, seen, consumed, delivered, returned>>

\* desc_id = used->ring[ring_idx].id, *out_ev = events[desc_id]
read_event(p) ==
  LET d == handed.ring[seen % QSIZE]
  IN  /\ Polls(p)
      /\ poll[p].step = "read"
      /\ poll' = [poll EXCEPT ![p] = [@ EXCEPT !.step = "advance", !.desc = d, !.ev = events[d]]]
      /\ UNCHANGED <<events, posted, handed, seen, consumed, delivered, returned>>

advance(p) ==
  /\ Enters(p, "advance", "load")
  /\ seen' = next_idx(seen)
  /\ UNCHANGED <<events, posted, handed, consumed, delivered, returned>>

load_idx(p) ==
  /\ Polls(p)
  /\ poll[p].step = "load"
  /\ poll' = [poll EXCEPT ![p].step = "repost", ![p].idx = posted.idx]
  /\ UNCHANGED <<events, posted, handed, seen, consumed, delivered, returned>>

first_slot_always(p) == 0

\* The place of the buffer in the avail ring.
reposted_at(p) == poll[p].idx % QSIZE

repost(p) ==
  /\ Enters(p, "repost", "notify")
  /\ posted' = [posted EXCEPT !.ring[reposted_at(p)] = poll[p].desc]
  /\ UNCHANGED <<events, handed, seen, consumed, delivered, returned>>

\* avail->idx = avail_idx + 1, the notification, and 1 to the caller.
poll_return(p) ==
  /\ Polls(p)
  /\ poll[p].step = "notify"
  /\ posted' = [posted EXCEPT !.idx = next_idx(poll[p].idx)]
  /\ returned' = poll[p].ev
  /\ poll' = [poll EXCEPT ![p] = Outside]
  /\ UNCHANGED <<events, handed, seen, consumed, delivered>>

-----------------------------------------------------------------------------
\* The device: an event goes to the next posted buffer.
device_event ==
  LET d == posted.ring[consumed % QSIZE]
  IN  /\ consumed # posted.idx
      /\ delivered' = next_event(delivered)
      /\ events' = [events EXCEPT ![d] = delivered']
      /\ handed' = [idx |-> next_idx(handed.idx), ring |-> [handed.ring EXCEPT ![handed.idx % QSIZE] = d]]
      /\ consumed' = next_idx(consumed)
      /\ UNCHANGED <<posted, seen, returned, poll>>

\* With none left it is dropped, and gets no number.
device_drop == consumed = posted.idx /\ UNCHANGED inputVars

-----------------------------------------------------------------------------

\* virtio_input_open(): every buffer posted, in order.
InitInput ==
  /\ events = [d \in Buffers |-> 0]
  /\ posted = [idx |-> QSIZE, ring |-> [i \in Buffers |-> i]]
  /\ handed = [idx |-> 0, ring |-> [i \in Buffers |-> 0]]
  /\ seen = 0 /\ consumed = 0 /\ delivered = 0 /\ returned = 0
  /\ poll = [p \in Poller |-> Outside]

PollStep(p) ==
  \/ poll_begin(p)
  \/ read_event(p)
  \/ advance(p)
  \/ load_idx(p)
  \/ repost(p)
  \/ poll_return(p)

NextInput ==
  \/ device_event
  \/ device_drop
  \/ \E p \in Poller : PollStep(p)

\* Both callers poll again for ever, so a poll that can go on goes on.
FairInput == WF_inputVars(\E p \in Poller : PollStep(p))

SpecInput == InitInput /\ [][NextInput]_inputVars

-----------------------------------------------------------------------------
\* Properties.

\* Every event the device delivers reaches exactly one caller, once and in
\* order, however many times the ring has gone round: no buffer is overwritten
\* before it is copied out, reposted twice, or read under an old index
\* (virtio_input.c:205-222).
EventsInOrder ==
  [][returned' # returned => returned # delivered /\ returned' = next_event(returned)]_inputVars

\* Nothing stays in the ring for ever: either the callers have had everything
\* time and again, or they are still being given events for ever (which ones,
\* EventsInOrder says), however fast the device refills the ring.
EventsArrive ==
  []<>(returned = delivered) \/ []<><<returned' # returned>>_inputVars
=============================================================================
