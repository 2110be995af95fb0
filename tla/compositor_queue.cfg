\* SYS_POLL_INPUT between the load and the store of q->count++ (a violation).
CONSTANTS
  EVQ_SIZE = 2
  MaxEvents = 3
SPECIFICATION SpecQueue
INVARIANT PollGivesWaiting
CHECK_DEADLOCK FALSE
