\* kmain, the compositor, another kernel task, two processes: one from boot,
\* one spawned later; one of them may fault.
CONSTANTS
  Kmain = kmain
  Compositor = compositor
  KernelTasks = {compositor, shell}
  UserTasks = {demo, wm}
  BootUsers = {demo}
  MayFault = {demo}
  MaxSleep = 2
  None = none
SPECIFICATION FairSpec
INVARIANTS TypeOK RingClosed ContextsOwned RunsReady QueueHoldsBlocked
PROPERTIES ReturnsToCaller ImplementsLife ReadyRuns SleeperWakes
