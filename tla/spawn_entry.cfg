\* The timer between alloc_task()'s link and the context (a violation).
CONSTANTS
  Kmain = kmain
  Shell = shell
  Booted = {wm}
  Users = {wm, cat, edit, doom}
  None = none
SPECIFICATION Spec
INVARIANTS StartsAtEntry
