\* The timer inside next_pid++ (a violation).
CONSTANTS
  Kmain = kmain
  Shell = shell
  Booted = {wm}
  Users = {wm, cat, edit, doom}
  None = none
SPECIFICATION Spec
INVARIANTS AliveAnswersTrue
