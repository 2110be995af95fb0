\* The shell interrupted inside a request by a system call's (a violation).
CONSTANTS
  Client = {sh, p}
  Masked = {p}
  Preempt = TRUE
  Sector = {s1, s2}
  Value = {v1, v2}
  Blank = blank
  IdxMod = 3
  MaxTimeouts = 0
SPECIFICATION SpecBlk
INVARIANT AnswerRight
