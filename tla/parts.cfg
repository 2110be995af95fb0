\* Spawn: one boot process, three to spawn, from either side.
\* Disk: a caller in system calls and the shell, which is not interrupted.
\* Input: a ring of three buffers. Sound: two voices, one effect slot.
\* Editor: texts of up to four characters. Handoff: two editors, three directories.
CONSTANTS
  Kmain = kmain
  Shell = shell
  Booted = {wm}
  Users = {wm, cat, edit, doom}
  None = none
  Client = {sh, p}
  Masked = {p}
  Preempt = FALSE
  Sector = {s1, s2}
  Value = {v1, v2}
  Blank = blank
  IdxMod = 3
  MaxTimeouts = 1
  Poller = {comp, sh}
  Interrupts = FALSE
  QSIZE = 3
  RingMod = 6
  Numbers = 6
  Scores <- MCScores
  Nil = nil
  Cut = cut
  DrumChannel = 15
  Voices = {1, 2}
  SfxSlots = {1}
  SfxLens = {7}
  Gaps = {1, 2}
  RATE = 11
  MSEC = 3
  MAX_GAP = 5
  HZ = 4
  TxMod = 2
  nl = nl
  absent = absent
  Char = {"a"}
  NL = nl
  MAX_TEXT = 5
  Files <- MCFiles
  Absent = absent
  Root = "root"
  Tree <- MCTree
  Programs = {}
  Nowhere = "nowhere"
  Editors = {e1, e2}
  Names <- MCNames
  Width <- MCWidth
  Start <- MCStart
  MAX_PATH = 8
  KERNEL_PATH = 5
  Nothing = nothing
SPECIFICATION SpecParts
CONSTRAINT Unbroken
INVARIANTS RingClosed VoicesHeld NoDrift CleanIsSaved LaunchOpens
PROPERTIES ImplementsDisk EventsInOrder EventsArrive ClipIntact EffectsEnd ImplementsLines
