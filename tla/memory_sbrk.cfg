\* SYS_SBRK runs out of pages half way (a violation).
CONSTANTS
  Frames = 23
  Usable <- MCUsable
  Bitmap = {1}
  PAGE = 4
  HDR = 1
  GROW_PAGES = 2
  Requests = {1, 6}
  Caller = {sys}
  Open = {}
  MaxLive = 2
  Procs = {wm, doom}
  PT_ENTRIES = 512
  UNITS = 2
  Devices <- MCDevices
  Image <- MCImage
  STACK_VA = 32768
  HEAP_BASE = 65536
  HEAP_MAX = 65539
  Increments = {1, 3}
SPECIFICATION Spec
INVARIANTS MappedExactly
