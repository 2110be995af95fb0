\* Memory: a heap and two address spaces on one pool that runs out.
\* Volume: a FAT of five clusters, one more than the disk has, a directory that has to grow, files of none or three.
\* Windows: the desktop and two applications on two slots, queues of one event.
CONSTANTS
  Frames = 23
  Usable <- MCUsable
  Bitmap = {1}
  PAGE = 4
  HDR = 1
  GROW_PAGES = 2
  Requests = {1, 6}
  Caller = {sys}
  Open = {}
  MaxLive = 2
  Procs = {wm, doom}
  PT_ENTRIES = 512
  UNITS = 2
  Devices <- MCDevices
  Image <- MCImage
  STACK_VA = 32768
  HEAP_BASE = 65536
  HEAP_MAX = 65539
  Increments = {1, 3}
  Clusters = 5
  Held = 4
  RootSlots = 2
  DirSlots = 1
  Files <- MCFiles
  Dirs <- MCDirs
  Values <- MCValue
  Sizes = {0, 3}
  Crashes = TRUE
  MaxErrors = 0
  Apps = {wm, doom, edit}
  MAX_WINDOWS = 2
  EVQ_SIZE = 1
  Desktop = {wm}
  Watched = {}
  None = none
SPECIFICATION SpecTables
INVARIANTS TypeOK ListInOrder BlocksTile LiveHeld PagesOwnedOnce BreakBacked
INVARIANTS VolumeTyped ChainsEnd NoSharedCluster NoLeak ReadBack
INVARIANTS WindowsTyped Stacked FocusOnWindow EventsForOwner
PROPERTIES HeapPagesKept KmallocReturns DeadWindowsGo
