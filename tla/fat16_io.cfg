\* No power loss, one request that fails.
CONSTANTS
  Clusters = 5
  Held = 4
  RootSlots = 2
  DirSlots = 1
  Files <- MCFiles
  Dirs <- MCDirs
  Values <- MCValues
  Sizes = {1, 2}
  Crashes = FALSE
  MaxErrors = 1
SPECIFICATION SpecVolume
INVARIANTS ReadBack
