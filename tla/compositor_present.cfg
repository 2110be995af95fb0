\* A process presents between its window's blit and `dirty = 0` (a violation).
CONSTANTS
  Apps = {wm, doom}
  MAX_WINDOWS = 2
  EVQ_SIZE = 1
  Desktop = {wm}
  Watched = {wm, doom}
  None = none
SPECIFICATION SpecDesk
INVARIANTS PresentShows
