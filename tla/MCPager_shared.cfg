CONSTANTS
  NumPages = 1
  NRef = 1
  ReserveSize = 1
  LastBlock = 7
  FormatBlocks = 2
  NoThread = nothread
  MaxStops = 1
  MaxSnaps = 4
  Snapper = snapper
  Allocators = {a1}
SPECIFICATION Spec
INVARIANTS FreeOnce UsedNotFree
CHECK_DEADLOCK FALSE
