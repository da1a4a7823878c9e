CONSTANTS
  NumPages = 2
  NRef = 1
  ReserveSize = 1
  LastBlock = 11
  FormatBlocks = 2
  NoThread = nothread
  MaxStops = 2
  MaxSnaps = 4
  Snapper = snapper
  Allocators = {}
SPECIFICATION Spec
INVARIANTS TypeOK FreeOnce UsedNotFree NoLeak RestartSafe FreeHeadOnDisk SnapshotReadable CopiesAgree
CHECK_DEADLOCK FALSE
