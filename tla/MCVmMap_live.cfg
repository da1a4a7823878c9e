CONSTANTS
  NumPages = 1
  Block = {1, 2, 3, 4}
  Val = {0}
  Zero = 0
  Junk = junk
  NoPage = nopage
  ZeroPage = zeropage
  Thread = {t1}
  Snapper = snapper
  Access <- AnyAccess
  Stored = {0}
  Candidates <- LowestFree
  BootSnaps <- BootFresh
  MaxIoErrors = 0
SPECIFICATION FairSpec
PROPERTIES SnapshotCompletes AccessCompletes
