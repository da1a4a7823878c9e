CONSTANTS
  NumPages = 1
  Block = {b1, b2, b3, b4}
  Val = {0}
  Zero = 0
  Junk = junk
  NoPage = nopage
  ZeroPage = zeropage
  Thread = {t1, t2}
  Snapper = snapper
  Access <- AnyAccess
  Stored = {0}
  Candidates <- AnyFree
  BootSnaps <- BootAny
  MaxIoErrors = 1
SYMMETRY BlockThreadSymmetry
SPECIFICATION Spec
CHECK_DEADLOCK FALSE
INVARIANTS BlocksOwnedOnce SettledNotTargeted ReclaimSparesIo FinalizeFindsClean MakePageExact DiskNeverFull
PROPERTY CommittedImmutable
