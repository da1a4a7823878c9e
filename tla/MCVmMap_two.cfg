CONSTANTS
  NumPages = 2
  Block = {b1, b2, b3}
  Val = {0, 5}
  Zero = 0
  Junk = junk
  NoPage = nopage
  ZeroPage = zeropage
  Thread = {t1}
  Snapper = snapper
  Access <- WritesOnly
  Stored = {5}
  Candidates <- AnyFree
  BootSnaps <- BootFresh
  MaxIoErrors = 0
SYMMETRY BlockSymmetry
SPECIFICATION Spec
PROPERTIES ImplementsSnapshots
CHECK_DEADLOCK FALSE
