CONSTANTS
  NumPages = 1
  Block = {b1, b2, b3, b4}
  Val = {0, 5}
  Zero = 0
  Junk = junk
  NoPage = nopage
  ZeroPage = zeropage
  Thread = {t1}
  Snapper = snapper
  Access <- AnyAccess
  Stored = {0, 5}
  Candidates <- AnyFree
  BootSnaps <- BootAny
  MaxIoErrors = 0
SYMMETRY BlockSymmetry
SPECIFICATION Spec
PROPERTY ImplementsSnapshots
