CONSTANTS
  NumPages = 1
  Block = {b1, b2, b3, b4}
  Val = {0, 5}
  Zero = 0
  Junk = junk
  NoPage = nopage
  ZeroPage = zeropage
  Thread = {t1, t2}
  Snapper = snapper
  Access <- AnyAccess
  Stored = {5}
  Candidates <- AnyFree
  BootSnaps <- BootAny
  MaxIoErrors = 0
SYMMETRY BlockThreadSymmetry
SPECIFICATION Spec
INVARIANT CleanMatchesDisk
