CONSTANTS
  Thread = {t1, t2, t3}
  Started = {t1, t2}
  Returning = {t1, t2, t3}
  MayShutdown = TRUE
SPECIFICATION Spec
SYMMETRY StartedSymmetry
INVARIANT StoppedExact
CHECK_DEADLOCK FALSE
