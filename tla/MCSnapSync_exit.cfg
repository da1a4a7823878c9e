CONSTANTS
  Thread = {t1, t2}
  Started = {t1, t2}
  Returning = {t1}
  MayShutdown = FALSE
SPECIFICATION Spec
INVARIANT AllAsleep
