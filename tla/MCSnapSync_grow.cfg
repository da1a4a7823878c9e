CONSTANTS
  Thread = {t1, t2, t3}
  Started = {t1, t2}
  Returning = {}
  MayShutdown = FALSE
SPECIFICATION FairSpec
INVARIANT AllAsleep
PROPERTIES ImplementsStop SnapshotTaken StoppedThreadsWake
