CONSTANTS
  t1 = t1
  t2 = t2
  t3 = t3
  Thread = {t1, t2, t3}
  Killer = killer
  NoThread = none
  Prio <- MCPrio
  Msecs = {0}
  Usecs = {1500}
  MaxUnits = 2
  Periodic = {p}
  Period = 1
SPECIFICATION Spec
INVARIANTS CalledWhenDue QueuedAsleep TimerMatchesSleep MutexHandedOver NoLostUnit KillsZombies
PROPERTY TimeoutWakes
