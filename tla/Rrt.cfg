\* One thread, two clients that race, two jobs; wakeups may be spurious.
CONSTANTS
  Threads = {t1}
  Clients = {c1, c2}
  Functions = {j1, j2}
  Poison = Poison
  NULL = NULL
  MaxTries = 2
  SpuriousWakeups = TRUE
SPECIFICATION Spec
INVARIANTS
  NoLostWakeup
  AcceptedJobIsHeld
PROPERTIES
  RunsJobsOnce
  ShutdownReturns
  ShutdownExits
CHECK_DEADLOCK FALSE
