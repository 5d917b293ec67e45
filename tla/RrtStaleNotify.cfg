\* One thread and one client that hands it one job: enough for the client's
\* late notification to wake the executor after it ran the job.
CONSTANTS
  Threads = {t1}
  Clients = {c1}
  Functions = {j1}
  Poison = Poison
  NULL = NULL
  MaxTries = 2
  SpuriousWakeups = FALSE
SPECIFICATION Spec
INVARIANT ReadsARequestersValues
CHECK_DEADLOCK FALSE
