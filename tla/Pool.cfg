\* One owner that shuts the pool down and destroys it, one more client that
\* races it with submissions.  Two tasks, and so at most two threads: a task
\* finds a free thread or makes a new one.
CONSTANTS
  Threads = {t1, t2}
  Clients = {c1, c2}
  Owners = {c1}
  Tasks = {j1, j2}
  Exec = Exec
  Functions = {Exec}
  Poison = Poison
  NULL = NULL
  MaxTries = 2
  SpuriousWakeups = TRUE
SPECIFICATION Spec
INVARIANTS
  QueuesPartition
  NotifiedWithAJob
  DestroyedWhenExited
PROPERTIES
  RunsTasksOnce
  AcceptedIsDone
  CallsReturn
CHECK_DEADLOCK FALSE
