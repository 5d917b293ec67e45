----------------------------- MODULE WorkerPool -----------------------------
(***************************************************************************)
(* core/utils/worker_pool.c: a pool that grows by one rerunnable thread     *)
(* when a task finds no free one, composed with those threads               *)
(* (RerunnableThread, whose actions are the calls the pool makes on them    *)
(* and the executors that call back into the pool).                         *)
(*                                                                         *)
(* Every function of the pool holds pool_lock from its first statement to   *)
(* its return.  What it does before the first call that can block is one    *)
(* step; wp_submit_task and wp_shutdown keep the lock over the calls they   *)
(* make on a thread.  A refused call (wrong pool status) changes nothing    *)
(* and is no action.                                                        *)
(*                                                                         *)
(* The two queues are sets here: nothing the pool promises depends on which *)
(* free thread is taken or in which order threads are shut down.            *)
(***************************************************************************)
EXTENDS RerunnableThread

CONSTANTS
  Tasks,    \* what clients submit (a function with its parameter)
  Owners,   \* the clients that also shut the pool down and destroy it
  Exec      \* worker_pool_exec_function, what every pool thread runs

ASSUME PoolAssumption ==
  /\ Functions = {Exec}
  /\ Owners \subseteq Clients
  /\ NULL \notin Tasks

VARIABLES
  pool_lock,    \* the client inside wp_submit_task or wp_shutdown, or NULL
  pool_status,  \* enum worker_pool_status
  free,         \* free_head .. free_tail
  busy,         \* busy_head .. busy_tail
  task,         \* executor and param of each pool_thread
  wp_pc,        \* where a client is in a wp_ call
  use,          \* wp_submit_task: the thread picked for the task
  todo,         \* wp_shutdown: the threads shutdown_all has yet to visit
  pool_gone,    \* wp_destroy has freed the threads and the lock
  job,          \* history: the task's life, as JobService states it
  waited        \* history: a wp_wait_exit has returned 0

poolVars == <<pool_lock, pool_status, free, busy, task, wp_pc, use, todo,
              pool_gone, job, waited>>
vars == <<rrtVars, poolVars>>

WpPc == {"out", "rerun", "unlock", "shutdown_all", "wait"}

\* wp_init.  A thread that is not allocated yet is in its state of rrt_init.
Init ==
  /\ RrtInit
  /\ pool_lock = NULL
  /\ pool_status = "available"
  /\ free = {}
  /\ busy = {}
  /\ task = [t \in Threads |-> NULL]
  /\ wp_pc = [c \in Clients |-> "out"]
  /\ use = [c \in Clients |-> NULL]
  /\ todo = {}
  /\ pool_gone = FALSE
  /\ job = [j \in Tasks |-> "new"]
  /\ waited = FALSE

WpGoto(c, from, to) ==
  /\ wp_pc[c] = from
  /\ wp_pc' = [wp_pc EXCEPT ![c] = to]

\* (Mutants: pool_lock is not taken; the pool's status is not looked at.)
PoolUnlocked == TRUE
PoolFree == pool_lock = NULL

AcceptsAlways == TRUE
Accepts == pool_status = "available"

\* A client that is in no call takes pool_lock; nobody calls a pool that is gone.
WpEnter(c, to) ==
  /\ WpGoto(c, "out", to)
  /\ PoolFree
  /\ ~pool_gone
-----------------------------------------------------------------------------
(* wp_submit_task.                                                          *)

\* A thread for the task: a free one, or a new one if there is none.  Either
\* is queued as busy and given its executor and param.
Dispatch(c, t, j) ==
  /\ WpEnter(c, "rerun")
  /\ Accepts
  /\ job[j] = "new"
  /\ pool_lock' = c
  /\ free' = free \ {t}
  /\ busy' = busy \cup {t}
  /\ task' = [task EXCEPT ![t] = j]
  /\ use' = [use EXCEPT ![c] = t]
  /\ UNCHANGED <<pool_status, todo, pool_gone, job, waited>>

SubmitToFree(c, t, j) ==
  /\ t \in free
  /\ Dispatch(c, t, j)
  /\ UNCHANGED rrtVars

\* new_pool_thread.  When rrt_start fails the new thread is out of everybody's
\* reach and the call returns EBUSY: nothing else changes.
SubmitToNew(c, t, j) ==
  /\ free = {}
  /\ status[t] = "initalized"
  /\ Dispatch(c, t, j)
  /\ Start(t, TRUE)

\* rrt_try_rerun_if_free: the task is accepted if the thread was idle.
SubmitRerun(c) ==
  /\ WpGoto(c, "rerun", "unlock")
  /\ TryRerun(c, use[c], Exec)
  /\ job' = IF status[use[c]] = "idle"
              THEN [job EXCEPT ![task[use[c]]] = "accepted"] ELSE job
  /\ UNCHANGED <<pool_lock, pool_status, free, busy, task, use, todo,
                 pool_gone, waited>>

\* notify_job, the end of rrt_try_rerun_if_free and of a graceful shutdown.
Notify(c) == NotifyJob(c) /\ UNCHANGED poolVars

SubmitReturn(c) ==
  /\ WpGoto(c, "unlock", "out")
  /\ call_pc[c] = "out"
  /\ pool_lock' = NULL
  /\ use' = [use EXCEPT ![c] = NULL]
  /\ UNCHANGED <<rrtVars, pool_status, free, busy, task, todo, pool_gone,
                 job, waited>>
-----------------------------------------------------------------------------
(* wp_shutdown: pool_lock is kept until every thread was asked to end.      *)

ShutdownPool(c) ==
  /\ WpEnter(c, "shutdown_all")
  /\ pool_status = "available"
  /\ pool_status' = "shutting_down"
  /\ pool_lock' = c
  /\ todo' = free \cup busy
  /\ UNCHANGED <<rrtVars, free, busy, task, use, pool_gone, job, waited>>

ShutdownNext(c, t) ==
  /\ wp_pc[c] = "shutdown_all"
  /\ t \in todo
  /\ ShutdownCall(c, t)
  /\ todo' = todo \ {t}
  /\ UNCHANGED <<pool_lock, pool_status, free, busy, task, wp_pc, use,
                 pool_gone, job, waited>>

ShutdownRound(c) ==
  /\ ShutdownLock(c) \/ ShutdownRetry(c) \/ ShutdownDecide(c)
  /\ UNCHANGED poolVars

ShutdownReturn(c) ==
  /\ WpGoto(c, "shutdown_all", "out")
  /\ call_pc[c] = "out"
  /\ todo = {}
  /\ pool_lock' = NULL
  /\ UNCHANGED <<rrtVars, pool_status, free, busy, task, use, todo,
                 pool_gone, job, waited>>
-----------------------------------------------------------------------------
(* wp_wait_exit and wp_destroy.                                             *)

\* (Mutant of AllExited: the busy queue is left out.)
FreeExited == \A t \in free : status[t] = "exited"

AllExited == \A t \in busy \cup free : status[t] = "exited"

\* The pool is wp_exited from here on, before its threads are looked at.
\* is_all_exited takes each rt_lock, which nobody but wp_shutdown keeps.
WaitExit(c) ==
  /\ WpEnter(c, IF AllExited THEN "out" ELSE "wait")
  /\ pool_status = "shutting_down"
  /\ pool_status' = "exited"
  /\ waited' = (waited \/ AllExited)
  /\ UNCHANGED <<rrtVars, pool_lock, free, busy, task, use, todo, pool_gone, job>>

\* A later look, after a sleep without pool_lock; one that finds a thread
\* alive changes nothing.
WaitDone(c) ==
  /\ WpGoto(c, "wait", "out")
  /\ PoolFree
  /\ AllExited
  /\ waited' = TRUE
  /\ UNCHANGED <<rrtVars, pool_lock, pool_status, free, busy, task, use, todo,
                 pool_gone, job>>

DestroyPool(c) ==
  /\ WpEnter(c, "out")
  /\ pool_status = "exited"
  /\ destroyed' = destroyed \cup busy \cup free
  /\ pool_gone' = TRUE
  /\ UNCHANGED <<status, run, rt_lock, cw_lock, executorVars, callVars,
                 pool_lock, pool_status, free, busy, task, use, todo, job, waited>>
-----------------------------------------------------------------------------
(* The executors.                                                           *)

\* A thread moves from the busy to the free queue.  (Mutant: it stays.)
RequeueCopy(t) == UNCHANGED busy /\ free' = free \cup {t}
Requeue(t) == busy' = busy \ {t} /\ free' = free \cup {t}

\* worker_pool_exec_function calls what it finds in the pool_thread, and
\* returns when the task has.
Begin(t) ==
  /\ Invoke(t)
  /\ job' = [job EXCEPT ![task[t]] = "running"]
  /\ UNCHANGED <<pool_lock, pool_status, free, busy, task, wp_pc, use, todo,
                 pool_gone, waited>>

Finish(t) ==
  /\ Return(t)
  /\ job' = [job EXCEPT ![task[t]] = "done"]
  /\ UNCHANGED <<pool_lock, pool_status, free, busy, task, wp_pc, use, todo,
                 pool_gone, waited>>

\* on_release at rrt_after_become_idle: the thread moves to the free queue.
OnRelease(t) ==
  /\ Callback(t)
  /\ PoolFree
  /\ Requeue(t)
  /\ UNCHANGED <<pool_lock, pool_status, task, wp_pc, use, todo, pool_gone,
                 job, waited>>

ExecutorStep(t) ==
  /\ \/ LockCw(t)
     \/ Check(t)
     \/ CondWait(t)
     \/ Wake(t)
     \/ ReadJob(t)
     \/ Clear(t)
     \/ Settle(t)
     \/ Exit(t)
  /\ UNCHANGED poolVars

Wakeup(t) == SpuriousWakeup(t) /\ UNCHANGED poolVars

Executor(t) == Begin(t) \/ Finish(t) \/ OnRelease(t) \/ ExecutorStep(t)
-----------------------------------------------------------------------------
\* The rest of a call that has begun.
InCall(c) ==
  \/ SubmitRerun(c)
  \/ Notify(c)
  \/ SubmitReturn(c)
  \/ \E t \in Threads : ShutdownNext(c, t)
  \/ ShutdownRound(c)
  \/ ShutdownReturn(c)
  \/ WaitDone(c)

NewCall(c) ==
  \/ \E t \in Threads, j \in Tasks : SubmitToFree(c, t, j) \/ SubmitToNew(c, t, j)
  \/ c \in Owners /\ (ShutdownPool(c) \/ WaitExit(c) \/ DestroyPool(c))

Next ==
  \/ \E c \in Clients : NewCall(c) \/ InCall(c)
  \/ \E t \in Threads : Executor(t) \/ Wakeup(t)

\* Every thread of the process is scheduled, and a task returns.  Nobody has
\* to submit a task or to shut the pool down.
Fairness ==
  /\ \A t \in Threads : WF_vars(Executor(t))
  /\ \A c \in Clients : WF_vars(InCall(c))

Spec == Init /\ [][Next]_vars /\ Fairness
-----------------------------------------------------------------------------
JobState == {"new", "accepted", "running", "done"}

TypeOK ==
  /\ RrtTypeOK
  /\ pool_lock \in Clients \cup {NULL}
  /\ pool_status \in {"available", "shutting_down", "exited"}
  /\ free \subseteq Threads
  /\ busy \subseteq Threads
  /\ task \in [Threads -> Tasks \cup {NULL}]
  /\ wp_pc \in [Clients -> WpPc]
  /\ use \in [Clients -> Threads \cup {NULL}]
  /\ todo \subseteq Threads
  /\ pool_gone \in BOOLEAN
  /\ job \in [Tasks -> JobState]
  /\ waited \in BOOLEAN

\* "it's must be free" (worker_pool.c:103): the thread wp_submit_task picked
\* is idle when it gets to rrt_try_rerun_if_free, whatever the executors do
\* meanwhile, so the call never returns LXC_ERROR_RESOURCE_BUSY.
MustBeFree ==
  \A c \in Clients : wp_pc[c] = "rerun" => status[use[c]] = "idle"

\* The queues partition the pool's threads: a thread is in one of them from
\* its start to the end, it is in the busy one when it gets to on_release
\* (which unlinks it from there), and a free one is not on its way to
\* on_release, so it is not queued twice.
QueuesPartition ==
  /\ free \cap busy = {}
  /\ \A t \in Threads : ex_pc[t] # "none" <=> t \in free \cup busy
  /\ \A t \in free :
       /\ ex_pc[t] \notin {"running", "clear", "settle", "callback"}
       /\ ex_pc[t] = "call" => NullCall(t)

\* "Values are also updated before we are notified" (rerunnable_thread.c:127):
\* no notification reaches an executor that waits on an idle thread, though
\* wp_submit_task and rrt_graceful_shutdown notify after they released rt_lock.
NotifiedWithAJob ==
  \A c \in Clients :
    call_pc[c] = "notify_job" /\ ex_pc[callee[c]] = "waiting" => status[callee[c]] # "idle"

\* As long as pthread_cond_wait returns only when notified, no pool thread
\* calls through NULL: a submitter still owes its notification only while it
\* holds pool_lock, which the executor needs to become free again
\* (rerunnable_thread.c:127 claims it of every requester).
ReadsARequestersValues == \A t \in Threads : ~NullCall(t)

\* "fail if not exited" (worker_pool.c:225): once wp_destroy has freed the
\* pool, no executor runs on its threads and no wp_wait_exit walks its queues.
DestroyedWhenExited ==
  pool_gone =>
    /\ \A t \in destroyed : status[t] = "exited" /\ ~Live(t)
    /\ \A c \in Clients : wp_pc[c] # "wait"

\* The pool as the program sees it: a task is accepted only while the pool is
\* available, an accepted one is run exactly once, and when wp_wait_exit
\* returns 0 all accepted ones are done.
Service ==
  IF waited THEN "drained"
  ELSE IF pool_status = "available" THEN "open" ELSE "closed"

Jobs == INSTANCE JobService WITH Jobs <- Tasks, service <- Service

RunsTasksOnce == Jobs!Spec

\* An accepted task is run to its end, also when the pool is shut down first.
\* (A spurious wakeup may end the process in a call through NULL before.)
Died == \E t \in Threads : NullCall(t)

AcceptedIsDone ==
  \A j \in Tasks : job[j] = "accepted" ~> job[j] = "done" \/ Died

\* No call on the pool blocks for ever on its locks, and a wp_wait_exit
\* returns unless the shutdown of a thread was given up.
CallsReturn ==
  \A c \in Clients : wp_pc[c] # "out" ~> (wp_pc[c] = "out" \/ gave_up # {} \/ Died)
=============================================================================
