-------------------------- MODULE RerunnableThread --------------------------
(***************************************************************************)
(* core/utils/rerunnable_thread.c: a thread that waits on a condition       *)
(* variable, runs the function a requester handed over, and goes back to    *)
(* waiting.  This module holds the state of a set of rerunnable threads,    *)
(* the steps of their executor (executor_function) and the steps of the     *)
(* calls a client makes on them.  RrtClients composes them with arbitrary   *)
(* clients, WorkerPool with the pool.                                       *)
(*                                                                         *)
(* A step is one critical section.  rt_lock is held over more than one step *)
(* only by rrt_graceful_shutdown, which tries the mutex of has_job_cw under *)
(* it; that mutex is held over more than one step only by the executor,     *)
(* which takes rt_lock under it (wait_for_job).  Every other use of either  *)
(* lock is a section with no blocking call inside, hence one step, enabled  *)
(* when the lock is free.                                                   *)
(***************************************************************************)
EXTENDS Naturals

CONSTANTS
  Threads,          \* the rerunnable threads (struct rerunnable_thread)
  Clients,          \* the threads that call the rrt_ functions
  Functions,        \* what a client may pass to rrt_try_rerun_if_free
  Poison,           \* pointer_on_shutdown_request
  NULL,
  MaxTries,         \* 149 in the code: while(++i < 150)
  SpuriousWakeups   \* whether pthread_cond_wait may return unnotified

ASSUME RrtAssumption ==
  /\ Poison \notin Functions
  /\ NULL \notin Functions \cup Clients \cup {Poison}
  /\ MaxTries \in Nat \ {0}
  /\ SpuriousWakeups \in BOOLEAN

VARIABLES
  status,     \* enum rerunnable_thread_state
  run,        \* the function to run; its parameter is handed over with it
  rt_lock,    \* the client holding the spinlock over a step, or NULL
  cw_lock,    \* the mutex of has_job_cw: "free" or held by the "executor"
  ex_pc,      \* where the executor is
  ex_funct,   \* the executor's local copy of run
  call_pc,    \* where a client is in its rrt_ call: "out" when in none
  callee,     \* the thread of that call
  tries,      \* i of rrt_graceful_shutdown
  gave_up,    \* threads a shutdown returned TOO_HIGH_CONCURRENCY for
  destroyed   \* threads whose locks or memory are gone

rrtVars == <<status, run, rt_lock, cw_lock, ex_pc, ex_funct,
             call_pc, callee, tries, gave_up, destroyed>>
executorVars == <<ex_pc, ex_funct>>
callVars == <<call_pc, callee, tries, gave_up>>

State == {"initalized", "idle", "busy", "shutdown_requested", "exited"}
ExPc == {"none", "lock_cw", "check", "cond_wait", "waiting", "woken",
         "read_job", "call", "running", "clear", "settle", "callback",
         "exiting", "exited"}
CallPc == {"out", "notify_job", "shutdown", "trylock", "poll"}
-----------------------------------------------------------------------------
\* rrt_init of every thread.
RrtInit ==
  /\ status = [t \in Threads |-> "initalized"]
  /\ run = [t \in Threads |-> NULL]
  /\ rt_lock = [t \in Threads |-> NULL]
  /\ cw_lock = [t \in Threads |-> "free"]
  /\ ex_pc = [t \in Threads |-> "none"]
  /\ ex_funct = [t \in Threads |-> NULL]
  /\ call_pc = [c \in Clients |-> "out"]
  /\ callee = [c \in Clients |-> NULL]
  /\ tries = [c \in Clients |-> 0]
  /\ gave_up = {}
  /\ destroyed = {}

RtFree(t) == rt_lock[t] = NULL
RtUnlock(t) == rt_lock' = [rt_lock EXCEPT ![t] = NULL]

NeedsNoMutex(t) == t \in Threads    \* mutant of CwFree: no mutual exclusion
CwFree(t) == cw_lock[t] = "free"

\* Moves of the executor's and of a client's control.
Goto(t, from, to) ==
  /\ ex_pc[t] = from
  /\ ex_pc' = [ex_pc EXCEPT ![t] = to]

CallGoto(c, from, to) ==
  /\ call_pc[c] = from
  /\ call_pc' = [call_pc EXCEPT ![c] = to]

\* A client enters a call that takes more than one step, and leaves it: the
\* locals of the call are gone.
Enter(c, t, to) ==
  /\ CallGoto(c, "out", to)
  /\ callee' = [callee EXCEPT ![c] = t]
  /\ UNCHANGED tries

Leave(c, from) ==
  /\ CallGoto(c, from, "out")
  /\ callee' = [callee EXCEPT ![c] = NULL]
  /\ tries' = [tries EXCEPT ![c] = 0]
-----------------------------------------------------------------------------
(* Calls of a client.                                                       *)

\* rrt_start: the status is set before pthread_create is tried, and stays
\* when it fails.
Start(t, created) ==
  /\ RtFree(t)
  /\ status[t] = "initalized"
  /\ status' = [status EXCEPT ![t] = "idle"]
  /\ ex_pc' = IF created THEN [ex_pc EXCEPT ![t] = "lock_cw"] ELSE ex_pc
  /\ UNCHANGED <<run, rt_lock, cw_lock, ex_funct, callVars, destroyed>>

\* rrt_try_rerun_if_free up to the release of rt_lock: an idle thread is
\* reserved and the client still has to notify it, any other is refused.
TryRerun(c, t, f) ==
  /\ RtFree(t)
  /\ call_pc[c] = "out"
  /\ IF status[t] = "idle"
       THEN /\ status' = [status EXCEPT ![t] = "busy"]
            /\ run' = [run EXCEPT ![t] = f]
            /\ Enter(c, t, "notify_job")
       ELSE UNCHANGED <<status, run, call_pc, callee, tries>>
  /\ UNCHANGED <<rt_lock, cw_lock, executorVars, gave_up, destroyed>>

\* (Mutant of NotifyJob: the broadcast is forgotten.)
NotifyNobody(c) ==
  /\ Leave(c, "notify_job")
  /\ CwFree(callee[c])
  /\ UNCHANGED <<status, run, rt_lock, cw_lock, executorVars, gave_up,
                 destroyed>>

\* notify_job: lock the mutex of has_job_cw, broadcast, unlock.
NotifyJob(c) ==
  LET t == callee[c] IN
    /\ Leave(c, "notify_job")
    /\ CwFree(t)
    /\ ex_pc' = IF ex_pc[t] = "waiting"
                  THEN [ex_pc EXCEPT ![t] = "woken"] ELSE ex_pc
    /\ UNCHANGED <<status, run, rt_lock, cw_lock, ex_funct,
                   gave_up, destroyed>>

\* rrt_graceful_shutdown is entered: i = 0.
ShutdownCall(c, t) ==
  /\ Enter(c, t, "shutdown")
  /\ UNCHANGED <<status, run, rt_lock, cw_lock, executorVars, gave_up,
                 destroyed>>

\* One round of its loop starts: rt_lock is taken ...
ShutdownLock(c) ==
  /\ CallGoto(c, "shutdown", "trylock")
  /\ RtFree(callee[c])
  /\ rt_lock' = [rt_lock EXCEPT ![callee[c]] = c]
  /\ UNCHANGED <<status, run, cw_lock, executorVars, callee, tries,
                 gave_up, destroyed>>

RetriesLeft(c) == tries[c] + 1 < MaxTries

\* (Mutant: lock instead of trylock, which waits for the mutex with rt_lock held.)
LockInsteadOfTrylock(c) == c \notin Clients

\* ... the executor holds the mutex: rt_lock is released, and the next round
\* is tried unless this was the last one ...
ShutdownRetry(c) ==
  LET t == callee[c] IN
    /\ call_pc[c] = "trylock"
    /\ ~CwFree(t)
    /\ IF RetriesLeft(c)
         THEN /\ CallGoto(c, "trylock", "shutdown")
              /\ tries' = [tries EXCEPT ![c] = @ + 1]
              /\ UNCHANGED <<callee, gave_up>>
         ELSE /\ Leave(c, "trylock")
              /\ gave_up' = gave_up \cup {t}
    /\ RtUnlock(t)
    /\ UNCHANGED <<status, run, cw_lock, executorVars, destroyed>>

\* What run becomes, and whether the thread is notified.  (Mutants: the poison
\* also replaces the job of a busy thread; the idle one is not notified.)
PoisonAlways(t) == IF status[t] = "exited" THEN run[t] ELSE Poison
PoisonIfIdle(t) == IF status[t] = "idle" THEN Poison ELSE run[t]

NotifyNever(t) == t \notin Threads
NotifyIfIdle(t) == status[t] = "idle"

\* ... or the mutex was free: the status decides.  The mutex and rt_lock are
\* both released before an idle thread is notified.
ShutdownDecide(c) ==
  LET t == callee[c] IN
    /\ call_pc[c] = "trylock"
    /\ CwFree(t)
    /\ IF NotifyIfIdle(t)
         THEN CallGoto(c, "trylock", "notify_job") /\ UNCHANGED <<callee, tries>>
         ELSE Leave(c, "trylock")
    /\ run' = [run EXCEPT ![t] = PoisonIfIdle(t)]
    /\ status' = IF status[t] \in {"idle", "busy"}
                   THEN [status EXCEPT ![t] = "shutdown_requested"]
                   ELSE status
    /\ RtUnlock(t)
    /\ UNCHANGED <<cw_lock, executorVars, gave_up, destroyed>>

\* rrt_poll_wait_exit: returns at once unless a shutdown is under way ...
PollCall(c, t) ==
  /\ RtFree(t)
  /\ status[t] = "shutdown_requested"
  /\ Enter(c, t, "poll")
  /\ UNCHANGED <<status, run, rt_lock, cw_lock, executorVars, gave_up,
                 destroyed>>

\* ... and otherwise when a later look finds the thread exited.
PollDone(c) ==
  /\ Leave(c, "poll")
  /\ RtFree(callee[c])
  /\ status[callee[c]] = "exited"
  /\ UNCHANGED <<status, run, rt_lock, cw_lock, executorVars, gave_up,
                 destroyed>>

MayDestroy(t) == status[t] \in {"exited", "initalized"}

\* rrt_destroy_thread: refused unless the thread exited or never started.
Destroy(t) ==
  /\ RtFree(t)
  /\ MayDestroy(t)
  /\ destroyed' = destroyed \cup {t}
  /\ UNCHANGED <<status, run, rt_lock, cw_lock, executorVars, callVars>>
-----------------------------------------------------------------------------
(* executor_function.                                                       *)

\* wait_for_job: the mutex is taken, ...
LockCw(t) ==
  /\ Goto(t, "lock_cw", "check")
  /\ CwFree(t)
  /\ cw_lock' = [cw_lock EXCEPT ![t] = "executor"]
  /\ UNCHANGED <<status, run, rt_lock, ex_funct, callVars, destroyed>>

\* ... the status is read under rt_lock: only an idle thread will wait ...
Check(t) ==
  /\ RtFree(t)
  /\ IF status[t] = "idle"
       THEN /\ Goto(t, "check", "cond_wait")
            /\ UNCHANGED cw_lock
       ELSE /\ Goto(t, "check", "read_job")
            /\ cw_lock' = [cw_lock EXCEPT ![t] = "free"]
  /\ UNCHANGED <<status, run, rt_lock, ex_funct, callVars, destroyed>>

\* ... pthread_cond_wait releases the mutex and sleeps in one step ...
CondWait(t) ==
  /\ Goto(t, "cond_wait", "waiting")
  /\ cw_lock' = [cw_lock EXCEPT ![t] = "free"]
  /\ UNCHANGED <<status, run, rt_lock, ex_funct, callVars, destroyed>>

\* ... POSIX lets it return without a broadcast ...
SpuriousWakeup(t) ==
  /\ SpuriousWakeups
  /\ Goto(t, "waiting", "woken")
  /\ UNCHANGED <<status, run, rt_lock, cw_lock, ex_funct, callVars, destroyed>>

\* ... and the woken thread takes the mutex and gives it back: the condition
\* is not looked at again (an if, not a while).
Wake(t) ==
  /\ Goto(t, "woken", "read_job")
  /\ CwFree(t)
  /\ UNCHANGED <<status, run, rt_lock, cw_lock, ex_funct, callVars, destroyed>>

\* run and parameter are read under rt_lock; the poison ends the loop.
ReadJob(t) ==
  /\ RtFree(t)
  /\ Goto(t, "read_job",
          IF status[t] = "shutdown_requested" /\ run[t] = Poison
            THEN "exiting" ELSE "call")
  /\ ex_funct' = [ex_funct EXCEPT ![t] = run[t]]
  /\ UNCHANGED <<status, run, rt_lock, cw_lock, callVars, destroyed>>

\* funct(param) is entered.  A call through NULL ends the process: the
\* executor stays at "call".
Invoke(t) ==
  /\ ex_funct[t] # NULL
  /\ Goto(t, "call", "running")
  /\ UNCHANGED <<status, run, rt_lock, cw_lock, ex_funct, callVars, destroyed>>

\* funct returns, and rrt_right_after_executed is reported (no client of the
\* repository does anything at that point).
Return(t) ==
  /\ Goto(t, "running", "clear")
  /\ UNCHANGED <<status, run, rt_lock, cw_lock, ex_funct, callVars, destroyed>>

\* (Mutant of Clear: run is not reset.)
ClearNothing(t) ==
  /\ Goto(t, "clear", "settle")
  /\ UNCHANGED <<status, run, rt_lock, cw_lock, ex_funct, callVars, destroyed>>

\* run and parameter are cleared without rt_lock.
Clear(t) ==
  /\ Goto(t, "clear", "settle")
  /\ run' = [run EXCEPT ![t] = NULL]
  /\ UNCHANGED <<status, rt_lock, cw_lock, ex_funct, callVars, destroyed>>

\* Under rt_lock: a shutdown requested meanwhile ends the loop, otherwise the
\* thread is idle again.
Settle(t) ==
  /\ RtFree(t)
  /\ IF status[t] = "shutdown_requested"
       THEN /\ Goto(t, "settle", "exiting")
            /\ UNCHANGED status
       ELSE /\ Goto(t, "settle", "callback")
            /\ status' = [status EXCEPT ![t] = "idle"]
  /\ UNCHANGED <<run, rt_lock, cw_lock, ex_funct, callVars, destroyed>>

\* The rrt_after_become_idle callback returns and the loop starts over.
Callback(t) ==
  /\ Goto(t, "callback", "lock_cw")
  /\ UNCHANGED <<status, run, rt_lock, cw_lock, ex_funct, callVars, destroyed>>

\* atomic_update_state(rrt, rrt_exited)
Exit(t) ==
  /\ RtFree(t)
  /\ Goto(t, "exiting", "exited")
  /\ status' = [status EXCEPT ![t] = "exited"]
  /\ UNCHANGED <<run, rt_lock, cw_lock, ex_funct, callVars, destroyed>>
-----------------------------------------------------------------------------
RrtTypeOK ==
  /\ status \in [Threads -> State]
  /\ run \in [Threads -> Functions \cup {NULL, Poison}]
  /\ rt_lock \in [Threads -> Clients \cup {NULL}]
  /\ cw_lock \in [Threads -> {"free", "executor"}]
  /\ ex_pc \in [Threads -> ExPc]
  /\ ex_funct \in [Threads -> Functions \cup {NULL, Poison}]
  /\ call_pc \in [Clients -> CallPc]
  /\ callee \in [Clients -> Threads \cup {NULL}]
  /\ tries \in [Clients -> 0 .. MaxTries]
  /\ gave_up \subseteq Threads
  /\ destroyed \subseteq Threads

\* A call through NULL: executor_function is about to invoke what it read,
\* and it read the NULL the executor itself left there.
NullCall(t) == ex_pc[t] = "call" /\ ex_funct[t] = NULL

\* The executor has begun and has not yet announced its end.
Live(t) == ex_pc[t] \notin {"none", "exited"}
=============================================================================
