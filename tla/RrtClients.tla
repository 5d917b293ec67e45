----------------------------- MODULE RrtClients -----------------------------
(***************************************************************************)
(* Rerunnable threads used directly, as test-core/test_threads.c does: any  *)
(* number of clients start them, hand them jobs, shut them down, wait for   *)
(* their end and destroy them, in any interleaving.                         *)
(***************************************************************************)
EXTENDS RerunnableThread

ASSUME ClientsAssumption == Threads # {}

VARIABLE job    \* history: the job's life, as JobService states it

vars == <<rrtVars, job>>

Init ==
  /\ RrtInit
  /\ job = [j \in Functions |-> "new"]

\* A client makes a call when it is in none, on a thread that is not
\* destroyed; the other way round, a thread is destroyed when no other call
\* on it is under way: the one precondition of the interface.
MayCall(c, t) == call_pc[c] = "out" /\ t \notin destroyed

StartThread(c, t) ==
  /\ MayCall(c, t)
  /\ \E created \in BOOLEAN : Start(t, created)
  /\ UNCHANGED job

Submit(c, t, j) ==
  /\ MayCall(c, t)
  /\ job[j] = "new"
  /\ TryRerun(c, t, j)
  /\ job' = IF status[t] = "idle" THEN [job EXCEPT ![j] = "accepted"] ELSE job

Shutdown(c, t) == MayCall(c, t) /\ ShutdownCall(c, t) /\ UNCHANGED job

WaitExit(c, t) == MayCall(c, t) /\ PollCall(c, t) /\ UNCHANGED job

DestroyThread(c, t) ==
  /\ MayCall(c, t)
  /\ \A d \in Clients : callee[d] # t
  /\ Destroy(t)
  /\ UNCHANGED job

\* The rest of a call under way.
InCall(c) ==
  /\ \/ NotifyJob(c)
     \/ ShutdownLock(c)
     \/ ShutdownRetry(c)
     \/ ShutdownDecide(c)
     \/ PollDone(c)
  /\ UNCHANGED job

Begin(t) ==
  /\ Invoke(t)
  /\ job' = IF ex_funct[t] = Poison
              THEN job ELSE [job EXCEPT ![ex_funct[t]] = "running"]

Finish(t) ==
  /\ Return(t)
  /\ job' = IF ex_funct[t] = Poison
              THEN job ELSE [job EXCEPT ![ex_funct[t]] = "done"]

Executor(t) ==
  \/ Begin(t)
  \/ Finish(t)
  \/ /\ \/ LockCw(t)
        \/ Check(t)
        \/ CondWait(t)
        \/ Wake(t)
        \/ ReadJob(t)
        \/ Clear(t)
        \/ Settle(t)
        \/ Callback(t)
        \/ Exit(t)
     /\ UNCHANGED job

Wakeup(t) == SpuriousWakeup(t) /\ UNCHANGED job

Next ==
  \/ \E c \in Clients, t \in Threads :
       \/ StartThread(c, t)
       \/ \E j \in Functions : Submit(c, t, j)
       \/ Shutdown(c, t)
       \/ WaitExit(c, t)
       \/ DestroyThread(c, t)
  \/ \E c \in Clients : InCall(c)
  \/ \E t \in Threads : Executor(t) \/ Wakeup(t)

\* The operating system runs every thread, and a thread that waits for a lock
\* which is released again and again gets it: with weak fairness clients that
\* never stop calling could keep rt_lock from the executor for ever.  No
\* client has to make a call, and no wakeup has to be spurious.
Fairness ==
  /\ \A t \in Threads : SF_vars(Executor(t))
  /\ \A c \in Clients : SF_vars(InCall(c))

Spec == Init /\ [][Next]_vars /\ Fairness
-----------------------------------------------------------------------------
JobState == {"new", "accepted", "running", "done"}

TypeOK == RrtTypeOK /\ job \in [Functions -> JobState]

\* rt_lock is held by the client that is between its two halves of a
\* graceful shutdown round, and by nobody else.
LockDiscipline ==
  \A t \in Threads, c \in Clients :
    (rt_lock[t] = c) <=> (call_pc[c] = "trylock" /\ callee[c] = t)

\* No lost wakeup.  An executor sleeps, or is about to, on a thread that is no
\* longer idle only while the client that changed the status has still to
\* notify it: wait_for_job reads the status under the mutex of has_job_cw, and
\* notify_job broadcasts under it after the status was changed.
NoLostWakeup ==
  \A t \in Threads :
    ex_pc[t] \in {"cond_wait", "waiting"} /\ status[t] # "idle" =>
      \E c \in Clients : call_pc[c] = "notify_job" /\ callee[c] = t

\* Where an accepted job is: still in run of one thread whose executor has yet
\* to read it, or read and about to be invoked.
Holds(t, j) ==
  \/ /\ run[t] = j
     /\ ex_pc[t] \in {"none", "lock_cw", "check", "cond_wait", "waiting",
                      "woken", "read_job", "callback"}
  \/ ex_funct[t] = j /\ ex_pc[t] = "call"

\* A job rrt_try_rerun_if_free accepted is not lost: not overwritten by the
\* poison of a shutdown, by the next job, or by the executor's unlocked
\* run = NULL after the job before it.  (A thread about to die in a call
\* through NULL takes the process and its job along.)
AcceptedJobIsHeld ==
  \A j \in Functions :
    job[j] = "accepted" => \E t \in Threads : Holds(t, j) \/ NullCall(t)

\* The comment at the head of the executor's loop (rerunnable_thread.c:127):
\* after the wait the values were updated by a requester, "nobody will disturb
\* us and values are also updated before we are notified".  The executor then
\* never calls through the NULL it left in run itself.
ReadsARequestersValues == \A t \in Threads : ~NullCall(t)

\* The same calls seen by the program that hands over the jobs: every job is
\* accepted at most once and only by a thread not shut down, run once, and a
\* thread has exited only when nothing it accepted is left.
Service ==
  IF \E t \in Threads : status[t] \in {"initalized", "idle", "busy"} THEN "open"
  ELSE IF \E t \in Threads : status[t] # "exited" THEN "closed"
  ELSE "drained"

Jobs == INSTANCE JobService WITH Jobs <- Functions, service <- Service

RunsJobsOnce == Jobs!Spec

\* rrt_graceful_shutdown returns: it takes rt_lock and the mutex of has_job_cw
\* against the executor's order, and only tries the second.
ShutdownReturns ==
  \A c \in Clients :
    call_pc[c] \in {"shutdown", "trylock", "notify_job"} ~> call_pc[c] = "out"

\* A thread whose shutdown was requested ends, unless its process died in a
\* call through NULL or rrt_start had failed to create its executor.
ShutdownExits ==
  \A t \in Threads :
    status[t] = "shutdown_requested" ~>
      status[t] = "exited" \/ NullCall(t) \/ ex_pc[t] = "none"
=============================================================================
