-------------------------- MODULE RrtClientsProofs --------------------------
(***************************************************************************)
(* Theorems about rerunnable threads and their clients, for any number of   *)
(* threads, clients, jobs and shutdown rounds.                              *)
(***************************************************************************)
EXTENDS RrtClients, TLAPS

\* A client in a call is in it on some thread, and has rounds left.
CallInv ==
  \A c \in Clients :
    /\ call_pc[c] # "out" => callee[c] \in Threads
    /\ tries[c] < MaxTries

\* The mutex of has_job_cw is held exactly while the executor is between
\* taking it and the wait.
MutexInv ==
  \A t \in Threads :
    cw_lock[t] = "executor" <=> ex_pc[t] \in {"check", "cond_wait"}

\* A thread that was not started has no executor.
StartInv == \A t \in Threads : status[t] = "initalized" => ex_pc[t] = "none"

BaseInv == TypeOK /\ CallInv /\ LockDiscipline /\ MutexInv /\ StartInv

\* The base of the other proofs: types, the locals of the calls under way, who
\* holds rt_lock and the mutex of has_job_cw, and which threads have an executor.
THEOREM Base == Spec => []BaseInv
<1>1. Init => BaseInv
  BY RrtAssumption DEF Init, RrtInit, BaseInv, TypeOK, RrtTypeOK, CallInv,
     LockDiscipline, MutexInv, StartInv, State, ExPc, CallPc, JobState
<1>2. BaseInv /\ [Next]_vars => BaseInv'
  <2> SUFFICES ASSUME BaseInv, [Next]_vars PROVE BaseInv'
    OBVIOUS
  <2> USE RrtAssumption DEF BaseInv, TypeOK, RrtTypeOK, CallInv,
     LockDiscipline, MutexInv, StartInv, State, ExPc, CallPc, JobState, RtFree, CwFree,
     callVars, executorVars
  <2>1. ASSUME NEW c \in Clients, NEW t \in Threads, StartThread(c, t)
        PROVE  BaseInv'
    <3>1. PICK created \in BOOLEAN : Start(t, created)
      BY <2>1 DEF StartThread
    <3>2. ex_pc' = ex_pc \/ ex_pc' = [ex_pc EXCEPT ![t] = "lock_cw"]
      BY <3>1, Zenon DEF Start
    <3>3. status[t] = "initalized" /\ UNCHANGED job
      BY <2>1, <3>1 DEF StartThread, Start
    <3>4. QED
      BY <3>1, <3>2, <3>3 DEF Start
  <2>2. ASSUME NEW c \in Clients, NEW t \in Threads, NEW j \in Functions,
               Submit(c, t, j)
        PROVE  BaseInv'
    BY <2>2 DEF Submit, MayCall, TryRerun, Enter, CallGoto
  <2>3. ASSUME NEW c \in Clients, NEW t \in Threads, Shutdown(c, t)
        PROVE  BaseInv'
    BY <2>3 DEF Shutdown, ShutdownCall, Enter, CallGoto
  <2>4. ASSUME NEW c \in Clients, NEW t \in Threads, WaitExit(c, t)
        PROVE  BaseInv'
    BY <2>4 DEF WaitExit, PollCall, Enter, CallGoto
  <2>5. ASSUME NEW c \in Clients, NEW t \in Threads, DestroyThread(c, t)
        PROVE  BaseInv'
    BY <2>5 DEF DestroyThread, Destroy
  <2>6. ASSUME NEW c \in Clients, NotifyJob(c), UNCHANGED job
        PROVE  BaseInv'
    BY <2>6 DEF NotifyJob, Leave, CallGoto
  <2>7. ASSUME NEW c \in Clients, ShutdownLock(c), UNCHANGED job
        PROVE  BaseInv'
    BY <2>7 DEF ShutdownLock, CallGoto
  <2>8. ASSUME NEW c \in Clients, ShutdownRetry(c), UNCHANGED job
        PROVE  BaseInv'
    BY <2>8 DEF ShutdownRetry, RetriesLeft, RtUnlock, Leave, CallGoto
  <2>9. ASSUME NEW c \in Clients, ShutdownDecide(c), UNCHANGED job
        PROVE  BaseInv'
    BY <2>9 DEF ShutdownDecide, PoisonIfIdle, NotifyIfIdle, RtUnlock, Leave,
       CallGoto
  <2>10. ASSUME NEW c \in Clients, PollDone(c), UNCHANGED job
         PROVE  BaseInv'
    BY <2>10 DEF PollDone, Leave, CallGoto
  <2>11. ASSUME NEW t \in Threads, Executor(t)
         PROVE  BaseInv'
    <3>1. CASE Begin(t) \/ Finish(t)
      BY <3>1 DEF Begin, Finish, Invoke, Return, Goto
    <3>2. CASE (LockCw(t) \/ Check(t) \/ CondWait(t) \/ Wake(t)) /\ UNCHANGED job
      BY <3>2 DEF LockCw, Check, CondWait, Wake, Goto
    <3>3. CASE (ReadJob(t) \/ Clear(t)) /\ UNCHANGED job
      BY <3>3 DEF ReadJob, Clear, Goto
    <3>4. CASE (Settle(t) \/ Callback(t) \/ Exit(t)) /\ UNCHANGED job
      BY <3>4 DEF Settle, Callback, Exit, Goto
    <3>5. QED
      BY <2>11, <3>1, <3>2, <3>3, <3>4 DEF Executor
  <2>12. ASSUME NEW t \in Threads, Wakeup(t)
         PROVE  BaseInv'
    BY <2>12 DEF Wakeup, SpuriousWakeup, Goto
  <2>13. CASE UNCHANGED vars
    BY <2>13 DEF vars, rrtVars
  <2>14. QED
    BY <2>1, <2>2, <2>3, <2>4, <2>5, <2>6, <2>7, <2>8, <2>9, <2>10, <2>11,
       <2>12, <2>13 DEF Next, InCall
<1>3. QED
  BY <1>1, <1>2, PTL DEF Spec
-----------------------------------------------------------------------------
\* rt_lock is held exactly by the client between the two halves of a round of
\* rrt_graceful_shutdown.
THEOREM RtLockOwner == Spec => []LockDiscipline
BY Base, PTL DEF BaseInv

\* Every variable keeps its type; the rounds of rrt_graceful_shutdown never
\* exceed their bound.
THEOREM TypeCorrect == Spec => []TypeOK
BY Base, PTL DEF BaseInv

\* No lost wakeup: an executor that sleeps although its thread is no longer idle
\* has a notification to come.
THEOREM Wakeups == Spec => []NoLostWakeup
<1>1. Init => NoLostWakeup
  BY DEF Init, RrtInit, NoLostWakeup
<1>2. BaseInv /\ NoLostWakeup /\ [Next]_vars => NoLostWakeup'
  <2> SUFFICES ASSUME BaseInv, NoLostWakeup, [Next]_vars,
                      NEW t \in Threads,
                      ex_pc'[t] \in {"cond_wait", "waiting"},
                      status'[t] # "idle"
               PROVE  \E c \in Clients : call_pc'[c] = "notify_job" /\ callee'[c] = t
    BY DEF NoLostWakeup
  <2> USE RrtAssumption DEF BaseInv, TypeOK, RrtTypeOK, CallInv, MutexInv,
     StartInv, State, ExPc, CallPc, RtFree, CwFree, callVars, executorVars,
     NoLostWakeup
  <2>1. ASSUME NEW c \in Clients, NEW u \in Threads, StartThread(c, u)
        PROVE  \E d \in Clients : call_pc'[d] = "notify_job" /\ callee'[d] = t
    <3>1. PICK created \in BOOLEAN : Start(u, created)
      BY <2>1 DEF StartThread
    <3>2. ex_pc' = ex_pc \/ ex_pc' = [ex_pc EXCEPT ![u] = "lock_cw"]
      BY <3>1, Zenon DEF Start
    <3>3. QED
      BY <3>1, <3>2 DEF Start
  <2>2. ASSUME NEW c \in Clients, NEW u \in Threads, NEW j \in Functions,
               Submit(c, u, j)
        PROVE  \E d \in Clients : call_pc'[d] = "notify_job" /\ callee'[d] = t
    BY <2>2 DEF Submit, MayCall, TryRerun, Enter, CallGoto
  <2>3. ASSUME NEW c \in Clients, NEW u \in Threads,
               Shutdown(c, u) \/ WaitExit(c, u) \/ DestroyThread(c, u)
        PROVE  \E d \in Clients : call_pc'[d] = "notify_job" /\ callee'[d] = t
    BY <2>3 DEF Shutdown, ShutdownCall, WaitExit, PollCall, DestroyThread,
       Destroy, Enter, CallGoto
  <2>4. ASSUME NEW c \in Clients, InCall(c)
        PROVE  \E d \in Clients : call_pc'[d] = "notify_job" /\ callee'[d] = t
    <3>1. CASE NotifyJob(c)
      BY <3>1 DEF NotifyJob, Leave, CallGoto
    <3>2. CASE ShutdownLock(c) \/ ShutdownRetry(c) \/ PollDone(c)
      BY <3>2 DEF ShutdownLock, ShutdownRetry, PollDone, RetriesLeft, Leave,
         CallGoto
    <3>3. CASE ShutdownDecide(c)
      BY <3>3 DEF ShutdownDecide, NotifyIfIdle, PoisonIfIdle, Leave, CallGoto
    <3>4. QED
      BY <2>4, <3>1, <3>2, <3>3 DEF InCall
  <2>5. ASSUME NEW u \in Threads, Executor(u) \/ Wakeup(u)
        PROVE  \E d \in Clients : call_pc'[d] = "notify_job" /\ callee'[d] = t
    BY <2>5 DEF Executor, Begin, Finish, Invoke, Return, LockCw, Check,
       CondWait, Wake, ReadJob, Clear, Settle, Callback, Exit, Goto, Wakeup,
       SpuriousWakeup
  <2>6. CASE UNCHANGED vars
    BY <2>6 DEF vars, rrtVars
  <2>7. QED
    BY <2>1, <2>2, <2>3, <2>4, <2>5, <2>6 DEF Next
<1>3. QED
  BY <1>1, <1>2, Base, PTL DEF Spec
-----------------------------------------------------------------------------
WaitPcs == {"none", "lock_cw", "check", "cond_wait", "waiting", "woken",
            "read_job", "callback"}

\* A thread that could accept a job has none: run was cleared before the
\* thread became idle, and the executor is on its way to wait, or to a call
\* through NULL.
IdleInv ==
  \A t \in Threads :
    /\ status[t] \in {"initalized", "idle"} => run[t] = NULL
    /\ status[t] = "idle" => ex_pc[t] \in WaitPcs \/ NullCall(t)
    /\ ex_pc[t] = "settle" => run[t] = NULL

\* The poison is in run only once a shutdown was requested, so the executor
\* never invokes it; it leaves its loop only after that request.
PoisonInv ==
  \A t \in Threads :
    /\ run[t] = Poison => status[t] \in {"shutdown_requested", "exited"}
    /\ ex_pc[t] \in {"call", "running"} => ex_funct[t] # Poison
    /\ ex_pc[t] = "running" => ex_funct[t] \in Functions
    /\ ex_pc[t] = "exiting" => status[t] = "shutdown_requested"
    /\ ex_pc[t] = "exited" <=> status[t] = "exited"

ShapeInv == IdleInv /\ PoisonInv

\* The shape of run over an executor's life: an idle thread holds no job, and the
\* poison is only found in a thread whose shutdown was requested.
LEMMA Shape == Spec => []ShapeInv
<1>1. Init => ShapeInv
  BY RrtAssumption DEF Init, RrtInit, ShapeInv, IdleInv, PoisonInv, NullCall, WaitPcs
<1>2. BaseInv /\ ShapeInv /\ [Next]_vars => ShapeInv'
  <2> SUFFICES ASSUME BaseInv, ShapeInv, [Next]_vars PROVE ShapeInv'
    OBVIOUS
  <2> USE RrtAssumption DEF BaseInv, TypeOK, RrtTypeOK, CallInv, StartInv,
     State, ExPc, CallPc, RtFree, CwFree, callVars, executorVars, ShapeInv,
     IdleInv, PoisonInv, NullCall, WaitPcs
  <2>1. ASSUME NEW c \in Clients, NEW t \in Threads, StartThread(c, t)
        PROVE  ShapeInv'
    <3>1. PICK created \in BOOLEAN : Start(t, created)
      BY <2>1 DEF StartThread
    <3>2. ex_pc' = ex_pc \/ ex_pc' = [ex_pc EXCEPT ![t] = "lock_cw"]
      BY <3>1, Zenon DEF Start
    <3>3. QED
      BY <3>1, <3>2 DEF Start
  <2>2. ASSUME NEW c \in Clients, NEW t \in Threads, NEW j \in Functions,
               Submit(c, t, j)
        PROVE  ShapeInv'
    BY <2>2 DEF Submit, TryRerun
  <2>3. ASSUME NEW c \in Clients, NEW t \in Threads,
               Shutdown(c, t) \/ WaitExit(c, t) \/ DestroyThread(c, t)
        PROVE  ShapeInv'
    BY <2>3 DEF Shutdown, ShutdownCall, WaitExit, PollCall, DestroyThread,
       Destroy
  <2>4. ASSUME NEW c \in Clients, InCall(c)
        PROVE  ShapeInv'
    <3>1. CASE NotifyJob(c)
      BY <3>1 DEF NotifyJob, Leave, CallGoto
    <3>2. CASE ShutdownLock(c) \/ ShutdownRetry(c) \/ PollDone(c)
      BY <3>2 DEF ShutdownLock, ShutdownRetry, PollDone
    <3>3. CASE ShutdownDecide(c)
      BY <3>3 DEF ShutdownDecide, PoisonIfIdle
    <3>4. QED
      BY <2>4, <3>1, <3>2, <3>3 DEF InCall
  <2>5. ASSUME NEW t \in Threads, Executor(t) \/ Wakeup(t)
        PROVE  ShapeInv'
    BY <2>5 DEF Executor, Begin, Finish, Invoke, Return, LockCw, Check,
       CondWait, Wake, ReadJob, Clear, Settle, Callback, Exit, Goto, Wakeup,
       SpuriousWakeup
  <2>6. CASE UNCHANGED vars
    BY <2>6 DEF vars, rrtVars
  <2>7. QED
    BY <2>1, <2>2, <2>3, <2>4, <2>5, <2>6 DEF Next
<1>3. QED
  BY <1>1, <1>2, Base, PTL DEF Spec
-----------------------------------------------------------------------------
\* A thread runs a job between its invocation and its return.
Runs(t, j) == ex_funct[t] = j /\ ex_pc[t] = "running"

\* What a thread holds was accepted, what it runs is running; ...
HeldInv ==
  \A t \in Threads, j \in Functions :
    /\ Holds(t, j) => job[j] = "accepted"
    /\ Runs(t, j) => job[j] = "running"

\* ... no job is with two threads; ...
UniqueInv ==
  \A t, u \in Threads, j \in Functions :
    (Holds(t, j) \/ Runs(t, j)) /\ (Holds(u, j) \/ Runs(u, j)) => t = u

\* ... and every job accepted or running is with one.
RunningInv ==
  \A j \in Functions : job[j] = "running" => \E t \in Threads : Runs(t, j)

JobInv == HeldInv /\ UniqueInv /\ AcceptedJobIsHeld /\ RunningInv

\* Where a job is: accepted ones in run of one thread or in its executor's copy,
\* running ones under exactly one executor.
THEOREM JobsAreHeld == Spec => []JobInv
<1>1. Init => JobInv
  BY RrtAssumption DEF Init, RrtInit, JobInv, HeldInv, UniqueInv,
     AcceptedJobIsHeld, RunningInv, Holds, Runs
<1>2. BaseInv /\ ShapeInv /\ JobInv /\ [Next]_vars => JobInv'
  <2> SUFFICES ASSUME BaseInv, ShapeInv, JobInv, [Next]_vars PROVE JobInv'
    OBVIOUS
  <2> USE RrtAssumption DEF BaseInv, TypeOK, RrtTypeOK, CallInv, StartInv,
     State, ExPc, CallPc, JobState, RtFree, CwFree, callVars, executorVars,
     ShapeInv, IdleInv, PoisonInv, NullCall, WaitPcs, JobInv, Holds, Runs,
     HeldInv, UniqueInv, AcceptedJobIsHeld, RunningInv
  <2>1. ASSUME NEW c \in Clients, NEW t \in Threads, StartThread(c, t)
        PROVE  JobInv'
    <3>1. PICK created \in BOOLEAN : Start(t, created)
      BY <2>1 DEF StartThread
    <3>2. ex_pc' = ex_pc \/ ex_pc' = [ex_pc EXCEPT ![t] = "lock_cw"]
      BY <3>1, Zenon DEF Start
    <3>3. UNCHANGED <<run, ex_funct, job>> /\ ex_pc[t] = "none"
      BY <2>1, <3>1 DEF Start, StartThread
    <3>4. QED
      BY SMTT(20), <3>2, <3>3
  <2>2. ASSUME NEW c \in Clients, NEW t \in Threads, NEW j \in Functions,
               Submit(c, t, j)
        PROVE  JobInv'
    <3>1. HeldInv'
      BY <2>2 DEF Submit, TryRerun
    <3>2. UniqueInv'
      BY <2>2 DEF Submit, TryRerun
    <3>3. AcceptedJobIsHeld'
      BY <2>2 DEF Submit, TryRerun
    <3>4. RunningInv'
      BY <2>2 DEF Submit, TryRerun
    <3>5. QED
      BY <3>1, <3>2, <3>3, <3>4
  <2>3. ASSUME NEW c \in Clients, NEW t \in Threads,
               Shutdown(c, t) \/ WaitExit(c, t) \/ DestroyThread(c, t)
        PROVE  JobInv'
    BY <2>3 DEF Shutdown, ShutdownCall, WaitExit, PollCall, DestroyThread,
       Destroy
  <2>4. ASSUME NEW c \in Clients, InCall(c)
        PROVE  JobInv'
    <3>1. CASE NotifyJob(c)
      BY SMTT(20), <2>4, <3>1 DEF NotifyJob, InCall
    <3>2. CASE ShutdownLock(c) \/ ShutdownRetry(c) \/ PollDone(c)
      BY <2>4, <3>2 DEF ShutdownLock, ShutdownRetry, PollDone, InCall
    <3>3. CASE ShutdownDecide(c)
      BY <2>4, <3>3 DEF ShutdownDecide, PoisonIfIdle, InCall
    <3>4. QED
      BY <2>4, <3>1, <3>2, <3>3 DEF InCall
  <2>5. ASSUME NEW t \in Threads, Begin(t)
        PROVE  JobInv'
    <3>1. HeldInv'
      BY <2>5 DEF Begin, Invoke, Goto
    <3>2. UniqueInv'
      BY <2>5 DEF Begin, Invoke, Goto
    <3>3. AcceptedJobIsHeld'
      BY SMTT(20), <2>5 DEF Begin, Invoke, Goto
    <3>4. RunningInv'
      BY <2>5 DEF Begin, Invoke, Goto
    <3>5. QED
      BY <3>1, <3>2, <3>3, <3>4
  <2>6. ASSUME NEW t \in Threads, Finish(t)
        PROVE  JobInv'
    <3>1. HeldInv'
      BY <2>6 DEF Finish, Return, Goto
    <3>2. UniqueInv'
      BY <2>6 DEF Finish, Return, Goto
    <3>3. AcceptedJobIsHeld'
      BY SMTT(20), <2>6 DEF Finish, Return, Goto
    <3>4. RunningInv'
      BY <2>6 DEF Finish, Return, Goto
    <3>5. QED
      BY <3>1, <3>2, <3>3, <3>4
  <2>7. ASSUME NEW t \in Threads, ReadJob(t), UNCHANGED job
        PROVE  JobInv'
    <3>1. HeldInv'
      BY <2>7 DEF ReadJob, Goto
    <3>2. UniqueInv'
      BY <2>7 DEF ReadJob, Goto
    <3>3. AcceptedJobIsHeld'
      BY <2>7 DEF ReadJob, Goto
    <3>4. RunningInv'
      BY <2>7 DEF ReadJob, Goto
    <3>5. QED
      BY <3>1, <3>2, <3>3, <3>4
  <2>8. ASSUME NEW t \in Threads, Clear(t) \/ Settle(t) \/ Exit(t), UNCHANGED job
        PROVE  JobInv'
    <3>1. HeldInv'
      BY <2>8 DEF Clear, Settle, Exit, Goto
    <3>2. UniqueInv'
      BY <2>8 DEF Clear, Settle, Exit, Goto
    <3>3. AcceptedJobIsHeld'
      BY <2>8 DEF Clear, Settle, Exit, Goto
    <3>4. RunningInv'
      BY <2>8 DEF Clear, Settle, Exit, Goto
    <3>5. QED
      BY <3>1, <3>2, <3>3, <3>4
  <2>9. ASSUME NEW t \in Threads, UNCHANGED job,
               LockCw(t) \/ Check(t) \/ CondWait(t) \/ Wake(t) \/ Callback(t)
               \/ SpuriousWakeup(t)
        PROVE  JobInv'
    <3>1. UNCHANGED <<run, ex_funct, job>>
      BY <2>9 DEF LockCw, Check, CondWait, Wake, Callback, SpuriousWakeup
    <3>2. /\ ex_pc[t] \in WaitPcs
          /\ \E to \in WaitPcs : ex_pc' = [ex_pc EXCEPT ![t] = to]
      BY <2>9 DEF LockCw, Check, CondWait, Wake, Callback, SpuriousWakeup, Goto
    <3>3. ex_pc'[t] \in WaitPcs /\ \A u \in Threads : u # t => ex_pc'[u] = ex_pc[u]
      BY <3>2
    <3>4. HeldInv' /\ UniqueInv'
      BY <3>1, <3>2, <3>3
    <3>5. AcceptedJobIsHeld' /\ RunningInv'
      BY SMTT(20), <3>1, <3>2, <3>3
    <3>6. QED
      BY <3>4, <3>5
  <2>10. CASE UNCHANGED vars
    BY <2>10 DEF vars, rrtVars
  <2>11. QED
    BY <2>1, <2>2, <2>3, <2>4, <2>5, <2>6, <2>7, <2>8, <2>9, <2>10
       DEF Next, Executor, Wakeup
<1>3. QED
  BY <1>1, <1>2, Base, Shape, PTL DEF Spec

\* A job rrt_try_rerun_if_free accepted stays held by a thread until it is run.
THEOREM NoJobIsLost == Spec => []AcceptedJobIsHeld
BY JobsAreHeld, PTL DEF JobInv
-----------------------------------------------------------------------------
\* Rerunnable threads implement JobService: a job is accepted once and only while
\* a thread is not shut down, run once, and finished before all threads are exited.
THEOREM ImplementsJobService == Spec => RunsJobsOnce
<1> DEFINE Open == \E t \in Threads : status[t] \in {"initalized", "idle", "busy"}
           Gone == \A t \in Threads : status[t] = "exited"
           Abs == [Jobs!Next]_<<job, Service>>
<1>1. Init => Jobs!Init
  BY ClientsAssumption DEF Init, RrtInit, Jobs!Init, Service
<1>2. BaseInv /\ ShapeInv /\ JobInv /\ [Next]_vars => Abs
  <2> SUFFICES ASSUME BaseInv, ShapeInv, JobInv, [Next]_vars PROVE Abs
    OBVIOUS
  <2> USE RrtAssumption, ClientsAssumption
      DEF BaseInv, TypeOK, RrtTypeOK, State, RtFree, callVars, executorVars
  <2>1. /\ Service \in {"open", "closed", "drained"}
        /\ Service = "open" <=> Open
        /\ Service = "drained" <=> Gone
    BY DEF Service
  <2>2. /\ Service' \in {"open", "closed", "drained"}
        /\ Service' = "open" <=> Open'
        /\ Service' = "drained" <=> Gone'
    BY DEF Service
  <2>3. ASSUME UNCHANGED job, Open => Open' \/ ~Gone', Open' => Open,
               Gone => Gone', Gone' /\ ~Gone => \A j \in Functions : job[j] \in {"new", "done"}
        PROVE  Abs
    BY <2>1, <2>2, <2>3 DEF Jobs!Next, Jobs!Close, Jobs!Drain
  <2>4. ASSUME UNCHANGED <<job, status>>
        PROVE  Abs
    <3>1. UNCHANGED Service
      BY <2>4 DEF Service
    <3>2. QED
      BY <2>4, <3>1
  <2>5. ASSUME NEW c \in Clients, NEW t \in Threads, StartThread(c, t)
        PROVE  Abs
    <3>1. UNCHANGED job /\ status[t] = "initalized"
          /\ status' = [status EXCEPT ![t] = "idle"]
      BY <2>5 DEF StartThread, Start
    <3>2. QED
      BY <2>3, <3>1
  <2>6. ASSUME NEW c \in Clients, NEW t \in Threads, NEW j \in Functions,
               Submit(c, t, j)
        PROVE  Abs
    <3>1. CASE status[t] = "idle"
      <4>1. Open /\ Open'
        BY <2>6, <3>1 DEF Submit, TryRerun
      <4>2. Jobs!Accept(j)
        BY <2>1, <2>2, <2>6, <3>1, <4>1 DEF Submit, Jobs!Accept, Jobs!Step
      <4>3. QED
        BY <4>2 DEF Jobs!Next
    <3>2. CASE status[t] # "idle"
      BY <2>4, <2>6, <3>2 DEF Submit, TryRerun
    <3>3. QED
      BY <3>1, <3>2
  <2>7. ASSUME NEW c \in Clients, NEW t \in Threads,
               Shutdown(c, t) \/ WaitExit(c, t) \/ DestroyThread(c, t)
        PROVE  Abs
    BY <2>4, <2>7 DEF Shutdown, ShutdownCall, WaitExit, PollCall,
       DestroyThread, Destroy
  <2>8. ASSUME NEW c \in Clients, InCall(c)
        PROVE  Abs
    <3>1. CASE NotifyJob(c) \/ ShutdownLock(c) \/ ShutdownRetry(c) \/ PollDone(c)
      BY <2>4, <2>8, <3>1 DEF NotifyJob, ShutdownLock, ShutdownRetry, PollDone,
         InCall
    <3>2. CASE ShutdownDecide(c)
      <4>1. PICK t \in Threads : t = callee[c]
        BY <3>2 DEF ShutdownDecide, CallInv
      <4>2. UNCHANGED job
        BY <2>8 DEF InCall
      <4>3. \/ UNCHANGED status
            \/ /\ status[t] \in {"idle", "busy"}
               /\ status' = [status EXCEPT ![t] = "shutdown_requested"]
        BY <3>2, <4>1 DEF ShutdownDecide
      <4>4. QED
        BY <2>3, <2>4, <4>2, <4>3
    <3>3. QED
      BY <2>8, <3>1, <3>2 DEF InCall
  <2>9. ASSUME NEW t \in Threads, Begin(t)
        PROVE  Abs
    <3>1. PICK j \in Functions : j = ex_funct[t]
      BY <2>9 DEF Begin, Invoke, Goto, ShapeInv, PoisonInv
    <3>2. job[j] = "accepted" /\ job' = [job EXCEPT ![j] = "running"]
      BY <2>9, <3>1 DEF Begin, Invoke, Goto, JobInv, HeldInv, Holds
    <3>3. UNCHANGED Service
      BY <2>9 DEF Begin, Invoke, Service
    <3>4. QED
      BY <3>2, <3>3 DEF Jobs!Next, Jobs!Begin, Jobs!Step
  <2>10. ASSUME NEW t \in Threads, Finish(t)
         PROVE  Abs
    <3>1. PICK j \in Functions : j = ex_funct[t]
      BY <2>10 DEF Finish, Return, Goto, ShapeInv, PoisonInv
    <3>2. job[j] = "running" /\ job' = [job EXCEPT ![j] = "done"]
      BY <2>10, <3>1 DEF Finish, Return, Goto, JobInv, HeldInv, Runs
    <3>3. UNCHANGED Service
      BY <2>10 DEF Finish, Return, Service
    <3>4. QED
      BY <3>2, <3>3 DEF Jobs!Next, Jobs!Finish, Jobs!Step
  <2>11. ASSUME NEW t \in Threads, Settle(t), UNCHANGED job
         PROVE  Abs
    <3>1. \/ UNCHANGED status
          \/ /\ status[t] = "busy"
             /\ status' = [status EXCEPT ![t] = "idle"]
      BY <2>11 DEF Settle, Goto, StartInv, ShapeInv, IdleInv, PoisonInv,
         NullCall, WaitPcs
    <3>2. QED
      BY <2>3, <2>4, <2>11, <3>1
  <2>12. ASSUME NEW t \in Threads, Exit(t), UNCHANGED job
         PROVE  Abs
    <3>1. /\ status[t] = "shutdown_requested" /\ ex_pc[t] = "exiting"
          /\ status' = [status EXCEPT ![t] = "exited"]
      BY <2>12 DEF Exit, Goto, ShapeInv, PoisonInv
    <3>2. ASSUME Gone', NEW j \in Functions
          PROVE  job[j] \in {"new", "done"}
      <4>1. \A u \in Threads : ex_pc[u] \in {"exiting", "exited"}
        BY <3>1, <3>2 DEF ShapeInv, PoisonInv
      <4>2. QED
        BY <4>1 DEF JobInv, AcceptedJobIsHeld, RunningInv, Holds, Runs,
           NullCall, JobState
    <3>3. QED
      BY <2>3, <2>12, <3>1, <3>2
  <2>13. ASSUME NEW t \in Threads, UNCHANGED job,
                LockCw(t) \/ Check(t) \/ CondWait(t) \/ Wake(t) \/ ReadJob(t)
                \/ Clear(t) \/ Callback(t) \/ SpuriousWakeup(t)
         PROVE  Abs
    BY <2>4, <2>13 DEF LockCw, Check, CondWait, Wake, ReadJob, Clear, Callback,
       SpuriousWakeup
  <2>14. CASE UNCHANGED vars
    BY <2>4, <2>14 DEF vars, rrtVars
  <2>15. QED
    BY <2>5, <2>6, <2>7, <2>8, <2>9, <2>10, <2>11, <2>12, <2>13, <2>14
       DEF Next, Executor, Wakeup
<1>3. QED
  BY <1>1, <1>2, Base, Shape, JobsAreHeld, PTL
     DEF Spec, RunsJobsOnce, Jobs!Spec
=============================================================================
