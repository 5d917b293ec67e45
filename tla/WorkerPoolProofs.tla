-------------------------- MODULE WorkerPoolProofs --------------------------
(***************************************************************************)
(* Theorems about the worker pool, for any number of threads, clients and   *)
(* tasks.                                                                   *)
(***************************************************************************)
EXTENDS WorkerPool, TLAPS

WaitPcs == {"none", "lock_cw", "check", "cond_wait", "waiting", "woken",
            "read_job", "callback"}

\* Who holds pool_lock, and which call on a thread is made under it.
CallInv ==
  \A c \in Clients :
    /\ call_pc[c] # "out" => callee[c] \in Threads
    /\ tries[c] < MaxTries
    /\ pool_lock = c <=> wp_pc[c] \in {"rerun", "unlock", "shutdown_all"}
    /\ call_pc[c] \in {"shutdown", "trylock", "poll"} => wp_pc[c] = "shutdown_all"
    /\ call_pc[c] = "notify_job" => wp_pc[c] \in {"unlock", "shutdown_all"}
    /\ wp_pc[c] \in {"rerun", "unlock"} => use[c] \in busy
    /\ wp_pc[c] = "rerun" => pool_status = "available"
    /\ wp_pc[c] = "shutdown_all" => pool_status # "available"

BaseInv == TypeOK /\ CallInv

\* The base of the other proofs: types, and the locals of the calls under way,
\* wp_ and rrt_.
LEMMA Base == Spec => []BaseInv
<1>1. Init => BaseInv
  <2> SUFFICES ASSUME Init PROVE BaseInv
    OBVIOUS
  <2> USE RrtAssumption DEF Init, RrtInit
  <2>1. RrtTypeOK
    BY DEF RrtTypeOK, State, ExPc, CallPc
  <2>2. TypeOK
    BY <2>1 DEF TypeOK, WpPc, JobState
  <2>3. CallInv
    BY DEF CallInv
  <2>4. QED
    BY <2>2, <2>3 DEF BaseInv
<1>2. BaseInv /\ [Next]_vars => BaseInv'
  <2> SUFFICES ASSUME BaseInv, [Next]_vars PROVE BaseInv'
    OBVIOUS
  <2> USE RrtAssumption, PoolAssumption
      DEF BaseInv, TypeOK, RrtTypeOK, CallInv, State, ExPc, CallPc, WpPc,
          JobState, RtFree, CwFree, callVars, executorVars, rrtVars, poolVars,
          PoolFree, WpEnter, WpGoto
  <2>1. ASSUME NEW c \in Clients, NEW t \in Threads, NEW j \in Tasks,
               SubmitToFree(c, t, j)
        PROVE  BaseInv'
    BY <2>1 DEF SubmitToFree, Dispatch, Accepts
  <2>2. ASSUME NEW c \in Clients, NEW t \in Threads, NEW j \in Tasks,
               SubmitToNew(c, t, j)
        PROVE  BaseInv'
    BY <2>2 DEF SubmitToNew, Dispatch, Accepts, Start
  <2>3. ASSUME NEW c \in Clients, SubmitRerun(c)
        PROVE  BaseInv'
    <3>1. use[c] \in Threads /\ wp_pc[c] = "rerun"
      BY <2>3 DEF SubmitRerun
    <3>2. job' \in [Tasks -> JobState]
      BY <2>3 DEF SubmitRerun
    <3>3. TypeOK'
      BY <2>3, <3>1, <3>2 DEF SubmitRerun, TryRerun, Enter, CallGoto
    <3>4. CallInv'
      BY <2>3, <3>1 DEF SubmitRerun, TryRerun, Enter, CallGoto
    <3>5. QED
      BY <3>3, <3>4
  <2>4. ASSUME NEW c \in Clients, Notify(c)
        PROVE  BaseInv'
    BY <2>4 DEF Notify, NotifyJob, Leave, CallGoto
  <2>5. ASSUME NEW c \in Clients, SubmitReturn(c)
        PROVE  BaseInv'
    BY <2>5 DEF SubmitReturn
  <2>6. ASSUME NEW c \in Clients, ShutdownPool(c)
        PROVE  BaseInv'
    BY <2>6 DEF ShutdownPool
  <2>7. ASSUME NEW c \in Clients, NEW t \in Threads, ShutdownNext(c, t)
        PROVE  BaseInv'
    BY <2>7 DEF ShutdownNext, ShutdownCall, Enter, CallGoto
  <2>8. ASSUME NEW c \in Clients, ShutdownRound(c)
        PROVE  BaseInv'
    BY <2>8 DEF ShutdownRound, ShutdownLock, ShutdownRetry, ShutdownDecide,
       RetriesLeft, PoisonIfIdle, NotifyIfIdle, RtUnlock, Leave, CallGoto
  <2>9. ASSUME NEW c \in Clients, ShutdownReturn(c)
        PROVE  BaseInv'
    BY <2>9 DEF ShutdownReturn
  <2>10. ASSUME NEW c \in Clients, WaitExit(c) \/ WaitDone(c)
         PROVE  BaseInv'
    <3>1. waited' \in BOOLEAN
      BY <2>10, Zenon DEF WaitExit, WaitDone
    <3>2. /\ UNCHANGED <<rrtVars, pool_lock, free, busy, task, use, todo,
                         pool_gone, job>>
          /\ pool_status' \in {pool_status, "exited"}
          /\ wp_pc[c] \in {"out", "wait"}
          /\ \E to \in {"out", "wait"} : wp_pc' = [wp_pc EXCEPT ![c] = to]
          /\ pool_status # "available" \/ pool_status' = pool_status
      BY <2>10 DEF WaitExit, WaitDone
    <3>3. QED
      BY <3>1, <3>2
  <2>11. ASSUME NEW c \in Clients, DestroyPool(c)
         PROVE  BaseInv'
    BY <2>11 DEF DestroyPool
  <2>12. ASSUME NEW t \in Threads, Begin(t) \/ Finish(t)
         PROVE  BaseInv'
    BY <2>12 DEF Begin, Finish, Invoke, Return, Goto
  <2>13. ASSUME NEW t \in Threads, OnRelease(t)
         PROVE  BaseInv'
    BY <2>13 DEF OnRelease, Requeue, Callback, Goto
  <2>14. ASSUME NEW t \in Threads, ExecutorStep(t) \/ Wakeup(t)
         PROVE  BaseInv'
    BY <2>14 DEF ExecutorStep, LockCw, Check, CondWait, Wake, ReadJob, Clear,
       Settle, Exit, Goto, Wakeup, SpuriousWakeup
  <2>15. CASE UNCHANGED vars
    BY <2>15 DEF vars
  <2>16. QED
    BY <2>1, <2>2, <2>3, <2>4, <2>5, <2>6, <2>7, <2>8, <2>9, <2>10, <2>11,
       <2>12, <2>13, <2>14, <2>15 DEF Next, NewCall, InCall, Executor
<1>3. QED
  BY <1>1, <1>2, PTL DEF Spec

\* Every variable of the pool and of its threads keeps its type.
THEOREM TypeCorrect == Spec => []TypeOK
BY Base, PTL DEF BaseInv
-----------------------------------------------------------------------------
\* What the status of a thread says of its executor, and the queues of both.
LifeInv ==
  \A t \in Threads :
    /\ ex_pc[t] = "none" <=> t \notin free \cup busy
    /\ ex_pc[t] = "none" <=> status[t] = "initalized"
    /\ ex_pc[t] = "exited" <=> status[t] = "exited"
    /\ ex_pc[t] = "exiting" => status[t] = "shutdown_requested"
    /\ status[t] = "idle" => ex_pc[t] \in WaitPcs \/ NullCall(t)

\* An idle thread has nothing to run; the poison comes with a shutdown.
RunInv ==
  \A t \in Threads :
    /\ status[t] \in {"initalized", "idle"} => run[t] = NULL
    /\ ex_pc[t] = "settle" => run[t] = NULL
    /\ run[t] = Poison => status[t] \in {"shutdown_requested", "exited"}
    /\ ex_pc[t] = "call" => ex_funct[t] # Poison

\* A thread on its way to on_release, or past it, was not picked for another
\* task: it is idle, or asked to end, and then has nothing but the poison.
ReleaseInv ==
  /\ free \cap busy = {}
  /\ \A t \in Threads :
       /\ t \in free => /\ ex_pc[t] \notin {"running", "clear", "settle", "callback"}
                        /\ ex_pc[t] = "call" => NullCall(t)
                        /\ status[t] # "busy"
       /\ ex_pc[t] = "callback" => status[t] \in {"idle", "shutdown_requested"}
       /\ t \in free \/ ex_pc[t] = "callback" =>
            (status[t] = "shutdown_requested" => run[t] = Poison)

\* While the pool is available nobody has asked a thread to end, and the
\* thread picked for a task waits for it until the submitter hands it over.
PickInv ==
  /\ pool_status = "available" =>
       \A t \in Threads : status[t] \notin {"shutdown_requested", "exited"}
  /\ \A c \in Clients :
       wp_pc[c] = "rerun" => /\ status[use[c]] = "idle"
                             /\ ex_pc[use[c]] # "callback"

QueueInv == LifeInv /\ RunInv /\ ReleaseInv /\ PickInv

\* How status, executor, queue and the submission under way of a thread go
\* together.
LEMMA Queues == Spec => []QueueInv
<1>1. Init => QueueInv
  BY RrtAssumption DEF Init, RrtInit, QueueInv, LifeInv, RunInv, ReleaseInv,
     PickInv, NullCall
<1>2. BaseInv /\ QueueInv /\ [Next]_vars => QueueInv'
  <2> SUFFICES ASSUME BaseInv, QueueInv, [Next]_vars PROVE QueueInv'
    OBVIOUS
  <2> USE RrtAssumption, PoolAssumption
      DEF BaseInv, TypeOK, RrtTypeOK, CallInv, State, ExPc, CallPc, WpPc,
          RtFree, CwFree, callVars, executorVars, rrtVars, poolVars, PoolFree,
          WpEnter, WpGoto, QueueInv, LifeInv, RunInv, ReleaseInv, PickInv,
          WaitPcs, NullCall
  <2>1. ASSUME NEW c \in Clients, NEW t \in Threads, NEW j \in Tasks, SubmitToFree(c, t, j)
        PROVE  QueueInv'
    BY <2>1 DEF SubmitToFree, Dispatch, Accepts
  <2>2. ASSUME NEW c \in Clients, NEW t \in Threads, NEW j \in Tasks, SubmitToNew(c, t, j)
        PROVE  QueueInv'
    BY <2>2 DEF SubmitToNew, Dispatch, Accepts, Start
  <2>3. ASSUME NEW c \in Clients, SubmitRerun(c)
        PROVE  QueueInv'
    BY <2>3 DEF SubmitRerun, TryRerun, Enter
  <2>4. ASSUME NEW c \in Clients, Notify(c)
        PROVE  QueueInv'
    BY <2>4 DEF Notify, NotifyJob, Leave, CallGoto
  <2>5. ASSUME NEW c \in Clients, SubmitReturn(c) \/ ShutdownReturn(c)
        PROVE  QueueInv'
    BY <2>5 DEF SubmitReturn, ShutdownReturn
  <2>6. ASSUME NEW c \in Clients, ShutdownPool(c)
        PROVE  QueueInv'
    BY <2>6 DEF ShutdownPool
  <2>7. ASSUME NEW c \in Clients, NEW t \in Threads, ShutdownNext(c, t)
        PROVE  QueueInv'
    BY <2>7 DEF ShutdownNext, ShutdownCall, Enter
  <2>8. ASSUME NEW c \in Clients, ShutdownRound(c)
        PROVE  QueueInv'
    BY <2>8 DEF ShutdownRound, ShutdownLock, ShutdownRetry, ShutdownDecide, CallGoto, PoisonIfIdle
  <2>9. ASSUME NEW c \in Clients, WaitExit(c) \/ WaitDone(c)
        PROVE  QueueInv'
    BY <2>9 DEF WaitExit, WaitDone
  <2>10. ASSUME NEW c \in Clients, DestroyPool(c)
        PROVE  QueueInv'
    BY <2>10 DEF DestroyPool
  <2>11. ASSUME NEW t \in Threads, Begin(t)
        PROVE  QueueInv'
    BY <2>11 DEF Begin, Invoke, Goto
  <2>12. ASSUME NEW t \in Threads, Finish(t)
        PROVE  QueueInv'
    BY <2>12 DEF Finish, Return, Goto
  <2>13. ASSUME NEW t \in Threads, OnRelease(t)
        PROVE  QueueInv'
    BY <2>13 DEF OnRelease, Requeue, Callback, Goto
  <2>14. ASSUME NEW t \in Threads, ReadJob(t), UNCHANGED poolVars
        PROVE  QueueInv'
    BY <2>14 DEF ReadJob, Goto
  <2>15. ASSUME NEW t \in Threads, Clear(t) \/ Settle(t) \/ Exit(t), UNCHANGED poolVars
        PROVE  QueueInv'
    BY <2>15 DEF Clear, Settle, Exit, Goto
  <2>16. ASSUME NEW t \in Threads, LockCw(t) \/ Check(t) \/ CondWait(t) \/ Wake(t) \/ SpuriousWakeup(t), UNCHANGED poolVars
        PROVE  QueueInv'
    BY <2>16 DEF LockCw, Check, CondWait, Wake, SpuriousWakeup, Goto
  <2>17. CASE UNCHANGED vars
    BY <2>17 DEF vars
  <2>18. QED
    BY <2>1, <2>2, <2>3, <2>4, <2>5, <2>6, <2>7, <2>8, <2>9, <2>10, <2>11, <2>12, <2>13, <2>14, <2>15, <2>16, <2>17 DEF Next, NewCall,
       InCall, Executor, ExecutorStep, Wakeup
<1>3. QED
  BY <1>1, <1>2, Base, PTL DEF Spec

\* "it's must be free": the thread wp_submit_task picked is idle when
\* rrt_try_rerun_if_free looks at it.
THEOREM PickedThreadIsFree == Spec => []MustBeFree
<1>1. QueueInv => MustBeFree
  BY DEF QueueInv, PickInv, MustBeFree
<1>2. QED
  BY <1>1, Queues, PTL

\* Every started thread is in exactly one of the two queues, whatever on_release
\* and wp_submit_task interleave.
THEOREM QueuesArePartition == Spec => []QueuesPartition
<1>1. BaseInv /\ QueueInv => QueuesPartition
  BY DEF BaseInv, TypeOK, QueueInv, LifeInv, ReleaseInv, QueuesPartition
<1>2. QED
  BY <1>1, Base, Queues, PTL
-----------------------------------------------------------------------------
\* Between wp_submit_task's hand-over and its notification the pool is locked,
\* so a thread that is idle again by then is at on_release.
LateInv ==
  \A c \in Clients :
    call_pc[c] = "notify_job" /\ status[callee[c]] = "idle"
      => ex_pc[callee[c]] = "callback"

LEMMA Late == Spec => []LateInv
<1>1. Init => LateInv
  BY RrtAssumption, PoolAssumption DEF Init, RrtInit, LateInv
<1>2. BaseInv /\ QueueInv /\ LateInv /\ [Next]_vars => LateInv'
  <2> SUFFICES ASSUME BaseInv, QueueInv, LateInv, [Next]_vars
               PROVE  LateInv'
    OBVIOUS
  <2> USE RrtAssumption, PoolAssumption
      DEF BaseInv, TypeOK, RrtTypeOK, CallInv, State, ExPc, CallPc, WpPc,
          RtFree, CwFree, callVars, executorVars, rrtVars, poolVars, PoolFree,
          WpEnter, WpGoto, QueueInv, LifeInv, RunInv, ReleaseInv, PickInv,
          WaitPcs, NullCall, LateInv
  <2>1. ASSUME NEW c \in Clients, NEW t \in Threads, NEW j \in Tasks,
               SubmitToFree(c, t, j)
        PROVE  LateInv'
    BY <2>1 DEF SubmitToFree, Dispatch, Accepts
  <2>2. ASSUME NEW c \in Clients, NEW t \in Threads, NEW j \in Tasks,
               SubmitToNew(c, t, j)
        PROVE  LateInv'
    BY <2>2 DEF SubmitToNew, Dispatch, Accepts, Start
  <2>3. ASSUME NEW c \in Clients, SubmitRerun(c)
        PROVE  LateInv'
    BY <2>3 DEF SubmitRerun, TryRerun, Enter, CallGoto
  <2>4. ASSUME NEW c \in Clients, Notify(c)
        PROVE  LateInv'
    BY <2>4 DEF Notify, NotifyJob, Leave, CallGoto
  <2>5. ASSUME NEW c \in Clients, SubmitReturn(c) \/ ShutdownReturn(c)
        PROVE  LateInv'
    BY <2>5 DEF SubmitReturn, ShutdownReturn
  <2>6. ASSUME NEW c \in Clients, c \in Owners, ShutdownPool(c)
        PROVE  LateInv'
    BY <2>6 DEF ShutdownPool
  <2>7. ASSUME NEW c \in Clients, NEW t \in Threads, ShutdownNext(c, t)
        PROVE  LateInv'
    BY <2>7 DEF ShutdownNext, ShutdownCall, Enter, CallGoto
  <2>8. ASSUME NEW c \in Clients, ShutdownRound(c)
        PROVE  LateInv'
    BY <2>8 DEF ShutdownRound, ShutdownLock, ShutdownRetry,
       ShutdownDecide, CallGoto, Leave, PoisonIfIdle, NotifyIfIdle
  <2>9. ASSUME NEW c \in Clients, c \in Owners, WaitExit(c)
        PROVE  LateInv'
    BY <2>9 DEF WaitExit
  <2>10. ASSUME NEW c \in Clients, WaitDone(c)
         PROVE  LateInv'
    BY <2>10 DEF WaitDone
  <2>11. ASSUME NEW c \in Clients, c \in Owners, DestroyPool(c)
         PROVE  LateInv'
    BY <2>11 DEF DestroyPool
  <2>12. ASSUME NEW t \in Threads, Begin(t)
         PROVE  LateInv'
    BY <2>12 DEF Begin, Invoke, Goto
  <2>13. ASSUME NEW t \in Threads, Finish(t)
         PROVE  LateInv'
    BY <2>13 DEF Finish, Return, Goto
  <2>14. ASSUME NEW t \in Threads, OnRelease(t)
         PROVE  LateInv'
    BY <2>14 DEF OnRelease, Requeue, Callback, Goto
  <2>15. ASSUME NEW t \in Threads, ReadJob(t), UNCHANGED poolVars
         PROVE  LateInv'
    BY <2>15 DEF ReadJob, Goto
  <2>16. ASSUME NEW t \in Threads, Clear(t) \/ Settle(t) \/ Exit(t),
               UNCHANGED poolVars
         PROVE  LateInv'
    BY <2>16 DEF Clear, Settle, Exit, Goto
  <2>17. ASSUME NEW t \in Threads, LockCw(t) \/ Check(t) \/ CondWait(t) \/ Wake(t),
               UNCHANGED poolVars
         PROVE  LateInv'
    BY <2>17 DEF LockCw, Check, CondWait, Wake, Goto
  <2>18. ASSUME NEW t \in Threads, Wakeup(t)
         PROVE  LateInv'
    BY <2>18 DEF Wakeup, SpuriousWakeup, Goto
  <2>19. CASE UNCHANGED vars
    BY <2>19 DEF vars
  <2>20. QED
    BY <2>1, <2>2, <2>3, <2>4, <2>5, <2>6, <2>7, <2>8, <2>9, <2>10,
       <2>11, <2>12, <2>13, <2>14, <2>15, <2>16, <2>17, <2>18, <2>19
       DEF Next, NewCall, InCall, Executor, ExecutorStep
<1>3. QED
  BY <1>1, <1>2, Base, Queues, PTL DEF Spec

\* No notification wakes a thread that has no job, spurious wakeups or not: the
\* values are updated, and still there, when the executor is notified.
THEOREM NotifiesWithAJob == Spec => []NotifiedWithAJob
<1>1. LateInv => NotifiedWithAJob
  BY DEF LateInv, NotifiedWithAJob
<1>2. QED
  BY <1>1, Late, PTL

\* So nobody who waits for a job is woken without one.
NoteInv ==
  \A t \in Threads :
    /\ ex_pc[t] \in {"woken", "read_job"} => status[t] # "idle"
    /\ status[t] # "idle" /\ ex_pc[t] \in WaitPcs \ {"none"} => run[t] # NULL
    /\ ~NullCall(t)

\* If waits end only with a notification, no pool thread calls through NULL:
\* pool_lock hides the late notification of rrt_try_rerun_if_free.
THEOREM CallsNoNull ==
  ASSUME SpuriousWakeups = FALSE
  PROVE  Spec => []ReadsARequestersValues
<1>1. Init => NoteInv
  BY RrtAssumption, PoolAssumption DEF Init, RrtInit, NoteInv, WaitPcs,
     NullCall
<1>2. BaseInv /\ QueueInv /\ LateInv /\ NoteInv /\ [Next]_vars => NoteInv'
  <2> SUFFICES ASSUME BaseInv, QueueInv, LateInv, NoteInv, [Next]_vars
               PROVE  NoteInv'
    OBVIOUS
  <2> USE RrtAssumption, PoolAssumption
      DEF BaseInv, TypeOK, RrtTypeOK, CallInv, State, ExPc, CallPc, WpPc,
          RtFree, CwFree, callVars, executorVars, rrtVars, poolVars, PoolFree,
          WpEnter, WpGoto, QueueInv, LifeInv, RunInv, ReleaseInv, PickInv,
          WaitPcs, NullCall, LateInv, NoteInv
  <2>1. ASSUME NEW c \in Clients, NEW t \in Threads, NEW j \in Tasks,
               SubmitToFree(c, t, j)
        PROVE  NoteInv'
    BY <2>1 DEF SubmitToFree, Dispatch, Accepts
  <2>2. ASSUME NEW c \in Clients, NEW t \in Threads, NEW j \in Tasks,
               SubmitToNew(c, t, j)
        PROVE  NoteInv'
    BY <2>2 DEF SubmitToNew, Dispatch, Accepts, Start
  <2>3. ASSUME NEW c \in Clients, SubmitRerun(c)
        PROVE  NoteInv'
    BY <2>3 DEF SubmitRerun, TryRerun, Enter, CallGoto
  <2>4. ASSUME NEW c \in Clients, Notify(c)
        PROVE  NoteInv'
    BY <2>4 DEF Notify, NotifyJob, Leave, CallGoto
  <2>5. ASSUME NEW c \in Clients, SubmitReturn(c) \/ ShutdownReturn(c)
        PROVE  NoteInv'
    BY <2>5 DEF SubmitReturn, ShutdownReturn
  <2>6. ASSUME NEW c \in Clients, c \in Owners, ShutdownPool(c)
        PROVE  NoteInv'
    BY <2>6 DEF ShutdownPool
  <2>7. ASSUME NEW c \in Clients, NEW t \in Threads, ShutdownNext(c, t)
        PROVE  NoteInv'
    BY <2>7 DEF ShutdownNext, ShutdownCall, Enter, CallGoto
  <2>8. ASSUME NEW c \in Clients, ShutdownRound(c)
        PROVE  NoteInv'
    BY <2>8 DEF ShutdownRound, ShutdownLock, ShutdownRetry,
       ShutdownDecide, CallGoto, Leave, PoisonIfIdle, NotifyIfIdle
  <2>9. ASSUME NEW c \in Clients, c \in Owners, WaitExit(c)
        PROVE  NoteInv'
    BY <2>9 DEF WaitExit
  <2>10. ASSUME NEW c \in Clients, WaitDone(c)
         PROVE  NoteInv'
    BY <2>10 DEF WaitDone
  <2>11. ASSUME NEW c \in Clients, c \in Owners, DestroyPool(c)
         PROVE  NoteInv'
    BY <2>11 DEF DestroyPool
  <2>12. ASSUME NEW t \in Threads, Begin(t)
         PROVE  NoteInv'
    BY <2>12 DEF Begin, Invoke, Goto
  <2>13. ASSUME NEW t \in Threads, Finish(t)
         PROVE  NoteInv'
    BY <2>13 DEF Finish, Return, Goto
  <2>14. ASSUME NEW t \in Threads, OnRelease(t)
         PROVE  NoteInv'
    BY <2>14 DEF OnRelease, Requeue, Callback, Goto
  <2>15. ASSUME NEW t \in Threads, ReadJob(t), UNCHANGED poolVars
         PROVE  NoteInv'
    BY <2>15 DEF ReadJob, Goto
  <2>16. ASSUME NEW t \in Threads, Clear(t) \/ Settle(t) \/ Exit(t),
               UNCHANGED poolVars
         PROVE  NoteInv'
    BY <2>16 DEF Clear, Settle, Exit, Goto
  <2>17. ASSUME NEW t \in Threads, LockCw(t) \/ Check(t) \/ CondWait(t) \/ Wake(t),
               UNCHANGED poolVars
         PROVE  NoteInv'
    BY <2>17 DEF LockCw, Check, CondWait, Wake, Goto
  <2>18. ASSUME NEW t \in Threads, Wakeup(t)
         PROVE  NoteInv'
    BY <2>18 DEF Wakeup, SpuriousWakeup, Goto
  <2>19. CASE UNCHANGED vars
    BY <2>19 DEF vars
  <2>20. QED
    BY <2>1, <2>2, <2>3, <2>4, <2>5, <2>6, <2>7, <2>8, <2>9, <2>10,
       <2>11, <2>12, <2>13, <2>14, <2>15, <2>16, <2>17, <2>18, <2>19
       DEF Next, NewCall, InCall, Executor, ExecutorStep
<1>3. NoteInv => ReadsARequestersValues
  BY DEF NoteInv, ReadsARequestersValues
<1>4. QED
  BY <1>1, <1>2, <1>3, Base, Queues, Late, PTL DEF Spec

-----------------------------------------------------------------------------
\* An exited pool has lost its last thread, or its owner waits for that; only
\* then is it destroyed.
WaitInv ==
  /\ \A c \in Clients : wp_pc[c] = "wait" => c \in Owners /\ pool_status = "exited"
  /\ pool_status = "exited" =>
       AllExited \/ \E c \in Owners : wp_pc[c] = "wait"
  /\ IF pool_gone THEN /\ pool_status = "exited"
                       /\ AllExited
                       /\ destroyed \subseteq busy \cup free
                       /\ \A c \in Clients : wp_pc[c] # "wait"
                  ELSE destroyed = {}


\* A pool with at most one owner is freed only when nothing runs on its threads
\* and nobody walks its queues.
THEOREM DestroyedLast ==
  ASSUME \A c, d \in Owners : c = d
  PROVE  Spec => []DestroyedWhenExited
<1>1. Init => WaitInv
  BY RrtAssumption, PoolAssumption DEF Init, RrtInit, WaitInv
<1>2. BaseInv /\ QueueInv /\ WaitInv /\ [Next]_vars => WaitInv'
  <2> SUFFICES ASSUME BaseInv, QueueInv, WaitInv, [Next]_vars
               PROVE  WaitInv'
    OBVIOUS
  <2> USE RrtAssumption, PoolAssumption
      DEF BaseInv, TypeOK, RrtTypeOK, CallInv, State, ExPc, CallPc, WpPc,
          RtFree, CwFree, callVars, executorVars, rrtVars, poolVars, PoolFree,
          WpEnter, WpGoto, QueueInv, LifeInv, RunInv, ReleaseInv, PickInv,
          WaitPcs, NullCall, WaitInv, AllExited
  <2>1. ASSUME NEW c \in Clients, NEW t \in Threads, NEW j \in Tasks,
               SubmitToFree(c, t, j)
        PROVE  WaitInv'
    BY <2>1 DEF SubmitToFree, Dispatch, Accepts
  <2>2. ASSUME NEW c \in Clients, NEW t \in Threads, NEW j \in Tasks,
               SubmitToNew(c, t, j)
        PROVE  WaitInv'
    BY <2>2 DEF SubmitToNew, Dispatch, Accepts, Start
  <2>3. ASSUME NEW c \in Clients, SubmitRerun(c)
        PROVE  WaitInv'
    BY <2>3 DEF SubmitRerun, TryRerun, Enter, CallGoto
  <2>4. ASSUME NEW c \in Clients, Notify(c)
        PROVE  WaitInv'
    BY <2>4 DEF Notify, NotifyJob, Leave, CallGoto
  <2>5. ASSUME NEW c \in Clients, SubmitReturn(c) \/ ShutdownReturn(c)
        PROVE  WaitInv'
    BY <2>5 DEF SubmitReturn, ShutdownReturn
  <2>6. ASSUME NEW c \in Clients, c \in Owners, ShutdownPool(c)
        PROVE  WaitInv'
    BY <2>6 DEF ShutdownPool
  <2>7. ASSUME NEW c \in Clients, NEW t \in Threads, ShutdownNext(c, t)
        PROVE  WaitInv'
    BY <2>7 DEF ShutdownNext, ShutdownCall, Enter, CallGoto
  <2>8. ASSUME NEW c \in Clients, ShutdownRound(c)
        PROVE  WaitInv'
    BY <2>8 DEF ShutdownRound, ShutdownLock, ShutdownRetry,
       ShutdownDecide, CallGoto, Leave, PoisonIfIdle, NotifyIfIdle
  <2>9. ASSUME NEW c \in Clients, c \in Owners, WaitExit(c)
        PROVE  WaitInv'
    BY <2>9 DEF WaitExit
  <2>10. ASSUME NEW c \in Clients, WaitDone(c)
         PROVE  WaitInv'
    BY <2>10 DEF WaitDone
  <2>11. ASSUME NEW c \in Clients, c \in Owners, DestroyPool(c)
         PROVE  WaitInv'
    BY <2>11 DEF DestroyPool
  <2>12. ASSUME NEW t \in Threads, Begin(t)
         PROVE  WaitInv'
    BY <2>12 DEF Begin, Invoke, Goto
  <2>13. ASSUME NEW t \in Threads, Finish(t)
         PROVE  WaitInv'
    BY <2>13 DEF Finish, Return, Goto
  <2>14. ASSUME NEW t \in Threads, OnRelease(t)
         PROVE  WaitInv'
    BY <2>14 DEF OnRelease, Requeue, Callback, Goto
  <2>15. ASSUME NEW t \in Threads, ReadJob(t), UNCHANGED poolVars
         PROVE  WaitInv'
    BY <2>15 DEF ReadJob, Goto
  <2>16. ASSUME NEW t \in Threads, Clear(t) \/ Settle(t) \/ Exit(t),
               UNCHANGED poolVars
         PROVE  WaitInv'
    BY <2>16 DEF Clear, Settle, Exit, Goto
  <2>17. ASSUME NEW t \in Threads, LockCw(t) \/ Check(t) \/ CondWait(t) \/ Wake(t),
               UNCHANGED poolVars
         PROVE  WaitInv'
    BY <2>17 DEF LockCw, Check, CondWait, Wake, Goto
  <2>18. ASSUME NEW t \in Threads, Wakeup(t)
         PROVE  WaitInv'
    BY <2>18 DEF Wakeup, SpuriousWakeup, Goto
  <2>19. CASE UNCHANGED vars
    BY <2>19 DEF vars
  <2>20. QED
    BY <2>1, <2>2, <2>3, <2>4, <2>5, <2>6, <2>7, <2>8, <2>9, <2>10,
       <2>11, <2>12, <2>13, <2>14, <2>15, <2>16, <2>17, <2>18, <2>19
       DEF Next, NewCall, InCall, Executor, ExecutorStep
<1>3. BaseInv /\ QueueInv /\ WaitInv => DestroyedWhenExited
  BY DEF BaseInv, TypeOK, QueueInv, LifeInv, WaitInv, AllExited, DestroyedWhenExited, Live
<1>4. QED
  BY <1>1, <1>2, <1>3, Base, Queues, PTL DEF Spec
-----------------------------------------------------------------------------
\* A thread that holds a task it has yet to run.
Pending(t) ==
  \/ run[t] = Exec /\ (ex_pc[t] \in WaitPcs \/ NullCall(t))
  \/ ex_pc[t] = "call" /\ ex_funct[t] = Exec

Running(t) == ex_pc[t] = "running"

\* A task that was accepted is with one thread until it is done.
HeldInv ==
  \A t \in Threads :
    /\ Pending(t) => task[t] \in Tasks /\ job[task[t]] = "accepted"
    /\ Running(t) => task[t] \in Tasks /\ job[task[t]] = "running"

UniqueInv ==
  \A t, u \in Threads :
    task[t] = task[u] /\ (Pending(t) \/ Running(t)) /\ (Pending(u) \/ Running(u))
      => t = u

KeptInv ==
  \A j \in Tasks :
    /\ job[j] = "accepted" => \E t \in Threads : task[t] = j /\ Pending(t)
    /\ job[j] = "running" => \E t \in Threads : task[t] = j /\ Running(t)

\* The task that is being handed over was not accepted before.
HandOverInv ==
  /\ \A c \in Clients :
       wp_pc[c] = "rerun" => task[use[c]] \in Tasks /\ job[task[use[c]]] = "new"
  /\ waited => pool_status = "exited"
  /\ \A c \in Clients : wp_pc[c] = "wait" => pool_status = "exited"

TaskInv == HeldInv /\ UniqueInv /\ KeptInv /\ HandOverInv

\* Where a task is between wp_submit_task and its end: in the pool_thread of one
\* busy thread, which reads it before the slot is reused.
LEMMA TasksAreHeld == Spec => []TaskInv
<1>1. Init => TaskInv
  BY RrtAssumption, PoolAssumption DEF Init, RrtInit, TaskInv, HeldInv,
     UniqueInv, KeptInv, HandOverInv, Pending, Running, NullCall
<1>2. BaseInv /\ QueueInv /\ TaskInv /\ [Next]_vars => TaskInv'
  <2> SUFFICES ASSUME BaseInv, QueueInv, TaskInv, [Next]_vars
               PROVE  TaskInv'
    OBVIOUS
  <2> USE RrtAssumption, PoolAssumption
      DEF BaseInv, TypeOK, RrtTypeOK, CallInv, State, ExPc, CallPc, WpPc,
          RtFree, CwFree, callVars, executorVars, rrtVars, poolVars, PoolFree,
          WpEnter, WpGoto, QueueInv, LifeInv, RunInv, ReleaseInv, PickInv,
          WaitPcs, NullCall, JobState,
          TaskInv, HeldInv, UniqueInv, KeptInv, HandOverInv, Pending, Running
  <2>1. ASSUME NEW c \in Clients, NEW t \in Threads, NEW j \in Tasks,
               SubmitToFree(c, t, j)
        PROVE  TaskInv'
    <3>1. HeldInv'
      BY <2>1 DEF SubmitToFree, Dispatch, Accepts
    <3>2. UniqueInv'
      BY <2>1 DEF SubmitToFree, Dispatch, Accepts
    <3>3. KeptInv'
      BY <2>1 DEF SubmitToFree, Dispatch, Accepts
    <3>4. HandOverInv'
      BY <2>1 DEF SubmitToFree, Dispatch, Accepts
    <3>5. QED
      BY <3>1, <3>2, <3>3, <3>4 DEF TaskInv
  <2>2. ASSUME NEW c \in Clients, NEW t \in Threads, NEW j \in Tasks,
               SubmitToNew(c, t, j)
        PROVE  TaskInv'
    <3>1. HeldInv'
      BY <2>2 DEF SubmitToNew, Dispatch, Accepts, Start
    <3>2. UniqueInv'
      BY <2>2 DEF SubmitToNew, Dispatch, Accepts, Start
    <3>3. KeptInv'
      BY <2>2 DEF SubmitToNew, Dispatch, Accepts, Start
    <3>4. HandOverInv'
      BY <2>2 DEF SubmitToNew, Dispatch, Accepts, Start
    <3>5. QED
      BY <3>1, <3>2, <3>3, <3>4 DEF TaskInv
  <2>3. ASSUME NEW c \in Clients, SubmitRerun(c)
        PROVE  TaskInv'
    <3>1. HeldInv'
      BY <2>3 DEF SubmitRerun, TryRerun, Enter, CallGoto
    <3>2. UniqueInv'
      BY <2>3 DEF SubmitRerun, TryRerun, Enter, CallGoto
    <3>3. KeptInv'
      BY <2>3 DEF SubmitRerun, TryRerun, Enter, CallGoto
    <3>4. HandOverInv'
      BY <2>3 DEF SubmitRerun, TryRerun, Enter, CallGoto
    <3>5. QED
      BY <3>1, <3>2, <3>3, <3>4 DEF TaskInv
  <2>4. ASSUME NEW c \in Clients, Notify(c)
        PROVE  TaskInv'
    BY <2>4 DEF Notify, NotifyJob, Leave, CallGoto
  <2>5. ASSUME NEW c \in Clients, SubmitReturn(c) \/ ShutdownReturn(c)
        PROVE  TaskInv'
    BY <2>5 DEF SubmitReturn, ShutdownReturn
  <2>6. ASSUME NEW c \in Clients, c \in Owners, ShutdownPool(c)
        PROVE  TaskInv'
    BY <2>6 DEF ShutdownPool
  <2>7. ASSUME NEW c \in Clients, NEW t \in Threads, ShutdownNext(c, t)
        PROVE  TaskInv'
    BY <2>7 DEF ShutdownNext, ShutdownCall, Enter, CallGoto
  <2>8. ASSUME NEW c \in Clients, ShutdownRound(c)
        PROVE  TaskInv'
    BY <2>8 DEF ShutdownRound, ShutdownLock, ShutdownRetry,
       ShutdownDecide, CallGoto, Leave, PoisonIfIdle, NotifyIfIdle
  <2>9. ASSUME NEW c \in Clients, c \in Owners, WaitExit(c)
        PROVE  TaskInv'
    BY <2>9 DEF WaitExit
  <2>10. ASSUME NEW c \in Clients, WaitDone(c)
         PROVE  TaskInv'
    BY <2>10 DEF WaitDone
  <2>11. ASSUME NEW c \in Clients, c \in Owners, DestroyPool(c)
         PROVE  TaskInv'
    BY <2>11 DEF DestroyPool
  <2>12. ASSUME NEW t \in Threads, Begin(t)
         PROVE  TaskInv'
    <3>1. HeldInv'
      BY <2>12 DEF Begin, Invoke, Goto
    <3>2. UniqueInv'
      BY <2>12 DEF Begin, Invoke, Goto
    <3>3. KeptInv'
      BY <2>12 DEF Begin, Invoke, Goto
    <3>4. HandOverInv'
      BY <2>12 DEF Begin, Invoke, Goto
    <3>5. QED
      BY <3>1, <3>2, <3>3, <3>4 DEF TaskInv
  <2>13. ASSUME NEW t \in Threads, Finish(t)
         PROVE  TaskInv'
    <3>1. HeldInv'
      BY <2>13 DEF Finish, Return, Goto
    <3>2. UniqueInv'
      BY <2>13 DEF Finish, Return, Goto
    <3>3. KeptInv'
      BY <2>13 DEF Finish, Return, Goto
    <3>4. HandOverInv'
      BY <2>13 DEF Finish, Return, Goto
    <3>5. QED
      BY <3>1, <3>2, <3>3, <3>4 DEF TaskInv
  <2>14. ASSUME NEW t \in Threads, OnRelease(t)
         PROVE  TaskInv'
    <3>1. HeldInv'
      BY <2>14 DEF OnRelease, Requeue, Callback, Goto
    <3>2. UniqueInv'
      BY <2>14 DEF OnRelease, Requeue, Callback, Goto
    <3>3. KeptInv'
      BY <2>14 DEF OnRelease, Requeue, Callback, Goto
    <3>4. HandOverInv'
      BY <2>14 DEF OnRelease, Requeue, Callback, Goto
    <3>5. QED
      BY <3>1, <3>2, <3>3, <3>4 DEF TaskInv
  <2>15. ASSUME NEW t \in Threads, ReadJob(t), UNCHANGED poolVars
         PROVE  TaskInv'
    <3>1. HeldInv'
      BY <2>15 DEF ReadJob, Goto
    <3>2. UniqueInv'
      BY <2>15 DEF ReadJob, Goto
    <3>3. KeptInv'
      BY <2>15 DEF ReadJob, Goto
    <3>4. HandOverInv'
      BY <2>15 DEF ReadJob, Goto
    <3>5. QED
      BY <3>1, <3>2, <3>3, <3>4 DEF TaskInv
  <2>16. ASSUME NEW t \in Threads, Clear(t) \/ Settle(t) \/ Exit(t),
               UNCHANGED poolVars
         PROVE  TaskInv'
    <3>1. HeldInv'
      BY <2>16 DEF Clear, Settle, Exit, Goto
    <3>2. UniqueInv'
      BY <2>16 DEF Clear, Settle, Exit, Goto
    <3>3. KeptInv'
      BY <2>16 DEF Clear, Settle, Exit, Goto
    <3>4. HandOverInv'
      BY <2>16 DEF Clear, Settle, Exit, Goto
    <3>5. QED
      BY <3>1, <3>2, <3>3, <3>4 DEF TaskInv
  <2>17. ASSUME NEW t \in Threads, LockCw(t) \/ Check(t) \/ CondWait(t) \/ Wake(t),
               UNCHANGED poolVars
         PROVE  TaskInv'
    <3>1. HeldInv'
      BY <2>17 DEF LockCw, Check, CondWait, Wake, Goto
    <3>2. UniqueInv'
      BY <2>17 DEF LockCw, Check, CondWait, Wake, Goto
    <3>3. KeptInv'
      BY <2>17 DEF LockCw, Check, CondWait, Wake, Goto
    <3>4. HandOverInv'
      BY <2>17 DEF LockCw, Check, CondWait, Wake, Goto
    <3>5. QED
      BY <3>1, <3>2, <3>3, <3>4 DEF TaskInv
  <2>18. ASSUME NEW t \in Threads, Wakeup(t)
         PROVE  TaskInv'
    <3>1. HeldInv'
      BY <2>18 DEF Wakeup, SpuriousWakeup, Goto
    <3>2. UniqueInv'
      BY <2>18 DEF Wakeup, SpuriousWakeup, Goto
    <3>3. KeptInv'
      BY <2>18 DEF Wakeup, SpuriousWakeup, Goto
    <3>4. HandOverInv'
      BY <2>18 DEF Wakeup, SpuriousWakeup, Goto
    <3>5. QED
      BY <3>1, <3>2, <3>3, <3>4 DEF TaskInv
  <2>19. CASE UNCHANGED vars
    BY <2>19 DEF vars
  <2>20. QED
    BY <2>1, <2>2, <2>3, <2>4, <2>5, <2>6, <2>7, <2>8, <2>9, <2>10,
       <2>11, <2>12, <2>13, <2>14, <2>15, <2>16, <2>17, <2>18, <2>19
       DEF Next, NewCall, InCall, Executor, ExecutorStep
<1>3. QED
  BY <1>1, <1>2, Base, Queues, PTL DEF Spec
-----------------------------------------------------------------------------
\* The pool implements JobService: a task is accepted once and only while the
\* pool is available, run once, and done when wp_wait_exit has returned 0.
THEOREM ImplementsJobService == Spec => RunsTasksOnce
<1> DEFINE Abs == [Jobs!Next]_<<job, Service>>
<1>1. Init => Jobs!Init
  BY DEF Init, RrtInit, Jobs!Init, Service
<1>2. BaseInv /\ QueueInv /\ TaskInv /\ [Next]_vars => Abs
  <2> SUFFICES ASSUME BaseInv, QueueInv, TaskInv, [Next]_vars PROVE Abs
    OBVIOUS
  <2> USE RrtAssumption, PoolAssumption
      DEF BaseInv, TypeOK, CallInv, poolVars, rrtVars, PoolFree, WpEnter, WpGoto
  <2>1. ASSUME UNCHANGED <<job, waited, pool_status>>
        PROVE  Abs
    BY <2>1 DEF Service
  <2>2. ASSUME NEW c \in Clients, SubmitRerun(c)
        PROVE  Abs
    <3>1. PICK j \in Tasks : j = task[use[c]]
      BY <2>2 DEF SubmitRerun, TaskInv, HandOverInv
    <3>2. job[j] = "new" /\ job' = [job EXCEPT ![j] = "accepted"]
      BY <2>2, <3>1 DEF SubmitRerun, TaskInv, HandOverInv, QueueInv, PickInv
    <3>3. Service = "open" /\ Service' = "open"
      BY <2>2 DEF SubmitRerun, TaskInv, HandOverInv, Service
    <3>4. QED
      BY <3>2, <3>3 DEF Jobs!Next, Jobs!Accept, Jobs!Step
  <2>3. ASSUME NEW t \in Threads, Begin(t)
        PROVE  Abs
    <3>1. Pending(t)
      BY <2>3 DEF Begin, Invoke, Goto, Pending, QueueInv, RunInv, RrtTypeOK
    <3>2. PICK j \in Tasks : j = task[t]
      BY <3>1 DEF TaskInv, HeldInv
    <3>3. job[j] = "accepted" /\ job' = [job EXCEPT ![j] = "running"]
      BY <2>3, <3>1, <3>2 DEF Begin, TaskInv, HeldInv
    <3>4. UNCHANGED Service
      BY <2>3 DEF Begin, Service
    <3>5. QED
      BY <3>3, <3>4 DEF Jobs!Next, Jobs!Begin, Jobs!Step
  <2>4. ASSUME NEW t \in Threads, Finish(t)
        PROVE  Abs
    <3>1. Running(t)
      BY <2>4 DEF Finish, Return, Goto, Running
    <3>2. PICK j \in Tasks : j = task[t]
      BY <3>1 DEF TaskInv, HeldInv
    <3>3. job[j] = "running" /\ job' = [job EXCEPT ![j] = "done"]
      BY <2>4, <3>1, <3>2 DEF Finish, TaskInv, HeldInv
    <3>4. UNCHANGED Service
      BY <2>4 DEF Finish, Service
    <3>5. QED
      BY <3>3, <3>4 DEF Jobs!Next, Jobs!Finish, Jobs!Step
  <2>5. ASSUME NEW c \in Clients, ShutdownPool(c)
        PROVE  Abs
    <3>1. Service = "open" /\ Service' = "closed" /\ UNCHANGED job
      BY <2>5 DEF ShutdownPool, Service, TaskInv, HandOverInv
    <3>2. QED
      BY <3>1 DEF Jobs!Next, Jobs!Close
  <2>6. ASSUME AllExited, NEW j \in Tasks
        PROVE  job[j] \in {"new", "done"}
    <3>1. ASSUME NEW t \in Threads
          PROVE  ~Pending(t) /\ ~Running(t)
      <4>1. (ex_pc[t] = "none" /\ run[t] = NULL) \/ ex_pc[t] = "exited"
        BY <2>6, <3>1 DEF AllExited, QueueInv, LifeInv, RunInv
      <4>2. QED
        BY <4>1 DEF Pending, Running, WaitPcs, NullCall
    <3>2. QED
      BY <3>1 DEF TaskInv, KeptInv, JobState
  <2>7. ASSUME NEW c \in Clients, WaitExit(c) \/ WaitDone(c)
        PROVE  Abs
    <3>1. CASE AllExited
      <4>1. UNCHANGED job /\ waited' = TRUE
        BY <2>7, <3>1 DEF WaitExit, WaitDone
      <4>2. Service \in {"closed", "drained"} /\ Service' = "drained"
        BY <2>7, <4>1 DEF WaitExit, WaitDone, Service, TaskInv, HandOverInv
      <4>3. QED
        BY <2>6, <3>1, <4>1, <4>2 DEF Jobs!Next, Jobs!Drain
    <3>2. CASE ~AllExited
      <4>1. UNCHANGED <<job, waited>>
        BY <2>7, <3>2, Zenon DEF WaitExit, WaitDone
      <4>2. pool_status # "available" /\ pool_status' # "available"
        BY <2>7, <3>2 DEF WaitExit, WaitDone
      <4>3. QED
        BY <4>1, <4>2 DEF Service
    <3>3. QED
      BY <3>1, <3>2
  <2>8. ASSUME NEW c \in Clients,
               \/ \E t \in Threads, j \in Tasks :
                    SubmitToFree(c, t, j) \/ SubmitToNew(c, t, j)
               \/ Notify(c) \/ SubmitReturn(c) \/ ShutdownReturn(c)
               \/ \E t \in Threads : ShutdownNext(c, t)
               \/ ShutdownRound(c) \/ DestroyPool(c)
        PROVE  Abs
    BY <2>1, <2>8 DEF SubmitToFree, SubmitToNew, Dispatch, Notify, SubmitReturn,
       ShutdownReturn, ShutdownNext, ShutdownRound, DestroyPool
  <2>9. ASSUME NEW t \in Threads, OnRelease(t) \/ ExecutorStep(t) \/ Wakeup(t)
        PROVE  Abs
    BY <2>1, <2>9 DEF OnRelease, ExecutorStep, Wakeup
  <2>10. CASE UNCHANGED vars
    BY <2>1, <2>10 DEF vars
  <2>11. QED
    BY <2>2, <2>3, <2>4, <2>5, <2>7, <2>8, <2>9, <2>10
       DEF Next, NewCall, InCall, Executor
<1>3. QED
  BY <1>1, <1>2, Base, Queues, TasksAreHeld, PTL
     DEF Spec, RunsTasksOnce, Jobs!Spec
=============================================================================
