------------------------ MODULE LineProcessorProofs ------------------------
(***************************************************************************)
(* Theorems about the line processor, for any files and any number of      *)
(* tasks.                                                                  *)
(***************************************************************************)
EXTENDS LineProcessor, FiniteSetTheorems, SequenceTheorems, WellFoundedInduction, TLAPS

Stages == {"none", "submitted", "called", "popping", "resubmitting", "releasing"}

\* The tasks that are there, and those of them that have not submitted the next one.
Busy(tasks) == {t \in Tasks : tasks[t] # "none"}
Reads(tasks) == {t \in Tasks : tasks[t] \in {"submitted", "called", "popping", "resubmitting"}}

StagesOK ==
  /\ main \in {"start", "notified", "running", "shutdown", "done"}
  /\ task \in [Tasks -> Stages]
  /\ refs \in Int

\* One task submits the next one when it has read, the first one is the program's.
ReadsInv ==
  /\ StagesOK
  /\ main = "start" => Busy(task) = {}
  /\ \A t, u \in Reads(task) : t = u

LineInv == ReadsInv /\ ReferencesAreHolders
-----------------------------------------------------------------------------
(* Tasks that come and go.                                                  *)

LEMMA BusyFinite ==
  ASSUME NEW tasks
  PROVE  IsFiniteSet(Busy(tasks)) /\ Cardinality(Busy(tasks)) \in Nat
<1>1. Busy(tasks) \in SUBSET Tasks
  BY DEF Busy
<1>2. IsFiniteSet(Busy(tasks))
  BY <1>1, TasksAssumption, FS_Subset
<1>3. QED
  BY <1>2, FS_CardinalityType

LEMMA TaskComes ==
  ASSUME NEW tasks \in [Tasks -> Stages], NEW t \in Tasks, NEW stage \in Stages \ {"none"}
  PROVE  Cardinality(Busy([tasks EXCEPT ![t] = stage])) =
           Cardinality(Busy(tasks)) + IF tasks[t] = "none" THEN 1 ELSE 0
<1>1. Busy([tasks EXCEPT ![t] = stage]) = Busy(tasks) \cup {t}
  BY DEF Busy
<1>2. t \in Busy(tasks) <=> tasks[t] # "none"
  BY DEF Busy
<1>3. IsFiniteSet(Busy(tasks)) /\ Cardinality(Busy(tasks)) \in Nat
  BY BusyFinite
<1>4. Cardinality(Busy(tasks) \cup {t}) =
        IF t \in Busy(tasks) THEN Cardinality(Busy(tasks)) ELSE Cardinality(Busy(tasks)) + 1
  BY <1>3, FS_AddElement
<1> DEFINE n == Cardinality(Busy(tasks))
           more == Cardinality(Busy([tasks EXCEPT ![t] = stage]))
<1>5. n \in Nat /\ more = IF tasks[t] # "none" THEN n ELSE n + 1
  BY <1>1, <1>2, <1>3, <1>4
<1> HIDE DEF n, more
<1>6. more = n + IF tasks[t] = "none" THEN 1 ELSE 0
  BY <1>5
<1>7. QED
  BY <1>6 DEF n, more

LEMMA TaskGoes ==
  ASSUME NEW tasks \in [Tasks -> Stages], NEW t \in Tasks, tasks[t] # "none"
  PROVE  Cardinality(Busy([tasks EXCEPT ![t] = "none"])) = Cardinality(Busy(tasks)) - 1
<1>1. Busy([tasks EXCEPT ![t] = "none"]) = Busy(tasks) \ {t}
  BY DEF Busy
<1>2. t \in Busy(tasks)
  BY DEF Busy
<1>3. IsFiniteSet(Busy(tasks)) /\ Cardinality(Busy(tasks)) \in Nat
  BY BusyFinite
<1>4. Cardinality(Busy(tasks) \ {t}) =
        IF t \in Busy(tasks) THEN Cardinality(Busy(tasks)) - 1 ELSE Cardinality(Busy(tasks))
  BY <1>3, FS_RemoveElement
<1>5. QED
  BY <1>1, <1>2, <1>4

LEMMA HoldersAre == Holders = Cardinality(Busy(task)) + (IF main = "notified" THEN 1 ELSE 0)
BY DEF Holders, Busy, IsFree
-----------------------------------------------------------------------------
(* One task reads.                                                          *)

LEMMA NextFreeIs ==
  ASSUME \E u \in Tasks : IsFree(u)
  PROVE  NextFree \in Tasks /\ task[NextFree] = "none"
<1>1. \E u \in Tasks : task[u] = "none"
  BY DEF IsFree
<1>2. QED
  BY <1>1 DEF NextFree, IsFree

\* A task goes on to another stage.
LEMMA StageKeeps ==
  ASSUME ReadsInv, NEW t \in Tasks, main' = main, main # "start", NEW stage \in Stages,
         task' = To(t, stage), refs' \in Int,
         stage \in {"submitted", "called", "popping", "resubmitting"} => t \in Reads(task)
  PROVE  ReadsInv'
BY DEF ReadsInv, StagesOK, Reads, To

LEMMA ReadsKept ==
  /\ Init => ReadsInv
  /\ ReadsInv /\ [Next]_vars => ReadsInv'
<1>1. Init => ReadsInv
  BY DEF Init, ReadsInv, StagesOK, Stages, Busy, Reads
<1>2. ASSUME ReadsInv, Next PROVE ReadsInv'
  <2>1. CASE Notify
    <3>1. \E u \in Tasks : IsFree(u)
      BY <1>2, <2>1, TasksAssumption DEF Notify, ReadsInv, Busy, IsFree
    <3>2. NextFree \in Tasks
      BY <3>1, NextFreeIs
    <3>3. main' = "notified" /\ Busy(task) = {} /\ refs' \in Int
          /\ (task' = task \/ task' = [task EXCEPT ![NextFree] = "submitted"])
      BY <1>2, <2>1 DEF Notify, Select, ReadsInv
    <3>4. \A t \in Tasks : task[t] = "none"
      BY <3>3 DEF Busy
    <3>5. task' \in [Tasks -> Stages]
      BY <1>2, <3>2, <3>3 DEF ReadsInv, StagesOK, Stages
    <3>6. \A t, u \in Reads(task') : t = u
      BY <1>2, <3>3, <3>4 DEF Reads, ReadsInv, StagesOK
    <3>7. QED
      BY <3>3, <3>5, <3>6 DEF ReadsInv, StagesOK, Reads
  <2>2. CASE ReleaseFd
    BY <1>2, <2>2 DEF ReleaseFd, ReadsInv, StagesOK, Busy, Reads
  <2>3. CASE Shutdown \/ Exit
    BY <1>2, <2>3 DEF Shutdown, Exit, ReadsInv, StagesOK, Busy, Reads
  <2>4. ASSUME NEW t \in Tasks, Step(t) PROVE ReadsInv'
    <3>1. task[t] # "none" => main # "start"
      BY <1>2 DEF ReadsInv, Busy
    <3>2. CASE Ready(t)
      BY <1>2, <3>1, <3>2, StageKeeps DEF Ready, ReadsInv, StagesOK, Stages, Reads
    <3>3. CASE Read(t)
      BY <1>2, <3>1, <3>3, StageKeeps DEF Read, ReadsInv, StagesOK, Stages, Reads
    <3>4. CASE PopNothing(t)
      BY <1>2, <3>1, <3>4, StageKeeps DEF PopNothing, ReadsInv, StagesOK, Stages, Reads
    <3>5. CASE Pop(t) \/ PopUndefined(t)
      BY <1>2, <3>5 DEF Pop, PopUndefined, ReadsInv, StagesOK, Busy, Reads
    <3>6. CASE ReadFails(t)
      BY <1>2, <3>1, <3>6, StageKeeps DEF ReadFails, ReadsInv, StagesOK, Stages
    <3>7. CASE Resubmit(t)
      <4> DEFINE u == NextFree
      <4>1. u \in Tasks /\ task[u] = "none"
        BY <3>7, NextFreeIs DEF Resubmit
      <4>2. task[t] = "resubmitting" /\ main' = main /\ main # "start" /\ refs' \in Int
            /\ (task' = To(t, "releasing") \/ task' = [To(t, "releasing") EXCEPT ![u] = "submitted"])
        BY <1>2, <3>1, <3>7 DEF Resubmit, Select, ReadsInv, StagesOK
      <4> HIDE DEF u
      <4>3. task' \in [Tasks -> Stages]
        BY <1>2, <4>1, <4>2 DEF ReadsInv, StagesOK, Stages, To
      <4>4. t \in Reads(task) /\ Reads(task) = {t}
        BY <1>2, <4>2 DEF ReadsInv, Reads
      <4>5. Reads(task') \subseteq {u}
        BY <1>2, <4>1, <4>2, <4>4 DEF ReadsInv, StagesOK, Reads, To
      <4>6. QED
        BY <1>2, <4>2, <4>3, <4>5 DEF ReadsInv, StagesOK, Reads
    <3>8. CASE Release(t)
      BY <1>2, <3>1, <3>8, StageKeeps DEF Release, GivesBack, ReadsInv, StagesOK, Stages
    <3>9. QED
      BY <2>4, <3>2, <3>3, <3>4, <3>5, <3>6, <3>7, <3>8 DEF Step, Pops
  <2>5. QED
    BY <1>2, <2>1, <2>2, <2>3, <2>4 DEF Next
<1>3. ReadsInv /\ UNCHANGED vars => ReadsInv'
  BY DEF vars, ReadsInv, StagesOK, Busy, Reads
<1>4. QED
  BY <1>1, <1>2, <1>3

\* The gate is called by one task at a time, which has the gate's buffer to itself
\* without a lock (do_wait_event, read_all_line__exec).
THEOREM BufferHasOneReader == Spec => []OneTaskReads
<1>1. ReadsInv => OneTaskReads
  BY DEF ReadsInv, OneTaskReads, InGate, Reads
<1>2. QED
  BY <1>1, ReadsKept, PTL DEF Spec
-----------------------------------------------------------------------------
(* The references to the descriptor.                                        *)

\* A task goes on and neither takes nor gives a reference.
LEMMA StageHolds ==
  ASSUME LineInv, UNCHANGED <<main, refs, failed>>, Busy(task') = Busy(task)
  PROVE  ReferencesAreHolders'
BY DEF LineInv, ReferencesAreHolders, Holders, Busy, IsFree

\* The references and the tasks grow together.
LEMMA HoldersGrow ==
  ASSUME LineInv, main # "start", UNCHANGED <<main, failed>>, NEW n \in Int,
         refs' = refs + n, Cardinality(Busy(task')) = Cardinality(Busy(task)) + n
  PROVE  ReferencesAreHolders'
<1> DEFINE c == Cardinality(Busy(task))
           h == IF main = "notified" THEN 1 ELSE 0
<1>1. c \in Nat /\ h \in Nat
  BY BusyFinite
<1>2. Holders = c + h
  BY HoldersAre
<1>3. Holders' = Cardinality(Busy(task')) + h
  BY DEF Holders, Busy, IsFree
<1> HIDE DEF h, c
<1>4. Holders' = (c + n) + h
  BY <1>3 DEF c
<1>5. CASE failed
  BY <1>5 DEF ReferencesAreHolders
<1>6. CASE ~failed
  <2>1. refs = 1 + (c + h)
    BY <1>2, <1>6 DEF LineInv, ReferencesAreHolders
  <2>2. refs' = 1 + ((c + n) + h)
    BY <1>1, <2>1
  <2>3. QED
    BY <1>4, <2>2 DEF ReferencesAreHolders
<1>7. QED
  BY <1>5, <1>6

LEMMA LineKept ==
  /\ Init => LineInv
  /\ LineInv /\ [Next]_vars => LineInv'
<1>1. ASSUME Init PROVE LineInv
  <2>1. ReferencesAreHolders
    BY <1>1 DEF Init, ReferencesAreHolders
  <2>2. QED
    BY <1>1, <2>1, ReadsKept DEF LineInv
<1>2. ASSUME LineInv, Next PROVE ReferencesAreHolders'
  <2>0. task \in [Tasks -> Stages] /\ refs \in Int /\ ReadsInv
    BY <1>2 DEF LineInv, ReadsInv, StagesOK
  <2>1. CASE Notify
    <3>1. Busy(task) = {} /\ main = "start" /\ main' = "notified" /\ Select(2, task) /\ UNCHANGED failed
      BY <2>0, <2>1 DEF Notify, ReadsInv
    <3>2. \E u \in Tasks : IsFree(u)
      BY <3>1, TasksAssumption DEF Busy, IsFree
    <3>3. Accepts
      BY <3>1 DEF Accepts
    <3>4. refs' = 3 /\ task' = [task EXCEPT ![NextFree] = "submitted"]
      BY <3>1, <3>3 DEF Select
    <3>5. Cardinality(Busy(task)) = 0
      BY <3>1, FS_EmptySet
    <3>6. Cardinality(Busy(task')) = 1
      <4> DEFINE u == NextFree
      <4>1. u \in Tasks /\ task[u] = "none"
        BY <3>2, NextFreeIs
      <4> HIDE DEF u
      <4>2. Cardinality(Busy([task EXCEPT ![u] = "submitted"])) = Cardinality(Busy(task)) + 1
        BY <2>0, <4>1, TaskComes DEF Stages
      <4>3. QED
        BY <3>4, <3>5, <4>2 DEF u
    <3>7. Holders' = Cardinality(Busy(task')) + 1
      BY <3>1 DEF Holders, Busy, IsFree
    <3>8. QED
      BY <3>1, <3>4, <3>6, <3>7 DEF ReferencesAreHolders
  <2>2. CASE ReleaseFd
    <3>1. main = "notified" /\ main' = "running" /\ refs' = refs - 1 /\ UNCHANGED <<task, failed>>
      BY <2>2 DEF ReleaseFd
    <3> DEFINE c == Cardinality(Busy(task))
    <3>2. Holders = c + 1 /\ Holders' = c + 0 /\ c \in Nat
      BY <3>1, HoldersAre, BusyFinite DEF Holders, Busy, IsFree
    <3> HIDE DEF c
    <3>3. QED
      BY <1>2, <3>1, <3>2 DEF LineInv, ReferencesAreHolders
  <2>3. CASE Shutdown \/ Exit
    <3>1. /\ main \in {"running", "shutdown"} /\ main' \in {"shutdown", "done"}
          /\ UNCHANGED <<task, refs, failed>>
      BY <2>3 DEF Shutdown, Exit
    <3>2. Holders' = Holders
      BY <3>1 DEF Holders, IsFree
    <3>3. QED
      BY <1>2, <3>1, <3>2 DEF LineInv, ReferencesAreHolders
  <2>4. ASSUME NEW t \in Tasks, Step(t) PROVE ReferencesAreHolders'
    <3>1. task[t] # "none" => main # "start"
      BY <2>0 DEF ReadsInv, Busy
    <3>2. CASE Ready(t) \/ Read(t) \/ Pops(t)
      <4>1. Busy(task') = Busy(task)
        BY <2>0, <3>2 DEF Ready, Read, Pops, Pop, PopNothing, PopUndefined, To, Busy
      <4>2. UNCHANGED <<main, refs, failed>>
        BY <3>2 DEF Ready, Read, Pops, Pop, PopNothing, PopUndefined
      <4>3. QED
        BY <1>2, <4>1, <4>2, StageHolds
    <3>3. CASE ReadFails(t)
      BY <3>3 DEF ReadFails, ReferencesAreHolders
    <3>4. CASE Resubmit(t)
      <4> DEFINE u == NextFree
                 next == To(t, "releasing")
      <4>1. u \in Tasks /\ task[u] = "none"
        BY <3>4, NextFreeIs DEF Resubmit
      <4>2. task[t] = "resubmitting" /\ UNCHANGED <<main, failed>> /\ main # "start" /\ Select(refs, next)
        BY <3>1, <3>4 DEF Resubmit
      <4>3. next \in [Tasks -> Stages] /\ next[u] = "none" /\ Cardinality(Busy(next)) = Cardinality(Busy(task))
        <5>1. next \in [Tasks -> Stages]
          BY <2>0 DEF To, Stages
        <5>2. next[u] = "none"
          BY <2>0, <4>1, <4>2 DEF To
        <5>3. Busy(next) = Busy(task)
          BY <2>0, <4>2 DEF To, Busy
        <5>4. QED
          BY <5>1, <5>2, <5>3
      <4> HIDE DEF next
      <4>4. \/ refs' = refs + 1 /\ task' = [next EXCEPT ![u] = "submitted"]
            \/ refs' = refs /\ task' = next
        BY <4>2 DEF Select
      <4> HIDE DEF u
      <4>5. CASE refs' = refs + 1 /\ task' = [next EXCEPT ![u] = "submitted"]
        <5>1. Cardinality(Busy([next EXCEPT ![u] = "submitted"])) = Cardinality(Busy(next)) + 1
          BY <4>1, <4>3, TaskComes DEF Stages
        <5>2. 1 \in Int /\ Cardinality(Busy(task')) = Cardinality(Busy(task)) + 1
          BY <4>3, <4>5, <5>1
        <5>3. QED
          BY <1>2, <4>2, <4>5, <5>2, HoldersGrow
      <4>6. CASE refs' = refs /\ task' = next
        <5>1. 0 \in Int /\ refs' = refs + 0 /\ Cardinality(Busy(task')) = Cardinality(Busy(task)) + 0
          BY <2>0, <4>3, <4>6, BusyFinite
        <5>2. QED
          BY <1>2, <4>2, <5>1, HoldersGrow
      <4>7. QED
        BY <4>4, <4>5, <4>6
    <3>5. CASE Release(t)
      <4>1. task[t] = "releasing" /\ refs' = refs - 1 /\ task' = [task EXCEPT ![t] = "none"]
            /\ UNCHANGED <<main, failed>> /\ main # "start"
        BY <3>1, <3>5 DEF Release, GivesBack, To
      <4>2. Cardinality(Busy(task')) = Cardinality(Busy(task)) - 1
        BY <2>0, <4>1, TaskGoes
      <4>3. -1 \in Int /\ refs' = refs + (-1) /\ Cardinality(Busy(task')) = Cardinality(Busy(task)) + (-1)
        BY <2>0, <4>1, <4>2, BusyFinite
      <4>4. QED
        BY <1>2, <4>1, <4>3, HoldersGrow
    <3>6. QED
      BY <2>4, <3>2, <3>3, <3>4, <3>5 DEF Step
  <2>5. QED
    BY <1>2, <2>1, <2>2, <2>3, <2>4 DEF Next
<1>3. ASSUME LineInv, UNCHANGED vars PROVE ReferencesAreHolders'
  BY <1>3 DEF vars, LineInv, ReferencesAreHolders, Holders, IsFree
<1>4. ASSUME LineInv, [Next]_vars PROVE LineInv'
  <2>1. ReadsInv'
    BY <1>4, ReadsKept DEF LineInv
  <2>2. ReferencesAreHolders'
    BY <1>2, <1>3, <1>4
  <2>3. QED
    BY <2>1, <2>2 DEF LineInv
<1>5. QED
  BY <1>1, <1>4

\* As long as reading works, the references to the descriptor are those of the wire,
\* the creator and the tasks that are there: the last of them frees it, and a refused
\* task leaves none behind (rough_select, do_wait_event).
THEOREM DescriptorHasItsHolders == Spec => []ReferencesAreHolders
<1>1. LineInv => ReferencesAreHolders
  BY DEF LineInv
<1>2. QED
  BY <1>1, LineKept, PTL DEF Spec
-----------------------------------------------------------------------------
(* Texts and their lines.                                                   *)

Characters == STRING \ {NUL}

\* A file whose carriage returns are before a newline.
Text(f) ==
  /\ f \in Seq(Characters)
  /\ \A n \in DOMAIN f : f[n] = "r" => n + 1 \in DOMAIN f /\ f[n + 1] = "n"

Upto(f, n) == {m \in LineEnds(f) : m <= n}

LEMMA TextIs ==
  ASSUME NEW f, Text(f)
  PROVE  /\ f \in Seq(Characters) /\ Len(f) \in Nat /\ DOMAIN f = 1 .. Len(f)
         /\ \A n \in 1 .. Len(f) : f[n] # NUL
         /\ \A n \in 1 .. Len(f) : f[n] = "r" => n + 1 \in 1 .. Len(f) /\ f[n + 1] = "n"
         /\ LineEnds(f) = {n \in 1 .. Len(f) : f[n] = "n"}
         /\ IsFiniteSet(LineEnds(f)) /\ Cardinality(LineEnds(f)) \in Nat
         /\ \A n : IsFiniteSet(Upto(f, n)) /\ Cardinality(Upto(f, n)) \in Nat
<1>1. f \in Seq(Characters) /\ Len(f) \in Nat /\ DOMAIN f = 1 .. Len(f)
  BY DEF Text
<1>2. \A n \in 1 .. Len(f) : f[n] # NUL
  BY <1>1, ElementOfSeq DEF Characters
<1>3. LineEnds(f) = {n \in 1 .. Len(f) : f[n] = "n"}
  BY <1>1 DEF LineEnds
<1>4. LineEnds(f) \in SUBSET (1 .. Len(f))
  BY <1>3
<1>5. IsFiniteSet(1 .. Len(f))
  BY <1>1, FS_Interval
<1>6. IsFiniteSet(LineEnds(f))
  BY <1>4, <1>5, FS_Subset
<1>7. ASSUME NEW n PROVE IsFiniteSet(Upto(f, n))
  <2>1. Upto(f, n) \in SUBSET LineEnds(f)
    BY DEF Upto
  <2>2. QED
    BY <1>6, <2>1, FS_Subset
<1>8. QED
  BY <1>1, <1>2, <1>3, <1>6, <1>7, FS_CardinalityType DEF Text

\* n is the first end of a line behind e, and e is the end of the line before or the
\* beginning of the text.
IsNext(f, e, n) ==
  /\ e \in LineEnds(f) \cup {0} /\ n \in LineEnds(f) /\ e < n
  /\ \A m \in LineEnds(f) : m <= e \/ n <= m

\* The ends of lines are counted in their order.
LEMMA EndsAreOrdered ==
  ASSUME NEW f, Text(f), NEW m \in LineEnds(f), NEW n \in LineEnds(f),
         Cardinality(Upto(f, m)) = Cardinality(Upto(f, n))
  PROVE  m = n
<1>1. \A l \in LineEnds(f) : l \in Nat
  BY TextIs
<1>2. IsFiniteSet(Upto(f, m)) /\ IsFiniteSet(Upto(f, n))
  BY TextIs
<1>3. CASE m <= n
  <2>1. Upto(f, m) \in SUBSET Upto(f, n)
    BY <1>1, <1>3 DEF Upto
  <2>2. Upto(f, m) = Upto(f, n)
    BY <1>2, <2>1, FS_Subset
  <2>3. n \in Upto(f, m)
    BY <1>1, <2>2 DEF Upto
  <2>4. QED
    BY <1>1, <1>3, <2>3 DEF Upto
<1>4. CASE n <= m
  <2>1. Upto(f, n) \in SUBSET Upto(f, m)
    BY <1>1, <1>4 DEF Upto
  <2>2. Upto(f, m) = Upto(f, n)
    BY <1>2, <2>1, FS_Subset
  <2>3. m \in Upto(f, n)
    BY <1>1, <2>2 DEF Upto
  <2>4. QED
    BY <1>1, <1>4, <2>3 DEF Upto
<1>5. QED
  BY <1>1, <1>3, <1>4

LEMMA NextEnd ==
  ASSUME NEW f, Text(f), NEW e, NEW n, IsNext(f, e, n)
  PROVE  LET k == Cardinality(Upto(f, e))
         IN  /\ Cardinality(Upto(f, n)) = k + 1 /\ NthEnd(f, k + 1) = n
             /\ k \in Nat /\ k + 1 <= Cardinality(LineEnds(f))
<1> DEFINE k == Cardinality(Upto(f, e))
<1>1. /\ IsFiniteSet(Upto(f, e)) /\ k \in Nat /\ \A l \in LineEnds(f) : l \in Nat
      /\ IsFiniteSet(LineEnds(f))
  BY TextIs
<1>2. Upto(f, n) = Upto(f, e) \cup {n} /\ n \notin Upto(f, e)
  BY <1>1 DEF Upto, IsNext
<1>3. Cardinality(Upto(f, n)) = k + 1
  BY <1>1, <1>2, FS_AddElement
<1>4. NthEnd(f, k + 1) = n
  <2>1. NthEnd(f, k + 1) = CHOOSE m \in LineEnds(f) : Cardinality(Upto(f, m)) = k + 1
    BY DEF NthEnd, Upto
  <2>2. n \in LineEnds(f)
    BY DEF IsNext
  <2> HIDE DEF k
  <2>3. NthEnd(f, k + 1) \in LineEnds(f) /\ Cardinality(Upto(f, NthEnd(f, k + 1))) = k + 1
    BY <1>3, <2>1, <2>2
  <2>4. QED
    BY <1>3, <2>2, <2>3, EndsAreOrdered
<1>5. k + 1 <= Cardinality(LineEnds(f))
  <2>1. Upto(f, n) \in SUBSET LineEnds(f)
    BY DEF Upto
  <2>2. Cardinality(Upto(f, n)) <= Cardinality(LineEnds(f))
    BY <1>1, <2>1, FS_Subset
  <2>3. QED
    BY <1>3, <2>2
<1>6. QED
  BY <1>1, <1>3, <1>4, <1>5

\* Where the line before the end n ends, without its carriage return.
LastOf(f, e, n) == IF n - 1 > e /\ f[n - 1] = "r" THEN n - 2 ELSE n - 1

LEMMA LineIs ==
  ASSUME NEW f, Text(f), NEW e, NEW n, IsNext(f, e, n)
  PROVE  LineTo(f, n) = SubSeq(f, e + 1, LastOf(f, e, n))
<1> DEFINE before == {m \in LineEnds(f) : m < n}
           greatest == CHOOSE m \in before : \A k \in before : k <= m
           first == IF before = {} THEN 1 ELSE 1 + greatest
           last == IF n > 1 /\ f[n - 1] = "r" THEN n - 2 ELSE n - 1
<1>1. /\ \A l \in LineEnds(f) : l \in Nat \ {0} /\ f[l] = "n"
      /\ e \in LineEnds(f) \cup {0} /\ n \in LineEnds(f) /\ e < n
      /\ \A m \in LineEnds(f) : m <= e \/ n <= m
  BY TextIs DEF IsNext
<1>2. first = e + 1
  <2>1. CASE e = 0
    <3>1. ASSUME NEW m \in LineEnds(f), m < n PROVE FALSE
      <4>1. m \in Nat \ {0} /\ n \in Nat /\ (m <= e \/ n <= m)
        BY <1>1
      <4>2. QED
        BY <2>1, <3>1, <4>1
    <3>2. before = {}
      BY <3>1
    <3> HIDE DEF before, greatest
    <3>3. QED
      BY <2>1, <3>2
  <2>2. CASE e # 0
    <3>1. e \in before /\ \A k \in before : k <= e /\ k \in Nat
      BY <1>1, <2>2
    <3> HIDE DEF before
    <3>2. \A m \in before : (\A k \in before : k <= m) => m = e
      BY <1>1, <3>1
    <3>3. greatest = e
      BY <3>1, <3>2
    <3>4. before # {}
      BY <3>1
    <3> HIDE DEF greatest
    <3>5. e \in Nat /\ 1 + e = e + 1
      BY <1>1
    <3>6. QED
      BY <3>3, <3>4, <3>5
  <2>3. QED
    BY <2>1, <2>2
<1>3. last = LastOf(f, e, n)
  <2>1. CASE n - 1 = e
    <3>1. e # 0 => f[n - 1] = "n"
      BY <1>1, <2>1
    <3>2. QED
      BY <1>1, <2>1, <3>1 DEF LastOf
  <2>2. CASE n - 1 > e
    <3>1. n > 1
      BY <1>1, <2>2
    <3>2. QED
      BY <2>2, <3>1 DEF LastOf
  <2>3. QED
    BY <1>1, <2>1, <2>2
<1>4. LineTo(f, n) = SubSeq(f, first, last)
  BY DEF LineTo
<1> HIDE DEF first, last
<1>5. QED
  BY <1>2, <1>3, <1>4

LEMMA LeastIs ==
  ASSUME NEW S, S \subseteq Nat, S # {}
  PROVE  \E n \in S : \A k \in S : n <= k
<1> DEFINE R == OpToRel(<, Nat)
<1>1. PICK n \in S : \A k \in S : ~(<<k, n>> \in R)
  BY NatLessThanWellFounded, WFMin
<1>2. \A k \in S : ~(k < n)
  BY <1>1 DEF OpToRel
<1>3. QED
  BY <1>2

\* As long as not every line has been popped there is a next one.
LEMMA ThereIsANext ==
  ASSUME NEW f, Text(f), NEW e \in LineEnds(f) \cup {0}, NEW l \in LineEnds(f), e < l
  PROVE  \E n : IsNext(f, e, n)
<1> DEFINE S == {m \in LineEnds(f) : e < m}
<1>1. S \subseteq Nat /\ S # {} /\ \A m \in LineEnds(f) \cup {0} : m \in Nat
  BY TextIs
<1>2. PICK n \in S : \A k \in S : n <= k
  BY <1>1, LeastIs
<1>3. IsNext(f, e, n)
  BY <1>1, <1>2 DEF IsNext
<1>4. QED
  BY <1>3
-----------------------------------------------------------------------------
(* The buffer, when it was read and the lines up to e are popped.           *)

BufferAt(f, e) == [i \in 1 .. Cap + 1 |-> IF e + i <= Len(f) THEN f[e + i] ELSE NUL]

Bytes == Characters \cup {NUL}

LEMMA MemoryIs ==
  ASSUME NEW f, Text(f), NEW e \in 0 .. Len(f), Len(f) < Cap
  PROVE  LET b0 == BufferAt(f, e)
             mem == WithBehind(b0, NUL)
         IN  /\ b0 \in Seq(Bytes) /\ Len(b0) = Cap + 1 /\ mem \in Seq(Bytes) /\ Len(mem) = 2 * Cap + 5
             /\ \A i \in 1 .. Cap + 1 : b0[i] = IF e + i <= Len(f) THEN f[e + i] ELSE NUL
             /\ \A i \in 1 .. 2 * Cap + 5 : mem[i] = IF e + i <= Len(f) THEN f[e + i] ELSE NUL
<1> DEFINE b0 == BufferAt(f, e)
           behind == [i \in 1 .. Cap + 4 |-> NUL]
           mem == b0 \o behind
           L == Len(f)
<1>1. Cap \in Nat \ {0} /\ L \in Nat /\ f \in Seq(Characters)
  BY CapAssumption, TextIs
<1>2. \A i \in 1 .. Cap + 1 : b0[i] = IF e + i <= L THEN f[e + i] ELSE NUL
  BY DEF BufferAt
<1>3. b0 \in Seq(Bytes) /\ Len(b0) = Cap + 1
  <2>1. \A i \in 1 .. Cap + 1 : b0[i] \in Bytes
    <3>1. ASSUME NEW i \in 1 .. Cap + 1, e + i <= L PROVE f[e + i] \in Characters
      <4>1. e + i \in 1 .. L
        BY <1>1, <3>1
      <4>2. QED
        BY <1>1, <4>1, ElementOfSeq
    <3>2. QED
      BY <1>2, <3>1 DEF Bytes
  <2>2. b0 \in [1 .. Cap + 1 -> Bytes]
    BY <2>1 DEF BufferAt
  <2>3. Cap + 1 \in Nat
    BY <1>1
  <2> HIDE DEF b0
  <2>4. QED
    BY <2>2, <2>3
<1>4. behind \in Seq(Bytes) /\ Len(behind) = Cap + 4 /\ \A i \in 1 .. Cap + 4 : behind[i] = NUL
  <2>1. behind \in [1 .. Cap + 4 -> Bytes] /\ \A i \in 1 .. Cap + 4 : behind[i] = NUL
    BY DEF Bytes
  <2>2. Cap + 4 \in Nat
    BY <1>1
  <2> HIDE DEF behind
  <2>3. QED
    BY <2>1, <2>2
<1> HIDE DEF b0, behind
<1>5. /\ mem \in Seq(Bytes) /\ Len(mem) = Len(b0) + Len(behind)
      /\ \A i \in 1 .. Len(b0) + Len(behind) : mem[i] = IF i <= Len(b0) THEN b0[i] ELSE behind[i - Len(b0)]
  BY <1>3, <1>4, ConcatProperties
<1> HIDE DEF mem
<1>6. ASSUME NEW i \in 1 .. 2 * Cap + 5
      PROVE  mem[i] = IF e + i <= L THEN f[e + i] ELSE NUL
  <2>1. i \in 1 .. Len(b0) + Len(behind)
    BY <1>1, <1>3, <1>4
  <2>2. mem[i] = IF i <= Cap + 1 THEN b0[i] ELSE behind[i - (Cap + 1)]
    BY <1>3, <1>5, <2>1
  <2>3. CASE i <= Cap + 1
    <3>1. i \in 1 .. Cap + 1
      BY <1>1, <2>3
    <3>2. QED
      BY <1>2, <2>2, <2>3, <3>1
  <2>4. CASE ~(i <= Cap + 1)
    <3>1. i - (Cap + 1) \in 1 .. Cap + 4 /\ ~(e + i <= L)
      BY <1>1, <2>4
    <3>2. QED
      BY <1>4, <2>2, <2>4, <3>1
  <2>5. QED
    BY <2>3, <2>4
<1>7. Len(mem) = 2 * Cap + 5
  BY <1>1, <1>3, <1>4, <1>5
<1>8. WithBehind(b0, NUL) = mem
  BY DEF WithBehind, mem, behind
<1>9. QED
  BY <1>2, <1>3, <1>5, <1>6, <1>7, <1>8 DEF b0

\* pop_line_from_buffer stops at the ends of the lines that are left.
LEMMA StopsAre ==
  ASSUME NEW f, Text(f), NEW e \in LineEnds(f) \cup {0}, Len(f) < Cap,
         NEW end \in Nat, Len(f) <= end, end <= Cap
  PROVE  LET stops == Stops(WithBehind(BufferAt(f, e), NUL), end)
         IN  /\ \A i \in stops : i \in Nat /\ e + i + 1 \in LineEnds(f)
             /\ \A n \in LineEnds(f) : e < n => n - e - 1 \in stops
<1> DEFINE mem == WithBehind(BufferAt(f, e), NUL)
           stops == Stops(mem, end)
           L == Len(f)
<1>1. /\ L \in Nat /\ e \in 0 .. L /\ Cap \in Nat
      /\ LineEnds(f) = {n \in 1 .. L : f[n] = "n"}
      /\ \A n \in 1 .. L : f[n] = "r" => n + 1 \in 1 .. L /\ f[n + 1] = "n"
  BY TextIs, CapAssumption
<1>2. \A i \in 1 .. 2 * Cap + 5 : mem[i] = IF e + i <= L THEN f[e + i] ELSE NUL
  BY <1>1, MemoryIs
<1>3. stops = {i \in 0 .. end + 1 : (i <= end /\ mem[i + 1] = "n") \/ (i > 0 /\ mem[i] = "r")}
  BY DEF Stops
<1> HIDE DEF mem, stops
<1>4. ASSUME NEW i \in stops PROVE i \in Nat /\ e + i + 1 \in LineEnds(f)
  <2>1. i \in 0 .. end + 1
    BY <1>3
  <2>2. CASE i <= end /\ mem[i + 1] = "n"
    <3>1. i + 1 \in 1 .. 2 * Cap + 5
      BY <1>1, <2>1, <2>2
    <3>2. e + (i + 1) <= L /\ f[e + (i + 1)] = "n"
      BY <1>2, <2>2, <3>1, NulAssumption
    <3>3. e + (i + 1) = e + i + 1 /\ e + i + 1 \in 1 .. L
      BY <1>1, <2>1, <3>2
    <3>4. QED
      BY <1>1, <2>1, <3>2, <3>3
  <2>3. CASE i > 0 /\ mem[i] = "r"
    <3>1. i \in 1 .. 2 * Cap + 5
      BY <1>1, <2>1, <2>3
    <3>2. e + i <= L /\ f[e + i] = "r"
      BY <1>2, <2>3, <3>1, NulAssumption
    <3>3. e + i \in 1 .. L
      BY <1>1, <3>1, <3>2
    <3>4. e + i + 1 \in 1 .. L /\ f[e + i + 1] = "n"
      BY <1>1, <3>2, <3>3
    <3>5. QED
      BY <1>1, <2>1, <3>4
  <2>4. QED
    BY <1>3, <2>2, <2>3
<1>5. ASSUME NEW n \in LineEnds(f), e < n PROVE n - e - 1 \in stops
  <2> DEFINE i == n - e - 1
  <2>1. n \in 1 .. L /\ f[n] = "n"
    BY <1>1
  <2> DEFINE q == i + 1
  <2>2. i \in 0 .. end + 1 /\ i <= end /\ q \in 1 .. 2 * Cap + 5 /\ e + q = n
    BY <1>1, <1>5, <2>1
  <2> HIDE DEF q
  <2>3. mem[i + 1] = "n"
    <3>1. mem[q] = IF e + q <= L THEN f[e + q] ELSE NUL
      BY <1>2, <2>2
    <3>2. e + q <= L
      BY <2>1, <2>2
    <3>3. mem[q] = "n"
      BY <2>1, <2>2, <3>1, <3>2
    <3>4. QED
      BY <3>3 DEF q
  <2> HIDE DEF i
  <2>4. i \in stops
    BY <1>3, <2>2, <2>3
  <2>5. QED
    BY <2>4 DEF i
<1>6. QED
  BY <1>4, <1>5 DEF stops, mem

LEMMA MinIs ==
  ASSUME NEW S, NEW m \in S, S \subseteq Nat, \A i \in S : m <= i
  PROVE  Min(S) = m
<1>1. \A x \in S : (\A y \in S : x <= y) => x = m
  OBVIOUS
<1>2. QED
  BY <1>1 DEF Min

\* What is left moves to the beginning.
LEMMA ShiftedIs ==
  ASSUME NEW f, Text(f), NEW e \in 0 .. Len(f), NEW i \in Nat, e + i + 1 <= Len(f),
         NEW end \in Nat, Len(f) <= end, end < Cap
  PROVE  LET b0 == BufferAt(f, e)
         IN  Shifted(b0, WithBehind(b0, NUL), end, i) = BufferAt(f, e + i + 1)
<1> DEFINE b0 == BufferAt(f, e)
           mem == WithBehind(b0, NUL)
           L == Len(f)
           moved == SubSeq(mem, i + 2, i + 2 + end)
           kept == SubSeq(b0, end + 2, Cap + 1)
<1>1. L \in Nat /\ Cap \in Nat /\ e \in Nat /\ L < Cap
  BY TextIs, CapAssumption
<1>2. /\ b0 \in Seq(Bytes) /\ Len(b0) = Cap + 1 /\ mem \in Seq(Bytes) /\ Len(mem) = 2 * Cap + 5
      /\ \A j \in 1 .. Cap + 1 : b0[j] = IF e + j <= L THEN f[e + j] ELSE NUL
      /\ \A j \in 1 .. 2 * Cap + 5 : mem[j] = IF e + j <= L THEN f[e + j] ELSE NUL
  BY <1>1, MemoryIs
<1> HIDE DEF b0, mem
<1>3. /\ moved \in Seq(Bytes) /\ Len(moved) = end + 1
      /\ \A j \in 1 .. end + 1 : moved[j] = mem[i + 1 + j]
  <2> DEFINE from == i + 2
             to == i + 2 + end
  <2>1. from \in Int /\ to \in Int /\ to - from + 1 = end + 1 /\ from <= to
    OBVIOUS
  <2>2. \A j \in from .. to : j \in 1 .. Len(mem)
    BY <1>1, <1>2
  <2>3. \A j \in from .. to : mem[j] \in Bytes
    BY <1>2, <2>2, ElementOfSeq
  <2>4. \A j \in 1 .. end + 1 : from + j - 1 = i + 1 + j
    OBVIOUS
  <2> HIDE DEF from, to
  <2>5. /\ SubSeq(mem, from, to) \in Seq(Bytes)
        /\ Len(SubSeq(mem, from, to)) = IF from <= to THEN to - from + 1 ELSE 0
        /\ \A j \in 1 .. to - from + 1 : SubSeq(mem, from, to)[j] = mem[from + j - 1]
    BY <2>1, <2>3, SubSeqProperties
  <2>6. QED
    BY <2>1, <2>4, <2>5 DEF from, to
<1>4. /\ kept \in Seq(Bytes) /\ Len(kept) = Cap - end
      /\ \A j \in 1 .. Cap - end : kept[j] = b0[end + 1 + j]
  <2> DEFINE from == end + 2
             to == Cap + 1
  <2>1. from \in Int /\ to \in Int /\ to - from + 1 = Cap - end /\ from <= to
    BY <1>1
  <2>2. \A j \in from .. to : j \in 1 .. Len(b0)
    BY <1>1, <1>2
  <2>3. \A j \in from .. to : b0[j] \in Bytes
    BY <1>2, <2>2, ElementOfSeq
  <2>4. \A j \in 1 .. Cap - end : from + j - 1 = end + 1 + j
    BY <1>1
  <2> HIDE DEF from, to
  <2>5. /\ SubSeq(b0, from, to) \in Seq(Bytes)
        /\ Len(SubSeq(b0, from, to)) = IF from <= to THEN to - from + 1 ELSE 0
        /\ \A j \in 1 .. to - from + 1 : SubSeq(b0, from, to)[j] = b0[from + j - 1]
    BY <2>1, <2>3, SubSeqProperties
  <2>6. QED
    BY <2>1, <2>4, <2>5 DEF from, to
<1>5. Shifted(b0, mem, end, i) = moved \o kept
  BY DEF Shifted
<1> HIDE DEF moved, kept
<1> DEFINE whole == moved \o kept
<1>6. /\ whole \in Seq(Bytes) /\ Len(whole) = Cap + 1
      /\ \A j \in 1 .. Cap + 1 : whole[j] = IF j <= end + 1 THEN moved[j] ELSE kept[j - (end + 1)]
  <2> DEFINE l1 == Len(moved)
             l2 == Len(kept)
  <2>1. l1 = end + 1 /\ l1 + l2 = Cap + 1
    BY <1>1, <1>3, <1>4
  <2>2. moved \in Seq(Bytes) /\ kept \in Seq(Bytes)
    BY <1>3, <1>4
  <2>3. /\ whole \in Seq(Bytes) /\ Len(whole) = l1 + l2
        /\ \A j \in 1 .. l1 + l2 : whole[j] = IF j <= l1 THEN moved[j] ELSE kept[j - l1]
    BY <2>2, ConcatProperties
  <2> HIDE DEF l1, l2, whole
  <2>4. QED
    BY <2>1, <2>3
<1> HIDE DEF whole
<1> DEFINE e1 == e + i + 1
           b1 == BufferAt(f, e1)
<1>7. e1 \in 0 .. L
  BY <1>1
<1>8. /\ b1 \in Seq(Bytes) /\ Len(b1) = Cap + 1
      /\ \A j \in 1 .. Cap + 1 : b1[j] = IF e1 + j <= L THEN f[e1 + j] ELSE NUL
  <2> HIDE DEF e1
  <2>1. QED
    BY <1>1, <1>7, MemoryIs
<1>9. ASSUME NEW j \in 1 .. Cap + 1 PROVE whole[j] = b1[j]
  <2>1. b1[j] = IF e1 + j <= L THEN f[e1 + j] ELSE NUL
    BY <1>8
  <2>2. CASE j <= end + 1
    <3> DEFINE q == i + 1 + j
    <3>1. q \in 1 .. 2 * Cap + 5 /\ e + q = e1 + j /\ j \in 1 .. end + 1
      BY <1>1, <2>2
    <3> HIDE DEF q, e1
    <3>2. whole[j] = mem[q]
      BY <1>3, <1>6, <2>2, <3>1 DEF q
    <3>3. mem[q] = IF e + q <= L THEN f[e + q] ELSE NUL
      BY <1>2, <3>1
    <3>4. QED
      BY <2>1, <3>1, <3>2, <3>3
  <2>3. CASE ~(j <= end + 1)
    <3> DEFINE q == j - (end + 1)
    <3>1. q \in 1 .. Cap - end /\ end + 1 + q = j /\ ~(e + j <= L) /\ ~(e1 + j <= L)
      BY <1>1, <2>3
    <3> HIDE DEF q, e1
    <3>2. whole[j] = kept[q]
      BY <1>6, <2>3 DEF q
    <3>3. kept[q] = b0[j]
      BY <1>4, <3>1
    <3>4. QED
      BY <1>2, <2>1, <3>1, <3>2, <3>3
  <2>4. QED
    BY <2>2, <2>3
<1>10. whole = b1
  BY <1>6, <1>8, <1>9, SeqEqual
<1>11. QED
  BY <1>5, <1>10 DEF whole, b0, mem

\* The C string ends behind the line.
LEMMA NulIs ==
  ASSUME NEW mem \in Seq(Bytes), NEW len \in Nat, \A p \in 1 .. len : mem[p] # NUL
  PROVE  SelectInSeq(mem, LAMBDA c : c = NUL) \notin 1 .. len
<1> DEFINE I == {i \in 1 .. Len(mem) : mem[i] = NUL}
<1>1. SelectInSeq(mem, LAMBDA c : c = NUL) = IF I # {} THEN Min(I) ELSE 0
  BY DEF SelectInSeq
<1>2. CASE I = {}
  BY <1>1, <1>2
<1>3. CASE I # {}
  <2>1. I \subseteq Nat /\ \A i \in I : mem[i] = NUL
    OBVIOUS
  <2> HIDE DEF I
  <2>2. PICK m \in I : \A k \in I : m <= k
    BY <1>3, <2>1, LeastIs
  <2>3. Min(I) = m
    BY <2>1, <2>2, MinIs
  <2>4. QED
    BY <1>1, <1>3, <2>1, <2>3
<1>4. QED
  BY <1>2, <1>3

\* A pop gives the next line and leaves what is behind it.
LEMMA PopIs ==
  ASSUME NEW f, Text(f), NEW e, NEW n, IsNext(f, e, n),
         NEW end \in Nat, Len(f) <= end, end < Cap
  PROVE  LET b0 == BufferAt(f, e)
         IN  /\ HasLine(b0, end, NUL) /\ ~PopIsUndefined(b0, end, NUL)
             /\ PopLine(b0, end, NUL) = [line |-> LineTo(f, n), b |-> BufferAt(f, n)]
<1> DEFINE b0 == BufferAt(f, e)
           mem == WithBehind(b0, NUL)
           stops == Stops(mem, end)
           L == Len(f)
           i == n - e - 1
           len == IF i > 0 /\ mem[i] = "r" THEN i - 1 ELSE i
           nul == SelectInSeq(mem, LAMBDA c : c = NUL)
<1>1. /\ L \in Nat /\ Cap \in Nat /\ e \in 0 .. L /\ n \in 1 .. L /\ e < n /\ L < Cap
      /\ e \in LineEnds(f) \cup {0} /\ n \in LineEnds(f)
      /\ \A m \in LineEnds(f) : m \in Nat /\ (m <= e \/ n <= m)
      /\ \A p \in 1 .. L : f[p] # NUL
      /\ f \in Seq(Characters)
  BY TextIs, CapAssumption DEF IsNext
<1>2. /\ mem \in Seq(Bytes)
      /\ \A j \in 1 .. 2 * Cap + 5 : mem[j] = IF e + j <= L THEN f[e + j] ELSE NUL
  BY <1>1, MemoryIs
<1>3. /\ \A k \in stops : k \in Nat /\ e + k + 1 \in LineEnds(f)
      /\ \A m \in LineEnds(f) : e < m => m - e - 1 \in stops
  <2>1. end <= Cap
    BY <1>1
  <2>2. QED
    BY <1>1, <2>1, StopsAre
<1> HIDE DEF mem, stops
<1>4. i \in stops /\ i \in Nat /\ e + i + 1 = n
  BY <1>1, <1>3
<1>5. \A k \in stops : i <= k
  <2>1. ASSUME NEW k \in stops PROVE i <= k
    <3>1. k \in Nat /\ e + k + 1 \in LineEnds(f)
      BY <1>3
    <3>2. e + k + 1 <= e \/ n <= e + k + 1
      BY <1>1, <3>1
    <3>3. QED
      BY <1>1, <3>1, <3>2
  <2>2. QED
    BY <2>1
<1>6. Min(stops) = i
  <2>1. stops \subseteq Nat
    BY <1>3
  <2> HIDE DEF i
  <2>2. QED
    BY <1>4, <1>5, <2>1, MinIs
<1> HIDE DEF i
<1>7. HasLine(b0, end, NUL) /\ ~PopIsUndefined(b0, end, NUL)
  <2>1. stops # {} /\ ~(end > Cap)
    BY <1>1, <1>4
  <2>2. QED
    BY <2>1 DEF HasLine, PopIsUndefined, stops, mem
<1>8. len \in Nat /\ e + len = LastOf(f, e, n)
  <2>1. CASE i = 0
    <3>1. n - 1 = e /\ len = 0
      BY <1>1, <1>4, <2>1
    <3>2. LastOf(f, e, n) = n - 1
      BY <1>1, <3>1 DEF LastOf
    <3>3. QED
      BY <1>1, <3>1, <3>2
  <2>2. CASE i > 0
    <3>1. i \in 1 .. 2 * Cap + 5 /\ e + i <= L /\ e + i = n - 1 /\ n - 1 > e
      BY <1>1, <1>4, <2>2
    <3>2. mem[i] = f[n - 1]
      BY <1>2, <3>1
    <3>3. CASE f[n - 1] = "r"
      <4>1. len = i - 1 /\ LastOf(f, e, n) = n - 2
        BY <2>2, <3>1, <3>2, <3>3 DEF LastOf
      <4>2. QED
        BY <1>1, <1>4, <2>2, <4>1
    <3>4. CASE f[n - 1] # "r"
      <4>1. len = i /\ LastOf(f, e, n) = n - 1
        BY <3>2, <3>4 DEF LastOf
      <4>2. QED
        BY <1>1, <1>4, <4>1
    <3>5. QED
      BY <3>3, <3>4
  <2>3. QED
    BY <1>4, <2>1, <2>2
<1>9. len <= i
  BY <1>4
<1> HIDE DEF len
<1>10. \A p \in 1 .. len : e + p \in 1 .. L /\ mem[p] = f[e + p]
  <2>1. ASSUME NEW p \in 1 .. len PROVE e + p \in 1 .. L /\ mem[p] = f[e + p]
    <3>1. p \in 1 .. 2 * Cap + 5 /\ e + p <= L /\ e + p \in 1 .. L
      BY <1>1, <1>4, <1>8, <1>9
    <3>2. QED
      BY <1>2, <3>1
  <2>2. QED
    BY <2>1
<1>11. nul \notin 1 .. len
  <2>1. \A p \in 1 .. len : mem[p] # NUL
    BY <1>1, <1>10
  <2>2. QED
    BY <1>2, <1>8, <2>1, NulIs
<1> HIDE DEF nul
<1>12. SubSeq(mem, 1, len) = SubSeq(f, e + 1, e + len)
  <2> DEFINE s == SubSeq(mem, 1, len)
             from == e + 1
             to == e + len
             t == SubSeq(f, from, to)
  <2>1. \A p \in 1 .. len : mem[p] \in Bytes
    <3>1. ASSUME NEW p \in 1 .. len PROVE mem[p] \in Bytes
      <4>1. e + p \in 1 .. L /\ mem[p] = f[e + p]
        BY <1>10
      <4>2. QED
        BY <1>1, <4>1, ElementOfSeq DEF Bytes
    <3>2. QED
      BY <3>1
  <2>2. s \in Seq(Bytes) /\ Len(s) = len /\ \A p \in 1 .. len : s[p] = mem[p]
    <3>1. 1 \in Int /\ len \in Int /\ len - 1 + 1 = len /\ len = IF 1 <= len THEN len - 1 + 1 ELSE 0
      BY <1>8
    <3>2. /\ SubSeq(mem, 1, len) \in Seq(Bytes)
          /\ Len(SubSeq(mem, 1, len)) = IF 1 <= len THEN len - 1 + 1 ELSE 0
          /\ \A p \in 1 .. len - 1 + 1 : SubSeq(mem, 1, len)[p] = mem[1 + p - 1]
      BY <2>1, <3>1, SubSeqProperties
    <3>3. \A p \in 1 .. len : 1 + p - 1 = p
      OBVIOUS
    <3> HIDE DEF s
    <3>4. QED
      BY <3>1, <3>2, <3>3 DEF s
  <2>3. /\ from \in Int /\ to \in Int /\ to - from + 1 = len
        /\ len = IF from <= to THEN to - from + 1 ELSE 0
    BY <1>1, <1>8
  <2>4. \A p \in from .. to : f[p] \in Bytes
    <3>1. ASSUME NEW p \in from .. to PROVE f[p] \in Bytes
      <4>1. p \in 1 .. L
        BY <1>1, <1>4, <1>8, <1>9, <3>1
      <4>2. QED
        BY <1>1, <4>1, ElementOfSeq DEF Bytes
    <3>2. QED
      BY <3>1
  <2>5. t \in Seq(Bytes) /\ Len(t) = len /\ \A p \in 1 .. len : t[p] = f[e + p]
    <3>1. \A p \in 1 .. len : from + p - 1 = e + p
      BY <1>1
    <3> HIDE DEF from, to
    <3>2. /\ SubSeq(f, from, to) \in Seq(Bytes)
          /\ Len(SubSeq(f, from, to)) = IF from <= to THEN to - from + 1 ELSE 0
          /\ \A p \in 1 .. to - from + 1 : SubSeq(f, from, to)[p] = f[from + p - 1]
      BY <2>3, <2>4, SubSeqProperties
    <3>3. QED
      BY <2>3, <3>1, <3>2
  <2> HIDE DEF s, t
  <2>6. \A p \in 1 .. len : s[p] = t[p]
    BY <1>10, <2>2, <2>5
  <2>7. s = t
    BY <2>2, <2>5, <2>6, SeqEqual
  <2>8. QED
    BY <2>7 DEF s, t, from, to
<1>13. SubSeq(mem, 1, IF nul \in 1 .. len THEN nul - 1 ELSE len) = LineTo(f, n)
  BY <1>8, <1>11, <1>12, LineIs
<1>14. Shifted(b0, mem, end, i) = BufferAt(f, n)
  <2>1. e + i + 1 <= Len(f)
    BY <1>1, <1>4
  <2>2. Shifted(b0, mem, end, i) = BufferAt(f, e + i + 1)
    BY <1>1, <1>4, <2>1, ShiftedIs DEF mem
  <2>3. QED
    BY <1>4, <2>2
<1>15. PopLine(b0, end, NUL) =
         [line |-> SubSeq(mem, 1, IF nul \in 1 .. len THEN nul - 1 ELSE len),
          b |-> Shifted(b0, mem, end, i)]
  <2>1. PopLine(b0, end, NUL) =
          LET at == Min(stops)
              l == IF at > 0 /\ mem[at] = "r" THEN at - 1 ELSE at
          IN  [line |-> SubSeq(mem, 1, IF nul \in 1 .. l THEN nul - 1 ELSE l),
               b |-> Shifted(b0, mem, end, at)]
    BY DEF PopLine, stops, mem, nul
  <2>2. QED
    BY <1>6, <2>1 DEF len
<1>16. QED
  BY <1>7, <1>13, <1>14, <1>15
-----------------------------------------------------------------------------
(* The file is read at once.                                                *)

Erased == [i \in 1 .. Cap + 1 |-> NUL]

LEMMA WholeFile ==
  ASSUME NEW f, Text(f), Len(f) < Cap
  PROVE  /\ SubSeq(f, 1, Len(f)) = f /\ Available(0, f) = Len(f)
         /\ WithRead(Erased, 0, f) = BufferAt(f, 0)
<1> DEFINE L == Len(f)
           left == SubSeq(Erased, L + 1, Cap + 1)
<1>1. /\ L \in Nat /\ Cap \in Nat \ {0} /\ f \in Seq(Characters)
      /\ f \in Seq(Bytes) /\ Cap + 1 \in Nat
  BY TextIs, CapAssumption DEF Bytes
<1>2. SubSeq(f, 1, L) = f
  BY <1>1, SubSeqFull
<1>3. Available(0, f) = L
  <2> DEFINE S == {Cap, L}
  <2>1. S \subseteq Nat /\ L \in S /\ \A i \in S : L <= i
    BY <1>1
  <2>2. Min(S) = L
    <3> HIDE DEF S
    <3>1. QED
      BY <2>1, MinIs
  <2>3. Cap - 0 = Cap /\ ~(Cap - 0 <= 0)
    BY <1>1
  <2>4. QED
    BY <2>2, <2>3 DEF Available
<1>4. Erased \in Seq(Bytes) /\ Len(Erased) = Cap + 1 /\ \A i \in 1 .. Cap + 1 : Erased[i] = NUL
  <2>1. Erased \in [1 .. Cap + 1 -> Bytes] /\ \A i \in 1 .. Cap + 1 : Erased[i] = NUL
    BY DEF Erased, Bytes
  <2>2. QED
    BY <1>1, <2>1
<1>5. /\ BufferAt(f, 0) \in Seq(Bytes) /\ Len(BufferAt(f, 0)) = Cap + 1
      /\ \A i \in 1 .. Cap + 1 : BufferAt(f, 0)[i] = IF i <= L THEN f[i] ELSE NUL
  <2>1. 0 \in 0 .. L /\ \A i \in 1 .. Cap + 1 : 0 + i = i
    BY <1>1
  <2> DEFINE b0 == BufferAt(f, 0)
  <2>2. /\ b0 \in Seq(Bytes) /\ Len(b0) = Cap + 1
        /\ \A i \in 1 .. Cap + 1 : b0[i] = IF 0 + i <= Len(f) THEN f[0 + i] ELSE NUL
    BY <1>1, <2>1, MemoryIs
  <2>3. QED
    BY <2>1, <2>2
<1>6. CASE f = <<>>
  <2>1. L = 0
    BY <1>6
  <2>2. \A i \in 1 .. Cap + 1 : Erased[i] = BufferAt(f, 0)[i]
    BY <1>4, <1>5, <2>1
  <2>3. Erased = BufferAt(f, 0)
    BY <1>4, <1>5, <2>2, SeqEqual
  <2>4. QED
    BY <1>2, <1>3, <1>6, <2>3 DEF WithRead
<1>7. CASE f # <<>>
  <2>1. /\ left \in Seq(Bytes) /\ Len(left) = Cap + 1 - L
        /\ \A i \in 1 .. Cap + 1 - L : left[i] = NUL
    <3> DEFINE from == L + 1
               to == Cap + 1
    <3>1. from \in Int /\ to \in Int /\ to - from + 1 = Cap + 1 - L /\ from <= to
      BY <1>1
    <3>2. \A i \in from .. to : i \in 1 .. Cap + 1
      BY <1>1
    <3>3. \A i \in from .. to : Erased[i] \in Bytes
      BY <1>4, <3>2 DEF Bytes
    <3>4. \A i \in 1 .. Cap + 1 - L : from + i - 1 \in 1 .. Cap + 1
      BY <1>1
    <3> HIDE DEF from, to
    <3>5. /\ SubSeq(Erased, from, to) \in Seq(Bytes)
          /\ Len(SubSeq(Erased, from, to)) = IF from <= to THEN to - from + 1 ELSE 0
          /\ \A i \in 1 .. to - from + 1 : SubSeq(Erased, from, to)[i] = Erased[from + i - 1]
      BY <3>1, <3>3, SubSeqProperties
    <3>6. QED
      BY <1>4, <3>1, <3>4, <3>5 DEF from, to
  <2>2. WithRead(Erased, 0, f) = f \o left
    <3>1. SubSeq(Erased, 1, 0) = <<>>
      BY SubSeqEmpty
    <3>2. <<>> \o f = f
      BY <1>1, ConcatEmptySeq
    <3>3. 0 + L + 1 = L + 1
      BY <1>1
    <3>4. QED
      BY <1>7, <3>1, <3>2, <3>3 DEF WithRead
  <2> HIDE DEF left
  <2> DEFINE l2 == Len(left)
             whole == f \o left
  <2>3. /\ whole \in Seq(Bytes) /\ Len(whole) = L + l2
        /\ \A i \in 1 .. L + l2 : whole[i] = IF i <= L THEN f[i] ELSE left[i - L]
    BY <1>1, <2>1, ConcatProperties
  <2>4. L + l2 = Cap + 1 /\ l2 = Cap + 1 - L
    BY <1>1, <2>1
  <2> HIDE DEF l2, whole
  <2>5. ASSUME NEW i \in 1 .. Cap + 1 PROVE whole[i] = BufferAt(f, 0)[i]
    <3>1. whole[i] = IF i <= L THEN f[i] ELSE left[i - L]
      BY <2>3, <2>4
    <3>2. ~(i <= L) => i - L \in 1 .. Cap + 1 - L
      BY <1>1
    <3>3. whole[i] = IF i <= L THEN f[i] ELSE NUL
      BY <2>1, <3>1, <3>2
    <3>4. QED
      BY <1>5, <3>3
  <2>6. whole = BufferAt(f, 0)
    BY <1>5, <2>3, <2>4, <2>5, SeqEqual
  <2>7. QED
    BY <1>2, <1>3, <2>2, <2>6 DEF whole
<1>8. QED
  BY <1>6, <1>7

LEMMA NothingLeft ==
  ASSUME NEW f, Text(f), NEW end \in Nat, end < Cap, NEW buffer
  PROVE  LET rest == SubSeq(f, Len(f) + 1, Len(f))
         IN  rest = <<>> /\ Available(end, rest) = 0 /\ WithRead(buffer, end, SubSeq(rest, 1, 0)) = buffer
<1>1. Len(f) \in Nat /\ Cap \in Nat
  BY TextIs, CapAssumption
<1>2. SubSeq(f, Len(f) + 1, Len(f)) = <<>>
  BY <1>1, SubSeqEmpty
<1>3. Available(end, <<>>) = 0
  <2> DEFINE room == Cap - end
             S == {room, 0}
  <2>1. room \in Nat /\ ~(room <= 0)
    BY <1>1
  <2>2. S \subseteq Nat /\ 0 \in S /\ \A i \in S : 0 <= i
    BY <2>1
  <2>3. Min(S) = 0
    <3> HIDE DEF S
    <3>1. QED
      BY <2>2, MinIs
  <2>4. Available(end, <<>>) = Min({room, Len(<<>>)})
    BY <2>1 DEF Available
  <2>5. QED
    BY <2>3, <2>4
<1>4. SubSeq(<<>>, 1, 0) = <<>>
  BY SubSeqEmpty
<1>5. QED
  BY <1>2, <1>3, <1>4 DEF WithRead
-----------------------------------------------------------------------------
(* Every line is printed.                                                   *)

NotRead ==
  /\ taken = 0 /\ ep = 0 /\ printed = <<>> /\ b = Erased
  /\ \A t \in Tasks : task[t] \in {"none", "submitted", "called"}

PoppedTo(e) ==
  /\ e \in LineEnds(file) \cup {0}
  /\ Len(printed) = Cardinality(Upto(file, e))
  /\ ep = Len(file) + Len(printed)
  /\ b = BufferAt(file, e)

LinesIn(f) == {LinesOf(f)[k] : k \in 1 .. Cardinality(LineEnds(f))}

FirstLines ==
  /\ printed \in Seq(LinesIn(file))
  /\ Len(printed) <= Cardinality(LineEnds(file))
  /\ \A k \in 1 .. Len(printed) : printed[k] = LinesOf(file)[k]

AllAreOut ==
  \A t \in Tasks : task[t] \in {"resubmitting", "releasing"} => Len(printed) = Cardinality(LineEnds(file))

WasRead ==
  /\ taken = Len(file)
  /\ \E e \in LineEnds(file) \cup {0} : PoppedTo(e)
  /\ FirstLines
  /\ AllAreOut

PrintInv ==
  FitsBuffer /\ junk = NUL => ~broken /\ Text(file) /\ (NotRead \/ WasRead)

LEMMA LinesAre ==
  ASSUME NEW f, Text(f)
  PROVE  /\ LinesOf(f) \in Seq(LinesIn(f)) /\ Len(LinesOf(f)) = Cardinality(LineEnds(f))
         /\ \A k \in 1 .. Cardinality(LineEnds(f)) :
              LinesOf(f)[k] = Replaced(LineTo(f, NthEnd(f, k))) /\ LinesOf(f)[k] \in LinesIn(f)
<1> DEFINE N == Cardinality(LineEnds(f))
<1>1. N \in Nat
  BY TextIs
<1>2. \A k \in 1 .. N : LinesOf(f)[k] = Replaced(LineTo(f, NthEnd(f, k))) /\ LinesOf(f)[k] \in LinesIn(f)
  BY DEF LinesOf, LinesIn
<1>3. LinesOf(f) \in [1 .. N -> LinesIn(f)]
  BY DEF LinesOf, LinesIn
<1> HIDE DEF N
<1>4. LinesOf(f) \in Seq(LinesIn(f)) /\ Len(LinesOf(f)) = N
  BY <1>1, <1>3
<1>5. QED
  BY <1>2, <1>4 DEF N

LEMMA AllPrinted ==
  ASSUME Text(file), FirstLines
  PROVE  /\ IsPrefix(printed, LinesOf(file))
         /\ Len(printed) = Cardinality(LineEnds(file)) => printed = LinesOf(file)
<1> DEFINE S == LinesIn(file)
           lines == LinesOf(file)
           n == Len(printed)
<1>1. /\ lines \in Seq(S) /\ printed \in Seq(S) /\ n \in Nat /\ Len(lines) \in Nat
      /\ Len(lines) = Cardinality(LineEnds(file)) /\ n <= Len(lines)
      /\ \A k \in 1 .. n : printed[k] = lines[k]
  BY LinesAre DEF FirstLines
<1> HIDE DEF S, lines, n
<1>2. n = Len(lines) => printed = lines
  BY <1>1, SeqEqual DEF n
<1>3. SubSeq(printed, 1, n) = printed
  BY <1>1, SubSeqFull DEF n
<1>4. SubSeq(lines, 1, n) = printed
  <2> DEFINE first == SubSeq(lines, 1, n)
  <2>1. \A k \in 1 .. n : lines[k] \in S
    <3>1. ASSUME NEW k \in 1 .. n PROVE lines[k] \in S
      <4>1. k \in 1 .. Len(lines)
        BY <1>1
      <4>2. QED
        BY <1>1, <4>1, ElementOfSeq
    <3>2. QED
      BY <3>1
  <2>2. /\ first \in Seq(S) /\ Len(first) = IF 1 <= n THEN n - 1 + 1 ELSE 0
        /\ \A k \in 1 .. n - 1 + 1 : first[k] = lines[1 + k - 1]
    BY <1>1, <2>1, SubSeqProperties
  <2> HIDE DEF first
  <2>3. Len(first) = n /\ \A k \in 1 .. n : first[k] = printed[k]
    BY <1>1, <2>2
  <2>4. first = printed
    BY <1>1, <2>2, <2>3, SeqEqual DEF n
  <2>5. QED
    BY <2>4 DEF first
<1>5. IsPrefix(printed, lines)
  BY <1>1, <1>3, <1>4 DEF IsPrefix, n
<1>6. QED
  BY <1>1, <1>2, <1>5 DEF n, lines

\* What the gate has is left alone, and no task is done that was not.
LEMMA GateIsLeft ==
  ASSUME PrintInv, UNCHANGED <<file, junk, b, ep, taken, printed, broken>>,
         \A t \in Tasks : \/ task'[t] \in {"none", "submitted", "called"} \/ task'[t] = task[t]
                          \/ task[t] = "resubmitting" /\ task'[t] = "releasing"
  PROVE  PrintInv'
<1> SUFFICES ASSUME (FitsBuffer /\ junk = NUL)'
             PROVE  (~broken /\ Text(file) /\ (NotRead \/ WasRead))'
  BY DEF PrintInv
<1>1. ~broken /\ Text(file) /\ (NotRead \/ WasRead)
  BY DEF PrintInv, FitsBuffer
<1>2. CASE NotRead
  <2>1. ASSUME NEW t \in Tasks PROVE task'[t] \in {"none", "submitted", "called"}
    <3>1. task[t] \in {"none", "submitted", "called"}
      BY <1>2 DEF NotRead
    <3>2. QED
      BY <3>1
  <2>2. NotRead'
    BY <1>2, <2>1 DEF NotRead, Erased
  <2>3. QED
    BY <1>1, <2>2
<1>3. CASE WasRead
  <2>1. FirstLines'
    BY <1>3 DEF WasRead, FirstLines
  <2>2. AllAreOut'
    BY <1>3 DEF WasRead, AllAreOut
  <2>3. (\E e \in LineEnds(file) \cup {0} : PoppedTo(e))'
    BY <1>3 DEF WasRead, PoppedTo
  <2>4. WasRead'
    BY <1>3, <2>1, <2>2, <2>3 DEF WasRead
  <2>5. QED
    BY <1>1, <2>4
<1>4. QED
  BY <1>1, <1>2, <1>3

\* Where a pop finds the buffer.
LEMMA PoppedIs ==
  ASSUME FitsBuffer, Text(file), FirstLines, NEW e, PoppedTo(e)
  PROVE  /\ ep \in Nat /\ Len(file) <= ep /\ ep < Cap /\ Len(file) < Cap
         /\ Len(printed) \in Nat
         /\ \/ /\ \E n : IsNext(file, e, n)
               /\ HasLine(b, ep, NUL) /\ ~PopIsUndefined(b, ep, NUL)
               /\ Len(printed) + 1 <= Cardinality(LineEnds(file))
            \/ /\ ~HasLine(b, ep, NUL) /\ ~PopIsUndefined(b, ep, NUL)
               /\ Len(printed) = Cardinality(LineEnds(file))
<1> DEFINE L == Len(file)
           N == Cardinality(LineEnds(file))
           k == Len(printed)
<1>1. /\ L \in Nat /\ N \in Nat /\ k \in Nat /\ Cap \in Nat /\ L + N < Cap /\ k <= N
      /\ ep = L + k /\ b = BufferAt(file, e) /\ e \in LineEnds(file) \cup {0}
      /\ k = Cardinality(Upto(file, e))
  BY TextIs, CapAssumption DEF FitsBuffer, FirstLines, PoppedTo
<1> HIDE DEF L, N, k
<1>2. ep \in Nat /\ L <= ep /\ ep < Cap /\ L < Cap /\ ep <= Cap
  BY <1>1
<1>3. CASE \E n : IsNext(file, e, n)
  <2>1. PICK n : IsNext(file, e, n)
    BY <1>3
  <2>2. HasLine(b, ep, NUL) /\ ~PopIsUndefined(b, ep, NUL)
    BY <1>1, <1>2, <2>1, PopIs DEF L
  <2>3. k + 1 <= N
    BY <1>1, <2>1, NextEnd DEF N
  <2>4. QED
    BY <1>1, <1>2, <2>1, <2>2, <2>3 DEF L, N, k
<1>4. CASE ~\E n : IsNext(file, e, n)
  <2>1. \A l \in LineEnds(file) : ~(e < l)
    BY <1>1, <1>4, ThereIsANext
  <2>2. \A l \in LineEnds(file) \cup {0} : l \in Nat
    BY TextIs
  <2> DEFINE stops == Stops(WithBehind(BufferAt(file, e), NUL), ep)
  <2>3. \A i \in stops : i \in Nat /\ e + i + 1 \in LineEnds(file)
    BY <1>1, <1>2, StopsAre DEF L
  <2>4. ASSUME NEW i \in stops PROVE FALSE
    <3>1. i \in Nat /\ e + i + 1 \in LineEnds(file)
      BY <2>3
    <3>2. ~(e < e + i + 1) /\ e \in Nat
      BY <1>1, <2>1, <2>2, <3>1
    <3>3. QED
      BY <3>1, <3>2
  <2>5. stops = {}
    BY <2>4
  <2>6. ~HasLine(b, ep, NUL) /\ ~PopIsUndefined(b, ep, NUL)
    BY <1>1, <1>2, <2>5 DEF HasLine, PopIsUndefined
  <2>7. Upto(file, e) = LineEnds(file)
    BY <1>1, <2>1, <2>2 DEF Upto
  <2>8. k = N
    BY <1>1, <2>7 DEF N
  <2>9. QED
    BY <1>1, <1>2, <2>6, <2>8 DEF L, N, k
<1>5. QED
  BY <1>3, <1>4

\* The first read takes the file, the ones behind it nothing.
LEMMA ReadKeeps ==
  ASSUME ReadsInv, PrintInv, FitsBuffer, junk = NUL, NEW t \in Tasks, Read(t)
  PROVE  PrintInv'
<1> DEFINE rest == SubSeq(file, taken + 1, Len(file))
           n == Available(ep, rest)
<1>1. /\ task \in [Tasks -> Stages] /\ task[t] = "called" /\ task' = [task EXCEPT ![t] = "popping"]
      /\ taken' = taken + n /\ b' = WithRead(b, ep, SubSeq(rest, 1, n)) /\ ep' = ep + n
      /\ UNCHANGED <<file, junk, printed, broken>>
  BY DEF ReadsInv, StagesOK, Read, To
<1>2. ~broken /\ Text(file) /\ (NotRead \/ WasRead)
  BY DEF PrintInv
<1> HIDE DEF n
<1>3. /\ Len(file) \in Nat /\ Cardinality(LineEnds(file)) \in Nat /\ Cap \in Nat
      /\ Len(file) + Cardinality(LineEnds(file)) < Cap
  BY <1>2, TextIs, CapAssumption DEF FitsBuffer
<1>4. CASE NotRead
  <2>1. taken = 0 /\ ep = 0 /\ printed = <<>> /\ b = Erased
    BY <1>4 DEF NotRead
  <2>2. Len(file) < Cap
    BY <1>3
  <2>3. /\ SubSeq(file, 1, Len(file)) = file /\ Available(0, file) = Len(file)
        /\ WithRead(Erased, 0, file) = BufferAt(file, 0)
    BY <1>2, <2>2, WholeFile
  <2>4. taken + 1 = 1 /\ rest = file
    BY <2>1, <2>3
  <2>5. n = Len(file)
    BY <2>1, <2>3, <2>4 DEF n
  <2>6. taken' = Len(file) /\ ep' = Len(file) /\ b' = BufferAt(file, 0)
    <3>1. b' = WithRead(Erased, 0, file)
      BY <1>1, <2>1, <2>3, <2>4, <2>5
    <3>2. QED
      BY <1>1, <1>3, <2>1, <2>3, <2>5, <3>1
  <2>7. Cardinality(Upto(file, 0)) = 0
    <3>1. Upto(file, 0) = {}
      BY <1>2, <1>3, TextIs DEF Upto
    <3>2. QED
      BY <3>1, FS_EmptySet
  <2>8. Len(<<>>) = 0 /\ <<>> \in Seq(LinesIn(file))
    OBVIOUS
  <2>9. PoppedTo(0)'
    BY <1>1, <1>3, <2>1, <2>6, <2>7, <2>8 DEF PoppedTo
  <2>10. FirstLines'
    BY <1>1, <1>3, <2>1, <2>8 DEF FirstLines
  <2>11. AllAreOut'
    BY <1>1, <1>4 DEF NotRead, AllAreOut
  <2>12. (\E e \in LineEnds(file) \cup {0} : PoppedTo(e))'
    BY <2>9
  <2>13. WasRead'
    BY <1>1, <2>6, <2>10, <2>11, <2>12 DEF WasRead
  <2>14. QED
    BY <1>1, <1>2, <2>13 DEF PrintInv
<1>5. CASE WasRead
  <2>1. PICK e \in LineEnds(file) \cup {0} : PoppedTo(e)
    BY <1>5 DEF WasRead
  <2>2. ep \in Nat /\ ep < Cap
    BY <1>2, <1>5, <2>1, PoppedIs DEF WasRead
  <2>3. taken = Len(file) /\ rest = SubSeq(file, Len(file) + 1, Len(file))
    BY <1>5 DEF WasRead
  <2> HIDE DEF rest
  <2>4. rest = <<>> /\ Available(ep, rest) = 0 /\ WithRead(b, ep, SubSeq(rest, 1, 0)) = b
    BY <1>2, <2>2, <2>3, NothingLeft
  <2>5. taken' = taken /\ ep' = ep /\ b' = b
    BY <1>1, <1>3, <2>2, <2>3, <2>4 DEF n
  <2>6. FirstLines' /\ PoppedTo(e)'
    BY <1>1, <1>5, <2>1, <2>5 DEF WasRead, FirstLines, PoppedTo
  <2>7. AllAreOut'
    BY <1>1, <1>5 DEF WasRead, AllAreOut
  <2>8. WasRead'
    BY <1>1, <2>3, <2>5, <2>6, <2>7 DEF WasRead
  <2>9. QED
    BY <1>1, <1>2, <2>8 DEF PrintInv
<1>6. QED
  BY <1>2, <1>4, <1>5

\* A pop prints the next line, and there is one until the last is out.
LEMMA PopKeeps ==
  ASSUME ReadsInv, PrintInv, FitsBuffer, junk = NUL, NEW t \in Tasks, Pops(t)
  PROVE  PrintInv'
<1> DEFINE k == Len(printed)
           N == Cardinality(LineEnds(file))
<1>1. ~broken /\ Text(file) /\ (NotRead \/ WasRead) /\ task \in [Tasks -> Stages]
  BY DEF PrintInv, ReadsInv, StagesOK
<1>2. task[t] = "popping"
  BY DEF Pops, Pop, PopNothing, PopUndefined
<1>3. WasRead
  BY <1>1, <1>2 DEF NotRead
<1>4. PICK e \in LineEnds(file) \cup {0} : PoppedTo(e)
  BY <1>3 DEF WasRead
<1>5. taken = Len(file) /\ FirstLines /\ AllAreOut
  BY <1>3 DEF WasRead
<1>6. /\ ep \in Nat /\ Len(file) <= ep /\ ep < Cap /\ Len(file) \in Nat
      /\ k \in Nat /\ N \in Nat
      /\ \/ /\ \E n : IsNext(file, e, n)
            /\ HasLine(b, ep, NUL) /\ ~PopIsUndefined(b, ep, NUL) /\ k + 1 <= N
         \/ /\ ~HasLine(b, ep, NUL) /\ ~PopIsUndefined(b, ep, NUL) /\ k = N
  BY <1>1, <1>4, <1>5, PoppedIs, TextIs
<1>7. CASE Pop(t)
  <2>1. /\ HasLine(b, ep, NUL) /\ UNCHANGED <<file, junk, task, taken, broken>> /\ ep' = ep + 1
        /\ printed' = Append(printed, Replaced(PopLine(b, ep, NUL).line))
        /\ b' = PopLine(b, ep, NUL).b
    BY <1>7 DEF Pop
  <2>2. PICK n : IsNext(file, e, n)
    BY <1>6, <2>1
  <2>3. k + 1 <= N
    BY <1>6, <2>1
  <2>4. b = BufferAt(file, e) /\ ep = Len(file) + k /\ k = Cardinality(Upto(file, e))
    BY <1>4 DEF PoppedTo
  <2>5. PopLine(b, ep, NUL) = [line |-> LineTo(file, n), b |-> BufferAt(file, n)]
    BY <1>1, <1>6, <2>2, <2>4, PopIs
  <2>6. NthEnd(file, k + 1) = n /\ Cardinality(Upto(file, n)) = k + 1
    BY <1>1, <2>2, <2>4, NextEnd
  <2> HIDE DEF k, N
  <2> DEFINE k1 == k + 1
             line == Replaced(LineTo(file, n))
             lines == LinesOf(file)
             S == LinesIn(file)
  <2>7. k1 \in 1 .. N
    BY <1>6, <2>3
  <2>8. line = lines[k1] /\ line \in S
    <3>1. /\ lines[k1] = Replaced(LineTo(file, NthEnd(file, k1))) /\ lines[k1] \in S
      BY <1>1, <2>7, LinesAre DEF N
    <3>2. QED
      BY <2>6, <3>1
  <2>9. printed' = Append(printed, line) /\ b' = BufferAt(file, n)
    BY <2>1, <2>5
  <2>10. printed \in Seq(S) /\ \A i \in 1 .. k : printed[i] = lines[i]
    BY <1>5 DEF FirstLines, k
  <2> HIDE DEF line, lines, S
  <2>11. /\ printed' \in Seq(S) /\ Len(printed') = k + 1
         /\ \A i \in 1 .. k : printed'[i] = printed[i]
         /\ printed'[k + 1] = line
    BY <2>8, <2>9, <2>10, AppendProperties DEF k
  <2>12. \A i \in 1 .. k + 1 : printed'[i] = lines[i]
    BY <1>6, <2>8, <2>10, <2>11
  <2>13. FirstLines'
    BY <2>1, <2>3, <2>11, <2>12 DEF FirstLines, N, S, lines
  <2>14. n \in LineEnds(file) \cup {0}
    BY <2>2 DEF IsNext
  <2>15. PoppedTo(n)'
    <3>1. ep' = Len(file) + (k + 1)
      BY <1>6, <2>1, <2>4
    <3>2. QED
      BY <2>1, <2>6, <2>9, <2>11, <2>14, <3>1 DEF PoppedTo
  <2>16. (\E m \in LineEnds(file) \cup {0} : PoppedTo(m))'
    BY <2>1, <2>14, <2>15
  <2>17. AllAreOut'
    <3>1. ~(k = N)
      BY <1>6, <2>3
    <3>2. \A u \in Tasks : task[u] \notin {"resubmitting", "releasing"}
      BY <1>5, <3>1 DEF AllAreOut, k, N
    <3>3. QED
      BY <2>1, <3>2 DEF AllAreOut
  <2>18. WasRead'
    BY <1>5, <2>1, <2>13, <2>16, <2>17 DEF WasRead
  <2>19. QED
    BY <1>1, <2>1, <2>18 DEF PrintInv
<1>8. CASE PopNothing(t)
  <2>1. /\ UNCHANGED <<file, junk, b, ep, taken, printed, broken>> /\ ~HasLine(b, ep, NUL)
        /\ task' = [task EXCEPT ![t] = "resubmitting"]
    BY <1>8 DEF PopNothing, To
  <2>2. k = N
    BY <1>6, <2>1
  <2>3. FirstLines' /\ PoppedTo(e)'
    BY <1>4, <1>5, <2>1 DEF FirstLines, PoppedTo
  <2>4. AllAreOut'
    BY <2>1, <2>2 DEF AllAreOut
  <2>5. WasRead'
    BY <1>5, <2>1, <2>3, <2>4 DEF WasRead
  <2>6. QED
    BY <1>1, <2>1, <2>5 DEF PrintInv
<1>9. CASE PopUndefined(t)
  BY <1>6, <1>9 DEF PopUndefined
<1>10. QED
  BY <1>7, <1>8, <1>9 DEF Pops

LEMMA PrintKept ==
  ASSUME \A f \in Files : Text(f)
  PROVE  /\ Init => PrintInv
         /\ ReadsInv /\ PrintInv /\ [Next]_vars => PrintInv'
<1>1. ASSUME Init PROVE PrintInv
  <2>1. FitsBuffer => Text(file)
    BY <1>1 DEF Init, FitsBuffer
  <2>2. junk = NUL => NotRead
    BY <1>1 DEF Init, NotRead, Erased
  <2>3. QED
    BY <1>1, <2>1, <2>2 DEF Init, PrintInv
<1>2. ASSUME ReadsInv, PrintInv, Next PROVE PrintInv'
  <2>0. task \in [Tasks -> Stages]
    BY <1>2 DEF ReadsInv, StagesOK
  <2>1. CASE Notify
    <3>1. UNCHANGED <<file, junk, b, ep, taken, printed, broken>>
          /\ (task' = task \/ task' = [task EXCEPT ![NextFree] = "submitted"])
      BY <2>1 DEF Notify, Select
    <3>2. \A u \in Tasks : task'[u] = "submitted" \/ task'[u] = task[u]
      BY <2>0, <3>1
    <3>3. QED
      BY <1>2, <3>1, <3>2, GateIsLeft
  <2>2. CASE ReleaseFd \/ Shutdown \/ Exit
    BY <1>2, <2>2, GateIsLeft DEF ReleaseFd, Shutdown, Exit
  <2>3. ASSUME NEW t \in Tasks, Step(t) PROVE PrintInv'
    <3>1. CASE Ready(t)
      <4>1. UNCHANGED <<file, junk, b, ep, taken, printed, broken>> /\ task' = [task EXCEPT ![t] = "called"]
        BY <3>1 DEF Ready, To
      <4>2. \A u \in Tasks : task'[u] = "called" \/ task'[u] = task[u]
        BY <2>0, <4>1
      <4>3. QED
        BY <1>2, <4>1, <4>2, GateIsLeft
    <3>2. CASE Read(t) \/ Pops(t)
      <4>1. UNCHANGED <<file, junk>>
        BY <3>2 DEF Read, Pops, Pop, PopNothing, PopUndefined
      <4>2. CASE FitsBuffer /\ junk = NUL
        BY <1>2, <3>2, <4>2, ReadKeeps, PopKeeps
      <4>3. CASE ~(FitsBuffer /\ junk = NUL)
        BY <4>1, <4>3 DEF PrintInv, FitsBuffer
      <4>4. QED
        BY <4>2, <4>3
    <3>3. CASE ReadFails(t)
      BY <3>3 DEF ReadFails, PrintInv, FitsBuffer
    <3>4. CASE Resubmit(t)
      <4> DEFINE v == NextFree
      <4>1. UNCHANGED <<file, junk, b, ep, taken, printed, broken>> /\ task[t] = "resubmitting"
            /\ (task' = To(t, "releasing") \/ task' = [To(t, "releasing") EXCEPT ![v] = "submitted"])
        BY <3>4 DEF Resubmit, Select
      <4> HIDE DEF v
      <4>2. \A u \in Tasks : task'[u] = "submitted" \/ task'[u] = task[u] \/ (u = t /\ task'[u] = "releasing")
        BY <2>0, <4>1 DEF To
      <4>3. QED
        BY <1>2, <4>1, <4>2, GateIsLeft
    <3>5. CASE Release(t)
      <4>1. UNCHANGED <<file, junk, b, ep, taken, printed, broken>> /\ task' = [task EXCEPT ![t] = "none"]
        BY <3>5 DEF Release, To
      <4>2. \A u \in Tasks : task'[u] = "none" \/ task'[u] = task[u]
        BY <2>0, <4>1
      <4>3. QED
        BY <1>2, <4>1, <4>2, GateIsLeft
    <3>6. QED
      BY <2>3, <3>1, <3>2, <3>3, <3>4, <3>5 DEF Step
  <2>4. QED
    BY <1>2, <2>1, <2>2, <2>3 DEF Next
<1>3. ASSUME PrintInv, UNCHANGED vars PROVE PrintInv'
  BY <1>3, GateIsLeft DEF vars
<1>4. QED
  BY <1>1, <1>2, <1>3

\* Whatever the file's lines are and however many, when the buffer has a place for each
\* of its characters and one more for each of its lines, it is printed line by line as it
\* is, and nothing is written behind the buffer (read_all_line__exec, read_into_buffer_single,
\* pop_line_from_buffer).
THEOREM LinesArePrinted ==
  ASSUME \A f \in Files : Text(f)
  PROVE  Spec => []FittingFilesArePrinted
<1>1. ASSUME PrintInv PROVE FittingFilesArePrinted
  <2>1. SUFFICES ASSUME FitsBuffer, junk = NUL
                 PROVE  /\ ~broken
                        /\ IsPrefix(printed, LinesOf(file))
                        /\ \A t \in Tasks : task[t] \in {"resubmitting", "releasing"} => printed = LinesOf(file)
    BY DEF FittingFilesArePrinted
  <2>2. ~broken /\ Text(file) /\ (NotRead \/ WasRead)
    BY <1>1, <2>1 DEF PrintInv
  <2>3. FirstLines
    <3>1. CASE NotRead
      <4>1. Len(<<>>) = 0 /\ <<>> \in Seq(LinesIn(file))
        OBVIOUS
      <4>2. 0 <= Cardinality(LineEnds(file))
        BY <2>2, TextIs
      <4>3. QED
        BY <3>1, <4>1, <4>2 DEF NotRead, FirstLines
    <3>2. QED
      BY <2>2, <3>1 DEF WasRead
  <2>4. AllAreOut
    BY <2>2 DEF NotRead, WasRead, AllAreOut
  <2>5. QED
    BY <2>2, <2>3, <2>4, AllPrinted DEF AllAreOut
<1>2. Init => ReadsInv /\ PrintInv
  BY ReadsKept, PrintKept
<1>3. (ReadsInv /\ PrintInv) /\ [Next]_vars => (ReadsInv /\ PrintInv)'
  BY ReadsKept, PrintKept
<1>4. QED
  BY <1>1, <1>2, <1>3, PTL DEF Spec
=============================================================================
