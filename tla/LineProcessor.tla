--------------------------- MODULE LineProcessor ---------------------------
(***************************************************************************)
(* experiment/usecases/line_processor.c: const, fopen, read_all_line,       *)
(* char_replace and printf, one after the other on a chain of wires, print  *)
(* the lines of a file.  The program notifies const and the call goes as    *)
(* far as read_all_line, which waits for the file in a task of the worker   *)
(* pool (rough_select).  The task calls the gate again, with a system       *)
(* event; the gate reads, sends the lines it has down the chain and submits *)
(* the next task.  Meanwhile the program shuts the pool down                *)
(* (logxcontroll_destroy_environment), and a task that is submitted then is *)
(* refused (WorkerPool.tla).                                                *)
(*                                                                         *)
(* The value with the file descriptor is shared: its creator, the wire and  *)
(* every task have a reference.                                             *)
(***************************************************************************)
EXTENDS LineBuffer, FiniteSets

CONSTANTS
  Files,      \* sequences of characters: "a", others, "n" and "r"
  DIRECTORY,  \* the name leads to something that opens and cannot be read
  Junk,       \* what newly allocated memory may hold
  Tasks       \* bound: tasks that are there at one time

ASSUME DirectoryAssumption == DIRECTORY \notin Files
ASSUME TasksAssumption == IsFiniteSet(Tasks) /\ Tasks # {}

VARIABLES
  file, junk,
  main,       \* "start", "notified", "running", "shutdown", "done"
  task,       \* "none", "submitted", "called", "popping", "resubmitting", "releasing"
  b, ep, taken,  \* the gate's buffer, and how much of the file was read
  printed,
  refs,       \* of the value with the file descriptor; 0: freed
  broken,     \* undefined behavior
  failed      \* a read failed

vars == <<file, junk, main, task, b, ep, taken, printed, refs, broken, failed>>

Init ==
  /\ file \in Files \cup {DIRECTORY}
  /\ junk \in Junk
  /\ main = "start"
  /\ task = [t \in Tasks |-> "none"]
  /\ b = [i \in 1 .. Cap + 1 |-> junk] /\ ep = 0 /\ taken = 0
  /\ printed = <<>>
  /\ refs = 0
  /\ broken = FALSE /\ failed = FALSE

IsFree(t) == task[t] = "none"
NextFree == CHOOSE t \in Tasks : IsFree(t)
-----------------------------------------------------------------------------
\* wp_submit_task answers 0 until wp_shutdown.  (Mutant: always.)
AlwaysAccepts == TRUE
Accepts == main \notin {"shutdown", "done"}

\* rough_select: a reference for the task, given back when it is refused.
Select(fd_refs, tasks) ==
  IF Accepts
    THEN refs' = fd_refs + 1 /\ task' = [tasks EXCEPT ![NextFree] = "submitted"]
    ELSE refs' = fd_refs /\ task' = tasks

\* notify_gate_test: const__exec, gate_open, read_all_line__exec up to the pool.
\* The creator and the wire have a reference each.
Notify ==
  /\ main = "start"
  /\ main' = "notified"
  /\ Select(2, task)
  /\ UNCHANGED <<file, junk, b, ep, taken, printed, broken, failed>>

\* Back in functional_gate_execute.
ReleaseFd ==
  /\ main = "notified"
  /\ main' = "running"
  /\ refs' = refs - 1
  /\ UNCHANGED <<file, junk, task, b, ep, taken, printed, broken, failed>>

\* wp_shutdown, ...
Shutdown ==
  /\ main = "running"
  /\ main' = "shutdown"
  /\ UNCHANGED <<file, junk, task, b, ep, taken, printed, refs, broken, failed>>

\* ... wp_wait_exit and wp_destroy.
Exit ==
  /\ main = "shutdown"
  /\ \A t \in Tasks : IsFree(t)
  /\ main' = "done"
  /\ UNCHANGED <<file, junk, task, b, ep, taken, printed, refs, broken, failed>>
-----------------------------------------------------------------------------
(* A task (do_wait_event).                                                  *)

To(t, stage) == [task EXCEPT ![t] = stage]

\* select: the descriptor of a file is always ready.
Ready(t) ==
  /\ task[t] = "submitted"
  /\ task' = To(t, "called")
  /\ UNCHANGED <<file, junk, main, b, ep, taken, printed, refs, broken, failed>>

\* gate_replace
Replaced(line) == [n \in DOMAIN line |-> IF line[n] = "a" THEN "b" ELSE line[n]]

\* read_all_line__exec reads ...
Read(t) ==
  /\ task[t] = "called" /\ file # DIRECTORY
  /\ LET rest == SubSeq(file, taken + 1, Len(file))
         n == Available(ep, rest)
     IN  /\ taken' = taken + n
         /\ b' = WithRead(b, ep, SubSeq(rest, 1, n))
         /\ ep' = ep + n
  /\ task' = To(t, "popping")
  /\ UNCHANGED <<file, junk, main, printed, refs, broken, failed>>

\* ... and as long as there is a line drives it: char_replace and printf have it
\* when the write returns.
Pop(t) ==
  /\ task[t] = "popping"
  /\ ~PopIsUndefined(b, ep, junk) /\ HasLine(b, ep, junk)
  /\ LET popped == PopLine(b, ep, junk)
     IN  /\ printed' = Append(printed, Replaced(popped.line))
         /\ b' = popped.b
  /\ ep' = ep + 1
  /\ UNCHANGED <<file, junk, main, task, taken, refs, broken, failed>>

PopNothing(t) ==
  /\ task[t] = "popping"
  /\ ~PopIsUndefined(b, ep, junk) /\ ~HasLine(b, ep, junk)
  /\ task' = To(t, "resubmitting")
  /\ UNCHANGED <<file, junk, main, b, ep, taken, printed, refs, broken, failed>>

PopUndefined(t) ==
  /\ task[t] = "popping"
  /\ PopIsUndefined(b, ep, junk)
  /\ broken' = TRUE
  /\ UNCHANGED <<file, junk, main, task, b, ep, taken, printed, refs, failed>>

\* It gives a reference back that is the task's.
ReadFails(t) ==
  /\ task[t] = "called" /\ file = DIRECTORY
  /\ failed' = TRUE
  /\ refs' = refs - 1
  /\ task' = To(t, "releasing")
  /\ UNCHANGED <<file, junk, main, b, ep, taken, printed, broken>>

Resubmit(t) ==
  /\ task[t] = "resubmitting"
  /\ \E u \in Tasks : IsFree(u)
  /\ Select(refs, To(t, "releasing"))
  /\ UNCHANGED <<file, junk, main, b, ep, taken, printed, broken, failed>>

\* (Mutant: the task keeps its reference.)
Keeps == refs
GivesBack == refs - 1

Release(t) ==
  /\ task[t] = "releasing"
  /\ refs' = GivesBack
  /\ task' = To(t, "none")
  /\ UNCHANGED <<file, junk, main, b, ep, taken, printed, broken, failed>>

Pops(t) == Pop(t) \/ PopNothing(t) \/ PopUndefined(t)
Step(t) == Ready(t) \/ Read(t) \/ Pops(t) \/ ReadFails(t) \/ Resubmit(t) \/ Release(t)

\* Nothing is known of a program that did what is undefined.
Next ==
  /\ ~broken
  /\ \/ Notify
     \/ ReleaseFd
     \/ Shutdown
     \/ Exit
     \/ \E t \in Tasks : Step(t)

\* The program's thread and the pool's go on.
Spec == Init /\ [][Next]_vars
             /\ WF_vars(~broken /\ (Notify \/ ReleaseFd \/ Shutdown \/ Exit))
             /\ \A t \in Tasks : WF_vars(~broken /\ Step(t))
-----------------------------------------------------------------------------
\* The lines of a text, with "\n" or "\r\n" behind each.
LineEnds(text) == {n \in DOMAIN text : text[n] = "n"}

\* The line that ends at n, and where the k-th line ends.
LineTo(text, n) ==
  LET before == {m \in LineEnds(text) : m < n}
      first == IF before = {} THEN 1 ELSE 1 + CHOOSE m \in before : \A k \in before : k <= m
      last == IF n > 1 /\ text[n - 1] = "r" THEN n - 2 ELSE n - 1
  IN  SubSeq(text, first, last)

NthEnd(text, k) == CHOOSE n \in LineEnds(text) : Cardinality({m \in LineEnds(text) : m <= n}) = k

LinesOf(text) == [k \in 1 .. Cardinality(LineEnds(text)) |-> Replaced(LineTo(text, NthEnd(text, k)))]

\* The end goes one behind where it was with every line popped.
FitsBuffer == file # DIRECTORY /\ Len(file) + Cardinality(LineEnds(file)) < Cap

\* A file that fits the buffer, with a place for every line, is printed line by
\* line as it is, in memory that held nothing before; none of its lines is split,
\* joined, printed again or in another order by the calls that follow the one
\* that read it, nor does one of them write behind the buffer.
FittingFilesArePrinted ==
  FitsBuffer /\ junk = NUL =>
    /\ ~broken
    /\ IsPrefix(printed, LinesOf(file))
    /\ \A t \in Tasks : task[t] \in {"resubmitting", "releasing"} => printed = LinesOf(file)

\* The references are those of the wire, of the creator and of the tasks: the
\* descriptor is there for a task that waits for it after its submitter is gone,
\* and a refused task leaves none behind.
Holders == Cardinality({t \in Tasks : ~IsFree(t)}) + (IF main = "notified" THEN 1 ELSE 0)

ReferencesAreHolders ==
  ~failed => refs = IF main = "start" THEN 0 ELSE 1 + Holders

\* The gate's buffer has no lock, and the tasks call the gate from the threads of the
\* pool, whatever else runs: one of them at a time.
InGate(t) == task[t] \in {"called", "popping", "resubmitting"}
OneTaskReads == \A t, u \in Tasks : InGate(t) /\ InGate(u) => t = u

\* A task submits the next one as long as the pool accepts it, so that it never
\* runs out of tasks by itself: shut down, it does, and the program ends.
ProgramEnds == (main = "shutdown") ~> (main = "done" \/ broken)
=============================================================================
