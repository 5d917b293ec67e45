---------------------------- MODULE Propagation -----------------------------
(***************************************************************************)
(* How a value moves through a wired circuit: lxc_drive_wire_value and the   *)
(* two wire handlers (core/facet.c, experiment/usecases/prell.c), the three *)
(* execution behaviours of a gate (core/lxc.c, core/lxc_execution.c,        *)
(* experiment/usecases/oscillators.c) and the boolean gates, as the         *)
(* programs of experiment/usecases use them.                                *)
(*                                                                         *)
(* Writing a wire calls the gates on it, whose execution writes their       *)
(* output wires, all in one call stack.  Only lxc_execution_loopbreaker     *)
(* (a queue that the outermost call empties) and async_execution (a task of *)
(* a worker pool) return before the gate has run.  A frame of a stack is a  *)
(* function that has not returned yet.                                      *)
(***************************************************************************)
EXTENDS Naturals, Sequences, SequencesExt, FiniteSets, BoolGates

CONSTANTS
  Circuits,       \* the circuits a program may build: see CircuitType
  Main, Workers,
  History         \* bound: how many values the sniffer remembers

VARIABLES
  circuit,   \* the circuit of this program; it is not rewired
  program,   \* where main is: "start", "running", "shut", "destroyed"; "aborted"
  enabled,   \* [Gates -> BOOLEAN]
  value,     \* current_value of the wires
  tokens,    \* current_value of the Tokenports ("nonhazard")
  stack,     \* of each thread, a sequence of frames
  breaker,   \* LOOP_BREAKER: NULL, or its queue
  tasks,     \* [Gates -> Nat]: their tasks that no thread of the pool has taken
  seen       \* the last values the sniffer got since the program drove a wire

vars == <<circuit, program, enabled, value, tokens, stack, breaker, tasks, seen>>

Threads == {Main} \cup Workers
Value == BOOLEAN \cup {NULL}

Gates == DOMAIN circuit.kind
Wires == DOMAIN circuit.drivens
Kind == circuit.kind
Inputs == circuit.inputs
Output == circuit.output
Drivens == circuit.drivens
Behavior == circuit.behavior
Handler == circuit.handler
Start == circuit.start
Stimuli == circuit.stimuli

Ports == {p \in Gates \X (1 .. 21) : p[2] \in DOMAIN Inputs[p[1]]}
Async == {g \in Gates : Behavior[g] = "async"}

CircuitType(c) ==
  LET gates == DOMAIN c.kind
      wires == DOMAIN c.drivens
      ports == {p \in gates \X (1 .. 21) : p[2] \in DOMAIN c.inputs[p[1]]}
  IN  /\ NULL \notin gates \cup wires /\ IsFiniteSet(gates)
      /\ NULL \notin Seq(gates \X (BOOLEAN \cup {NULL}))
      /\ \A g \in gates : c.kind[g] \in Kinds \cup {"sniffer"}
      /\ c.inputs \in [gates -> Seq(wires)]          \* by port
      /\ \A g \in gates : Len(c.inputs[g]) <= 21
      /\ c.output \in [gates -> wires \cup {NULL}]
      /\ c.drivens \in [wires -> Seq(ports)]         \* in the order they were wired
      /\ c.behavior \in [gates -> {"default", "loopbreaker", "async"}]
      /\ c.handler \in {"direct", "nonhazard"}       \* of all wires
      /\ c.start \in gates \cup {NULL}               \* starts an oscillator
      /\ c.stimuli \subseteq wires                   \* the program drives them
      \* A gate that runs in several threads reads its input in one step.
      /\ \A g \in gates : c.behavior[g] = "async" => Len(c.inputs[g]) = 1

ASSUME PropagationAssumption ==
  /\ Main \notin Workers /\ IsFiniteSet(Workers) /\ NULL \notin BOOLEAN
  /\ \A c \in Circuits : CircuitType(c)
-----------------------------------------------------------------------------
(* Frames.                                                                  *)

\* A frame: [at, gate, wire, value, next].

F(at, g, w, v, n) == [at |-> at, gate |-> g, wire |-> w, value |-> v, next |-> n]

Call(g, v) == F("call", g, NULL, v, 0)       \* g->execution_behavior(g, .., v, ..)
Run(g, v) == F("run", g, NULL, v, 0)         \* g->behavior->execute(g, .., v, ..)
Write(g, w, v) == F("write", g, w, v, 0)     \* lxc_drive_wire_value(g, 0, w, v)
Notify(g, w, v, n) == F("notify", g, w, v, n) \* its loop over w->drivens

\* lxc_execution_loopbreaker after it has read LOOP_BREAKER, ...
Make(g, v) == F("make", g, NULL, v, 0)       \* ... that is NULL: it makes the queue,
Loop(g, v) == F("loop", g, NULL, v, 0)       \* runs the call and what is queued
Wipe == F("wipe", NULL, NULL, NULL, 0)       \* and frees the queue;
Enqueue(g, v) == F("append", g, NULL, v, 0)  \* ... that is not

At(t, at) == stack[t] # <<>> /\ Last(stack[t]).at = at
Top(t) == Last(stack[t])

Return(t) == stack' = [stack EXCEPT ![t] = Front(@)]
Goto(t, f) == stack' = [stack EXCEPT ![t] = Append(Front(@), f)]
CallFrom(t, f, callee) == stack' = [stack EXCEPT ![t] = Append(Append(Front(@), f), callee)]

Init ==
  /\ circuit \in Circuits
  /\ program = IF Start = NULL THEN "running" ELSE "start"
  /\ enabled = [g \in Gates |-> TRUE]
  \* The oscillators write the wire their first gate reads themselves.
  /\ value = [w \in Wires |-> IF Start # NULL /\ w = Inputs[Start][1] THEN FALSE ELSE NULL]
  /\ tokens = [p \in Ports |-> NULL]
  /\ stack = [t \in Threads |-> <<>>]
  /\ breaker = NULL
  /\ tasks = [g \in Gates |-> 0]
  /\ seen = <<>>
-----------------------------------------------------------------------------
(* Execution behaviours.                                                    *)

\* lxc_gate_is_enabled.  (Mutant: a disabled gate runs.)
RunsAnyway(g) == g \in Gates
IsEnabled(g) == enabled[g]

\* lxc_execution_default_behavior  (Mutant: all but asynchronous gates have it.)
CallDirect(t) ==
  /\ At(t, "call") /\ Behavior[Top(t).gate] # "async"
  /\ Goto(t, Run(Top(t).gate, Top(t).value))
  /\ UNCHANGED <<circuit, program, enabled, value, tokens, breaker, tasks, seen>>

CallDefault(t) ==
  /\ At(t, "call") /\ Behavior[Top(t).gate] = "default"
  /\ Goto(t, Run(Top(t).gate, Top(t).value))
  /\ UNCHANGED <<circuit, program, enabled, value, tokens, breaker, tasks, seen>>

\* lxc_execution_loopbreaker: the first call makes the queue and empties it, the
\* others append to it.  Nothing locks LOOP_BREAKER, and every statement reads it
\* again: what a statement does to it is a step.
\* (Mutant: every call is the first.)
EveryCallIsFirst == breaker = NULL \/ breaker # NULL
IsFirstCall == breaker = NULL

CallBreaker(t) ==
  LET f == Top(t)
  IN  /\ At(t, "call") /\ Behavior[f.gate] = "loopbreaker"
      /\ Goto(t, IF IsFirstCall THEN Make(f.gate, f.value) ELSE Enqueue(f.gate, f.value))
      /\ UNCHANGED <<circuit, program, enabled, value, tokens, breaker, tasks, seen>>

MakeQueue(t) ==
  /\ At(t, "make")
  /\ breaker' = <<>>
  /\ Goto(t, Loop(Top(t).gate, Top(t).value))
  /\ UNCHANGED <<circuit, program, enabled, value, tokens, tasks, seen>>

AppendTask(t) ==
  /\ At(t, "append") /\ breaker # NULL
  /\ breaker' = Append(breaker, <<Top(t).gate, Top(t).value>>)
  /\ Return(t)
  /\ UNCHANGED <<circuit, program, enabled, value, tokens, tasks, seen>>

\* The first call has its task in the frame: lxc_do_execute, ...
LoopExecute(t) ==
  /\ At(t, "loop") /\ Top(t).gate # NULL
  /\ IF IsEnabled(Top(t).gate)
       THEN CallFrom(t, Loop(NULL, NULL), Run(Top(t).gate, Top(t).value))
       ELSE Goto(t, Loop(NULL, NULL))
  /\ UNCHANGED <<circuit, program, enabled, value, tokens, breaker, tasks, seen>>

\* ... then the next one is popped, if there is one.  (Mutant: the head stays.)
Peeked == breaker
Popped == Tail(breaker)

LoopNext(t) ==
  /\ At(t, "loop") /\ Top(t).gate = NULL /\ breaker # NULL
  /\ IF breaker = <<>>
       THEN Goto(t, Wipe) /\ UNCHANGED breaker
       ELSE breaker' = Popped /\ Goto(t, Loop(Head(breaker)[1], Head(breaker)[2]))
  /\ UNCHANGED <<circuit, program, enabled, value, tokens, tasks, seen>>

\* What is appended between the last pop and the wipe is lost, whether the
\* memory is free already or not.
WipeQueue(t) ==
  /\ At(t, "wipe")
  /\ breaker' = NULL
  /\ Return(t)
  /\ UNCHANGED <<circuit, program, enabled, value, tokens, tasks, seen>>

\* Another thread has wiped the queue: the program follows NULL.
CrashAtQueue(t) ==
  /\ breaker = NULL
  /\ At(t, "append") \/ (At(t, "loop") /\ Top(t).gate = NULL)
  /\ program' = "aborted"
  /\ UNCHANGED <<circuit, enabled, value, tokens, stack, breaker, tasks, seen>>

\* async_execution: a pool that shuts down refuses the task, and the program
\* aborts.
Submits == program \in {"start", "running"}

CallAsync(t) ==
  /\ At(t, "call") /\ Behavior[Top(t).gate] = "async"
  /\ IF Submits
       THEN /\ tasks' = [tasks EXCEPT ![Top(t).gate] = @ + 1]
            /\ Return(t)
            /\ UNCHANGED program
       ELSE /\ program' = "aborted"
            /\ UNCHANGED <<stack, tasks>>
  /\ UNCHANGED <<circuit, enabled, value, tokens, breaker, seen>>

\* A thread of the pool runs lxc_execute_then_release.  (The boolean gates do
\* not look at the value of the task.)
HasTask(g) == tasks[g] > 0

\* (Mutant: the task stays.)
Remains(g) == tasks[g]
Taken(g) == tasks[g] - 1

TakeTask(t, g) ==
  /\ program \notin {"aborted", "destroyed"}
  /\ stack[t] = <<>>
  /\ HasTask(g)
  /\ tasks' = [tasks EXCEPT ![g] = Taken(g)]
  /\ stack' = [stack EXCEPT ![t] = IF IsEnabled(g) THEN <<Run(g, NULL)>> ELSE <<>>]
  /\ UNCHANGED <<circuit, program, enabled, value, tokens, breaker, seen>>
-----------------------------------------------------------------------------
(* Gates and wires.                                                         *)

\* What token_get_value gives at a port.
Read(g, i) == IF Handler = "direct" THEN value[Inputs[g][i]] ELSE tokens[<<g, i>>]

Vals(g) == [i \in DOMAIN Inputs[g] |-> Read(g, i)]

\* is_all_input_valid_and_copy
Complete(g) == \A i \in DOMAIN Inputs[g] : Read(g, i) # NULL

\* (Mutant: only the token of the first port is removed.)
AbsorbFirst(g) ==
  tokens' = [p \in Ports |-> IF Handler = "nonhazard" /\ p = <<g, 1>> THEN NULL ELSE tokens[p]]

Absorb(g) ==
  tokens' = [p \in Ports |-> IF Handler = "nonhazard" /\ p[1] = g THEN NULL ELSE tokens[p]]

\* logx_bool_execute
Execute(t) ==
  LET g == Top(t).gate
      result == Logic(Kind[g], Vals(g))
  IN  /\ At(t, "run") /\ Kind[g] # "sniffer"
      /\ IF Complete(g) THEN Absorb(g) ELSE UNCHANGED tokens
      /\ IF Complete(g) /\ result # NULL /\ Output[g] # NULL
           THEN Goto(t, Write(g, Output[g], result))
           ELSE Return(t)
      /\ UNCHANGED <<circuit, program, enabled, value, breaker, tasks, seen>>

\* The puppet gate of the programs keeps the value it is called with.
Sniff(t) ==
  /\ At(t, "run") /\ Kind[Top(t).gate] = "sniffer"
  /\ seen' = LET all == Append(seen, Top(t).value)
             IN  IF Len(all) > History THEN Tail(all) ELSE all
  /\ Return(t)
  /\ UNCHANGED <<circuit, program, enabled, value, tokens, breaker, tasks>>

\* wire_direct_propagate_wire_new_value keeps the value in the wire, then
\* notifies; wire_nonhazard_propagate_wire_new_value gives each port its own.
WriteWire(t) ==
  /\ At(t, "write")
  /\ value' = IF Handler = "direct" THEN [value EXCEPT ![Top(t).wire] = Top(t).value] ELSE value
  /\ Goto(t, Notify(Top(t).gate, Top(t).wire, Top(t).value, 1))
  /\ UNCHANGED <<circuit, program, enabled, tokens, breaker, tasks, seen>>

Give(p, v) ==
  tokens' = IF Handler = "nonhazard" THEN [tokens EXCEPT ![p] = v] ELSE tokens

\* (Mutant: the loop ends before the last port.)
MoreButLast(f) == f.next < Len(Drivens[f.wire])
More(f) == f.next <= Len(Drivens[f.wire])

NotifyNext(t) ==
  LET f == Top(t)
      p == Drivens[f.wire][f.next]
      rest == Notify(f.gate, f.wire, f.value, f.next + 1)
  IN  /\ At(t, "notify") /\ More(f)
      /\ Give(p, f.value)
      /\ IF IsEnabled(p[1]) THEN CallFrom(t, rest, Call(p[1], f.value)) ELSE Goto(t, rest)
      /\ UNCHANGED <<circuit, program, enabled, value, breaker, tasks, seen>>

NotifyDone(t) ==
  /\ At(t, "notify") /\ ~More(Top(t))
  /\ Return(t)
  /\ UNCHANGED <<circuit, program, enabled, value, tokens, breaker, tasks, seen>>

Step(t) ==
  /\ program \notin {"aborted", "destroyed"}
  /\ \/ CallDefault(t) \/ CallBreaker(t) \/ CallAsync(t)
     \/ MakeQueue(t) \/ AppendTask(t) \/ LoopExecute(t) \/ LoopNext(t) \/ WipeQueue(t)
     \/ CrashAtQueue(t)
     \/ Execute(t) \/ Sniff(t) \/ WriteWire(t) \/ NotifyNext(t) \/ NotifyDone(t)
-----------------------------------------------------------------------------
(* The programs.                                                            *)

MainReturned == stack[Main] = <<>>

\* The oscillators call the execution behaviour of their first gate, ...
StartOscillator ==
  /\ program = "start"
  /\ program' = "running"
  /\ stack' = [stack EXCEPT ![Main] = <<Call(Start, NULL)>>]
  /\ UNCHANGED <<circuit, enabled, value, tokens, breaker, tasks, seen>>

\* ... are disabled gate by gate: by main when the call has returned, or by a
\* task of the pool if gates of a ring call each other, ...
ByMain == Async # {}

DisableGate(g) ==
  /\ Start # NULL
  /\ program = "running" \/ (program = "shut" /\ ~ByMain)
  /\ ByMain => MainReturned
  /\ enabled[g]
  /\ enabled' = [enabled EXCEPT ![g] = FALSE]
  /\ UNCHANGED <<circuit, program, value, tokens, stack, breaker, tasks, seen>>

AllDisabled == \A g \in Gates : ~enabled[g]

\* ... and are destroyed when the pool, with that task, has ended.
ShutdownPool ==
  /\ program = "running" /\ Start # NULL
  /\ MainReturned
  /\ ByMain => AllDisabled
  /\ program' = "shut"
  /\ UNCHANGED <<circuit, enabled, value, tokens, stack, breaker, tasks, seen>>

\* (Mutant: threads that run are not waited for.)
NoTasks == \A g \in Gates : tasks[g] = 0
PoolExited == NoTasks /\ \A t \in Workers : stack[t] = <<>>

DestroyCircuit ==
  /\ program = "shut"
  /\ AllDisabled /\ PoolExited
  /\ program' = "destroyed"
  /\ UNCHANGED <<circuit, enabled, value, tokens, stack, breaker, tasks, seen>>

\* The others drive a wire, time and again.
DriveWire(w, v) ==
  /\ Start = NULL /\ w \in Stimuli /\ MainReturned
  /\ stack' = [stack EXCEPT ![Main] = <<Write(NULL, w, v)>>]
  /\ seen' = <<>>
  /\ UNCHANGED <<circuit, program, enabled, value, tokens, breaker, tasks>>

Next ==
  \/ StartOscillator
  \/ \E g \in Gates : DisableGate(g)
  \/ ShutdownPool
  \/ DestroyCircuit
  \/ \E w \in Stimuli, v \in BOOLEAN : DriveWire(w, v)
  \/ \E t \in Threads : Step(t)
  \/ \E t \in Workers, g \in Gates : TakeTask(t, g)

\* Every thread goes on, and the pool has a thread for every task.
Fairness ==
  /\ WF_vars(StartOscillator)
  /\ \A t \in Threads : WF_vars(Step(t))
  /\ WF_vars(\E t \in Workers, g \in Gates : TakeTask(t, g))

Spec == Init /\ [][Next]_vars /\ Fairness
-----------------------------------------------------------------------------
\* The functions that have not returned, by thread and place in its stack.
Frames == UNION {{t} \X DOMAIN stack[t] : t \in Threads}

Idle == NoTasks /\ \A t \in Threads : stack[t] = <<>>

\* A circuit whose calls of lxc_execution_loopbreaker are all in one thread: no
\* gate of it is a task of a pool.
BreaksInOneThread(c) ==
  \A g \in DOMAIN c.kind : c.behavior[g] = "loopbreaker" =>
    \A h \in DOMAIN c.kind : c.behavior[h] # "async"

\* LOOP_BREAKER is there exactly while one call of a stack empties it, so it is
\* wiped when the circuit is idle and the next activation runs at once.
BreakerIsOwned ==
  LET owners == {f \in Frames : stack[f[1]][f[2]].at \in {"loop", "wipe"}}
  IN  Cardinality(owners) = IF breaker = NULL THEN 0 ELSE 1

\* If each loop of the circuit has a gate with the loopbreaker, calls do not
\* nest without end: no gate is in a stack more than twice, below and above the
\* call that empties the queue.
NestsAtMostTwice ==
  \A t \in Threads, g \in Gates :
    Cardinality({i \in DOMAIN stack[t] : /\ stack[t][i].gate = g
                                         /\ stack[t][i].at \in {"run", "write", "notify"}}) <= 2

\* The loopbreaker does what it is for: the queue has one owner, who empties it,
\* and a loop does not fill the stack (lxc_execution_loopbreaker).
LoopsAreBroken == BreakerIsOwned /\ NestsAtMostTwice

\* A frame, queued call or task from which a gate other than a sniffer runs.
Signals(g) == g # NULL /\ Kind[g] # "sniffer"
Carries(f) ==
  \/ f.at \in {"call", "make", "append", "loop", "run"} /\ Signals(f.gate)
  \/ f.at = "write"
  \/ f.at = "notify" /\ \E n \in f.next .. Len(Drivens[f.wire]) : Signals(Drivens[f.wire][n][1])

Carriers == {f \in Frames : Carries(stack[f[1]][f[2]])}
Waiting == UNION {{g} \X (1 .. tasks[g]) : g \in Gates}

Edges ==
  Cardinality(Carriers) + Cardinality(Waiting) + IF breaker = NULL THEN 0 ELSE Len(breaker)

\* One edge circulates in a ring oscillator, whatever its gates' behaviours and
\* the threads that run them: no activation is doubled, and none is lost, unless
\* tasks meet the loopbreaker.
OneEdge ==
  Start # NULL =>
    /\ Edges <= 1
    /\ BreaksInOneThread(circuit) /\ program = "running" /\ (\A g \in Gates : enabled[g]) =>
         Edges = 1

\* lxc_circuit_destroy frees the gates when no call, queue or task has one.
DestroyedIsIdle == program = "destroyed" => Idle /\ breaker = NULL

\* With tokens, no gate is left with a part of its inputs.
NoTokenLeft ==
  MainReturned => \A p \in Ports : Kind[p[1]] # "sniffer" => tokens[p] = NULL

\* When a drive has returned, each wire has what the gate behind it computes of the
\* inputs it has then: no path through the circuit has left it an older value.
SettlesOn(meant(_, _)) ==
  Start = NULL /\ MainReturned =>
    \A g \in Gates :
      Kind[g] # "sniffer" /\ Complete(g) =>
        value[Output[g]] = meant(Kind[g], Vals(g))

\* The gates compute their functions, "bool and" that of nor, whatever was driven
\* before (lxc_bool_gates.c).
ComputesItsFunction == SettlesOn(Yields)

\* The gates compute what they are named after.
MeansItsName == SettlesOn(Meaning)

\* A write is never late: the value that a wire gets is the one its gate
\* computes of its inputs as they are in that step.
Abstract == INSTANCE Network
WritesAreCurrent == Abstract!Spec

\* Once its gates are disabled, a circuit becomes idle.
GoesIdle == AllDisabled ~> Idle \/ program = "aborted"

\* "TEST_ASSERT_EQUAL(0, ret = wp_submit_task(...))" (oscillators.c:92): the tasks
\* of the rings are accepted.
TasksAreAccepted == program # "aborted"

\* While its gates are enabled, an oscillator's output does not stop.
OutputIs(b) == Start # NULL /\ value[Output[Start]] = b
Oscillates ==
  Start # NULL /\ BreaksInOneThread(circuit) /\ [](\A g \in Gates : enabled[g]) =>
    \A b \in BOOLEAN : []<>OutputIs(b)
=============================================================================
