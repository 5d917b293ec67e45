# A verification project for logxcontroll

logxcontroll is a C library (with Java bindings) that builds circuits of *gates* and *wires* at
run time and lets values propagate through them, in the caller's stack, through a queue, or as
tasks of a worker pool. This directory holds TLA+ modules translated from its source, TLC
configurations that check them on small instances, and proofs checked by TLAPS.

Every definition that models code is listed with its lines in `PROJECT.json` ("map"). Where this
text says *the code*, it means `src/`.

## 1. Inventory

| component | state | operations | what must hold | here |
|---|---|---|---|---|
| rerunnable thread (`core/utils/rerunnable_thread.c`) | status, `run`, a spinlock `rt_lock`, a condition variable `has_job_cw` | init, start, try_rerun_if_free, graceful_shutdown, poll_wait_exit, destroy, the executor's loop | no wakeup and no accepted job is lost, shutdown returns, nothing is destroyed in use | `RerunnableThread`, `RrtClients` |
| worker pool (`core/utils/worker_pool.c`) | status, `pool_lock`, queues of free and busy threads | init, submit_task, on_release, shutdown, wait_exit, destroy | every accepted task runs once, queues partition the threads, freed last | `WorkerPool` |
| wiring (`core/facet.c`) | arrays of Tokenports in wires, slots in gates | wire/unwire an input or output, wire_ports_together, get_or_create_wire, circuit_destroy | gate and wire agree, no leak, gates destroyed unwired | `Wiring`, `Netlist` |
| propagation (`core/facet.c`, `core/lxc_execution.c`, `core/lxc.c`) | wires' values, tokens, `LOOP_BREAKER`, the call stacks | drive_wire_value, wire handlers, execution behaviours, tasks | no stale write, bounded nesting, idle when disabled | `Propagation`, `Network` |
| boolean gates (`arithmetic/lxc_bool_gates.c`) | their wires | execute | they compute what they are named after ("and" does not, see 6) | `BoolGates` |
| use cases `oscillators.c`, `prell.c` | program order | build, start, drive, disable, destroy | see propagation | `Propagation`, `MCPropagation` |
| port manager, generic gates (`core/builtins/gate_generic.c`) | types, absolute indices, names, an array of wires | add, remove the only port, wipe, look up, wire; properties | every port is at one type and index and one absolute index, and is found by its name; wires stay with their ports | `PortManager`, `GenericGates`, `PortMap` |
| values (`core/lxc.h`, `core/utils/lxc_utils.c`, `core/builtins/builtin.c`) | reference counts | create, reference, unreference, import | freed once, when the last holder is done | `Dataflow`, `LineProcessor` |
| functional gates (`core/builtins/functional_wrapper.c`) | none | execute | all inputs or none; each result on its wire, released once | `Dataflow` |
| sorting network (`experiment/usecases/computerphile_sort.c`) | a triangle of sorter boxes | build, drive, read, destroy | the outputs are the inputs, sorted | `SortingNetwork`, `Dataflow` |
| accounting (`core/accounting.c`), environment (`core/logxcontroll.c`) | registered gates, signals, constants; the library tree | load a library; init, destroy | the tree has the gates under their paths, nothing is left out silently | `Accounting` |
| line processor (`experiment/usecases/line_processor.c`) | constant, buffer, waiting task | select a constant, read, pop a line, resubmit | one port of the constant's type; no line lost or doubled; released once | `LineBuffer`, `LineProcessor`, `GenericGates` |
| collections (`core/utils/utils.c`) | arrays, list, queue | append, pop, find | as the sequence or set they stand for | operators of the modules that use them |
| posix gates (`posix/`) | created descriptors, published errno, address family | execute, set property | creator and ports belong to one family | the family, in `GenericGates` |
| java bindings | - | marshalling | - | the calls that change ports, in `GenericGates` |
| circuits' name registries, test registry, debug output, pcre wrapper, cast and switch gates, notes, tests | - | - | - | not modelled, see 7 |

How they interact. A *gate* has an `execution_behavior`, called by the wire that drives one of its
inputs: it executes at once (default), queues the activation (`lxc_execution_loopbreaker`), or
submits a task to a *worker pool* (`async_execution` of `oscillators.c`). Executing reads the
inputs through the wire's *handler* and drives the output wires, which calls the next gates. The
pool hands tasks to *rerunnable threads*, calls them under `pool_lock`, and is called back
(`on_release`) from their executor. *Wiring* changes the arrays that propagation walks over, and
asks the gate, through its *port manager*, where a port's wire is kept; nothing in the repository
wires and propagates at once. A *property* of a gate (its constant, its address family) changes its
ports. *Libraries* register the behaviours that gates are made of.

What is hard: the executor's unlocked write against a client's hand-over; locks taken in both
orders; a shutdown that retries; late notifications; activations reordered by a queue or by
threads; gates disabled one by one while an edge circulates; arrays that shift while others hold
indices; ports that take another's place; values read without a reference; a load that fails part
way; a task that submits the next while the pool shuts down. `PROJECT.json` lists each at its line
("hazards"), with the properties about it.

## 2. The modules and the code

**RerunnableThread, RrtClients.** A step is one critical section. `rt_lock` is a spinlock and is
held over more than one step only by `rrt_graceful_shutdown`, which tries the mutex of `has_job_cw`
under it; the executor takes them in the other order. `ex_pc` and `call_pc` are where the executor
and a client are in the code. `run = NULL` after a job is a step without a lock, as in the code.
`pthread_cond_wait` may return unnotified if `SpuriousWakeups`. `MaxTries` stands for 149.
`RrtClients` lets any number of clients call in any order.

**WorkerPool.** EXTENDS `RerunnableThread` and drives its steps under `pool_lock`. The queues are
sets: the code searches them for any free thread and unlinks by address. `Owners` are the clients
that may shut the pool down, wait and destroy it.

**JobService** is the abstract specification of both: a job is accepted while the service is open,
runs once, and a drained service has none left. `RunsJobsOnce` and `RunsTasksOnce` are the
refinements.

**Wiring.** The arrays `drivens` and `drivers` with their NULL tails and unshrunk lengths, the
gates' slots, and the Tokenports in memory (`Tokens`; an address that was freed may be allocated
again). A port is `[gate, type, subtype, index, max]`, `max` being what its gate answers to
`get_*_max_index`. `lxc_circuit_destroy` is a sequence of steps: release every port the loop
reaches, destroy each gate, destroy each wire. `ArrayAppend` and `ArrayPop` are
`array_nt_append_element` and `array_nt_pop_element`. **Netlist** is what a circuit's user thinks
of: each input has at most one wire, each output at most one; `WiresLikeANetlist` is the refinement.

**BoolGates** holds the gates' functions as written, and `Meaning`, what they are named after.

**Propagation.** `stack[t]` is the call stack of a thread, one frame for each function that has not
returned: a behaviour about to be called, `behavior->execute`, `lxc_drive_wire_value`, a handler's
loop over `drivens`, the first `lxc_execution_loopbreaker`. A step moves the top frame. `breaker`
is `LOOP_BREAKER`, which no lock guards: each statement of `lxc_execution_loopbreaker` that reads or
changes it is a step of its own (the test in `Activate`, `MakeQueue`, `AppendTask`, `LoopNext`, `WipeQueue`),
and a thread that finds it wiped follows NULL (`CrashAtQueue`).
`tasks` counts submitted tasks by gate, `program` is where main is. `circuit.handler`
chooses between `DIRECT_PROPAGATE_VALUE` (a wire keeps its value) and `NONHAZARD_PROPAGATE_VALUE`
of `prell.c` (each port keeps a token). The pool is abstracted to what `WorkerPool` shows it does:
a task that was accepted runs once, a pool that shuts down refuses tasks (`Submits`), and main goes
on when all have run (`PoolExited`). The circuits are those of `oscillators.c` and `prell.c`
(`MCPropagation`), with their `drivens` in the order of the wiring calls; a behaviour starts with any of a run's `Circuits`. **Network** is the
abstract specification: a wire changes only to what its gate computes of its inputs *at that step*.

**PortManager** is `struct lxc_port_manager`: `names` by absolute index, the managed `types`, and
`to_abs`, which leads from a type and an index to an absolute index. It has operators only:
`AddPort` (a removed port's place and a type without ports are used again; the name is not looked
for), `RemoveOnlyPort`, the look-ups (`AbsIndexByName` among them) and `WithRoom`, the growth of the
array of wires. `lxc_port_remove_port` is modelled for the one caller it has, the const gate, whose
port is the only one of its type and at absolute index 0: of other ports it pops 8-byte pointers
from an array of 4-byte indices (6).
**GenericGates** is one direction of one gate on top of it, in the ways the repository uses
it: the ports of a behavior, from its literal list `BehaviorPorts`, complete before the first gate
(`"behavior"`); the const gate of the line processor, whose port follows its constant (`"const"`);
the socket address gate, whose ports follow its family (`"sockaddr"`); the inputs and the outputs
that a Java program adds to its bridge gate (`"javaIn"`, `"javaOut"`). They are two kinds, because
`addInputPort` looks for the name first (`NameIsNew`), and `addOutputPort` adds whatever it is given. The
properties that are about names are about the gates that have names of their own (`HasNamesOfItsOwn`), all but
those outputs; the others are about them too. `wires` holds, where the code has the wire, the port it was wired
for. **PortMap** is what the owner of a gate is promised: a set of named ports, of which a wired
one stays as it is; `PortsLikeAMap` is the refinement, of every kind but `"javaOut"`.

**SortingNetwork** says which wire is on which port in the triangle of sorter boxes and in the
circuit of `function_wrapper_gate.c`. **Dataflow** runs them: `todo` is what the call in progress
has still to do, in order - writes (`"drive"`), loops over the gates of a wire (`"notify"`) and
releases (`"unref"`) - with the values that a C function keeps in local variables. Values are in
memory that is used again (`Values`), with their reference counts; a gate's function is executed
where the loop calls it. The three kinds of sorter box are the three implementations of the code.
The program drives inputs in any order, repeatedly, then disables and destroys.

**Accounting.** The registries, the library tree as the code's nodes, `LoadLibrary` as the
composition of what the code does in order, with its early return, its messages and the array
given to it for them (`Room`; embedded libraries are told of the size of a pointer, `FewerRoom`).
`library_before_load` of the posix library appends its gates to the library's on every call. What a
library says when it was loaded (`answer`) goes to the caller; what it has registered stays.
`loaded` and `ready` are history variables.

**LineBuffer, LineProcessor.** The buffer is memory of `Cap + 1` characters with an end `ep`, which
the code moves *up* by one with every line popped; what is behind the buffer is `junk`. A pop that
writes or reads through pointers behind the allocated memory is undefined behaviour and stops the
model (`broken`). The chain of gates from `const` to `printf` runs within one call, so a step of
`LineProcessor` is a part of it that another thread can tell apart: `Notify` goes down to the
submission of the first task, `Read`, `Pop`, `Resubmit` and `Release` are a task's. The program's
thread shuts the pool down at any time. The pool is abstracted to its answers, as in Propagation.

## 3. The runs

| run | question | bounds | states |
|---|---|---|---|
| Rrt | two clients race on a thread with spurious wakeups; shutdown returns and the thread exits | 1 thread, 2 clients, 2 jobs | 12 800 |
| Pool | a client submits while the owner shuts down, waits and destroys; accepted tasks finish, calls return, with spurious wakeups | 2 clients, 2 tasks, so at most 2 threads: a task finds a free thread or makes a new one | 29 100 |
| Wiring | any sequence of wirings, unwirings and one destruction | 3 inputs and 2 outputs on 2 boolean gates, one of which has its first and its last input (20, which it answers for the greatest of 21 indices), 2 wires, 2 signals, 5 Tokenports: an array of three, shifted at each place, and reuse of freed memory | 21 000 |
| UseCases | an oscillator on a pool or in one call of main, disabled and destroyed; a ring in which tasks and a loopbreaker meet at the unlocked queue, to its destruction or crash; any sequence of drives of the network of `prell.c`, with both handlers, and of a bench for each gate | rings of 3 inverters, 2 threads, one or three asynchronous gates or loopbreakers; 4 gates of prell.c, or one of each of the six boolean gates | 126 000 |
| Ports | any sequence of additions, constants, families, wirings of each kind of gate; outputs are added under names used already too | 3 names, so at most 3 ports of distinct names, and 3 outputs of any names; 3 types that differ in signal, in both, and include a subtype; 3 constants; a behavior with two ports of a type and one of another between them | 14 400 |
| Dataflow | the inputs of the sorting networks and the adder are driven in any order, and again, to the destruction | a triangle of 3 rows of one implementation of the box, 2 rows of the others; numbers 1 to 3, equal ones included; 4 drives, one more than inputs | 76 000 |
| Library | the environment is made, destroyed and made again, libraries loaded in any order and again | 6 libraries: the built-in, arithmetic and posix ones, and three plugins with gates, signals and constants of names that others have, paths with common beginnings and ends, one of which says no when it was loaded; 5 loads, room for 6 messages, or 5 of an embedded library | 9 200 |
| Lines | every file of up to 5 characters, tasks that read it against the shutdown of the pool | a buffer of 6 characters, files shorter than it and such that exceed it with their line ends; `\r` only before `\n`, as in texts; 2 tasks at a time, the one that runs and the one it submits | 32 400 |

`History` is the number of values the sniffer remembers, 3: the listener of an oscillator compares with
the previous one, and no drive of `prell.c` produces more than 2, so that a third would show. The thread models need no more threads or clients than above for the races listed: each
involves one executor and one or two clients; what they say for every number is proved (5).
Six `Values` are enough in Dataflow for every wire of a circuit that can have one of its own, and
the creator's. Deadlock is not checked where a system ends: all threads exited, a circuit
destroyed, the drives or loads used up.

What the main properties say.

- `NoLostWakeup`, `AcceptedJobIsHeld`: no executor sleeps on a thread with a job unless its
  notification is still to come; a job that was accepted is not overwritten.
- `QueuesPartition`: every thread is in one queue; `on_release` queues none twice.
- `NotifiedWithAJob`: in the pool no notification reaches a thread without a job. A spurious wakeup
  still does, and then the executor calls through NULL: the process died, which the pool's liveness
  properties except (`Died`); behaviours without spurious wakeups are among those checked.
- `ShutdownReturns`: `rrt_graceful_shutdown` returns although it takes its locks against the
  executor's order, for it only tries the second one.
- `SlotsHoldTheirToken`, `SidesAgree`, `OnlyUnlistedPortsStayWired`: slots never hold freed memory;
  slots and arrays name the same connections; of a destroyed gate a wire knows at most the port
  whose index is the one the gate answers for the greatest. The last input of a boolean gate is such a port (6).
- `OneEdge`: exactly one activation of a ring is under way while it is enabled, at most one ever,
  counting frames, queued activations and tasks. It is why the unlocked wires of an asynchronous
  ring are never written by two threads. Where a task meets the loopbreaker the one edge may be lost,
  but a second one never comes.
- `WritesAreCurrent`: refinement of `Network`, in one call and with threads.
- `LoopsAreBroken`: `LOOP_BREAKER` exists exactly while one call empties it, and with one such gate
  per loop no gate is in a stack more than twice. In the mixed ring it is the single edge that keeps a
  second thread from making a second queue.
- `DestroyedIsIdle`: no call, queue or task has a gate of a destroyed circuit.
- `GoesIdle`, `Oscillates`: once its gates are disabled a circuit goes idle (or aborted, see 6);
  while they are enabled an oscillator's output takes both values again and again.
- `Prelling`, `NoTokenLeft`, `ComputesItsFunction`: a drive of `prell.c` ends with every wire consistent
  with the function of its gate (which for "bool and" is that of nor, see 6) and the output TRUE, after at most one glitch, or none and no token left.
- `PortsCorrespond`: type and index stay one-to-one with the absolute indices in use through every reuse of
  places and types, whatever the names. `WiresStayWithTheirPorts`: a wire's place in the array stays its port's, and is
  within the array wherever it is written. `NamesLeadToPorts`: enumerating the types finds each
  port by its name, behind types that lost theirs. `CreatorFindsItsInputs`: while INET is the
  creator, inputs 0 and 1 are the address and the port, after changes that were refused too.
- `ResultIsRight`: the boxes execute on every new input, old and new ones mixed; when all inputs were driven
  the outputs are sorted, and again after each further drive.
- `ReferencesAreHolders` (Dataflow): counts are the wires and creators that hold the value, to the
  end, when none is left. `NoFreedValueIsUsed`: what a loop or a gate still has in hand is not
  freed by the gates it calls. In Lines: the wire, the creator and each task.
- `TreeHasTheGates`, `LeftOutIsReported`, `ReadyHasItsSignals`, `AgainChangesNothing`: see the
  comments; a load that leaves something out names it or answers so, a library that says no when it was
  loaded included; a library that was stopped at a signal keeps its gates, is not told it is loaded, and a
  second load changes nothing.
- `FittingFilesArePrinted`: a file that leaves a place in the buffer for each of its lines is printed line
  by line. The bound is the code's: the end moves with every line (see 6).
- `ProgramEnds`: the pool drains although every task submits another.

## 4. Fairness

Threads are scheduled by the operating system: weak fairness of each executor, of each call under
way (`InCall`) and of each thread's steps in `Propagation`. Nothing forces a program to make a call.
`RrtClients` needs strong fairness of executors and calls: its clients may call for ever, and then
weak fairness would let them keep a spinlock, free again and again, from the executor. In
`Propagation` taking a task is weakly fair because the pool starts a thread when none is free; disabling
and shutting down are not fair at all (`Oscillates` and `GoesIdle` are conditional on `enabled`).
In `Dataflow` the call in progress goes on (one thread; the program need not make another call). In
`LineProcessor` the program's thread and each task go on, as long as no step was undefined.

## 5. What is proved

The proofs hold for any number of threads, clients, jobs, gates, ports, wires, libraries and any memory.

**RrtClientsProofs.** `TypeCorrect`, `RtLockOwner` (LockDiscipline), `Wakeups` (NoLostWakeup),
`NoJobIsLost` (AcceptedJobIsHeld), `ImplementsJobService`. The inductive invariant ties each
position of the executor to what the status, `run` and the locks can be there: NoLostWakeup is not inductive,
as it says nothing of an executor about to wait; the position invariant adds that one past its check holds
the mutex, and that a client leaves "idle" only on its way to notify.

**WorkerPoolProofs.** `TypeCorrect`, `PickedThreadIsFree`, `QueuesArePartition`, `NotifiesWithAJob`,
`CallsNoNull` (without spurious wakeups), `DestroyedLast` (with at most one owner), `ImplementsJobService`. The
strengthening links queues to executors: a free thread is idle or being shut down, with no
notification owed to it, which holds since a submitter notifies before it releases `pool_lock`.

**WiringProofs.** For circuits in which no two ports of a gate differ in nothing but their subtype (`Distinct`;
WiringFreedToken is a counterexample without it): `SlotsAreSound`, `TheSidesAgree`, `OnlyUnlistedAreLeft`
(OnlyUnlistedPortsStayWired), boolean gates with their last input wired included. `TypeCorrect`, `NoTokenportLeaks` and
`ImplementsNetlist` assume moreover that no port has the index its gate answers to `get_*_max_index` (`AllListed`): when
a gate was destroyed with that input in a wire, the wire's array names a gate that is gone. `UntilWiresGo` has the
invariant until the gates are gone, and what the first three need of the wires' destruction after that. The invariant
adds to the listed properties that arrays have no intermediate NULL and no duplicate, which is what makes "pop at the index found" and "append at the
first NULL" mean set difference and union (lemmas `PopRemoves`, `AppendAdds`).

**GenericGatesProofs.** For any names, types, constants and lists of a behavior's ports
(the types of the socket address gate's inputs among them: `GatesAssumption`; no list has a name twice:
`BehaviorAssumption`): `GatesTypeCorrect`, `PortsAlwaysCorrespond`, `WiresAlwaysStay` and
`CreatorAlwaysFindsItsInputs`, of every kind of gate, the outputs of a Java bridge gate under names used already
included. `NamesAlwaysLeadToPorts` (NamesLeadToPorts), `PortsImplementMap` (PortsLikeAMap) and `InputsAreReturned`
(ReturnsTheNewPort: the index `addInputPort` returns is the new port's) are about the gates that have names of their own, as nothing checks the names of those outputs. The port manager is proved on its own first: `AddPortIsSound` says of any manager that corresponds
that it still does when a port was added, under whatever name, and which ports keep their places. The invariant
adds to WiresStayWithTheirPorts that an array of a fixed size fits the
behavior's ports, that no two ports have the same name where names are looked for, and which managers the const gate and the
socket address gate can have at all: a const gate
has at most one port, at absolute index 0, so an unwired place 0 means no wire. A name leads to its
port as names differ; that there are as many places as names is counted by induction over the types, each of which
has as many places as indices (`LabelsAreCounted`).

**PropagationProofs.** For any circuit, any number of threads and of tasks: `TypeCorrect`. Nothing locks `LOOP_BREAKER`, so what depends
on it is proved of circuits whose calls of `lxc_execution_loopbreaker` are all in one thread, since none of their
gates is a task (`BreaksInOneThread`: all circuits of the repository): `QueueHasOneOwner`
(BreakerIsOwned), `DestroyedLast` (DestroyedIsIdle). The invariant `BaseInv` adds what each value of `program`
says of calls and tasks. The other theorems need a hypothesis on the circuit, which the code's use cases meet
and other circuits need not:

- `LoopsNeverFillTheStack` (LoopsAreBroken), for circuits of which every loop has a gate that queues or submits
  (`LoopsHaveABreaker`: a rank of the gates grows along direct calls) and that break in one thread. `NestInv`: ranks grow along every stack,
  but for one place, the first `lxc_execution_loopbreaker`.
- `OneEdgeCirculates` (OneEdge), for rings of any length, any mix of behaviours and any number of threads
  (`IsRing`: each wire leads to one gate, sniffers aside, and each gate to one wire). There are never two edges,
  threads at the unlocked queue included, since an edge is a frame, a queued call or a task, each step turns one into
  at most one other, and two threads at the queue would be two edges already. In rings that break in one thread
  `EdgeInv` adds that whatever is called, queued or submitted finds a value on its input, so that no edge is
  lost but at a disabled gate.
- `NoWriteIsLate` (WritesAreCurrent), for rings and for circuits without asynchronous gates, with either
  handler. `CurrentInv`: only the top frame of a stack is about to write, and it writes what its gate
  computes of the wires as they are; in a ring that is so with threads too, as the one edge leaves nobody else to write.
- `GatesComputeTheirFunctions` (ComputesItsFunction) and `NothingIsLeft` (NoTokenLeft), for circuits that the program drives and
  whose gates call each other directly (`IsDriven`: gates have outputs of their own). Wires that keep the value may be in loops and any number of them driven: `ComputedInv`
  says that each gate is still to be called or its output is what it computes of its inputs now. With tokens more is
  needed (`FillsItsPorts`): one wire is driven, all others follow from it without a loop, each
  port is on one wire, once. `FlowInv` counts how far the drive has come: a wire is written once, a port has
  its token, or has had it if the gate's output is written, exactly if the wire's loop has come to it, and a gate
  with all its tokens is about to run. At the end the wires it has not come to would have one of least rank, whose
  gate has all its tokens and no call (`FlowEnds`); so there is none, and each gate has absorbed its tokens.

Of the circuits of UseCases those of `oscillators.c` are rings that break in one thread, the mixed one is a ring, and
those of `prell.c` have no asynchronous gate, are driven and, with tokens, fill their ports; all have the breakers.

**DataflowProofs.** For any circuit without a loop (`HasNoLoop`: a rank of the wires grows from a gate's inputs to
its outputs), of any of the gates, values, memory and numbers: `TypeCorrect`, `EveryReferenceHasItsHolder`
(ReferencesAreHolders), `BorrowedValuesStay` (NoFreedValueIsUsed). `NetworksKeepTheirValues` shows that sorting
networks of any size, of each implementation of the box, and the adder have no loop, so that the theorems are
about them. `AllKept` is the strengthening: each value in `todo` is about to be released by its creator, or is on a
wire that nothing before it in `todo` writes or leads to. Without loops that is kept, because a gate writes only wires of a
higher rank than those it was called for; with one, a gate could overwrite the value it was called with.
`NetworksSort` (ResultIsRight): the network of any size, however its inputs are driven, sorts. It rests on two
arguments. `SettlesInv` is about any circuit without a loop whose wires have one writer (`OneWriter`; the networks and
the adder are shown to): each gate is still to be called, or each number it makes of its inputs
(`Makes`) is on the wire or about to be written, and what is about to be written is what the gate would make now.
So between calls every gate is settled (`IdleIsSettled`). The second is about the settled triangle (`Inserts`):
a row takes the sorted numbers of the row above and inserts one more input, so by induction over the boxes of a row and
over the rows each row is sorted (`TriangleSorts`) and is a permutation of its inputs (`TrianglePermutes`).
`WireAssumption` says that the wire a port does not have, `NULL`, is none of the wires there are.

**LineProcessorProofs.** `BufferHasOneReader` (OneTaskReads): the buffer has no lock and needs none, as one task at
a time is on its way to it, for any number of tasks. `DescriptorHasItsHolders` (ReferencesAreHolders), refused tasks
included. `LinesArePrinted` (FittingFilesArePrinted), for any buffer and any files that are texts, i.e. have a carriage
return only before a newline (`Text`). `PrintInv`: before the first read nothing has happened; after it the whole
file was taken, the buffer is what follows some line end of the file, then NULs, the end is at the file's length
plus the lines printed, and these are the file's first ones. That the end is within the buffer is just what
`FitsBuffer` gives, so each pop finds what it should. The printed line is the operator the code's search computes
(`PopLine`) on one side and the lines of the file (`LinesOf`) on the other.

**AccountingProofs.** `ReadyLibrariesHaveTheirSignals` (ReadyHasItsSignals), `NothingIsLeftOutSilently`
(LeftOutIsReported), `LoadingAgainChangesNothing` (AgainChangesNothing), for any libraries with any names in common
and any answers of `library_after_loaded`, loaded in any order, and any room for messages (`LibrariesAssumption`: arrays of entities with names;
`RoomAssumption`). A loop over an array is a recursive function; a lemma for each gives its states, and what
a loop does follows by induction over them (`Steps`, from the least element of a set of numbers). What one
registration does (`GateIs`, `SignalIs`, `ConstantIs`), then a loop (`GatesAre`, `SignalsAre`, `ConstantsAre`), then a
load (`LoadIs`, `ModulesAre`). AgainChangesNothing says nothing of what is registered, so `KnowsLoaded` strengthens it: every
gate of a library that was loaded has its name registered, and so has its first signal, at which a second load stops,
or, if it has no signals, each of its constants.
`TheTreeHasTheGates` (TreeHasTheGates), from `TreeInv`, whatever paths the gates share. Nodes come after their parents
and those under one parent have different names (`IsTree`), so paths are different too (`PathsDiffer`), every beginning of a
path is there, and `SearchAhead` finds exactly what is there (`SearchFinds`); what `Grown` adds is new (`GrownIs`). `Lists`
says of a set of wanted paths that each has a node, and that a node lists a gate as often as it is wanted there;
`ListIs` adds one path to the set, the loops the rest. `LibrariesAssumption` has no empty path: `lxc_register_gate` would
use the node it was not given.

The types of these modules, `LockDiscipline`, `MustBeFree`, `NothingLeaks`, `ReturnsTheNewPort`, `BreakerIsOwned` (a conjunct of
LoopsAreBroken) and `OneTaskReads` are proved and need no run. Constants' assumptions are named in the modules that
declare them, and the runs evaluate them.

Only model-checked: every liveness property (TLAPS proves none under fairness), and `Prelling`, which is about the one
network of `prell.c`, all of whose states the run visits.

## 6. Findings

Each is a run that must be violated, with the claim it contradicts quoted in `PROJECT.json`.

1. RrtStaleNotify - a delayed notification wakes a thread without a job: call through NULL.
2. WiringFreedToken - unwiring a port frees the Tokenport of another that differs in the subtype.
3. PrellAnd - "bool and" is registered with the function that computes nor (`lxc_bool_gates.c:446`).
4. OscillatorRefused - an asynchronous gate of an oscillator passes the enabled check, and submits to a pool
   that was shut down meanwhile: the assertion fails and the program aborts (`oscillators.c:92`).

Met while modelling, and not a property of a run:

- Threads and pool. `wp_wait_exit` says "exited" while another owner's wait or threads go
  on (`worker_pool.c:183`); destroying the pool then frees it in use (`DestroyedLast` assumes one owner). An executor that is
  preempted with the mutex of `has_job_cw` makes `rrt_graceful_shutdown` run out of its 149 rounds, which
  `worker_pool.c:137` asserts it does not; the thread is not asked to end and `wp_wait_exit` does not return. The model
  has it (`ShutdownRound`), and `CallsReturn` excepts it.
- Loop breaker. It is one unlocked variable of the process. An activation that a task appends after the last
  pop, and before the queue is wiped, is lost; one that it appends after that goes through NULL or to freed memory
  (`lxc_execution.c:90-113`). The mixed ring of UseCases reaches both, so OneEdge claims an edge to remain only of circuits that
  break in one thread; no circuit of the repository has tasks and loopbreakers together.
- Wiring. `drivers_length` counts a driver that was unwired, so the wire is not taken for another
  (`facet.c:1869`, `1875`). A boolean gate accepts one input more than it says it has, which `lxc_circuit_destroy` does not
  release (`facet.c:1650`): the gate is destroyed with a wire on it, which keeps a Tokenport of the freed gate. The
  run Wiring wires that input, and `OnlyUnlistedPortsStayWired` names it. It accepts a second output index too, whose
  wire replaces the first. `lxc_circuit_wire_ports_together` makes wires of subtype 0 only.
  `lxc_get_signal_by_ordinal` answers for the ordinals out of range (`facet.c:1420`).
- Boolean gates. A nand gate without an input drives nothing where the comment above
  `logic_function_nand` says "false returned".
- Ports. The const gate takes a constant of another signal for a wired port, if the subtype is the same
  (`line_processor.c:150`, `Compatible`), and drives it on that wire. `addOutputPort` adds a second output of a name and returns the index
  of the first (`JavaBridgeGate.java:88`, `AddOutputPort`). Removing a port that is not its type's last removes two indices of 4 bytes, or none, and leaves its wire
  to the port that gets its place (`gate_generic.c:348`); only the const gate calls it, with its only port
  unwired, and nothing uses the binding of it that `LogxControll.cpp:596` offers. `lxc_port_unchecked_add_new_port` answers one index too high for a port
  at the end, which `socket_create.c` and `socket_bring_up.c` then use for a wire. A refused change
  of family has changed the creator already (`socketaddress_create.c:171`), which is harmless, as
  `CreatorFindsItsInputs` shows, since the other family has no inputs. `lxc_init_from_prototype` clears memory
  behind its destination (`gate_generic.c:1300`). `lxc_port_get_type_and_index_by_absindex` searches
  every type up to the size of the first (27) and `lxc_port_get_absindex_by_name` does not stop (424);
  the Java port manager calls the second, with names that are there.
- Values. The values of `errno` that posix gates publish keep a reference for ever
  (`socket_bring_up.c:98`). `republish_internal_value` drives the wire of an input (`lxc_utils.c:119`).
- Line processor. The end of the buffer moves up with every line popped (`line_processor.c:382`,
  `409`), and is never taken back: a file whose characters and lines are more than `MAX_LINE_LENGTH` loses
  lines, as reading stops when the end is at the buffer's, and a buffer that is full without a line is written through `*buff[MAX_LINE_LENGTH]`. A read error releases the descriptor
  twice (554). A file that cannot be opened is reported in the second place of an array of one
  (299). A carriage return alone takes the next character with it.
- Libraries. `recursive_search_lib_tree` compares names the wrong way round (`accounting.c:158`;
  nothing calls it). The loop over a library's structs does not go past the first. Conversions are
  registered by the address of a function pointer. Embedded libraries are told that the array of
  messages has the size of a pointer.

## 7. Not modelled

Debug hooks, labels, and names of gates (the hashmap of a circuit is third-party code); rewiring
during a propagation; failing `malloc`, `pthread_create` and `open`; counts changed by two threads
at once (nothing in the repository does it); `core/build.c` apart from its locks (test selection and
printing), `core/debug.c` (printing), `core/utils/pcre_util.c` and most of the Java bindings
(wrappers); the gates that create and connect sockets (operating-system calls whose answers they
publish); structs and conversions in the registries (nothing reads them); `builtin_gate_cast.c`,
`builtin_gate_switch.c`, `posix/fd_io.c` (commented out).

## 8. Plan

What would come next, in this order:

1. *Rewiring under propagation*, as a composition of Propagation and Wiring, once a program does it.
2. *Collections*: the list and the queue against sequences.
