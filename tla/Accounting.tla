----------------------------- MODULE Accounting -----------------------------
(***************************************************************************)
(* core/accounting.c: what libraries register, and the library tree that    *)
(* lists the gates under their paths.  An entity (a gate, signal or         *)
(* constant) is [name, id]: two libraries may have entities of one name.  A *)
(* gate has paths too, sequences of node names.  Nothing is ever            *)
(* unregistered, and the registries outlive the environment, which          *)
(* core/logxcontroll.c makes, destroys and makes again, loading the same    *)
(* libraries every time.                                                    *)
(*                                                                         *)
(* The tree is the sequence of its nodes in the order they were made, each  *)
(* with the number of its parent; the roots' parent is 0.                   *)
(***************************************************************************)
EXTENDS Naturals, SequencesExt

CONSTANTS
  Libraries,   \* what a library has: [gates, made, signals, constants, answer] of its name
  Builtin,     \* logxcontroll_loadable_library_builtin
  Embedded,    \* the libraries lxc_load_embedded_modules loads, in order
  Room,        \* places for messages the caller of lxc_load_library provides
  FewerRoom,   \* places an embedded library is told of: the size of a pointer
  Loads        \* bound: how often libraries are loaded

\* A NULL-terminated array of entities that have names.
Named(array) == array \in Seq(Range(array)) /\ \A e \in Range(array) : e.name \in STRING

\* answer is what library_operation says to library_after_loaded; "registered" is
\* the error of a signal that is there already (lxc_register_signal).
\* No path of a gate is empty: lxc_register_gate would have no node to list it at.
ASSUME LibrariesAssumption ==
  /\ Builtin \in DOMAIN Libraries
  /\ Embedded \in Seq(DOMAIN Libraries) /\ Embedded # <<>>
  /\ \A lib \in DOMAIN Libraries :
       /\ Named(Libraries[lib].gates) /\ Named(Libraries[lib].made)
       /\ Named(Libraries[lib].signals) /\ Named(Libraries[lib].constants)
       /\ Libraries[lib].answer # "registered"
       /\ \A gate \in Range(Libraries[lib].gates) \cup Range(Libraries[lib].made) :
            gate.paths \in Seq(Seq(STRING) \ {<<>>})
ASSUME RoomAssumption == Room \in Nat /\ FewerRoom \in Nat

VARIABLES
  initialized,
  behaviors, signals, constants,  \* REGISTERED_*
  nodes,                          \* the tree: [name, parent, gates]
  lib_gates,                      \* the array of gates of a library
  last,                           \* the last load: [lib, ret, errors, full]
  loaded,                         \* history: the libraries that were loaded, ...
  ready,                          \* ... and those told library_after_loaded
  loads

vars == <<initialized, behaviors, signals, constants, nodes, lib_gates, last, loaded, ready, loads>>

registries == <<behaviors, signals, constants, nodes>>

\* What a load reads and changes.
State(room) ==
  [behaviors |-> behaviors, signals |-> signals, constants |-> constants,
   nodes |-> nodes, lib_gates |-> lib_gates,
   loaded |-> loaded, ready |-> ready,
   errors |-> <<>>, ret |-> "ok", room |-> room]
-----------------------------------------------------------------------------
\* get_gate_entry_by_name, lxc_get_signal_by_name, lxc_get_constant_by_name
IsRegistered(reg, name) == \E n \in DOMAIN reg : reg[n].name = name

\* array_fix_try_add_last_null, twice: what is wrong, and with whom.
Report(s, what, name) ==
  LET places == (1 .. s.room) \ (DOMAIN s.errors)
  IN  [s EXCEPT !.errors = IF places = {} THEN @ ELSE SubSeq(@ \o <<what, name>>, 1, Min({s.room, Len(@) + 2}))]

\* A loop over an array.
ForEach(Do(_, _), s, array) ==
  LET after[n \in 0 .. Len(array)] == IF n = 0 THEN s ELSE Do(after[n - 1], array[n])
  IN  after[Len(array)]
-----------------------------------------------------------------------------
(* The library tree.                                                        *)

Children(tree, parent, name) ==
  {n \in DOMAIN tree : tree[n].parent = parent /\ tree[n].name = name}

\* recursive_search_ahead_lib_tree: how far the path leads, and to which node.
\* (Mutant: the names are compared the wrong way round.)
AwayFrom(tree, path) ==
  LET to[lvl \in 0 .. Len(path)] ==
        IF lvl = 0 THEN [lvl |-> 0, node |-> 0]
        ELSE LET p == to[lvl - 1]
                 next == {n \in DOMAIN tree : tree[n].parent = p.node /\ tree[n].name # path[lvl]}
             IN  IF p.lvl < lvl - 1 \/ next = {} THEN p ELSE [lvl |-> lvl, node |-> Min(next)]
  IN  to[Len(path)]

SearchAhead(tree, path) ==
  LET to[lvl \in 0 .. Len(path)] ==
        IF lvl = 0 THEN [lvl |-> 0, node |-> 0]
        ELSE LET p == to[lvl - 1]
                 next == Children(tree, p.node, path[lvl])
             IN  IF p.lvl < lvl - 1 \/ next = {} THEN p ELSE [lvl |-> lvl, node |-> Min(next)]
  IN  to[Len(path)]

\* get_or_create_library_path: the rest of the path is made, node under node.
Grown(tree, path) ==
  LET found == SearchAhead(tree, path)
  IN  tree \o [k \in 1 .. Len(path) - found.lvl |->
                 [name |-> path[found.lvl + k],
                  parent |-> IF k = 1 THEN found.node ELSE Len(tree) + k - 1,
                  gates |-> <<>>]]

\* ... and the gate is listed there.
List(tree, path, gate) ==
  LET grown == Grown(tree, path)
      found == SearchAhead(tree, path)
      node == IF found.lvl = Len(path) THEN found.node ELSE Len(grown)
  IN  [grown EXCEPT ![node].gates = Append(@, gate)]
-----------------------------------------------------------------------------
(* lxc_load_library                                                         *)

\* A gate is listed under each of its paths.
ListAll(tree, gate) == ForEach(LAMBDA grown, path : List(grown, path, gate), tree, gate.paths)

\* lxc_register_gate.  (Mutant: the name is not looked up.)
RegisterAnyGate(s, gate) ==
  [s EXCEPT !.behaviors = Append(@, gate), !.nodes = ListAll(@, gate)]

RegisterGate(s, gate) ==
  IF IsRegistered(s.behaviors, gate.name)
    THEN Report(s, "Gate already registered.", gate.name)
    ELSE RegisterAnyGate(s, gate)

\* lxc_register_signal; after a signal that is there already nothing more is done.
\* (Mutant: the load goes on.)
ReportSignal(s, signal) ==
  IF IsRegistered(s.signals, signal.name)
    THEN Report(s, "Signal already registered.", signal.name)
    ELSE [s EXCEPT !.signals = Append(@, signal)]

RegisterSignal(s, signal) ==
  IF s.ret # "ok" THEN s
  ELSE IF IsRegistered(s.signals, signal.name)
    THEN [Report(s, "Signal already registered.", signal.name) EXCEPT !.ret = "registered"]
    ELSE ReportSignal(s, signal)

\* lxc_register_constant_value
RegisterConstant(s, constant) ==
  IF s.ret # "ok" THEN s
  ELSE IF IsRegistered(s.constants, constant.name)
    THEN Report(s, "Constant already registered.", constant.name)
    ELSE [s EXCEPT !.constants = Append(@, constant)]

\* library_before_load: posix_libop appends the gates it has to the library's.
BeforeLoad(s, lib) ==
  [s EXCEPT !.lib_gates[lib] = @ \o Libraries[lib].made, !.loaded = @ \cup {lib}]

\* library_after_loaded: the answer goes to the caller, and nothing is unloaded.
AfterLoaded(s, lib) ==
  IF s.ret = "ok" THEN [s EXCEPT !.ready = @ \cup {lib}, !.ret = Libraries[lib].answer] ELSE s

\* (Mutant: the first gate that is there already ends the gates.)
UntilRegistered(s, gates) ==
  LET known == {n \in DOMAIN gates : IsRegistered(s.behaviors, gates[n].name)}
  IN  IF known = {} THEN ForEach(RegisterGate, s, gates)
      ELSE ForEach(RegisterGate, s, SubSeq(gates, 1, Min(known)))
LoadGates(s, gates) == ForEach(RegisterGate, s, gates)
LoadSignals(s, sigs) == ForEach(RegisterSignal, s, sigs)
LoadConstants(s, consts) == ForEach(RegisterConstant, s, consts)

LoadLibrary(s, lib) ==
  LET before == BeforeLoad(s, lib)
      gates == LoadGates(before, before.lib_gates[lib])
      sigs == LoadSignals(gates, Libraries[lib].signals)
      consts == LoadConstants(sigs, Libraries[lib].constants)
  IN  AfterLoaded(consts, lib)

\* lxc_load_embedded_modules
LoadEmbedded(s, lib) == LoadLibrary([s EXCEPT !.ret = "ok", !.room = FewerRoom], lib)
LoadEmbeddedModules(s) == ForEach(LoadEmbedded, s, Embedded)

Take(s, lib) ==
  /\ behaviors' = s.behaviors /\ signals' = s.signals /\ constants' = s.constants
  /\ nodes' = s.nodes
  /\ lib_gates' = s.lib_gates
  /\ loaded' = s.loaded /\ ready' = s.ready
  /\ last' = [lib |-> lib, ret |-> s.ret, errors |-> s.errors, full |-> Len(s.errors) >= s.room]
-----------------------------------------------------------------------------
Init ==
  /\ initialized = FALSE
  /\ behaviors = <<>> /\ signals = <<>> /\ constants = <<>> /\ nodes = <<>>
  /\ lib_gates = [lib \in DOMAIN Libraries |-> Libraries[lib].gates]
  /\ last = [lib |-> Builtin, ret |-> "ok", errors |-> <<>>, full |-> TRUE]
  /\ loaded = {} /\ ready = {}
  /\ loads = 0

\* logxcontroll_init_environment: what the loads answer is ignored.
InitEnvironment ==
  /\ ~initialized /\ loads < Loads
  /\ initialized' = TRUE
  /\ Take(LoadEmbeddedModules(LoadLibrary(State(Room), Builtin)), Last(Embedded))
  /\ loads' = loads + 1

\* logxcontroll_destroy_environment leaves what is registered.
DestroyEnvironment ==
  /\ initialized
  /\ initialized' = FALSE
  /\ UNCHANGED <<behaviors, signals, constants, nodes, lib_gates, last, loaded, ready, loads>>

\* lxc_load_shared_library, or lxc_load_library as the Java bindings call it.
LoadShared(lib) ==
  /\ loads < Loads
  /\ Take(LoadLibrary(State(Room), lib), lib)
  /\ loads' = loads + 1
  /\ UNCHANGED initialized

Next ==
  \/ InitEnvironment
  \/ DestroyEnvironment
  \/ \E lib \in DOMAIN Libraries : LoadShared(lib)

Spec == Init /\ [][Next]_vars
-----------------------------------------------------------------------------
Listings(gate, path) == Cardinality({n \in DOMAIN gate.paths : gate.paths[n] = path})

Listed(node, gate) == Cardinality({n \in DOMAIN nodes[node].gates : nodes[node].gates[n] = gate})

\* The paths to the nodes of a tree.
PathsIn(tree) ==
  LET path[n \in 0 .. Len(tree)] ==
        IF n = 0 THEN <<>> ELSE path[tree[n].parent] \o <<tree[n].name>>
  IN  path

PathTo(node) == PathsIn(nodes)[node]

Gates == {behaviors[n] : n \in DOMAIN behaviors}

\* The tree lists every registered gate under each of its paths, and no other
\* gate anywhere: paths with a common beginning share its nodes, however the
\* libraries that have them are loaded.
TreeHasTheGates ==
  /\ \A gate \in Gates : \A p \in DOMAIN gate.paths :
       LET to == SearchAhead(nodes, gate.paths[p])
       IN  to.lvl = Len(gate.paths[p]) /\ Listed(to.node, gate) = Listings(gate, gate.paths[p])
  /\ \A n \in DOMAIN nodes :
       /\ \A m \in DOMAIN nodes \ {n} : PathTo(m) # PathTo(n)
       /\ \A k \in DOMAIN nodes[n].gates :
            nodes[n].gates[k] \in Gates /\ Listings(nodes[n].gates[k], PathTo(n)) > 0

Names(entities) == {entities[n].name : n \in DOMAIN entities}

EntitiesOf(lib) ==
  {lib_gates[lib][n] : n \in DOMAIN lib_gates[lib]}
    \cup {Libraries[lib].signals[n] : n \in DOMAIN Libraries[lib].signals}
    \cup {Libraries[lib].constants[n] : n \in DOMAIN Libraries[lib].constants}

Registered == Gates \cup {signals[n] : n \in DOMAIN signals} \cup {constants[n] : n \in DOMAIN constants}

\* What a library has that another one of the same name keeps out is named to
\* the caller of lxc_load_library, or the load was stopped at a signal or the
\* caller's array is full: nothing is left out silently, not even by a library
\* that says no when it was loaded.
LeftOutIsReported ==
  last.ret # "registered" /\ ~last.full =>
    \A e \in EntitiesOf(last.lib) \ Registered :
      \E n \in DOMAIN last.errors : last.errors[n] = e.name

\* A library is told library_after_loaded only when its signals are its own and
\* it has, or was told of, all the rest; a library stopped at a signal that was
\* there never is, although its gates stay registered (lxc_load_library).
ReadyHasItsSignals ==
  \A lib \in ready : \A n \in DOMAIN Libraries[lib].signals :
    Libraries[lib].signals[n] \in {signals[k] : k \in DOMAIN signals}

\* Making the environment again, or loading a library again, registers nothing:
\* the names that are there keep what they stand for, and a library that was
\* stopped at a signal is stopped there again.
AgainChangesNothing ==
  [][loads' # loads /\ loaded' = loaded => UNCHANGED registries]_vars
=============================================================================
