------------------------------ MODULE Dataflow ------------------------------
(***************************************************************************)
(* Values on the wires of a circuit whose gates execute directly: the       *)
(* writer of a wire calls every gate on it, and a gate its function and the *)
(* writes of its outputs, before the write returns (core/facet.c).  Values  *)
(* are shared and counted: a wire holds a reference, so do the creator of a *)
(* value until it lets go and nobody else; a gate reads the value of a wire *)
(* without taking one (lxc_get_token_value).                                *)
(*                                                                         *)
(* The gates are the sorter boxes of computerphile_sort.c and the pure      *)
(* functions of functional_wrapper.c; the program is theirs too: it enables *)
(* the gates, drives the inputs, disables the gates and destroys the        *)
(* circuit.  It drives the inputs in any order, and again.                  *)
(***************************************************************************)
EXTENDS SortingNetwork, FiniteSets

CONSTANTS
  Circuits,   \* records as in SortingNetwork.tla
  Numbers,    \* what an input is driven with
  Values,     \* the memory values are allocated from
  Drives      \* bound: how often the program drives an input

VARIABLES
  circuit,
  phase,      \* "new", "enabled", "disabled"
  wire_value, \* current_value of the wires there are
  value,      \* what a Value holds, [num, refs]; NULL: free memory
  todo,       \* what is still to be done of the call in progress, in order
  drives

vars == <<circuit, phase, wire_value, value, todo, drives>>

Gates == DOMAIN circuit.kind
WiresOf(c) ==
  LET ports == {c.in[g] : g \in DOMAIN c.in} \cup {c.out[g] : g \in DOMAIN c.out}
  IN  (UNION {{arr[n] : n \in DOMAIN arr} : arr \in ports}) \ {NULL}

Sorters == {"porti", "portb", "spec"}

CircuitType(c) ==
  LET ports == Seq(WiresOf(c) \cup {NULL})
  IN  /\ IsFiniteSet(WiresOf(c))
      /\ c.in \in [DOMAIN c.kind -> ports] /\ c.out \in [DOMAIN c.kind -> ports]
      /\ \A n \in DOMAIN c.given : c.given[n] \in WiresOf(c)
      /\ \A g \in DOMAIN c.kind :
           /\ c.kind[g] \in Sorters => Len(c.in[g]) = 2 /\ Len(c.out[g]) = 2
           /\ c.kind[g] = "add" => Len(c.in[g]) = 2

ASSUME DataflowAssumption ==
  /\ Numbers \subseteq Nat /\ Drives \in Nat
  /\ NULL \notin Values /\ NULL \notin [num : Nat, refs : Nat]
  /\ \A c \in Circuits : CircuitType(c)

\* The input ports on a wire; those of the circuits here are on one gate.
Driven(w) == {p \in Gates \X (1 .. 2) :
                p[2] \in DOMAIN circuit.in[p[1]] /\ circuit.in[p[1]][p[2]] = w}

Init ==
  /\ circuit \in Circuits
  /\ phase = "new"
  /\ wire_value = [w \in WiresOf(circuit) |-> NULL]
  /\ value = [v \in Values |-> NULL]
  /\ todo = <<>>
  /\ drives = 0
-----------------------------------------------------------------------------
(* Reference counts.                                                        *)

\* lxc_refdiff_value: a value without references is freed.
Refer(val, v) == [val EXCEPT ![v].refs = @ + 1]
Unrefer(val, v) ==
  LET left == val[v].refs - 1
  IN  [val EXCEPT ![v] = IF left > 0 THEN [@ EXCEPT !.refs = left] ELSE NULL]

\* lxc_import_new_value of v into a wire that holds old.  (Mutant: the old
\* value's reference is forgotten.)
ImportOnly(val, v, old) == IF v = old \/ v = NULL THEN val ELSE Refer(val, v)

Import(val, v, old) ==
  IF v = old THEN val
  ELSE LET referred == IF v = NULL THEN val ELSE Refer(val, v)
       IN  IF old = NULL THEN referred ELSE Unrefer(referred, old)

\* lxc_create_primitive_value, in some free memory: the creator has the first
\* reference.
IsFree(v) == value[v] = NULL
Created(v, num) == [value EXCEPT ![v] = [num |-> num, refs |-> 1]]
-----------------------------------------------------------------------------
(* What a gate does with the values of its inputs: the writes and releases  *)
(* it makes, in order.                                                      *)

DriveOp(w, v) == [op |-> "drive", wire |-> w, value |-> v]
NotifyOp(w, ports) == [op |-> "notify", wire |-> w, value |-> wire_value[w], ports |-> ports]
UnrefOp(v) == [op |-> "unref", value |-> v]

\* array_fix_try_get
TryGet(arr, n) == IF n \in DOMAIN arr THEN arr[n] ELSE NULL

ValueOn(w) == IF w = NULL THEN NULL ELSE wire_value[w]

\* lxc_drive_wire_value ignores a missing wire or value.
DriveOps(w, v) == IF w = NULL \/ v = NULL THEN <<>> ELSE <<DriveOp(w, v)>>

Smaller(a, b) == value[a].num < value[b].num

\* The sorter box: of two numbers the smaller goes down, the other one right; one
\* number goes down.  It waits for every input that is wired.
NothingThere(up, left) == ValueOn(up) = NULL /\ ValueOn(left) = NULL

Missing(up, left) ==
  \/ NothingThere(up, left)
  \/ up # NULL /\ ValueOn(up) = NULL
  \/ left # NULL /\ ValueOn(left) = NULL

Sort(up, left, down, right) ==
  LET a == ValueOn(up)
      b == ValueOn(left)
      one == IF a # NULL THEN a ELSE b
  IN  IF Missing(up, left) THEN <<>>
      ELSE IF a = NULL \/ b = NULL THEN DriveOps(down, one)
      ELSE IF Smaller(a, b) THEN DriveOps(down, a) \o DriveOps(right, b)
      ELSE DriveOps(down, b) \o DriveOps(right, a)

\* The three implementations of the box: with the ports in the gate, in arrays
\* as long as they had to be, ...
PortiSorter(g) ==
  Sort(TryGet(circuit.in[g], 1), TryGet(circuit.in[g], 2),
       TryGet(circuit.out[g], 1), TryGet(circuit.out[g], 2))

\* ... with the ports in the behavior, ...
PortbSorter(g) ==
  Sort(circuit.in[g][1], circuit.in[g][2], circuit.out[g][1], circuit.out[g][2])

\* ... and with fields of its own.
SpecSorter(g) ==
  LET in == circuit.in[g]  out == circuit.out[g]
  IN  Sort(in[1], in[2], out[1], out[2])

\* functional_gate_execute: with a value on every input, the function's result is
\* driven on the output, if that is wired, and let go of.
Complete(g) == \A n \in DOMAIN circuit.in[g] : ValueOn(circuit.in[g][n]) # NULL

\* (Mutant: it is let go of first.)
ReleasedFirst(g, v) == <<UnrefOp(v)>> \o DriveOps(TryGet(circuit.out[g], 1), v)
ResultOps(g, v) == DriveOps(TryGet(circuit.out[g], 1), v) \o <<UnrefOp(v)>>

\* func_add_num
Add(g) == value[ValueOn(circuit.in[g][1])].num + value[ValueOn(circuit.in[g][2])].num

\* The gate executes and then the rest follows.
Execute(g, rest) ==
  CASE circuit.kind[g] = "add" /\ Complete(g) ->
         \E v \in Values :
           /\ IsFree(v) /\ \A u \in Values : IsFree(u) => v <= u
           /\ value' = Created(v, Add(g))
           /\ todo' = ResultOps(g, v) \o rest
    [] circuit.kind[g] = "porti" -> todo' = PortiSorter(g) \o rest /\ value' = value
    [] circuit.kind[g] = "portb" -> todo' = PortbSorter(g) \o rest /\ value' = value
    [] circuit.kind[g] = "spec" -> todo' = SpecSorter(g) \o rest /\ value' = value
    [] OTHER -> todo' = rest /\ value' = value
-----------------------------------------------------------------------------
(* The call in progress.                                                    *)

Doing(op) == todo # <<>> /\ Head(todo).op = op

\* wire_direct_propagate_wire_new_value: the wire takes the value, ...
Drive ==
  /\ Doing("drive")
  /\ LET w == Head(todo).wire
         v == Head(todo).value
     IN  /\ value' = Import(value, v, wire_value[w])
         /\ wire_value' = [wire_value EXCEPT ![w] = v]
         /\ todo' = <<[NotifyOp(w, Driven(w)) EXCEPT !.value = v]>> \o Tail(todo)
  /\ UNCHANGED <<circuit, phase, drives>>

\* ... even the one it has, and the gates on it are called.  (Mutant: the loop over
\* them stays where it is.)
SameGate(n, p) == n
NextGate(n, p) == [n EXCEPT !.ports = @ \ {p}]

Notify ==
  /\ Doing("notify")
  /\ LET n == Head(todo)
     IN  IF n.ports = {} THEN todo' = Tail(todo) /\ value' = value
         ELSE \E p \in n.ports :
                LET rest == <<NextGate(n, p)>> \o Tail(todo)
                IN  IF phase = "enabled" THEN Execute(p[1], rest)
                    ELSE todo' = rest /\ value' = value
  /\ UNCHANGED <<circuit, phase, wire_value, drives>>

Unref ==
  /\ Doing("unref")
  /\ value' = Unrefer(value, Head(todo).value)
  /\ todo' = Tail(todo)
  /\ UNCHANGED <<circuit, phase, wire_value, drives>>
-----------------------------------------------------------------------------
(* The program (computerphile_sort, test_functional_wrap).                  *)

Idle == todo = <<>>

\* lxc_circuit_set_all_gate_enable
Enable ==
  /\ Idle /\ phase = "new"
  /\ phase' = "enabled"
  /\ UNCHANGED <<circuit, wire_value, value, todo, drives>>

DriveInput(w, num) ==
  /\ Idle /\ phase = "enabled" /\ drives < Drives
  /\ \E v \in Values :
       /\ IsFree(v) /\ \A u \in Values : IsFree(u) => v <= u
       /\ value' = Created(v, num)
       /\ todo' = <<DriveOp(w, v), UnrefOp(v)>>
  /\ drives' = drives + 1
  /\ UNCHANGED <<circuit, phase, wire_value>>

Disable ==
  /\ Idle /\ phase = "enabled"
  /\ phase' = "disabled"
  /\ UNCHANGED <<circuit, wire_value, value, todo, drives>>

\* lxc_wire_destroy, once lxc_circuit_destroy has unwired the disabled gates: one
\* wire after the other, in the order of the circuit's map.
NextWire == CHOOSE w \in DOMAIN wire_value : TRUE

DestroyWire(w) ==
  /\ phase = "disabled"
  /\ w = NextWire
  /\ value' = Import(value, NULL, wire_value[w])
  /\ wire_value' = [u \in DOMAIN wire_value \ {w} |-> wire_value[u]]
  /\ UNCHANGED <<circuit, phase, todo, drives>>

Next ==
  \/ Drive
  \/ Notify
  \/ Unref
  \/ Enable
  \/ \E n \in DOMAIN circuit.given, num \in Numbers : DriveInput(circuit.given[n], num)
  \/ Disable
  \/ \E w \in DOMAIN wire_value : DestroyWire(w)

\* The call in progress goes on.
Spec == Init /\ [][Next]_vars /\ WF_vars(Drive \/ Notify \/ Unref)
-----------------------------------------------------------------------------
Num(w) == value[wire_value[w]].num

Ready == phase = "enabled" /\ Idle /\ \A n \in DOMAIN circuit.given : ValueOn(circuit.given[n]) # NULL

Count(num, wires) == Cardinality({n \in DOMAIN wires : Num(wires[n]) = num})

\* When every input has been driven, in whatever order and how often, the sorting
\* network's outputs are its inputs, the smallest first, and the adder's output
\* is the sum of its inputs.
ResultIsRight ==
  Ready =>
    LET in == circuit.given  out == circuit.result
    IN  /\ \A n \in DOMAIN out : ValueOn(out[n]) # NULL
        /\ IF Len(out) = Len(in)
             THEN /\ \A m, n \in DOMAIN out : m < n => Num(out[m]) <= Num(out[n])
                  /\ \A num \in Numbers : Count(num, in) = Count(num, out)
             ELSE Num(out[1]) = Num(in[1]) + Num(in[2])

\* A value's references are those of the wires it is on and of the creators that
\* have not let it go: no value is freed while it is on a wire, and none stays
\* when the last wire is destroyed.
Holders(v) ==
  Cardinality({w \in DOMAIN wire_value : wire_value[w] = v})
    + Cardinality({n \in DOMAIN todo : todo[n] = UnrefOp(v)})

ReferencesAreHolders ==
  \A v \in Values : (IF IsFree(v) THEN 0 ELSE value[v].refs) = Holders(v)

\* A gate and the loop over the gates of a wire use a value they took no
\* reference of (lxc_get_token_value): it is there until they are done with it,
\* whatever wires the gates they call have written meanwhile.
NoFreedValueIsUsed == \A n \in DOMAIN todo : ~IsFree(todo[n].value)

\* Every write returns.
WritesReturn == []<>Idle
=============================================================================
