---------------------------- MODULE PortManager ----------------------------
(***************************************************************************)
(* struct lxc_port_manager of core/builtins/gate_generic.c: the ports of    *)
(* one direction of a gate.  A port has a name at an absolute index, which  *)
(* is where a gate keeps its wire, and is asked for by type and index       *)
(* within the type: to_abs says at which absolute index the ports of each   *)
(* type are.  A type is a signal and a subtype.                             *)
(*                                                                         *)
(* Absolute indices and the indices within a type start with 0, as in the   *)
(* code; the place of index i in a sequence is i + 1.                       *)
(***************************************************************************)
EXTENDS Integers, Sequences

CONSTANTS
  Names, Types,
  EMPTY       \* lxc_port_empty_name, the name of a removed port

ASSUME EmptyAssumption == EMPTY \notin Names

Manager == [names : Seq(Names \cup {EMPTY}),  \* port_names; max_size is its length
            types : Seq(Types),               \* managed_types
            to_abs : Seq(Seq(Nat))]           \* of each managed type

NoPorts == [names |-> <<>>, types |-> <<>>, to_abs |-> <<>>]

Count(m) == Len(m.names)

IsLeast(n, S) == n \in S /\ \A k \in S : n <= k
Least(S) == CHOOSE n \in S : IsLeast(n, S)

IsManaged(m, t) == \E ti \in DOMAIN m.types : m.types[ti] = t
TypeIndex(m, t) == Least({ti \in DOMAIN m.types : m.types[ti] = t})

\* What gates answer to get_*_max_index: the number of ports of the type.
TypeMaxIndex(m, t) == IF IsManaged(m, t) THEN Len(m.to_abs[TypeIndex(m, t)]) ELSE -1

AbsIndex(m, t, k) ==
  IF k < TypeMaxIndex(m, t) THEN m.to_abs[TypeIndex(m, t)][k + 1] ELSE -1

InUse(m, n) == \E s \in DOMAIN m.names : m.names[s] = n

\* lxc_port_get_absindex_by_name, for a name that is there: it has no end.
AbsIndexByName(m, n) == Least({s \in DOMAIN m.names : m.names[s] = n}) - 1
-----------------------------------------------------------------------------
(* lxc_port_unchecked_add_new_port                                          *)

FreeSlots(m) == {s \in DOMAIN m.names : m.names[s] = EMPTY}
FreeTypes(m) == {ti \in DOMAIN m.types : m.to_abs[ti] = <<>>}

\* A type that lost its ports gives its place to a new type.
WithType(m, t) ==
  IF IsManaged(m, t) THEN m
  ELSE IF FreeTypes(m) # {} THEN [m EXCEPT !.types[Least(FreeTypes(m))] = t]
  ELSE [m EXCEPT !.types = Append(@, t), !.to_abs = Append(@, <<>>)]

\* A removed port's place is used again, or the names grow.  (Mutant: they grow
\* by one too few, as if the number of ports were the index of the last one.)
SlotOffByOne(m) ==
  IF FreeSlots(m) # {} THEN Least(FreeSlots(m)) ELSE IF m.names = <<>> THEN 1 ELSE Count(m)
SlotForNew(m) == IF FreeSlots(m) = {} THEN Count(m) + 1 ELSE Least(FreeSlots(m))

AddPort(m, n, t) ==
  LET w == WithType(m, t)
      s == SlotForNew(m)
  IN  [names |-> IF s \in DOMAIN m.names THEN [m.names EXCEPT ![s] = n] ELSE Append(m.names, n),
       types |-> w.types,
       to_abs |-> [w.to_abs EXCEPT ![TypeIndex(w, t)] = Append(@, s - 1)]]
-----------------------------------------------------------------------------
(* lxc_port_remove_port, for the port of its only caller: the only port of   *)
(* its type, at the type's index 0 and at absolute index 0.                 *)

\* The type stays, with no port.  array_pnt_pop_element, which takes to_abs[ti]
\* for an array of 8-byte pointers, finds no element to pop: index 0 in the first
\* 4 bytes and the zeros array_pnt_init left in the other 4 are its NULL.  Of a
\* longer array, or of another absolute index, it would pop two indices at a time
\* and read memory nobody wrote: no code of the repository removes such a port.
RemoveOnlyPort(m, t) ==
  IF AbsIndex(m, t, 0) < 0 THEN m
  ELSE [names |-> [m.names EXCEPT ![AbsIndex(m, t, 0) + 1] = EMPTY],
        types |-> m.types,
        to_abs |-> [m.to_abs EXCEPT ![TypeIndex(m, t)] = <<>>]]
-----------------------------------------------------------------------------
(* The wires of the ports, in an array indexed by the absolute index.       *)

\* lxc_port_is_any_wire_connected
AnyWireConnected(m, wires, none) ==
  \E s \in DOMAIN wires : s <= Count(m) /\ wires[s] # none

\* lxc_port_get_wire_safe, where the array is said to have size places.
WireAt(m, wires, t, k, size, none) ==
  LET abs == AbsIndex(m, t, k)
  IN  IF abs < 0 \/ abs >= size THEN none ELSE wires[abs + 1]

\* lxc_generic_get_port_label
Label(m, t, k, none) ==
  LET abs == AbsIndex(m, t, k)
  IN  IF abs < 0 THEN none ELSE m.names[abs + 1]

\* force_index_available: the array has a place for every port.  (Mutant: the
\* array only grows when it has more places than there are ports.)
GrowsTooLate(m, wires, none) ==
  [s \in 1 .. (IF Count(m) > Len(wires) + 1 THEN Count(m) ELSE Len(wires)) |->
     IF s \in DOMAIN wires THEN wires[s] ELSE none]
WithRoom(m, wires, none) ==
  [s \in 1 .. (IF Count(m) >= Len(wires) THEN Count(m) ELSE Len(wires)) |->
     IF s \in DOMAIN wires THEN wires[s] ELSE none]
-----------------------------------------------------------------------------
\* The port at an absolute index is found by exactly one type and index.
Corresponds(m) ==
  /\ Len(m.to_abs) = Len(m.types)
  /\ \A ti, tj \in DOMAIN m.types : m.types[ti] = m.types[tj] => ti = tj
  /\ \A ti \in DOMAIN m.types : \A k \in DOMAIN m.to_abs[ti] :
       /\ m.to_abs[ti][k] + 1 \in DOMAIN m.names \ FreeSlots(m)
       /\ \A tj \in DOMAIN m.types : \A l \in DOMAIN m.to_abs[tj] :
            m.to_abs[ti][k] = m.to_abs[tj][l] => ti = tj /\ k = l
  /\ \A s \in DOMAIN m.names \ FreeSlots(m) :
       \E ti \in DOMAIN m.types : \E k \in DOMAIN m.to_abs[ti] : m.to_abs[ti][k] + 1 = s

\* The ports by name and type, and those whose place in the array of wires holds
\* a wire that was put there for them.
PortsOf(m) ==
  UNION {{[name |-> m.names[abs + 1], type |-> m.types[ti]] :
            abs \in {m.to_abs[ti][k] : k \in DOMAIN m.to_abs[ti]}} : ti \in DOMAIN m.types}

WiredPorts(m, wires) ==
  {p \in PortsOf(m) : \E s \in DOMAIN wires \cap DOMAIN m.names :
                        m.names[s] = p.name /\ wires[s] = p}
=============================================================================
