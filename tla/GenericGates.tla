---------------------------- MODULE GenericGates ----------------------------
(***************************************************************************)
(* The gates of gate_generic.c, one direction of one gate: how its ports    *)
(* and the array of its wires change together.  The kinds of gate differ in *)
(* who changes the ports:                                                   *)
(*   "behavior"  the ports are the behavior's, set up before the first      *)
(*               gate is made, and the array has the size they then have;   *)
(*   "const"     the output of line_processor.c's const gate follows the    *)
(*               type of the constant its property names;                   *)
(*   "sockaddr"  the inputs of posix/socketaddress_create.c follow the      *)
(*               address family its property names;                         *)
(*   "javaIn"    a Java program adds the inputs of a bridge gate            *)
(*               (JavaBridgeGate.addInputPort);                             *)
(*   "javaOut"   and its outputs (JavaBridgeGate.addOutputPort).            *)
(* The framework changes a gate's ports and wires from one thread.          *)
(***************************************************************************)
EXTENDS PortManager, SequencesExt

CONSTANTS
  Kinds,
  BehaviorPorts,  \* what a behavior is set up with, one after the other
  MaxOutputs,     \* bound: how many outputs a Java program adds
  Constants,      \* registered constant values, as [name, type]
  NULL

\* The types of the socket address gate's inputs.
StringType == [signal |-> "string", sub |-> 0]
IntType == [signal |-> "int", sub |-> 0]

ASSUME GatesAssumption ==
  /\ Kinds \subseteq {"behavior", "const", "sockaddr", "javaIn", "javaOut"}
  /\ {"const", "address", "port"} \subseteq Names
  /\ {StringType, IntType} \subseteq Types
  /\ \A c \in Constants : c.type \in Types
  /\ NULL \notin Constants \cup [name : Names, type : Types] \cup [type : Types, index : Nat]

\* The code that sets up a behavior (functional_wrapper.c, the behaviors of
\* computerphile_sort.c, line_processor.c and posix/) names each port of one
\* direction in a literal list, in which no name is twice.
ASSUME BehaviorAssumption ==
  /\ MaxOutputs \in Nat
  /\ BehaviorPorts \in Seq([name : Names, type : Types])
  /\ \A i, j \in DOMAIN BehaviorPorts : BehaviorPorts[i].name = BehaviorPorts[j].name => i = j

VARIABLES
  kind,
  made,       \* the gate exists
  mgr,        \* its port manager
  wires,      \* inputs or outputs: for which port the wire there was wired
  constant,   \* const: the constant_value
  family      \* sockaddr: the family, whose creator is the current one

vars == <<kind, made, mgr, wires, constant, family>>

\* lxc_generic_portb_init and lxc_generic_porti_init: an array of the size the
\* ports have.  The default of the property "family" is the family a new gate
\* already has, the default of "const" is no constant.
Init ==
  /\ kind \in Kinds
  /\ made = (kind # "behavior")
  /\ mgr = NoPorts
  /\ wires = <<>>
  /\ constant = NULL
  /\ family = "UNSPEC"

\* lxc_port_unchecked_add_new_port as the set up of a behavior calls it: the
\* name is not looked for.
AddBehaviorPort ==
  /\ kind = "behavior" /\ Count(mgr) < Len(BehaviorPorts)
  /\ LET port == BehaviorPorts[Count(mgr) + 1] IN mgr' = AddPort(mgr, port.name, port.type)
  /\ UNCHANGED <<kind, made, wires, constant, family>>

\* lxc_generic_portb_gate_create, of a behavior that was set up.
CreateGate ==
  /\ ~made /\ Count(mgr) = Len(BehaviorPorts)
  /\ made' = TRUE
  /\ wires' = [s \in 1 .. Count(mgr) |-> NULL]
  /\ UNCHANGED <<kind, mgr, constant, family>>
-----------------------------------------------------------------------------
(* What a gate answers for a port (get_*_max_index, get_*_label, get_*_wire) *)
(* with its ports in the behavior, or in the instance.                      *)

BehaviorAnswer(t, k) ==
  [max |-> TypeMaxIndex(mgr, t), label |-> Label(mgr, t, k, NULL),
   wire |-> WireAt(mgr, wires, t, k, Count(mgr), NULL)]

InstanceAnswer(t, k) ==
  [max |-> TypeMaxIndex(mgr, t), label |-> Label(mgr, t, k, NULL),
   wire |-> WireAt(mgr, wires, t, k, Len(wires), NULL)]

Answer(t, k) == IF kind = "behavior" THEN BehaviorAnswer(t, k) ELSE InstanceAnswer(t, k)

\* The types a gate answers (lxc_port_fill_types), those that lost their ports
\* among them.
AnsweredTypes == mgr.types

\* The labels of a type's ports, and of all types' one after the other
\* (lxc_gate_get_input_labels, lxc_gate_enumerate_input_labels_into).
LabelsOf(t) == [n \in 1 .. Answer(t, 0).max |-> Answer(t, n - 1).label]
Labels == FlattenSeq([ti \in DOMAIN AnsweredTypes |-> LabelsOf(AnsweredTypes[ti])])

\* The first port of a name among those of some types.
FirstPort(n, tis) ==
  LET has(ti) == {k \in DOMAIN LabelsOf(AnsweredTypes[ti]) : LabelsOf(AnsweredTypes[ti])[k] = n}
      found == {ti \in tis : has(ti) # {}}
  IN  IF found = {} THEN NULL
      ELSE [type |-> AnsweredTypes[Least(found)], index |-> Least(has(Least(found))) - 1]

\* lxc_gate_get_portinfo_by_name.  (Mutant: the types after the first are not
\* reached.)
PortOfFirstType(n) == FirstPort(n, DOMAIN AnsweredTypes \cap {1})
PortByName(n) == FirstPort(n, DOMAIN AnsweredTypes)
-----------------------------------------------------------------------------
(* Wiring (Wiring.tla) calls wire_input or wire_output for a port that has  *)
(* no wire, and again with NULL to take the wire off.                       *)

\* The array the wire is written to.
Array == IF kind = "behavior" THEN wires ELSE WithRoom(mgr, wires, NULL)

\* lxc_port_wiring
Put(t, k, w) ==
  /\ k < Answer(t, k).max
  /\ wires' = [Array EXCEPT ![AbsIndex(mgr, t, k) + 1] = w]
  /\ UNCHANGED <<kind, made, mgr, constant, family>>

WirePort(t, k) ==
  /\ made
  /\ Answer(t, k).wire = NULL
  /\ Put(t, k, [name |-> Answer(t, k).label, type |-> t])

UnwirePort(t, k) ==
  /\ made
  /\ Answer(t, k).wire # NULL
  /\ Put(t, k, NULL)
-----------------------------------------------------------------------------
(* A gate with a property manager has the properties that were added to its *)
(* behavior; another name is LXC_ERROR_ENTITY_NOT_FOUND and changes nothing. *)

Properties == IF kind = "const" THEN {"const"} ELSE IF kind = "sockaddr" THEN {"family"} ELSE {}

\* generic_prop_operation
HasProperty(name) == name \in Properties
-----------------------------------------------------------------------------
(* The property "const" (const_gate__const_selector).                       *)

\* An empty name: the value goes, the port stays.
ClearConstant ==
  /\ HasProperty("const")
  /\ constant # NULL
  /\ constant' = NULL
  /\ UNCHANGED <<kind, made, mgr, wires, family>>

\* "if compatibe, we dont care it's wired or not"
Compatible(c) ==
  mgr.types[1].signal = c.type.signal \/ mgr.types[1].sub = c.type.sub

\* A wired port keeps its type: the constant is refused.  (Mutant: the wire is not
\* looked at.)
NeverKept == FALSE
KeepsPort == wires # <<>> /\ wires[1] # NULL

WithoutItsPort ==
  IF mgr.types = <<>> THEN mgr ELSE RemoveOnlyPort(mgr, mgr.types[1])

SelectConstant(c) ==
  /\ HasProperty("const")
  /\ IF mgr.types # <<>> /\ Compatible(c)
       THEN mgr' = mgr
       ELSE ~KeepsPort /\ mgr' = AddPort(WithoutItsPort, "const", c.type)
  /\ constant' = c
  /\ UNCHANGED <<kind, made, wires, family>>
-----------------------------------------------------------------------------
(* The property "family" (sockaddress_create_property_validator).           *)

\* (Mutant: in the other order.)
PortFirst == AddPort(AddPort(NoPorts, "port", IntType), "address", StringType)

\* inet_on_use
InetPorts == AddPort(AddPort(NoPorts, "address", StringType), "port", IntType)

\* on_creator_use of the new family, after lxc_port_wipe_all.
PortsOfFamily(f) == IF f = "INET" THEN InetPorts ELSE NoPorts

\* The family and its creator change first; with a wire on an input the call
\* then fails (LXC_ERROR_PORT_IS_IN_USE) and the ports stay.
SelectFamily(f) ==
  /\ HasProperty("family")
  /\ f # family
  /\ family' = f
  /\ mgr' = IF AnyWireConnected(mgr, wires, NULL) THEN mgr ELSE PortsOfFamily(f)
  /\ UNCHANGED <<kind, made, wires, constant>>
-----------------------------------------------------------------------------
(* The bridge gate of a Java program.                                       *)

\* assertPortnameNotInUse throws if the name is there.
NameIsNew(n) == ~InUse(mgr, n)

AddInputPort(n, t) ==
  /\ kind = "javaIn"
  /\ NameIsNew(n)
  /\ mgr' = AddPort(mgr, n, t)
  /\ UNCHANGED <<kind, made, wires, constant, family>>

\* An output's name is not looked for.
AddOutputPort(n, t) ==
  /\ kind = "javaOut"
  /\ Count(mgr) < MaxOutputs
  /\ mgr' = AddPort(mgr, n, t)
  /\ UNCHANGED <<kind, made, wires, constant, family>>

Indices == 0 .. Count(mgr) - 1

Next ==
  \/ AddBehaviorPort
  \/ CreateGate
  \/ \E t \in Types, k \in Indices : WirePort(t, k) \/ UnwirePort(t, k)
  \/ \E n \in Names, t \in Types : AddInputPort(n, t) \/ AddOutputPort(n, t)
  \/ ClearConstant
  \/ \E c \in Constants : SelectConstant(c)
  \/ \E f \in {"INET", "UNSPEC"} : SelectFamily(f)

Spec == Init /\ [][Next]_vars
-----------------------------------------------------------------------------
TypeOK ==
  /\ kind \in Kinds
  /\ made \in BOOLEAN
  /\ mgr \in Manager
  /\ wires \in Seq([name : Names, type : Types] \cup {NULL})
  /\ constant \in Constants \cup {NULL}
  /\ family \in {"INET", "UNSPEC"}

\* The names and the types' indices stay one-to-one through additions and
\* changes of type, of ports of any kind of gate: no port is found under two types
\* or indices, none is lost, and none of the indices leads to a removed port
\* (lxc_port_unchecked_add_new_port; lxc_port_remove_port as the const gate calls
\* it).
PortsCorrespond == Corresponds(mgr)

\* The port that is at an absolute index, as its gate answers for it.
IsPortAt(s, p) ==
  /\ mgr.names[s] = p.name
  /\ \E k \in 0 .. TypeMaxIndex(mgr, p.type) - 1 : AbsIndex(mgr, p.type, k) = s - 1

\* A wire stays with the port it was wired to while ports are added, the constant's
\* port is made anew and the family's ports are wiped: the place in the array it
\* was put in is that port's, in range of every later lxc_port_wiring, which writes
\* the array without looking at its length.
WiresStayWithTheirPorts ==
  /\ \A s \in DOMAIN wires : wires[s] # NULL => s \in DOMAIN mgr.names /\ IsPortAt(s, wires[s])
  /\ \A t \in Types, k \in Indices :
       made /\ AbsIndex(mgr, t, k) >= 0 => AbsIndex(mgr, t, k) < Len(Array)

\* The outputs of a bridge gate do not count: nothing looks for their names.
HasNamesOfItsOwn == kind # "javaOut"
NamedPorts == IF HasNamesOfItsOwn THEN PortsOf(mgr) ELSE {}
NamedWired == IF HasNamesOfItsOwn THEN WiredPorts(mgr, wires) ELSE {}

Map == INSTANCE PortMap WITH Ports <- [name : Names, type : Types],
                             ports <- NamedPorts, wired <- NamedWired

\* The ports of every kind but "javaOut" behave as a set of named ports: const's
\* and the family's selectors remove or retype no wired port, and a call on one
\* port is seen on that port only.
PortsLikeAMap == Map!Spec

\* Ports of every kind but "javaOut" are found by their names, which a program
\* wires them by (lxc_gate_get_portinfo_by_name): the enumeration has each of them
\* once, and the type and index a name leads to are those of the place that has the
\* name.
NamesLeadToPorts ==
  made /\ HasNamesOfItsOwn =>
  /\ Len(Labels) = Count(mgr) - Cardinality(FreeSlots(mgr))
  /\ \A s \in DOMAIN mgr.names \ FreeSlots(mgr) :
       LET port == PortByName(mgr.names[s])
       IN  port # NULL /\ AbsIndex(mgr, port.type, port.index) = s - 1

\* "newly registered bort abs index" (PortManager.java:64): the index that
\* addInputPort returns, at which the input's callback is kept, is that of the port
\* that was added.
ReturnsTheNewPort ==
  [][\A n \in Names, t \in Types :
       AddInputPort(n, t) => AbsIndexByName(mgr', n) = SlotForNew(mgr) - 1]_vars

\* inet_create_socket takes the value of input 0 for a string and that of input
\* 1 for an int, by absolute index: while INET is the creator they are.
CreatorFindsItsInputs ==
  kind = "sockaddr" /\ family = "INET" =>
    /\ AbsIndex(mgr, StringType, 0) = 0
    /\ AbsIndex(mgr, IntType, 0) = 1
=============================================================================
