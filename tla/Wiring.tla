------------------------------- MODULE Wiring -------------------------------
(***************************************************************************)
(* core/facet.c: gates and the wires between them in one circuit.  A wired  *)
(* port is recorded twice: in the gate (a Tokenport in the slot of an input *)
(* port, the wire itself in the slot of an output port), and in the wire,   *)
(* whose arrays drivens and drivers hold a Tokenport for every port.  Each  *)
(* call below changes both sides; nothing but their order and the two       *)
(* arrays' own operations keeps them the same.                              *)
(*                                                                         *)
(* The framework wires from one thread ("TODO synchronize" in the code), so *)
(* a call is one step; lxc_circuit_destroy, which calls gates between its   *)
(* iterations, is not.  A call that is refused changes nothing and is no    *)
(* action.  What a called gate does is left out: no gate of the repository  *)
(* wires.  A gate's slots are the arrays of gate_generic.c.                 *)
(***************************************************************************)
EXTENDS Naturals, Sequences

CONSTANTS
  InPorts, OutPorts,  \* of all gates, as [gate, type, sub, index, max]
  Wires,              \* the reference designators wires may have
  Signals,
  Tokens,             \* the memory Tokenports are allocated from
  NULL

Gates == {p.gate : p \in InPorts \cup OutPorts}

\* max is what the gate answers to get_input_max_index or get_output_max_index
\* for the port's type.
Port == [gate : Gates, type : Signals, sub : Nat, index : Nat, max : Nat]

\* Wiring takes the answer for the greatest index a port may have ("get the max
\* index", lxc.h); the loops over a type's ports take it for their number.
InRange(p) == p.index <= p.max
Listed(p) == p.index < p.max

\* struct lxc_tokenport
TokenportOf == [gate : Gates, index : Nat, owner : Wires]

ASSUME WiringAssumption ==
  /\ InPorts \subseteq Port
  /\ OutPorts \subseteq Port
  /\ NULL \notin Wires \cup Tokens \cup Signals
  /\ NULL \notin TokenportOf

VARIABLES
  phase,      \* "use", then the three iterations of lxc_circuit_destroy
  gates,      \* the gates of the circuit
  wire_type,  \* of the circuit's wires; NULL: no wire of that name
  token,      \* what an allocated Tokenport holds; NULL: free memory
  in_slot,    \* of the gates: the Tokenport in an input port, or NULL
  out_slot,   \* of the gates: the wire of an output port, or NULL
  drivens,    \* of the wires: arrays (array_nt) of Tokenports
  drivers

vars == <<phase, gates, wire_type, token, in_slot, out_slot, drivens, drivers>>

\* A circuit with its gates, no wire yet.
Init ==
  /\ phase = "use"
  /\ gates = Gates
  /\ wire_type = [w \in Wires |-> NULL]
  /\ token = [k \in Tokens |-> NULL]
  /\ in_slot = [p \in InPorts |-> NULL]
  /\ out_slot = [p \in OutPorts |-> NULL]
  /\ drivens = [w \in Wires |-> <<>>]
  /\ drivers = [w \in Wires |-> <<>>]
-----------------------------------------------------------------------------
(* Arrays of pointers in use up to their first NULL (array_nt).             *)

\* An array that never had an element has length 0, one that lost some has
\* NULLs at its end.
Holes(arr) == {n \in DOMAIN arr : arr[n] = NULL}

IsFirst(n, S) == n \in S /\ \A m \in S : n <= m

\* (Mutant: the element goes to the end, whatever is free.)
AppendAtEnd(arr, e) == Append(arr, e)

ArrayAppend(arr, e) ==
  IF Holes(arr) = {}
    THEN Append(arr, e)
    ELSE LET ep == CHOOSE n \in Holes(arr) : IsFirst(n, Holes(arr))
         IN  [n \in DOMAIN arr |->
                IF n = ep THEN e ELSE IF n = ep + 1 THEN NULL ELSE arr[n]]

\* (Mutant: the elements above are not shifted down.)
PopWithoutShift(arr, i) == [arr EXCEPT ![i] = NULL]

ArrayPop(arr, i) ==
  [n \in DOMAIN arr |->
     IF n < i THEN arr[n] ELSE IF n < Len(arr) THEN arr[n + 1] ELSE NULL]

\* What a loop over such an array gets to: it stops at the first NULL
\* (wire_direct_propagate_wire_new_value).
Reached(arr) == {arr[n] : n \in {m \in DOMAIN arr : \A k \in 1 .. m : arr[k] # NULL}}
-----------------------------------------------------------------------------
(* private_generic_wiring and its two callers.                              *)

Tokenport(p, w) == [gate |-> p.gate, index |-> p.index, owner |-> w]

\* The wire of a call is of the port's signal.  Its subtype is not compared with
\* the port's.
Fits(p, w) == wire_type[w] = p.type

\* malloc
IsFree(k) == token[k] = NULL

\* lxc_wire_gate_input with a wire: a new Tokenport goes to the gate, then to
\* the wire (on_successfull_input_wiring).
WireInput(p, w, k) ==
  /\ phase = "use"
  /\ InRange(p) /\ Fits(p, w)
  /\ in_slot[p] = NULL
  /\ IsFree(k)
  /\ token' = [token EXCEPT ![k] = Tokenport(p, w)]
  /\ in_slot' = [in_slot EXCEPT ![p] = k]
  /\ drivens' = [drivens EXCEPT ![w] = ArrayAppend(@, k)]
  /\ UNCHANGED <<phase, gates, wire_type, out_slot, drivers>>

\* lxc_wire_gate_output with a wire: the gate gets the wire, the wire a new
\* Tokenport (on_successfull_output_wiring).  It may have other drivers.
WireOutput(o, w, k) ==
  /\ phase = "use"
  /\ InRange(o) /\ Fits(o, w)
  /\ out_slot[o] = NULL
  /\ IsFree(k)
  /\ token' = [token EXCEPT ![k] = Tokenport(o, w)]
  /\ out_slot' = [out_slot EXCEPT ![o] = w]
  /\ drivers' = [drivers EXCEPT ![w] = ArrayAppend(@, k)]
  /\ UNCHANGED <<phase, gates, wire_type, in_slot, drivens>>

\* remove_port looks for the first Tokenport of the port's gate and index.
\* (Mutant: of its gate.)
MatchesGate(p, k) == k # NULL /\ token[k].gate = p.gate
Matches(p, k) == k # NULL /\ token[k].gate = p.gate /\ token[k].index = p.index

Place(p, arr) ==
  CHOOSE n \in DOMAIN arr :
    IsFirst(n, {m \in DOMAIN arr : Matches(p, arr[m])})

\* The same calls with a NULL wire: the gate's slot is cleared, then the wire's
\* array is searched for the port and the Tokenport found there is freed.
UnwireInput(p) ==
  LET k == in_slot[p]
      w == token[k].owner
      n == Place(p, drivens[w])
  IN  /\ k # NULL
      /\ in_slot' = [in_slot EXCEPT ![p] = NULL]
      /\ token' = [token EXCEPT ![drivens[w][n]] = NULL]
      /\ drivens' = [drivens EXCEPT ![w] = ArrayPop(@, n)]
      /\ UNCHANGED <<phase, gates, wire_type, out_slot, drivers>>

UnwireOutput(o) ==
  LET w == out_slot[o]
      n == Place(o, drivers[w])
  IN  /\ w # NULL
      /\ out_slot' = [out_slot EXCEPT ![o] = NULL]
      /\ token' = [token EXCEPT ![drivers[w][n]] = NULL]
      /\ drivers' = [drivers EXCEPT ![w] = ArrayPop(@, n)]
      /\ UNCHANGED <<phase, gates, wire_type, in_slot, drivens>>
-----------------------------------------------------------------------------
(* The circuit.                                                             *)

\* lxc_circuit_get_or_create_wire of a new name.
CreateWire(w, s) ==
  /\ phase = "use"
  /\ wire_type[w] = NULL
  /\ wire_type' = [wire_type EXCEPT ![w] = s]
  /\ UNCHANGED <<phase, gates, token, in_slot, out_slot, drivens, drivers>>

\* lxc_circuit_wire_ports_together: both ports are found by name, are of the same signal
\* and subtype and are not wired; the wire is created if need be, and if it
\* was there has the ports' type and an empty array of drivers.  (The subtype
\* of every wire is the 0 lxc_wire_create gives it.)
Suitable(o, w) ==
  \/ wire_type[w] = NULL
  \/ wire_type[w] = o.type /\ o.sub = 0 /\ Len(drivers[w]) = 0

WirePortsTogether(o, w, p, k, l) ==
  /\ phase = "use"
  /\ Listed(o) /\ Listed(p)
  /\ o.type = p.type /\ o.sub = p.sub
  /\ out_slot[o] = NULL /\ in_slot[p] = NULL
  /\ Suitable(o, w)
  /\ IsFree(k) /\ IsFree(l) /\ k # l
  /\ wire_type' = [wire_type EXCEPT ![w] = o.type]
  /\ token' = [token EXCEPT ![k] = Tokenport(o, w), ![l] = Tokenport(p, w)]
  /\ out_slot' = [out_slot EXCEPT ![o] = w]
  /\ drivers' = [drivers EXCEPT ![w] = ArrayAppend(@, k)]
  /\ in_slot' = [in_slot EXCEPT ![p] = l]
  /\ drivens' = [drivens EXCEPT ![w] = ArrayAppend(@, l)]
  /\ UNCHANGED <<phase, gates>>

\* lxc_circuit_destroy: the ports of every gate are released, ...
BeginDestroy ==
  /\ phase = "use"
  /\ phase' = "release"
  /\ UNCHANGED <<gates, wire_type, token, in_slot, out_slot, drivens, drivers>>

Release ==
  /\ phase = "release"
  /\ \/ \E p \in InPorts : Listed(p) /\ UnwireInput(p)
     \/ \E o \in OutPorts : Listed(o) /\ UnwireOutput(o)

\* (Mutant: the outputs are forgotten.)
InputsReleased == \A p \in InPorts : Listed(p) => in_slot[p] = NULL
Released == InputsReleased /\ \A o \in OutPorts : Listed(o) => out_slot[o] = NULL

ReleaseDone ==
  /\ phase = "release"
  /\ Released
  /\ phase' = "gates"
  /\ UNCHANGED <<gates, wire_type, token, in_slot, out_slot, drivens, drivers>>

\* ... then the gates are destroyed, ...
DestroyGate(g) ==
  /\ phase = "gates"
  /\ g \in gates
  /\ gates' = gates \ {g}
  /\ phase' = IF gates = {g} THEN "wires" ELSE phase
  /\ UNCHANGED <<wire_type, token, in_slot, out_slot, drivens, drivers>>

\* ... then the wires with their arrays.
DestroyWire(w) ==
  /\ phase = "wires"
  /\ wire_type[w] # NULL
  /\ wire_type' = [wire_type EXCEPT ![w] = NULL]
  /\ drivens' = [drivens EXCEPT ![w] = <<>>]
  /\ drivers' = [drivers EXCEPT ![w] = <<>>]
  /\ UNCHANGED <<phase, gates, token, in_slot, out_slot>>

Next ==
  \/ \E w \in Wires, k \in Tokens :
       \/ \E p \in InPorts : WireInput(p, w, k)
       \/ \E o \in OutPorts : WireOutput(o, w, k)
       \/ \E o \in OutPorts, p \in InPorts, l \in Tokens :
            WirePortsTogether(o, w, p, k, l)
  \/ /\ phase = "use"
     /\ (\E p \in InPorts : UnwireInput(p)) \/ (\E o \in OutPorts : UnwireOutput(o))
  \/ \E w \in Wires, s \in Signals : CreateWire(w, s)
  \/ BeginDestroy
  \/ Release
  \/ ReleaseDone
  \/ \E g \in gates : DestroyGate(g)
  \/ \E w \in Wires : DestroyWire(w)

Spec == Init /\ [][Next]_vars
-----------------------------------------------------------------------------
\* A Tokenport names its port by gate and index alone: two ports of a gate that
\* differ in nothing but their subtype are the same to remove_port.
Distinct(ports) ==
  \A p, q \in ports :
    p.gate = q.gate /\ p.type = q.type /\ p.index = q.index => p = q

\* No port has the index its gate answers to get_*_max_index.  Of a boolean gate,
\* which answers 20 for its 21 inputs, the last input has.
AllListed == \A p \in InPorts \cup OutPorts : Listed(p)

\* "no intermediate NULL" (utils.h): an array is used up to some place.
Packed(arr) ==
  \E last \in 0 .. Len(arr) : \A n \in DOMAIN arr : arr[n] # NULL <=> n <= last

TypeOK ==
  /\ phase \in {"use", "release", "gates", "wires"}
  /\ gates \subseteq Gates
  /\ wire_type \in [Wires -> Signals \cup {NULL}]
  /\ token \in [Tokens -> TokenportOf \cup {NULL}]
  /\ in_slot \in [InPorts -> Tokens \cup {NULL}]
  /\ out_slot \in [OutPorts -> Wires \cup {NULL}]
  /\ drivens \in [Wires -> Seq(Tokens \cup {NULL})]
  /\ drivers \in [Wires -> Seq(Tokens \cup {NULL})]
  /\ \A w \in Wires : Packed(drivens[w]) /\ Packed(drivers[w])

\* The Tokenport in an input port's slot is that port's (get_input_wire
\* "returns the wire of the specified type and input", lxc.h:478), not memory
\* that was freed or belongs to another port.
SlotsHoldTheirToken ==
  \A p \in InPorts :
    p.gate \in gates /\ in_slot[p] # NULL =>
      \E w \in Wires : Fits(p, w) /\ token[in_slot[p]] = Tokenport(p, w)

\* Input p is on wire w, as its gate knows it.
On(p, w) ==
  /\ in_slot[p] # NULL
  /\ token[in_slot[p]] # NULL
  /\ token[in_slot[p]].owner = w

NoDuplicates(arr) ==
  \A m, n \in DOMAIN arr : arr[m] = arr[n] /\ arr[n] # NULL => m = n

\* The gates' side and the wires' side agree: writing a wire gets to the
\* Tokenports of exactly the input ports that are on it, each of them once,
\* and a wire knows exactly the outputs that drive it, as long as there are
\* gates.
SidesAgree ==
  gates # {} =>
  \A w \in Wires :
    /\ NoDuplicates(drivens[w]) /\ NoDuplicates(drivers[w])
    /\ Reached(drivens[w]) = {in_slot[p] : p \in {q \in InPorts : On(q, w)}}
    /\ {token[k] : k \in Reached(drivers[w])} =
         {Tokenport(o, w) : o \in {q \in OutPorts : out_slot[q] = w}}

\* Every allocated Tokenport is in the array of its wire, so each is freed
\* when its port is unwired, and none is left after lxc_circuit_destroy.
NothingLeaks ==
  {k \in Tokens : ~IsFree(k)} =
    UNION {Reached(drivens[w]) \cup Reached(drivers[w]) : w \in Wires}

\* "destroys the logx gate instance even if is in use, so framework should
\* care about to take away all resource before" (lxc.h:456): of a destroyed gate
\* no port is on a wire, and no wire names one, but those that the loop of
\* release_port_generic does not get to.
OnlyUnlistedPortsStayWired ==
  /\ \A p \in InPorts : Listed(p) /\ in_slot[p] # NULL => p.gate \in gates
  /\ \A o \in OutPorts : Listed(o) /\ out_slot[o] # NULL => o.gate \in gates
  /\ \A w \in Wires : \A k \in Reached(drivens[w]) \cup Reached(drivers[w]) :
       \/ token[k].gate \in gates
       \/ \E p \in InPorts \cup OutPorts :
            ~Listed(p) /\ Fits(p, w) /\ token[k] = Tokenport(p, w)

\* What is wired to what, told from the arrays of the wires.
Links(ports, arrays) ==
  {link \in ports \X Wires :
     /\ Fits(link[1], link[2])
     /\ \E k \in Reached(arrays[link[2]]) : token[k] = Tokenport(link[1], link[2])}

Net == INSTANCE Netlist WITH inputs <- Links(InPorts, drivens),
                             outputs <- Links(OutPorts, drivers)

\* A call on one port changes what the wires know of that port only.
WiresLikeANetlist == Net!Spec
=============================================================================
