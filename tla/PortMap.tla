------------------------------- MODULE PortMap -------------------------------
(***************************************************************************)
(* What the ports of a gate promise its owner: a name is a port's own, a    *)
(* port stays what it is as long as it is there, a wired port stays, and    *)
(* wiring one port or adding one disturbs no other.  The gates whose ports  *)
(* are checked for their names keep it (GenericGates).                      *)
(***************************************************************************)
CONSTANTS Ports      \* [name, type]

VARIABLES ports, wired

vars == <<ports, wired>>

Init == ports = {} /\ wired = {}

OwnNames(set) == \A p, q \in set : p.name = q.name => p = q

\* Ports without a wire go, others come.
Change ==
  /\ ports' \in SUBSET Ports
  /\ OwnNames(ports')
  /\ wired \subseteq ports'
  /\ UNCHANGED wired

Attach ==
  \E p \in ports \ wired : wired' = wired \cup {p} /\ UNCHANGED ports

Detach ==
  \E p \in wired : wired' = wired \ {p} /\ UNCHANGED ports

Next == Change \/ Attach \/ Detach

Spec == Init /\ [][Next]_vars
=============================================================================
