------------------------------ MODULE Netlist ------------------------------
(***************************************************************************)
(* What wiring promises the program that builds a circuit: a port is on at  *)
(* most one wire, a wire has any number of ports, and a call puts one port  *)
(* on a wire, takes one off, or connects an output and an input; no call    *)
(* disturbs the other ports.                                                *)
(***************************************************************************)
CONSTANTS InPorts, OutPorts, Wires

VARIABLES inputs, outputs    \* the ports that are on a wire: <<port, wire>>

Unwired(p, links) == \A w \in Wires : <<p, w>> \notin links

Init == inputs = {} /\ outputs = {}

AttachInput(p, w) == Unwired(p, inputs) /\ inputs' = inputs \cup {<<p, w>>}
AttachOutput(o, w) == Unwired(o, outputs) /\ outputs' = outputs \cup {<<o, w>>}

Detach(links, links_next) == \E link \in links : links_next = links \ {link}

Next ==
  \/ \E p \in InPorts, w \in Wires : AttachInput(p, w) /\ UNCHANGED outputs
  \/ \E o \in OutPorts, w \in Wires : AttachOutput(o, w) /\ UNCHANGED inputs
  \/ \E p \in InPorts, o \in OutPorts, w \in Wires :
       AttachInput(p, w) /\ AttachOutput(o, w)
  \/ Detach(inputs, inputs') /\ UNCHANGED outputs
  \/ Detach(outputs, outputs') /\ UNCHANGED inputs

Spec == Init /\ [][Next]_<<inputs, outputs>>
=============================================================================
