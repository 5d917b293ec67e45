------------------------------ MODULE Network -------------------------------
(***************************************************************************)
(* What a circuit promises of its wires, whatever calls, queues, threads    *)
(* and handlers carry the activations: a wire changes when the program      *)
(* drives it or when the gate behind it computes of the values its inputs   *)
(* have at that moment.                                                     *)
(***************************************************************************)
EXTENDS BoolGates

CONSTANT Circuits

VARIABLES circuit, value

Init ==
  /\ circuit \in Circuits
  /\ value = [w \in DOMAIN circuit.drivens |->
                IF circuit.start # NULL /\ w = circuit.inputs[circuit.start][1] THEN FALSE ELSE NULL]

Stimulate(w) == \E v \in BOOLEAN : value' = [value EXCEPT ![w] = v]

Fire(g) ==
  LET inputs == circuit.inputs[g]
      vals == [i \in DOMAIN inputs |-> value[inputs[i]]]
  IN  /\ circuit.kind[g] # "sniffer" /\ circuit.output[g] # NULL
      /\ \A i \in DOMAIN vals : vals[i] # NULL
      /\ value' = [value EXCEPT ![circuit.output[g]] = Logic(circuit.kind[g], vals)]

Next ==
  /\ UNCHANGED circuit
  /\ \/ \E w \in circuit.stimuli : Stimulate(w)
     \/ \E g \in DOMAIN circuit.kind : Fire(g)

Spec == Init /\ [][Next]_<<circuit, value>>
=============================================================================
