----------------------------- MODULE MCDataflow -----------------------------
(* Instances of Dataflow for TLC. *)
EXTENDS Dataflow

\* Each implementation of the sorter box, and the functional gates.
AllCircuits == {Network("spec", 3), Network("porti", 2), Network("portb", 2), AddAndPrint}

\* Enough for the wires of any of the circuits, and the creators.
SomeValues == 1 .. 6
=============================================================================
