------------------------------ MODULE MCWiring ------------------------------
(* Instances of Wiring for TLC. *)
EXTENDS Wiring, TLC

P(g, s, n, i, m) == [gate |-> g, type |-> s, sub |-> n, index |-> i, max |-> m]

\* Two boolean gates, which answer 20 for the greatest index of their 21 inputs
\* and 1 for that of their output: the first and the last input of one, an input
\* of the other, and the outputs, which can drive the same wire.
TwoGatesIn == {P("g1", "bool", 0, 0, 20), P("g1", "bool", 0, 20, 20), P("g2", "bool", 0, 0, 20)}
TwoGatesOut == {P("g1", "bool", 0, 0, 1), P("g2", "bool", 0, 0, 1)}

\* A gate whose two inputs differ in nothing but their subtype.
SubtypesIn == {P("g1", "struct", 0, 0, 1), P("g1", "struct", 1, 0, 1)}
SubtypesOut == {P("g2", "struct", 1, 0, 1)}

Symmetry == Permutations(Tokens) \cup Permutations(Wires)
=============================================================================
