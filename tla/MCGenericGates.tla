--------------------------- MODULE MCGenericGates ---------------------------
(* Instances of GenericGates for TLC. *)
EXTENDS GenericGates

T(s, n) == [signal |-> s, sub |-> n]

\* The types of the socket address gate, and a struct type that differs from
\* them in signal and subtype.
SomeTypes == {T("string", 0), T("int", 0), T("struct", 1)}

SomeConstants == {[name |-> "hello", type |-> T("string", 0)],
                  [name |-> "one", type |-> T("int", 0)],
                  [name |-> "point", type |-> T("struct", 1)]}

\* Two ports of a type, with one of another between them.
ThreePorts == <<[name |-> "address", type |-> T("string", 0)],
                [name |-> "const", type |-> T("struct", 1)],
                [name |-> "port", type |-> T("string", 0)]>>
=============================================================================
