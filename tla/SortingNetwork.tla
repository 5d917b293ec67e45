--------------------------- MODULE SortingNetwork ---------------------------
(***************************************************************************)
(* The circuits of experiment/usecases/computerphile_sort.c and             *)
(* function_wrapper_gate.c: which wire is on which port.  A gate's inputs   *)
(* and outputs are sequences in the order of their indices, with NULL for a *)
(* port that is not wired.                                                  *)
(***************************************************************************)
EXTENDS Naturals, Sequences

CONSTANT NULL

\* triangle_nth
Nth(i, j) == (i * (i + 1)) \div 2 + j

Wire(kind, n) == <<kind, n>>

\* A port without a wire has none of those.
ASSUME WireAssumption == NULL \notin {"i", "x", "y", "o", "a", "b", "sum"} \X Nat

\* The ports of gate j of row i in create_computerphile_sort_network.
Up(i, j) == IF i # j THEN Wire("y", Nth(i - 1, j - 1) + 1) ELSE NULL
Left(i, j) == IF j = 0 THEN Wire("i", i) ELSE Wire("x", Nth(i - 1, j - 1))
Down(i, j, elem) == IF i = elem - 1 THEN Wire("o", j) ELSE Wire("y", Nth(i, j))

\* (Mutant: the wire to the right of the gate's own row.)
RightOfRow(i, j) == IF i # j THEN Wire("x", Nth(i, j)) ELSE NULL
Right(i, j) == IF i # j THEN Wire("x", Nth(i - 1, j)) ELSE NULL

\* The network that sorts elem numbers, of gates that creator makes.
Network(creator, elem) ==
  LET Places == {p \in (0 .. elem - 1) \X (0 .. elem - 1) : p[2] <= p[1]}
  IN  [kind |-> [p \in Places |-> creator],
       in |-> [p \in Places |-> <<Up(p[1], p[2]), Left(p[1], p[2])>>],
       out |-> [p \in Places |-> <<Down(p[1], p[2], elem), Right(p[1], p[2])>>],
       given |-> [k \in 1 .. elem |-> Wire("i", k - 1)],
       result |-> [k \in 1 .. elem |-> Wire("o", k - 1)]]

\* A gate that wraps a function (lxc_generic_shorthand_func_wrap): a port for each
\* of its parameters and results, in their order.
Wrapped(params, results) == [in |-> params, out |-> results]

\* test_functional_wrap
AddAndPrint ==
  LET a == Wire("a", 0)  b == Wire("b", 0)  sum == Wire("sum", 0)
      gate == [add |-> Wrapped(<<a, b>>, <<sum>>), print |-> Wrapped(<<sum>>, <<>>)]
  IN  [kind |-> [g \in DOMAIN gate |-> g],
       in |-> [g \in DOMAIN gate |-> gate[g].in],
       out |-> [g \in DOMAIN gate |-> gate[g].out],
       given |-> <<a, b>>,
       result |-> <<sum>>]
=============================================================================
