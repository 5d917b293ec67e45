----------------------------- MODULE BoolGates ------------------------------
(***************************************************************************)
(* arithmetic/lxc_bool_gates.c: what the boolean gates compute of the       *)
(* values on their wired inputs, in the order of the ports.  A gate that    *)
(* gives NULL drives nothing.                                               *)
(***************************************************************************)
EXTENDS Naturals, Sequences

CONSTANT NULL

Kinds == {"nand", "nor", "and", "or", "not", "xor"}

Some(vals, b) == \E i \in DOMAIN vals : vals[i] = b

\* (Mutant: the last input decides.)
NandOfLast(vals) == ~vals[Len(vals)]
Nand(vals) == Some(vals, FALSE)

Nor(vals) == ~Some(vals, TRUE)

\* Word for word the function of nor.
And(vals) == ~Some(vals, TRUE)

Or(vals) == Some(vals, TRUE)

Not(vals) == ~vals[1]

\* Neighbours are compared.  (Mutant: for equality.)
Xnor(vals) == \A i \in 2 .. Len(vals) : vals[i] = vals[i - 1]
Xor(vals) == \A i \in 2 .. Len(vals) : vals[i] # vals[i - 1]

Logic(kind, vals) ==
  IF vals = <<>> \/ (kind = "xor" /\ Len(vals) = 1) THEN NULL
  ELSE CASE kind = "nand" -> Nand(vals)
         [] kind = "nor" -> Nor(vals)
         [] kind = "and" -> And(vals)
         [] kind = "or" -> Or(vals)
         [] kind = "not" -> Not(vals)
         [] kind = "xor" -> Xor(vals)

\* What the gates are named after.
Meaning(kind, vals) ==
  CASE kind = "nand" -> \E i \in DOMAIN vals : ~vals[i]
    [] kind = "nor" -> \A i \in DOMAIN vals : ~vals[i]
    [] kind = "and" -> \A i \in DOMAIN vals : vals[i]
    [] kind = "or" -> \E i \in DOMAIN vals : vals[i]
    [] kind = "not" -> ~vals[1]
    [] kind = "xor" -> vals[1] # vals[2]

\* What they compute: the function of "and" is the one of nor.
Yields(kind, vals) == Meaning(IF kind = "and" THEN "nor" ELSE kind, vals)
=============================================================================
