-------------------------- MODULE MCLineProcessor --------------------------
(* Instances of LineProcessor for TLC. *)
EXTENDS LineProcessor

Texts(len) == UNION {[1 .. n -> {"a", "c", "n", "r"}] : n \in 0 .. len}

\* Files whose carriage returns are before a newline: shorter than the buffer,
\* as long, and longer.
SomeFiles == {text \in Texts(5) : \A n \in DOMAIN text : text[n] = "r" => n < Len(text) /\ text[n + 1] = "n"}
=============================================================================
