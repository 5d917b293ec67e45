--------------------------- MODULE MCPropagation ----------------------------
(* The circuits of experiment/usecases. *)
EXTENDS Propagation, TLC

\* The sniffer of a circuit is a puppet gate on one of its wires; gates is the
\* list of the others: <<name, kind, inputs, output, behavior>>.
Assembled(gates, sniffed, drivens, handler, start, stimuli) ==
  LET names == {gates[n][1] : n \in DOMAIN gates} \cup {"sniffer"}
      Of(g) == gates[CHOOSE n \in DOMAIN gates : gates[n][1] = g]
      All(k, sniffer) == [g \in names |-> IF g = "sniffer" THEN sniffer ELSE Of(g)[k]]
  IN  [kind |-> All(2, "sniffer"), inputs |-> All(3, <<sniffed>>), output |-> All(4, NULL),
       behavior |-> All(5, "default"), drivens |-> drivens, handler |-> handler,
       start |-> start, stimuli |-> stimuli]

\* oscillators.c, create_bool_oscillator: a ring of three inverters.
Ring(gates, behavior) ==
  LET b(g) == IF g \in gates THEN behavior ELSE "default"
  IN  Assembled(<< <<"A", "not", <<"back">>, "output", b("A")>>,
                   <<"B", "not", <<"output">>, "w", b("B")>>,
                   <<"C", "not", <<"w">>, "back", b("C")>> >>,
                "output",
                "output" :> <<<<"sniffer", 1>>, <<"B", 1>>>> @@ "w" :> <<<<"C", 1>>>> @@ "back" :> <<<<"A", 1>>>>,
                "direct", "A", {})

\* With one asynchronous gate or loopbreaker, or three.
Oscillators ==
  {Ring(gates, behavior) : gates \in {{"A"}, {"A", "B", "C"}}, behavior \in {"async", "loopbreaker"}}

\* A ring that none of its programs has: one gate is a task, another breaks loops.
MixedRing == [Ring({"A"}, "async") EXCEPT !.behavior["B"] = "loopbreaker"]

\* prell.c, create_multistage_bool_network.
TwoPaths(handler) ==
  Assembled(<< <<"A", "not", <<"input">>, "a_c", "default">>,
               <<"B", "not", <<"input">>, "b_d", "default">>,
               <<"C", "not", <<"a_c">>, "c_d", "default">>,
               <<"D", "xor", <<"c_d", "b_d">>, "output", "default">> >>,
            "output",
            "input" :> <<<<"A", 1>>, <<"B", 1>>>> @@ "a_c" :> <<<<"C", 1>>>> @@ "c_d" :> <<<<"D", 1>>>>
              @@ "b_d" :> <<<<"D", 2>>>> @@ "output" :> <<<<"sniffer", 1>>>>,
            handler, NULL, {"input"})

\* prell.c, generic_test_bool_unit_assemble_circuit: a gate on two wires.  (It has
\* no bench for "and".)
Bench(kind) ==
  LET ins == IF kind = "not" THEN <<"I1">> ELSE <<"I1", "I2">>
  IN  Assembled(<< <<"G", kind, ins, "O", "default">> >>,
                "O",
                [w \in Range(ins) \cup {"O"} |->
                   IF w = "O" THEN <<<<"sniffer", 1>>>> ELSE <<<<"G", IF w = "I1" THEN 1 ELSE 2>>>>],
                "direct", NULL, Range(ins))

PrellCircuits ==
  {TwoPaths(handler) : handler \in {"direct", "nonhazard"}}
    \cup {Bench(kind) : kind \in Kinds}

UseCases == Oscillators \cup {MixedRing} \cup PrellCircuits
-----------------------------------------------------------------------------
\* When a drive of the network of prell.c returns, its output is TRUE, and it
\* waggled at most once, or not at all with tokens.
Prelling ==
  [][~MainReturned /\ MainReturned' /\ "input" \in Stimuli =>
       /\ seen' # <<>> /\ Last(seen') = TRUE
       /\ Len(seen') <= IF Handler = "direct" THEN 2 ELSE 1]_vars
=============================================================================
