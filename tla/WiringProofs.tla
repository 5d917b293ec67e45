---------------------------- MODULE WiringProofs ----------------------------
(***************************************************************************)
(* Theorems about Wiring, for any gates, ports, wires and memory, as long   *)
(* as no two ports of a gate differ in nothing but their subtype.  Those    *)
(* about wires that are destroyed, whose arrays are then freed, also assume *)
(* AllListed, that no port has the index its gate answers to                *)
(* get_*_max_index (the last input of a boolean gate has).                  *)
(***************************************************************************)
EXTENDS Wiring, SequenceTheorems, TLAPS

\* The arrays of pointers, without reference to wires.
Cell == Tokens \cup {NULL}
Elems(arr) == {arr[n] : n \in DOMAIN arr} \ {NULL}
Array(arr) == arr \in Seq(Cell) /\ Packed(arr) /\ NoDuplicates(arr)

\* A function on 1 .. n is a sequence of length n (array_nt arrays are built
\* as functions in ArrayAppend and ArrayPop).
LEMMA FunctionIsSeq ==
  ASSUME NEW S, NEW n \in Nat, NEW f \in [1 .. n -> S]
  PROVE  f \in Seq(S) /\ Len(f) = n /\ DOMAIN f = 1 .. n
<1>1. f \in Seq(S)
  BY SeqDef
<1>2. DOMAIN f = 1 .. n
  OBVIOUS
<1>3. Len(f) \in Nat /\ DOMAIN f = 1 .. Len(f)
  BY <1>1, LenProperties
<1>4. Len(f) = n
  BY <1>2, <1>3, SMT
<1> QED
  BY <1>1, <1>2, <1>4

\* A loop that stops at the first NULL gets to every element of an array.
LEMMA ReachesAll ==
  ASSUME NEW arr, Array(arr)
  PROVE  Reached(arr) = Elems(arr)
<1>1. Len(arr) \in Nat /\ DOMAIN arr = 1 .. Len(arr)
  BY LenProperties DEF Array
<1>2. PICK last \in 0 .. Len(arr) : \A n \in DOMAIN arr : arr[n] # NULL <=> n <= last
  BY DEF Array, Packed
<1>3. ASSUME NEW n \in DOMAIN arr
      PROVE  arr[n] # NULL <=> \A k \in 1 .. n : arr[k] # NULL
  BY <1>1, <1>2
<1> QED
  BY <1>3 DEF Reached, Elems

\* The array a wire is created with has no element.
LEMMA EmptyArray == Array(<<>>) /\ Elems(<<>>) = {} /\ <<>> \in Seq(Cell)
<1>1. <<>> \in Seq(Cell) /\ Len(<<>>) = 0 /\ DOMAIN <<>> = {}
  BY EmptySeq
<1>2. 0 \in 0 .. Len(<<>>)
  BY <1>1
<1> QED
  BY <1>1, <1>2 DEF Array, Elems, Packed, NoDuplicates

\* array_nt_append_element adds its element and keeps the others.
LEMMA AppendAdds ==
  ASSUME NEW arr, Array(arr), NEW e \in Tokens, e \notin Elems(arr), NULL \notin Tokens
  PROVE  /\ Array(ArrayAppend(arr, e))
         /\ Elems(ArrayAppend(arr, e)) = Elems(arr) \cup {e}
<1> DEFINE len == Len(arr)
           res == ArrayAppend(arr, e)
<1>1. /\ arr \in Seq(Cell)
      /\ len \in Nat
      /\ DOMAIN arr = 1 .. len
      /\ arr \in [1 .. len -> Cell]
  BY LenProperties DEF Array
<1>2. PICK last \in 0 .. len : \A n \in DOMAIN arr : arr[n] # NULL <=> n <= last
  BY DEF Array, Packed
<1>3. CASE Holes(arr) = {}
  <2>1. res = Append(arr, e)
    BY <1>3 DEF ArrayAppend
  <2>2. /\ res \in Seq(Cell)
        /\ Len(res) = len + 1
        /\ DOMAIN res = 1 .. len + 1
        /\ \A n \in 1 .. len : res[n] = arr[n]
        /\ res[len + 1] = e
    BY <1>1, <2>1, AppendProperties, LenProperties DEF Cell
  <2>3. \A n \in 1 .. len : arr[n] # NULL
    BY <1>1, <1>3 DEF Holes
  <2>4. Packed(res)
    <3>1. \A n \in DOMAIN res : res[n] # NULL /\ n <= len + 1
      BY <1>1, <2>2, <2>3
    <3>2. len + 1 \in 0 .. Len(res)
      BY <1>1, <2>2
    <3> QED
      BY <3>1, <3>2 DEF Packed
  <2>5. NoDuplicates(res)
    <3>1. \A n \in 1 .. len : arr[n] # e
      BY <1>1, <2>3 DEF Elems
    <3> QED
      BY <1>1, <2>2, <2>3, <3>1 DEF NoDuplicates, Array
  <2>6. Elems(res) = Elems(arr) \cup {e}
    BY <1>1, <2>2 DEF Elems
  <2> QED
    BY <2>2, <2>4, <2>5, <2>6 DEF Array
<1>4. CASE Holes(arr) # {}
  <2>1. last + 1 \in 1 .. len /\ \A n \in Holes(arr) : last + 1 <= n
    BY <1>1, <1>2, <1>4 DEF Holes
  <2>2. \A n \in Holes(arr) : IsFirst(n, Holes(arr)) <=> n = last + 1
    BY <1>1, <1>2, <2>1 DEF Holes, IsFirst
  <2>3. last + 1 \in Holes(arr)
    BY <1>1, <1>2, <2>1 DEF Holes
  <2>4. (CHOOSE n \in Holes(arr) : IsFirst(n, Holes(arr))) = last + 1
    BY <2>2, <2>3
  <2>5. res = [n \in 1 .. len |->
                 IF n = last + 1 THEN e
                 ELSE IF n = (last + 1) + 1 THEN NULL ELSE arr[n]]
    BY <1>1, <1>4, <2>4, Zenon DEF ArrayAppend
  <2>6. res = [n \in 1 .. len |-> IF n = last + 1 THEN e ELSE arr[n]]
    BY <1>1, <1>2, <2>5
  <2>7. res \in Seq(Cell) /\ Len(res) = len /\ DOMAIN res = 1 .. len
    BY <1>1, <2>6, FunctionIsSeq DEF Cell
  <2>8. Packed(res)
    <3>1. last + 1 \in 0 .. Len(res)
      BY <2>1, <2>7
    <3>2. \A n \in DOMAIN res : res[n] # NULL <=> n <= last + 1
      BY <1>1, <1>2, <2>6, <2>7
    <3> QED
      BY <3>1, <3>2 DEF Packed
  <2>9. \A n \in 1 .. len : arr[n] # e
    BY <1>1 DEF Elems
  <2>10. NoDuplicates(res)
    BY <1>1, <2>6, <2>7, <2>9 DEF NoDuplicates, Array
  <2>11. Elems(res) = Elems(arr) \cup {e}
    BY <1>1, <1>2, <2>1, <2>6, <2>7 DEF Elems
  <2> QED
    BY <2>7, <2>8, <2>10, <2>11 DEF Array
<1> QED
  BY <1>3, <1>4

\* array_nt_pop_element removes its element and keeps the others.
LEMMA PopRemoves ==
  ASSUME NEW arr, Array(arr), NEW i \in DOMAIN arr, arr[i] # NULL
  PROVE  /\ Array(ArrayPop(arr, i))
         /\ Elems(ArrayPop(arr, i)) = Elems(arr) \ {arr[i]}
<1> DEFINE len == Len(arr)
           res == ArrayPop(arr, i)
<1>1. /\ len \in Nat
      /\ DOMAIN arr = 1 .. len
      /\ arr \in [1 .. len -> Cell]
      /\ i \in 1 .. len
  BY LenProperties DEF Array
<1>2. PICK last \in 0 .. len : \A n \in 1 .. len : arr[n] # NULL <=> n <= last
  BY <1>1 DEF Array, Packed
<1>3. res = [n \in 1 .. len |->
               IF n < i THEN arr[n] ELSE IF n < len THEN arr[n + 1] ELSE NULL]
  BY <1>1 DEF ArrayPop
<1>4. res \in Seq(Cell) /\ Len(res) = len /\ DOMAIN res = 1 .. len
  <2>1. res \in [1 .. len -> Cell]
    BY <1>1, <1>3 DEF Cell
  <2> QED
    BY <1>1, <2>1, FunctionIsSeq
<1>5. i <= last
  BY <1>1, <1>2
<1>6. Packed(res)
  <2>1. last - 1 \in 0 .. Len(res)
    BY <1>1, <1>4, <1>5
  <2>2. \A n \in 1 .. len : res[n] # NULL <=> n <= last - 1
    BY <1>1, <1>2, <1>3, <1>5
  <2> QED
    BY <1>4, <2>1, <2>2 DEF Packed
<1>7. NoDuplicates(res)
  <2> SUFFICES ASSUME NEW m \in 1 .. len, NEW n \in 1 .. len,
                      res[m] = res[n], res[n] # NULL
               PROVE  m = n
    BY <1>4 DEF NoDuplicates
  <2>1. \A k, l \in 1 .. len : arr[k] = arr[l] /\ arr[l] # NULL => k = l
    BY <1>1 DEF Array, NoDuplicates
  <2> QED
    BY <1>1, <1>3, <2>1
<1>8. Elems(res) = Elems(arr) \ {arr[i]}
  <2>1. \A k, l \in 1 .. len : arr[k] = arr[l] /\ arr[l] # NULL => k = l
    BY <1>1 DEF Array, NoDuplicates
  <2>2. ASSUME NEW n \in 1 .. len, n # i, arr[n] # NULL
        PROVE  \E m \in 1 .. len : res[m] = arr[n]
    <3>1. CASE n < i
      BY <1>1, <1>3, <3>1
    <3>2. CASE n > i
      <4>1. n - 1 \in 1 .. len /\ ~(n - 1 < i) /\ n - 1 < len /\ n - 1 + 1 = n
        BY <1>1, <3>2
      <4> QED
        BY <1>3, <4>1
    <3> QED
      BY <1>1, <2>2, <3>1, <3>2
  <2>3. ASSUME NEW n \in 1 .. len, res[n] # NULL
        PROVE  \E m \in 1 .. len : m # i /\ res[n] = arr[m]
    <3>1. CASE n < i
      BY <1>1, <1>3, <3>1
    <3>2. CASE ~(n < i)
      <4>1. n < len /\ n + 1 \in 1 .. len /\ n + 1 # i /\ res[n] = arr[n + 1]
        BY <1>1, <1>3, <2>3, <3>2
      <4> QED
        BY <4>1
    <3> QED
      BY <3>1, <3>2
  <2> QED
    BY <1>1, <1>4, <2>1, <2>2, <2>3 DEF Elems
<1> QED
  BY <1>4, <1>6, <1>7, <1>8 DEF Array
-----------------------------------------------------------------------------
(* The invariant.                                                           *)

\* An input port and its wire know each other through one Tokenport.
InputsInv ==
  /\ \A p \in InPorts :
       in_slot[p] # NULL =>
         \E w \in Wires : /\ Fits(p, w)
                          /\ token[in_slot[p]] = Tokenport(p, w)
                          /\ in_slot[p] \in Elems(drivens[w])
  /\ \A w \in Wires : \A k \in Elems(drivens[w]) :
       \E p \in InPorts :
         in_slot[p] = k /\ Fits(p, w) /\ token[k] = Tokenport(p, w)

\* An output port is known to its wire by one Tokenport.
OutputsInv ==
  /\ \A o \in OutPorts, w \in Wires :
       out_slot[o] = w =>
         Fits(o, w) /\ \E k \in Elems(drivers[w]) : token[k] = Tokenport(o, w)
  /\ \A w \in Wires : \A k \in Elems(drivers[w]) :
       \E o \in OutPorts :
         out_slot[o] = w /\ Fits(o, w) /\ token[k] = Tokenport(o, w)
  /\ \A w \in Wires : \A k, l \in Elems(drivers[w]) : token[k] = token[l] => k = l

ArraysInv ==
  \A w \in Wires :
    /\ Array(drivens[w]) /\ Array(drivers[w])
    /\ \A v \in Wires : Elems(drivens[w]) \cap Elems(drivers[v]) = {}

AllocatedInv ==
  \A k \in Tokens :
    token[k] # NULL <=> \E w \in Wires : k \in Elems(drivens[w]) \cup Elems(drivers[w])

AllFree ==
  (\A p \in InPorts : in_slot[p] = NULL) /\ (\A o \in OutPorts : out_slot[o] = NULL)

\* Gates are destroyed when the ports they list are released.
PhaseInv ==
  /\ phase \in {"use", "release"} => gates = Gates
  /\ phase \in {"gates", "wires"} => Released

IInv == TypeOK /\ InputsInv /\ OutputsInv /\ ArraysInv /\ AllocatedInv /\ PhaseInv

\* Types of what Wiring's actions read, from the assumptions on the constants.
LEMMA PortTypes ==
  /\ \A p \in InPorts \cup OutPorts :
       p.gate \in Gates /\ p.type \in Signals /\ p.index \in Nat /\ p.type # NULL
  /\ \A p \in InPorts \cup OutPorts, w \in Wires :
       /\ Tokenport(p, w) \in TokenportOf /\ Tokenport(p, w) # NULL
       /\ Tokenport(p, w).gate = p.gate
       /\ Tokenport(p, w).index = p.index
       /\ Tokenport(p, w).owner = w
  /\ NULL \notin Wires /\ NULL \notin Tokens /\ NULL \notin Signals
BY WiringAssumption DEF Port, TokenportOf, Gates, Tokenport

\* A Tokenport determines its wire and the gate and index of its port.
LEMMA SameTokenport ==
  ASSUME NEW p, NEW q, NEW v, NEW w, Tokenport(p, v) = Tokenport(q, w)
  PROVE  p.gate = q.gate /\ p.index = q.index /\ v = w
BY DEF Tokenport

\* The types, one by one.
LEMMA Types ==
  ASSUME IInv
  PROVE  /\ phase \in {"use", "release", "gates", "wires"}
         /\ gates \subseteq Gates
         /\ wire_type \in [Wires -> Signals \cup {NULL}]
         /\ token \in [Tokens -> TokenportOf \cup {NULL}]
         /\ in_slot \in [InPorts -> Tokens \cup {NULL}]
         /\ out_slot \in [OutPorts -> Wires \cup {NULL}]
         /\ drivens \in [Wires -> Seq(Cell)]
         /\ drivers \in [Wires -> Seq(Cell)]
BY DEF IInv, TypeOK, Cell

\* remove_port finds the Tokenport of the input port it is asked for, and it
\* is the one in the gate's slot.
LEMMA FindsInput ==
  ASSUME Distinct(InPorts), IInv, NEW p \in InPorts, in_slot[p] # NULL
  PROVE  \E w \in Wires :
           LET n == Place(p, drivens[w]) IN
             /\ token[in_slot[p]].owner = w
             /\ Fits(p, w)
             /\ n \in DOMAIN drivens[w]
             /\ drivens[w][n] = in_slot[p]
             /\ token[in_slot[p]] = Tokenport(p, w)
             /\ in_slot[p] \in Tokens
<1>1. PICK w \in Wires : /\ Fits(p, w)
                         /\ token[in_slot[p]] = Tokenport(p, w)
                         /\ in_slot[p] \in Elems(drivens[w])
  BY DEF IInv, InputsInv
<1> DEFINE arr == drivens[w]
           S == {m \in DOMAIN arr : Matches(p, arr[m])}
<1>2. PICK m \in DOMAIN arr : arr[m] = in_slot[p]
  BY <1>1 DEF Elems
<1>3. DOMAIN arr = 1 .. Len(arr) /\ Len(arr) \in Nat
  BY LenProperties DEF IInv, ArraysInv, Array
<1>4. m \in S
  BY <1>1, <1>2, PortTypes DEF Matches
<1>5. ASSUME NEW n \in S PROVE n = m
  <2>1. arr[n] \in Elems(arr) /\ arr[n] # NULL
    BY DEF Matches, Elems
  <2>2. PICK q \in InPorts :
          in_slot[q] = arr[n] /\ Fits(q, w) /\ token[arr[n]] = Tokenport(q, w)
    BY <2>1 DEF IInv, InputsInv
  <2>3. q.gate = p.gate /\ q.index = p.index /\ q.type = p.type
    BY <1>1, <2>2, PortTypes DEF Matches, Fits
  <2>4. q = p
    BY <2>3 DEF Distinct
  <2> QED
    BY <1>2, <2>1, <2>2, <2>4 DEF IInv, ArraysInv, Array, NoDuplicates
<1>6. S = {m}
  BY <1>4, <1>5
<1>7. Place(p, arr) = m
  <2>1. \A n \in DOMAIN arr : IsFirst(n, S) <=> n = m
    BY <1>3, <1>6 DEF IsFirst
  <2> QED
    BY <1>2, <2>1 DEF Place
<1> QED
  BY <1>1, <1>2, <1>7, PortTypes DEF IInv, TypeOK

\* The same of an output port, whose slot holds the wire.
LEMMA FindsOutput ==
  ASSUME Distinct(OutPorts), IInv, NEW o \in OutPorts, NEW w \in Wires, out_slot[o] = w
  PROVE  LET n == Place(o, drivers[w]) IN
           /\ n \in DOMAIN drivers[w]
           /\ drivers[w][n] \in Tokens
           /\ drivers[w][n] # NULL
           /\ token[drivers[w][n]] = Tokenport(o, w)
<1> DEFINE arr == drivers[w]
           S == {m \in DOMAIN arr : Matches(o, arr[m])}
<1>1. PICK k \in Elems(arr) : token[k] = Tokenport(o, w) /\ Fits(o, w)
  BY DEF IInv, OutputsInv
<1>2. PICK m \in DOMAIN arr : arr[m] = k /\ k # NULL
  BY <1>1 DEF Elems
<1>3. arr \in Seq(Cell) /\ DOMAIN arr = 1 .. Len(arr) /\ Len(arr) \in Nat
  BY LenProperties DEF IInv, ArraysInv, Array
<1>4. m \in S
  BY <1>1, <1>2, PortTypes DEF Matches
<1>5. ASSUME NEW n \in S PROVE n = m
  <2>1. arr[n] \in Elems(arr) /\ arr[n] # NULL
    BY DEF Matches, Elems
  <2>2. PICK q \in OutPorts :
          out_slot[q] = w /\ Fits(q, w) /\ token[arr[n]] = Tokenport(q, w)
    BY <2>1 DEF IInv, OutputsInv
  <2>3. q.gate = o.gate /\ q.index = o.index /\ q.type = o.type
    BY <1>1, <2>2, PortTypes DEF Matches, Fits
  <2>4. q = o
    BY <2>3 DEF Distinct
  <2>5. arr[n] = k
    BY <1>1, <2>1, <2>2, <2>4 DEF IInv, OutputsInv
  <2> QED
    BY <1>2, <2>1, <2>5 DEF IInv, ArraysInv, Array, NoDuplicates
<1>6. S = {m}
  BY <1>4, <1>5
<1>7. Place(o, arr) = m
  <2>1. \A n \in DOMAIN arr : IsFirst(n, S) <=> n = m
    BY <1>3, <1>6 DEF IsFirst
  <2> QED
    BY <1>2, <2>1 DEF Place
<1>8. arr[m] \in Cell
  BY <1>3, ElementOfSeq
<1> QED
  BY <1>1, <1>2, <1>7, <1>8 DEF Cell

\* A new Tokenport is in no array.
LEMMA FreshToken ==
  ASSUME IInv, NEW k \in Tokens, IsFree(k)
  PROVE  \A w \in Wires : k \notin Elems(drivens[w]) /\ k \notin Elems(drivers[w])
BY DEF IInv, AllocatedInv, IsFree

\* The elements of a wire's arrays are allocated Tokenports.
LEMMA ElemsAreTokens ==
  ASSUME IInv, NEW w \in Wires
  PROVE  /\ Elems(drivens[w]) \subseteq Tokens
         /\ Elems(drivers[w]) \subseteq Tokens
<1>1. /\ drivens[w] \in Seq(Cell) /\ DOMAIN drivens[w] = 1 .. Len(drivens[w])
      /\ drivers[w] \in Seq(Cell) /\ DOMAIN drivers[w] = 1 .. Len(drivers[w])
  BY LenProperties DEF IInv, ArraysInv, Array
<1>2. /\ \A n \in DOMAIN drivens[w] : drivens[w][n] \in Cell
      /\ \A n \in DOMAIN drivers[w] : drivers[w][n] \in Cell
  BY <1>1, ElementOfSeq
<1> QED
  BY <1>2 DEF Elems, Cell

\* lxc_wire_gate_input with a wire preserves the invariant.
LEMMA WireInputStep ==
  ASSUME IInv, NEW p \in InPorts, NEW w \in Wires, NEW k \in Tokens, WireInput(p, w, k)
  PROVE  IInv'
<1> USE PortTypes DEF WireInput, IsFree
<1>1. \A v \in Wires : k \notin Elems(drivens[v]) /\ k \notin Elems(drivers[v])
  BY FreshToken
<1>2. /\ Array(drivens'[w]) /\ Elems(drivens'[w]) = Elems(drivens[w]) \cup {k}
      /\ \A v \in Wires : v # w => drivens'[v] = drivens[v]
      /\ drivens' \in [Wires -> Seq(Cell)]
      /\ k # NULL
  <2>1. /\ Array(ArrayAppend(drivens[w], k))
        /\ Elems(ArrayAppend(drivens[w], k)) = Elems(drivens[w]) \cup {k}
    BY <1>1, AppendAdds DEF IInv, ArraysInv
  <2>2. drivens'[w] = ArrayAppend(drivens[w], k)
    BY DEF IInv, TypeOK
  <2> QED
    BY <2>1, <2>2 DEF IInv, TypeOK, Array, Cell
<1>3. \A v \in Wires : Elems(drivens[v]) \subseteq Tokens /\ Elems(drivers[v]) \subseteq Tokens
  BY ElemsAreTokens
<1>4. /\ token'[k] = Tokenport(p, w) /\ \A l \in Tokens : l # k => token'[l] = token[l]
      /\ in_slot'[p] = k /\ \A q \in InPorts : q # p => in_slot'[q] = in_slot[q]
  BY DEF IInv, TypeOK
<1>5. ArraysInv'
  BY <1>1, <1>2, <1>3 DEF IInv, ArraysInv
<1>6. TypeOK'
  <2>1. \A v \in Wires : Packed(drivens'[v]) /\ Packed(drivers'[v])
    BY <1>5 DEF ArraysInv, Array
  <2> QED
    BY <1>2, <2>1 DEF IInv, TypeOK, Cell
<1>7. InputsInv'
  <2>1. \A q \in InPorts : q # p /\ in_slot[q] # NULL => in_slot[q] # k /\ in_slot[q] \in Tokens
    BY <1>1 DEF IInv, TypeOK, InputsInv
  <2>2. ASSUME NEW q \in InPorts, in_slot'[q] # NULL
        PROVE  \E v \in Wires : /\ Fits(q, v)'
                                /\ token'[in_slot'[q]] = Tokenport(q, v)
                                /\ in_slot'[q] \in Elems(drivens'[v])
    BY <1>2, <1>4, <2>1, <2>2 DEF IInv, InputsInv, Fits
  <2>3. ASSUME NEW v \in Wires, NEW l \in Elems(drivens'[v])
        PROVE  \E q \in InPorts :
                 in_slot'[q] = l /\ Fits(q, v)' /\ token'[l] = Tokenport(q, v)
    <3>1. CASE l = k
      <4>1. v = w
        BY <1>1, <1>2, <3>1
      <4> QED
        BY <1>4, <3>1, <4>1 DEF Fits
    <3>2. CASE l # k
      <4>1. l \in Elems(drivens[v])
        BY <1>2, <3>2
      <4>2. PICK q \in InPorts : in_slot[q] = l /\ Fits(q, v) /\ token[l] = Tokenport(q, v)
        BY <4>1 DEF IInv, InputsInv
      <4> QED
        BY <1>3, <1>4, <3>2, <4>1, <4>2 DEF Fits, Elems
    <3> QED
      BY <3>1, <3>2
  <2> QED
    BY <2>2, <2>3 DEF InputsInv
<1>8. OutputsInv'
  BY <1>1, <1>3, <1>4 DEF IInv, OutputsInv, Fits
<1>9. AllocatedInv'
  <2> SUFFICES ASSUME NEW l \in Tokens
               PROVE  token'[l] # NULL <=>
                        \E v \in Wires : l \in Elems(drivens'[v]) \cup Elems(drivers[v])
    BY DEF AllocatedInv
  <2>1. CASE l = k
    BY <1>2, <1>4, <2>1
  <2>2. CASE l # k
    BY <1>2, <1>4, <2>2 DEF IInv, AllocatedInv
  <2> QED
    BY <2>1, <2>2
<1>10. PhaseInv'
  BY DEF IInv, PhaseInv
<1> QED
  BY <1>5, <1>6, <1>7, <1>8, <1>9, <1>10 DEF IInv

\* A wire has no Tokenport of an output port that is not on it.
LEMMA NotKnownYet ==
  ASSUME Distinct(OutPorts), IInv, NEW o \in OutPorts, NEW w \in Wires,
         Fits(o, w), out_slot[o] # w
  PROVE  \A x \in Elems(drivers[w]) : token[x] # Tokenport(o, w)
<1> SUFFICES ASSUME NEW x \in Elems(drivers[w]), token[x] = Tokenport(o, w)
             PROVE  FALSE
  OBVIOUS
<1>1. PICK q \in OutPorts : out_slot[q] = w /\ Fits(q, w) /\ token[x] = Tokenport(q, w)
  BY DEF IInv, OutputsInv
<1>2. q \in InPorts \cup OutPorts /\ o \in InPorts \cup OutPorts
  OBVIOUS
<1>3. Tokenport(q, w) = Tokenport(o, w)
  BY <1>1
<1>4. q.gate = o.gate /\ q.index = o.index
  BY <1>2, <1>3, PortTypes
<1>5. q.type = o.type
  BY <1>1 DEF Fits
<1>6. q = o
  BY <1>4, <1>5 DEF Distinct
<1> QED
  BY <1>1, <1>6

\* lxc_wire_gate_output with a wire preserves the invariant; a wire does not
\* know an output twice, because another port would have the same Tokenport.
LEMMA WireOutputStep ==
  ASSUME Distinct(OutPorts), IInv, NEW o \in OutPorts, NEW w \in Wires,
         NEW k \in Tokens, WireOutput(o, w, k)
  PROVE  IInv'
<1> USE PortTypes DEF WireOutput, IsFree
<1>1. \A v \in Wires : k \notin Elems(drivens[v]) /\ k \notin Elems(drivers[v])
  BY FreshToken
<1>2. /\ Array(drivers'[w]) /\ Elems(drivers'[w]) = Elems(drivers[w]) \cup {k}
      /\ \A v \in Wires : v # w => drivers'[v] = drivers[v]
      /\ drivers' \in [Wires -> Seq(Cell)]
      /\ k # NULL
  <2>1. /\ Array(ArrayAppend(drivers[w], k))
        /\ Elems(ArrayAppend(drivers[w], k)) = Elems(drivers[w]) \cup {k}
    BY <1>1, AppendAdds DEF IInv, ArraysInv
  <2>2. drivers'[w] = ArrayAppend(drivers[w], k)
    BY DEF IInv, TypeOK
  <2> QED
    BY <2>1, <2>2 DEF IInv, TypeOK, Array, Cell
<1>3. \A v \in Wires : Elems(drivens[v]) \subseteq Tokens /\ Elems(drivers[v]) \subseteq Tokens
  BY ElemsAreTokens
<1>4. /\ token'[k] = Tokenport(o, w) /\ \A l \in Tokens : l # k => token'[l] = token[l]
      /\ out_slot'[o] = w /\ \A q \in OutPorts : q # o => out_slot'[q] = out_slot[q]
  BY DEF IInv, TypeOK
<1>5. ArraysInv'
  BY <1>1, <1>2, <1>3 DEF IInv, ArraysInv
<1>6. TypeOK'
  <2>1. \A v \in Wires : Packed(drivens'[v]) /\ Packed(drivers'[v])
    BY <1>5 DEF ArraysInv, Array
  <2> QED
    BY <1>2, <2>1 DEF IInv, TypeOK, Cell
<1>7. InputsInv'
  BY <1>1, <1>3, <1>4 DEF IInv, InputsInv, Fits
<1>8. OutputsInv'
  <2>1. ASSUME NEW q \in OutPorts, NEW v \in Wires, out_slot'[q] = v
        PROVE  Fits(q, v)' /\ \E l \in Elems(drivers'[v]) : token'[l] = Tokenport(q, v)
    <3>1. CASE q = o
      <4>1. v = w /\ k \in Elems(drivers'[v])
        BY <1>2, <1>4, <2>1, <3>1
      <4> QED
        BY <1>4, <3>1, <4>1 DEF Fits
    <3>2. CASE q # o
      <4>1. PICK l \in Elems(drivers[v]) : token[l] = Tokenport(q, v)
        BY <1>4, <2>1, <3>2 DEF IInv, OutputsInv
      <4>2. Fits(q, v)
        BY <1>4, <2>1, <3>2 DEF IInv, OutputsInv
      <4>3. l \in Elems(drivers'[v]) /\ token'[l] = token[l]
        BY <1>1, <1>2, <1>3, <1>4, <4>1
      <4> QED
        BY <4>1, <4>2, <4>3 DEF Fits
    <3> QED
      BY <3>1, <3>2
  <2>2. ASSUME NEW v \in Wires, NEW l \in Elems(drivers'[v])
        PROVE  \E q \in OutPorts :
                 out_slot'[q] = v /\ Fits(q, v)' /\ token'[l] = Tokenport(q, v)
    <3>1. CASE l = k
      <4>1. v = w
        BY <1>1, <1>2, <3>1
      <4> QED
        BY <1>4, <3>1, <4>1 DEF Fits
    <3>2. CASE l # k
      <4>1. l \in Elems(drivers[v])
        BY <1>2, <3>2
      <4>2. PICK q \in OutPorts : out_slot[q] = v /\ Fits(q, v) /\ token[l] = Tokenport(q, v)
        BY <4>1 DEF IInv, OutputsInv
      <4>3. out_slot'[q] = v
        BY <1>4, <4>2
      <4> QED
        BY <1>3, <1>4, <3>2, <4>1, <4>2, <4>3 DEF Fits
    <3> QED
      BY <3>1, <3>2
  <2>3. ASSUME NEW v \in Wires, NEW l \in Elems(drivers'[v]), NEW m \in Elems(drivers'[v]),
               token'[l] = token'[m]
        PROVE  l = m
    <3>1. \A x \in Elems(drivers[w]) : token[x] # Tokenport(o, w)
      BY NotKnownYet
    <3>2. v = w => \A x \in Elems(drivers[v]) : token'[x] # token'[k]
      BY <1>1, <1>3, <1>4, <3>1
    <3>3. \A x \in Elems(drivers'[v]) : (x = k /\ v = w) \/ x \in Elems(drivers[v])
      BY <1>2
    <3>4. \A x \in Elems(drivers[v]) : token'[x] = token[x]
      BY <1>1, <1>3, <1>4
    <3> QED
      BY <2>3, <3>2, <3>3, <3>4 DEF IInv, OutputsInv
  <2> QED
    BY <2>1, <2>2, <2>3 DEF OutputsInv
<1>9. AllocatedInv'
  <2> SUFFICES ASSUME NEW l \in Tokens
               PROVE  token'[l] # NULL <=>
                        \E v \in Wires : l \in Elems(drivens[v]) \cup Elems(drivers'[v])
    BY DEF AllocatedInv
  <2>1. CASE l = k
    BY <1>2, <1>4, <2>1
  <2>2. CASE l # k
    BY <1>2, <1>4, <2>2 DEF IInv, AllocatedInv
  <2> QED
    BY <2>1, <2>2
<1>10. PhaseInv'
  BY DEF IInv, PhaseInv
<1> QED
  BY <1>5, <1>6, <1>7, <1>8, <1>9, <1>10 DEF IInv

\* lxc_wire_gate_input with a NULL wire preserves the invariant: remove_port
\* frees the Tokenport the gate's slot held.
LEMMA UnwireInputStep ==
  ASSUME Distinct(InPorts), IInv, NEW p \in InPorts, UnwireInput(p)
  PROVE  IInv'
<1> USE PortTypes DEF UnwireInput
<1> DEFINE k == in_slot[p]
<1>1. PICK w \in Wires :
        LET n == Place(p, drivens[w]) IN
          /\ token[k].owner = w
          /\ Fits(p, w)
          /\ n \in DOMAIN drivens[w]
          /\ drivens[w][n] = k
          /\ token[k] = Tokenport(p, w)
          /\ k \in Tokens
  BY FindsInput
<1> DEFINE n == Place(p, drivens[w])
<1>2. k # NULL /\ k \in Elems(drivens[w])
  BY <1>1 DEF Elems
<1>3. /\ in_slot' = [in_slot EXCEPT ![p] = NULL]
      /\ token' = [token EXCEPT ![k] = NULL]
      /\ drivens' = [drivens EXCEPT ![w] = ArrayPop(@, n)]
      /\ UNCHANGED <<phase, gates, wire_type, out_slot, drivers>>
  BY <1>1
<1> HIDE DEF n, k
<1>4. /\ Array(drivens'[w]) /\ Elems(drivens'[w]) = Elems(drivens[w]) \ {k}
      /\ \A v \in Wires : v # w => drivens'[v] = drivens[v]
      /\ drivens' \in [Wires -> Seq(Cell)]
  <2>1. /\ Array(ArrayPop(drivens[w], n))
        /\ Elems(ArrayPop(drivens[w], n)) = Elems(drivens[w]) \ {k}
    BY <1>1, <1>2, PopRemoves DEF IInv, ArraysInv, n, k
  <2>2. drivens'[w] = ArrayPop(drivens[w], n)
    BY <1>3 DEF IInv, TypeOK
  <2>3. ArrayPop(drivens[w], n) \in Seq(Cell)
    BY <2>1 DEF Array
  <2>4. drivens' \in [Wires -> Seq(Cell)]
    BY <1>3, <2>3, Types
  <2>5. \A v \in Wires : v # w => drivens'[v] = drivens[v]
    BY <1>3, Types
  <2> QED
    BY <2>1, <2>2, <2>4, <2>5
<1>5. \A v \in Wires : Elems(drivens[v]) \subseteq Tokens /\ Elems(drivers[v]) \subseteq Tokens
  BY ElemsAreTokens
<1>6. \A v \in Wires : k \notin Elems(drivers[v]) /\ (v # w => k \notin Elems(drivens[v]))
  <2>1. \A v \in Wires : k \notin Elems(drivers[v])
    BY <1>2 DEF IInv, ArraysInv
  <2>2. ASSUME NEW v \in Wires, k \in Elems(drivens[v]) PROVE v = w
    <3>1. PICK q \in InPorts : token[k] = Tokenport(q, v)
      BY <2>2 DEF IInv, InputsInv
    <3> QED
      BY <1>1, <3>1 DEF k
  <2> QED
    BY <2>1, <2>2
<1>7. /\ token'[k] = NULL /\ \A l \in Tokens : l # k => token'[l] = token[l]
      /\ in_slot'[p] = NULL /\ \A q \in InPorts : q # p => in_slot'[q] = in_slot[q]
      /\ k \in Tokens
  BY <1>1, <1>3 DEF IInv, TypeOK, k
<1>8. \A q \in InPorts : q # p => in_slot[q] # k
  <2> SUFFICES ASSUME NEW q \in InPorts, in_slot[q] = k PROVE q = p
    OBVIOUS
  <2>1. PICK v \in Wires : Fits(q, v) /\ token[k] = Tokenport(q, v)
    BY <1>2 DEF IInv, InputsInv
  <2>2. v = w /\ q.gate = p.gate /\ q.index = p.index
    <3>1. Tokenport(q, v) = Tokenport(p, w)
      BY <1>1, <2>1 DEF k
    <3>2. q.gate = p.gate /\ q.index = p.index /\ v = w
      BY <3>1, SameTokenport
    <3> QED
      BY <3>2
  <2> QED
    BY <1>1, <2>1, <2>2 DEF Distinct, Fits
<1>9. ArraysInv'
  BY <1>3, <1>4, <1>5 DEF IInv, ArraysInv
<1>10. TypeOK'
  <2>1. \A v \in Wires : Packed(drivens'[v]) /\ Packed(drivers'[v])
    BY <1>9 DEF ArraysInv, Array
  <2>2. token' \in [Tokens -> TokenportOf \cup {NULL}]
    BY <1>3, Types
  <2>3. in_slot' \in [InPorts -> Tokens \cup {NULL}]
    BY <1>3, Types
  <2> QED
    BY <1>3, <1>4, <2>1, <2>2, <2>3, Types DEF TypeOK, Cell
<1>11. InputsInv'
  <2>1. ASSUME NEW q \in InPorts, in_slot'[q] # NULL
        PROVE  \E v \in Wires : /\ Fits(q, v)'
                                /\ token'[in_slot'[q]] = Tokenport(q, v)
                                /\ in_slot'[q] \in Elems(drivens'[v])
    <3>1. q # p /\ in_slot'[q] = in_slot[q] /\ in_slot[q] # k
      BY <1>7, <1>8, <2>1
    <3>2. PICK v \in Wires : /\ Fits(q, v)
                             /\ token[in_slot[q]] = Tokenport(q, v)
                             /\ in_slot[q] \in Elems(drivens[v])
      BY <2>1, <3>1 DEF IInv, InputsInv
    <3>3. in_slot[q] \in Elems(drivens'[v]) /\ token'[in_slot[q]] = token[in_slot[q]]
      BY <1>4, <1>5, <1>7, <3>1, <3>2
    <3> QED
      BY <1>3, <3>1, <3>2, <3>3 DEF Fits
  <2>2. ASSUME NEW v \in Wires, NEW l \in Elems(drivens'[v])
        PROVE  \E q \in InPorts :
                 in_slot'[q] = l /\ Fits(q, v)' /\ token'[l] = Tokenport(q, v)
    <3>1. l \in Elems(drivens[v]) /\ l # k
      BY <1>4, <1>6
    <3>2. PICK q \in InPorts : in_slot[q] = l /\ Fits(q, v) /\ token[l] = Tokenport(q, v)
      BY <3>1 DEF IInv, InputsInv
    <3>3. q # p /\ l \in Tokens
      BY <1>5, <3>1, <3>2 DEF k
    <3> QED
      BY <1>3, <1>7, <3>1, <3>2, <3>3 DEF Fits
  <2> QED
    BY <2>1, <2>2 DEF InputsInv
<1>12. OutputsInv'
  <2>1. \A v \in Wires : \A l \in Elems(drivers[v]) : token'[l] = token[l]
    BY <1>5, <1>6, <1>7
  <2>2. \A o \in OutPorts, v \in Wires : Fits(o, v)' <=> Fits(o, v)
    BY <1>3 DEF Fits
  <2>3. drivers' = drivers /\ out_slot' = out_slot
    BY <1>3
  <2> QED
    BY <2>1, <2>2, <2>3 DEF IInv, OutputsInv
<1>13. AllocatedInv'
  <2> SUFFICES ASSUME NEW l \in Tokens
               PROVE  token'[l] # NULL <=>
                        \E v \in Wires : l \in Elems(drivens'[v]) \cup Elems(drivers'[v])
    BY DEF AllocatedInv
  <2>1. drivers' = drivers
    BY <1>3
  <2>2. CASE l = k
    BY <1>4, <1>6, <1>7, <2>1, <2>2
  <2>3. CASE l # k
    <3>1. token'[l] = token[l]
      BY <1>7, <2>3
    <3>2. \A v \in Wires : l \in Elems(drivens'[v]) <=> l \in Elems(drivens[v])
      BY <1>4, <2>3
    <3>3. token[l] # NULL <=>
            \E v \in Wires : l \in Elems(drivens[v]) \cup Elems(drivers[v])
      BY DEF IInv, AllocatedInv
    <3> QED
      BY <2>1, <3>1, <3>2, <3>3
  <2> QED
    BY <2>2, <2>3
<1>14. PhaseInv'
  BY <1>3, <1>7 DEF IInv, PhaseInv, Released, InputsReleased
<1> QED
  BY <1>9, <1>10, <1>11, <1>12, <1>13, <1>14 DEF IInv

\* lxc_wire_gate_output with a NULL wire preserves the invariant.
LEMMA UnwireOutputStep ==
  ASSUME Distinct(OutPorts), IInv, NEW o \in OutPorts, UnwireOutput(o)
  PROVE  IInv'
<1> USE PortTypes DEF UnwireOutput
<1>1. PICK w \in Wires : out_slot[o] = w
  BY DEF IInv, TypeOK
<1> DEFINE n == Place(o, drivers[w])
           k == drivers[w][n]
<1>2. /\ n \in DOMAIN drivers[w]
      /\ k \in Tokens
      /\ k # NULL
      /\ token[k] = Tokenport(o, w)
  BY <1>1, FindsOutput
<1>3. /\ out_slot' = [out_slot EXCEPT ![o] = NULL]
      /\ token' = [token EXCEPT ![k] = NULL]
      /\ drivers' = [drivers EXCEPT ![w] = ArrayPop(@, n)]
      /\ UNCHANGED <<phase, gates, wire_type, in_slot, drivens>>
  BY <1>1
<1>4. /\ Array(drivers'[w]) /\ Elems(drivers'[w]) = Elems(drivers[w]) \ {k}
      /\ \A v \in Wires : v # w => drivers'[v] = drivers[v]
      /\ drivers' \in [Wires -> Seq(Cell)]
  <2>1. /\ Array(ArrayPop(drivers[w], n))
        /\ Elems(ArrayPop(drivers[w], n)) = Elems(drivers[w]) \ {k}
    BY <1>2, PopRemoves DEF IInv, ArraysInv
  <2>2. drivers'[w] = ArrayPop(drivers[w], n)
    BY <1>3 DEF IInv, TypeOK
  <2> QED
    BY <1>3, <2>1, <2>2 DEF IInv, TypeOK, Array, Cell
<1>5. k \in Elems(drivers[w])
  BY <1>2 DEF Elems
<1> HIDE DEF n, k
<1>6. \A v \in Wires : Elems(drivens[v]) \subseteq Tokens /\ Elems(drivers[v]) \subseteq Tokens
  BY ElemsAreTokens
<1>7. \A v \in Wires : k \notin Elems(drivens[v]) /\ (v # w => k \notin Elems(drivers[v]))
  <2>1. \A v \in Wires : k \notin Elems(drivens[v])
    BY <1>5 DEF IInv, ArraysInv
  <2>2. ASSUME NEW v \in Wires, k \in Elems(drivers[v]) PROVE v = w
    <3>1. PICK q \in OutPorts : token[k] = Tokenport(q, v)
      BY <2>2 DEF IInv, OutputsInv
    <3>2. Tokenport(q, v) = Tokenport(o, w)
      BY <1>2, <3>1
    <3> QED
      BY <3>2, SameTokenport
  <2> QED
    BY <2>1, <2>2
<1>8. /\ token'[k] = NULL /\ \A l \in Tokens : l # k => token'[l] = token[l]
      /\ out_slot'[o] = NULL /\ \A q \in OutPorts : q # o => out_slot'[q] = out_slot[q]
  BY <1>2, <1>3 DEF IInv, TypeOK
<1>9. ArraysInv'
  BY <1>3, <1>4, <1>6 DEF IInv, ArraysInv
<1>10. TypeOK'
  <2>1. \A v \in Wires : Packed(drivens'[v]) /\ Packed(drivers'[v])
    BY <1>9 DEF ArraysInv, Array
  <2>2. token' \in [Tokens -> TokenportOf \cup {NULL}]
    BY <1>3, Types
  <2>3. out_slot' \in [OutPorts -> Wires \cup {NULL}]
    BY <1>3, Types
  <2> QED
    BY <1>3, <1>4, <2>1, <2>2, <2>3, Types DEF TypeOK, Cell
<1>11. InputsInv'
  <2>1. \A v \in Wires : \A l \in Elems(drivens[v]) : token'[l] = token[l]
    BY <1>6, <1>7, <1>8
  <2>2. \A p \in InPorts, v \in Wires : Fits(p, v)' <=> Fits(p, v)
    BY <1>3 DEF Fits
  <2>3. drivens' = drivens /\ in_slot' = in_slot
    BY <1>3
  <2> QED
    BY <2>1, <2>2, <2>3 DEF IInv, InputsInv
<1>12. OutputsInv'
  <2>1. \A v \in Wires : \A l \in Elems(drivers'[v]) :
          l \in Elems(drivers[v]) /\ l # k /\ token'[l] = token[l]
    BY <1>4, <1>6, <1>7, <1>8
  <2>2. \A q \in OutPorts, v \in Wires : Fits(q, v)' <=> Fits(q, v)
    BY <1>3 DEF Fits
  <2>3. ASSUME NEW q \in OutPorts, NEW v \in Wires, out_slot'[q] = v
        PROVE  Fits(q, v)' /\ \E l \in Elems(drivers'[v]) : token'[l] = Tokenport(q, v)
    <3>1. q # o /\ out_slot[q] = v
      BY <1>8, <2>3
    <3>2. PICK l \in Elems(drivers[v]) : token[l] = Tokenport(q, v) /\ Fits(q, v)
      BY <3>1 DEF IInv, OutputsInv
    <3>3. l # k
      <4> SUFFICES ASSUME l = k PROVE FALSE
        OBVIOUS
      <4>1. v = w
        BY <1>7, <3>2
      <4>2. Fits(o, w)
        BY <1>1 DEF IInv, OutputsInv
      <4>3. Tokenport(q, w) = Tokenport(o, w)
        BY <1>2, <3>2, <4>1
      <4>4. q.gate = o.gate /\ q.index = o.index
        BY <4>3
      <4> QED
        BY <3>1, <3>2, <4>1, <4>2, <4>4 DEF Fits, Distinct
    <3>4. l \in Elems(drivers'[v])
      BY <1>4, <3>2, <3>3
    <3> QED
      BY <2>1, <2>2, <3>2, <3>4
  <2>4. ASSUME NEW v \in Wires, NEW l \in Elems(drivers'[v])
        PROVE  \E q \in OutPorts :
                 out_slot'[q] = v /\ Fits(q, v)' /\ token'[l] = Tokenport(q, v)
    <3>1. PICK q \in OutPorts : out_slot[q] = v /\ Fits(q, v) /\ token[l] = Tokenport(q, v)
      BY <2>1 DEF IInv, OutputsInv
    <3>2. q # o
      <4> SUFFICES ASSUME q = o PROVE FALSE
        OBVIOUS
      <4>1. v = w
        BY <1>1, <3>1
      <4>2. l = k
        BY <1>2, <1>5, <2>1, <3>1, <4>1 DEF IInv, OutputsInv
      <4> QED
        BY <2>1, <4>2
    <3> QED
      BY <1>8, <2>1, <2>2, <3>1, <3>2
  <2>5. \A v \in Wires : \A l, m \in Elems(drivers'[v]) : token'[l] = token'[m] => l = m
    BY <2>1 DEF IInv, OutputsInv
  <2> QED
    BY <2>3, <2>4, <2>5 DEF OutputsInv
<1>13. AllocatedInv'
  <2> SUFFICES ASSUME NEW l \in Tokens
               PROVE  token'[l] # NULL <=>
                        \E v \in Wires : l \in Elems(drivens'[v]) \cup Elems(drivers'[v])
    BY DEF AllocatedInv
  <2>1. drivens' = drivens
    BY <1>3
  <2>2. CASE l = k
    BY <1>4, <1>7, <1>8, <2>1, <2>2
  <2>3. CASE l # k
    BY <1>4, <1>8, <2>1, <2>3 DEF IInv, AllocatedInv
  <2> QED
    BY <2>2, <2>3
<1>14. PhaseInv'
  BY <1>3, <1>8 DEF IInv, PhaseInv, Released, InputsReleased
<1> QED
  BY <1>9, <1>10, <1>11, <1>12, <1>13, <1>14 DEF IInv

\* lxc_circuit_wire_ports_together preserves the invariant.
LEMMA WirePortsTogetherStep ==
  ASSUME Distinct(OutPorts), IInv,
         NEW o \in OutPorts, NEW w \in Wires, NEW p \in InPorts,
         NEW k \in Tokens, NEW l \in Tokens, WirePortsTogether(o, w, p, k, l)
  PROVE  IInv'
<1>1. /\ \A v \in Wires : k \notin Elems(drivens[v]) /\ k \notin Elems(drivers[v])
      /\ \A v \in Wires : l \notin Elems(drivens[v]) /\ l \notin Elems(drivers[v])
      /\ k # l /\ k # NULL /\ l # NULL
  BY FreshToken, PortTypes DEF WirePortsTogether, IsFree
<1>2. /\ Array(drivers'[w]) /\ Elems(drivers'[w]) = Elems(drivers[w]) \cup {k}
      /\ \A v \in Wires : v # w => drivers'[v] = drivers[v]
      /\ drivers' \in [Wires -> Seq(Cell)]
  <2>1. /\ Array(ArrayAppend(drivers[w], k))
        /\ Elems(ArrayAppend(drivers[w], k)) = Elems(drivers[w]) \cup {k}
    BY <1>1, AppendAdds, PortTypes DEF IInv, ArraysInv
  <2>2. drivers' = [drivers EXCEPT ![w] = ArrayAppend(drivers[w], k)]
    BY DEF WirePortsTogether
  <2>3. ArrayAppend(drivers[w], k) \in Seq(Cell)
    BY <2>1 DEF Array
  <2> QED
    BY <2>1, <2>2, <2>3, Types
<1>3. /\ Array(drivens'[w]) /\ Elems(drivens'[w]) = Elems(drivens[w]) \cup {l}
      /\ \A v \in Wires : v # w => drivens'[v] = drivens[v]
      /\ drivens' \in [Wires -> Seq(Cell)]
  <2>1. /\ Array(ArrayAppend(drivens[w], l))
        /\ Elems(ArrayAppend(drivens[w], l)) = Elems(drivens[w]) \cup {l}
    BY <1>1, AppendAdds, PortTypes DEF IInv, ArraysInv
  <2>2. drivens' = [drivens EXCEPT ![w] = ArrayAppend(drivens[w], l)]
    BY DEF WirePortsTogether
  <2>3. ArrayAppend(drivens[w], l) \in Seq(Cell)
    BY <2>1 DEF Array
  <2> QED
    BY <2>1, <2>2, <2>3, Types
<1>4. \A v \in Wires : Elems(drivens[v]) \subseteq Tokens /\ Elems(drivers[v]) \subseteq Tokens
  BY ElemsAreTokens
<1>5. /\ token'[k] = Tokenport(o, w) /\ token'[l] = Tokenport(p, w)
      /\ \A x \in Tokens : x # k /\ x # l => token'[x] = token[x]
      /\ token' \in [Tokens -> TokenportOf \cup {NULL}]
  BY <1>1, Types, PortTypes DEF WirePortsTogether
<1>6. /\ in_slot[p] = NULL /\ in_slot'[p] = l
      /\ \A q \in InPorts : q # p => in_slot'[q] = in_slot[q]
      /\ out_slot[o] = NULL /\ out_slot'[o] = w
      /\ \A q \in OutPorts : q # o => out_slot'[q] = out_slot[q]
      /\ in_slot' \in [InPorts -> Tokens \cup {NULL}]
      /\ out_slot' \in [OutPorts -> Wires \cup {NULL}]
  BY Types DEF WirePortsTogether
<1>7. /\ \A v \in Wires : \A x \in Elems(drivens[v]) :
           x # k /\ x # l /\ token'[x] = token[x]
      /\ \A v \in Wires : \A x \in Elems(drivers[v]) :
           x # k /\ x # l /\ token'[x] = token[x]
  <2>1. ASSUME NEW v \in Wires, NEW x \in Elems(drivens[v])
        PROVE  x # k /\ x # l /\ token'[x] = token[x]
    BY <1>1, <1>4, <1>5
  <2>2. ASSUME NEW v \in Wires, NEW x \in Elems(drivers[v])
        PROVE  x # k /\ x # l /\ token'[x] = token[x]
    BY <1>1, <1>4, <1>5
  <2> QED
    BY <2>1, <2>2
\* The wire keeps its type, or had none and hence no port.
<1>8. /\ wire_type' = [wire_type EXCEPT ![w] = o.type]
      /\ wire_type[w] = NULL \/ wire_type[w] = o.type
      /\ o.type = p.type
  BY DEF WirePortsTogether, Suitable
<1>9. \A q \in InPorts \cup OutPorts, v \in Wires : Fits(q, v) => Fits(q, v)'
  BY <1>8, Types, PortTypes DEF Fits
<1>10. Fits(o, w)' /\ Fits(p, w)'
  BY <1>8, Types DEF Fits
<1>11. Fits(o, w) \/ Elems(drivers[w]) = {}
  <2>1. \A x \in Elems(drivers[w]) : \E q \in OutPorts : Fits(q, w)
    BY DEF IInv, OutputsInv
  <2> QED
    BY <1>8, <2>1, PortTypes DEF Fits
\* Only k and l are new in the arrays.
<1>12. \A v \in Wires : Elems(drivens'[v]) = IF v = w THEN Elems(drivens[v]) \cup {l}
                                                      ELSE Elems(drivens[v])
  BY <1>3
<1>13. \A v \in Wires : Elems(drivers'[v]) = IF v = w THEN Elems(drivers[v]) \cup {k}
                                                      ELSE Elems(drivers[v])
  BY <1>2
<1>14. ArraysInv'
  <2>1. \A v \in Wires : Array(drivens'[v]) /\ Array(drivers'[v])
    BY <1>2, <1>3 DEF IInv, ArraysInv
  <2>2. ASSUME NEW v \in Wires, NEW u \in Wires, NEW x \in Elems(drivens'[v])
        PROVE  x \notin Elems(drivers'[u])
    <3>1. Elems(drivens[v]) \cap Elems(drivers[u]) = {}
      BY DEF IInv, ArraysInv
    <3>2. CASE x = l
      BY <1>1, <1>13, <3>2
    <3>3. CASE x # l
      <4>1. x \in Elems(drivens[v])
        BY <1>12, <2>2, <3>3
      <4>2. x # k /\ x \notin Elems(drivers[u])
        BY <1>7, <3>1, <4>1
      <4> QED
        BY <1>13, <4>2
    <3> QED
      BY <3>2, <3>3
  <2> QED
    BY <2>1, <2>2 DEF ArraysInv
<1>15. TypeOK'
  <2>1. \A v \in Wires : Packed(drivens'[v]) /\ Packed(drivers'[v])
    BY <1>14 DEF ArraysInv, Array
  <2>2. wire_type' \in [Wires -> Signals \cup {NULL}]
    BY <1>8, Types, PortTypes
  <2>3. phase' = phase /\ gates' = gates
    BY DEF WirePortsTogether
  <2> QED
    BY <1>2, <1>3, <1>5, <1>6, <2>1, <2>2, <2>3, Types DEF TypeOK, Cell
<1>16. InputsInv'
  <2>1. ASSUME NEW q \in InPorts, in_slot'[q] # NULL
        PROVE  \E v \in Wires : /\ Fits(q, v)'
                                /\ token'[in_slot'[q]] = Tokenport(q, v)
                                /\ in_slot'[q] \in Elems(drivens'[v])
    <3>1. CASE q = p
      <4>1. l \in Elems(drivens'[w])
        BY <1>3
      <4> QED
        BY <1>5, <1>6, <1>10, <3>1, <4>1
    <3>2. CASE q # p
      <4>1. PICK v \in Wires : /\ Fits(q, v)
                               /\ token[in_slot[q]] = Tokenport(q, v)
                               /\ in_slot[q] \in Elems(drivens[v])
        BY <1>6, <2>1, <3>2 DEF IInv, InputsInv
      <4>2. in_slot[q] \in Elems(drivens'[v]) /\ in_slot'[q] = in_slot[q]
        BY <1>6, <1>12, <3>2, <4>1
      <4>3. token'[in_slot[q]] = token[in_slot[q]] /\ Fits(q, v)'
        BY <1>7, <1>9, <4>1
      <4> QED
        BY <4>1, <4>2, <4>3
    <3> QED
      BY <3>1, <3>2
  <2>2. ASSUME NEW v \in Wires, NEW x \in Elems(drivens'[v])
        PROVE  \E q \in InPorts :
                 in_slot'[q] = x /\ Fits(q, v)' /\ token'[x] = Tokenport(q, v)
    <3>1. CASE x = l
      <4>1. v = w
        BY <1>1, <1>12, <2>2, <3>1
      <4> QED
        BY <1>5, <1>6, <1>10, <3>1, <4>1
    <3>2. CASE x # l
      <4>1. x \in Elems(drivens[v])
        BY <1>12, <2>2, <3>2
      <4>2. PICK q \in InPorts : in_slot[q] = x /\ Fits(q, v) /\ token[x] = Tokenport(q, v)
        BY <4>1 DEF IInv, InputsInv
      <4>3. q # p
        BY <1>6, <4>1, <4>2 DEF Elems
      <4>4. token'[x] = token[x] /\ Fits(q, v)' /\ in_slot'[q] = in_slot[q]
        BY <1>6, <1>7, <1>9, <4>1, <4>2, <4>3
      <4> QED
        BY <4>2, <4>4
    <3> QED
      BY <3>1, <3>2
  <2> QED
    BY <2>1, <2>2 DEF InputsInv
<1>17. OutputsInv'
  <2>1. ASSUME NEW q \in OutPorts, NEW v \in Wires, out_slot'[q] = v
        PROVE  Fits(q, v)' /\ \E x \in Elems(drivers'[v]) : token'[x] = Tokenport(q, v)
    <3>1. CASE q = o
      <4>1. v = w /\ k \in Elems(drivers'[w])
        BY <1>2, <1>6, <2>1, <3>1
      <4> QED
        BY <1>5, <1>10, <3>1, <4>1
    <3>2. CASE q # o
      <4>1. PICK x \in Elems(drivers[v]) : token[x] = Tokenport(q, v) /\ Fits(q, v)
        BY <1>6, <2>1, <3>2 DEF IInv, OutputsInv
      <4>2. x \in Elems(drivers'[v]) /\ token'[x] = token[x] /\ Fits(q, v)'
        BY <1>7, <1>9, <1>13, <4>1
      <4> QED
        BY <4>1, <4>2
    <3> QED
      BY <3>1, <3>2
  <2>2. ASSUME NEW v \in Wires, NEW x \in Elems(drivers'[v])
        PROVE  \E q \in OutPorts :
                 out_slot'[q] = v /\ Fits(q, v)' /\ token'[x] = Tokenport(q, v)
    <3>1. CASE x = k
      <4>1. v = w
        BY <1>1, <1>13, <2>2, <3>1
      <4> QED
        BY <1>5, <1>6, <1>10, <3>1, <4>1
    <3>2. CASE x # k
      <4>1. x \in Elems(drivers[v])
        BY <1>13, <2>2, <3>2
      <4>2. PICK q \in OutPorts : out_slot[q] = v /\ Fits(q, v) /\ token[x] = Tokenport(q, v)
        BY <4>1 DEF IInv, OutputsInv
      <4>3. q # o
        BY <1>6, <4>2, PortTypes
      <4>4. token'[x] = token[x] /\ Fits(q, v)' /\ out_slot'[q] = out_slot[q]
        BY <1>6, <1>7, <1>9, <4>1, <4>2, <4>3
      <4> QED
        BY <4>2, <4>4
    <3> QED
      BY <3>1, <3>2
  <2>3. ASSUME NEW v \in Wires, NEW x \in Elems(drivers'[v]), NEW y \in Elems(drivers'[v]),
               token'[x] = token'[y]
        PROVE  x = y
    <3>1. \A z \in Elems(drivers[w]) : token[z] # Tokenport(o, w)
      BY <1>6, <1>11, NotKnownYet, PortTypes
    <3>2. v = w => \A z \in Elems(drivers[v]) : token'[z] # token'[k]
      BY <1>5, <1>7, <3>1
    <3>3. /\ (x = k /\ v = w) \/ x \in Elems(drivers[v])
          /\ (y = k /\ v = w) \/ y \in Elems(drivers[v])
      BY <1>13, <2>3
    <3>4. \A z \in Elems(drivers[v]) : token'[z] = token[z]
      BY <1>7
    <3>5. \A a, b \in Elems(drivers[v]) : token[a] = token[b] => a = b
      BY DEF IInv, OutputsInv
    <3> QED
      BY <2>3, <3>2, <3>3, <3>4, <3>5
  <2> QED
    BY <2>1, <2>2, <2>3 DEF OutputsInv
<1>18. AllocatedInv'
  <2> SUFFICES ASSUME NEW x \in Tokens
               PROVE  token'[x] # NULL <=>
                        \E v \in Wires : x \in Elems(drivens'[v]) \cup Elems(drivers'[v])
    BY DEF AllocatedInv
  <2>1. CASE x = k \/ x = l
    <3>1. token'[x] # NULL
      BY <1>5, <2>1, PortTypes
    <3>2. x \in Elems(drivens'[w]) \cup Elems(drivers'[w])
      BY <1>2, <1>3, <2>1
    <3> QED
      BY <3>1, <3>2
  <2>2. CASE x # k /\ x # l
    <3>1. \A v \in Wires : x \in Elems(drivens'[v]) \cup Elems(drivers'[v]) <=>
                           x \in Elems(drivens[v]) \cup Elems(drivers[v])
      BY <1>12, <1>13, <2>2
    <3>2. token'[x] = token[x]
      BY <1>5, <2>2
    <3> QED
      BY <3>1, <3>2 DEF IInv, AllocatedInv
  <2> QED
    BY <2>1, <2>2
<1>19. PhaseInv'
  BY DEF WirePortsTogether, IInv, PhaseInv
<1> QED
  BY <1>14, <1>15, <1>16, <1>17, <1>18, <1>19 DEF IInv

\* lxc_circuit_get_or_create_wire preserves the invariant.
LEMMA CreateWireStep ==
  ASSUME IInv, NEW w \in Wires, NEW s \in Signals, CreateWire(w, s)
  PROVE  IInv'
<1> USE PortTypes DEF CreateWire
<1>1. \A q \in InPorts \cup OutPorts, v \in Wires : Fits(q, v) => Fits(q, v)'
  BY Types DEF Fits
<1>2. TypeOK'
  BY DEF IInv, TypeOK
<1>3. InputsInv'
  BY <1>1 DEF IInv, InputsInv
<1>4. OutputsInv'
  BY <1>1 DEF IInv, OutputsInv
<1> QED
  BY <1>2, <1>3, <1>4 DEF IInv, ArraysInv, AllocatedInv, PhaseInv, Released, InputsReleased

\* When all ports are released the wires' arrays are empty.
LEMMA ReleasedArraysAreEmpty ==
  ASSUME IInv, AllFree, NEW w \in Wires
  PROVE  Elems(drivens[w]) = {} /\ Elems(drivers[w]) = {}
<1>1. \A k \in Elems(drivens[w]) : \E p \in InPorts : in_slot[p] = k
  BY DEF IInv, InputsInv
<1>2. \A k \in Elems(drivers[w]) : \E o \in OutPorts : out_slot[o] = w
  BY DEF IInv, OutputsInv
<1> QED
  BY <1>1, <1>2, PortTypes DEF AllFree, Elems

\* If every port is listed, destroying a wire preserves the invariant: its
\* arrays are empty by then.
LEMMA DestroyWireStep ==
  ASSUME AllListed, IInv, NEW w \in Wires, DestroyWire(w)
  PROVE  IInv'
<1> USE PortTypes DEF DestroyWire
<1>1. AllFree
  BY DEF IInv, PhaseInv, AllListed, AllFree, Released, InputsReleased
<1>2. \A v \in Wires : Elems(drivens[v]) = {} /\ Elems(drivers[v]) = {}
  BY <1>1, ReleasedArraysAreEmpty
<1>4. Array(<<>>) /\ Elems(<<>>) = {} /\ <<>> \in Seq(Cell)
  BY EmptyArray
<1>5. \A v \in Wires :
        /\ drivens'[v] = IF v = w THEN <<>> ELSE drivens[v]
        /\ drivers'[v] = IF v = w THEN <<>> ELSE drivers[v]
  BY Types
<1>6. \A v \in Wires : Elems(drivens'[v]) = {} /\ Elems(drivers'[v]) = {}
  BY <1>2, <1>4, <1>5
<1>7. ArraysInv'
  <2>1. \A v \in Wires : Array(drivens'[v]) /\ Array(drivers'[v])
    BY <1>4, <1>5 DEF IInv, ArraysInv
  <2> QED
    BY <1>6, <2>1 DEF ArraysInv
<1>8. TypeOK'
  <2>1. \A v \in Wires : Packed(drivens'[v]) /\ Packed(drivers'[v])
    BY <1>7 DEF ArraysInv, Array
  <2>2. drivens' \in [Wires -> Seq(Cell)] /\ drivers' \in [Wires -> Seq(Cell)]
    BY <1>4, Types
  <2>3. wire_type' \in [Wires -> Signals \cup {NULL}]
    BY Types
  <2> QED
    BY <2>1, <2>2, <2>3, Types DEF TypeOK, Cell
<1>9. InputsInv' /\ OutputsInv'
  BY <1>1, <1>6 DEF InputsInv, OutputsInv, AllFree
<1>10. AllocatedInv' /\ PhaseInv'
  BY <1>1, <1>2, <1>6 DEF IInv, AllocatedInv, PhaseInv, Released, InputsReleased
<1> QED
  BY <1>7, <1>8, <1>9, <1>10 DEF IInv

\* The steps that wire nothing preserve the invariant.
LEMMA OtherSteps ==
  ASSUME IInv,
         BeginDestroy \/ ReleaseDone \/ (\E g \in gates : DestroyGate(g)) \/ UNCHANGED vars
  PROVE  IInv'
<1> DEFINE Same == UNCHANGED <<wire_type, token, in_slot, out_slot, drivens, drivers>>
<1>1. TypeOK' /\ PhaseInv' /\ Same
  <2>1. CASE BeginDestroy
    BY <2>1 DEF BeginDestroy, IInv, TypeOK, PhaseInv, Released, InputsReleased
  <2>2. CASE ReleaseDone
    BY <2>2 DEF ReleaseDone, Released, InputsReleased,
                IInv, TypeOK, PhaseInv
  <2>3. CASE \E g \in gates : DestroyGate(g)
    BY <2>3 DEF DestroyGate, IInv, TypeOK, PhaseInv, Released, InputsReleased
  <2>4. CASE UNCHANGED vars
    BY <2>4 DEF vars, IInv, TypeOK, PhaseInv, Released, InputsReleased
  <2> QED
    BY <2>1, <2>2, <2>3, <2>4
<1>2. InputsInv' /\ OutputsInv'
  BY <1>1 DEF IInv, InputsInv, OutputsInv, Fits
<1>3. ArraysInv' /\ AllocatedInv'
  BY <1>1 DEF IInv, ArraysInv, AllocatedInv
<1> QED
  BY <1>1, <1>2, <1>3 DEF IInv

\* A circuit with no wire satisfies the invariant.
LEMMA InitInv ==
  ASSUME Init
  PROVE  IInv
<1>1. \A v \in Wires : drivens[v] = <<>> /\ drivers[v] = <<>>
  BY DEF Init
<1>2. Array(<<>>) /\ Elems(<<>>) = {}
  BY EmptyArray
<1>3. TypeOK
  <2>1. Packed(<<>>) /\ <<>> \in Seq(Cell)
    BY <1>2 DEF Array
  <2>2. drivens \in [Wires -> Seq(Cell)] /\ drivers \in [Wires -> Seq(Cell)]
    BY <2>1 DEF Init
  <2>3. /\ wire_type \in [Wires -> Signals \cup {NULL}]
        /\ token \in [Tokens -> TokenportOf \cup {NULL}]
        /\ in_slot \in [InPorts -> Tokens \cup {NULL}]
        /\ out_slot \in [OutPorts -> Wires \cup {NULL}]
        /\ phase = "use" /\ gates = Gates
    BY DEF Init
  <2> QED
    BY <1>1, <2>1, <2>2, <2>3 DEF TypeOK, Cell
<1>4. InputsInv
  BY <1>1, <1>2 DEF Init, InputsInv
<1>5. OutputsInv
  BY <1>1, <1>2, PortTypes DEF Init, OutputsInv
<1>6. ArraysInv
  BY <1>1, <1>2 DEF ArraysInv
<1>7. AllocatedInv
  BY <1>1, <1>2 DEF Init, AllocatedInv
<1>8. PhaseInv
  BY DEF Init, PhaseInv
<1> QED
  BY <1>3, <1>4, <1>5, <1>6, <1>7, <1>8 DEF IInv

\* A step that destroys no wire preserves the invariant.
LEMMA StepInv ==
  ASSUME Distinct(InPorts), Distinct(OutPorts), IInv, [Next]_vars,
         \A w \in Wires : ~DestroyWire(w)
  PROVE  IInv'
<1>1. CASE \E w \in Wires, k \in Tokens, p \in InPorts : WireInput(p, w, k)
  BY <1>1, WireInputStep
<1>2. CASE \E w \in Wires, k \in Tokens, o \in OutPorts : WireOutput(o, w, k)
  BY <1>2, WireOutputStep
<1>3. CASE \E w \in Wires, k \in Tokens, o \in OutPorts, p \in InPorts, l \in Tokens :
             WirePortsTogether(o, w, p, k, l)
  BY <1>3, WirePortsTogetherStep
<1>4. CASE \E p \in InPorts : UnwireInput(p)
  BY <1>4, UnwireInputStep
<1>5. CASE \E o \in OutPorts : UnwireOutput(o)
  BY <1>5, UnwireOutputStep
<1>6. CASE \E w \in Wires, s \in Signals : CreateWire(w, s)
  BY <1>6, CreateWireStep
<1>7. CASE BeginDestroy \/ ReleaseDone \/ (\E g \in gates : DestroyGate(g)) \/ UNCHANGED vars
  BY <1>7, OtherSteps
<1> QED
  BY <1>1, <1>2, <1>3, <1>4, <1>5, <1>6, <1>7 DEF Next, Release

\* As long as no wire is destroyed, whatever indices the gates answer.
LEMMA UnlistedStayWired ==
  ASSUME IInv
  PROVE  OnlyUnlistedPortsStayWired
<1>1. gates = Gates \/ Released
  BY DEF IInv, PhaseInv, TypeOK
<1>2. ASSUME NEW p \in InPorts, Listed(p), in_slot[p] # NULL PROVE p.gate \in gates
  BY <1>1, <1>2, PortTypes DEF Released, InputsReleased
<1>3. ASSUME NEW o \in OutPorts, Listed(o), out_slot[o] # NULL PROVE o.gate \in gates
  BY <1>1, <1>3, PortTypes DEF Released
<1>4. ASSUME NEW w \in Wires, NEW k \in Reached(drivens[w]) \cup Reached(drivers[w]),
             token[k].gate \notin gates
      PROVE  \E p \in InPorts \cup OutPorts :
               ~Listed(p) /\ Fits(p, w) /\ token[k] = Tokenport(p, w)
  <2>1. k \in Elems(drivens[w]) \cup Elems(drivers[w])
    BY ReachesAll DEF IInv, ArraysInv
  <2>2. CASE k \in Elems(drivens[w])
    <3>1. PICK p \in InPorts : in_slot[p] = k /\ Fits(p, w) /\ token[k] = Tokenport(p, w)
      BY <2>2 DEF IInv, InputsInv
    <3>2. token[k].gate = p.gate /\ in_slot[p] # NULL
      BY <2>2, <3>1 DEF Tokenport, Elems
    <3> QED
      BY <1>2, <1>4, <3>1, <3>2
  <2>3. CASE k \in Elems(drivers[w])
    <3>1. PICK o \in OutPorts :
            out_slot[o] = w /\ Fits(o, w) /\ token[k] = Tokenport(o, w)
      BY <2>3 DEF IInv, OutputsInv
    <3>2. token[k].gate = o.gate /\ out_slot[o] # NULL
      BY <3>1, PortTypes DEF Tokenport
    <3> QED
      BY <1>3, <1>4, <3>1, <3>2
  <2> QED
    BY <2>1, <2>2, <2>3
<1> QED
  BY <1>2, <1>3, <1>4 DEF OnlyUnlistedPortsStayWired

\* When the wires are destroyed no gate is left, and of the destroyed ones at
\* most the ports that the release has left out are wired.
Destroying ==
  /\ phase = "wires" /\ gates = {}
  /\ DOMAIN wire_type = Wires /\ DOMAIN drivens = Wires /\ DOMAIN drivers = Wires
  /\ OnlyUnlistedPortsStayWired

\* The invariant holds of every circuit until its wires are destroyed.
LEMMA UntilWiresGo ==
  ASSUME Distinct(InPorts), Distinct(OutPorts)
  PROVE  Spec => [](IInv \/ Destroying)
<1> DEFINE NoGates == phase = "wires" => gates = {}
<1>1. IInv /\ NoGates /\ phase = "wires" => Destroying
  BY UnlistedStayWired DEF IInv, TypeOK, Destroying
<1>2. ASSUME Destroying, [Next]_vars PROVE Destroying'
  <2>1. CASE UNCHANGED vars
    BY <1>2, <2>1 DEF vars, OnlyUnlistedPortsStayWired, Fits, Destroying
  <2>2. ASSUME NEW w \in Wires, DestroyWire(w) PROVE Destroying'
    <3>1. /\ phase' = "wires"
          /\ UNCHANGED <<gates, token, in_slot, out_slot>>
          /\ DOMAIN wire_type' = Wires /\ DOMAIN drivens' = Wires /\ DOMAIN drivers' = Wires
          /\ \A v \in Wires \ {w} : /\ wire_type'[v] = wire_type[v]
                                  /\ drivens'[v] = drivens[v] /\ drivers'[v] = drivers[v]
          /\ drivens'[w] = <<>> /\ drivers'[w] = <<>>
      BY <1>2, <2>2 DEF DestroyWire, Destroying
    <3>2. Reached(drivens'[w]) \cup Reached(drivers'[w]) = {}
      BY <3>1, EmptySeq DEF Reached
    <3>3. \A v \in Wires : \A k \in Reached(drivens'[v]) \cup Reached(drivers'[v]) :
            \/ token[k].gate \in gates
            \/ \E p \in InPorts \cup OutPorts :
                 ~Listed(p) /\ Fits(p, v)' /\ token[k] = Tokenport(p, v)
      BY <1>2, <3>1, <3>2 DEF OnlyUnlistedPortsStayWired, Fits, Destroying
    <3> QED
      BY <1>2, <3>1, <3>3 DEF OnlyUnlistedPortsStayWired, Destroying
  <2>3. CASE Next /\ \A w \in Wires : ~DestroyWire(w)
    BY <1>2, <2>3 DEF Next, WireInput, WireOutput, WirePortsTogether, CreateWire,
                      BeginDestroy, Release, ReleaseDone, DestroyGate, Destroying
  <2> QED
    BY <1>2, <2>1, <2>2, <2>3
<1>3. Init => IInv /\ NoGates
  BY InitInv DEF Init
<1>4. ASSUME NoGates, [Next]_vars PROVE NoGates'
  <2>1. CASE \E g \in gates : DestroyGate(g)
    BY <2>1 DEF DestroyGate
  <2>2. CASE UNCHANGED <<phase, gates>>
    BY <1>4, <2>2
  <2>3. CASE BeginDestroy \/ ReleaseDone
    BY <2>3 DEF BeginDestroy, ReleaseDone
  <2>4. (\E p \in InPorts : UnwireInput(p)) \/ (\E o \in OutPorts : UnwireOutput(o)) =>
          UNCHANGED <<phase, gates>>
    BY DEF UnwireInput, UnwireOutput
  <2> QED
    BY <1>4, <2>1, <2>2, <2>3, <2>4
       DEF Next, vars, WireInput, WireOutput, WirePortsTogether, CreateWire, Release, DestroyWire
<1>5. ASSUME IInv, NoGates, [Next]_vars PROVE IInv' \/ Destroying'
  <2>1. CASE \E w \in Wires : DestroyWire(w)
    BY <1>1, <1>2, <1>5, <2>1 DEF DestroyWire
  <2>2. CASE \A w \in Wires : ~DestroyWire(w)
    BY <1>5, <2>2, StepInv
  <2> QED
    BY <2>1, <2>2
<1> HIDE DEF NoGates
<1>6. (IInv \/ Destroying) /\ NoGates /\ [Next]_vars => (IInv \/ Destroying)' /\ NoGates'
  BY <1>2, <1>4, <1>5
<1> QED
  BY <1>3, <1>6, PTL DEF Spec

\* The Tokenport in the slot of an input port is that port's.
THEOREM SlotsAreSound ==
  ASSUME Distinct(InPorts), Distinct(OutPorts)
  PROVE  Spec => []SlotsHoldTheirToken
<1>1. IInv \/ Destroying => SlotsHoldTheirToken
  BY DEF IInv, InputsInv, SlotsHoldTheirToken, Destroying
<1> QED
  BY <1>1, UntilWiresGo, PTL

\* The gates' side and the wires' side agree, until the gates are destroyed.
THEOREM TheSidesAgree ==
  ASSUME Distinct(InPorts), Distinct(OutPorts)
  PROVE  Spec => []SidesAgree
<1>1. ASSUME IInv, NEW w \in Wires
      PROVE  /\ NoDuplicates(drivens[w]) /\ NoDuplicates(drivers[w])
             /\ Reached(drivens[w]) = {in_slot[p] : p \in {q \in InPorts : On(q, w)}}
             /\ {token[k] : k \in Reached(drivers[w])} =
                  {Tokenport(o, w) : o \in {q \in OutPorts : out_slot[q] = w}}
  <2>1. /\ Array(drivens[w]) /\ Array(drivers[w])
        /\ Reached(drivens[w]) = Elems(drivens[w])
        /\ Reached(drivers[w]) = Elems(drivers[w])
    BY <1>1, ReachesAll DEF IInv, ArraysInv
  <2>2. ASSUME NEW p \in InPorts, On(p, w) PROVE in_slot[p] \in Elems(drivens[w])
    BY <1>1, <2>2, PortTypes DEF IInv, InputsInv, On
  <2>3. ASSUME NEW k \in Elems(drivens[w])
        PROVE  \E p \in InPorts : On(p, w) /\ in_slot[p] = k
    <3>1. PICK p \in InPorts : in_slot[p] = k /\ token[k] = Tokenport(p, w)
      BY <1>1 DEF IInv, InputsInv
    <3>2. k # NULL
      BY DEF Elems
    <3> QED
      BY <3>1, <3>2, PortTypes DEF On
  <2>4. Elems(drivens[w]) = {in_slot[p] : p \in {q \in InPorts : On(q, w)}}
    BY <2>2, <2>3
  <2>5. {token[k] : k \in Elems(drivers[w])} =
          {Tokenport(o, w) : o \in {q \in OutPorts : out_slot[q] = w}}
    <3>1. \A o \in OutPorts : out_slot[o] = w =>
            \E k \in Elems(drivers[w]) : token[k] = Tokenport(o, w)
      BY <1>1 DEF IInv, OutputsInv
    <3>2. \A k \in Elems(drivers[w]) :
            \E o \in OutPorts : out_slot[o] = w /\ token[k] = Tokenport(o, w)
      BY <1>1 DEF IInv, OutputsInv
    <3> QED
      BY <3>1, <3>2
  <2> QED
    BY <2>1, <2>4, <2>5 DEF Array
<1>2. IInv \/ Destroying => SidesAgree
  BY <1>1 DEF SidesAgree, Destroying
<1> QED
  BY <1>2, UntilWiresGo, PTL

\* In every circuit, one with boolean gates among them, lxc_circuit_destroy
\* leaves no port of a destroyed gate wired but those whose index is the one
\* the gate answers to get_*_max_index.
THEOREM OnlyUnlistedAreLeft ==
  ASSUME Distinct(InPorts), Distinct(OutPorts)
  PROVE  Spec => []OnlyUnlistedPortsStayWired
<1>1. IInv \/ Destroying => OnlyUnlistedPortsStayWired
  BY UnlistedStayWired DEF Destroying
<1> QED
  BY <1>1, UntilWiresGo, PTL

\* All states of a circuit satisfy the invariant, if no two ports of a gate
\* differ in nothing but their subtype and none is left out by the release.
THEOREM Invariant ==
  ASSUME Distinct(InPorts), Distinct(OutPorts), AllListed
  PROVE  Spec => []IInv
<1>1. Init => IInv
  BY InitInv
<1>2. ASSUME IInv, [Next]_vars PROVE IInv'
  <2>1. CASE \E w \in Wires : DestroyWire(w)
    BY <1>2, <2>1, DestroyWireStep
  <2>2. CASE \A w \in Wires : ~DestroyWire(w)
    BY <1>2, <2>2, StepInv
  <2> QED
    BY <2>1, <2>2
<1> QED
  BY <1>1, <1>2, PTL DEF Spec

\* The types of the state, and that the arrays are in use up to some place.
THEOREM TypeCorrect ==
  ASSUME Distinct(InPorts), Distinct(OutPorts), AllListed
  PROVE  Spec => []TypeOK
<1>1. IInv => TypeOK
  BY DEF IInv
<1> QED
  BY <1>1, Invariant, PTL

\* No Tokenport leaks.
THEOREM NoTokenportLeaks ==
  ASSUME Distinct(InPorts), Distinct(OutPorts), AllListed
  PROVE  Spec => []NothingLeaks
<1>1. ASSUME IInv PROVE NothingLeaks
  <2>1. \A w \in Wires : /\ Reached(drivens[w]) = Elems(drivens[w])
                         /\ Reached(drivers[w]) = Elems(drivers[w])
    BY <1>1, ReachesAll DEF IInv, ArraysInv
  <2>2. \A w \in Wires : Elems(drivens[w]) \cup Elems(drivers[w]) \subseteq Tokens
    BY <1>1, ElemsAreTokens
  <2>3. \A k \in Tokens :
          ~IsFree(k) <=> \E w \in Wires : k \in Elems(drivens[w]) \cup Elems(drivers[w])
    BY <1>1 DEF IInv, AllocatedInv, IsFree
  <2> QED
    BY <2>1, <2>2, <2>3 DEF NothingLeaks
<1> QED
  BY <1>1, Invariant, PTL

-----------------------------------------------------------------------------
(* Wiring implements Netlist.                                               *)

\* What is wired to what, as the gates know it.
InLinks == {link \in InPorts \X Wires : On(link[1], link[2])}
OutLinks == {link \in OutPorts \X Wires : out_slot[link[1]] = link[2]}

\* The wires' arrays tell the same links as the gates' slots.
LEMMA LinksInSlots ==
  ASSUME Distinct(InPorts), Distinct(OutPorts), IInv
  PROVE  Links(InPorts, drivens) = InLinks /\ Links(OutPorts, drivers) = OutLinks
<1>1. \A w \in Wires : /\ Reached(drivens[w]) = Elems(drivens[w])
                       /\ Reached(drivers[w]) = Elems(drivers[w])
  BY ReachesAll DEF IInv, ArraysInv
<1>2. ASSUME NEW p \in InPorts, NEW w \in Wires
      PROVE  On(p, w) <=> Fits(p, w) /\ \E k \in Elems(drivens[w]) : token[k] = Tokenport(p, w)
  <2>1. ASSUME On(p, w)
        PROVE  Fits(p, w) /\ \E k \in Elems(drivens[w]) : token[k] = Tokenport(p, w)
    BY <2>1, PortTypes DEF On, IInv, InputsInv
  <2>2. ASSUME Fits(p, w), NEW k \in Elems(drivens[w]), token[k] = Tokenport(p, w)
        PROVE  On(p, w)
    <3>1. PICK q \in InPorts : in_slot[q] = k /\ Fits(q, w) /\ token[k] = Tokenport(q, w)
      BY DEF IInv, InputsInv
    <3>2. q.gate = p.gate /\ q.index = p.index /\ q.type = p.type
      <4>1. Tokenport(q, w).gate = Tokenport(p, w).gate
            /\ Tokenport(q, w).index = Tokenport(p, w).index
        BY <2>2, <3>1
      <4> QED
        BY <2>2, <3>1, <4>1, PortTypes DEF Fits
    <3>3. q = p /\ k # NULL
      BY <3>2 DEF Distinct, Elems
    <3> QED
      BY <2>2, <3>1, <3>3, PortTypes DEF On
  <2> QED
    BY <2>1, <2>2
<1>3. ASSUME NEW o \in OutPorts, NEW w \in Wires
      PROVE  out_slot[o] = w <=>
               Fits(o, w) /\ \E k \in Elems(drivers[w]) : token[k] = Tokenport(o, w)
  <2>1. ASSUME Fits(o, w), out_slot[o] # w
        PROVE  \A k \in Elems(drivers[w]) : token[k] # Tokenport(o, w)
    BY <2>1, NotKnownYet
  <2> QED
    BY <2>1 DEF IInv, OutputsInv
<1> QED
  BY <1>1, <1>2, <1>3 DEF Links, InLinks, OutLinks

\* A Tokenport is in the slot of one port, and is allocated.
LEMMA SlotsDiffer ==
  ASSUME Distinct(InPorts), IInv,
         NEW p \in InPorts, NEW q \in InPorts, p # q, in_slot[q] # NULL
  PROVE  in_slot[q] # in_slot[p] /\ in_slot[q] \in Tokens /\ token[in_slot[q]] # NULL
<1>1. PICK w \in Wires : Fits(q, w) /\ token[in_slot[q]] = Tokenport(q, w)
  BY DEF IInv, InputsInv
<1>2. ASSUME in_slot[q] = in_slot[p] PROVE FALSE
  <2>1. PICK v \in Wires : Fits(p, v) /\ token[in_slot[p]] = Tokenport(p, v)
    BY <1>2 DEF IInv, InputsInv
  <2>2. q.gate = p.gate /\ q.index = p.index /\ w = v
    BY <1>1, <1>2, <2>1, SameTokenport
  <2> QED
    BY <1>1, <2>1, <2>2 DEF Distinct, Fits
<1> QED
  BY <1>1, <1>2, Types, PortTypes

\* Only the Tokenport in a port's slot matters to what the port is on.
LEMMA OnIsKept ==
  ASSUME NEW q \in InPorts, NEW w \in Wires, in_slot'[q] = in_slot[q],
         in_slot[q] # NULL => token'[in_slot[q]] = token[in_slot[q]]
  PROVE  On(q, w)' <=> On(q, w)
BY DEF On

\* A new Tokenport in a free slot adds one link.
LEMMA InputIsAttached ==
  ASSUME Distinct(InPorts), IInv, NEW p \in InPorts, NEW w \in Wires, NEW l \in Tokens,
         IsFree(l), in_slot[p] = NULL, in_slot' = [in_slot EXCEPT ![p] = l],
         token'[l] = Tokenport(p, w),
         \A x \in Tokens : token[x] # NULL => token'[x] = token[x]
  PROVE  (\A v \in Wires : <<p, v>> \notin InLinks) /\ InLinks' = InLinks \cup {<<p, w>>}
<1>1. \A v \in Wires : ~On(p, v)
  BY DEF On
<1>2. \A v \in Wires : On(p, v)' <=> v = w
  <2>1. in_slot'[p] = l
    BY Types
  <2> QED
    BY <2>1, PortTypes DEF On
<1>3. ASSUME NEW q \in InPorts, q # p, NEW v \in Wires PROVE On(q, v)' <=> On(q, v)
  <2>1. in_slot'[q] = in_slot[q]
    BY <1>3, Types
  <2>2. in_slot[q] # NULL => token'[in_slot[q]] = token[in_slot[q]]
    BY <1>3, SlotsDiffer
  <2> QED
    BY <2>1, <2>2, OnIsKept
<1> QED
  BY <1>1, <1>2, <1>3 DEF InLinks

\* A wire in a free output slot adds one link.
LEMMA OutputIsAttached ==
  ASSUME IInv, NEW o \in OutPorts, NEW w \in Wires,
         out_slot[o] = NULL, out_slot' = [out_slot EXCEPT ![o] = w]
  PROVE  (\A v \in Wires : <<o, v>> \notin OutLinks) /\ OutLinks' = OutLinks \cup {<<o, w>>}
<1>1. out_slot'[o] = w /\ \A q \in OutPorts : q # o => out_slot'[q] = out_slot[q]
  BY Types
<1> QED
  BY <1>1, PortTypes DEF OutLinks

\* Unwiring an input removes its link and no other.
LEMMA InputIsDetached ==
  ASSUME Distinct(InPorts), IInv, NEW p \in InPorts, UnwireInput(p)
  PROVE  /\ \E w \in Wires : <<p, w>> \in InLinks /\ InLinks' = InLinks \ {<<p, w>>}
         /\ OutLinks' = OutLinks
<1>1. PICK w \in Wires :
        LET n == Place(p, drivens[w]) IN
          /\ token[in_slot[p]].owner = w
          /\ drivens[w][n] = in_slot[p]
          /\ token[in_slot[p]] = Tokenport(p, w)
          /\ in_slot[p] \in Tokens
  BY FindsInput DEF UnwireInput
<1>2. /\ in_slot[p] # NULL
      /\ in_slot' = [in_slot EXCEPT ![p] = NULL]
      /\ token' = [token EXCEPT ![in_slot[p]] = NULL]
      /\ out_slot' = out_slot
  BY <1>1 DEF UnwireInput
<1>3. \A v \in Wires : (On(p, v) <=> v = w) /\ ~On(p, v)'
  <2>1. in_slot'[p] = NULL
    BY <1>2, Types
  <2> QED
    BY <1>1, <1>2, <2>1, PortTypes DEF On
<1>4. ASSUME NEW q \in InPorts, q # p, NEW v \in Wires PROVE On(q, v)' <=> On(q, v)
  <2>1. in_slot'[q] = in_slot[q]
    BY <1>2, <1>4, Types
  <2>2. in_slot[q] # NULL => token'[in_slot[q]] = token[in_slot[q]]
    BY <1>2, <1>4, SlotsDiffer, Types
  <2> QED
    BY <2>1, <2>2, OnIsKept
<1> QED
  BY <1>2, <1>3, <1>4 DEF InLinks, OutLinks

\* Unwiring an output removes its link and no other.
LEMMA OutputIsDetached ==
  ASSUME Distinct(OutPorts), IInv, NEW o \in OutPorts, UnwireOutput(o)
  PROVE  /\ \E w \in Wires : <<o, w>> \in OutLinks /\ OutLinks' = OutLinks \ {<<o, w>>}
         /\ InLinks' = InLinks
<1>1. PICK w \in Wires : out_slot[o] = w
  BY Types DEF UnwireOutput
<1> DEFINE k == drivers[w][Place(o, drivers[w])]
<1>2. /\ k \in Elems(drivers[w])
      /\ out_slot' = [out_slot EXCEPT ![o] = NULL]
      /\ token' = [token EXCEPT ![k] = NULL]
      /\ in_slot' = in_slot
  BY <1>1, FindsOutput DEF UnwireOutput, Elems
<1>3. ASSUME NEW q \in InPorts, NEW v \in Wires PROVE On(q, v)' <=> On(q, v)
  <2>1. in_slot[q] # NULL => \E u \in Wires : in_slot[q] \in Elems(drivens[u])
    BY DEF IInv, InputsInv
  <2>2. in_slot[q] # NULL => in_slot[q] # k /\ in_slot[q] \in Tokens
    BY <1>2, <2>1, Types DEF IInv, ArraysInv
  <2>3. in_slot[q] # NULL => token'[in_slot[q]] = token[in_slot[q]]
    BY <1>2, <2>2, Types
  <2> QED
    BY <1>2, <2>3, OnIsKept
<1>4. out_slot'[o] = NULL /\ \A q \in OutPorts : q # o => out_slot'[q] = out_slot[q]
  BY <1>2, Types
<1> QED
  BY <1>1, <1>3, <1>4, PortTypes DEF InLinks, OutLinks

\* Told from the gates' slots, a step of the circuit is one of the netlist.
SlotsStep ==
  \/ UNCHANGED <<InLinks, OutLinks>>
  \/ \E p \in InPorts, w \in Wires :
       /\ \A v \in Wires : <<p, v>> \notin InLinks
       /\ InLinks' = InLinks \cup {<<p, w>>} /\ OutLinks' = OutLinks
  \/ \E o \in OutPorts, w \in Wires :
       /\ \A v \in Wires : <<o, v>> \notin OutLinks
       /\ OutLinks' = OutLinks \cup {<<o, w>>} /\ InLinks' = InLinks
  \/ \E p \in InPorts, o \in OutPorts, w \in Wires :
       /\ \A v \in Wires : <<p, v>> \notin InLinks /\ <<o, v>> \notin OutLinks
       /\ InLinks' = InLinks \cup {<<p, w>>} /\ OutLinks' = OutLinks \cup {<<o, w>>}
  \/ \E link \in InLinks : InLinks' = InLinks \ {link} /\ OutLinks' = OutLinks
  \/ \E link \in OutLinks : OutLinks' = OutLinks \ {link} /\ InLinks' = InLinks

\* Every step of Next is such a step.
LEMMA StepsOnSlots ==
  ASSUME Distinct(InPorts), Distinct(OutPorts), IInv, [Next]_vars
  PROVE  SlotsStep
<1>1. ASSUME NEW w \in Wires, NEW k \in Tokens, NEW p \in InPorts, WireInput(p, w, k)
      PROVE  SlotsStep
  <2>1. /\ token' = [token EXCEPT ![k] = Tokenport(p, w)] /\ IsFree(k)
        /\ in_slot[p] = NULL /\ in_slot' = [in_slot EXCEPT ![p] = k]
        /\ out_slot' = out_slot
    BY <1>1 DEF WireInput
  <2>2. token'[k] = Tokenport(p, w) /\ \A x \in Tokens : token[x] # NULL => token'[x] = token[x]
    BY <2>1, Types DEF IsFree
  <2>3. (\A v \in Wires : <<p, v>> \notin InLinks) /\ InLinks' = InLinks \cup {<<p, w>>}
    BY <2>1, <2>2, InputIsAttached
  <2>4. OutLinks' = OutLinks
    BY <2>1 DEF OutLinks
  <2> QED
    BY <2>3, <2>4 DEF SlotsStep
<1>2. ASSUME NEW w \in Wires, NEW k \in Tokens, NEW o \in OutPorts, WireOutput(o, w, k)
      PROVE  SlotsStep
  <2>1. /\ token' = [token EXCEPT ![k] = Tokenport(o, w)] /\ IsFree(k)
        /\ out_slot[o] = NULL /\ out_slot' = [out_slot EXCEPT ![o] = w]
        /\ in_slot' = in_slot
    BY <1>2 DEF WireOutput
  <2>2. (\A v \in Wires : <<o, v>> \notin OutLinks) /\ OutLinks' = OutLinks \cup {<<o, w>>}
    BY <2>1, OutputIsAttached
  <2>3. InLinks' = InLinks
    <3>1. ASSUME NEW q \in InPorts, NEW v \in Wires PROVE On(q, v)' <=> On(q, v)
      <4>1. in_slot[q] # NULL => in_slot[q] \in Tokens /\ token[in_slot[q]] # NULL
        BY Types, PortTypes DEF IInv, InputsInv
      <4>2. in_slot[q] # NULL => token'[in_slot[q]] = token[in_slot[q]]
        BY <2>1, <4>1, Types DEF IsFree
      <4> QED
        BY <2>1, <4>2, OnIsKept
    <3> QED
      BY <3>1 DEF InLinks
  <2> QED
    BY <2>2, <2>3 DEF SlotsStep
<1>3. ASSUME NEW w \in Wires, NEW k \in Tokens, NEW o \in OutPorts, NEW p \in InPorts,
             NEW l \in Tokens, WirePortsTogether(o, w, p, k, l)
      PROVE  SlotsStep
  <2>1. /\ token' = [token EXCEPT ![k] = Tokenport(o, w), ![l] = Tokenport(p, w)]
        /\ IsFree(k) /\ IsFree(l) /\ k # l
        /\ out_slot[o] = NULL /\ out_slot' = [out_slot EXCEPT ![o] = w]
        /\ in_slot[p] = NULL /\ in_slot' = [in_slot EXCEPT ![p] = l]
    BY <1>3 DEF WirePortsTogether
  <2>2. token'[l] = Tokenport(p, w) /\ \A x \in Tokens : token[x] # NULL => token'[x] = token[x]
    BY <2>1, Types DEF IsFree
  <2>3. (\A v \in Wires : <<p, v>> \notin InLinks) /\ InLinks' = InLinks \cup {<<p, w>>}
    BY <2>1, <2>2, InputIsAttached
  <2>4. (\A v \in Wires : <<o, v>> \notin OutLinks) /\ OutLinks' = OutLinks \cup {<<o, w>>}
    BY <2>1, OutputIsAttached
  <2> QED
    BY <2>3, <2>4 DEF SlotsStep
<1>4. ASSUME NEW p \in InPorts, UnwireInput(p) PROVE SlotsStep
  BY <1>4, InputIsDetached DEF SlotsStep
<1>5. ASSUME NEW o \in OutPorts, UnwireOutput(o) PROVE SlotsStep
  BY <1>5, OutputIsDetached DEF SlotsStep
<1>6. ASSUME UNCHANGED <<token, in_slot, out_slot>> PROVE SlotsStep
  BY <1>6 DEF SlotsStep, InLinks, OutLinks, On
<1> QED
  BY <1>1, <1>2, <1>3, <1>4, <1>5, <1>6
     DEF Next, Release, CreateWire, BeginDestroy, ReleaseDone, DestroyGate, DestroyWire, vars

\* The wires know what the program that wires the circuit has been promised:
\* every behaviour of Wiring is one of Netlist.
THEOREM ImplementsNetlist ==
  ASSUME Distinct(InPorts), Distinct(OutPorts), AllListed
  PROVE  Spec => WiresLikeANetlist
<1>1. IInv => Links(InPorts, drivens) = InLinks /\ Links(OutPorts, drivers) = OutLinks
  BY LinksInSlots
<1>2. (IInv => Links(InPorts, drivens) = InLinks /\ Links(OutPorts, drivers) = OutLinks)'
  BY <1>1, PTL
<1>3. Init => Net!Init
  BY EmptyArray DEF Init, Net!Init, Links, Reached
<1>4. ASSUME IInv, IInv', [Next]_vars
      PROVE  [Net!Next]_<<Links(InPorts, drivens), Links(OutPorts, drivers)>>
  <2>1. SlotsStep
    BY <1>4, StepsOnSlots
  <2>2. /\ Links(InPorts, drivens) = InLinks /\ Links(OutPorts, drivers) = OutLinks
        /\ Links(InPorts, drivens)' = InLinks' /\ Links(OutPorts, drivers)' = OutLinks'
    BY <1>1, <1>2, <1>4
  <2> QED
    BY <2>1, <2>2 DEF SlotsStep, Net!Next, Net!AttachInput, Net!AttachOutput,
                      Net!Detach, Net!Unwired
<1> QED
  BY <1>3, <1>4, Invariant, PTL DEF Spec, WiresLikeANetlist, Net!Spec
=============================================================================
