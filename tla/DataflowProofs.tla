--------------------------- MODULE DataflowProofs ---------------------------
(***************************************************************************)
(* Theorems about the references to values, for every circuit without       *)
(* loops, and with it for the sorting network of any size; and that the     *)
(* network sorts.                                                           *)
(***************************************************************************)
EXTENDS Dataflow, FiniteSetTheorems, SequenceTheorems, FunctionTheorems,
        WellFoundedInduction, TLAPS

Wires == WiresOf(circuit)

\* What is in memory, and what a call has to do.
Cell == {NULL} \cup [num : Nat, refs : Nat \ {0}]

Ops ==
  [op : {"drive"}, wire : Wires, value : Values]
    \cup {n \in [op : {"notify"}, wire : Wires, value : Values, ports : SUBSET (Gates \X (1 .. 2))] :
            n.ports \subseteq Driven(n.wire)}
    \cup [op : {"unref"}, value : Values]

TypeOK ==
  /\ circuit \in Circuits
  /\ phase \in {"new", "enabled", "disabled"}
  /\ wire_value \in [DOMAIN wire_value -> Values \cup {NULL}]
  /\ DOMAIN wire_value \subseteq Wires
  /\ phase # "disabled" => DOMAIN wire_value = Wires
  /\ value \in [Values -> Cell]
  /\ todo \in Seq(Ops)
  /\ phase # "enabled" => todo = <<>>
-----------------------------------------------------------------------------
(* Counting what is in a sequence.                                          *)

Places(s, x) == {n \in DOMAIN s : s[n] = x}

LEMMA PlacesFinite ==
  ASSUME NEW S, NEW s \in Seq(S), NEW x
  PROVE  IsFiniteSet(Places(s, x)) /\ Cardinality(Places(s, x)) \in Nat
<1>1. DOMAIN s = 1 .. Len(s) /\ Len(s) \in Nat
  OBVIOUS
<1>2. IsFiniteSet(1 .. Len(s))
  BY <1>1, FS_Interval
<1>3. Places(s, x) \in SUBSET (1 .. Len(s))
  BY <1>1 DEF Places
<1>4. QED
  BY <1>2, <1>3, FS_Subset, FS_CardinalityType

LEMMA PlacesOfOne ==
  ASSUME NEW x, NEW y
  PROVE  Cardinality(Places(<<y>>, x)) = IF y = x THEN 1 ELSE 0
<1>1. Places(<<y>>, x) = IF y = x THEN {1} ELSE {}
  BY DEF Places
<1>2. QED
  BY <1>1, FS_Singleton, FS_EmptySet

LEMMA PlacesOfNone == ASSUME NEW x PROVE Cardinality(Places(<<>>, x)) = 0
<1>1. Places(<<>>, x) = {}
  BY DEF Places
<1>2. QED
  BY <1>1, FS_EmptySet

LEMMA PlacesAdd ==
  ASSUME NEW S, NEW s \in Seq(S), NEW t \in Seq(S), NEW x
  PROVE  Cardinality(Places(s \o t, x)) = Cardinality(Places(s, x)) + Cardinality(Places(t, x))
<1> DEFINE k == Len(s)
           A == Places(s, x)
           B == Places(t, x)
           C == {n \in k + 1 .. k + Len(t) : t[n - k] = x}
           f == [n \in B |-> n + k]
<1>1. /\ k \in Nat /\ Len(t) \in Nat /\ DOMAIN s = 1 .. k /\ DOMAIN t = 1 .. Len(t)
      /\ DOMAIN (s \o t) = 1 .. k + Len(t)
      /\ \A n \in 1 .. k : (s \o t)[n] = s[n]
      /\ \A n \in k + 1 .. k + Len(t) : (s \o t)[n] = t[n - k]
  OBVIOUS
<1>2. Places(s \o t, x) = A \cup C
  BY <1>1 DEF Places
<1>3. A \cap C = {}
  BY <1>1 DEF Places
<1>4. f \in Bijection(B, C)
  <2>1. \A n \in B : n \in 1 .. Len(t) /\ t[n] = x
    BY <1>1 DEF Places
  <2>2. \A n \in B : n + k \in k + 1 .. k + Len(t) /\ n + k - k = n
    BY <1>1, <2>1
  <2>3. f \in [B -> C]
    BY <2>1, <2>2
  <2>4. \A m, n \in B : f[m] = f[n] => m = n
    BY <1>1, <2>1
  <2>5. \A n \in C : n - k \in B /\ f[n - k] = n
    BY <1>1 DEF Places
  <2> HIDE DEF f, C, B
  <2>6. f \in Surjection(B, C)
    BY <2>3, <2>5, Fun_IsSurj
  <2>7. f \in Injection(B, C)
    BY <2>3, <2>4, Fun_IsInj
  <2>8. QED
    BY <2>6, <2>7 DEF Bijection
<1>5. IsFiniteSet(A) /\ IsFiniteSet(B) /\ Cardinality(A) \in Nat /\ Cardinality(B) \in Nat
  BY PlacesFinite
<1> HIDE DEF f, A, B, C
<1>6. IsFiniteSet(C) /\ Cardinality(C) = Cardinality(B)
  BY <1>4, <1>5, FS_Bijection DEF ExistsBijection
<1>7. Cardinality(A \cup C) = Cardinality(A) + Cardinality(C) - Cardinality(A \cap C)
  BY <1>5, <1>6, FS_Union
<1>8. Cardinality(A \cap C) = 0
  BY <1>3, FS_EmptySet
<1>9. QED
  BY <1>2, <1>5, <1>6, <1>7, <1>8 DEF A, B

\* The first place apart from the others.
LEMMA HeadThenTail ==
  ASSUME NEW S, NEW s \in Seq(S), s # <<>>
  PROVE  /\ Head(s) = s[1] /\ Head(s) \in S /\ Tail(s) \in Seq(S) /\ s = <<Head(s)>> \o Tail(s)
         /\ Len(s) \in Nat \ {0} /\ Len(Tail(s)) = Len(s) - 1
         /\ \A n \in 1 .. Len(s) - 1 : Tail(s)[n] = s[n + 1]
<1>1. Len(s) \in Nat \ {0}
  BY EmptySeq
<1>2. /\ Head(s) = s[1] /\ Head(s) \in S /\ Tail(s) \in Seq(S) /\ Len(Tail(s)) = Len(s) - 1
      /\ \A n \in 1 .. Len(s) - 1 : Tail(s)[n] = s[n + 1]
  BY <1>1, HeadTailProperties
<1>3. s = <<Head(s)>> \o Tail(s)
  <2> DEFINE r == <<Head(s)>> \o Tail(s)
  <2>1. r \in Seq(S) /\ Len(r) = Len(s) /\ \A n \in 1 .. Len(s) : r[n] = s[n]
    BY <1>1, <1>2
  <2> HIDE DEF r
  <2>2. r = s
    BY <2>1, SeqEqual
  <2>3. QED
    BY <2>2 DEF r
<1>4. QED
  BY <1>1, <1>2, <1>3
-----------------------------------------------------------------------------
(* References.                                                              *)

Refs(val, x) == IF val[x] = NULL THEN 0 ELSE val[x].refs

On(wires, x) == {w \in DOMAIN wires : wires[w] = x}

LEMMA CellFacts ==
  ASSUME NEW val \in [Values -> Cell], NEW x \in Values
  PROVE  /\ Refs(val, x) \in Nat /\ (Refs(val, x) = 0 <=> val[x] = NULL)
         /\ val[x] # NULL => val[x] \in [num : Nat, refs : Nat \ {0}]
<1>1. val[x] \in Cell
  OBVIOUS
<1>2. QED
  BY <1>1 DEF Cell, Refs

LEMMA Referred ==
  ASSUME NEW val \in [Values -> Cell], NEW v \in Values, val[v] # NULL
  PROVE  /\ Refer(val, v) \in [Values -> Cell]
         /\ \A x \in Values : Refs(Refer(val, v), x) = Refs(val, x) + IF x = v THEN 1 ELSE 0
<1> DEFINE c == [val[v] EXCEPT !.refs = @ + 1]
<1>1. val[v] \in [num : Nat, refs : Nat \ {0}]
  BY CellFacts
<1>2. c \in [num : Nat, refs : Nat \ {0}] /\ c.refs = val[v].refs + 1
  BY <1>1
<1>3. c \in Cell /\ c # NULL
  BY <1>2, DataflowAssumption DEF Cell
<1>4. Refer(val, v) = [val EXCEPT ![v] = c]
  BY DEF Refer
<1> HIDE DEF c
<1>5. Refer(val, v) \in [Values -> Cell]
  BY <1>3, <1>4
<1>6. ASSUME NEW x \in Values
      PROVE  Refs(Refer(val, v), x) = Refs(val, x) + IF x = v THEN 1 ELSE 0
  <2>1. CASE x = v
    BY <1>2, <1>3, <1>4, <2>1 DEF Refs
  <2>2. CASE x # v
    <3>1. Refer(val, v)[x] = val[x]
      BY <1>4, <2>2
    <3>2. QED
      BY <2>2, <3>1, CellFacts DEF Refs
  <2>3. QED
    BY <2>1, <2>2
<1>7. QED
  BY <1>5, <1>6

LEMMA Unreferred ==
  ASSUME NEW val \in [Values -> Cell], NEW v \in Values, val[v] # NULL
  PROVE  /\ Unrefer(val, v) \in [Values -> Cell]
         /\ \A x \in Values : Refs(Unrefer(val, v), x) = Refs(val, x) - IF x = v THEN 1 ELSE 0
<1> DEFINE left == val[v].refs - 1
           c == IF left > 0 THEN [val[v] EXCEPT !.refs = left] ELSE NULL
<1>1. val[v] \in [num : Nat, refs : Nat \ {0}] /\ NULL \notin [num : Nat, refs : Nat]
  BY CellFacts, DataflowAssumption
<1>2. CASE left > 0
  <2>1. c \in [num : Nat, refs : Nat \ {0}] /\ c.refs = val[v].refs - 1
    BY <1>1, <1>2
  <2>2. QED
    <3>1. c \in Cell /\ c # NULL
      BY <1>1, <2>1 DEF Cell
    <3>2. Unrefer(val, v) = [val EXCEPT ![v] = c]
      BY DEF Unrefer
    <3> HIDE DEF c
    <3>3. Unrefer(val, v) \in [Values -> Cell]
      BY <3>1, <3>2
    <3>4. ASSUME NEW x \in Values
          PROVE  Refs(Unrefer(val, v), x) = Refs(val, x) - IF x = v THEN 1 ELSE 0
      <4>1. CASE x = v
        BY <2>1, <3>1, <3>2, <4>1 DEF Refs
      <4>2. CASE x # v
        <5>1. Unrefer(val, v)[x] = val[x]
          BY <3>2, <4>2
        <5>2. QED
          BY <4>2, <5>1, CellFacts DEF Refs
      <4>3. QED
        BY <4>1, <4>2
    <3>5. QED
      BY <3>3, <3>4
<1>3. CASE ~(left > 0)
  <2>1. c = NULL /\ val[v].refs = 1
    BY <1>1, <1>3
  <2>2. Unrefer(val, v) = [val EXCEPT ![v] = c]
    BY DEF Unrefer
  <2> HIDE DEF c
  <2>3. NULL \in Cell
    BY DEF Cell
  <2>4. Unrefer(val, v) \in [Values -> Cell]
    BY <2>1, <2>2, <2>3
  <2>5. ASSUME NEW x \in Values
        PROVE  Refs(Unrefer(val, v), x) = Refs(val, x) - IF x = v THEN 1 ELSE 0
    <3>1. CASE x = v
      BY <2>1, <2>2, <3>1 DEF Refs
    <3>2. CASE x # v
      <4>1. Unrefer(val, v)[x] = val[x]
        BY <2>2, <3>2
      <4>2. QED
        BY <3>2, <4>1, CellFacts DEF Refs
    <3>3. QED
      BY <3>1, <3>2
  <2>6. QED
    BY <2>4, <2>5
<1>4. QED
  BY <1>2, <1>3

\* What lxc_import_new_value does to the references.
LEMMA Imported ==
  ASSUME NEW val \in [Values -> Cell],
         NEW v \in Values \cup {NULL}, v # NULL => val[v] # NULL,
         NEW old \in Values \cup {NULL}, old # NULL => val[old] # NULL
  PROVE  /\ Import(val, v, old) \in [Values -> Cell]
         /\ \A x \in Values :
              Refs(Import(val, v, old), x) =
                Refs(val, x) + (IF x = v /\ x # old THEN 1 ELSE 0)
                             - (IF x = old /\ x # v THEN 1 ELSE 0)
<1> DEFINE referred == IF v = NULL THEN val ELSE Refer(val, v)
<1>1. NULL \notin Values
  BY DataflowAssumption
<1>2. \A x \in Values : Refs(val, x) \in Nat
  BY CellFacts
<1>3. CASE v = old
  <2>1. Import(val, v, old) = val
    BY <1>3 DEF Import
  <2>2. QED
    BY <1>2, <1>3, <2>1
<1>4. CASE v # old
  <2>1. Import(val, v, old) = IF old = NULL THEN referred ELSE Unrefer(referred, old)
    BY <1>4 DEF Import
  <2>2. /\ referred \in [Values -> Cell]
        /\ \A x \in Values : Refs(referred, x) = Refs(val, x) + IF x = v THEN 1 ELSE 0
    <3>1. CASE v = NULL
      BY <1>1, <1>2, <3>1
    <3>2. CASE v # NULL
      BY <3>2, Referred
    <3>3. QED
      BY <3>1, <3>2
  <2> HIDE DEF referred
  <2>3. CASE old = NULL
    BY <1>1, <1>2, <1>4, <2>1, <2>2, <2>3
  <2>4. CASE old # NULL
    <3>1. old \in Values /\ referred[old] # NULL
      <4>1. old \in Values /\ Refs(val, old) # 0
        BY <2>4, CellFacts
      <4>2. Refs(referred, old) = Refs(val, old)
        BY <1>2, <1>4, <2>2, <4>1
      <4>3. QED
        BY <2>2, <4>1, <4>2, CellFacts
    <3>2. /\ Unrefer(referred, old) \in [Values -> Cell]
          /\ \A x \in Values :
               Refs(Unrefer(referred, old), x) = Refs(referred, x) - IF x = old THEN 1 ELSE 0
      BY <2>2, <3>1, Unreferred
    <3>3. QED
      BY <1>2, <1>4, <2>1, <2>2, <2>4, <3>1, <3>2
  <2>5. QED
    BY <2>3, <2>4
<1>5. QED
  BY <1>3, <1>4

\* What a write does to the wires a value is on.
LEMMA OnWritten ==
  ASSUME NEW wires, IsFiniteSet(DOMAIN wires), NEW w \in DOMAIN wires, NEW v, NEW x
  PROVE  /\ Cardinality(On(wires, x)) \in Nat
         /\ Cardinality(On([wires EXCEPT ![w] = v], x)) =
              Cardinality(On(wires, x)) + (IF x = v /\ x # wires[w] THEN 1 ELSE 0)
                                        - (IF x = wires[w] /\ x # v THEN 1 ELSE 0)
<1> DEFINE X == On(wires, x)
           Y == On([wires EXCEPT ![w] = v], x)
           A == X \cup {w}
           R == X \ {w}
<1>1. IsFiniteSet(X) /\ Cardinality(X) \in Nat
  <2>1. X \in SUBSET DOMAIN wires
    BY DEF On
  <2>2. IsFiniteSet(X)
    BY <2>1, FS_Subset
  <2>3. QED
    BY <2>2, FS_CardinalityType
<1>2. Y = IF x = v THEN A ELSE R
  BY DEF On
<1>3. w \in X <=> x = wires[w]
  BY DEF On
<1> HIDE DEF X
<1>4. Cardinality(A) = IF w \in X THEN Cardinality(X) ELSE Cardinality(X) + 1
  BY <1>1, FS_AddElement
<1>5. Cardinality(R) = IF w \in X THEN Cardinality(X) - 1 ELSE Cardinality(X)
  BY <1>1, FS_RemoveElement
<1> HIDE DEF A, R, Y
<1>6. Cardinality(Y) = IF x = v THEN Cardinality(A) ELSE Cardinality(R)
  BY <1>2
<1>7. QED
  BY <1>1, <1>3, <1>4, <1>5, <1>6 DEF X, Y
-----------------------------------------------------------------------------
(* What is still to be done uses a value that something holds.              *)

\* The wires of a circuit without loops have ranks that grow from the inputs of a
\* gate to its outputs.
Ranks(c, rank) ==
  \A g \in DOMAIN c.kind :
    \A i \in DOMAIN c.in[g], o \in DOMAIN c.out[g] :
      c.in[g][i] # NULL /\ c.out[g][o] # NULL => rank[c.in[g][i]] < rank[c.out[g][o]]

HasNoLoop(c) == \E rank \in [WiresOf(c) -> Nat] : Ranks(c, rank)

Rank == CHOOSE rank \in [Wires -> Nat] : Ranks(circuit, rank)

InWires(g) == {w \in Wires : \E i \in DOMAIN circuit.in[g] : circuit.in[g][i] = w}
OutWires(g) == {w \in Wires : \E o \in DOMAIN circuit.out[g] : circuit.out[g][o] = w}

\* Wire u keeps the n-th value of ops: it has the value, and nothing that comes
\* first writes u or a wire that leads to u.
Keeps(wires, u, ops, n) ==
  /\ u \in DOMAIN wires /\ wires[u] = ops[n].value
  /\ \A m \in 1 .. n :
       ops[m].op # "unref" =>
         Rank[u] < Rank[ops[m].wire] \/ (m = n /\ ops[n].op = "notify" /\ u = ops[n].wire)

\* Or it is the creator, who drives it and lets go of it then.
Creates(ops, n) ==
  ops[n].op = "drive" /\ n + 1 \in DOMAIN ops /\ ops[n + 1] = UnrefOp(ops[n].value)

IsKept(wires, ops, n) ==
  \/ ops[n].op = "unref"
  \/ Creates(ops, n)
  \/ \E u \in DOMAIN wires : Keeps(wires, u, ops, n)

AllKept(wires, ops) == \A n \in DOMAIN ops : IsKept(wires, ops, n)

LEMMA RankFacts ==
  ASSUME TypeOK, HasNoLoop(circuit)
  PROVE  /\ Rank \in [Wires -> Nat]
         /\ \A g \in Gates : \A u \in InWires(g), w \in OutWires(g) : Rank[u] < Rank[w]
<1>1. Rank \in [Wires -> Nat] /\ Ranks(circuit, Rank)
  BY DEF HasNoLoop, Rank, Wires
<1>2. NULL \notin Wires
  BY DEF Wires, WiresOf
<1>3. QED
  BY <1>1, <1>2 DEF Ranks, InWires, OutWires, Gates

LEMMA OpFacts ==
  ASSUME TypeOK, NEW o \in Ops
  PROVE  /\ o.value \in Values
         /\ o.op \in {"drive", "notify", "unref"}
         /\ o.op # "unref" => o.wire \in Wires
         /\ o.op = "notify" => o.ports \subseteq Driven(o.wire)
         /\ \A v : o = UnrefOp(v) <=> o.op = "unref" /\ o.value = v
BY DEF Ops, UnrefOp

\* The first operation is replaced by others, that write no wire which leads to
\* the one it is about.
LEMMA StillKept ==
  ASSUME TypeOK, HasNoLoop(circuit), todo # <<>>, AllKept(wire_value, todo),
         NEW wires, DOMAIN wires = DOMAIN wire_value,
         \A u \in DOMAIN wires :
           wires[u] = wire_value[u] \/ (Head(todo).op # "unref" /\ u = Head(todo).wire),
         NEW ops \in Seq(Ops), AllKept(wires, ops),
         Head(todo).op = "unref" => ops = <<>>,
         Head(todo).op # "unref" =>
           \A m \in DOMAIN ops : ops[m].op # "unref" => Rank[Head(todo).wire] <= Rank[ops[m].wire]
  PROVE  AllKept(wires, ops \o Tail(todo))
<1> DEFINE h == Head(todo)
           k == Len(ops)
           next == ops \o Tail(todo)
<1>1. /\ h = todo[1] /\ h \in Ops /\ Len(todo) \in Nat \ {0} /\ Len(Tail(todo)) = Len(todo) - 1
      /\ Tail(todo) \in Seq(Ops) /\ \A n \in 1 .. Len(todo) - 1 : Tail(todo)[n] = todo[n + 1]
  BY HeadThenTail DEF TypeOK
<1>2. /\ k \in Nat /\ next \in Seq(Ops) /\ Len(next) = k + Len(todo) - 1
      /\ DOMAIN next = 1 .. Len(next) /\ DOMAIN ops = 1 .. k /\ DOMAIN todo = 1 .. Len(todo)
      /\ \A n \in 1 .. k : next[n] = ops[n]
      /\ \A n \in k + 1 .. k + Len(todo) - 1 : next[n] = todo[n - k + 1]
  <2>1. /\ k \in Nat /\ next \in Seq(Ops) /\ Len(next) = k + Len(Tail(todo))
        /\ DOMAIN next = 1 .. Len(next) /\ DOMAIN ops = 1 .. k /\ DOMAIN todo = 1 .. Len(todo)
        /\ \A n \in 1 .. k : next[n] = ops[n]
        /\ \A n \in k + 1 .. k + Len(Tail(todo)) : next[n] = Tail(todo)[n - k]
    BY <1>1 DEF TypeOK
  <2>2. ASSUME NEW n \in k + 1 .. k + Len(todo) - 1 PROVE next[n] = todo[n - k + 1]
    <3>1. n - k \in 1 .. Len(todo) - 1 /\ n \in k + 1 .. k + Len(Tail(todo))
      BY <1>1, <2>1
    <3>2. QED
      BY <1>1, <2>1, <3>1
  <2>3. QED
    BY <1>1, <2>1, <2>2
<1> HIDE DEF next
<1>3. Rank \in [Wires -> Nat] /\ \A g \in Gates : \A u \in InWires(g), w \in OutWires(g) : Rank[u] < Rank[w]
  BY RankFacts
<1>4. ASSUME NEW n \in 1 .. k PROVE IsKept(wires, next, n)
  <2>1. next[n] = ops[n] /\ \A m \in 1 .. n : next[m] = ops[m]
    BY <1>2
  <2>2. IsKept(wires, ops, n)
    BY <1>2 DEF AllKept
  <2>3. CASE Creates(ops, n)
    <3>1. n + 1 \in 1 .. k /\ n + 1 \in DOMAIN next
      BY <1>1, <1>2, <2>3 DEF Creates
    <3>2. Creates(next, n)
      BY <1>2, <2>1, <2>3, <3>1 DEF Creates
    <3>3. QED
      BY <3>2 DEF IsKept
  <2>4. ASSUME NEW u \in DOMAIN wires, Keeps(wires, u, ops, n) PROVE Keeps(wires, u, next, n)
    BY <2>1, <2>4 DEF Keeps
  <2>5. QED
    BY <2>1, <2>2, <2>3, <2>4 DEF IsKept
<1>5. ASSUME NEW n \in k + 1 .. k + Len(todo) - 1 PROVE IsKept(wires, next, n)
  <2> DEFINE p == n - k + 1
  <2>1. p \in 2 .. Len(todo) /\ next[n] = todo[p] /\ p \in DOMAIN todo
    BY <1>1, <1>2
  <2>2. IsKept(wire_value, todo, p)
    BY <2>1 DEF AllKept
  <2>3. CASE Creates(todo, p)
    <3>1. p + 1 \in 1 .. Len(todo)
      BY <1>2, <2>3 DEF Creates
    <3>2. n + 1 \in k + 1 .. k + Len(todo) - 1 /\ n + 1 - k + 1 = p + 1
      BY <1>1, <1>2, <3>1
    <3>3. next[n + 1] = todo[p + 1] /\ n + 1 \in DOMAIN next
      <4> DEFINE q == n + 1
      <4>0. q \in k + 1 .. k + Len(todo) - 1 /\ q - k + 1 = p + 1
        BY <3>2
      <4> HIDE DEF q, p
      <4>1. next[q] = todo[p + 1]
        BY <1>2, <4>0
      <4>2. q \in DOMAIN next
        BY <1>1, <1>2, <4>0
      <4>3. QED
        BY <4>1, <4>2 DEF q
    <3>4. Creates(next, n)
      BY <2>1, <2>3, <3>3 DEF Creates
    <3>5. QED
      BY <3>4 DEF IsKept
  <2>4. ASSUME NEW u \in DOMAIN wire_value, Keeps(wire_value, u, todo, p), todo[p].op # "unref"
        PROVE  Keeps(wires, u, next, n)
    <3>1. h.op # "unref" => Rank[u] < Rank[h.wire]
      BY <1>1, <2>1, <2>4 DEF Keeps
    <3>2. wires[u] = wire_value[u] /\ u \in DOMAIN wires /\ u \in Wires
      <4>1. u \in Wires
        BY DEF TypeOK
      <4>2. h.op # "unref" => u # h.wire
        BY <1>3, <3>1, <4>1
      <4>3. QED
        BY <4>1, <4>2
    <3>3. ASSUME NEW m \in 1 .. k, next[m].op # "unref" PROVE Rank[u] < Rank[next[m].wire]
      <4>1. next[m] = ops[m] /\ m \in DOMAIN ops /\ ops[m] \in Ops
        BY <1>2, ElementOfSeq
      <4>2. h.op # "unref" /\ Rank[h.wire] <= Rank[ops[m].wire]
        BY <1>2, <3>3, <4>1
      <4>3. h.wire \in Wires /\ ops[m].wire \in Wires
        BY <1>1, <3>3, <4>1, <4>2, OpFacts
      <4> HIDE DEF h
      <4>4. Rank[u] \in Nat /\ Rank[h.wire] \in Nat /\ Rank[ops[m].wire] \in Nat
        BY <1>3, <3>2, <4>3
      <4>5. QED
        BY <3>1, <4>1, <4>2, <4>4
    <3>4. ASSUME NEW m \in k + 1 .. n, next[m].op # "unref"
          PROVE  \/ Rank[u] < Rank[next[m].wire]
                 \/ m = n /\ next[n].op = "notify" /\ u = next[n].wire
      <4> DEFINE q == m - k + 1
      <4>1. m \in k + 1 .. k + Len(todo) - 1 /\ q \in 1 .. p /\ (q = p <=> m = n)
        BY <1>1, <1>2
      <4>2. next[m] = todo[q]
        BY <1>2, <4>1
      <4> HIDE DEF p, q
      <4>3. QED
        BY <2>1, <2>4, <3>4, <4>1, <4>2 DEF Keeps
    <3>5. \A m \in 1 .. n : m \in 1 .. k \/ m \in k + 1 .. n
      BY <1>2
    <3>6. QED
      BY <2>1, <2>4, <3>2, <3>3, <3>4, <3>5 DEF Keeps
  <2>5. QED
    BY <2>1, <2>2, <2>3, <2>4 DEF IsKept
<1>6. \A n \in DOMAIN next : n \in 1 .. k \/ n \in k + 1 .. k + Len(todo) - 1
  BY <1>1, <1>2
<1>7. AllKept(wires, next)
  BY <1>4, <1>5, <1>6 DEF AllKept
<1>8. QED
  BY <1>7 DEF next
-----------------------------------------------------------------------------
(* What a gate has to do is kept by its inputs and its creator.             *)

\* Writes of gate g, of values on its inputs.
Passes(g) ==
  {o \in Ops : /\ o.op = "drive" /\ o.wire \in OutWires(g)
               /\ \E u \in InWires(g) : u \in DOMAIN wire_value /\ wire_value[u] = o.value}

\* What a circuit's ports are, in the words of the module.
LEMMA Typed ==
  ASSUME TypeOK
  PROVE  /\ NULL \notin Wires /\ IsFiniteSet(Wires) /\ NULL \notin Values
         /\ circuit.in \in [Gates -> Seq(Wires \cup {NULL})]
         /\ circuit.out \in [Gates -> Seq(Wires \cup {NULL})]
         /\ \A n \in DOMAIN circuit.given : circuit.given[n] \in Wires
         /\ \A g \in Gates :
              /\ circuit.kind[g] \in Sorters => Len(circuit.in[g]) = 2 /\ Len(circuit.out[g]) = 2
              /\ circuit.kind[g] = "add" => Len(circuit.in[g]) = 2
<1>1. CircuitType(circuit) /\ NULL \notin Values
  BY DataflowAssumption DEF TypeOK
<1>2. NULL \notin Wires
  BY DEF Wires, WiresOf
<1>3. QED
  BY <1>1, <1>2 DEF CircuitType, Gates, Wires

LEMMA Ports ==
  ASSUME TypeOK, NEW g \in Gates
  PROVE  /\ \A i \in DOMAIN circuit.in[g] : circuit.in[g][i] \in InWires(g) \cup {NULL}
         /\ \A o \in DOMAIN circuit.out[g] : circuit.out[g][o] \in OutWires(g) \cup {NULL}
         /\ DOMAIN circuit.in[g] = 1 .. Len(circuit.in[g])
         /\ DOMAIN circuit.out[g] = 1 .. Len(circuit.out[g])
<1> DEFINE in == circuit.in[g]
           out == circuit.out[g]
<1>1. in \in Seq(Wires \cup {NULL}) /\ out \in Seq(Wires \cup {NULL})
  BY Typed
<1>2. \A i \in DOMAIN in : in[i] \in Wires \cup {NULL}
  BY <1>1, ElementOfSeq
<1>3. \A o \in DOMAIN out : out[o] \in Wires \cup {NULL}
  BY <1>1, ElementOfSeq
<1>4. QED
  BY <1>1, <1>2, <1>3 DEF InWires, OutWires

LEMMA DriveOpsPass ==
  ASSUME TypeOK, NEW g \in Gates, phase = "enabled",
         NEW u \in InWires(g) \cup {NULL}, NEW w \in OutWires(g) \cup {NULL}
  PROVE  DriveOps(w, ValueOn(u)) \in Seq(Passes(g))
<1> DEFINE v == ValueOn(u)
<1>1. CASE w = NULL \/ v = NULL
  BY <1>1 DEF DriveOps
<1>2. CASE ~(w = NULL \/ v = NULL)
  <2>1. w \in OutWires(g) /\ w \in Wires /\ u \in InWires(g) /\ u \in Wires
    BY <1>2, Typed DEF OutWires, InWires, ValueOn
  <2>2. u \in DOMAIN wire_value /\ v = wire_value[u] /\ v \in Values
    BY <1>2, <2>1, Typed DEF TypeOK, ValueOn
  <2>3. DriveOp(w, v) \in Ops /\ DriveOp(w, v).op = "drive" /\ DriveOp(w, v).wire = w
        /\ DriveOp(w, v).value = v
    BY <2>1, <2>2 DEF DriveOp, Ops
  <2> HIDE DEF v
  <2>4. DriveOp(w, v) \in Passes(g)
    BY <2>1, <2>2, <2>3 DEF Passes
  <2>5. DriveOps(w, v) = <<DriveOp(w, v)>>
    BY <1>2 DEF DriveOps, v
  <2>6. QED
    BY <2>4, <2>5 DEF v
<1>3. QED
  BY <1>1, <1>2

LEMMA SorterPasses ==
  ASSUME TypeOK, NEW g \in Gates, phase = "enabled",
         NEW up \in InWires(g) \cup {NULL}, NEW left \in InWires(g) \cup {NULL},
         NEW down \in OutWires(g) \cup {NULL}, NEW right \in OutWires(g) \cup {NULL}
  PROVE  Sort(up, left, down, right) \in Seq(Passes(g))
<1> DEFINE a == DriveOps(down, ValueOn(up))
           b == DriveOps(down, ValueOn(left))
           c == DriveOps(right, ValueOn(up))
           d == DriveOps(right, ValueOn(left))
           X == Passes(g)
<1>1. a \in Seq(X) /\ b \in Seq(X) /\ c \in Seq(X) /\ d \in Seq(X)
  BY DriveOpsPass
<1>2. Sort(up, left, down, right) \in {<<>>, a, b, a \o d, b \o c}
  BY DEF Sort
<1> HIDE DEF a, b, c, d, X
<1>3. <<>> \in Seq(X) /\ a \o d \in Seq(X) /\ b \o c \in Seq(X)
  BY <1>1
<1>4. QED
  BY <1>1, <1>2, <1>3 DEF X

\* The three implementations of the sorter box.
LEMMA SortersPass ==
  ASSUME TypeOK, NEW g \in Gates, phase = "enabled", circuit.kind[g] \in Sorters
  PROVE  /\ PortiSorter(g) \in Seq(Passes(g))
         /\ PortbSorter(g) \in Seq(Passes(g))
         /\ SpecSorter(g) \in Seq(Passes(g))
<1> DEFINE in == circuit.in[g]
           out == circuit.out[g]
<1>1. DOMAIN in = 1 .. 2 /\ DOMAIN out = 1 .. 2
  BY Typed, Ports
<1>2. /\ in[1] \in InWires(g) \cup {NULL} /\ in[2] \in InWires(g) \cup {NULL}
      /\ out[1] \in OutWires(g) \cup {NULL} /\ out[2] \in OutWires(g) \cup {NULL}
  BY <1>1, Ports
<1>3. Sort(in[1], in[2], out[1], out[2]) \in Seq(Passes(g))
  BY <1>2, SorterPasses
<1>4. TryGet(in, 1) = in[1] /\ TryGet(in, 2) = in[2] /\ TryGet(out, 1) = out[1] /\ TryGet(out, 2) = out[2]
  BY <1>1 DEF TryGet
<1>5. QED
  BY <1>3, <1>4 DEF PortiSorter, PortbSorter, SpecSorter

LEMMA Pair == ASSUME NEW a, NEW b PROVE <<a>> \o <<b>> = <<a, b>>
<1>1. <<a>> \in Seq({a, b}) /\ <<b>> \in Seq({a, b}) /\ <<a, b>> \in Seq({a, b})
  OBVIOUS
<1> DEFINE s == <<a>> \o <<b>>
           t == <<a, b>>
<1>2. s \in Seq({a, b}) /\ Len(s) = 2 /\ s[1] = a /\ s[2] = b
  BY <1>1
<1>3. t \in Seq({a, b}) /\ Len(t) = 2 /\ t[1] = a /\ t[2] = b
  BY <1>1
<1> HIDE DEF s, t
<1>4. \A n \in 1 .. Len(s) : n = 1 \/ n = 2
  BY <1>2
<1>5. s = t
  BY <1>2, <1>3, <1>4, SeqEqual
<1>6. QED
  BY <1>5 DEF s, t

\* The gate of a functional wrapper drives what it lets go of then.
LEMMA ResultIs ==
  ASSUME TypeOK, NEW g \in Gates, NEW v \in Values
  PROVE  \/ ResultOps(g, v) = <<UnrefOp(v)>>
         \/ \E w \in OutWires(g) : ResultOps(g, v) = <<DriveOp(w, v), UnrefOp(v)>>
<1> DEFINE w == TryGet(circuit.out[g], 1)
<1>1. w \in OutWires(g) \cup {NULL}
  BY Ports DEF TryGet
<1>2. CASE w = NULL
  BY <1>2 DEF ResultOps, DriveOps
<1>3. CASE w # NULL
  <2>1. w \in OutWires(g) /\ v # NULL
    BY <1>1, <1>3, Typed
  <2>2. DriveOps(w, v) = <<DriveOp(w, v)>>
    BY <1>3, <2>1 DEF DriveOps
  <2>3. ResultOps(g, v) = <<DriveOp(w, v)>> \o <<UnrefOp(v)>>
    BY <2>2 DEF ResultOps
  <2> HIDE DEF w
  <2>4. ResultOps(g, v) = <<DriveOp(w, v), UnrefOp(v)>>
    BY <2>3, Pair
  <2>5. QED
    BY <2>1, <2>4
<1>4. QED
  BY <1>2, <1>3
-----------------------------------------------------------------------------
(* The invariant: what is still to be done is kept, and the references are  *)
(* those of the holders.                                                    *)

CallInv == TypeOK /\ AllKept(wire_value, todo) /\ ReferencesAreHolders

LEMMA HoldersAre ==
  ASSUME NEW v
  PROVE  Holders(v) = Cardinality(On(wire_value, v)) + Cardinality(Places(todo, UnrefOp(v)))
BY DEF Holders, On, Places

LEMMA RefsAre ==
  ReferencesAreHolders <=> \A v \in Values : Refs(value, v) = Holders(v)
BY DEF ReferencesAreHolders, Refs, IsFree

LEMMA OnFinite ==
  ASSUME TypeOK, NEW x
  PROVE  IsFiniteSet(On(wire_value, x)) /\ Cardinality(On(wire_value, x)) \in Nat
         /\ IsFiniteSet(DOMAIN wire_value)
<1>1. IsFiniteSet(DOMAIN wire_value)
  BY Typed, FS_Subset DEF TypeOK
<1>2. On(wire_value, x) \in SUBSET DOMAIN wire_value
  BY DEF On
<1>3. QED
  BY <1>1, <1>2, FS_Subset, FS_CardinalityType

\* A value that is on a wire or that a call is about has a holder, and is there.
LEMMA Used ==
  ASSUME CallInv
  PROVE  /\ NoFreedValueIsUsed
         /\ \A w \in DOMAIN wire_value : wire_value[w] # NULL => ~IsFree(wire_value[w])
<1>1. ASSUME NEW x \in Values,
             On(wire_value, x) # {} \/ Places(todo, UnrefOp(x)) # {}
      PROVE  ~IsFree(x)
  <2>1. /\ IsFiniteSet(On(wire_value, x)) /\ IsFiniteSet(Places(todo, UnrefOp(x)))
        /\ Cardinality(On(wire_value, x)) \in Nat /\ Cardinality(Places(todo, UnrefOp(x))) \in Nat
    BY OnFinite, PlacesFinite DEF CallInv, TypeOK
  <2>2. Cardinality(On(wire_value, x)) # 0 \/ Cardinality(Places(todo, UnrefOp(x))) # 0
    BY <1>1, <2>1, FS_EmptySet
  <2>3. Holders(x) # 0
    BY <2>1, <2>2, HoldersAre
  <2>4. Refs(value, x) = Holders(x)
    BY RefsAre DEF CallInv
  <2>5. QED
    BY <2>3, <2>4 DEF Refs, IsFree
<1>2. ASSUME NEW n \in DOMAIN todo PROVE ~IsFree(todo[n].value)
  <2> DEFINE x == todo[n].value
  <2>1. todo[n] \in Ops /\ x \in Values
    BY ElementOfSeq, OpFacts DEF CallInv, TypeOK
  <2>2. IsKept(wire_value, todo, n)
    BY DEF CallInv, AllKept
  <2>3. CASE todo[n].op = "unref"
    <3>1. todo[n] = UnrefOp(x)
      BY <2>1, <2>3, OpFacts DEF CallInv
    <3>2. n \in Places(todo, UnrefOp(x))
      BY <3>1 DEF Places
    <3> HIDE DEF x
    <3>3. QED
      BY <1>1, <2>1, <3>2 DEF x
  <2>4. CASE Creates(todo, n)
    <3>1. n + 1 \in Places(todo, UnrefOp(x))
      BY <2>4 DEF Places, Creates
    <3> HIDE DEF x
    <3>2. QED
      BY <1>1, <2>1, <3>1 DEF x
  <2>5. ASSUME NEW u \in DOMAIN wire_value, Keeps(wire_value, u, todo, n) PROVE ~IsFree(x)
    <3>1. u \in On(wire_value, x)
      BY <2>5 DEF Keeps, On
    <3> HIDE DEF x
    <3>2. QED
      BY <1>1, <2>1, <3>1
  <2>6. QED
    BY <2>2, <2>3, <2>4, <2>5 DEF IsKept
<1>3. ASSUME NEW w \in DOMAIN wire_value, wire_value[w] # NULL PROVE ~IsFree(wire_value[w])
  <2>1. wire_value[w] \in Values
    BY <1>3 DEF CallInv, TypeOK
  <2>2. w \in On(wire_value, wire_value[w])
    BY DEF On
  <2>3. QED
    BY <1>1, <2>1, <2>2
<1>4. QED
  BY <1>2, <1>3 DEF NoFreedValueIsUsed

\* What is still to be let go of, when others replace the first operation.
LEMMA Replaced ==
  ASSUME TypeOK, todo # <<>>, NEW ops \in Seq(Ops), NEW x
  PROVE  Cardinality(Places(ops \o Tail(todo), x)) =
           Cardinality(Places(ops, x)) + Cardinality(Places(todo, x))
             - IF Head(todo) = x THEN 1 ELSE 0
<1> DEFINE t == Tail(todo)
           h == <<Head(todo)>>
<1>1. h \in Seq(Ops) /\ t \in Seq(Ops) /\ todo = h \o t
  BY HeadThenTail DEF TypeOK
<1> HIDE DEF t
<1>2. Cardinality(Places(h, x)) = IF Head(todo) = x THEN 1 ELSE 0
  BY PlacesOfOne
<1> HIDE DEF h
<1>3. Cardinality(Places(todo, x)) = Cardinality(Places(h, x)) + Cardinality(Places(t, x))
  BY <1>1, PlacesAdd
<1>4. Cardinality(Places(ops \o t, x)) = Cardinality(Places(ops, x)) + Cardinality(Places(t, x))
  BY <1>1, PlacesAdd
<1>5. Cardinality(Places(t, x)) \in Nat /\ Cardinality(Places(ops, x)) \in Nat
  BY <1>1, PlacesFinite
<1>6. QED
  BY <1>2, <1>3, <1>4, <1>5 DEF t

LEMMA NothingLetGo ==
  ASSUME NEW ops, \A n \in DOMAIN ops : ops[n].op # "unref", NEW x
  PROVE  Cardinality(Places(ops, UnrefOp(x))) = 0
<1>1. Places(ops, UnrefOp(x)) = {}
  BY DEF Places, UnrefOp
<1>2. QED
  BY <1>1, FS_EmptySet

\* A step of a call: the first operation is replaced by others, and the values and
\* wires change by what it does.
LEMMA CallStep ==
  ASSUME CallInv, HasNoLoop(circuit), todo # <<>>, UNCHANGED <<circuit, phase>>,
         DOMAIN wire_value' = DOMAIN wire_value,
         wire_value' \in [DOMAIN wire_value -> Values \cup {NULL}],
         \A u \in DOMAIN wire_value :
           wire_value'[u] = wire_value[u] \/ (Head(todo).op # "unref" /\ u = Head(todo).wire),
         NEW ops \in Seq(Ops), AllKept(wire_value', ops), todo' = ops \o Tail(todo),
         Head(todo).op = "unref" => ops = <<>>,
         Head(todo).op # "unref" =>
           \A m \in DOMAIN ops : ops[m].op # "unref" => Rank[Head(todo).wire] <= Rank[ops[m].wire],
         value' \in [Values -> Cell],
         \A x \in Values :
           Refs(value', x) - Refs(value, x) =
             Cardinality(On(wire_value', x)) - Cardinality(On(wire_value, x))
               + Cardinality(Places(ops, UnrefOp(x))) - IF Head(todo) = UnrefOp(x) THEN 1 ELSE 0
  PROVE  CallInv'
<1>1. TypeOK'
  <2>1. Tail(todo) \in Seq(Ops)
    BY HeadThenTail DEF CallInv, TypeOK
  <2>2. todo' \in Seq(Ops)
    BY <2>1
  <2>3. Ops' = Ops /\ Wires' = Wires
    BY DEF Ops, Wires, Driven, Gates
  <2>4. phase = "enabled"
    BY DEF CallInv, TypeOK
  <2> HIDE DEF Ops
  <2>5. QED
    BY <2>2, <2>3, <2>4 DEF CallInv, TypeOK
<1>2. AllKept(wire_value', todo')
  BY StillKept DEF CallInv
<1>3. AllKept(wire_value, todo)'
  <2>1. Rank' = Rank
    BY DEF Rank, Wires
  <2>2. ASSUME NEW n \in DOMAIN todo' PROVE IsKept(wire_value, todo, n)'
    <3>1. IsKept(wire_value', todo', n)
      BY <1>2 DEF AllKept
    <3>2. CASE todo'[n].op = "unref"
      BY <3>2 DEF IsKept
    <3>3. CASE Creates(todo', n)
      BY <3>3 DEF IsKept, Creates, UnrefOp
    <3>4. ASSUME NEW u \in DOMAIN wire_value', Keeps(wire_value', u, todo', n)
          PROVE  Keeps(wire_value, u, todo, n)'
      BY <2>1, <3>4 DEF Keeps
    <3>5. CASE \E u \in DOMAIN wire_value' : Keeps(wire_value', u, todo', n)
      BY <3>4, <3>5 DEF IsKept
    <3>6. QED
      BY <3>1, <3>2, <3>3, <3>5 DEF IsKept
  <2>3. QED
    BY <2>2 DEF AllKept
<1>4. ASSUME NEW x \in Values PROVE Refs(value', x) = Holders(x)'
  <2> DEFINE u == UnrefOp(x)
  <2>1. Holders(x)' = Cardinality(On(wire_value', x)) + Cardinality(Places(todo', u))
    BY DEF Holders, On, Places, UnrefOp
  <2>2. Holders(x) = Cardinality(On(wire_value, x)) + Cardinality(Places(todo, u))
    BY HoldersAre
  <2>3. Refs(value, x) = Holders(x)
    BY RefsAre DEF CallInv
  <2>4. /\ Cardinality(On(wire_value, x)) \in Nat /\ Cardinality(Places(todo, u)) \in Nat
        /\ Cardinality(Places(ops, u)) \in Nat
    BY OnFinite, PlacesFinite DEF CallInv, TypeOK
  <2>5. Cardinality(On(wire_value', x)) \in Nat
    <3>1. IsFiniteSet(DOMAIN wire_value)
      BY OnFinite DEF CallInv
    <3>2. On(wire_value', x) \in SUBSET DOMAIN wire_value
      BY DEF On
    <3>3. QED
      BY <3>1, <3>2, FS_Subset, FS_CardinalityType
  <2>6. Refs(value, x) \in Nat /\ Refs(value', x) \in Nat
    BY CellFacts DEF CallInv, TypeOK
  <2>7. Cardinality(Places(todo', u)) =
          Cardinality(Places(ops, u)) + Cardinality(Places(todo, u)) - IF Head(todo) = u THEN 1 ELSE 0
    BY Replaced DEF CallInv
  <2>8. Refs(value', x) - Refs(value, x) =
             Cardinality(On(wire_value', x)) - Cardinality(On(wire_value, x))
               + Cardinality(Places(ops, u)) - IF Head(todo) = u THEN 1 ELSE 0
    OBVIOUS
  <2> DEFINE d == IF Head(todo) = u THEN 1 ELSE 0
             on == Cardinality(On(wire_value, x))
             onNext == Cardinality(On(wire_value', x))
             in == Cardinality(Places(todo, u))
             inNext == Cardinality(Places(todo', u))
             new == Cardinality(Places(ops, u))
  <2>9. d \in {0, 1} /\ inNext = new + in - d
        /\ Refs(value', x) - Refs(value, x) = onNext - on + new - d
    BY <2>7, <2>8
  <2>10. Holders(x)' = onNext + inNext /\ Refs(value, x) = on + in
    BY <2>1, <2>2, <2>3
  <2> HIDE DEF d, on, onNext, in, inNext, new
  <2>11. on \in Nat /\ onNext \in Nat /\ in \in Nat /\ new \in Nat
    BY <2>4, <2>5 DEF on, onNext, in, new
  <2> DEFINE r == Refs(value, x)
             rNext == Refs(value', x)
  <2>12. r \in Nat /\ rNext \in Nat /\ rNext - r = onNext - on + new - d /\ r = on + in
    BY <2>6, <2>9, <2>10
  <2>13. d \in Nat
    BY <2>9
  <2> HIDE DEF r, rNext
  <2>14. rNext = onNext + (new + in - d)
    BY <2>11, <2>12, <2>13
  <2>15. QED
    BY <2>9, <2>10, <2>14 DEF rNext
<1>5. ReferencesAreHolders'
  BY <1>4 DEF ReferencesAreHolders, Refs, IsFree
<1>6. QED
  BY <1>1, <1>3, <1>5 DEF CallInv
-----------------------------------------------------------------------------
(* The steps of a call.                                                     *)

\* While a call is in progress, the circuit is enabled and has all its wires.
LEMMA InCall ==
  ASSUME CallInv, todo # <<>>
  PROVE  /\ phase = "enabled" /\ DOMAIN wire_value = Wires
         /\ Head(todo) \in Ops /\ Head(todo) = todo[1] /\ 1 \in DOMAIN todo
         /\ Tail(todo) \in Seq(Ops)
         /\ ~IsFree(Head(todo).value)
<1>1. todo \in Seq(Ops) /\ (phase # "enabled" => todo = <<>>)
      /\ (phase # "disabled" => DOMAIN wire_value = Wires) /\ NoFreedValueIsUsed
  BY Used DEF CallInv, TypeOK
<1>2. Head(todo) \in Ops /\ Head(todo) = todo[1] /\ Tail(todo) \in Seq(Ops) /\ Len(todo) \in Nat \ {0}
  BY <1>1, HeadThenTail
<1>3. 1 \in DOMAIN todo
  BY <1>1, <1>2
<1>4. QED
  BY <1>1, <1>2, <1>3 DEF NoFreedValueIsUsed

LEMMA OneOp ==
  ASSUME NEW o \in Ops
  PROVE  /\ <<o>> \in Seq(Ops) /\ DOMAIN <<o>> = {1} /\ <<o>>[1] = o
OBVIOUS

LEMMA DriveKeeps ==
  ASSUME CallInv, HasNoLoop(circuit), Drive
  PROVE  CallInv'
<1> DEFINE w == Head(todo).wire
           v == Head(todo).value
           old == wire_value[w]
           next == [op |-> "notify", wire |-> w, value |-> v, ports |-> Driven(w)]
           ops == <<next>>
<1>1. todo # <<>> /\ Head(todo).op = "drive" /\ UNCHANGED <<circuit, phase>>
  BY DEF Drive, Doing
<1>2. /\ phase = "enabled" /\ DOMAIN wire_value = Wires /\ Head(todo) \in Ops
      /\ v \in Values /\ ~IsFree(v)
  BY <1>1, InCall, OpFacts DEF CallInv
<1>3. w \in Wires
  BY <1>1, <1>2, OpFacts DEF CallInv
<1>4. /\ value' = Import(value, v, old) /\ wire_value' = [wire_value EXCEPT ![w] = v]
      /\ todo' = ops \o Tail(todo)
  BY DEF Drive, NotifyOp
<1>5. next \in Ops
  <2>1. Driven(w) \in SUBSET (Gates \X (1 .. 2))
    BY DEF Driven
  <2>2. QED
    BY <1>2, <1>3, <2>1 DEF Ops
<1>6. next.op = "notify" /\ next.wire = w /\ next.value = v
  OBVIOUS
<1>7. old \in Values \cup {NULL} /\ (old # NULL => ~IsFree(old)) /\ NULL \notin Values
  BY <1>2, <1>3, Used, Typed DEF CallInv, TypeOK
<1>8. wire_value' \in [DOMAIN wire_value -> Values \cup {NULL}] /\ DOMAIN wire_value' = DOMAIN wire_value
      /\ wire_value'[w] = v /\ \A u \in DOMAIN wire_value : wire_value'[u] = wire_value[u] \/ u = w
  BY <1>2, <1>3, <1>4 DEF CallInv, TypeOK
<1> HIDE DEF next
<1>9. ops \in Seq(Ops) /\ DOMAIN ops = {1} /\ ops[1] = next
  BY <1>5, OneOp
<1> HIDE DEF ops
<1>10. AllKept(wire_value', ops)
  <2>1. Keeps(wire_value', w, ops, 1)
    BY <1>2, <1>3, <1>6, <1>8, <1>9 DEF Keeps
  <2>2. IsKept(wire_value', ops, 1)
    BY <1>2, <1>3, <1>8, <2>1 DEF IsKept
  <2>3. QED
    BY <1>9, <2>2 DEF AllKept
<1>11. \A m \in DOMAIN ops : ops[m].op # "unref" => Rank[w] <= Rank[ops[m].wire]
  <2>1. Rank[w] \in Nat
    BY <1>3, RankFacts DEF CallInv
  <2>2. QED
    BY <1>6, <1>9, <2>1
<1>12. /\ value' \in [Values -> Cell]
       /\ \A x \in Values :
            Refs(value', x) = Refs(value, x) + (IF x = v /\ x # old THEN 1 ELSE 0)
                                             - (IF x = old /\ x # v THEN 1 ELSE 0)
  <2>1. value \in [Values -> Cell] /\ value[v] # NULL /\ (old # NULL => value[old] # NULL)
    BY <1>2, <1>7 DEF CallInv, TypeOK, IsFree
  <2> HIDE DEF v, old
  <2>2. /\ Import(value, v, old) \in [Values -> Cell]
        /\ \A x \in Values :
              Refs(Import(value, v, old), x) =
                Refs(value, x) + (IF x = v /\ x # old THEN 1 ELSE 0)
                               - (IF x = old /\ x # v THEN 1 ELSE 0)
    BY <1>2, <1>7, <2>1, Imported
  <2>3. QED
    BY <1>4, <2>2
<1>13. ASSUME NEW x \in Values
       PROVE  Refs(value', x) - Refs(value, x) =
                Cardinality(On(wire_value', x)) - Cardinality(On(wire_value, x))
                  + Cardinality(Places(ops, UnrefOp(x))) - IF Head(todo) = UnrefOp(x) THEN 1 ELSE 0
  <2> DEFINE on == Cardinality(On(wire_value, x))
             onNext == Cardinality(On(wire_value', x))
             r == Refs(value, x)
             more == IF x = v /\ x # old THEN 1 ELSE 0
             less == IF x = old /\ x # v THEN 1 ELSE 0
  <2>1. on \in Nat /\ onNext = on + more - less
    <3>1. IsFiniteSet(DOMAIN wire_value) /\ w \in DOMAIN wire_value
      BY <1>2, <1>3, OnFinite DEF CallInv
    <3> HIDE DEF w, v, more, less
    <3>2. /\ on \in Nat
          /\ Cardinality(On([wire_value EXCEPT ![w] = v], x)) = on + more - less
      BY <3>1, OnWritten DEF more, less
    <3>3. QED
      BY <1>4, <3>2
  <2>2. r \in Nat
    BY CellFacts DEF CallInv, TypeOK
  <2>3. Refs(value', x) = r + more - less
    BY <1>12
  <2>4. Cardinality(Places(ops, UnrefOp(x))) = 0
    BY <1>6, <1>9, NothingLetGo
  <2>5. Head(todo) # UnrefOp(x)
    BY <1>1 DEF UnrefOp
  <2>6. more \in Nat /\ less \in Nat
    OBVIOUS
  <2> HIDE DEF on, onNext, r, more, less
  <2>7. (r + more - less) - r = onNext - on + 0 - 0
    BY <2>1, <2>2, <2>6
  <2>8. QED
    BY <2>3, <2>4, <2>5, <2>7 DEF on, onNext, r
<1>14. QED
  BY <1>1, <1>4, <1>8, <1>9, <1>10, <1>11, <1>12, <1>13, CallStep

LEMMA UnrefKeeps ==
  ASSUME CallInv, HasNoLoop(circuit), Unref
  PROVE  CallInv'
<1> DEFINE v == Head(todo).value
           ops == <<>>
<1>1. todo # <<>> /\ Head(todo).op = "unref" /\ UNCHANGED <<circuit, phase, wire_value>>
      /\ value' = Unrefer(value, v) /\ todo' = Tail(todo)
  BY DEF Unref, Doing
<1>2. Head(todo) \in Ops /\ v \in Values /\ ~IsFree(v)
      /\ \A x : Head(todo) = UnrefOp(x) <=> x = v
  BY <1>1, InCall, OpFacts DEF CallInv
<1>3. /\ value' \in [Values -> Cell]
      /\ \A x \in Values : Refs(value', x) = Refs(value, x) - IF x = v THEN 1 ELSE 0
  <2>1. value \in [Values -> Cell] /\ value[v] # NULL
    BY <1>2 DEF CallInv, TypeOK, IsFree
  <2>2. QED
    BY <1>1, <1>2, <2>1, Unreferred
<1>4. ops \in Seq(Ops) /\ AllKept(wire_value', ops) /\ todo' = ops \o Tail(todo) /\ DOMAIN ops = {}
  <2>1. Tail(todo) \in Seq(Ops)
    BY <1>1, InCall
  <2>2. ops \o Tail(todo) = Tail(todo)
    BY <2>1
  <2>3. DOMAIN ops = {}
    OBVIOUS
  <2>4. QED
    BY <1>1, <2>2, <2>3 DEF AllKept
<1>5. wire_value' \in [DOMAIN wire_value -> Values \cup {NULL}]
  BY <1>1 DEF CallInv, TypeOK
<1>6. ASSUME NEW x \in Values
      PROVE  Refs(value', x) - Refs(value, x) =
               Cardinality(On(wire_value', x)) - Cardinality(On(wire_value, x))
                 + Cardinality(Places(ops, UnrefOp(x))) - IF Head(todo) = UnrefOp(x) THEN 1 ELSE 0
  <2> DEFINE on == Cardinality(On(wire_value, x))
             r == Refs(value, x)
             less == IF x = v THEN 1 ELSE 0
  <2>1. on \in Nat /\ r \in Nat /\ less \in Nat
    BY OnFinite, CellFacts DEF CallInv, TypeOK
  <2>2. Refs(value', x) = r - less /\ (IF Head(todo) = UnrefOp(x) THEN 1 ELSE 0) = less
    BY <1>2, <1>3
  <2>3. Cardinality(Places(ops, UnrefOp(x))) = 0
    BY PlacesOfNone
  <2> HIDE DEF less, on, r
  <2>4. (r - less) - r = on - on + 0 - less
    BY <2>1
  <2>5. QED
    BY <1>1, <2>2, <2>3, <2>4 DEF on, r
<1> HIDE DEF ops
<1>7. ops = <<>>
  BY DEF ops
<1>8. QED
  BY <1>1, <1>3, <1>4, <1>5, <1>6, <1>7, CallStep

\* A gate on the wire has been called, and the loop over the gates goes on: what the
\* gate has to do comes first.
LEMMA LoopGoesOn ==
  ASSUME CallInv, HasNoLoop(circuit), todo # <<>>, Head(todo).op = "notify",
         NEW p \in Head(todo).ports, NEW ops \in Seq(Ops), AllKept(wire_value, ops),
         \A m \in DOMAIN ops : ops[m].op # "unref" => ops[m].wire \in OutWires(p[1])
  PROVE  LET r == NextGate(Head(todo), p)
             all == ops \o <<r>>
         IN  /\ r \in Ops /\ r.op = "notify" /\ all \in Seq(Ops) /\ AllKept(wire_value, all)
             /\ all \o Tail(todo) = ops \o (<<r>> \o Tail(todo))
             /\ \A m \in DOMAIN all : all[m].op # "unref" => Rank[Head(todo).wire] <= Rank[all[m].wire]
             /\ \A x : Cardinality(Places(all, UnrefOp(x))) = Cardinality(Places(ops, UnrefOp(x)))
<1> DEFINE h == Head(todo)
           w == h.wire
           r == NextGate(h, p)
           all == ops \o <<r>>
           k == Len(ops)
<1>1. /\ DOMAIN wire_value = Wires /\ h \in Ops /\ h = todo[1] /\ 1 \in DOMAIN todo
      /\ Tail(todo) \in Seq(Ops) /\ h.op = "notify"
  BY InCall
<1>2. w \in Wires /\ h.ports \subseteq Driven(w) /\ h.value \in Values
  BY <1>1, OpFacts DEF CallInv
<1>3. h \in [op : {"notify"}, wire : Wires, value : Values, ports : SUBSET (Gates \X (1 .. 2))]
  BY <1>1 DEF Ops
<1>4. p[1] \in Gates /\ w \in InWires(p[1])
  BY <1>2 DEF Driven, InWires
<1> HIDE DEF h
<1>5. r = [op |-> "notify", wire |-> w, value |-> h.value, ports |-> h.ports \ {p}]
  <2> DEFINE q == h.ports \ {p}
  <2>1. r = [h EXCEPT !.ports = q]
    BY DEF NextGate
  <2> HIDE DEF q, r
  <2>2. h = [op |-> "notify", wire |-> w, value |-> h.value, ports |-> h.ports]
    BY <1>3
  <2> HIDE DEF w
  <2>3. r = [op |-> "notify", wire |-> w, value |-> h.value, ports |-> q]
    BY <2>1, <2>2
  <2>4. QED
    BY <2>3 DEF q
<1>6. r \in Ops /\ r.op = "notify" /\ r.wire = w /\ r.value = h.value
  <2>1. h.ports \ {p} \in SUBSET (Gates \X (1 .. 2)) /\ h.ports \ {p} \subseteq Driven(w)
    BY <1>2, <1>3
  <2>2. QED
    BY <1>2, <1>5, <2>1 DEF Ops
<1> HIDE DEF r
<1>7. /\ k \in Nat /\ all \in Seq(Ops) /\ DOMAIN all = 1 .. k + 1 /\ DOMAIN ops = 1 .. k
      /\ all[k + 1] = r /\ \A n \in 1 .. k : all[n] = ops[n]
  BY <1>6
<1>8. all \o Tail(todo) = ops \o (<<r>> \o Tail(todo))
  BY <1>1, <1>6, ConcatAssociative
<1> HIDE DEF all, k
<1>9. Rank \in [Wires -> Nat] /\ \A n \in 1 .. k : ops[n].op # "unref" => Rank[w] < Rank[ops[n].wire]
  BY <1>2, <1>4, <1>7, RankFacts DEF CallInv
<1>10. ASSUME NEW n \in 1 .. k PROVE IsKept(wire_value, all, n)
  <2>1. all[n] = ops[n] /\ \A m \in 1 .. n : all[m] = ops[m]
    BY <1>7
  <2>2. IsKept(wire_value, ops, n)
    BY <1>7 DEF AllKept
  <2>3. CASE Creates(ops, n)
    <3>1. n + 1 \in 1 .. k /\ n + 1 \in DOMAIN all
      BY <1>7, <2>3 DEF Creates
    <3>2. Creates(all, n)
      BY <1>7, <2>1, <2>3, <3>1 DEF Creates
    <3>3. QED
      BY <3>2 DEF IsKept
  <2>4. ASSUME NEW u \in DOMAIN wire_value, Keeps(wire_value, u, ops, n)
        PROVE  Keeps(wire_value, u, all, n)
    BY <2>1, <2>4 DEF Keeps
  <2>5. QED
    BY <2>1, <2>2, <2>3, <2>4 DEF IsKept
<1>11. IsKept(wire_value, all, k + 1)
  <2>1. IsKept(wire_value, todo, 1) /\ ~Creates(todo, 1)
    BY <1>1 DEF CallInv, AllKept, Creates
  <2>2. PICK u \in DOMAIN wire_value : Keeps(wire_value, u, todo, 1)
    BY <1>1, <2>1 DEF IsKept
  <2>3. wire_value[u] = h.value /\ (Rank[u] < Rank[w] \/ u = w) /\ u \in Wires
    BY <1>1, <2>2 DEF Keeps
  <2>4. ASSUME NEW m \in 1 .. k + 1, all[m].op # "unref"
        PROVE  Rank[u] < Rank[all[m].wire]
               \/ (m = k + 1 /\ all[k + 1].op = "notify" /\ u = all[k + 1].wire)
    <3>1. CASE m = k + 1
      BY <1>6, <1>7, <2>3, <3>1
    <3>2. CASE m \in 1 .. k
      <4>1. all[m] = ops[m] /\ ops[m].op # "unref" /\ ops[m] \in Ops
        BY <1>7, <2>4, <3>2, ElementOfSeq
      <4>2. Rank[w] < Rank[ops[m].wire] /\ ops[m].wire \in Wires
        BY <1>9, <3>2, <4>1, OpFacts DEF CallInv
      <4>3. Rank[w] \in Nat /\ Rank[u] \in Nat /\ Rank[ops[m].wire] \in Nat
        BY <1>2, <1>9, <2>3, <4>2
      <4>4. QED
        BY <2>3, <4>1, <4>2, <4>3
    <3>3. QED
      BY <1>7, <3>1, <3>2
  <2>5. Keeps(wire_value, u, all, k + 1)
    BY <1>6, <1>7, <2>3, <2>4 DEF Keeps
  <2>6. QED
    BY <2>5 DEF IsKept
<1>12. AllKept(wire_value, all)
  <2>1. \A n \in 1 .. k + 1 : n \in 1 .. k \/ n = k + 1
    BY <1>7
  <2>2. QED
    BY <1>7, <1>10, <1>11, <2>1 DEF AllKept
<1>13. ASSUME NEW m \in DOMAIN all, all[m].op # "unref" PROVE Rank[w] <= Rank[all[m].wire]
  <2>1. CASE m \in 1 .. k
    <3>1. all[m] = ops[m] /\ ops[m].op # "unref" /\ ops[m] \in Ops
      BY <1>7, <1>13, <2>1, ElementOfSeq
    <3>2. Rank[w] < Rank[ops[m].wire] /\ ops[m].wire \in Wires
      BY <1>9, <2>1, <3>1, OpFacts DEF CallInv
    <3>3. Rank[w] \in Nat /\ Rank[ops[m].wire] \in Nat
      BY <1>2, <1>9, <3>2
    <3>4. QED
      BY <3>1, <3>2, <3>3
  <2>2. CASE m = k + 1
    <3>1. Rank[w] \in Nat
      BY <1>2, <1>9
    <3>2. QED
      BY <1>6, <1>7, <2>2, <3>1
  <2>3. QED
    BY <1>7, <2>1, <2>2
<1>14. ASSUME NEW x
       PROVE  Cardinality(Places(all, UnrefOp(x))) = Cardinality(Places(ops, UnrefOp(x)))
  <2>1. Places(all, UnrefOp(x)) = Places(ops, UnrefOp(x))
    <3>1. r # UnrefOp(x)
      BY <1>6 DEF UnrefOp
    <3>2. \A n \in 1 .. k + 1 : n \in 1 .. k \/ n = k + 1
      BY <1>7
    <3>3. \A n \in 1 .. k : n \in 1 .. k + 1
      BY <1>7
    <3>4. QED
      BY <1>7, <3>1, <3>2, <3>3 DEF Places
  <2>2. QED
    BY <2>1
<1>15. QED
  BY <1>6, <1>7, <1>8, <1>12, <1>13, <1>14 DEF h, r, all

\* What the gate has to do, when the values change by what it creates.
LEMMA GateCalled ==
  ASSUME CallInv, HasNoLoop(circuit), todo # <<>>, Head(todo).op = "notify",
         UNCHANGED <<circuit, phase, wire_value>>,
         NEW p \in Head(todo).ports, NEW ops \in Seq(Ops), AllKept(wire_value, ops),
         \A m \in DOMAIN ops : ops[m].op # "unref" => ops[m].wire \in OutWires(p[1]),
         todo' = ops \o (<<NextGate(Head(todo), p)>> \o Tail(todo)),
         value' \in [Values -> Cell],
         \A x \in Values :
           Refs(value', x) = Refs(value, x) + Cardinality(Places(ops, UnrefOp(x)))
  PROVE  CallInv'
<1> DEFINE r == NextGate(Head(todo), p)
           all == ops \o <<r>>
<1>1. /\ r \in Ops /\ r.op = "notify" /\ all \in Seq(Ops) /\ AllKept(wire_value, all)
      /\ all \o Tail(todo) = ops \o (<<r>> \o Tail(todo))
      /\ \A m \in DOMAIN all : all[m].op # "unref" => Rank[Head(todo).wire] <= Rank[all[m].wire]
      /\ \A x : Cardinality(Places(all, UnrefOp(x))) = Cardinality(Places(ops, UnrefOp(x)))
  BY LoopGoesOn
<1>2. todo' = all \o Tail(todo)
  BY <1>1
<1> HIDE DEF all
<1>3. ASSUME NEW x \in Values
      PROVE  Refs(value', x) - Refs(value, x) =
               Cardinality(On(wire_value', x)) - Cardinality(On(wire_value, x))
                 + Cardinality(Places(all, UnrefOp(x))) - IF Head(todo) = UnrefOp(x) THEN 1 ELSE 0
  <2> DEFINE on == Cardinality(On(wire_value, x))
             old == Refs(value, x)
             new == Cardinality(Places(ops, UnrefOp(x)))
  <2>1. on \in Nat /\ old \in Nat /\ new \in Nat
    BY OnFinite, CellFacts, PlacesFinite DEF CallInv, TypeOK
  <2>2. Head(todo) # UnrefOp(x)
    BY DEF UnrefOp
  <2>3. Refs(value', x) = old + new /\ Cardinality(Places(all, UnrefOp(x))) = new
    BY <1>1
  <2> HIDE DEF on, old, new
  <2>4. (old + new) - old = on - on + new - 0
    BY <2>1
  <2>5. QED
    BY <2>2, <2>3, <2>4 DEF on, old
<1>4. /\ DOMAIN wire_value' = DOMAIN wire_value
      /\ wire_value' \in [DOMAIN wire_value -> Values \cup {NULL}]
      /\ AllKept(wire_value', all)
      /\ \A u \in DOMAIN wire_value : wire_value'[u] = wire_value[u]
  BY <1>1 DEF CallInv, TypeOK
<1>5. QED
  BY <1>1, <1>2, <1>3, <1>4, CallStep

\* The inputs of a gate keep the values it passes on.
LEMMA PassesKept ==
  ASSUME CallInv, HasNoLoop(circuit), NEW g \in Gates, NEW ops \in Seq(Passes(g))
  PROVE  /\ ops \in Seq(Ops) /\ AllKept(wire_value, ops)
         /\ \A m \in DOMAIN ops : ops[m].op = "drive" /\ ops[m].wire \in OutWires(g)
         /\ \A x : Cardinality(Places(ops, UnrefOp(x))) = 0
<1>1. \A m \in DOMAIN ops : ops[m] \in Passes(g)
  BY ElementOfSeq
<1>2. ops \in Seq(Ops)
  <2>1. Passes(g) \subseteq Ops
    BY DEF Passes
  <2>2. QED
    BY <2>1
<1>3. \A m \in DOMAIN ops :
        /\ ops[m].op = "drive" /\ ops[m].wire \in OutWires(g)
        /\ \E u \in InWires(g) : u \in DOMAIN wire_value /\ wire_value[u] = ops[m].value
  BY <1>1 DEF Passes
<1>4. ASSUME NEW n \in DOMAIN ops PROVE IsKept(wire_value, ops, n)
  <2>1. PICK u \in InWires(g) : u \in DOMAIN wire_value /\ wire_value[u] = ops[n].value
    BY <1>3
  <2>2. \A m \in 1 .. n : m \in DOMAIN ops
    BY <1>2
  <2>3. \A m \in 1 .. n : Rank[u] < Rank[ops[m].wire]
    BY <1>3, <2>2, RankFacts DEF CallInv
  <2>4. Keeps(wire_value, u, ops, n)
    BY <2>1, <2>3 DEF Keeps
  <2>5. QED
    BY <2>1, <2>4 DEF IsKept
<1>5. \A x : Cardinality(Places(ops, UnrefOp(x))) = 0
  BY <1>3, NothingLetGo
<1>6. QED
  BY <1>2, <1>3, <1>4, <1>5 DEF AllKept

\* A value that is created has one reference, its creator's.
LEMMA CreatedHas ==
  ASSUME TypeOK, NEW v \in Values, IsFree(v), NEW num \in Nat
  PROVE  /\ Created(v, num) \in [Values -> Cell]
         /\ \A x \in Values : Refs(Created(v, num), x) = Refs(value, x) + IF x = v THEN 1 ELSE 0
<1> DEFINE c == [num |-> num, refs |-> 1]
<1>1. c \in [num : Nat, refs : Nat \ {0}] /\ c \in [num : Nat, refs : Nat] /\ c.refs = 1
  OBVIOUS
<1>2. c \in Cell /\ c # NULL
  BY <1>1, DataflowAssumption DEF Cell
<1>3. Created(v, num) = [value EXCEPT ![v] = c] /\ value \in [Values -> Cell]
  BY DEF Created, TypeOK
<1> HIDE DEF c
<1>4. Created(v, num) \in [Values -> Cell]
  BY <1>2, <1>3
<1>5. ASSUME NEW x \in Values
      PROVE  Refs(Created(v, num), x) = Refs(value, x) + IF x = v THEN 1 ELSE 0
  <2>1. CASE x = v
    <3>1. Refs(value, x) = 0
      BY <2>1 DEF Refs, IsFree
    <3>2. Refs(Created(v, num), x) = 1
      BY <1>1, <1>2, <1>3, <2>1 DEF Refs
    <3>3. QED
      BY <2>1, <3>1, <3>2
  <2>2. CASE x # v
    <3>1. Created(v, num)[x] = value[x]
      BY <1>3, <2>2
    <3>2. QED
      BY <1>3, <2>2, <3>1, CellFacts DEF Refs
  <2>3. QED
    BY <2>1, <2>2
<1>6. QED
  BY <1>4, <1>5

\* What the function computes is a number.
LEMMA AddIs ==
  ASSUME CallInv, todo # <<>>, NEW g \in Gates, circuit.kind[g] = "add", Complete(g)
  PROVE  Add(g) \in Nat
<1> DEFINE in == circuit.in[g]
<1>1. DOMAIN in = 1 .. 2
  BY Typed, Ports DEF CallInv
<1>2. ASSUME NEW n \in 1 .. 2 PROVE value[ValueOn(in[n])].num \in Nat
  <2>1. ValueOn(in[n]) # NULL /\ in[n] # NULL
    BY <1>1 DEF Complete, ValueOn
  <2>2. in[n] \in Wires /\ ValueOn(in[n]) = wire_value[in[n]]
    BY <1>1, <2>1, Ports DEF CallInv, InWires, ValueOn
  <2>3. QED
    <3> DEFINE v == ValueOn(in[n])
    <3> HIDE DEF in
    <3>1. in[n] \in DOMAIN wire_value
      BY <2>2, InCall
    <3>2. v \in Values /\ ~IsFree(v)
      BY <2>1, <2>2, <3>1, Used DEF CallInv, TypeOK
    <3>3. value[v] \in [num : Nat, refs : Nat \ {0}]
      BY <3>2, CellFacts DEF CallInv, TypeOK, IsFree
    <3>4. QED
      BY <3>3
<1>3. value[ValueOn(in[1])].num \in Nat /\ value[ValueOn(in[2])].num \in Nat
  BY <1>2
<1>4. QED
  BY <1>3 DEF Add

\* The creator keeps a value until the write that it makes has returned.
LEMMA CreatorKeeps ==
  ASSUME TypeOK, NEW w \in Wires, NEW v \in Values
  PROVE  LET ops == <<DriveOp(w, v), UnrefOp(v)>>
         IN  /\ ops \in Seq(Ops) /\ AllKept(wire_value, ops)
             /\ \A m \in DOMAIN ops : ops[m].op # "unref" => ops[m].wire = w
             /\ \A x : Cardinality(Places(ops, UnrefOp(x))) = IF x = v THEN 1 ELSE 0
<1> DEFINE first == DriveOp(w, v)
           last == UnrefOp(v)
           ops == <<first, last>>
<1>1. last \in Ops /\ last.op = "unref" /\ last.value = v
      /\ \A x : last = UnrefOp(x) <=> x = v
  BY DEF Ops, UnrefOp
<1>2. first \in Ops /\ first.op = "drive" /\ first.wire = w /\ first.value = v
  BY DEF DriveOp, Ops
<1> HIDE DEF first, last
<1>3. ops \in Seq(Ops) /\ DOMAIN ops = {1, 2} /\ ops[1] = first /\ ops[2] = last
      /\ ops = <<first>> \o <<last>>
  <2>1. ops \in Seq(Ops) /\ Len(ops) = 2
    BY <1>1, <1>2
  <2>2. DOMAIN ops = 1 .. 2
    BY <2>1
  <2>3. ops[1] = first /\ ops[2] = last
    OBVIOUS
  <2>4. ops = <<first>> \o <<last>>
    BY Pair
  <2> HIDE DEF ops
  <2>5. 1 .. 2 = {1, 2}
    OBVIOUS
  <2>6. QED
    BY <2>1, <2>2, <2>3, <2>4, <2>5
<1> HIDE DEF ops
<1>4. IsKept(wire_value, ops, 1)
  <2>1. Creates(ops, 1)
    BY <1>2, <1>3 DEF Creates, last
  <2>2. QED
    BY <2>1 DEF IsKept
<1>5. IsKept(wire_value, ops, 2)
  BY <1>1, <1>3 DEF IsKept
<1>6. AllKept(wire_value, ops)
  BY <1>3, <1>4, <1>5 DEF AllKept
<1>7. ASSUME NEW x PROVE Cardinality(Places(ops, UnrefOp(x))) = IF x = v THEN 1 ELSE 0
  <2> DEFINE u == UnrefOp(x)
  <2>1. <<first>> \in Seq(Ops) /\ <<last>> \in Seq(Ops)
    BY <1>1, <1>2
  <2>2. first # u /\ (last = u <=> x = v)
    BY <1>1, <1>2 DEF UnrefOp
  <2> HIDE DEF u
  <2>3. Cardinality(Places(<<first>>, u)) = 0
        /\ Cardinality(Places(<<last>>, u)) = IF x = v THEN 1 ELSE 0
    BY <2>2, PlacesOfOne
  <2>4. Cardinality(Places(<<first>> \o <<last>>, u)) =
          Cardinality(Places(<<first>>, u)) + Cardinality(Places(<<last>>, u))
    BY <2>1, PlacesAdd
  <2>5. Cardinality(Places(ops, u)) = 0 + IF x = v THEN 1 ELSE 0
    BY <1>3, <2>3, <2>4
  <2>6. QED
    BY <2>5 DEF u
<1>8. QED
  BY <1>1, <1>2, <1>3, <1>6, <1>7 DEF ops, first, last

LEMMA ResultKept ==
  ASSUME CallInv, NEW g \in Gates, NEW v \in Values
  PROVE  LET ops == ResultOps(g, v)
         IN  /\ ops \in Seq(Ops) /\ AllKept(wire_value, ops)
             /\ \A m \in DOMAIN ops : ops[m].op # "unref" => ops[m].wire \in OutWires(g)
             /\ \A x : Cardinality(Places(ops, UnrefOp(x))) = IF x = v THEN 1 ELSE 0
<1> DEFINE ops == ResultOps(g, v)
           last == UnrefOp(v)
<1>1. CASE ops = <<last>>
  <2>1. last \in Ops /\ last.op = "unref" /\ last.value = v
        /\ \A x : last = UnrefOp(x) <=> x = v
    BY DEF Ops, UnrefOp
  <2>2. ops \in Seq(Ops) /\ DOMAIN ops = {1} /\ ops[1] = last
    BY <1>1, <2>1, OneOp
  <2>3. AllKept(wire_value, ops)
    BY <2>1, <2>2 DEF AllKept, IsKept
  <2>4. \A x : Cardinality(Places(ops, UnrefOp(x))) = IF x = v THEN 1 ELSE 0
    <3> HIDE DEF last, ops
    <3>1. QED
      BY <1>1, <2>1, PlacesOfOne
  <2>5. QED
    BY <2>1, <2>2, <2>3, <2>4
<1>2. ASSUME NEW w \in OutWires(g), ops = <<DriveOp(w, v), last>>
      PROVE  /\ ops \in Seq(Ops) /\ AllKept(wire_value, ops)
             /\ \A m \in DOMAIN ops : ops[m].op # "unref" => ops[m].wire \in OutWires(g)
             /\ \A x : Cardinality(Places(ops, UnrefOp(x))) = IF x = v THEN 1 ELSE 0
  <2>1. w \in Wires
    BY DEF OutWires
  <2> DEFINE both == <<DriveOp(w, v), UnrefOp(v)>>
  <2>2. /\ both \in Seq(Ops) /\ AllKept(wire_value, both)
        /\ \A m \in DOMAIN both : both[m].op # "unref" => both[m].wire = w
        /\ \A x : Cardinality(Places(both, UnrefOp(x))) = IF x = v THEN 1 ELSE 0
    BY <2>1, CreatorKeeps DEF CallInv
  <2>3. ops = both
    BY <1>2
  <2> HIDE DEF both, ops
  <2>4. QED
    BY <2>2, <2>3
<1>3. QED
  BY <1>1, <1>2, ResultIs DEF CallInv

\* What a gate does, in three cases.
LEMMA ExecuteIs ==
  ASSUME CallInv, phase = "enabled", NEW g \in Gates, NEW rest \in Seq(Ops), Execute(g, rest)
  PROVE  \/ circuit.kind[g] = "add" /\ Complete(g)
            /\ \E v \in Values : IsFree(v) /\ value' = Created(v, Add(g)) /\ todo' = ResultOps(g, v) \o rest
         \/ \E ops \in Seq(Passes(g)) : todo' = ops \o rest /\ value' = value
<1>1. CASE circuit.kind[g] = "add" /\ Complete(g)
  BY <1>1 DEF Execute
<1>2. CASE circuit.kind[g] = "porti"
  BY <1>2, SortersPass DEF Execute, CallInv, Sorters
<1>3. CASE circuit.kind[g] = "portb"
  BY <1>3, SortersPass DEF Execute, CallInv, Sorters
<1>4. CASE circuit.kind[g] = "spec"
  BY <1>4, SortersPass DEF Execute, CallInv, Sorters
<1>5. CASE ~(circuit.kind[g] = "add" /\ Complete(g)) /\ circuit.kind[g] \notin Sorters
  <2>1. todo' = rest /\ value' = value
    BY <1>5 DEF Execute, Sorters
  <2>2. <<>> \in Seq(Passes(g)) /\ rest = <<>> \o rest
    OBVIOUS
  <2>3. QED
    BY <2>1, <2>2
<1>6. QED
  BY <1>1, <1>2, <1>3, <1>4, <1>5 DEF Sorters

LEMMA NotifyKeeps ==
  ASSUME CallInv, HasNoLoop(circuit), Notify
  PROVE  CallInv'
<1> DEFINE n == Head(todo)
<1>1. todo # <<>> /\ n.op = "notify" /\ UNCHANGED <<circuit, phase, wire_value>>
  BY DEF Notify, Doing
<1>2. n \in Ops /\ Tail(todo) \in Seq(Ops) /\ phase = "enabled" /\ TypeOK
  BY <1>1, InCall DEF CallInv
<1>3. n.ports \subseteq Driven(n.wire)
  BY <1>1, <1>2, OpFacts
<1>4. value \in [Values -> Cell] /\ \A x \in Values : Refs(value, x) \in Nat
  BY <1>2, CellFacts DEF TypeOK
<1>5. CASE n.ports = {}
  <2> DEFINE ops == <<>>
  <2>1. todo' = Tail(todo) /\ value' = value
    BY <1>5 DEF Notify
  <2>2. ops \in Seq(Ops) /\ DOMAIN ops = {} /\ todo' = ops \o Tail(todo)
    BY <1>2, <2>1
  <2>3. \A x : Cardinality(Places(ops, UnrefOp(x))) = 0 /\ n # UnrefOp(x)
    BY <1>1, PlacesOfNone DEF UnrefOp
  <2> HIDE DEF ops, n
  <2>4. ASSUME NEW x \in Values
        PROVE  Refs(value', x) - Refs(value, x) =
                 Cardinality(On(wire_value', x)) - Cardinality(On(wire_value, x))
                   + Cardinality(Places(ops, UnrefOp(x))) - IF n = UnrefOp(x) THEN 1 ELSE 0
    <3> DEFINE on == Cardinality(On(wire_value, x))
               r == Refs(value, x)
    <3>1. on \in Nat /\ r \in Nat
      BY <1>2, <1>4, OnFinite
    <3> HIDE DEF on, r
    <3>2. r - r = on - on + 0 - 0
      BY <3>1
    <3>3. QED
      BY <1>1, <2>1, <2>3, <3>2 DEF on, r
  <2>5. wire_value' \in [DOMAIN wire_value -> Values \cup {NULL}]
    BY <1>1, <1>2 DEF TypeOK
  <2>6. AllKept(wire_value', ops)
    BY <2>2 DEF AllKept
  <2>7. QED
    BY <1>1, <1>4, <2>1, <2>2, <2>4, <2>5, <2>6, CallStep DEF n
<1>6. ASSUME NEW p \in n.ports,
             LET rest == <<NextGate(n, p)>> \o Tail(todo)
             IN  IF phase = "enabled" THEN Execute(p[1], rest) ELSE todo' = rest /\ value' = value
      PROVE  CallInv'
  <2> DEFINE g == p[1]
             next == NextGate(n, p)
             rest == <<next>> \o Tail(todo)
  <2>1. g \in Gates
    BY <1>3 DEF Driven
  <2>2. next \in Ops
    <3> DEFINE ops == <<>>
    <3>1. ops \in Seq(Ops) /\ DOMAIN ops = {}
      OBVIOUS
    <3> HIDE DEF ops
    <3>2. AllKept(wire_value, ops)
          /\ \A m \in DOMAIN ops : ops[m].op # "unref" => ops[m].wire \in OutWires(p[1])
      BY <3>1 DEF AllKept
    <3>3. NextGate(Head(todo), p) \in Ops
      BY <1>1, <1>6, <3>1, <3>2, LoopGoesOn
    <3>4. QED
      BY <3>3
  <2>3. rest \in Seq(Ops)
    BY <1>2, <2>2
  <2>4. Execute(g, rest)
    BY <1>2, <1>6
  <2>5. CASE \E ops \in Seq(Passes(g)) : todo' = ops \o rest /\ value' = value
    <3>1. PICK ops \in Seq(Passes(g)) : todo' = ops \o rest /\ value' = value
      BY <2>5
    <3>2. /\ ops \in Seq(Ops) /\ AllKept(wire_value, ops)
          /\ \A m \in DOMAIN ops : ops[m].op # "unref" => ops[m].wire \in OutWires(g)
          /\ \A x : Cardinality(Places(ops, UnrefOp(x))) = 0
      BY <2>1, PassesKept
    <3>3. \A x \in Values : Refs(value', x) = Refs(value, x) + Cardinality(Places(ops, UnrefOp(x)))
      BY <1>4, <3>1, <3>2
    <3>4. QED
      BY <1>1, <1>4, <3>1, <3>2, <3>3, GateCalled
  <2>6. CASE circuit.kind[g] = "add" /\ Complete(g)
             /\ \E v \in Values : IsFree(v) /\ value' = Created(v, Add(g)) /\ todo' = ResultOps(g, v) \o rest
    <3>1. PICK v \in Values : IsFree(v) /\ value' = Created(v, Add(g)) /\ todo' = ResultOps(g, v) \o rest
      BY <2>6
    <3> DEFINE ops == ResultOps(g, v)
    <3>2. /\ ops \in Seq(Ops) /\ AllKept(wire_value, ops)
          /\ \A m \in DOMAIN ops : ops[m].op # "unref" => ops[m].wire \in OutWires(g)
          /\ \A x : Cardinality(Places(ops, UnrefOp(x))) = IF x = v THEN 1 ELSE 0
      BY <2>1, ResultKept
    <3>3. /\ value' \in [Values -> Cell]
          /\ \A x \in Values : Refs(value', x) = Refs(value, x) + IF x = v THEN 1 ELSE 0
      <4>1. Add(g) \in Nat
        BY <1>1, <2>1, <2>6, AddIs
      <4>2. QED
        BY <1>2, <3>1, <4>1, CreatedHas
    <3>4. todo' = ops \o rest
      BY <3>1
    <3> HIDE DEF ops
    <3>5. \A x \in Values : Refs(value', x) = Refs(value, x) + Cardinality(Places(ops, UnrefOp(x)))
      BY <3>2, <3>3
    <3>6. QED
      BY <1>1, <3>2, <3>3, <3>4, <3>5, GateCalled
  <2>7. QED
    BY <1>2, <2>1, <2>3, <2>4, <2>5, <2>6, ExecuteIs
<1>7. QED
  BY <1>5, <1>6 DEF Notify
-----------------------------------------------------------------------------
(* The program.                                                             *)

LEMMA FirstCall == ASSUME Init PROVE CallInv
<1>1. todo = <<>> /\ DOMAIN todo = {} /\ circuit \in Circuits
  BY DEF Init
<1>2. TypeOK
  BY DEF Init, TypeOK, Cell, Wires
<1>3. AllKept(wire_value, todo)
  BY <1>1 DEF AllKept
<1>4. ASSUME NEW x \in Values PROVE Refs(value, x) = Holders(x)
  <2>1. On(wire_value, x) = {}
    BY DataflowAssumption DEF Init, On
  <2>2. Cardinality(On(wire_value, x)) = 0
    BY <2>1, FS_EmptySet
  <2>3. Cardinality(Places(todo, UnrefOp(x))) = 0
    BY <1>1, PlacesOfNone
  <2>4. Refs(value, x) = 0
    BY DEF Init, Refs
  <2>5. QED
    BY <2>2, <2>3, <2>4, HoldersAre
<1>5. QED
  BY <1>2, <1>3, <1>4, RefsAre DEF CallInv

\* A step between two calls.
LEMMA BetweenCalls ==
  ASSUME CallInv, todo = <<>>, todo' = <<>>, UNCHANGED circuit,
         TypeOK',
         \A x \in Values :
           Refs(value', x) - Refs(value, x) =
             Cardinality(On(wire_value', x)) - Cardinality(On(wire_value, x))
  PROVE  CallInv'
<1>1. AllKept(wire_value, todo)'
  BY DEF AllKept
<1>2. ASSUME NEW x \in Values PROVE Refs(value', x) = Holders(x)'
  <2> DEFINE on == Cardinality(On(wire_value, x))
             onNext == Cardinality(On(wire_value', x))
             r == Refs(value, x)
             rNext == Refs(value', x)
  <2>1. Cardinality(Places(<<>>, UnrefOp(x))) = 0
    BY PlacesOfNone
  <2>2. Holders(x)' = Cardinality(On(wire_value', x)) + Cardinality(Places(todo', UnrefOp(x)))
    BY DEF Holders, On, Places, UnrefOp
  <2>3. Refs(value, x) = Holders(x) /\ r \in Nat /\ rNext \in Nat /\ on \in Nat
    BY RefsAre, CellFacts, OnFinite DEF CallInv, TypeOK
  <2>4. onNext \in Nat
    <3>1. (IsFiniteSet(On(wire_value, x)) /\ Cardinality(On(wire_value, x)) \in Nat)'
      <4>1. IsFiniteSet(Wires)
        BY Typed DEF CallInv
      <4>2. Wires' = Wires
        BY DEF Wires
      <4>3. On(wire_value', x) \in SUBSET Wires
        BY <4>2 DEF On, TypeOK
      <4>4. IsFiniteSet(On(wire_value', x))
        BY <4>1, <4>3, FS_Subset
      <4>5. Cardinality(On(wire_value', x)) \in Nat
        BY <4>4, FS_CardinalityType
      <4>6. QED
        BY <4>4, <4>5 DEF On
    <3>2. QED
      BY <3>1 DEF On
  <2>5. Holders(x) = on + 0 /\ Holders(x)' = onNext + 0 /\ rNext - r = onNext - on
    BY <2>1, <2>2, HoldersAre
  <2> HIDE DEF on, onNext, r, rNext
  <2>6. r = on
    BY <2>3, <2>5 DEF r
  <2>7. rNext = onNext
    BY <2>3, <2>4, <2>5, <2>6
  <2>8. QED
    BY <2>4, <2>5, <2>7 DEF rNext
<1>3. ReferencesAreHolders'
  BY <1>2 DEF ReferencesAreHolders, Refs, IsFree
<1>4. QED
  BY <1>1, <1>3 DEF CallInv

LEMMA SwitchKeeps ==
  ASSUME CallInv, Enable \/ Disable
  PROVE  CallInv'
<1>1. todo = <<>> /\ UNCHANGED <<circuit, wire_value, value, todo>>
      /\ (phase = "new" \/ phase = "enabled") /\ (phase' = "enabled" \/ phase' = "disabled")
  BY DEF Enable, Disable, Idle
<1>2. TypeOK'
  <2>1. Ops' = Ops /\ Wires' = Wires
    BY <1>1 DEF Ops, Wires, Driven, Gates
  <2> HIDE DEF Ops
  <2>2. QED
    BY <1>1, <2>1 DEF CallInv, TypeOK
<1>3. ASSUME NEW x \in Values
      PROVE  Refs(value', x) - Refs(value, x) =
               Cardinality(On(wire_value', x)) - Cardinality(On(wire_value, x))
  <2> DEFINE on == Cardinality(On(wire_value, x))
             r == Refs(value, x)
  <2>1. on \in Nat /\ r \in Nat
    BY CellFacts, OnFinite DEF CallInv, TypeOK
  <2> HIDE DEF on, r
  <2>2. r - r = on - on
    BY <2>1
  <2>3. QED
    BY <1>1, <2>2 DEF on, r
<1>4. QED
  BY <1>1, <1>2, <1>3, BetweenCalls

LEMMA InputKeeps ==
  ASSUME CallInv, NEW w \in Wires, NEW num \in Nat, DriveInput(w, num)
  PROVE  CallInv'
<1>1. PICK v \in Values : /\ IsFree(v) /\ value' = Created(v, num)
                          /\ todo' = <<DriveOp(w, v), UnrefOp(v)>>
  BY DEF DriveInput
<1> DEFINE ops == <<DriveOp(w, v), UnrefOp(v)>>
<1>2. todo = <<>> /\ phase = "enabled" /\ UNCHANGED <<circuit, phase, wire_value>> /\ todo' = ops
  BY <1>1 DEF DriveInput, Idle
<1>3. /\ ops \in Seq(Ops) /\ AllKept(wire_value, ops)
      /\ \A x : Cardinality(Places(ops, UnrefOp(x))) = IF x = v THEN 1 ELSE 0
  BY CreatorKeeps DEF CallInv
<1>4. /\ value' \in [Values -> Cell]
      /\ \A x \in Values : Refs(value', x) = Refs(value, x) + IF x = v THEN 1 ELSE 0
  BY <1>1, CreatedHas DEF CallInv
<1> HIDE DEF ops
<1>5. TypeOK'
  <2>1. Ops' = Ops /\ Wires' = Wires
    BY <1>2 DEF Ops, Wires, Driven, Gates
  <2> HIDE DEF Ops
  <2>2. QED
    BY <1>2, <1>3, <1>4, <2>1 DEF CallInv, TypeOK
<1>6. AllKept(wire_value, todo)'
  <2>1. Rank' = Rank
    BY <1>2 DEF Rank, Wires
  <2>2. AllKept(wire_value', todo')
    BY <1>2, <1>3
  <2>3. ASSUME NEW n \in DOMAIN todo' PROVE IsKept(wire_value, todo, n)'
    <3>1. IsKept(wire_value', todo', n)
      BY <2>2 DEF AllKept
    <3>2. CASE todo'[n].op = "unref"
      BY <3>2 DEF IsKept
    <3>3. CASE Creates(todo', n)
      BY <3>3 DEF IsKept, Creates, UnrefOp
    <3>4. ASSUME NEW u \in DOMAIN wire_value', Keeps(wire_value', u, todo', n)
          PROVE  Keeps(wire_value, u, todo, n)'
      BY <2>1, <3>4 DEF Keeps
    <3>5. CASE \E u \in DOMAIN wire_value' : Keeps(wire_value', u, todo', n)
      BY <3>4, <3>5 DEF IsKept
    <3>6. QED
      BY <3>1, <3>2, <3>3, <3>5 DEF IsKept
  <2>4. QED
    BY <2>3 DEF AllKept
<1>7. ASSUME NEW x \in Values PROVE Refs(value', x) = Holders(x)'
  <2> DEFINE on == Cardinality(On(wire_value, x))
             new == IF x = v THEN 1 ELSE 0
  <2>1. Holders(x)' = Cardinality(On(wire_value', x)) + Cardinality(Places(todo', UnrefOp(x)))
    BY DEF Holders, On, Places, UnrefOp
  <2>2. Holders(x)' = on + new
    BY <1>2, <1>3, <2>1
  <2>3. Holders(x) = on + Cardinality(Places(<<>>, UnrefOp(x)))
    BY <1>2, HoldersAre
  <2>4. Cardinality(Places(<<>>, UnrefOp(x))) = 0 /\ on \in Nat /\ Refs(value, x) = Holders(x)
    BY PlacesOfNone, OnFinite, RefsAre DEF CallInv
  <2>5. Refs(value', x) = Refs(value, x) + new
    BY <1>4
  <2> HIDE DEF on, new
  <2>6. Refs(value, x) = on
    BY <2>3, <2>4
  <2>7. QED
    BY <2>2, <2>5, <2>6
<1>8. ReferencesAreHolders'
  BY <1>7 DEF ReferencesAreHolders, Refs, IsFree
<1>9. QED
  BY <1>5, <1>6, <1>8 DEF CallInv

LEMMA DestroyKeeps ==
  ASSUME CallInv, NEW w \in DOMAIN wire_value, DestroyWire(w)
  PROVE  CallInv'
<1> DEFINE old == wire_value[w]
<1>1. /\ phase = "disabled" /\ UNCHANGED <<circuit, phase, todo>>
      /\ value' = Import(value, NULL, old)
      /\ wire_value' = [u \in DOMAIN wire_value \ {w} |-> wire_value[u]]
  BY DEF DestroyWire
<1>2. todo = <<>> /\ todo' = <<>>
  BY <1>1 DEF CallInv, TypeOK
<1>3. old \in Values \cup {NULL} /\ (old # NULL => value[old] # NULL) /\ NULL \notin Values
      /\ value \in [Values -> Cell]
  BY Used, Typed DEF CallInv, TypeOK, IsFree
<1>4. /\ value' \in [Values -> Cell]
      /\ \A x \in Values : Refs(value', x) = Refs(value, x) - IF x = old THEN 1 ELSE 0
  <2>1. NULL \in Values \cup {NULL}
    OBVIOUS
  <2> HIDE DEF old
  <2>2. /\ Import(value, NULL, old) \in [Values -> Cell]
        /\ \A x \in Values :
             Refs(Import(value, NULL, old), x) =
               Refs(value, x) + (IF x = NULL /\ x # old THEN 1 ELSE 0)
                              - (IF x = old /\ x # NULL THEN 1 ELSE 0)
    BY <1>3, <2>1, Imported
  <2>3. ASSUME NEW x \in Values
        PROVE  Refs(value', x) = Refs(value, x) - IF x = old THEN 1 ELSE 0
    <3>1. x # NULL /\ Refs(value, x) \in Nat
      BY <1>3, CellFacts
    <3>2. Refs(value', x) = Refs(value, x) + 0 - (IF x = old THEN 1 ELSE 0)
      BY <1>1, <2>2, <3>1
    <3>3. QED
      BY <3>1, <3>2
  <2>4. QED
    BY <1>1, <2>2, <2>3
<1>5. TypeOK'
  <2>1. Ops' = Ops /\ Wires' = Wires
    BY <1>1 DEF Ops, Wires, Driven, Gates
  <2> HIDE DEF Ops, old
  <2>2. QED
    BY <1>1, <1>4, <2>1 DEF CallInv, TypeOK
<1>6. ASSUME NEW x \in Values
      PROVE  Refs(value', x) - Refs(value, x) =
               Cardinality(On(wire_value', x)) - Cardinality(On(wire_value, x))
  <2> DEFINE X == On(wire_value, x)
             on == Cardinality(X)
             onNext == Cardinality(X \ {w})
             r == Refs(value, x)
             less == IF x = old THEN 1 ELSE 0
  <2>1. IsFiniteSet(X) /\ on \in Nat /\ r \in Nat
    BY OnFinite, CellFacts DEF CallInv, TypeOK
  <2>2. On(wire_value', x) = X \ {w} /\ (w \in X <=> x = old)
    BY <1>1 DEF On
  <2> HIDE DEF X
  <2>3. onNext = IF w \in X THEN on - 1 ELSE on
    BY <2>1, FS_RemoveElement
  <2> HIDE DEF old
  <2>4. less \in Nat /\ onNext = on - less
    BY <2>1, <2>2, <2>3
  <2> HIDE DEF on, onNext, less, r
  <2>5. (r - less) - r = onNext - on
    BY <2>1, <2>4
  <2>6. Refs(value', x) = r - less
    BY <1>4 DEF r, less
  <2>7. QED
    BY <2>2, <2>5, <2>6 DEF r, on, onNext, X
<1>7. QED
  BY <1>1, <1>2, <1>5, <1>6, BetweenCalls

LEMMA CallsKeep ==
  ASSUME \A c \in Circuits : HasNoLoop(c)
  PROVE  /\ Init => CallInv
         /\ CallInv /\ [Next]_vars => CallInv'
<1>1. Init => CallInv
  BY FirstCall
<1>2. ASSUME CallInv, Next PROVE CallInv'
  <2>1. HasNoLoop(circuit)
    BY <1>2 DEF CallInv, TypeOK
  <2>2. CASE Drive
    BY <1>2, <2>1, <2>2, DriveKeeps
  <2>3. CASE Notify
    BY <1>2, <2>1, <2>3, NotifyKeeps
  <2>4. CASE Unref
    BY <1>2, <2>1, <2>4, UnrefKeeps
  <2>5. CASE Enable \/ Disable
    BY <1>2, <2>5, SwitchKeeps
  <2>6. ASSUME NEW n \in DOMAIN circuit.given, NEW num \in Numbers, DriveInput(circuit.given[n], num)
        PROVE  CallInv'
    <3>1. circuit.given[n] \in Wires /\ num \in Nat
      BY <1>2, Typed, DataflowAssumption DEF CallInv
    <3>2. QED
      BY <1>2, <2>6, <3>1, InputKeeps
  <2>7. ASSUME NEW w \in DOMAIN wire_value, DestroyWire(w) PROVE CallInv'
    BY <1>2, <2>7, DestroyKeeps
  <2>8. QED
    BY <1>2, <2>2, <2>3, <2>4, <2>5, <2>6, <2>7 DEF Next
<1>3. ASSUME CallInv, UNCHANGED vars PROVE CallInv'
  <2>1. UNCHANGED <<circuit, phase, wire_value, value, todo>>
    BY <1>3 DEF vars
  <2>2. TypeOK'
    <3>1. Ops' = Ops /\ Wires' = Wires
      BY <2>1 DEF Ops, Wires, Driven, Gates
    <3> HIDE DEF Ops
    <3>2. QED
      BY <1>3, <2>1, <3>1 DEF CallInv, TypeOK
  <2>3. AllKept(wire_value, todo)'
    BY <1>3, <2>1 DEF CallInv, AllKept, IsKept, Keeps, Creates, Rank, Wires, UnrefOp
  <2>4. ReferencesAreHolders'
    BY <1>3, <2>1 DEF CallInv, ReferencesAreHolders, Holders, IsFree, UnrefOp
  <2>5. QED
    BY <2>2, <2>3, <2>4 DEF CallInv
<1>4. QED
  BY <1>1, <1>2, <1>3

\* Wires hold values or nothing, and a call in progress is about wires and values
\* there are.
THEOREM TypeCorrect ==
  ASSUME \A c \in Circuits : HasNoLoop(c)
  PROVE  Spec => []TypeOK
<1>1. Init => CallInv
  BY CallsKeep
<1>2. CallInv /\ [Next]_vars => CallInv'
  BY CallsKeep
<1>3. CallInv => TypeOK
  BY DEF CallInv
<1>4. QED
  BY <1>1, <1>2, <1>3, PTL DEF Spec

\* The references counted are those of the wires a value is on and of the creators
\* that have not let it go (lxc_import_new_value), in every circuit without loops.
THEOREM EveryReferenceHasItsHolder ==
  ASSUME \A c \in Circuits : HasNoLoop(c)
  PROVE  Spec => []ReferencesAreHolders
<1>1. Init => CallInv
  BY CallsKeep
<1>2. CallInv /\ [Next]_vars => CallInv'
  BY CallsKeep
<1>3. CallInv => ReferencesAreHolders
  BY DEF CallInv
<1>4. QED
  BY <1>1, <1>2, <1>3, PTL DEF Spec

\* No value is freed under a gate or a loop over gates that borrowed it from a wire
\* (lxc_get_token_value), in every circuit without loops: what has borrowed it
\* writes no wire that leads back to that one.
THEOREM BorrowedValuesStay ==
  ASSUME \A c \in Circuits : HasNoLoop(c)
  PROVE  Spec => []NoFreedValueIsUsed
<1>1. Init => CallInv
  BY CallsKeep
<1>2. CallInv /\ [Next]_vars => CallInv'
  BY CallsKeep
<1>3. CallInv => NoFreedValueIsUsed
  BY Used
<1>4. QED
  BY <1>1, <1>2, <1>3, PTL DEF Spec
-----------------------------------------------------------------------------
(* The networks of the program have no loops, whatever their size.          *)

LEMMA NthIs ==
  ASSUME NEW i \in Nat, NEW j \in Nat
  PROVE  Nth(i, j) \in Nat /\ Nth(i + 1, j) = Nth(i, j) + i + 1
<1> DEFINE p == i * (i + 1)
<1>1. p \in Nat
  OBVIOUS
<1>2. (i + 1) * (i + 1 + 1) = p + 2 * (i + 1)
  OBVIOUS
<1>3. Nth(i, j) = (p \div 2) + j
  BY DEF Nth
<1>4. Nth(i + 1, j) = ((p + 2 * (i + 1)) \div 2) + j
  BY <1>2 DEF Nth
<1> HIDE DEF p
<1>5. p \div 2 \in Nat /\ (p + 2 * (i + 1)) \div 2 = (p \div 2) + i + 1
  BY <1>1
<1>6. QED
  BY <1>3, <1>4, <1>5

\* The number of the wire above a gate, and what the gate's ports are.
Above(i, j) == IF i = 0 THEN 0 ELSE Nth(i - 1, j)

LEMMA PortsAre ==
  ASSUME NEW elem \in Nat, NEW i \in 0 .. elem - 1, NEW j \in 0 .. elem - 1, j <= i
  PROVE  LET n == Above(i, j)
             m == Nth(i, j)
         IN  /\ n \in Nat /\ m = n + i + (IF i = 0 THEN j ELSE 0) /\ m \in Nat
             /\ Up(i, j) \in {NULL, Wire("y", n)} /\ (i = 0 => Up(i, j) = NULL)
             /\ Left(i, j) = (IF j = 0 THEN Wire("i", i) ELSE Wire("x", n - 1))
             /\ (j # 0 => n - 1 \in Nat /\ i # 0)
             /\ Down(i, j, elem) = (IF i = elem - 1 THEN Wire("o", j) ELSE Wire("y", m))
             /\ Right(i, j) \in {NULL, Wire("x", n)} /\ (i = 0 => Right(i, j) = NULL)
<1> DEFINE n == Above(i, j)
<1>0. n = IF i = 0 THEN 0 ELSE Nth(i - 1, j)
  BY DEF Above
<1> HIDE DEF n
<1>1. CASE i = 0
  <2>1. j = 0
    BY <1>1
  <2>2. Nth(0, 0) = 0
    BY DEF Nth
  <2>3. QED
    BY <1>0, <1>1, <2>1, <2>2 DEF Up, Left, n, Down, Right
<1>2. CASE i # 0
  <2> DEFINE h == i - 1
             b == (h * (h + 1)) \div 2
  <2>1. h \in Nat /\ i = h + 1 /\ n = Nth(h, j)
    BY <1>0, <1>2
  <2> HIDE DEF h
  <2>2. n \in Nat /\ Nth(i, j) = n + i /\ Nth(i, j) \in Nat
    <3>1. j \in Nat
      OBVIOUS
    <3>2. Nth(h, j) \in Nat /\ Nth(h + 1, j) = Nth(h, j) + h + 1
      BY <2>1, <3>1, NthIs
    <3>3. QED
      BY <2>1, <3>2
  <2>3. Nth(h, 0) \in Nat /\ b \in Nat
    BY <2>1, NthIs DEF Nth
  <2> HIDE DEF b
  <2>4. n = b + j /\ Nth(h, j - 1) = b + (j - 1)
    BY <2>1 DEF Nth, b
  <2>5. Nth(h, j - 1) = n - 1 /\ Nth(h, j - 1) + 1 = n
    BY <2>3, <2>4
  <2>6. j # 0 => n - 1 \in Nat
    BY <2>3, <2>4
  <2>7. i - 1 = h
    BY <2>1
  <2>8. QED
    BY <1>2, <2>1, <2>2, <2>5, <2>6, <2>7 DEF n, Up, Left, Down, Right
<1>3. QED
  BY <1>1, <1>2

\* A rank for each wire of the sorting network: in the order of the rows, and in a
\* row from the inputs of its gates to their outputs.
NetworkRank(w, elem) ==
  IF w[1] = "i" THEN 0
  ELSE IF w[1] = "y" THEN 2 * w[2] + 1
  ELSE IF w[1] = "x" THEN 2 * w[2] + 2
  ELSE 2 * Nth(elem - 1, w[2]) + 1

LEMMA NetworkRanks ==
  ASSUME NEW elem, NEW n
  PROVE  /\ NetworkRank(Wire("i", n), elem) = 0
         /\ NetworkRank(Wire("y", n), elem) = 2 * n + 1
         /\ NetworkRank(Wire("x", n), elem) = 2 * n + 2
         /\ NetworkRank(Wire("o", n), elem) = 2 * Nth(elem - 1, n) + 1
BY DEF NetworkRank, Wire

\* The gate's inputs come before its outputs.
LEMMA GateInOrder ==
  ASSUME NEW elem \in Nat, NEW i \in 0 .. elem - 1, NEW j \in 0 .. elem - 1, j <= i
  PROVE  /\ \A u \in {Up(i, j), Left(i, j)} : \A w \in {Down(i, j, elem), Right(i, j)} :
              u # NULL /\ w # NULL => NetworkRank(u, elem) < NetworkRank(w, elem)
         /\ \A w \in {Up(i, j), Left(i, j), Down(i, j, elem), Right(i, j)} :
              w # NULL => NetworkRank(w, elem) \in Nat
<1> DEFINE n == Above(i, j)
           m == Nth(i, j)
           rank(w) == NetworkRank(w, elem)
<1>1. /\ n \in Nat /\ m = n + i + (IF i = 0 THEN j ELSE 0) /\ m \in Nat
      /\ Up(i, j) \in {NULL, Wire("y", n)} /\ (i = 0 => Up(i, j) = NULL)
      /\ Left(i, j) = (IF j = 0 THEN Wire("i", i) ELSE Wire("x", n - 1))
      /\ (j # 0 => n - 1 \in Nat /\ i # 0)
      /\ Down(i, j, elem) = (IF i = elem - 1 THEN Wire("o", j) ELSE Wire("y", m))
      /\ Right(i, j) \in {NULL, Wire("x", n)} /\ (i = 0 => Right(i, j) = NULL)
  BY PortsAre
<1>2. rank(Down(i, j, elem)) = 2 * m + 1
  <2>1. CASE i = elem - 1
    BY <1>1, <2>1, NetworkRanks
  <2>2. CASE i # elem - 1
    BY <1>1, <2>2, NetworkRanks
  <2>3. QED
    BY <2>1, <2>2
<1>3. Right(i, j) # NULL => rank(Right(i, j)) = 2 * n + 2 /\ i # 0
  BY <1>1, NetworkRanks
<1>4. Up(i, j) # NULL => rank(Up(i, j)) = 2 * n + 1 /\ i # 0
  BY <1>1, NetworkRanks
<1>5. rank(Left(i, j)) \in Nat /\ rank(Left(i, j)) <= 2 * n
  <2>1. CASE j = 0
    <3>1. rank(Left(i, j)) = 0
      BY <1>1, <2>1, NetworkRanks
    <3>2. 0 <= 2 * n
      BY <1>1
    <3>3. QED
      BY <3>1, <3>2
  <2>2. CASE j # 0
    <3>1. rank(Left(i, j)) = 2 * (n - 1) + 2
      BY <1>1, <2>2, NetworkRanks
    <3> HIDE DEF n, rank, m
    <3>2. 2 * (n - 1) + 2 = 2 * n /\ 2 * n \in Nat
      BY <1>1
    <3>3. QED
      BY <3>1, <3>2
  <2>3. QED
    BY <2>1, <2>2
<1> HIDE DEF n, m, rank
<1>6. m \in Nat /\ n \in Nat /\ n <= m /\ (i # 0 => n < m)
  BY <1>1
<1>7. ASSUME NEW u \in {Up(i, j), Left(i, j)}, NEW w \in {Down(i, j, elem), Right(i, j)},
             u # NULL, w # NULL
      PROVE  rank(u) < rank(w)
  <2>1. CASE u = Up(i, j)
    BY <1>2, <1>3, <1>4, <1>6, <1>7, <2>1
  <2>2. CASE u = Left(i, j)
    BY <1>2, <1>3, <1>5, <1>6, <1>7, <2>2
  <2>3. QED
    BY <2>1, <2>2
<1>8. ASSUME NEW w \in {Up(i, j), Left(i, j), Down(i, j, elem), Right(i, j)}, w # NULL
      PROVE  rank(w) \in Nat
  BY <1>2, <1>3, <1>4, <1>5, <1>6, <1>8
<1>9. QED
  BY <1>7, <1>8 DEF rank

LEMMA NetworksHaveNoLoop ==
  ASSUME NEW creator, NEW elem \in Nat
  PROVE  HasNoLoop(Network(creator, elem))
<1> DEFINE c == Network(creator, elem)
           Gs == {p \in (0 .. elem - 1) \X (0 .. elem - 1) : p[2] <= p[1]}
           rank == [w \in WiresOf(c) |-> NetworkRank(w, elem)]
<1>1. /\ DOMAIN c.kind = Gs /\ DOMAIN c.in = Gs /\ DOMAIN c.out = Gs
      /\ \A p \in Gs : c.in[p] = <<Up(p[1], p[2]), Left(p[1], p[2])>>
                       /\ c.out[p] = <<Down(p[1], p[2], elem), Right(p[1], p[2])>>
  BY DEF Network
<1> HIDE DEF c
<1>2. \A p \in Gs : p[1] \in 0 .. elem - 1 /\ p[2] \in 0 .. elem - 1 /\ p[2] <= p[1]
  OBVIOUS
<1> HIDE DEF Gs
<1>3. ASSUME NEW p \in Gs
      PROVE  /\ \A n \in DOMAIN c.in[p] : c.in[p][n] \in {Up(p[1], p[2]), Left(p[1], p[2])}
             /\ \A n \in DOMAIN c.out[p] : c.out[p][n] \in {Down(p[1], p[2], elem), Right(p[1], p[2])}
  BY <1>1
<1>4. \A p \in Gs :
        /\ \A n \in DOMAIN c.in[p] : c.in[p][n] # NULL => c.in[p][n] \in WiresOf(c)
        /\ \A n \in DOMAIN c.out[p] : c.out[p][n] # NULL => c.out[p][n] \in WiresOf(c)
  BY <1>1 DEF WiresOf
<1>5. ASSUME NEW w \in WiresOf(c) PROVE NetworkRank(w, elem) \in Nat
  <2>1. w # NULL
    BY DEF WiresOf
  <2>2. \E p \in Gs : (\E n \in DOMAIN c.in[p] : w = c.in[p][n]) \/ \E n \in DOMAIN c.out[p] : w = c.out[p][n]
    BY <1>1 DEF WiresOf
  <2>3. PICK p \in Gs : w \in {Up(p[1], p[2]), Left(p[1], p[2]), Down(p[1], p[2], elem), Right(p[1], p[2])}
    BY <1>3, <2>2
  <2>4. QED
    BY <1>2, <2>1, <2>3, GateInOrder
<1>6. rank \in [WiresOf(c) -> Nat]
  BY <1>5
<1>7. ASSUME NEW p \in Gs, NEW i \in DOMAIN c.in[p], NEW o \in DOMAIN c.out[p],
             c.in[p][i] # NULL, c.out[p][o] # NULL
      PROVE  rank[c.in[p][i]] < rank[c.out[p][o]]
  <2> DEFINE u == c.in[p][i]
             w == c.out[p][o]
  <2>1. u \in {Up(p[1], p[2]), Left(p[1], p[2])} /\ w \in {Down(p[1], p[2], elem), Right(p[1], p[2])}
    BY <1>3
  <2>2. u \in WiresOf(c) /\ w \in WiresOf(c) /\ u # NULL /\ w # NULL
    BY <1>4, <1>7
  <2> HIDE DEF u, w
  <2>3. NetworkRank(u, elem) < NetworkRank(w, elem)
    BY <1>2, <2>1, <2>2, GateInOrder
  <2>4. rank[u] < rank[w]
    BY <2>2, <2>3
  <2>5. QED
    BY <2>4 DEF u, w
<1> HIDE DEF rank
<1>8. Ranks(c, rank)
  BY <1>1, <1>7 DEF Ranks
<1>9. HasNoLoop(c)
  BY <1>6, <1>8 DEF HasNoLoop
<1>10. QED
  BY <1>9 DEF c

LEMMA AdderHasNoLoop == HasNoLoop(AddAndPrint)
<1> DEFINE c == AddAndPrint
           a == Wire("a", 0)
           b == Wire("b", 0)
           sum == Wire("sum", 0)
           rank == [w \in WiresOf(c) |-> IF w[1] = "sum" THEN 1 ELSE 0]
<1>1. /\ DOMAIN c.kind = {"add", "print"} /\ DOMAIN c.in = {"add", "print"} /\ DOMAIN c.out = {"add", "print"}
      /\ c.in["add"] = <<a, b>> /\ c.out["add"] = <<sum>>
      /\ c.in["print"] = <<sum>> /\ c.out["print"] = <<>>
  BY DEF AddAndPrint, Wrapped
<1>2. a[1] = "a" /\ b[1] = "b" /\ sum[1] = "sum"
  BY DEF Wire
<1> HIDE DEF c, a, b, sum
<1>3. ASSUME NEW i \in 1 .. 2, NEW o \in 1 .. 1, c.in["add"][i] # NULL, c.out["add"][o] # NULL
      PROVE  rank[c.in["add"][i]] < rank[c.out["add"][o]]
  <2> DEFINE u == c.in["add"][i]
  <2>1. c.out["add"][o] = sum /\ u \in {a, b}
    BY <1>1
  <2>2. sum \in WiresOf(c) /\ u \in WiresOf(c)
    BY <1>1, <1>3, <2>1 DEF WiresOf
  <2> HIDE DEF u
  <2>3. rank[u] = 0 /\ rank[sum] = 1
    BY <1>2, <2>1, <2>2
  <2>4. QED
    BY <2>1, <2>3 DEF u
<1>4. rank \in [WiresOf(c) -> Nat]
  OBVIOUS
<1> HIDE DEF rank
<1>5. Ranks(c, rank)
  <2>1. DOMAIN c.in["add"] = 1 .. 2 /\ DOMAIN c.out["add"] = 1 .. 1 /\ DOMAIN c.out["print"] = {}
    BY <1>1
  <2>2. QED
    BY <1>1, <1>3, <2>1 DEF Ranks
<1>6. HasNoLoop(c)
  BY <1>4, <1>5 DEF HasNoLoop
<1>7. QED
  BY <1>6 DEF c

LEMMA WireIs ==
  ASSUME NEW a, NEW b, NEW m, NEW n
  PROVE  Wire(a, m) = Wire(b, n) <=> a = b /\ m = n
BY DEF Wire

LEMMA NoWireIsNULL ==
  ASSUME NEW kind \in {"i", "x", "y", "o", "a", "b", "sum"}, NEW n \in Nat
  PROVE  Wire(kind, n) # NULL
BY WireAssumption DEF Wire

\* The networks are circuits as DataflowAssumption has them, whatever their size.
LEMMA NetworksAreCircuits ==
  ASSUME NEW creator \in Sorters, NEW elem \in Nat
  PROVE  CircuitType(Network(creator, elem))
<1> DEFINE c == Network(creator, elem)
           Rows == 0 .. elem - 1
           Gs == {p \in Rows \X Rows : p[2] <= p[1]}
           W == WiresOf(c)
           port == [q \in Gs \X (1 .. 4) |->
                      IF q[2] = 1 THEN Up(q[1][1], q[1][2])
                      ELSE IF q[2] = 2 THEN Left(q[1][1], q[1][2])
                      ELSE IF q[2] = 3 THEN Down(q[1][1], q[1][2], elem)
                      ELSE Right(q[1][1], q[1][2])]
           Q == {q \in DOMAIN port : port[q] \in W}
           wire == [q \in Q |-> port[q]]
<1>1. /\ DOMAIN c.kind = Gs /\ DOMAIN c.in = Gs /\ DOMAIN c.out = Gs
      /\ \A p \in Gs : /\ c.kind[p] = creator
                       /\ c.in[p] = <<Up(p[1], p[2]), Left(p[1], p[2])>>
                       /\ c.out[p] = <<Down(p[1], p[2], elem), Right(p[1], p[2])>>
      /\ DOMAIN c.given = 1 .. elem /\ \A k \in 1 .. elem : c.given[k] = Wire("i", k - 1)
      /\ c.in = [p \in Gs |-> c.in[p]] /\ c.out = [p \in Gs |-> c.out[p]]
  BY DEF Network
<1>2. IsFiniteSet(Gs)
  <2>1. IsFiniteSet(Rows)
    BY FS_Interval
  <2>2. IsFiniteSet(Rows \X Rows)
    BY <2>1, FS_Product
  <2>3. Gs \in SUBSET (Rows \X Rows)
    OBVIOUS
  <2>4. QED
    BY <2>2, <2>3, FS_Subset
<1>3. \A k \in 1 .. elem : <<k - 1, 0>> \in Gs
  OBVIOUS
<1> HIDE DEF c, Gs
<1>4. \A p \in Gs :
        /\ port[<<p, 1>>] = c.in[p][1] /\ port[<<p, 2>>] = c.in[p][2]
        /\ port[<<p, 3>>] = c.out[p][1] /\ port[<<p, 4>>] = c.out[p][2]
        /\ \A n \in 1 .. 4 : <<p, n>> \in DOMAIN port
  BY <1>1
<1>5. \A p \in Gs : DOMAIN c.in[p] = 1 .. 2 /\ DOMAIN c.out[p] = 1 .. 2
  BY <1>1
<1>6. \A w \in W : \E q \in DOMAIN port : port[q] = w
  <2>1. ASSUME NEW w \in W
        PROVE  \E p \in Gs : (\E n \in DOMAIN c.in[p] : w = c.in[p][n]) \/ \E n \in DOMAIN c.out[p] : w = c.out[p][n]
    BY <1>1 DEF WiresOf
  <2> HIDE DEF W, port
  <2>2. ASSUME NEW w \in W PROVE \E q \in DOMAIN port : port[q] = w
    <3>1. PICK p \in Gs : (\E n \in DOMAIN c.in[p] : w = c.in[p][n]) \/ \E n \in DOMAIN c.out[p] : w = c.out[p][n]
      BY <2>1
    <3>2. w \in {c.in[p][1], c.in[p][2], c.out[p][1], c.out[p][2]}
      BY <1>5, <3>1
    <3>3. \E n \in 1 .. 4 : port[<<p, n>>] = w
      BY <1>4, <3>2
    <3>4. QED
      BY <1>4, <3>3
  <2>3. QED
    BY <2>2
<1>7. IsFiniteSet(W)
  <2>1. IsFiniteSet(DOMAIN port)
    <3>1. IsFiniteSet(1 .. 4)
      <4> HIDE DEF W, port, Q, wire
      <4>1. 1 \in Int /\ 4 \in Int
        OBVIOUS
      <4>2. QED
        BY <4>1, FS_Interval
    <3>2. IsFiniteSet(Gs \X (1 .. 4))
      BY <1>2, <3>1, FS_Product
    <3>3. DOMAIN port = Gs \X (1 .. 4)
      OBVIOUS
    <3>4. QED
      BY <3>2, <3>3
  <2> HIDE DEF W, port
  <2>2. Q \in SUBSET DOMAIN port
    OBVIOUS
  <2>3. IsFiniteSet(Q)
    BY <2>1, <2>2, FS_Subset
  <2>4. wire \in [Q -> W] /\ \A w \in W : \E q \in Q : wire[q] = w
    BY <1>6
  <2> HIDE DEF Q, wire
  <2>5. wire \in Surjection(Q, W)
    BY <2>4, Fun_IsSurj
  <2>6. QED
    BY <2>3, <2>5, FS_Surjection
<1>8. ASSUME NEW p \in Gs
      PROVE  c.in[p] \in Seq(W \cup {NULL}) /\ c.out[p] \in Seq(W \cup {NULL})
  <2>1. /\ c.in[p][1] \in W \cup {NULL} /\ c.in[p][2] \in W \cup {NULL}
        /\ c.out[p][1] \in W \cup {NULL} /\ c.out[p][2] \in W \cup {NULL}
    <3>1. \A n \in 1 .. 2 : c.in[p][n] # NULL => c.in[p][n] \in W
      BY <1>1, <1>5 DEF WiresOf
    <3>2. \A n \in 1 .. 2 : c.out[p][n] # NULL => c.out[p][n] \in W
      BY <1>1, <1>5 DEF WiresOf
    <3> HIDE DEF W, port, Q, wire
    <3>3. QED
      BY <3>1, <3>2
  <2> HIDE DEF W, port, Q, wire
  <2> DEFINE X == W \cup {NULL}
  <2>2. c.in[p] = <<c.in[p][1], c.in[p][2]>>
    BY <1>1
  <2>3. c.out[p] = <<c.out[p][1], c.out[p][2]>>
    BY <1>1
  <2>4. /\ c.in[p][1] \in X /\ c.in[p][2] \in X
        /\ c.out[p][1] \in X /\ c.out[p][2] \in X
    BY <2>1
  <2> HIDE DEF X
  <2>5. \A x, y \in X : <<x, y>> \in Seq(X)
    OBVIOUS
  <2>6. c.in[p] \in Seq(X) /\ c.out[p] \in Seq(X)
    BY <2>2, <2>3, <2>4, <2>5
  <2>7. QED
    BY <2>6 DEF X
<1>9. ASSUME NEW k \in 1 .. elem PROVE c.given[k] \in W
  <2> DEFINE p == <<k - 1, 0>>
             w == Wire("i", k - 1)
  <2>1. p \in Gs /\ p[1] = k - 1 /\ p[2] = 0
    BY <1>3
  <2>2. c.in[p][2] = w /\ c.given[k] = w
    BY <1>1, <2>1 DEF Left
  <2>3. w # NULL
    <3>1. k - 1 \in Nat
      OBVIOUS
    <3>2. QED
      BY <3>1, NoWireIsNULL
  <2> HIDE DEF p, w
  <2>4. 2 \in DOMAIN c.in[p] /\ c.in[p] \in {c.in[g] : g \in DOMAIN c.in}
    BY <1>1, <1>5, <2>1
  <2>5. w \in WiresOf(c)
    BY <2>2, <2>3, <2>4 DEF WiresOf
  <2>6. QED
    BY <2>2, <2>5
<1> HIDE DEF W, port, Q, wire
<1>10. \A p \in Gs : Len(c.in[p]) = 2 /\ Len(c.out[p]) = 2 /\ c.kind[p] # "add"
  <2>1. \A p \in Gs : c.kind[p] = creator
    BY <1>1
  <2>2. creator # "add"
    BY DEF Sorters
  <2>3. ASSUME NEW p \in Gs PROVE Len(c.in[p]) = 2 /\ Len(c.out[p]) = 2
    <3>1. \A x, y : Len(<<x, y>>) = 2
      OBVIOUS
    <3>2. /\ c.in[p] = <<Up(p[1], p[2]), Left(p[1], p[2])>>
          /\ c.out[p] = <<Down(p[1], p[2], elem), Right(p[1], p[2])>>
      BY <1>1
    <3>3. QED
      BY <3>1, <3>2
  <2>4. QED
    BY <2>1, <2>2, <2>3
<1>11. c.in \in [Gs -> Seq(W \cup {NULL})] /\ c.out \in [Gs -> Seq(W \cup {NULL})]
  BY <1>1, <1>8
<1>12. CircuitType(c)
  BY <1>1, <1>7, <1>9, <1>10, <1>11 DEF CircuitType, W
<1>13. QED
  BY <1>12 DEF c

\* In the circuits of computerphile_sort.c and test_functional_wrap, a sorting
\* network of any size and of any implementation of its gates, every value on a wire
\* or in use is there, and none stays behind.
THEOREM NetworksKeepTheirValues ==
  ASSUME Circuits \subseteq {Network(creator, elem) : creator \in Sorters, elem \in Nat} \cup {AddAndPrint}
  PROVE  Spec => [](ReferencesAreHolders /\ NoFreedValueIsUsed)
<1>1. \A c \in Circuits : HasNoLoop(c)
  BY NetworksHaveNoLoop, AdderHasNoLoop
<1>2. Spec => []ReferencesAreHolders
  BY <1>1, EveryReferenceHasItsHolder
<1>3. Spec => []NoFreedValueIsUsed
  BY <1>1, BorrowedValuesStay
<1>4. QED
  BY <1>2, <1>3, PTL
-----------------------------------------------------------------------------
(* What a gate writes, in the numbers on its inputs.                        *)

There(wires, u) == u # NULL /\ wires[u] # NULL
NumOf(wires, val, u) == val[wires[u]].num

Least(a, b) == IF a < b THEN a ELSE b
Greatest(a, b) == IF a < b THEN b ELSE a

\* Of both numbers the least goes down and the other one right; one alone goes down.
SortMakes(wires, val, in, out, w, num) ==
  LET a == NumOf(wires, val, in[1])
      b == NumOf(wires, val, in[2])
  IN  /\ \A i \in 1 .. 2 : in[i] # NULL => There(wires, in[i])
      /\ \/ in[1] = NULL /\ in[2] # NULL /\ w = out[1] /\ num = b
         \/ in[1] # NULL /\ in[2] = NULL /\ w = out[1] /\ num = a
         \/ in[1] # NULL /\ in[2] # NULL /\ w = out[1] /\ num = Least(a, b)
         \/ in[1] # NULL /\ in[2] # NULL /\ w = out[2] /\ num = Greatest(a, b)

AddMakes(wires, val, in, out, w, num) ==
  /\ \A i \in 1 .. 2 : There(wires, in[i])
  /\ w = TryGet(out, 1) /\ num = NumOf(wires, val, in[1]) + NumOf(wires, val, in[2])

Makes(wires, val, g, w, num) ==
  /\ w \in OutWires(g)
  /\ \/ circuit.kind[g] \in Sorters /\ SortMakes(wires, val, circuit.in[g], circuit.out[g], w, num)
     \/ circuit.kind[g] = "add" /\ AddMakes(wires, val, circuit.in[g], circuit.out[g], w, num)

\* Gate g is up to date: it is still to be called, or each number it writes is on
\* the wire or about to be written.
Called(ops, g) == \E n \in DOMAIN ops : ops[n].op = "notify" /\ \E p \in ops[n].ports : p[1] = g

Has(wires, val, w, num) == wires[w] # NULL /\ NumOf(wires, val, w) = num

Writes(val, ops, n, w, num) == ops[n].op = "drive" /\ ops[n].wire = w /\ val[ops[n].value].num = num

Comes(val, ops, w, num) == \E n \in DOMAIN ops : Writes(val, ops, n, w, num)

UpToDate(wires, val, ops, g) ==
  \/ Called(ops, g)
  \/ \A w \in OutWires(g) : \A num \in Nat :
       Makes(wires, val, g, w, num) => Has(wires, val, w, num) \/ Comes(val, ops, w, num)

\* What is about to be written of gate g is what it would write now, as nothing before
\* it in ops is about a wire that leads to g.
Behind(ops, n, g) == \A m \in 1 .. n : \A u \in InWires(g) : ops[m].op # "unref" => Rank[u] < Rank[ops[m].wire]

IsFresh(wires, val, ops, n) ==
  \A g \in Gates :
    ops[n].op = "drive" /\ ops[n].wire \in OutWires(g) =>
      Makes(wires, val, g, ops[n].wire, val[ops[n].value].num) /\ Behind(ops, n, g)

Settling(wires, val, ops) ==
  /\ \A n \in DOMAIN ops : IsFresh(wires, val, ops, n)
  /\ \A g \in Gates : UpToDate(wires, val, ops, g)

SettlesInv == CallInv /\ (phase # "disabled" => Settling(wire_value, value, todo))

\* A wire is written by one output of one gate, or by the program.
OneWriter(c) ==
  /\ \A g, h \in DOMAIN c.kind : \A o \in DOMAIN c.out[g], q \in DOMAIN c.out[h] :
       c.out[g][o] # NULL /\ c.out[g][o] = c.out[h][q] => g = h /\ o = q
  /\ \A n \in DOMAIN c.given : \A g \in DOMAIN c.kind : \A o \in DOMAIN c.out[g] : c.given[n] # c.out[g][o]

LEMMA OneGate ==
  ASSUME OneWriter(circuit), NEW w
  PROVE  \A g, h \in Gates : w \in OutWires(g) /\ w \in OutWires(h) => g = h
<1>1. \A g, h \in Gates : \A o \in DOMAIN circuit.out[g], q \in DOMAIN circuit.out[h] :
        circuit.out[g][o] # NULL /\ circuit.out[g][o] = circuit.out[h][q] => g = h
  BY DEF OneWriter, Gates
<1>2. NULL \notin Wires
  BY DEF Wires, WiresOf
<1>3. QED
  BY <1>1, <1>2 DEF OutWires

\* One number goes to a wire.
LEMMA MakesOne ==
  ASSUME TypeOK, OneWriter(circuit), NEW wires, NEW val, NEW g \in Gates, NEW w, NEW m, NEW n,
         Makes(wires, val, g, w, m), Makes(wires, val, g, w, n)
  PROVE  m = n
<1> DEFINE in == circuit.in[g]
           out == circuit.out[g]
<1>1. w # NULL
  BY Typed DEF Makes, OutWires
<1>2. CASE circuit.kind[g] \in Sorters
  <2>1. DOMAIN out = 1 .. 2
    BY <1>2, Typed, Ports
  <2>2. out[1] # NULL => out[1] # out[2]
    BY <2>1 DEF OneWriter, Gates
  <2>3. circuit.kind[g] # "add"
    BY <1>2 DEF Sorters
  <2>4. SortMakes(wires, val, in, out, w, m) /\ SortMakes(wires, val, in, out, w, n)
    BY <1>2, <2>3 DEF Makes
  <2> HIDE DEF in, out
  <2>5. QED
    BY <1>1, <2>2, <2>4 DEF SortMakes
<1>3. CASE circuit.kind[g] = "add"
  BY <1>3 DEF Makes, AddMakes, Sorters
<1>4. QED
  BY <1>2, <1>3 DEF Makes

\* A gate that writes anything is called for each of its inputs.
LEMMA WriterIsCalled ==
  ASSUME TypeOK, NEW wires, NEW val, NEW g \in Gates, NEW w, NEW num, Makes(wires, val, g, w, num)
  PROVE  /\ DOMAIN circuit.in[g] = 1 .. 2
         /\ \A u \in InWires(g) : \E p \in Driven(u) : p[1] = g
<1>1. DOMAIN circuit.in[g] = 1 .. 2
  BY Typed, Ports DEF Makes
<1>2. ASSUME NEW u \in InWires(g) PROVE \E p \in Driven(u) : p[1] = g
  <2>1. PICK i \in 1 .. 2 : circuit.in[g][i] = u
    BY <1>1 DEF InWires
  <2>2. <<g, i>> \in Driven(u)
    BY <1>1, <2>1 DEF Driven
  <2>3. QED
    BY <2>2
<1>3. QED
  BY <1>1, <1>2

\* What it writes depends on the numbers on its inputs.
LEMMA MakesOfInputs ==
  ASSUME TypeOK, NEW wires, NEW val, NEW wires2, NEW val2, NEW g \in Gates,
         \A u \in InWires(g) :
           /\ There(wires, u) <=> There(wires2, u)
           /\ There(wires, u) => NumOf(wires, val, u) = NumOf(wires2, val2, u),
         NEW w, NEW num, Makes(wires, val, g, w, num)
  PROVE  Makes(wires2, val2, g, w, num)
<1> DEFINE in == circuit.in[g]
           out == circuit.out[g]
<1>1. DOMAIN in = 1 .. 2
  BY WriterIsCalled
<1>2. in[1] \in InWires(g) \cup {NULL} /\ in[2] \in InWires(g) \cup {NULL}
  BY <1>1, Ports
<1>3. \A i \in 1 .. 2 :
           /\ There(wires, in[i]) <=> There(wires2, in[i])
           /\ There(wires, in[i]) => NumOf(wires, val, in[i]) = NumOf(wires2, val2, in[i])
  <2>1. ~There(wires, NULL) /\ ~There(wires2, NULL)
    BY DEF There
  <2> HIDE DEF in
  <2>2. \A i \in 1 .. 2 : in[i] \in InWires(g) \cup {NULL}
    BY <1>2
  <2>3. QED
    BY <2>1, <2>2
<1> HIDE DEF in, out
<1>4. SortMakes(wires, val, in, out, w, num) => SortMakes(wires2, val2, in, out, w, num)
  <2>1. (in[1] # NULL => There(wires, in[1])) /\ (in[2] # NULL => There(wires, in[2])) =>
          /\ (in[1] # NULL => There(wires2, in[1])) /\ (in[2] # NULL => There(wires2, in[2]))
          /\ (in[1] # NULL => NumOf(wires, val, in[1]) = NumOf(wires2, val2, in[1]))
          /\ (in[2] # NULL => NumOf(wires, val, in[2]) = NumOf(wires2, val2, in[2]))
    BY <1>3
  <2>2. QED
    BY <2>1 DEF SortMakes
<1>5. AddMakes(wires, val, in, out, w, num) => AddMakes(wires2, val2, in, out, w, num)
  BY <1>3 DEF AddMakes
<1>6. QED
  BY <1>4, <1>5 DEF Makes, in, out

LEMMA UsedNext ==
  CallInv' => /\ NoFreedValueIsUsed'
              /\ (\A w \in DOMAIN wire_value : wire_value[w] # NULL => ~IsFree(wire_value[w]))'
<1>1. CallInv => /\ NoFreedValueIsUsed
                 /\ (\A w \in DOMAIN wire_value : wire_value[w] # NULL => ~IsFree(wire_value[w]))
  BY Used
<1>2. QED
  BY <1>1, PTL

\* A step of a call, with what it leaves: the first operation is replaced by new ones,
\* that are about no wire of a lower rank.
Stepped(new) ==
  /\ CallInv /\ CallInv' /\ todo # <<>> /\ circuit' = circuit
  /\ HasNoLoop(circuit) /\ OneWriter(circuit)
  /\ Settling(wire_value, value, todo)
  /\ new \in Seq(Ops) /\ todo' = new \o Tail(todo)
  /\ DOMAIN wire_value' = DOMAIN wire_value
  /\ \A u \in DOMAIN wire_value :
       wire_value'[u] = wire_value[u] \/ (Head(todo).op = "drive" /\ u = Head(todo).wire)
  /\ \A x \in Values : value[x] # NULL /\ value'[x] # NULL => value'[x].num = value[x].num
  /\ Head(todo).op = "unref" => new = <<>>
  /\ Head(todo).op # "unref" =>
       \A m \in DOMAIN new : new[m].op # "unref" => Rank[Head(todo).wire] <= Rank[new[m].wire]

LEMMA TailIs ==
  ASSUME NEW new, Stepped(new)
  PROVE  LET k == Len(new)
         IN  /\ k \in Nat /\ Len(todo) \in Nat \ {0} /\ Head(todo) = todo[1] /\ Head(todo) \in Ops
             /\ DOMAIN new = 1 .. k /\ DOMAIN todo = 1 .. Len(todo) /\ DOMAIN todo' = 1 .. k + Len(todo) - 1
             /\ \A n \in 1 .. k : todo'[n] = new[n]
             /\ \A n \in k + 1 .. k + Len(todo) - 1 : todo'[n] = todo[n - k + 1]
             /\ \A n \in 2 .. Len(todo) : n + k - 1 \in k + 1 .. k + Len(todo) - 1 /\ todo'[n + k - 1] = todo[n]
<1> DEFINE k == Len(new)
           t == Tail(todo)
<1>1. new \in Seq(Ops) /\ todo' = new \o t /\ todo \in Seq(Ops) /\ todo # <<>>
  BY DEF Stepped, CallInv, TypeOK
<1>2. /\ Head(todo) = todo[1] /\ Head(todo) \in Ops /\ Len(todo) \in Nat \ {0} /\ Len(t) = Len(todo) - 1
      /\ t \in Seq(Ops) /\ \A n \in 1 .. Len(todo) - 1 : t[n] = todo[n + 1]
  BY <1>1, HeadThenTail
<1> HIDE DEF t
<1>3. /\ k \in Nat /\ DOMAIN new = 1 .. k /\ DOMAIN todo = 1 .. Len(todo)
      /\ DOMAIN (new \o t) = 1 .. k + Len(t)
      /\ \A n \in 1 .. k : (new \o t)[n] = new[n]
      /\ \A n \in k + 1 .. k + Len(t) : (new \o t)[n] = t[n - k]
  BY <1>1, <1>2
<1> DEFINE next == todo'
           l == Len(todo)
<1>4. /\ DOMAIN next = 1 .. k + (l - 1)
      /\ \A n \in 1 .. k : next[n] = new[n]
      /\ \A n \in k + 1 .. k + (l - 1) : next[n] = t[n - k]
  BY <1>1, <1>2, <1>3
<1> HIDE DEF next, k
<1>5. l \in Nat \ {0}
  BY <1>2
<1> HIDE DEF l
<1>6. \A n \in 1 .. l - 1 : t[n] = todo[n + 1]
  BY <1>2 DEF l
<1>7. ASSUME NEW n \in k + 1 .. k + l - 1 PROVE next[n] = todo[n - k + 1]
  <2>1. n - k \in 1 .. l - 1 /\ n \in k + 1 .. k + (l - 1)
    BY <1>3, <1>5
  <2>2. QED
    BY <1>4, <1>6, <2>1
<1>8. ASSUME NEW n \in 2 .. l PROVE n + k - 1 \in k + 1 .. k + l - 1 /\ next[n + k - 1] = todo[n]
  <2>1. n + k - 1 \in k + 1 .. k + l - 1 /\ (n + k - 1) - k + 1 = n
    BY <1>3, <1>5
  <2>2. QED
    BY <1>7, <2>1
<1>9. k + (l - 1) = k + l - 1
  BY <1>3, <1>5
<1>10. QED
  BY <1>2, <1>3, <1>4, <1>7, <1>8, <1>9 DEF next, k, l

\* The numbers on the wires that are not written, and of the values still to be
\* written, stay.
LEMMA NumbersStay ==
  ASSUME NEW new, Stepped(new)
  PROVE  /\ \A u \in Wires : ~(Head(todo).op = "drive" /\ u = Head(todo).wire) =>
              /\ There(wire_value, u) <=> There(wire_value', u)
              /\ There(wire_value, u) => NumOf(wire_value', value', u) = NumOf(wire_value, value, u)
              /\ wire_value'[u] = wire_value[u]
         /\ \A n \in DOMAIN todo : todo[n].value \in Values
         /\ \A n \in DOMAIN todo : \A m \in DOMAIN todo' :
              todo[n].value = todo'[m].value => value'[todo'[m].value].num = value[todo[n].value].num
<1>1. CallInv /\ todo # <<>> /\ TypeOK
  BY DEF Stepped, CallInv
<1>2. /\ DOMAIN wire_value = Wires /\ DOMAIN wire_value' = Wires
      /\ \A u \in Wires : wire_value[u] \in Values \cup {NULL}
  BY <1>1, InCall DEF Stepped, TypeOK
<1>3. \A u \in Wires : wire_value[u] # NULL => value[wire_value[u]] # NULL
  BY <1>1, <1>2, Used DEF IsFree
<1>4. \A u \in Wires : wire_value'[u] # NULL => value'[wire_value'[u]] # NULL
  BY <1>2, UsedNext DEF IsFree, Stepped
<1>5. \A n \in DOMAIN todo : value[todo[n].value] # NULL
  BY <1>1, Used DEF NoFreedValueIsUsed, IsFree
<1>6. \A n \in DOMAIN todo' : value'[todo'[n].value] # NULL
  BY UsedNext DEF NoFreedValueIsUsed, IsFree, Stepped
<1>7. ASSUME NEW n \in DOMAIN todo PROVE todo[n].value \in Values
  <2>1. todo[n] \in Ops
    BY <1>1, ElementOfSeq DEF TypeOK
  <2>2. QED
    BY <1>1, <2>1, OpFacts
<1>8. \A x \in Values : value[x] # NULL /\ value'[x] # NULL => value'[x].num = value[x].num
  BY DEF Stepped
<1>9. ASSUME NEW u \in Wires, ~(Head(todo).op = "drive" /\ u = Head(todo).wire)
      PROVE  /\ There(wire_value, u) <=> There(wire_value', u)
             /\ There(wire_value, u) => NumOf(wire_value', value', u) = NumOf(wire_value, value, u)
             /\ wire_value'[u] = wire_value[u]
  <2>1. wire_value'[u] = wire_value[u]
    BY <1>2, <1>9 DEF Stepped
  <2>2. QED
    BY <1>2, <1>3, <1>4, <1>8, <2>1 DEF There, NumOf
<1>10. QED
  BY <1>5, <1>6, <1>7, <1>8, <1>9

\* What stays to be written is as fresh as it was.
LEMMA TailFresh ==
  ASSUME NEW new, Stepped(new), NEW n \in 2 .. Len(todo)
  PROVE  IsFresh(wire_value', value', todo', n + Len(new) - 1)
<1> DEFINE k == Len(new)
           i == n + k - 1
           o == todo[n]
           head == Head(todo)
<1>1. /\ k \in Nat /\ Len(todo) \in Nat \ {0} /\ head = todo[1] /\ head \in Ops /\ todo'[i] = o
      /\ i \in DOMAIN todo' /\ n \in DOMAIN todo /\ DOMAIN new = 1 .. k /\ 1 \in 1 .. n
      /\ \A m \in 1 .. k : todo'[m] = new[m]
      /\ \A m \in k + 1 .. i : todo'[m] = todo[m - k + 1] /\ m - k + 1 \in 2 .. n
  BY TailIs
<1>2. ASSUME NEW g \in Gates, o.op = "drive", o.wire \in OutWires(g)
      PROVE  Makes(wire_value', value', g, o.wire, value'[o.value].num) /\ Behind(todo', i, g)
  <2>1. Makes(wire_value, value, g, o.wire, value[o.value].num) /\ Behind(todo, n, g)
    BY <1>1, <1>2 DEF Stepped, Settling, IsFresh
  <2>2. \A m \in 1 .. n : \A u \in InWires(g) : todo[m].op # "unref" => Rank[u] < Rank[todo[m].wire]
    BY <2>1 DEF Behind
  <2>3. \A u \in InWires(g) : head.op # "unref" => Rank[u] < Rank[head.wire]
    BY <1>1, <2>2
  <2>4. TypeOK /\ Rank \in [Wires -> Nat]
    BY RankFacts DEF Stepped, CallInv
  <2>5. \A u \in InWires(g) : u \in Wires /\ ~(head.op = "drive" /\ u = head.wire)
    BY <2>3, <2>4, <1>1, OpFacts DEF InWires
  <2>6. value'[o.value].num = value[o.value].num
    BY <1>1, NumbersStay
  <2>7. Makes(wire_value', value', g, o.wire, value'[o.value].num)
    <3>1. \A u \in InWires(g) :
            /\ There(wire_value, u) <=> There(wire_value', u)
            /\ There(wire_value, u) => NumOf(wire_value, value, u) = NumOf(wire_value', value', u)
      BY <2>5, NumbersStay
    <3>2. QED
      BY <2>1, <2>4, <2>6, <3>1, MakesOfInputs
  <2>8. ASSUME NEW m \in 1 .. i, NEW u \in InWires(g), todo'[m].op # "unref"
        PROVE  Rank[u] < Rank[todo'[m].wire]
    <3>1. CASE m \in 1 .. k
      <4>1. todo'[m] = new[m] /\ new[m] \in Ops /\ new[m].op # "unref"
        BY <1>1, <2>8, <3>1, ElementOfSeq DEF Stepped
      <4>2. head.op # "unref"
        BY <1>1, <3>1 DEF Stepped
      <4>3. Rank[head.wire] <= Rank[new[m].wire]
        BY <1>1, <3>1, <4>1, <4>2 DEF Stepped
      <4>4. u \in Wires /\ head.wire \in Wires /\ new[m].wire \in Wires
        BY <1>1, <2>4, <4>1, <4>2, OpFacts DEF InWires
      <4>5. Rank[u] \in Nat /\ Rank[head.wire] \in Nat /\ Rank[new[m].wire] \in Nat
        BY <2>4, <4>4
      <4>6. Rank[u] < Rank[head.wire]
        BY <2>3, <4>2
      <4>7. QED
        BY <4>1, <4>3, <4>5, <4>6
    <3>2. CASE m \in k + 1 .. i
      <4>1. todo'[m] = todo[m - k + 1] /\ m - k + 1 \in 1 .. n
        BY <1>1, <3>2
      <4>2. QED
        BY <2>2, <2>8, <4>1
    <3>3. QED
      BY <1>1, <3>1, <3>2
  <2>9. QED
    BY <2>7, <2>8 DEF Behind
<1>3. QED
  BY <1>1, <1>2 DEF IsFresh

\* A gate that the step does not call or lead to is as up to date as it was.
LEMMA StaysUpToDate ==
  ASSUME NEW new, Stepped(new), NEW g \in Gates,
         ~(Head(todo).op = "drive" /\ Head(todo).wire \in InWires(g)),
         Head(todo).op = "notify" /\ (\E p \in Head(todo).ports : p[1] = g) => Called(new, g),
         Head(todo).op = "drive" => wire_value'[Head(todo).wire] = Head(todo).value
  PROVE  UpToDate(wire_value', value', todo', g)
<1> DEFINE k == Len(new)
           head == Head(todo)
<1>1. /\ k \in Nat /\ Len(todo) \in Nat \ {0} /\ head = todo[1] /\ head \in Ops
      /\ DOMAIN todo = 1 .. Len(todo) /\ DOMAIN new = 1 .. k
      /\ \A m \in 1 .. k : todo'[m] = new[m] /\ m \in DOMAIN todo'
      /\ \A m \in 2 .. Len(todo) : todo'[m + k - 1] = todo[m] /\ m + k - 1 \in DOMAIN todo'
  BY TailIs
<1>2. TypeOK /\ OneWriter(circuit) /\ UpToDate(wire_value, value, todo, g)
  BY DEF Stepped, CallInv, Settling
<1>3. CASE Called(todo, g)
  <2>1. PICK n \in DOMAIN todo : todo[n].op = "notify" /\ \E p \in todo[n].ports : p[1] = g
    BY <1>3 DEF Called
  <2>2. CASE n = 1
    <3>1. Called(new, g)
      BY <1>1, <2>1, <2>2
    <3>2. Called(todo', g)
      BY <1>1, <3>1 DEF Called
    <3>3. QED
      BY <3>2 DEF UpToDate
  <2>3. CASE n # 1
    <3>1. n \in 2 .. Len(todo)
      BY <1>1, <2>3
    <3>2. Called(todo', g)
      BY <1>1, <2>1, <3>1 DEF Called
    <3>3. QED
      BY <3>2 DEF UpToDate
  <2>4. QED
    BY <2>2, <2>3
<1>4. ASSUME ~Called(todo, g), NEW w \in OutWires(g), NEW num \in Nat, Makes(wire_value', value', g, w, num)
      PROVE  Has(wire_value', value', w, num) \/ Comes(value', todo', w, num)
  <2>1. \A u \in InWires(g) : u \in Wires /\ ~(head.op = "drive" /\ u = head.wire)
    BY DEF InWires
  <2>2. \A u \in InWires(g) :
          /\ There(wire_value', u) <=> There(wire_value, u)
          /\ There(wire_value', u) => NumOf(wire_value', value', u) = NumOf(wire_value, value, u)
    BY <2>1, NumbersStay
  <2>3. Makes(wire_value, value, g, w, num)
    BY <1>2, <1>4, <2>2, MakesOfInputs
  <2>4. w \in Wires /\ w # NULL
    BY <1>2, Typed DEF OutWires
  <2>5. CASE head.op = "drive" /\ w = head.wire
    <3>1. Makes(wire_value, value, g, head.wire, value[head.value].num)
      BY <1>1, <2>5 DEF Stepped, Settling, IsFresh
    <3>2. value[head.value].num = num
      BY <1>2, <2>3, <2>5, <3>1, MakesOne
    <3>3. head.value \in Values /\ head.value # NULL /\ wire_value'[w] = head.value
      BY <1>1, <1>2, <2>5, OpFacts, Typed
    <3>4. value[head.value] # NULL
      BY <1>1, Used DEF NoFreedValueIsUsed, IsFree, Stepped
    <3>5. w \in DOMAIN wire_value'
      BY <2>4, InCall DEF Stepped
    <3>6. value'[head.value] # NULL
      BY <3>3, <3>5, UsedNext DEF IsFree, Stepped
    <3>7. value'[head.value].num = num
      BY <3>2, <3>3, <3>4, <3>6 DEF Stepped
    <3>8. QED
      BY <3>3, <3>7 DEF Has, NumOf
  <2>6. CASE ~(head.op = "drive" /\ w = head.wire)
    <3>1. CASE Has(wire_value, value, w, num)
      <4>1. There(wire_value, w) /\ NumOf(wire_value, value, w) = num
        BY <2>4, <3>1 DEF Has, There
      <4>2. Has(wire_value', value', w, num)
        BY <2>4, <2>6, <4>1, NumbersStay DEF Has, There
      <4>3. QED
        BY <4>2
    <3>2. CASE Comes(value, todo, w, num)
      <4>1. PICK n \in DOMAIN todo : todo[n].op = "drive" /\ todo[n].wire = w /\ value[todo[n].value].num = num
        BY <3>2 DEF Comes, Writes
      <4>2. n \in 2 .. Len(todo)
        BY <1>1, <2>6, <4>1
      <4> DEFINE m == n + k - 1
      <4>3. todo'[m] = todo[n] /\ m \in DOMAIN todo'
        BY <1>1, <4>2
      <4>4. value'[todo'[m].value].num = num
        BY <4>1, <4>3, NumbersStay
      <4> HIDE DEF m
      <4>5. Comes(value', todo', w, num)
        BY <4>1, <4>3, <4>4 DEF Comes, Writes
      <4>6. QED
        BY <4>5
    <3>3. QED
      BY <1>2, <1>4, <2>3, <3>1, <3>2 DEF UpToDate
  <2>7. QED
    BY <2>5, <2>6
<1>5. QED
  BY <1>3, <1>4 DEF UpToDate

\* So a step settles if what is new is fresh, and the gates the step calls or leads to
\* are up to date.
LEMMA StepSettles ==
  ASSUME NEW new, Stepped(new), \A n \in DOMAIN new : IsFresh(wire_value', value', new, n),
         Head(todo).op = "drive" => wire_value'[Head(todo).wire] = Head(todo).value,
         \A g \in Gates :
           \/ UpToDate(wire_value', value', todo', g)
           \/ /\ ~(Head(todo).op = "drive" /\ Head(todo).wire \in InWires(g))
              /\ Head(todo).op = "notify" /\ (\E p \in Head(todo).ports : p[1] = g) => Called(new, g)
  PROVE  Settling(wire_value', value', todo')
<1> DEFINE k == Len(new)
<1>1. /\ k \in Nat /\ Len(todo) \in Nat \ {0} /\ DOMAIN new = 1 .. k
      /\ DOMAIN todo' = 1 .. k + Len(todo) - 1
      /\ \A n \in 1 .. k : todo'[n] = new[n]
  BY TailIs
<1>2. ASSUME NEW n \in 1 .. k PROVE IsFresh(wire_value', value', todo', n)
  <2>1. IsFresh(wire_value', value', new, n) /\ todo'[n] = new[n]
    BY <1>1
  <2>2. \A m \in 1 .. n : todo'[m] = new[m]
    BY <1>1
  <2>3. \A g : Behind(new, n, g) => Behind(todo', n, g)
    BY <2>2 DEF Behind
  <2>4. QED
    BY <2>1, <2>3 DEF IsFresh
<1>3. ASSUME NEW n \in k + 1 .. k + Len(todo) - 1 PROVE IsFresh(wire_value', value', todo', n)
  <2> DEFINE m == n - k + 1
  <2>1. m \in 2 .. Len(todo) /\ m + k - 1 = n
    BY <1>1
  <2> HIDE DEF m
  <2>2. QED
    BY <2>1, TailFresh
<1>4. \A n \in DOMAIN todo' : n \in 1 .. k \/ n \in k + 1 .. k + Len(todo) - 1
  BY <1>1
<1>5. \A g \in Gates : UpToDate(wire_value', value', todo', g)
  BY StaysUpToDate
<1>6. QED
  BY <1>2, <1>3, <1>4, <1>5 DEF Settling
-----------------------------------------------------------------------------
(* What a gate does when it is called is what it makes.                     *)

Elements(s) == {s[n] : n \in DOMAIN s}

LEMMA ElementsAdd ==
  ASSUME NEW S, NEW s \in Seq(S), NEW t \in Seq(S)
  PROVE  Elements(s \o t) = Elements(s) \cup Elements(t)
<1> DEFINE k == Len(s)
           l == Len(t)
           r == s \o t
<1>1. /\ k \in Nat /\ l \in Nat /\ DOMAIN s = 1 .. k /\ DOMAIN t = 1 .. l /\ DOMAIN r = 1 .. k + l
      /\ \A n \in 1 .. k : r[n] = s[n]
      /\ \A n \in k + 1 .. k + l : r[n] = t[n - k]
  OBVIOUS
<1> HIDE DEF k, l, r
<1>2. \A n \in 1 .. l : n + k \in k + 1 .. k + l /\ r[n + k] = t[n]
  <2>1. \A n \in 1 .. l : n + k \in k + 1 .. k + l /\ n + k - k = n
    BY <1>1
  <2>2. QED
    BY <1>1, <2>1
<1>3. \A n \in 1 .. k + l : n \in 1 .. k \/ (n \in k + 1 .. k + l /\ n - k \in 1 .. l)
  BY <1>1
<1>4. \A n \in 1 .. k : n \in 1 .. k + l
  BY <1>1
<1>5. \A n \in k + 1 .. k + l : n \in 1 .. k + l
  BY <1>1
<1>6. ASSUME NEW x \in Elements(r) PROVE x \in Elements(s) \cup Elements(t)
  <2>1. PICK n \in 1 .. k + l : x = r[n]
    BY <1>1 DEF Elements
  <2>2. QED
    BY <1>1, <1>3, <2>1 DEF Elements
<1>7. ASSUME NEW x \in Elements(s) PROVE x \in Elements(r)
  <2>1. PICK n \in 1 .. k : x = s[n]
    BY <1>1 DEF Elements
  <2>2. QED
    BY <1>1, <1>4, <2>1 DEF Elements
<1>8. ASSUME NEW x \in Elements(t) PROVE x \in Elements(r)
  <2>1. PICK n \in 1 .. l : x = t[n]
    BY <1>1 DEF Elements
  <2>2. QED
    BY <1>1, <1>2, <1>5, <2>1 DEF Elements
<1>9. QED
  BY <1>6, <1>7, <1>8 DEF r

LEMMA DriveOpsAre ==
  ASSUME NEW w, NEW v, v # NULL
  PROVE  /\ Elements(DriveOps(w, v)) = IF w = NULL THEN {} ELSE {DriveOp(w, v)}
         /\ DriveOps(w, v) \in Seq({DriveOp(w, v)})
<1>1. Elements(<<>>) = {} /\ Elements(<<DriveOp(w, v)>>) = {DriveOp(w, v)}
  <2> DEFINE o == DriveOp(w, v)
  <2> HIDE DEF o
  <2>1. DOMAIN <<o>> = {1} /\ <<o>>[1] = o /\ DOMAIN <<>> = {}
    OBVIOUS
  <2>2. Elements(<<>>) = {} /\ Elements(<<o>>) = {o}
    BY <2>1 DEF Elements
  <2>3. QED
    BY <2>2 DEF o
<1>2. <<>> \in Seq({DriveOp(w, v)}) /\ <<DriveOp(w, v)>> \in Seq({DriveOp(w, v)})
  OBVIOUS
<1>3. QED
  BY <1>1, <1>2 DEF DriveOps

LEMMA BothDriveOps ==
  ASSUME NEW w, NEW v, v # NULL, NEW x, NEW y, y # NULL
  PROVE  Elements(DriveOps(w, v) \o DriveOps(x, y)) =
           (IF w = NULL THEN {} ELSE {DriveOp(w, v)}) \cup (IF x = NULL THEN {} ELSE {DriveOp(x, y)})
<1> DEFINE S == {DriveOp(w, v), DriveOp(x, y)}
           s == DriveOps(w, v)
           t == DriveOps(x, y)
<1>1. s \in Seq({DriveOp(w, v)}) /\ t \in Seq({DriveOp(x, y)})
  BY DriveOpsAre
<1>2. {DriveOp(w, v)} \subseteq S /\ {DriveOp(x, y)} \subseteq S
  OBVIOUS
<1> HIDE DEF s, t, S
<1>3. s \in Seq(S) /\ t \in Seq(S)
  BY <1>1, <1>2
<1>4. Elements(s \o t) = Elements(s) \cup Elements(t)
  BY <1>3, ElementsAdd
<1>5. QED
  BY <1>4, DriveOpsAre DEF s, t

\* The writes of a sorter box.
LEMMA SortDoes ==
  ASSUME NEW in, NEW out, NULL \notin Values
  PROVE  LET ops == Sort(in[1], in[2], out[1], out[2])
         IN  /\ \A o \in Elements(ops) :
                  /\ o.op = "drive"
                  /\ SortMakes(wire_value, value, in, out, o.wire, value[o.value].num)
             /\ \A w, num : w # NULL /\ SortMakes(wire_value, value, in, out, w, num) =>
                  \E o \in Elements(ops) : o.op = "drive" /\ o.wire = w /\ value[o.value].num = num
<1> DEFINE a == ValueOn(in[1])
           b == ValueOn(in[2])
           A == NumOf(wire_value, value, in[1])
           B == NumOf(wire_value, value, in[2])
           ops == Sort(in[1], in[2], out[1], out[2])
           down == out[1]
           right == out[2]
<1>0. \A w, v : DriveOp(w, v).op = "drive" /\ DriveOp(w, v).wire = w /\ DriveOp(w, v).value = v
  BY DEF DriveOp
<1>1. /\ \A i \in 1 .. 2 : There(wire_value, in[i]) <=> ValueOn(in[i]) # NULL
      /\ in[1] # NULL => A = value[a].num
      /\ in[2] # NULL => B = value[b].num
      /\ in[1] = NULL => a = NULL
      /\ in[2] = NULL => b = NULL
  BY DEF There, ValueOn, NumOf
<1>2. Missing(in[1], in[2]) <=>
        \/ in[1] # NULL /\ a = NULL
        \/ in[2] # NULL /\ b = NULL
        \/ in[1] = NULL /\ in[2] = NULL
  BY DEF Missing, NothingThere, ValueOn
<1>3. Elements(<<>>) = {}
  BY DEF Elements
<1>4. ops = IF Missing(in[1], in[2]) THEN <<>>
            ELSE IF a = NULL \/ b = NULL THEN DriveOps(down, IF a # NULL THEN a ELSE b)
            ELSE IF Smaller(a, b) THEN DriveOps(down, a) \o DriveOps(right, b)
            ELSE DriveOps(down, b) \o DriveOps(right, a)
  BY DEF Sort
<1>5. \A w, num :
        SortMakes(wire_value, value, in, out, w, num) <=>
          /\ (in[1] # NULL => a # NULL) /\ (in[2] # NULL => b # NULL)
          /\ \/ in[1] = NULL /\ in[2] # NULL /\ w = down /\ num = B
             \/ in[1] # NULL /\ in[2] = NULL /\ w = down /\ num = A
             \/ in[1] # NULL /\ in[2] # NULL /\ w = down /\ num = Least(A, B)
             \/ in[1] # NULL /\ in[2] # NULL /\ w = right /\ num = Greatest(A, B)
  <2>1. (\A i \in 1 .. 2 : in[i] # NULL => There(wire_value, in[i])) <=>
          (in[1] # NULL => a # NULL) /\ (in[2] # NULL => b # NULL)
    BY <1>1
  <2>2. QED
    BY <2>1 DEF SortMakes
<1> DEFINE M(w, num) == SortMakes(wire_value, value, in, out, w, num)
<1> HIDE DEF a, b, A, B, ops, down, right, M
<1>6. CASE Missing(in[1], in[2])
  <2>1. Elements(ops) = {} /\ \A w, num : ~M(w, num)
    BY <1>2, <1>3, <1>4, <1>5, <1>6 DEF M
  <2>2. QED
    BY <2>1 DEF M, ops
<1>7. CASE ~Missing(in[1], in[2]) /\ (a = NULL \/ b = NULL)
  <2> DEFINE one == IF a # NULL THEN a ELSE b
  <2>1. one # NULL /\ ops = DriveOps(down, one)
    BY <1>1, <1>2, <1>4, <1>7
  <2>2. \A w, num : M(w, num) <=> w = down /\ num = value[one].num
    BY <1>1, <1>2, <1>5, <1>7 DEF M
  <2> HIDE DEF one
  <2>3. Elements(ops) = IF down = NULL THEN {} ELSE {DriveOp(down, one)}
    BY <2>1, DriveOpsAre
  <2>4. QED
    BY <1>0, <2>2, <2>3 DEF M, ops
<1>8. ASSUME NEW x, NEW y, x # NULL, y # NULL, ops = DriveOps(down, x) \o DriveOps(right, y),
             \A w, num : M(w, num) <=> (w = down /\ num = value[x].num) \/ (w = right /\ num = value[y].num)
      PROVE  /\ \A o \in Elements(ops) : o.op = "drive" /\ M(o.wire, value[o.value].num)
             /\ \A w, num : w # NULL /\ M(w, num) =>
                  \E o \in Elements(ops) : o.op = "drive" /\ o.wire = w /\ value[o.value].num = num
  <2>1. Elements(ops) = (IF down = NULL THEN {} ELSE {DriveOp(down, x)})
                          \cup (IF right = NULL THEN {} ELSE {DriveOp(right, y)})
    BY <1>8, BothDriveOps
  <2>2. QED
    BY <1>0, <1>8, <2>1
<1>9. CASE ~Missing(in[1], in[2]) /\ a # NULL /\ b # NULL
  <2>1. in[1] # NULL /\ in[2] # NULL /\ A = value[a].num /\ B = value[b].num
    BY <1>1, <1>9
  <2>2. \A w, num : M(w, num) <=> (w = down /\ num = Least(A, B)) \/ (w = right /\ num = Greatest(A, B))
    BY <1>5, <1>9, <2>1 DEF M
  <2>3. CASE Smaller(a, b)
    <3>1. Least(A, B) = value[a].num /\ Greatest(A, B) = value[b].num
      BY <2>1, <2>3 DEF Smaller, Least, Greatest
    <3>2. ops = DriveOps(down, a) \o DriveOps(right, b)
      BY <1>4, <1>9, <2>3
    <3>3. QED
      BY <1>8, <1>9, <2>2, <3>1, <3>2 DEF M, ops
  <2>4. CASE ~Smaller(a, b)
    <3>1. Least(A, B) = value[b].num /\ Greatest(A, B) = value[a].num
      BY <2>1, <2>4 DEF Smaller, Least, Greatest
    <3>2. ops = DriveOps(down, b) \o DriveOps(right, a)
      BY <1>4, <1>9, <2>4
    <3>3. QED
      BY <1>8, <1>9, <2>2, <3>1, <3>2 DEF M, ops
  <2>5. QED
    BY <2>3, <2>4
<1>10. QED
  BY <1>6, <1>7, <1>9

\* What gate g does, in ops, when val is what is in memory then.
Does(val, g, ops) ==
  /\ \A n \in DOMAIN ops :
       /\ ops[n].op \in {"drive", "unref"}
       /\ ops[n].op = "drive" => Makes(wire_value, val, g, ops[n].wire, val[ops[n].value].num)
  /\ \A w \in OutWires(g) : \A num \in Nat : Makes(wire_value, val, g, w, num) => Comes(val, ops, w, num)

LEMMA SorterDoes ==
  ASSUME TypeOK, NEW g \in Gates, phase = "enabled", circuit.kind[g] \in Sorters,
         NEW ops, ops \in {PortiSorter(g), PortbSorter(g), SpecSorter(g)}
  PROVE  ops \in Seq(Passes(g)) /\ Does(value, g, ops)
<1> DEFINE in == circuit.in[g]
           out == circuit.out[g]
<1>1. DOMAIN in = 1 .. 2 /\ DOMAIN out = 1 .. 2 /\ NULL \notin Values /\ NULL \notin Wires
  BY Typed, Ports
<1>2. TryGet(in, 1) = in[1] /\ TryGet(in, 2) = in[2] /\ TryGet(out, 1) = out[1] /\ TryGet(out, 2) = out[2]
  BY <1>1 DEF TryGet
<1>3. ops = Sort(in[1], in[2], out[1], out[2]) /\ ops \in Seq(Passes(g))
  BY <1>2, SortersPass DEF PortiSorter, PortbSorter, SpecSorter
<1>4. \A n \in DOMAIN ops : ops[n] \in Elements(ops) /\ ops[n] \in Passes(g)
  BY <1>3, ElementOfSeq DEF Elements
<1> HIDE DEF in, out
<1>5. /\ \A o \in Elements(ops) :
           /\ o.op = "drive"
           /\ SortMakes(wire_value, value, in, out, o.wire, value[o.value].num)
      /\ \A w, num : w # NULL /\ SortMakes(wire_value, value, in, out, w, num) =>
           \E o \in Elements(ops) : o.op = "drive" /\ o.wire = w /\ value[o.value].num = num
  BY <1>1, <1>3, SortDoes
<1>6. ASSUME NEW n \in DOMAIN ops
      PROVE  ops[n].op = "drive" /\ Makes(wire_value, value, g, ops[n].wire, value[ops[n].value].num)
  <2>1. ops[n].wire \in OutWires(g)
    BY <1>4 DEF Passes
  <2>2. QED
    BY <1>4, <1>5, <2>1 DEF Makes, in, out
<1>7. ASSUME NEW w \in OutWires(g), NEW num \in Nat, Makes(wire_value, value, g, w, num)
      PROVE  Comes(value, ops, w, num)
  <2>1. SortMakes(wire_value, value, in, out, w, num) /\ w # NULL
    BY <1>1, <1>7 DEF Makes, Sorters, OutWires, in, out
  <2>2. PICK o \in Elements(ops) : o.op = "drive" /\ o.wire = w /\ value[o.value].num = num
    BY <1>5, <2>1
  <2>3. PICK n \in DOMAIN ops : ops[n] = o
    BY DEF Elements
  <2>4. QED
    BY <2>2, <2>3 DEF Comes, Writes
<1>8. QED
  BY <1>3, <1>6, <1>7 DEF Does

\* A value that is created leaves the numbers on wires.
LEMMA CreatedNumbers ==
  ASSUME CallInv, phase # "disabled", NEW v \in Values, IsFree(v), NEW num \in Nat
  PROVE  /\ Created(v, num)[v].num = num
         /\ \A x \in Values : x # v => Created(v, num)[x] = value[x]
         /\ \A u \in Wires : There(wire_value, u) => NumOf(wire_value, Created(v, num), u) = NumOf(wire_value, value, u)
<1> DEFINE c == [num |-> num, refs |-> 1]
<1>1. Created(v, num) = [value EXCEPT ![v] = c] /\ value \in [Values -> Cell] /\ c.num = num
  BY DEF Created, CallInv, TypeOK
<1> HIDE DEF c
<1>2. Created(v, num)[v].num = num /\ \A x \in Values : x # v => Created(v, num)[x] = value[x]
  BY <1>1
<1>3. ASSUME NEW u \in Wires, There(wire_value, u)
      PROVE  NumOf(wire_value, Created(v, num), u) = NumOf(wire_value, value, u)
  <2>1. u \in DOMAIN wire_value /\ wire_value[u] \in Values /\ wire_value[u] # NULL
    BY <1>3 DEF CallInv, TypeOK, There
  <2>2. wire_value[u] # v
    BY <2>1, Used DEF IsFree
  <2>3. QED
    BY <1>2, <2>1, <2>2 DEF NumOf
<1>4. QED
  BY <1>2, <1>3

LEMMA AddDoes ==
  ASSUME CallInv, phase = "enabled", NEW g \in Gates, circuit.kind[g] = "add", Complete(g),
         NEW v \in Values, IsFree(v), Add(g) \in Nat
  PROVE  Does(Created(v, Add(g)), g, ResultOps(g, v))
<1> DEFINE in == circuit.in[g]
           out == circuit.out[g]
           w == TryGet(out, 1)
           val == Created(v, Add(g))
           ops == ResultOps(g, v)
<1>1. DOMAIN in = 1 .. 2 /\ v # NULL /\ NULL \notin Wires /\ w \in OutWires(g) \cup {NULL}
  BY Typed, Ports DEF CallInv, TryGet
<1>2. \A i \in 1 .. 2 : There(wire_value, in[i]) /\ in[i] \in Wires
  <2>1. \A i \in 1 .. 2 : ValueOn(in[i]) # NULL
    BY <1>1 DEF Complete
  <2>2. \A i \in 1 .. 2 : There(wire_value, in[i])
    BY <2>1 DEF There, ValueOn
  <2>3. \A i \in 1 .. 2 : in[i] \in InWires(g) \cup {NULL}
    BY <1>1, Ports DEF CallInv
  <2>4. QED
    BY <2>2, <2>3 DEF There, InWires
<1>3. Add(g) = NumOf(wire_value, value, in[1]) + NumOf(wire_value, value, in[2])
  <2>1. ValueOn(in[1]) = wire_value[in[1]] /\ ValueOn(in[2]) = wire_value[in[2]]
    BY <1>2 DEF ValueOn, There
  <2>2. QED
    BY <2>1 DEF Add, NumOf
<1>4. /\ NumOf(wire_value, val, in[1]) = NumOf(wire_value, value, in[1])
      /\ NumOf(wire_value, val, in[2]) = NumOf(wire_value, value, in[2])
      /\ val[v].num = Add(g)
  BY <1>2, CreatedNumbers
<1> HIDE DEF val, in
<1>5. \A x \in OutWires(g) : \A num : Makes(wire_value, val, g, x, num) <=> x = w /\ num = Add(g)
  <2>1. \A x, num : AddMakes(wire_value, val, in, out, x, num) <=> x = w /\ num = Add(g)
    BY <1>2, <1>3, <1>4 DEF AddMakes
  <2>2. circuit.kind[g] \notin Sorters
    BY DEF Sorters
  <2> HIDE DEF w, out
  <2>3. QED
    BY <2>1, <2>2 DEF Makes, in, out
<1>6. CASE w = NULL
  <2>1. ops = <<UnrefOp(v)>>
    BY <1>6 DEF ResultOps, DriveOps
  <2>2. DOMAIN ops = {1} /\ ops[1].op = "unref"
    BY <2>1 DEF UnrefOp
  <2>3. \A x \in OutWires(g) : \A num : ~Makes(wire_value, val, g, x, num)
    BY <1>1, <1>5, <1>6 DEF OutWires
  <2> HIDE DEF ops
  <2>4. QED
    BY <2>2, <2>3 DEF Does, ops, val
<1>7. CASE w # NULL
  <2>1. DriveOps(w, v) = <<DriveOp(w, v)>>
    BY <1>1, <1>7 DEF DriveOps
  <2>2. ops = <<DriveOp(w, v)>> \o <<UnrefOp(v)>>
    BY <2>1 DEF ResultOps
  <2> HIDE DEF w
  <2>3. ops = <<DriveOp(w, v), UnrefOp(v)>>
    BY <2>2, Pair
  <2>4. /\ DOMAIN ops = {1, 2} /\ ops[1].op = "drive" /\ ops[1].wire = w /\ ops[1].value = v
        /\ ops[2].op = "unref"
    <3>1. Len(ops) = 2 /\ ops[1] = DriveOp(w, v) /\ ops[2] = UnrefOp(v)
      BY <2>3
    <3>2. DOMAIN ops = 1 .. 2
      BY <2>3
    <3>3. 1 .. 2 = {1, 2}
      OBVIOUS
    <3>4. QED
      BY <3>1, <3>2, <3>3 DEF DriveOp, UnrefOp
  <2> HIDE DEF ops
  <2>5. w \in OutWires(g)
    BY <1>1, <1>7
  <2>6. Makes(wire_value, val, g, w, val[v].num)
    BY <1>4, <1>5, <2>5
  <2>7. \A x \in OutWires(g) : \A num \in Nat : Makes(wire_value, val, g, x, num) => Writes(val, ops, 1, x, num)
    BY <1>4, <1>5, <2>4 DEF Writes
  <2>8. QED
    BY <2>4, <2>6, <2>7 DEF Does, Comes, val, ops
<1>8. QED
  BY <1>6, <1>7

\* The gate executes: what it has to do comes first.
LEMMA GateDoes ==
  ASSUME CallInv, HasNoLoop(circuit), todo # <<>>, NEW g \in Gates, NEW rest \in Seq(Ops), Execute(g, rest)
  PROVE  /\ \E ops \in Seq(Ops) :
              /\ todo' = ops \o rest /\ AllKept(wire_value, ops) /\ Does(value', g, ops)
              /\ \A m \in DOMAIN ops : ops[m].op # "unref" => ops[m].wire \in OutWires(g)
         /\ \A x \in Values : value[x] # NULL /\ value'[x] # NULL => value'[x].num = value[x].num
<1>1. phase = "enabled" /\ TypeOK
  BY InCall DEF CallInv
<1>2. CASE circuit.kind[g] = "add" /\ Complete(g)
  <2>1. PICK v \in Values : IsFree(v) /\ value' = Created(v, Add(g)) /\ todo' = ResultOps(g, v) \o rest
    BY <1>2 DEF Execute
  <2>2. Add(g) \in Nat
    BY <1>2, AddIs
  <2>3. Does(value', g, ResultOps(g, v))
    BY <1>1, <1>2, <2>1, <2>2, AddDoes
  <2>4. /\ ResultOps(g, v) \in Seq(Ops) /\ AllKept(wire_value, ResultOps(g, v))
        /\ \A m \in DOMAIN ResultOps(g, v) : ResultOps(g, v)[m].op # "unref" => ResultOps(g, v)[m].wire \in OutWires(g)
    BY ResultKept
  <2>5. \A x \in Values : value[x] # NULL => value'[x] = value[x]
    BY <1>1, <2>1, <2>2, CreatedNumbers DEF IsFree
  <2>6. QED
    BY <2>1, <2>3, <2>4, <2>5
<1>3. CASE circuit.kind[g] \in Sorters
  <2>1. PICK ops \in {PortiSorter(g), PortbSorter(g), SpecSorter(g)} : todo' = ops \o rest /\ value' = value
    BY <1>3 DEF Execute, Sorters
  <2>2. ops \in Seq(Passes(g)) /\ Does(value, g, ops)
    BY <1>1, <1>3, SorterDoes
  <2>3. /\ ops \in Seq(Ops) /\ AllKept(wire_value, ops)
        /\ \A m \in DOMAIN ops : ops[m].op = "drive" /\ ops[m].wire \in OutWires(g)
    BY <2>2, PassesKept
  <2>4. QED
    BY <2>1, <2>2, <2>3
<1>4. CASE ~(circuit.kind[g] = "add" /\ Complete(g)) /\ circuit.kind[g] \notin Sorters
  <2> DEFINE ops == <<>>
  <2>1. todo' = rest /\ value' = value
    BY <1>4 DEF Execute, Sorters
  <2>2. ops \in Seq(Ops) /\ rest = ops \o rest /\ DOMAIN ops = {}
    OBVIOUS
  <2> HIDE DEF ops
  <2>3. \A w, num : ~Makes(wire_value, value, g, w, num)
    <3>1. ASSUME circuit.kind[g] = "add" PROVE \A w, num : ~AddMakes(wire_value, value, circuit.in[g], circuit.out[g], w, num)
      <4>1. DOMAIN circuit.in[g] = 1 .. 2
        BY <1>1, <3>1, Typed, Ports
      <4>2. PICK n \in 1 .. 2 : ValueOn(circuit.in[g][n]) = NULL
        BY <1>4, <3>1, <4>1 DEF Complete
      <4>3. ~There(wire_value, circuit.in[g][n])
        BY <4>2 DEF There, ValueOn
      <4>4. QED
        BY <4>3 DEF AddMakes
    <3>2. QED
      BY <1>4, <3>1 DEF Makes
  <2>4. AllKept(wire_value, ops) /\ Does(value', g, ops)
    BY <2>1, <2>2, <2>3 DEF AllKept, Does
  <2>5. QED
    BY <2>1, <2>2, <2>4
<1>5. QED
  BY <1>2, <1>3, <1>4
-----------------------------------------------------------------------------
(* The steps of a call settle.                                              *)

LEMMA SettlingNext ==
  ASSUME circuit' = circuit, Settling(wire_value', value', todo')
  PROVE  Settling(wire_value, value, todo)'
<1>1. /\ Gates' = Gates /\ Rank' = Rank
      /\ \A g : OutWires(g)' = OutWires(g) /\ InWires(g)' = InWires(g)
  BY DEF Gates, OutWires, InWires, Wires, Rank
<1>2. ASSUME NEW g, NEW w, NEW num
      PROVE  Makes(wire_value, value, g, w, num)' <=> Makes(wire_value', value', g, w, num)
  BY DEF Makes, AddMakes, SortMakes, NumOf, There, OutWires, Wires
<1>3. ASSUME NEW g, NEW n
      PROVE  Behind(todo, n, g)' <=> Behind(todo', n, g)
  BY <1>1 DEF Behind
<1>4. ASSUME NEW g, NEW w, NEW num, NEW n \in DOMAIN todo', w = todo'[n].wire, num = value'[todo'[n].value].num
      PROVE  Makes(wire_value, value, g, todo[n].wire, value[todo[n].value].num)' <=> Makes(wire_value', value', g, w, num)
  BY <1>4 DEF Makes, AddMakes, SortMakes, NumOf, There, OutWires, Wires
<1>5. ASSUME NEW n \in DOMAIN todo' PROVE IsFresh(wire_value, value, todo, n)'
  <2>1. IsFresh(wire_value', value', todo', n)
    BY DEF Settling
  <2>2. ASSUME NEW g \in Gates, todo'[n].op = "drive", todo'[n].wire \in OutWires(g)
        PROVE  Makes(wire_value, value, g, todo[n].wire, value[todo[n].value].num)' /\ Behind(todo, n, g)'
    BY <1>3, <1>4, <2>1, <2>2 DEF IsFresh
  <2>3. QED
    BY <1>1, <2>2 DEF IsFresh
<1>6. ASSUME NEW g \in Gates PROVE UpToDate(wire_value, value, todo, g)'
  <2>1. UpToDate(wire_value', value', todo', g)
    BY DEF Settling
  <2>2. Called(todo, g)' <=> Called(todo', g)
    BY DEF Called
  <2>3. \A w, num : /\ Has(wire_value, value, w, num)' <=> Has(wire_value', value', w, num)
                    /\ Comes(value, todo, w, num)' <=> Comes(value', todo', w, num)
    BY DEF Has, NumOf, Comes, Writes
  <2>4. QED
    BY <1>1, <1>2, <2>1, <2>2, <2>3 DEF UpToDate
<1>7. QED
  BY <1>1, <1>5, <1>6 DEF Settling


\* References that come and go leave a value's number.
LEMMA ReferNumbers ==
  ASSUME NEW val \in [Values -> Cell], NEW v \in Values
  PROVE  /\ \A x \in Values : x # v => Refer(val, v)[x] = val[x]
         /\ val[v] # NULL => Refer(val, v)[v].num = val[v].num
<1> DEFINE c == [val[v] EXCEPT !.refs = @ + 1]
<1>1. Refer(val, v) = [val EXCEPT ![v] = c]
  BY DEF Refer
<1>2. val[v] # NULL => c.num = val[v].num
  <2>1. val[v] # NULL => val[v] \in [num : Nat, refs : Nat \ {0}]
    BY CellFacts
  <2>2. QED
    BY <2>1
<1> HIDE DEF c
<1>3. QED
  BY <1>1, <1>2

LEMMA UnreferNumbers ==
  ASSUME NEW V, NEW val \in [V -> Cell], NEW v \in V
  PROVE  \A x \in V : val[x] # NULL /\ Unrefer(val, v)[x] # NULL => Unrefer(val, v)[x].num = val[x].num
<1> DEFINE left == val[v].refs - 1
           c == IF left > 0 THEN [val[v] EXCEPT !.refs = left] ELSE NULL
<1>1. Unrefer(val, v) = [val EXCEPT ![v] = c]
  BY DEF Unrefer
<1>2. val[v] # NULL /\ c # NULL => c.num = val[v].num
  <2>1. val[v] \in Cell
    OBVIOUS
  <2>2. val[v] # NULL => val[v] \in [num : Nat, refs : Nat \ {0}]
    BY <2>1 DEF Cell
  <2>3. QED
    BY <2>2
<1> HIDE DEF c
<1>3. QED
  BY <1>1, <1>2

LEMMA ImportNumbers ==
  ASSUME NEW val \in [Values -> Cell], NEW v \in Values, NEW old \in Values \cup {NULL}, val[v] # NULL
  PROVE  \A x \in Values : val[x] # NULL /\ Import(val, v, old)[x] # NULL => Import(val, v, old)[x].num = val[x].num
<1> DEFINE ref == Refer(val, v)
<1>1. v # NULL /\ ref \in [Values -> Cell]
  BY DataflowAssumption, Referred
<1>2. \A x \in Values : val[x] # NULL => ref[x] # NULL /\ ref[x].num = val[x].num
  <2>1. ref[v] # NULL
    BY <1>1, Referred, CellFacts
  <2> HIDE DEF ref
  <2>2. QED
    BY <2>1, ReferNumbers DEF ref
<1> HIDE DEF ref
<1>3. CASE v = old
  BY <1>3 DEF Import
<1>4. CASE v # old /\ old = NULL
  BY <1>1, <1>2, <1>4 DEF Import, ref
<1>5. CASE v # old /\ old # NULL
  <2>1. Import(val, v, old) = Unrefer(ref, old) /\ old \in Values
    BY <1>1, <1>5 DEF Import, ref
  <2>2. \A x \in Values : ref[x] # NULL /\ Unrefer(ref, old)[x] # NULL => Unrefer(ref, old)[x].num = ref[x].num
    BY <1>1, <2>1, UnreferNumbers
  <2>3. QED
    BY <1>2, <2>1, <2>2
<1>6. QED
  BY <1>3, <1>4, <1>5

LEMMA DriveSettles ==
  ASSUME SettlesInv, HasNoLoop(circuit), OneWriter(circuit), Drive
  PROVE  SettlesInv'
<1> DEFINE w == Head(todo).wire
           v == Head(todo).value
           old == wire_value[w]
           next == [op |-> "notify", wire |-> w, value |-> v, ports |-> Driven(w)]
           new == <<next>>
<1>1. /\ todo # <<>> /\ Head(todo).op = "drive" /\ UNCHANGED <<circuit, phase>>
      /\ value' = Import(value, v, old) /\ wire_value' = [wire_value EXCEPT ![w] = v]
      /\ todo' = new \o Tail(todo)
  BY DEF Drive, Doing, NotifyOp
<1>2. CallInv /\ CallInv'
  BY DriveKeeps DEF SettlesInv
<1>3. /\ phase = "enabled" /\ DOMAIN wire_value = Wires /\ Head(todo) \in Ops /\ v \in Values /\ w \in Wires
      /\ Settling(wire_value, value, todo) /\ TypeOK
  BY <1>1, <1>2, InCall, OpFacts DEF SettlesInv, CallInv
<1>4. next \in Ops /\ next.op = "notify" /\ next.wire = w /\ next.ports = Driven(w)
  <2>1. Driven(w) \in SUBSET (Gates \X (1 .. 2))
    BY DEF Driven
  <2>2. QED
    BY <1>3, <2>1 DEF Ops
<1>5. \A x \in Values : value[x] # NULL /\ value'[x] # NULL => value'[x].num = value[x].num
  <2>1. value \in [Values -> Cell] /\ old \in Values \cup {NULL} /\ value[v] # NULL
    BY <1>1, <1>2, <1>3, InCall DEF TypeOK, IsFree
  <2> HIDE DEF old, v
  <2>2. QED
    BY <1>1, <1>3, <2>1, ImportNumbers
<1> HIDE DEF next
<1>6. new \in Seq(Ops) /\ DOMAIN new = {1} /\ new[1] = next
  BY <1>4, OneOp
<1> HIDE DEF new
<1>7. Rank[w] <= Rank[w]
  BY <1>3, RankFacts
<1>8. Stepped(new)
  <2>1. DOMAIN wire_value' = DOMAIN wire_value
        /\ \A u \in DOMAIN wire_value : wire_value'[u] = wire_value[u] \/ (Head(todo).op = "drive" /\ u = Head(todo).wire)
    BY <1>1
  <2>2. \A m \in DOMAIN new : new[m].op # "unref" => Rank[Head(todo).wire] <= Rank[new[m].wire]
    BY <1>4, <1>6, <1>7
  <2>3. QED
    BY <1>1, <1>2, <1>3, <1>5, <1>6, <2>1, <2>2 DEF Stepped
<1>9. \A n \in DOMAIN new : IsFresh(wire_value', value', new, n)
  BY <1>4, <1>6 DEF IsFresh
<1>10. ASSUME NEW g \in Gates, w \in InWires(g) PROVE UpToDate(wire_value', value', todo', g)
  <2>1. CASE \E x \in OutWires(g) : \E num \in Nat : Makes(wire_value', value', g, x, num)
    <3>1. \E p \in Driven(w) : p[1] = g
      BY <1>3, <1>10, <2>1, WriterIsCalled
    <3>2. todo'[1] = next /\ 1 \in DOMAIN todo'
      <4>1. Len(new) = 1
        BY <1>6
      <4>2. /\ DOMAIN todo' = 1 .. Len(new) + Len(todo) - 1 /\ Len(todo) \in Nat \ {0}
            /\ \A n \in 1 .. Len(new) : todo'[n] = new[n]
        BY <1>8, TailIs
      <4>3. QED
        BY <1>6, <4>1, <4>2
    <3>3. Called(todo', g)
      BY <1>4, <3>1, <3>2 DEF Called
    <3>4. QED
      BY <3>3 DEF UpToDate
  <2>2. QED
    BY <2>1 DEF UpToDate
<1>11. wire_value'[w] = v
  BY <1>1, <1>3
<1>12. Settling(wire_value', value', todo')
  <2>1. \A g \in Gates :
           \/ UpToDate(wire_value', value', todo', g)
           \/ /\ ~(Head(todo).op = "drive" /\ Head(todo).wire \in InWires(g))
              /\ Head(todo).op = "notify" /\ (\E p \in Head(todo).ports : p[1] = g) => Called(new, g)
    BY <1>1, <1>10
  <2>2. QED
    BY <1>8, <1>9, <1>11, <2>1, StepSettles
<1>13. QED
  BY <1>1, <1>2, <1>12, SettlingNext DEF SettlesInv

LEMMA UnrefSettles ==
  ASSUME SettlesInv, HasNoLoop(circuit), OneWriter(circuit), Unref
  PROVE  SettlesInv'
<1> DEFINE v == Head(todo).value
           new == <<>>
<1>1. /\ todo # <<>> /\ Head(todo).op = "unref" /\ UNCHANGED <<circuit, phase, wire_value>>
      /\ value' = Unrefer(value, v) /\ todo' = Tail(todo)
  BY DEF Unref, Doing
<1>2. CallInv /\ CallInv'
  BY UnrefKeeps DEF SettlesInv
<1>3. /\ phase = "enabled" /\ Head(todo) \in Ops /\ v \in Values /\ Tail(todo) \in Seq(Ops)
      /\ Settling(wire_value, value, todo) /\ TypeOK
  BY <1>1, <1>2, InCall, OpFacts DEF SettlesInv, CallInv
<1>4. \A x \in Values : value[x] # NULL /\ value'[x] # NULL => value'[x].num = value[x].num
  <2>1. value \in [Values -> Cell]
    BY <1>3 DEF TypeOK
  <2> HIDE DEF v
  <2>2. QED
    BY <1>1, <1>3, <2>1, UnreferNumbers
<1>5. new \in Seq(Ops) /\ todo' = new \o Tail(todo) /\ DOMAIN new = {}
  BY <1>1, <1>3
<1>6. Stepped(new)
  BY <1>1, <1>2, <1>3, <1>4, <1>5 DEF Stepped
<1> HIDE DEF new
<1>7. Settling(wire_value', value', todo')
  <2>1. \A n \in DOMAIN new : IsFresh(wire_value', value', new, n)
    BY <1>5
  <2>2. QED
    BY <1>1, <1>6, <2>1, StepSettles
<1>8. QED
  BY <1>1, <1>2, <1>7, SettlingNext DEF SettlesInv

LEMMA NotifySettles ==
  ASSUME SettlesInv, HasNoLoop(circuit), OneWriter(circuit), Notify
  PROVE  SettlesInv'
<1> DEFINE h == Head(todo)
<1>1. todo # <<>> /\ h.op = "notify" /\ UNCHANGED <<circuit, phase, wire_value>>
  BY DEF Notify, Doing
<1>2. CallInv /\ CallInv'
  BY NotifyKeeps DEF SettlesInv
<1>3. /\ phase = "enabled" /\ h \in Ops /\ Tail(todo) \in Seq(Ops) /\ h.ports \subseteq Driven(h.wire)
      /\ Settling(wire_value, value, todo) /\ TypeOK /\ h.wire \in Wires
  BY <1>1, <1>2, InCall, OpFacts DEF SettlesInv, CallInv
<1>4. CASE h.ports = {}
  <2> DEFINE new == <<>>
  <2>1. todo' = Tail(todo) /\ value' = value
    BY <1>4 DEF Notify
  <2>2. new \in Seq(Ops) /\ todo' = new \o Tail(todo) /\ DOMAIN new = {}
    BY <1>3, <2>1
  <2> HIDE DEF new
  <2>3. Stepped(new)
    BY <1>1, <1>2, <1>3, <2>1, <2>2 DEF Stepped
  <2>4. \A n \in DOMAIN new : IsFresh(wire_value', value', new, n)
    BY <2>2
  <2>5. Settling(wire_value', value', todo')
    BY <1>1, <1>4, <2>3, <2>4, StepSettles
  <2>6. QED
    BY <1>1, <1>2, <2>5, SettlingNext DEF SettlesInv
<1>5. ASSUME NEW p \in h.ports,
             LET rest == <<NextGate(h, p)>> \o Tail(todo)
             IN  IF phase = "enabled" THEN Execute(p[1], rest) ELSE todo' = rest /\ value' = value
      PROVE  SettlesInv'
  <2> DEFINE g == p[1]
             next == NextGate(h, p)
             rest == <<next>> \o Tail(todo)
  <2>1. g \in Gates
    BY <1>3 DEF Driven
  <2>2. next \in Ops
    <3> DEFINE none == <<>>
    <3>1. none \in Seq(Ops) /\ DOMAIN none = {}
      OBVIOUS
    <3> HIDE DEF none
    <3>2. AllKept(wire_value, none)
          /\ \A m \in DOMAIN none : none[m].op # "unref" => none[m].wire \in OutWires(p[1])
      BY <3>1 DEF AllKept
    <3>3. NextGate(Head(todo), p) \in Ops
      BY <1>1, <1>2, <1>5, <3>1, <3>2, LoopGoesOn
    <3>4. QED
      BY <3>3
  <2>3. rest \in Seq(Ops)
    BY <1>3, <2>2
  <2>4. Execute(g, rest)
    BY <1>3, <1>5
  <2>5. PICK ops \in Seq(Ops) :
              /\ todo' = ops \o rest /\ AllKept(wire_value, ops) /\ Does(value', g, ops)
              /\ \A m \in DOMAIN ops : ops[m].op # "unref" => ops[m].wire \in OutWires(g)
    BY <1>1, <1>2, <2>1, <2>3, <2>4, GateDoes
  <2>6. \A x \in Values : value[x] # NULL /\ value'[x] # NULL => value'[x].num = value[x].num
    BY <1>1, <1>2, <2>1, <2>3, <2>4, GateDoes
  <2> DEFINE new == ops \o <<next>>
             k == Len(ops)
  <2>7. /\ next.op = "notify" /\ new \in Seq(Ops)
        /\ new \o Tail(todo) = ops \o (<<next>> \o Tail(todo))
        /\ \A m \in DOMAIN new : new[m].op # "unref" => Rank[h.wire] <= Rank[new[m].wire]
    BY <1>1, <1>2, <1>5, <2>5, LoopGoesOn
  <2>8. next.ports = h.ports \ {p}
    <3>1. h \in [op : {"notify"}, wire : Wires, value : Values, ports : SUBSET (Gates \X (1 .. 2))]
      BY <1>1, <1>3 DEF Ops
    <3> HIDE DEF h
    <3>2. QED
      BY <3>1 DEF NextGate
  <2>9. /\ k \in Nat /\ DOMAIN ops = 1 .. k /\ DOMAIN new = 1 .. k + 1 /\ new[k + 1] = next
        /\ \A n \in 1 .. k : new[n] = ops[n]
    BY <2>2, <2>5
  <2>10. todo' = new \o Tail(todo)
    BY <2>5, <2>7
  <2> HIDE DEF new, next, rest, k
  <2>11. Stepped(new)
    BY <1>1, <1>2, <1>3, <2>6, <2>7, <2>10 DEF Stepped
  <2>12. ASSUME NEW n \in DOMAIN new PROVE IsFresh(wire_value', value', new, n)
    <3>1. CASE n = k + 1
      BY <2>7, <2>9, <3>1 DEF IsFresh
    <3>2. CASE n \in 1 .. k
      <4>1. new[n] = ops[n] /\ n \in DOMAIN ops
        BY <2>9, <3>2
      <4>2. ASSUME NEW x \in Gates, ops[n].op = "drive", ops[n].wire \in OutWires(x)
            PROVE  Makes(wire_value', value', x, ops[n].wire, value'[ops[n].value].num) /\ Behind(new, n, x)
        <5>1. ops[n].wire \in OutWires(g)
          BY <2>5, <4>1, <4>2
        <5>2. x = g
          BY <2>1, <4>2, <5>1, OneGate
        <5>3. Makes(wire_value, value', g, ops[n].wire, value'[ops[n].value].num)
          BY <2>5, <4>1, <4>2 DEF Does
        <5>4. \A m \in 1 .. n : new[m] = ops[m] /\ m \in DOMAIN ops
          BY <2>9, <3>2
        <5>5. \A u \in InWires(g), y \in OutWires(g) : Rank[u] < Rank[y]
          BY <1>3, <2>1, RankFacts
        <5>6. Behind(new, n, g)
          BY <2>5, <5>4, <5>5 DEF Behind
        <5>7. QED
          BY <1>1, <5>2, <5>3, <5>6
      <4>3. QED
        BY <4>1, <4>2 DEF IsFresh
    <3>3. QED
      BY <2>9, <3>1, <3>2
  <2>13. UpToDate(wire_value', value', todo', g)
    <3>1. \A w \in OutWires(g) : \A num \in Nat : Makes(wire_value', value', g, w, num) => Comes(value', ops, w, num)
      BY <1>1, <2>5 DEF Does
    <3>2. \A n \in 1 .. k : n \in DOMAIN todo' /\ todo'[n] = ops[n]
      <4>1. /\ Len(new) \in Nat /\ DOMAIN new = 1 .. Len(new) /\ Len(todo) \in Nat \ {0}
            /\ DOMAIN todo' = 1 .. Len(new) + Len(todo) - 1
            /\ \A n \in 1 .. Len(new) : todo'[n] = new[n]
        BY <2>11, TailIs
      <4>2. \A n \in 1 .. k : n \in 1 .. Len(new)
        BY <2>9, <4>1
      <4>3. \A n \in 1 .. Len(new) : n \in 1 .. Len(new) + Len(todo) - 1
        BY <4>1
      <4>4. QED
        BY <2>9, <4>1, <4>2, <4>3
    <3>3. \A w, num : Comes(value', ops, w, num) => Comes(value', todo', w, num)
      BY <2>9, <3>2 DEF Comes, Writes
    <3>4. QED
      BY <3>1, <3>3 DEF UpToDate
  <2>14. ASSUME NEW x \in Gates, x # g, \E q \in h.ports : q[1] = x PROVE Called(new, x)
    <3>1. PICK q \in h.ports : q[1] = x
      BY <2>14
    <3>2. q \in next.ports
      BY <2>8, <2>14, <3>1
    <3>3. k + 1 \in DOMAIN new
      BY <2>9
    <3>4. QED
      BY <2>7, <2>9, <3>1, <3>2, <3>3 DEF Called
  <2>15. Settling(wire_value', value', todo')
    BY <1>1, <2>11, <2>12, <2>13, <2>14, StepSettles
  <2>16. QED
    BY <1>1, <1>2, <2>15, SettlingNext DEF SettlesInv
<1>6. QED
  BY <1>4, <1>5 DEF Notify
-----------------------------------------------------------------------------
(* So do the steps of the program.                                          *)

\* Nothing is to be done of what is not there.
LEMMA NoInputNoOutput ==
  ASSUME TypeOK, NEW wires, NEW val, \A w \in Wires : wires[w] = NULL, NEW g \in Gates, NEW w, NEW num
  PROVE  ~Makes(wires, val, g, w, num)
<1>1. SUFFICES ASSUME Makes(wires, val, g, w, num) PROVE FALSE
  OBVIOUS
<1> DEFINE in == circuit.in[g]
<1>2. DOMAIN in = 1 .. 2
  BY <1>1, WriterIsCalled
<1>3. \A i \in 1 .. 2 : ~There(wires, in[i])
  BY <1>2, Ports DEF There, InWires
<1> HIDE DEF in
<1>4. ~AddMakes(wires, val, in, circuit.out[g], w, num)
  BY <1>3 DEF AddMakes
<1>5. ~SortMakes(wires, val, in, circuit.out[g], w, num)
  BY <1>3 DEF SortMakes
<1>6. QED
  BY <1>1, <1>4, <1>5 DEF Makes, in

LEMMA FirstSettled == ASSUME Init PROVE SettlesInv
<1>1. CallInv
  BY FirstCall
<1>2. todo = <<>> /\ DOMAIN todo = {} /\ \A w \in Wires : wire_value[w] = NULL
  BY DEF Init, Wires
<1>3. \A g \in Gates : UpToDate(wire_value, value, todo, g)
  BY <1>1, <1>2, NoInputNoOutput DEF UpToDate, CallInv
<1>4. QED
  BY <1>1, <1>2, <1>3 DEF SettlesInv, Settling

LEMMA SwitchSettles ==
  ASSUME SettlesInv, Enable \/ Disable
  PROVE  SettlesInv'
<1>1. CallInv'
  BY SwitchKeeps DEF SettlesInv
<1>2. CASE Enable
  <2>1. Settling(wire_value, value, todo) /\ circuit' = circuit
        /\ wire_value' = wire_value /\ value' = value /\ todo' = todo
    BY <1>2 DEF Enable, SettlesInv
  <2>2. Settling(wire_value', value', todo')
    BY <2>1
  <2>3. QED
    BY <1>1, <2>1, <2>2, SettlingNext DEF SettlesInv
<1>3. CASE Disable
  BY <1>1, <1>3 DEF Disable, SettlesInv
<1>4. QED
  BY <1>2, <1>3

\* An input that is driven is no gate's output.
LEMMA InputSettles ==
  ASSUME SettlesInv, OneWriter(circuit), NEW n \in DOMAIN circuit.given, NEW num \in Nat,
         DriveInput(circuit.given[n], num)
  PROVE  SettlesInv'
<1> DEFINE w == circuit.given[n]
<1>1. PICK v \in Values : /\ IsFree(v) /\ value' = Created(v, num)
                          /\ todo' = <<DriveOp(w, v), UnrefOp(v)>>
  BY DEF DriveInput
<1>2. /\ todo = <<>> /\ DOMAIN todo = {} /\ phase = "enabled" /\ UNCHANGED <<circuit, phase, wire_value>>
      /\ CallInv /\ TypeOK /\ Settling(wire_value, value, todo)
  BY DEF DriveInput, Idle, SettlesInv, CallInv
<1>3. w \in Wires /\ \A g \in Gates : w \notin OutWires(g)
  <2>1. w \in Wires
    BY <1>2, Typed
  <2>2. \A g \in Gates : \A o \in DOMAIN circuit.out[g] : w # circuit.out[g][o]
    BY DEF OneWriter, Gates
  <2>3. QED
    BY <2>1, <2>2 DEF OutWires
<1>4. CallInv'
  BY <1>2, <1>3, InputKeeps
<1>5. \A u \in Wires : There(wire_value, u) => NumOf(wire_value, value', u) = NumOf(wire_value, value, u)
  BY <1>1, <1>2, CreatedNumbers
<1> HIDE DEF w
<1>6. /\ DOMAIN todo' = {1, 2} /\ todo'[1].op = "drive" /\ todo'[1].wire = w /\ todo'[2].op = "unref"
  <2> DEFINE a == DriveOp(w, v)
             b == UnrefOp(v)
  <2>1. a.op = "drive" /\ a.wire = w /\ b.op = "unref"
    BY DEF DriveOp, UnrefOp
  <2> HIDE DEF a, b
  <2>2. todo' = <<a, b>>
    BY <1>1 DEF a, b
  <2>3. DOMAIN <<a, b>> = 1 .. 2 /\ <<a, b>>[1] = a /\ <<a, b>>[2] = b /\ 1 .. 2 = {1, 2}
    OBVIOUS
  <2>4. QED
    BY <2>1, <2>2, <2>3
<1>7. \A i \in DOMAIN todo' : IsFresh(wire_value', value', todo', i)
  BY <1>3, <1>6 DEF IsFresh
<1>8. ASSUME NEW g \in Gates, NEW x \in OutWires(g), NEW k \in Nat, Makes(wire_value', value', g, x, k)
      PROVE  Has(wire_value', value', x, k)
  <2>1. x \in Wires /\ x # NULL
    BY <1>2, Typed DEF OutWires
  <2>2. \A u \in InWires(g) : There(wire_value', u) => NumOf(wire_value', value', u) = NumOf(wire_value, value, u)
    BY <1>2, <1>5 DEF InWires
  <2>3. Makes(wire_value, value, g, x, k)
    BY <1>2, <1>8, <2>2, MakesOfInputs
  <2>4. UpToDate(wire_value, value, todo, g) /\ ~Called(todo, g) /\ ~Comes(value, todo, x, k)
    BY <1>2 DEF Settling, Called, Comes
  <2>5. Has(wire_value, value, x, k)
    BY <2>3, <2>4 DEF UpToDate
  <2>6. QED
    BY <1>2, <1>5, <2>1, <2>5 DEF Has, There
<1>9. \A g \in Gates : UpToDate(wire_value', value', todo', g)
  BY <1>8 DEF UpToDate
<1>10. QED
  BY <1>2, <1>4, <1>7, <1>9, SettlingNext DEF SettlesInv, Settling

LEMMA CallsSettle ==
  ASSUME \A c \in Circuits : HasNoLoop(c) /\ OneWriter(c)
  PROVE  /\ Init => SettlesInv
         /\ SettlesInv /\ [Next]_vars => SettlesInv'
<1>1. Init => SettlesInv
  BY FirstSettled
<1>2. ASSUME SettlesInv, Next PROVE SettlesInv'
  <2>1. HasNoLoop(circuit) /\ OneWriter(circuit) /\ CallInv
    BY <1>2 DEF SettlesInv, CallInv, TypeOK
  <2>2. CASE Drive
    BY <1>2, <2>1, <2>2, DriveSettles
  <2>3. CASE Notify
    BY <1>2, <2>1, <2>3, NotifySettles
  <2>4. CASE Unref
    BY <1>2, <2>1, <2>4, UnrefSettles
  <2>5. CASE Enable \/ Disable
    BY <1>2, <2>5, SwitchSettles
  <2>6. ASSUME NEW n \in DOMAIN circuit.given, NEW num \in Numbers, DriveInput(circuit.given[n], num)
        PROVE  SettlesInv'
    <3>1. num \in Nat
      BY DataflowAssumption
    <3>2. QED
      BY <1>2, <2>1, <2>6, <3>1, InputSettles
  <2>7. ASSUME NEW w \in DOMAIN wire_value, DestroyWire(w) PROVE SettlesInv'
    BY <2>1, <2>7, DestroyKeeps DEF SettlesInv, DestroyWire
  <2>8. QED
    BY <1>2, <2>2, <2>3, <2>4, <2>5, <2>6, <2>7 DEF Next
<1>3. ASSUME SettlesInv, UNCHANGED vars PROVE SettlesInv'
  <2>1. CallInv'
    BY <1>3, CallsKeep DEF SettlesInv
  <2>2. circuit' = circuit /\ phase' = phase /\ wire_value' = wire_value /\ value' = value /\ todo' = todo
    BY <1>3 DEF vars
  <2>3. QED
    BY <1>3, <2>1, <2>2, SettlingNext DEF SettlesInv
<1>4. QED
  BY <1>1, <1>2, <1>3

\* Between two calls the numbers on every gate's outputs are those it makes of the
\* numbers on its inputs: "settled" is what the invariant comes to.
Settled ==
  \A g \in Gates : \A w \in OutWires(g) : \A num \in Nat :
    Makes(wire_value, value, g, w, num) => Has(wire_value, value, w, num)

LEMMA IdleIsSettled ==
  ASSUME SettlesInv, Idle, phase = "enabled"
  PROVE  Settled
<1>1. DOMAIN todo = {} /\ Settling(wire_value, value, todo)
  BY DEF Idle, SettlesInv
<1>2. QED
  BY <1>1 DEF Settling, UpToDate, Called, Comes, Settled
-----------------------------------------------------------------------------
(* What a settled triangle of boxes computes.                               *)

\* Induction up to a number.
LEMMA Steps ==
  ASSUME NEW n \in Nat, NEW S, 0 \in S, \A k \in 1 .. n : k - 1 \in S => k \in S
  PROVE  \A k \in 0 .. n : k \in S
<1> DEFINE Bad == {k \in 0 .. n : k \notin S}
           R == OpToRel(<, Nat)
<1>1. SUFFICES ASSUME Bad # {} PROVE FALSE
  OBVIOUS
<1>2. Bad \subseteq Nat
  OBVIOUS
<1>3. PICK m \in Bad : \A k \in Bad : ~(<<k, m>> \in R)
  BY <1>1, <1>2, NatLessThanWellFounded, WFMin
<1>4. \A k \in Bad : ~(k < m)
  BY <1>2, <1>3 DEF OpToRel
<1>5. m \in 1 .. n /\ m - 1 \in 0 .. n /\ m \notin S /\ m - 1 < m
  OBVIOUS
<1>6. m - 1 \in S
  BY <1>4, <1>5
<1>7. QED
  BY <1>5, <1>6

\* The numbers d that go down and c that come from the left: number i of in is inserted
\* into what comes down from the row above.
Inserts(n, in, d, c) ==
  \A i \in 0 .. n - 1 :
    /\ c[<<i, 0>>] = in[i]
    /\ d[<<i, i>>] = c[<<i, i>>]
    /\ \A j \in 0 .. i : d[<<i, j>>] \in Nat /\ c[<<i, j>>] \in Nat
    /\ \A j \in 0 .. i - 1 :
         /\ d[<<i, j>>] = Least(d[<<i - 1, j>>], c[<<i, j>>])
         /\ c[<<i, j + 1>>] = Greatest(d[<<i - 1, j>>], c[<<i, j>>])

LEMMA LeastGreatest ==
  ASSUME NEW a \in Nat, NEW b \in Nat
  PROVE  /\ Least(a, b) \in {a, b} /\ Greatest(a, b) \in {a, b}
         /\ Least(a, b) <= a /\ Least(a, b) <= b /\ a <= Greatest(a, b) /\ b <= Greatest(a, b)
         /\ Least(a, b) <= Greatest(a, b)
         /\ \/ Least(a, b) = a /\ Greatest(a, b) = b
            \/ Least(a, b) = b /\ Greatest(a, b) = a
BY DEF Least, Greatest

IsSorted(d, i) == \A k, l \in 0 .. i : k < l => d[<<i, k>>] <= d[<<i, l>>]

\* The first j boxes of row i have let down numbers in order, that are not greater than what is
\* still to be compared.
SortedUpTo(d, c, i, j) ==
  \A k \in 0 .. j - 1 :
    /\ d[<<i, k>>] <= c[<<i, j>>]
    /\ \A l \in j .. i - 1 : d[<<i, k>>] <= d[<<i - 1, l>>]
    /\ \A l \in 0 .. j - 1 : k < l => d[<<i, k>>] <= d[<<i, l>>]

LEMMA BoxSorts ==
  ASSUME NEW n \in Nat, NEW in, NEW d, NEW c, Inserts(n, in, d, c),
         NEW i \in 1 .. n - 1, IsSorted(d, i - 1), NEW j \in 0 .. i - 1, SortedUpTo(d, c, i, j)
  PROVE  SortedUpTo(d, c, i, j + 1)
<1> DEFINE D(k) == d[<<i, k>>]
           U(k) == d[<<i - 1, k>>]
           C(k) == c[<<i, k>>]
<1>1. i \in 0 .. n - 1 /\ i - 1 \in 0 .. n - 1
  OBVIOUS
<1>2. \A k \in 0 .. i : D(k) \in Nat /\ C(k) \in Nat
  BY <1>1 DEF Inserts
<1>3. \A k \in 0 .. i - 1 : U(k) \in Nat
  BY <1>1 DEF Inserts
<1>4. D(j) = Least(U(j), C(j)) /\ C(j + 1) = Greatest(U(j), C(j))
  BY <1>1 DEF Inserts
<1>5. /\ \A k \in 0 .. j - 1 :
           /\ D(k) <= C(j)
           /\ \A l \in j .. i - 1 : D(k) <= U(l)
           /\ \A l \in 0 .. j - 1 : k < l => D(k) <= D(l)
      /\ \A k, l \in 0 .. i - 1 : k < l => U(k) <= U(l)
  BY DEF SortedUpTo, IsSorted
<1> HIDE DEF D, U, C
<1>6. U(j) \in Nat /\ C(j) \in Nat /\ C(j + 1) \in Nat /\ D(j) \in Nat
  BY <1>2, <1>3
<1>7. /\ D(j) <= U(j) /\ D(j) <= C(j) /\ U(j) <= C(j + 1) /\ C(j) <= C(j + 1) /\ D(j) <= C(j + 1)
      /\ D(j) \in {U(j), C(j)}
  BY <1>4, <1>6, LeastGreatest
<1>8. ASSUME NEW k \in 0 .. (j + 1) - 1
      PROVE  /\ D(k) <= C(j + 1)
             /\ \A l \in j + 1 .. i - 1 : D(k) <= U(l)
             /\ \A l \in 0 .. (j + 1) - 1 : k < l => D(k) <= D(l)
  <2>1. CASE k = j
    <3>1. \A l \in j + 1 .. i - 1 : l \in 0 .. i - 1 /\ j < l /\ U(l) \in Nat
      BY <1>3
    <3>2. \A l \in j + 1 .. i - 1 : U(j) <= U(l)
      BY <1>5, <3>1
    <3>3. \A l \in j + 1 .. i - 1 : D(j) <= U(l)
      BY <1>6, <1>7, <3>1, <3>2
    <3>4. \A l \in 0 .. (j + 1) - 1 : ~(k < l)
      BY <2>1
    <3>5. QED
      BY <1>7, <2>1, <3>3, <3>4
  <2>2. CASE k \in 0 .. j - 1
    <3>1. D(k) \in Nat /\ D(k) <= C(j) /\ D(k) <= U(j)
      <4>1. k \in 0 .. i /\ j \in j .. i - 1
        OBVIOUS
      <4>2. QED
        BY <1>2, <1>5, <2>2, <4>1
    <3>2. D(k) <= C(j + 1) /\ D(k) <= D(j)
      BY <1>6, <1>7, <3>1
    <3>3. \A l \in j + 1 .. i - 1 : l \in j .. i - 1
      OBVIOUS
    <3>4. \A l \in 0 .. (j + 1) - 1 : l = j \/ l \in 0 .. j - 1
      OBVIOUS
    <3>5. QED
      BY <1>5, <2>2, <3>2, <3>3, <3>4
  <2>3. k = j \/ k \in 0 .. j - 1
    OBVIOUS
  <2>4. QED
    BY <2>1, <2>2, <2>3
<1>9. QED
  BY <1>8 DEF SortedUpTo, D, U, C

LEMMA RowSorts ==
  ASSUME NEW n \in Nat, NEW in, NEW d, NEW c, Inserts(n, in, d, c),
         NEW i \in 1 .. n - 1, IsSorted(d, i - 1)
  PROVE  IsSorted(d, i)
<1> DEFINE S == {j \in 0 .. i : SortedUpTo(d, c, i, j)}
<1>1. 0 \in S
  BY DEF SortedUpTo
<1>2. ASSUME NEW k \in 1 .. i, k - 1 \in S PROVE k \in S
  <2>1. k - 1 \in 0 .. i - 1 /\ SortedUpTo(d, c, i, k - 1)
    BY <1>2
  <2>2. SortedUpTo(d, c, i, (k - 1) + 1)
    BY <2>1, BoxSorts
  <2>3. (k - 1) + 1 = k
    OBVIOUS
  <2>4. QED
    BY <2>2, <2>3
<1> HIDE DEF S
<1>3. i \in S
  BY <1>1, <1>2, Steps
<1>4. SortedUpTo(d, c, i, i)
  BY <1>3 DEF S
<1>5. i \in 0 .. n - 1
  OBVIOUS
<1>6. d[<<i, i>>] = c[<<i, i>>]
  BY <1>5 DEF Inserts
<1>7. \A k \in 0 .. i - 1 :
        /\ d[<<i, k>>] <= d[<<i, i>>]
        /\ \A l \in 0 .. i - 1 : k < l => d[<<i, k>>] <= d[<<i, l>>]
  BY <1>4, <1>6 DEF SortedUpTo
<1>8. \A k, l \in 0 .. i : k < l => k \in 0 .. i - 1 /\ (l = i \/ l \in 0 .. i - 1)
  OBVIOUS
<1>9. QED
  BY <1>7, <1>8 DEF IsSorted

\* Every row lets numbers down in order.
LEMMA TriangleSorts ==
  ASSUME NEW n \in Nat, NEW in, NEW d, NEW c, Inserts(n, in, d, c), NEW i \in 0 .. n - 1
  PROVE  IsSorted(d, i)
<1> DEFINE S == {k \in 0 .. n - 1 : IsSorted(d, k)}
<1>1. 0 \in S
  BY DEF IsSorted
<1>2. \A k \in 1 .. n - 1 : k - 1 \in S => k \in S
  BY RowSorts
<1> HIDE DEF S
<1>3. n - 1 \in Nat
  OBVIOUS
<1>4. i \in S
  BY <1>1, <1>2, <1>3, Steps
<1>5. QED
  BY <1>4 DEF S

\* f says where the numbers come from that the row's first j boxes have let down, that comes
\* from the left next, and that come down next to it.
ComeFrom(in, d, c, i, j, f) ==
  /\ f \in Bijection(0 .. i, 0 .. i)
  /\ \A k \in 0 .. j - 1 : d[<<i, k>>] = in[f[k]]
  /\ c[<<i, j>>] = in[f[j]]
  /\ \A k \in j + 1 .. i : d[<<i - 1, k - 1>>] = in[f[k]]

IsPermutation(in, d, i) ==
  \E f \in Bijection(0 .. i, 0 .. i) : \A k \in 0 .. i : d[<<i, k>>] = in[f[k]]

\* f with what it has at j and at j + 1 in exchange.
Exchanged(f, i, j) == [k \in 0 .. i |-> IF k = j THEN f[j + 1] ELSE IF k = j + 1 THEN f[j] ELSE f[k]]

LEMMA ExchangedIs ==
  ASSUME NEW i \in Nat, NEW j \in 0 .. i - 1, NEW f \in Bijection(0 .. i, 0 .. i)
  PROVE  /\ Exchanged(f, i, j) \in Bijection(0 .. i, 0 .. i)
         /\ Exchanged(f, i, j)[j] = f[j + 1] /\ Exchanged(f, i, j)[j + 1] = f[j]
         /\ \A k \in 0 .. i : k # j /\ k # j + 1 => Exchanged(f, i, j)[k] = f[k]
<1> DEFINE g == Exchanged(f, i, j)
           T == 0 .. i
<1>0. j \in T /\ j + 1 \in T /\ j # j + 1
  OBVIOUS
<1> HIDE DEF T
<1>1. /\ f \in [T -> T] /\ (\A a, b \in T : f[a] = f[b] => a = b) /\ (\A t \in T : \E s \in T : f[s] = t)
  <2>1. f \in Bijection(T, T)
    BY DEF T
  <2>2. QED
    BY <2>1 DEF Bijection, Injection, Surjection, IsInjective
<1>2. g = [k \in T |-> IF k = j THEN f[j + 1] ELSE IF k = j + 1 THEN f[j] ELSE f[k]]
  BY DEF Exchanged, T
<1> DEFINE m == j + 1
<1> HIDE DEF g, m
<1>3. g[j] = f[m] /\ g[m] = f[j] /\ \A k \in T : k # j /\ k # m => g[k] = f[k]
  BY <1>0, <1>2 DEF m
<1>4. g \in [T -> T]
  BY <1>0, <1>1, <1>2
<1>5. ASSUME NEW a \in T, NEW b \in T, g[a] = g[b] PROVE a = b
  <2>1. j \in T /\ m \in T /\ j # m
    BY <1>0 DEF m
  <2> DEFINE from(k) == IF k = j THEN m ELSE IF k = m THEN j ELSE k
  <2>2. \A k \in T : from(k) \in T /\ g[k] = f[from(k)]
    BY <1>3, <2>1
  <2>3. from(a) = from(b) => a = b
    BY <2>1
  <2> HIDE DEF from
  <2>4. f[from(a)] = f[from(b)] /\ from(a) \in T /\ from(b) \in T
    BY <1>5, <2>2
  <2>5. QED
    BY <1>1, <2>3, <2>4
<1>6. ASSUME NEW t \in T PROVE \E s \in T : g[s] = t
  <2>1. j \in T /\ m \in T
    BY <1>0 DEF m
  <2>2. PICK s \in T : f[s] = t
    BY <1>1
  <2>3. g[IF s = j THEN m ELSE IF s = m THEN j ELSE s] = t
    BY <1>3, <2>1, <2>2
  <2>4. QED
    BY <2>1, <2>3
<1>7. g \in Bijection(T, T)
  BY <1>4, <1>5, <1>6, Fun_IsBij
<1>8. QED
  BY <1>3, <1>7 DEF T, g, m

LEMMA BoxPermutes ==
  ASSUME NEW n \in Nat, NEW in, NEW d, NEW c, Inserts(n, in, d, c),
         NEW i \in 1 .. n - 1, NEW j \in 0 .. i - 1, NEW f, ComeFrom(in, d, c, i, j, f)
  PROVE  \E g : ComeFrom(in, d, c, i, j + 1, g)
<1> DEFINE a == d[<<i - 1, j>>]
           b == c[<<i, j>>]
<1>1. /\ i \in 0 .. n - 1 /\ i - 1 \in 0 .. n - 1 /\ i \in Nat
      /\ a \in Nat /\ b \in Nat
      /\ d[<<i, j>>] = Least(a, b) /\ c[<<i, j + 1>>] = Greatest(a, b)
  <2>1. i \in 0 .. n - 1 /\ i - 1 \in 0 .. n - 1 /\ i \in Nat /\ j \in 0 .. i
    OBVIOUS
  <2>2. /\ \A k \in 0 .. i : c[<<i, k>>] \in Nat
        /\ d[<<i, j>>] = Least(a, b) /\ c[<<i, j + 1>>] = Greatest(a, b)
    BY <2>1 DEF Inserts
  <2>3. \A k \in 0 .. i - 1 : d[<<i - 1, k>>] \in Nat
    BY <2>1 DEF Inserts
  <2>4. QED
    BY <2>1, <2>2, <2>3
<1>2. /\ f \in Bijection(0 .. i, 0 .. i)
      /\ \A k \in 0 .. j - 1 : d[<<i, k>>] = in[f[k]]
      /\ b = in[f[j]]
      /\ \A k \in j + 1 .. i : d[<<i - 1, k - 1>>] = in[f[k]]
  BY DEF ComeFrom
<1>3. a = in[f[j + 1]]
  <2>1. j + 1 \in j + 1 .. i /\ (j + 1) - 1 = j
    OBVIOUS
  <2>2. QED
    BY <1>2, <2>1
<1> HIDE DEF a, b
<1>4. \/ d[<<i, j>>] = b /\ c[<<i, j + 1>>] = a
      \/ d[<<i, j>>] = a /\ c[<<i, j + 1>>] = b
  BY <1>1, LeastGreatest
<1>5. /\ \A k \in 0 .. (j + 1) - 1 : k = j \/ k \in 0 .. j - 1
      /\ \A k \in (j + 1) + 1 .. i : k \in j + 1 .. i /\ k \in 0 .. i /\ k # j /\ k # j + 1
      /\ \A k \in 0 .. j - 1 : k \in 0 .. i /\ k # j /\ k # j + 1
  OBVIOUS
<1>6. CASE d[<<i, j>>] = b /\ c[<<i, j + 1>>] = a
  <2>1. ComeFrom(in, d, c, i, j + 1, f)
    BY <1>2, <1>3, <1>5, <1>6 DEF ComeFrom
  <2>2. QED
    BY <2>1
<1>7. CASE d[<<i, j>>] = a /\ c[<<i, j + 1>>] = b
  <2> DEFINE g == Exchanged(f, i, j)
  <2>1. /\ g \in Bijection(0 .. i, 0 .. i)
        /\ g[j] = f[j + 1] /\ g[j + 1] = f[j]
        /\ \A k \in 0 .. i : k # j /\ k # j + 1 => g[k] = f[k]
    BY <1>1, <1>2, ExchangedIs
  <2> HIDE DEF g
  <2>2. ComeFrom(in, d, c, i, j + 1, g)
    BY <1>2, <1>3, <1>5, <1>7, <2>1 DEF ComeFrom
  <2>3. QED
    BY <2>2
<1>8. QED
  BY <1>4, <1>6, <1>7

\* A row begins with the input's number and what comes down.
RowBegins(f, i) == [k \in 0 .. i |-> IF k = 0 THEN i ELSE f[k - 1]]

LEMMA RowBeginsAll ==
  ASSUME NEW i \in Nat \ {0}, NEW f \in Bijection(0 .. i - 1, 0 .. i - 1)
  PROVE  /\ RowBegins(f, i) \in Bijection(0 .. i, 0 .. i)
         /\ RowBegins(f, i)[0] = i /\ \A k \in 1 .. i : RowBegins(f, i)[k] = f[k - 1]
<1> DEFINE g == RowBegins(f, i)
           R == 0 .. i - 1
           T == 0 .. i
<1>1. /\ f \in [R -> R] /\ (\A a, b \in R : f[a] = f[b] => a = b) /\ (\A t \in R : \E s \in R : f[s] = t)
  BY DEF Bijection, Injection, Surjection, IsInjective
<1>2. /\ \A k \in T : k = 0 \/ (k \in 1 .. i /\ k - 1 \in R)
      /\ \A k \in R : k \in T /\ k # i /\ k + 1 \in T /\ k + 1 # 0 /\ (k + 1) - 1 = k
      /\ \A k \in T : k = i \/ k \in R
      /\ \A k \in 1 .. i : k \in T /\ k # 0 /\ k - 1 \in R
      /\ 0 \in T /\ i \in T /\ i \notin R
      /\ \A a, b \in 1 .. i : a - 1 = b - 1 => a = b
  OBVIOUS
<1>3. g = [k \in T |-> IF k = 0 THEN i ELSE f[k - 1]]
  BY DEF RowBegins
<1> HIDE DEF R, T, g
<1>4. g[0] = i /\ \A k \in 1 .. i : g[k] = f[k - 1]
  BY <1>2, <1>3
<1>5. \A k \in 1 .. i : g[k] \in R
  BY <1>1, <1>2, <1>4
<1>6. g \in [T -> T]
  <2>1. \A k \in T : g[k] \in T
    BY <1>2, <1>4, <1>5
  <2>2. QED
    BY <1>3, <2>1
<1>7. ASSUME NEW a \in T, NEW b \in T, g[a] = g[b] PROVE a = b
  <2>1. CASE a = 0 \/ b = 0
    BY <1>2, <1>4, <1>5, <1>7, <2>1
  <2>2. CASE a # 0 /\ b # 0
    <3>1. a \in 1 .. i /\ b \in 1 .. i /\ a - 1 \in R /\ b - 1 \in R
      BY <1>2, <2>2
    <3>2. f[a - 1] = f[b - 1]
      BY <1>4, <1>7, <3>1
    <3>3. a - 1 = b - 1
      BY <1>1, <3>1, <3>2
    <3>4. QED
      BY <1>2, <3>1, <3>3
  <2>3. QED
    BY <2>1, <2>2
<1>8. ASSUME NEW t \in T PROVE \E s \in T : g[s] = t
  <2>1. CASE t = i
    BY <1>2, <1>4, <2>1
  <2>2. CASE t \in R
    <3>1. PICK s \in R : f[s] = t
      BY <1>1, <2>2
    <3>2. s + 1 \in T /\ s + 1 # 0 /\ (s + 1) - 1 = s
      BY <1>2
    <3>3. g[s + 1] = t
      BY <1>3, <3>1, <3>2
    <3>4. QED
      BY <3>2, <3>3
  <2>3. QED
    BY <1>2, <2>1, <2>2
<1>9. g \in Bijection(T, T)
  BY <1>6, <1>7, <1>8, Fun_IsBij
<1>10. QED
  BY <1>4, <1>9 DEF T, g

LEMMA RowPermutes ==
  ASSUME NEW n \in Nat, NEW in, NEW d, NEW c, Inserts(n, in, d, c), NEW i \in 0 .. n - 1,
         NEW f, ComeFrom(in, d, c, i, 0, f)
  PROVE  IsPermutation(in, d, i)
<1> DEFINE S == {j \in 0 .. i : \E g : ComeFrom(in, d, c, i, j, g)}
<1>1. 0 \in S
  OBVIOUS
<1>2. ASSUME NEW k \in 1 .. i, k - 1 \in S PROVE k \in S
  <2>1. PICK g : ComeFrom(in, d, c, i, k - 1, g)
    BY <1>2
  <2>2. i \in 1 .. n - 1 /\ k - 1 \in 0 .. i - 1 /\ (k - 1) + 1 = k
    OBVIOUS
  <2>3. \E h : ComeFrom(in, d, c, i, (k - 1) + 1, h)
    BY <2>1, <2>2, BoxPermutes
  <2>4. QED
    BY <2>2, <2>3
<1> HIDE DEF S
<1>3. i \in S
  BY <1>1, <1>2, Steps
<1>4. PICK g : ComeFrom(in, d, c, i, i, g)
  BY <1>3 DEF S
<1>5. d[<<i, i>>] = c[<<i, i>>]
  BY DEF Inserts
<1>6. \A k \in 0 .. i : k = i \/ k \in 0 .. i - 1
  OBVIOUS
<1>7. QED
  BY <1>4, <1>5, <1>6 DEF ComeFrom, IsPermutation

\* Every row lets down what has come in so far.
LEMMA TrianglePermutes ==
  ASSUME NEW n \in Nat, NEW in, NEW d, NEW c, Inserts(n, in, d, c), NEW i \in 0 .. n - 1
  PROVE  IsPermutation(in, d, i)
<1> DEFINE S == {k \in 0 .. n - 1 : IsPermutation(in, d, k)}
<1>1. \A k \in 0 .. n - 1 : c[<<k, 0>>] = in[k]
  BY DEF Inserts
<1>2. 0 \in S
  <2> DEFINE f == [k \in 0 .. 0 |-> 0]
  <2>1. f \in [0 .. 0 -> 0 .. 0] /\ f[0] = 0
    OBVIOUS
  <2>2. \A a, b \in 0 .. 0 : a = b
    OBVIOUS
  <2> HIDE DEF f
  <2>3. f \in Bijection(0 .. 0, 0 .. 0)
    <3>1. \A t \in 0 .. 0 : f[0] = t /\ 0 \in 0 .. 0
      BY <2>1, <2>2
    <3>2. QED
      BY <2>1, <2>2, <3>1, Fun_IsBij
  <2>4. 0 \in 0 .. n - 1
    OBVIOUS
  <2>5. ComeFrom(in, d, c, 0, 0, f)
    BY <1>1, <2>1, <2>3, <2>4 DEF ComeFrom
  <2>6. QED
    BY <2>4, <2>5, RowPermutes
<1>3. ASSUME NEW k \in 1 .. n - 1, k - 1 \in S PROVE k \in S
  <2>1. PICK f \in Bijection(0 .. k - 1, 0 .. k - 1) : \A l \in 0 .. k - 1 : d[<<k - 1, l>>] = in[f[l]]
    BY <1>3 DEF IsPermutation
  <2> DEFINE g == RowBegins(f, k)
  <2>2. g \in Bijection(0 .. k, 0 .. k) /\ g[0] = k /\ \A l \in 1 .. k : g[l] = f[l - 1]
    BY RowBeginsAll
  <2> HIDE DEF g
  <2>3. \A l \in 0 + 1 .. k : l \in 1 .. k /\ l - 1 \in 0 .. k - 1
    OBVIOUS
  <2>4. k \in 0 .. n - 1
    OBVIOUS
  <2>5. ComeFrom(in, d, c, k, 0, g)
    BY <1>1, <2>1, <2>2, <2>3, <2>4 DEF ComeFrom
  <2>6. QED
    BY <2>4, <2>5, RowPermutes
<1> HIDE DEF S
<1>4. n - 1 \in Nat
  OBVIOUS
<1>5. i \in S
  BY <1>2, <1>3, <1>4, Steps
<1>6. QED
  BY <1>5 DEF S
-----------------------------------------------------------------------------
(* The sorting network's wires are written by one gate each.                *)

LEMMA NthNext ==
  ASSUME NEW i \in Nat, NEW j \in Int
  PROVE  Nth(i, 0) \in Nat /\ Nth(i, j) = Nth(i, 0) + j /\ Nth(i, j - 1) + 1 = Nth(i, j)
<1> DEFINE b == (i * (i + 1)) \div 2
<1>1. Nth(i, 0) \in Nat /\ 0 \in Nat
  BY NthIs
<1>2. Nth(i, 0) = b + 0 /\ Nth(i, j) = b + j /\ Nth(i, j - 1) = b + (j - 1)
  BY DEF Nth
<1>3. b \in Int
  <2>1. i * (i + 1) \in Nat
    OBVIOUS
  <2> DEFINE q == i * (i + 1)
  <2> HIDE DEF q
  <2>2. q \in Nat => q \div 2 \in Int
    OBVIOUS
  <2>3. QED
    BY <2>1, <2>2 DEF q
<1> HIDE DEF b
<1>4. QED
  BY <1>1, <1>2, <1>3

LEMMA RowsFollow ==
  ASSUME NEW i \in Nat, NEW k \in Nat, i < k
  PROVE  Nth(i, 0) + i < Nth(k, 0)
<1> DEFINE S == {m \in Nat : Nth(i, 0) + i < Nth(i + 1 + m, 0)}
           n == k - i - 1
<1>1. Nth(i, 0) \in Nat /\ Nth(i + 1, 0) = Nth(i, 0) + i + 1 /\ 0 \in Nat
  BY NthIs
<1>2. 0 \in S
  BY <1>1
<1>3. ASSUME NEW m \in 1 .. n, m - 1 \in S PROVE m \in S
  <2> DEFINE h == i + 1 + (m - 1)
  <2>1. h \in Nat /\ i + 1 + m = h + 1 /\ 0 \in Nat
    OBVIOUS
  <2>2. Nth(i, 0) + i < Nth(h, 0)
    BY <1>3
  <2> HIDE DEF h
  <2>3. Nth(h, 0) \in Nat /\ Nth(h + 1, 0) = Nth(h, 0) + h + 1
    BY <2>1, NthIs
  <2>4. Nth(i, 0) + i < Nth(h + 1, 0)
    BY <1>1, <2>1, <2>2, <2>3
  <2>5. m \in Nat
    OBVIOUS
  <2>6. QED
    BY <2>1, <2>4, <2>5
<1>4. n \in Nat /\ i + 1 + n = k
  OBVIOUS
<1> HIDE DEF S, n
<1>5. n \in S
  BY <1>2, <1>3, <1>4, Steps
<1>6. QED
  BY <1>4, <1>5 DEF S

\* triangle_nth numbers the boxes of the triangle.
LEMMA NthNumbers ==
  ASSUME NEW i \in Nat, NEW j \in 0 .. i, NEW k \in Nat, NEW l \in 0 .. k, Nth(i, j) = Nth(k, l)
  PROVE  i = k /\ j = l
<1> DEFINE a == Nth(i, 0)
           b == Nth(k, 0)
<1>1. a \in Nat /\ b \in Nat /\ a + j = b + l
  BY NthNext
<1>2. /\ i < k => a + i < b
      /\ k < i => b + k < a
  BY RowsFollow
<1>3. i = k => a = b
  OBVIOUS
<1> HIDE DEF a, b
<1>4. i = k
  BY <1>1, <1>2
<1>5. QED
  BY <1>1, <1>3, <1>4

\* A box takes what the box above lets down and what the box to the left passes on.
LEMMA BoxPorts ==
  ASSUME NEW elem \in Nat, NEW i \in 0 .. elem - 1, NEW j \in 0 .. i
  PROVE  /\ Left(i, 0) = Wire("i", i)
         /\ Down(i, j, elem) = IF i = elem - 1 THEN Wire("o", j) ELSE Wire("y", Nth(i, j))
         /\ Nth(i, j) \in Nat
         /\ j = i => Up(i, j) = NULL /\ Right(i, j) = NULL
         /\ j # i => /\ Up(i, j) = Down(i - 1, j, elem) /\ Left(i, j + 1) = Right(i, j)
                     /\ Right(i, j) = Wire("x", Nth(i - 1, j)) /\ Nth(i - 1, j) \in Nat
                     /\ i - 1 \in Nat /\ j \in 0 .. i - 1
         /\ Left(i, j) # NULL /\ Down(i, j, elem) # NULL
         /\ j # i => Up(i, j) # NULL /\ Right(i, j) # NULL
<1>1. i \in Nat /\ j \in Nat /\ j \in Int
  OBVIOUS
<1>2. Left(i, 0) = Wire("i", i)
  BY DEF Left
<1>3. Nth(i, j) \in Nat
  BY <1>1, NthIs
<1>4. Down(i, j, elem) = IF i = elem - 1 THEN Wire("o", j) ELSE Wire("y", Nth(i, j))
  BY DEF Down
<1>5. j = i => Up(i, j) = NULL /\ Right(i, j) = NULL
  BY DEF Up, Right
<1>6. ASSUME NEW k \in 0 .. i - 1
      PROVE  /\ Up(i, k) = Down(i - 1, k, elem) /\ Left(i, k + 1) = Right(i, k)
             /\ Right(i, k) = Wire("x", Nth(i - 1, k)) /\ Nth(i - 1, k) \in Nat
             /\ Down(i - 1, k, elem) = Wire("y", Nth(i - 1, k))
  <2>1. i - 1 \in Nat /\ k \in Int /\ k \in Nat /\ i # k /\ k + 1 # 0 /\ (k + 1) - 1 = k /\ i - 1 # elem - 1
    OBVIOUS
  <2>2. Nth(i - 1, k) \in Nat /\ Nth(i - 1, k - 1) + 1 = Nth(i - 1, k)
    BY <2>1, NthIs, NthNext
  <2>3. Up(i, k) = Wire("y", Nth(i - 1, k))
    BY <2>1, <2>2 DEF Up
  <2>4. Down(i - 1, k, elem) = Wire("y", Nth(i - 1, k))
    BY <2>1 DEF Down
  <2>5. Left(i, k + 1) = Wire("x", Nth(i - 1, k)) /\ Right(i, k) = Wire("x", Nth(i - 1, k))
    BY <2>1 DEF Left, Right
  <2>6. QED
    BY <2>2, <2>3, <2>4, <2>5
<1>7. j # i => j \in 0 .. i - 1 /\ i - 1 \in Nat
  OBVIOUS
<1>8. Left(i, j) # NULL
  <2>1. CASE j = 0
    BY <1>1, <1>2, <2>1, NoWireIsNULL
  <2>2. CASE j # 0
    <3>1. j - 1 \in 0 .. i - 1 /\ (j - 1) + 1 = j
      BY <2>2
    <3>2. Left(i, (j - 1) + 1) = Wire("x", Nth(i - 1, j - 1)) /\ Nth(i - 1, j - 1) \in Nat
      BY <1>6, <3>1
    <3>3. QED
      BY <3>1, <3>2, NoWireIsNULL
  <2>3. QED
    BY <2>1, <2>2
<1>9. Down(i, j, elem) # NULL
  BY <1>1, <1>3, <1>4, NoWireIsNULL
<1>10. j # i => Up(i, j) # NULL /\ Right(i, j) # NULL
  BY <1>6, <1>7, NoWireIsNULL
<1>11. QED
  BY <1>2, <1>3, <1>4, <1>5, <1>6, <1>7, <1>8, <1>9, <1>10

Boxes(elem) == {p \in (0 .. elem - 1) \X (0 .. elem - 1) : p[2] <= p[1]}

LEMMA NetworkIs ==
  ASSUME NEW creator, NEW elem \in Nat
  PROVE  LET c == Network(creator, elem)
         IN  /\ DOMAIN c.kind = Boxes(elem)
             /\ \A p \in Boxes(elem) :
                  /\ c.kind[p] = creator
                  /\ c.in[p] = <<Up(p[1], p[2]), Left(p[1], p[2])>>
                  /\ c.out[p] = <<Down(p[1], p[2], elem), Right(p[1], p[2])>>
             /\ DOMAIN c.given = 1 .. elem /\ DOMAIN c.result = 1 .. elem
             /\ Len(c.given) = elem /\ Len(c.result) = elem
             /\ \A k \in 1 .. elem : c.given[k] = Wire("i", k - 1) /\ c.result[k] = Wire("o", k - 1)
<1> DEFINE c == Network(creator, elem)
<1>1. /\ DOMAIN c.kind = Boxes(elem)
      /\ \A p \in Boxes(elem) :
                  /\ c.kind[p] = creator
                  /\ c.in[p] = <<Up(p[1], p[2]), Left(p[1], p[2])>>
                  /\ c.out[p] = <<Down(p[1], p[2], elem), Right(p[1], p[2])>>
  BY DEF Network, Boxes
<1>2. c.given = [k \in 1 .. elem |-> Wire("i", k - 1)] /\ c.result = [k \in 1 .. elem |-> Wire("o", k - 1)]
  BY DEF Network
<1> HIDE DEF c
<1>3. Len(c.given) = elem /\ Len(c.result) = elem
  BY <1>2, LenProperties
<1>4. QED
  BY <1>1, <1>2, <1>3 DEF c

LEMMA BoxIs ==
  ASSUME NEW elem \in Nat, NEW p \in Boxes(elem)
  PROVE  p[1] \in 0 .. elem - 1 /\ p[2] \in 0 .. p[1] /\ p = <<p[1], p[2]>> /\ p[1] \in Nat
BY DEF Boxes

LEMMA NetworksHaveOneWriter ==
  ASSUME NEW creator, NEW elem \in Nat
  PROVE  OneWriter(Network(creator, elem))
<1> DEFINE c == Network(creator, elem)
           Down2(p) == Down(p[1], p[2], elem)
           Right2(p) == Right(p[1], p[2])
<1>1. /\ DOMAIN c.kind = Boxes(elem)
      /\ \A p \in Boxes(elem) : c.out[p] = <<Down2(p), Right2(p)>>
      /\ DOMAIN c.given = 1 .. elem
      /\ \A k \in 1 .. elem : c.given[k] = Wire("i", k - 1)
  BY NetworkIs
<1>2. \A p \in Boxes(elem) : DOMAIN c.out[p] = {1, 2} /\ c.out[p][1] = Down2(p) /\ c.out[p][2] = Right2(p)
  <2>1. \A x, y : DOMAIN <<x, y>> = 1 .. 2 /\ 1 .. 2 = {1, 2}
    OBVIOUS
  <2> HIDE DEF c
  <2>2. QED
    BY <1>1, <2>1
<1> HIDE DEF c, Down2, Right2
<1>3. ASSUME NEW p \in Boxes(elem)
      PROVE  /\ Down2(p) = IF p[1] = elem - 1 THEN Wire("o", p[2]) ELSE Wire("y", Nth(p[1], p[2]))
             /\ Right2(p) # NULL => /\ Right2(p) = Wire("x", Nth(p[1] - 1, p[2])) /\ p[1] - 1 \in Nat
                                    /\ p[2] \in 0 .. p[1] - 1
  BY BoxIs, BoxPorts DEF Down2, Right2
<1>4. ASSUME NEW p \in Boxes(elem), NEW q \in Boxes(elem), Down2(p) = Down2(q) PROVE p = q
  <2>1. /\ p[1] \in Nat /\ p[2] \in 0 .. p[1] /\ q[1] \in Nat /\ q[2] \in 0 .. q[1]
        /\ p = <<p[1], p[2]>> /\ q = <<q[1], q[2]>>
    BY BoxIs
  <2>2. CASE p[1] = elem - 1
    <3>1. q[1] = elem - 1 /\ p[2] = q[2]
      BY <1>3, <1>4, <2>2, WireIs
    <3>2. QED
      BY <2>1, <2>2, <3>1
  <2>3. CASE p[1] # elem - 1
    <3>1. Nth(p[1], p[2]) = Nth(q[1], q[2])
      BY <1>3, <1>4, <2>3, WireIs
    <3>2. p[1] = q[1] /\ p[2] = q[2]
      BY <2>1, <3>1, NthNumbers
    <3>3. QED
      BY <2>1, <3>2
  <2>4. QED
    BY <2>2, <2>3
<1>5. ASSUME NEW p \in Boxes(elem), NEW q \in Boxes(elem), Right2(p) # NULL, Right2(p) = Right2(q) PROVE p = q
  <2>1. /\ p[1] \in Nat /\ q[1] \in Nat /\ p = <<p[1], p[2]>> /\ q = <<q[1], q[2]>>
    BY BoxIs
  <2>2. /\ p[1] - 1 \in Nat /\ p[2] \in 0 .. p[1] - 1 /\ q[1] - 1 \in Nat /\ q[2] \in 0 .. q[1] - 1
        /\ Nth(p[1] - 1, p[2]) = Nth(q[1] - 1, q[2])
    BY <1>3, <1>5, WireIs
  <2>3. p[1] - 1 = q[1] - 1 /\ p[2] = q[2]
    BY <2>2, NthNumbers
  <2>4. p[1] = q[1]
    BY <2>1, <2>3
  <2>5. QED
    BY <2>1, <2>3, <2>4
<1>6. ASSUME NEW p \in Boxes(elem), NEW q \in Boxes(elem), Right2(q) # NULL PROVE Down2(p) # Right2(q)
  BY <1>3, <1>6, WireIs
<1>7. ASSUME NEW k \in 1 .. elem, NEW p \in Boxes(elem) PROVE c.given[k] # Down2(p) /\ c.given[k] # Right2(p)
  <2>1. c.given[k] = Wire("i", k - 1) /\ k - 1 \in Nat
    BY <1>1
  <2>2. c.given[k] # NULL
    BY <2>1, NoWireIsNULL
  <2>3. QED
    BY <1>3, <2>1, <2>2, WireIs
<1>8. ASSUME NEW p \in Boxes(elem), NEW q \in Boxes(elem), NEW o \in DOMAIN c.out[p], NEW r \in DOMAIN c.out[q],
             c.out[p][o] # NULL, c.out[p][o] = c.out[q][r]
      PROVE  p = q /\ o = r
  BY <1>2, <1>4, <1>5, <1>6, <1>8
<1>9. OneWriter(c)
  BY <1>1, <1>2, <1>7, <1>8 DEF OneWriter
<1>10. QED
  BY <1>9 DEF c

LEMMA AdderHasOneWriter == OneWriter(AddAndPrint)
<1> DEFINE c == AddAndPrint
           a == Wire("a", 0)
           b == Wire("b", 0)
           sum == Wire("sum", 0)
<1>1. /\ DOMAIN c.kind = {"add", "print"} /\ c.out["add"] = <<sum>> /\ c.out["print"] = <<>>
      /\ c.given = <<a, b>>
  BY DEF AddAndPrint, Wrapped
<1>2. a # sum /\ b # sum
  BY WireIs
<1> HIDE DEF c, a, b, sum
<1>3. /\ DOMAIN c.out["add"] = {1} /\ c.out["add"][1] = sum /\ DOMAIN c.out["print"] = {}
      /\ \A n \in DOMAIN c.given : c.given[n] \in {a, b}
  BY <1>1
<1>4. OneWriter(c)
  BY <1>1, <1>2, <1>3 DEF OneWriter
<1>5. QED
  BY <1>4 DEF c
-----------------------------------------------------------------------------
(* Between calls the wires of a network have what the triangle computes.    *)

LEMMA NumberThere ==
  ASSUME CallInv, phase = "enabled", NEW w \in Wires, There(wire_value, w)
  PROVE  Num(w) \in Nat
<1>1. wire_value[w] \in Values /\ ~IsFree(wire_value[w]) /\ value \in [Values -> Cell]
  BY Used DEF CallInv, TypeOK, There
<1>2. QED
  BY <1>1, CellFacts DEF IsFree, Num

\* A settled gate's outputs have what it makes of its inputs.
LEMMA OutputHas ==
  ASSUME CallInv, phase = "enabled", Settled, NEW g \in Gates, circuit.kind[g] \in Sorters,
         NEW o \in 1 .. 2, NEW num \in Nat, circuit.out[g][o] # NULL,
         SortMakes(wire_value, value, circuit.in[g], circuit.out[g], circuit.out[g][o], num)
  PROVE  There(wire_value, circuit.out[g][o]) /\ Num(circuit.out[g][o]) = num
<1> DEFINE w == circuit.out[g][o]
<1>1. DOMAIN circuit.out[g] = 1 .. 2
  BY Typed, Ports DEF CallInv
<1>2. w \in OutWires(g)
  BY <1>1, Ports DEF CallInv
<1>3. Makes(wire_value, value, g, w, num)
  BY <1>2 DEF Makes
<1>4. Has(wire_value, value, w, num)
  BY <1>2, <1>3 DEF Settled
<1>5. QED
  BY <1>4 DEF Has, There, NumOf, Num

SettledNetwork(elem) ==
  /\ CallInv /\ phase = "enabled" /\ Settled
  /\ \E creator \in Sorters : circuit = Network(creator, elem)
  /\ \A k \in 0 .. elem - 1 : There(wire_value, Wire("i", k))

LEMMA BoxSettled ==
  ASSUME NEW elem \in Nat, SettledNetwork(elem), NEW i \in 0 .. elem - 1, NEW j \in 0 .. i,
         There(wire_value, Left(i, j)), j # i => There(wire_value, Up(i, j))
  PROVE  /\ There(wire_value, Down(i, j, elem))
         /\ Num(Left(i, j)) \in Nat
         /\ j = i => Num(Down(i, j, elem)) = Num(Left(i, j))
         /\ j # i => /\ Num(Up(i, j)) \in Nat
                     /\ Num(Down(i, j, elem)) = Least(Num(Up(i, j)), Num(Left(i, j)))
                     /\ There(wire_value, Right(i, j))
                     /\ Num(Right(i, j)) = Greatest(Num(Up(i, j)), Num(Left(i, j)))
<1> DEFINE g == <<i, j>>
           in == circuit.in[g]
           out == circuit.out[g]
           up == Up(i, j)
           left == Left(i, j)
           down == Down(i, j, elem)
           right == Right(i, j)
<1>1. PICK creator \in Sorters : circuit = Network(creator, elem)
  BY DEF SettledNetwork
<1>2. CallInv /\ phase = "enabled" /\ Settled
  BY DEF SettledNetwork
<1>3. g \in Boxes(elem) /\ g[1] = i /\ g[2] = j
  BY DEF Boxes
<1>4. g \in Gates /\ circuit.kind[g] \in Sorters /\ in = <<up, left>> /\ out = <<down, right>>
  BY <1>1, <1>3, NetworkIs DEF Gates
<1>5. /\ in[1] = up /\ in[2] = left /\ out[1] = down /\ out[2] = right
      /\ left # NULL /\ down # NULL /\ (j = i => up = NULL) /\ (j # i => up # NULL /\ right # NULL)
  BY <1>4, BoxPorts
<1>6. ASSUME NEW k \in 1 .. 2, in[k] # NULL PROVE in[k] \in Wires
  <2>1. DOMAIN in = 1 .. 2
    BY <1>2, <1>4, Typed, Ports DEF CallInv
  <2>2. QED
    BY <1>2, <1>4, <1>6, <2>1, Ports DEF CallInv, InWires
<1>7. Num(left) \in Nat /\ (j # i => Num(up) \in Nat)
  BY <1>2, <1>5, <1>6, NumberThere
<1> HIDE DEF g, in, out, up, left, down, right
<1>8. CASE j = i
  <2>1. SortMakes(wire_value, value, in, out, out[1], Num(left))
    BY <1>5, <1>8 DEF SortMakes, NumOf, Num, left
  <2>2. There(wire_value, down) /\ Num(down) = Num(left)
    BY <1>2, <1>4, <1>5, <1>7, <2>1, OutputHas DEF in, out
  <2>3. QED
    BY <1>7, <1>8, <2>2 DEF down, left
<1>9. CASE j # i
  <2>1. There(wire_value, up) /\ There(wire_value, left)
    BY <1>9 DEF up, left
  <2>2. SortMakes(wire_value, value, in, out, out[1], Least(Num(up), Num(left)))
    BY <1>5, <1>9, <2>1 DEF SortMakes, NumOf, Num
  <2>3. SortMakes(wire_value, value, in, out, out[2], Greatest(Num(up), Num(left)))
    BY <1>5, <1>9, <2>1 DEF SortMakes, NumOf, Num
  <2>4. Least(Num(up), Num(left)) \in Nat /\ Greatest(Num(up), Num(left)) \in Nat
    BY <1>7, <1>9 DEF Least, Greatest
  <2>5. There(wire_value, down) /\ Num(down) = Least(Num(up), Num(left))
    BY <1>2, <1>4, <1>5, <2>2, <2>4, OutputHas DEF in, out
  <2>6. There(wire_value, right) /\ Num(right) = Greatest(Num(up), Num(left))
    BY <1>2, <1>4, <1>5, <1>9, <2>3, <2>4, OutputHas DEF in, out
  <2>7. QED
    BY <1>7, <1>9, <2>5, <2>6 DEF up, left, down, right
<1>10. QED
  BY <1>8, <1>9

LEMMA RowThere ==
  ASSUME NEW elem \in Nat, SettledNetwork(elem), NEW i \in 0 .. elem - 1,
         \A k \in 0 .. i - 1 : There(wire_value, Down(i - 1, k, elem))
  PROVE  \A j \in 0 .. i :
           /\ There(wire_value, Left(i, j)) /\ There(wire_value, Down(i, j, elem))
           /\ j # i => There(wire_value, Up(i, j))
<1> DEFINE S == {j \in 0 .. i : There(wire_value, Left(i, j))}
<1>1. i \in Nat /\ 0 \in 0 .. i
  OBVIOUS
<1>2. ASSUME NEW j \in 0 .. i, j # i PROVE There(wire_value, Up(i, j))
  BY <1>2, BoxPorts
<1>3. 0 \in S
  BY <1>1, BoxPorts DEF SettledNetwork
<1>4. ASSUME NEW k \in 1 .. i, k - 1 \in S PROVE k \in S
  <2>1. k - 1 \in 0 .. i /\ k - 1 # i /\ (k - 1) + 1 = k /\ k \in 0 .. i
    OBVIOUS
  <2>2. There(wire_value, Right(i, k - 1))
    BY <1>2, <1>4, <2>1, BoxSettled
  <2>3. Left(i, k) = Right(i, k - 1)
    BY <2>1, BoxPorts
  <2>4. QED
    BY <2>1, <2>2, <2>3
<1>5. \A j \in 0 .. i : j \in S
  <2> HIDE DEF S
  <2>1. QED
    BY <1>1, <1>3, <1>4, Steps
<1>6. ASSUME NEW j \in 0 .. i PROVE There(wire_value, Left(i, j)) /\ There(wire_value, Down(i, j, elem))
  BY <1>2, <1>5, BoxSettled
<1>7. QED
  BY <1>2, <1>6

LEMMA AllThere ==
  ASSUME NEW elem \in Nat, SettledNetwork(elem), NEW i \in 0 .. elem - 1
  PROVE  \A j \in 0 .. i :
           /\ There(wire_value, Left(i, j)) /\ There(wire_value, Down(i, j, elem))
           /\ j # i => There(wire_value, Up(i, j))
<1> DEFINE Row(r) == \A j \in 0 .. r :
                       /\ There(wire_value, Left(r, j)) /\ There(wire_value, Down(r, j, elem))
                       /\ j # r => There(wire_value, Up(r, j))
           S == {r \in 0 .. elem - 1 : Row(r)}
<1>1. elem - 1 \in Nat /\ i \in Nat
  OBVIOUS
<1>2. 0 \in S
  BY <1>1, RowThere
<1>3. ASSUME NEW k \in 1 .. elem - 1, k - 1 \in S PROVE k \in S
  <2>1. Row(k)
    BY <1>3, RowThere
  <2>2. QED
    BY <2>1
<1>4. \A k \in 0 .. elem - 1 : k \in S
  <2> HIDE DEF S
  <2>1. QED
    BY <1>1, <1>2, <1>3, Steps
<1>5. QED
  BY <1>4

\* The numbers on the wires are those of the triangle: each row inserts an input.
LEMMA NetworkInserts ==
  ASSUME NEW elem \in Nat, SettledNetwork(elem)
  PROVE  Inserts(elem, [k \in 0 .. elem - 1 |-> Num(Wire("i", k))],
                 [p \in Boxes(elem) |-> Num(Down(p[1], p[2], elem))],
                 [p \in Boxes(elem) |-> Num(Left(p[1], p[2]))])
<1> DEFINE in == [k \in 0 .. elem - 1 |-> Num(Wire("i", k))]
           d == [p \in Boxes(elem) |-> Num(Down(p[1], p[2], elem))]
           c == [p \in Boxes(elem) |-> Num(Left(p[1], p[2]))]
<1>1. ASSUME NEW i \in 0 .. elem - 1, NEW j \in 0 .. i
      PROVE  d[<<i, j>>] = Num(Down(i, j, elem)) /\ c[<<i, j>>] = Num(Left(i, j))
  <2>1. <<i, j>> \in Boxes(elem)
    BY DEF Boxes
  <2>2. QED
    BY <2>1
<1>2. \A i \in 0 .. elem - 1 : in[i] = Num(Wire("i", i))
  OBVIOUS
<1> HIDE DEF in, d, c
<1>3. ASSUME NEW i \in 0 .. elem - 1
      PROVE  /\ c[<<i, 0>>] = in[i]
             /\ d[<<i, i>>] = c[<<i, i>>]
             /\ \A j \in 0 .. i : d[<<i, j>>] \in Nat /\ c[<<i, j>>] \in Nat
             /\ \A j \in 0 .. i - 1 :
                  /\ d[<<i, j>>] = Least(d[<<i - 1, j>>], c[<<i, j>>])
                  /\ c[<<i, j + 1>>] = Greatest(d[<<i - 1, j>>], c[<<i, j>>])
  <2>1. 0 \in 0 .. i /\ i \in 0 .. i
    OBVIOUS
  <2>2. ASSUME NEW j \in 0 .. i
        PROVE  /\ Num(Left(i, j)) \in Nat
               /\ j = i => Num(Down(i, j, elem)) = Num(Left(i, j))
               /\ j # i => /\ Num(Up(i, j)) \in Nat
                           /\ Num(Down(i, j, elem)) = Least(Num(Up(i, j)), Num(Left(i, j)))
                           /\ Num(Right(i, j)) = Greatest(Num(Up(i, j)), Num(Left(i, j)))
    BY AllThere, BoxSettled
  <2>3. c[<<i, 0>>] = in[i]
    BY <1>1, <1>2, <2>1, BoxPorts
  <2>4. d[<<i, i>>] = c[<<i, i>>]
    BY <1>1, <2>1, <2>2
  <2>5. ASSUME NEW j \in 0 .. i PROVE d[<<i, j>>] \in Nat /\ c[<<i, j>>] \in Nat
    BY <1>1, <2>2 DEF Least
  <2>6. ASSUME NEW j \in 0 .. i - 1
        PROVE  /\ d[<<i, j>>] = Least(d[<<i - 1, j>>], c[<<i, j>>])
               /\ c[<<i, j + 1>>] = Greatest(d[<<i - 1, j>>], c[<<i, j>>])
    <3>1. j \in 0 .. i /\ j # i /\ j + 1 \in 0 .. i /\ i - 1 \in 0 .. elem - 1 /\ j \in 0 .. i - 1
      OBVIOUS
    <3>2. Up(i, j) = Down(i - 1, j, elem) /\ Left(i, j + 1) = Right(i, j)
      BY <3>1, BoxPorts
    <3>3. d[<<i - 1, j>>] = Num(Up(i, j)) /\ c[<<i, j + 1>>] = Num(Right(i, j))
      BY <1>1, <3>1, <3>2
    <3>4. QED
      BY <1>1, <2>2, <3>1, <3>3
  <2>7. QED
    BY <2>3, <2>4, <2>5, <2>6
<1>4. Inserts(elem, in, d, c)
  BY <1>3 DEF Inserts
<1>5. QED
  BY <1>4 DEF in, d, c

\* The places of a permuted sequence that have something are as many as those of the
\* sequence itself.
LEMMA SameCount ==
  ASSUME NEW n \in Nat, NEW i, i = n - 1, NEW f \in Bijection(0 .. i, 0 .. i),
         NEW A \in SUBSET (1 .. n), NEW B \in SUBSET (1 .. n),
         \A k \in 0 .. i : k + 1 \in A <=> f[k] + 1 \in B
  PROVE  Cardinality(A) = Cardinality(B)
<1> DEFINE T == 0 .. i
           h == [m \in A |-> f[m - 1] + 1]
<1>1. /\ f \in [T -> T] /\ (\A a, b \in T : f[a] = f[b] => a = b) /\ (\A t \in T : \E s \in T : f[s] = t)
  BY DEF Bijection, Injection, Surjection, IsInjective
<1>2. /\ \A m \in 1 .. n : m - 1 \in T /\ (m - 1) + 1 = m
      /\ \A t \in T : t + 1 \in 1 .. n /\ (t + 1) - 1 = t
      /\ \A s, t \in T : s + 1 = t + 1 => s = t
      /\ \A a, b \in 1 .. n : a - 1 = b - 1 => a = b
  OBVIOUS
<1>3. \A k \in T : k + 1 \in A <=> f[k] + 1 \in B
  OBVIOUS
<1> HIDE DEF T
<1>4. \A m \in A : f[m - 1] \in T /\ h[m] \in B /\ m - 1 \in T /\ h[m] = f[m - 1] + 1
  BY <1>1, <1>2, <1>3
<1>5. h \in [A -> B]
  BY <1>4
<1>6. ASSUME NEW a \in A, NEW b \in A, h[a] = h[b] PROVE a = b
  <2>1. f[a - 1] = f[b - 1]
    BY <1>2, <1>4, <1>6
  <2>2. a - 1 = b - 1
    BY <1>1, <1>4, <2>1
  <2>3. QED
    BY <1>2, <2>2
<1>7. ASSUME NEW t \in B PROVE \E s \in A : h[s] = t
  <2>1. t \in 1 .. n /\ t - 1 \in T /\ (t - 1) + 1 = t
    BY <1>2
  <2>2. PICK s \in T : f[s] = t - 1
    BY <1>1, <2>1
  <2>3. s + 1 \in A /\ (s + 1) - 1 = s
    BY <1>2, <1>3, <2>1, <2>2
  <2>4. h[s + 1] = t
    BY <1>4, <2>1, <2>2, <2>3
  <2>5. QED
    BY <2>3, <2>4
<1>8. h \in Bijection(A, B)
  <2> HIDE DEF h
  <2>1. QED
    BY <1>5, <1>6, <1>7, Fun_IsBij
<1>9. IsFiniteSet(A)
  <2>1. IsFiniteSet(1 .. n)
    BY FS_Interval
  <2>2. QED
    BY <2>1, FS_Subset
<1>10. Cardinality(B) = Cardinality(A)
  <2> HIDE DEF h
  <2>1. ExistsBijection(A, B)
    BY <1>8 DEF ExistsBijection
  <2>2. QED
    BY <1>9, <2>1, FS_Bijection
<1>11. QED
  BY <1>10

\* With a number on every input the network's outputs are those numbers in order.
LEMMA NetworkIsRight ==
  ASSUME CallInv, Settled, NEW creator \in Sorters, NEW elem \in Nat, circuit = Network(creator, elem)
  PROVE  ResultIsRight
<1> DEFINE given == circuit.given
           result == circuit.result
           last == elem - 1
           in == [k \in 0 .. last |-> Num(Wire("i", k))]
           d == [p \in Boxes(elem) |-> Num(Down(p[1], p[2], elem))]
           c == [p \in Boxes(elem) |-> Num(Left(p[1], p[2]))]
<1>1. /\ DOMAIN given = 1 .. elem /\ DOMAIN result = 1 .. elem
      /\ Len(given) = elem /\ Len(result) = elem
      /\ \A k \in 1 .. elem : given[k] = Wire("i", k - 1) /\ result[k] = Wire("o", k - 1)
  BY NetworkIs
<1> HIDE DEF given, result
<1> SUFFICES ASSUME Ready
             PROVE  /\ \A n \in DOMAIN result : ValueOn(result[n]) # NULL
                    /\ \A m, n \in DOMAIN result : m < n => Num(result[m]) <= Num(result[n])
                    /\ \A num \in Numbers : Count(num, given) = Count(num, result)
  BY <1>1 DEF ResultIsRight, given, result
<1>2. SettledNetwork(elem)
  <2>1. ASSUME NEW k \in 0 .. elem - 1 PROVE There(wire_value, Wire("i", k))
    <3>1. k + 1 \in 1 .. elem /\ (k + 1) - 1 = k
      OBVIOUS
    <3>2. given[k + 1] = Wire("i", k) /\ ValueOn(given[k + 1]) # NULL
      BY <1>1, <3>1 DEF Ready, given
    <3>3. QED
      BY <3>2 DEF ValueOn, There
  <2>2. QED
    BY <2>1 DEF SettledNetwork, Ready
<1>3. CASE elem = 0
  <2>1. DOMAIN given = {} /\ DOMAIN result = {}
    BY <1>1, <1>3
  <2>2. \A num \in Numbers : Count(num, given) = Count(num, result)
    BY <2>1 DEF Count
  <2>3. QED
    BY <2>1, <2>2
<1>4. CASE elem # 0
  <2>1. last \in 0 .. elem - 1 /\ last \in Nat /\ last = elem - 1
    BY <1>4
  <2>2. Inserts(elem, in, d, c)
    BY <1>2, NetworkInserts
  <2>3. ASSUME NEW k \in 0 .. last
        PROVE  /\ d[<<last, k>>] = Num(Wire("o", k)) /\ in[k] = Num(Wire("i", k))
               /\ There(wire_value, Wire("o", k))
    <3>1. <<last, k>> \in Boxes(elem)
      BY <2>1 DEF Boxes
    <3>2. Down(last, k, elem) = Wire("o", k)
      BY <2>1, BoxPorts
    <3>3. QED
      BY <1>2, <2>1, <3>1, <3>2, AllThere
  <2>4. IsSorted(d, last)
    BY <2>1, <2>2, TriangleSorts
  <2>5. PICK f \in Bijection(0 .. last, 0 .. last) : \A k \in 0 .. last : d[<<last, k>>] = in[f[k]]
    BY <2>1, <2>2, TrianglePermutes DEF IsPermutation
  <2>6. \A n \in 1 .. elem : n - 1 \in 0 .. last
    OBVIOUS
  <2> HIDE DEF d, c, in, last
  <2>7. ASSUME NEW n \in 1 .. elem PROVE ValueOn(result[n]) # NULL /\ Num(result[n]) = d[<<last, n - 1>>]
    BY <1>1, <2>3, <2>6 DEF There, ValueOn
  <2>8. ASSUME NEW m \in 1 .. elem, NEW n \in 1 .. elem, m < n PROVE Num(result[m]) <= Num(result[n])
    <3>1. m - 1 < n - 1
      BY <2>8
    <3>2. d[<<last, m - 1>>] <= d[<<last, n - 1>>]
      BY <2>4, <2>6, <3>1 DEF IsSorted
    <3>3. QED
      BY <2>7, <3>2
  <2>9. ASSUME NEW num \in Numbers PROVE Count(num, given) = Count(num, result)
    <3> DEFINE A == {n \in 1 .. elem : Num(result[n]) = num}
               B == {n \in 1 .. elem : Num(given[n]) = num}
    <3>1. ASSUME NEW k \in 0 .. last PROVE k + 1 \in A <=> f[k] + 1 \in B
      <4>1. f[k] \in 0 .. last
        BY DEF Bijection, Injection
      <4>2. /\ k + 1 \in 1 .. elem /\ (k + 1) - 1 = k
            /\ f[k] + 1 \in 1 .. elem /\ (f[k] + 1) - 1 = f[k]
        BY <2>1, <4>1
      <4>3. Num(result[k + 1]) = d[<<last, k>>] /\ Num(given[f[k] + 1]) = in[f[k]]
        BY <1>1, <2>3, <2>7, <4>1, <4>2
      <4>4. QED
        BY <2>5, <4>2, <4>3
    <3>2. A \in SUBSET (1 .. elem) /\ B \in SUBSET (1 .. elem)
      OBVIOUS
    <3>3. Count(num, result) = Cardinality(A) /\ Count(num, given) = Cardinality(B)
      BY <1>1 DEF Count
    <3> HIDE DEF A, B
    <3>4. Cardinality(A) = Cardinality(B)
      BY <2>1, <3>1, <3>2, SameCount
    <3>5. QED
      BY <3>3, <3>4
  <2>10. QED
    BY <1>1, <2>7, <2>8, <2>9
<1>5. QED
  BY <1>3, <1>4

\* With a number on both inputs the adder's output is their sum.
LEMMA AdderIsRight ==
  ASSUME CallInv, Settled, circuit = AddAndPrint
  PROVE  ResultIsRight
<1> DEFINE a == Wire("a", 0)
           b == Wire("b", 0)
           sum == Wire("sum", 0)
<1>1. /\ "add" \in Gates /\ circuit.kind["add"] = "add"
      /\ circuit.in["add"] = <<a, b>> /\ circuit.out["add"] = <<sum>>
      /\ circuit.given = <<a, b>> /\ circuit.result = <<sum>>
  BY DEF AddAndPrint, Wrapped, Gates
<1>2. sum # NULL
  BY NoWireIsNULL
<1> HIDE DEF a, b, sum
<1>3. /\ DOMAIN circuit.given = 1 .. 2 /\ circuit.given[1] = a /\ circuit.given[2] = b
      /\ DOMAIN circuit.result = {1} /\ circuit.result[1] = sum
      /\ Len(circuit.given) = 2 /\ Len(circuit.result) = 1
      /\ circuit.in["add"][1] = a /\ circuit.in["add"][2] = b
      /\ DOMAIN circuit.out["add"] = {1} /\ circuit.out["add"][1] = sum
  BY <1>1
<1> SUFFICES ASSUME Ready PROVE ValueOn(sum) # NULL /\ Num(sum) = Num(a) + Num(b)
  BY <1>3 DEF ResultIsRight
<1>4. phase = "enabled" /\ There(wire_value, a) /\ There(wire_value, b)
  <2>1. ValueOn(circuit.given[1]) # NULL /\ ValueOn(circuit.given[2]) # NULL
    BY <1>3 DEF Ready
  <2>2. QED
    BY <1>3, <2>1 DEF Ready, ValueOn, There
<1>5. Num(a) \in Nat /\ Num(b) \in Nat
  <2>1. a \in Wires /\ b \in Wires
    BY <1>3, Typed DEF CallInv
  <2>2. QED
    BY <1>4, <2>1, NumberThere
<1>6. sum \in OutWires("add")
  BY <1>1, <1>2, <1>3, Ports DEF CallInv
<1>7. AddMakes(wire_value, value, circuit.in["add"], circuit.out["add"], sum, Num(a) + Num(b))
  <2>1. \A i \in 1 .. 2 : There(wire_value, circuit.in["add"][i])
    <3>1. \A i \in 1 .. 2 : i = 1 \/ i = 2
      OBVIOUS
    <3>2. QED
      BY <1>3, <1>4, <3>1
  <2>2. TryGet(circuit.out["add"], 1) = sum
    BY <1>3 DEF TryGet
  <2>3. QED
    BY <1>3, <2>1, <2>2 DEF AddMakes, NumOf, Num
<1>8. Num(a) + Num(b) \in Nat
  BY <1>5
<1>9. Makes(wire_value, value, "add", sum, Num(a) + Num(b))
  BY <1>1, <1>6, <1>7 DEF Makes
<1>10. Has(wire_value, value, sum, Num(a) + Num(b))
  BY <1>1, <1>6, <1>8, <1>9 DEF Settled
<1>11. QED
  BY <1>2, <1>10 DEF Has, NumOf, Num, ValueOn

\* In the circuits of computerphile_sort.c and test_functional_wrap, a sorting
\* network of any size and of any implementation of its gates, whose inputs are driven
\* in any order and again, each input's number is among the outputs as often as among
\* the inputs, and the outputs are in order; the adder has the sum.
THEOREM NetworksSort ==
  ASSUME Circuits \subseteq {Network(creator, elem) : creator \in Sorters, elem \in Nat} \cup {AddAndPrint}
  PROVE  Spec => []ResultIsRight
<1>1. \A c \in Circuits : HasNoLoop(c) /\ OneWriter(c)
  BY NetworksHaveNoLoop, AdderHasNoLoop, NetworksHaveOneWriter, AdderHasOneWriter
<1>2. Init => SettlesInv
  BY <1>1, CallsSettle
<1>3. SettlesInv /\ [Next]_vars => SettlesInv'
  BY <1>1, CallsSettle
<1>4. SettlesInv => ResultIsRight
  <2> SUFFICES ASSUME SettlesInv PROVE ResultIsRight
    OBVIOUS
  <2>1. CASE ~Ready
    BY <2>1 DEF ResultIsRight
  <2>2. CASE Ready
    <3>1. CallInv /\ Settled
      BY <2>2, IdleIsSettled DEF Ready, SettlesInv
    <3>2. circuit \in Circuits
      BY <3>1 DEF CallInv, TypeOK
    <3>3. QED
      BY <3>1, <3>2, NetworkIsRight, AdderIsRight
  <2>3. QED
    BY <2>1, <2>2
<1>5. QED
  BY <1>2, <1>3, <1>4, PTL DEF Spec
=============================================================================
