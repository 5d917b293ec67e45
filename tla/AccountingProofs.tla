------------------------- MODULE AccountingProofs -------------------------
(***************************************************************************)
(* Theorems about the libraries' registration, for any libraries, whatever *)
(* names they share, and any number of loads.                              *)
(***************************************************************************)
EXTENDS Accounting, SequenceTheorems, FiniteSetTheorems, WellFoundedInduction, TLAPS

(* Loops over arrays.                                                       *)

LEMMA LeastIs ==
  ASSUME NEW S, S \subseteq Nat, S # {}
  PROVE  \E n \in S : \A k \in S : n <= k
<1> DEFINE R == OpToRel(<, Nat)
<1>1. PICK n \in S : \A k \in S : ~(<<k, n>> \in R)
  BY NatLessThanWellFounded, WFMin
<1>2. \A k \in S : ~(k < n)
  BY <1>1 DEF OpToRel
<1>3. QED
  BY <1>2

\* Induction over the steps of a loop, for the set of those at which all is well.
LEMMA Steps ==
  ASSUME NEW n \in Nat, NEW S, 0 \in S, \A k \in 1 .. n : k - 1 \in S => k \in S
  PROVE  \A k \in 0 .. n : k \in S
<1> DEFINE Bad == {k \in 0 .. n : k \notin S}
<1>1. SUFFICES ASSUME Bad # {} PROVE FALSE
  OBVIOUS
<1>2. Bad \subseteq Nat /\ \A k \in 0 .. n : k \notin Bad => k \in S
  OBVIOUS
<1>3. PICK m \in Bad : \A k \in Bad : m <= k
  BY <1>1, <1>2, LeastIs
<1>4. m \in 1 .. n /\ m - 1 \in 0 .. n /\ m \notin S
  <2>1. m \in 0 .. n /\ m \notin S
    BY <1>3
  <2>2. m # 0
    BY <2>1
  <2>3. QED
    BY <2>1, <2>2
<1>5. m - 1 \notin Bad
  <2>1. ~(m <= m - 1)
    BY <1>4
  <2>2. QED
    BY <1>3, <2>1
<1>6. m - 1 \in S
  BY <1>2, <1>4, <1>5
<1>7. QED
  BY <1>4, <1>6

\* A loop that registers gates has a state after each of them.
LEMMA GatesLoop ==
  ASSUME NEW s, NEW gates, Len(gates) \in Nat
  PROVE  \E after : /\ after[0] = s
                    /\ \A n \in 1 .. Len(gates) : after[n] = RegisterGate(after[n - 1], gates[n])
                    /\ LoadGates(s, gates) = after[Len(gates)]
<1> DEFINE L == Len(gates)
           Is(f, k) == f = [n \in 0 .. k |-> IF n = 0 THEN s ELSE RegisterGate(f[n - 1], gates[n])]
           S == {k \in 0 .. L : \E f : Is(f, k)}
           after == CHOOSE f : Is(f, L)
<1>1. 0 \in S
  <2> DEFINE g == [n \in 0 .. 0 |-> s]
  <2>1. Is(g, 0)
    OBVIOUS
  <2> HIDE DEF g, Is
  <2>2. QED
    BY <2>1
<1>2. ASSUME NEW k \in 1 .. L, k - 1 \in S PROVE k \in S
  <2>1. PICK f : Is(f, k - 1)
    BY <1>2
  <2> DEFINE g == [n \in 0 .. k |-> IF n = k THEN RegisterGate(f[k - 1], gates[k]) ELSE f[n]]
  <2>2. Is(g, k)
    BY <2>1
  <2> HIDE DEF g, Is
  <2>3. QED
    BY <2>2
<1>3. L \in S
  BY <1>1, <1>2, Steps
<1>4. Is(after, L)
  BY <1>3
<1>5. LoadGates(s, gates) = after[L]
  BY DEF LoadGates, ForEach
<1> HIDE DEF after
<1>6. after[0] = s /\ \A n \in 1 .. L : after[n] = RegisterGate(after[n - 1], gates[n])
  BY <1>4
<1>7. QED
  BY <1>5, <1>6

\* ... and so has one that registers signals, ...
LEMMA SignalsLoop ==
  ASSUME NEW s, NEW sigs, Len(sigs) \in Nat
  PROVE  \E after : /\ after[0] = s
                    /\ \A n \in 1 .. Len(sigs) : after[n] = RegisterSignal(after[n - 1], sigs[n])
                    /\ LoadSignals(s, sigs) = after[Len(sigs)]
<1> DEFINE L == Len(sigs)
           Is(f, k) == f = [n \in 0 .. k |-> IF n = 0 THEN s ELSE RegisterSignal(f[n - 1], sigs[n])]
           S == {k \in 0 .. L : \E f : Is(f, k)}
           after == CHOOSE f : Is(f, L)
<1>1. 0 \in S
  <2> DEFINE g == [n \in 0 .. 0 |-> s]
  <2>1. Is(g, 0)
    OBVIOUS
  <2> HIDE DEF g, Is
  <2>2. QED
    BY <2>1
<1>2. ASSUME NEW k \in 1 .. L, k - 1 \in S PROVE k \in S
  <2>1. PICK f : Is(f, k - 1)
    BY <1>2
  <2> DEFINE g == [n \in 0 .. k |-> IF n = k THEN RegisterSignal(f[k - 1], sigs[k]) ELSE f[n]]
  <2>2. Is(g, k)
    BY <2>1
  <2> HIDE DEF g, Is
  <2>3. QED
    BY <2>2
<1>3. L \in S
  BY <1>1, <1>2, Steps
<1>4. Is(after, L)
  BY <1>3
<1>5. LoadSignals(s, sigs) = after[L]
  BY DEF LoadSignals, ForEach
<1> HIDE DEF after
<1>6. after[0] = s /\ \A n \in 1 .. L : after[n] = RegisterSignal(after[n - 1], sigs[n])
  BY <1>4
<1>7. QED
  BY <1>5, <1>6

\* ... constants, ...
LEMMA ConstantsLoop ==
  ASSUME NEW s, NEW consts, Len(consts) \in Nat
  PROVE  \E after : /\ after[0] = s
                    /\ \A n \in 1 .. Len(consts) : after[n] = RegisterConstant(after[n - 1], consts[n])
                    /\ LoadConstants(s, consts) = after[Len(consts)]
<1> DEFINE L == Len(consts)
           Is(f, k) == f = [n \in 0 .. k |-> IF n = 0 THEN s ELSE RegisterConstant(f[n - 1], consts[n])]
           S == {k \in 0 .. L : \E f : Is(f, k)}
           after == CHOOSE f : Is(f, L)
<1>1. 0 \in S
  <2> DEFINE g == [n \in 0 .. 0 |-> s]
  <2>1. Is(g, 0)
    OBVIOUS
  <2> HIDE DEF g, Is
  <2>2. QED
    BY <2>1
<1>2. ASSUME NEW k \in 1 .. L, k - 1 \in S PROVE k \in S
  <2>1. PICK f : Is(f, k - 1)
    BY <1>2
  <2> DEFINE g == [n \in 0 .. k |-> IF n = k THEN RegisterConstant(f[k - 1], consts[k]) ELSE f[n]]
  <2>2. Is(g, k)
    BY <2>1
  <2> HIDE DEF g, Is
  <2>3. QED
    BY <2>2
<1>3. L \in S
  BY <1>1, <1>2, Steps
<1>4. Is(after, L)
  BY <1>3
<1>5. LoadConstants(s, consts) = after[L]
  BY DEF LoadConstants, ForEach
<1> HIDE DEF after
<1>6. after[0] = s /\ \A n \in 1 .. L : after[n] = RegisterConstant(after[n - 1], consts[n])
  BY <1>4
<1>7. QED
  BY <1>5, <1>6

\* ... and libraries.
LEMMA LibrariesLoop ==
  ASSUME NEW s, Len(Embedded) \in Nat
  PROVE  \E after : /\ after[0] = s
                    /\ \A n \in 1 .. Len(Embedded) : after[n] = LoadEmbedded(after[n - 1], Embedded[n])
                    /\ LoadEmbeddedModules(s) = after[Len(Embedded)]
<1> DEFINE L == Len(Embedded)
           Is(f, k) == f = [n \in 0 .. k |-> IF n = 0 THEN s ELSE LoadEmbedded(f[n - 1], Embedded[n])]
           S == {k \in 0 .. L : \E f : Is(f, k)}
           after == CHOOSE f : Is(f, L)
<1>1. 0 \in S
  <2> DEFINE g == [n \in 0 .. 0 |-> s]
  <2>1. Is(g, 0)
    OBVIOUS
  <2> HIDE DEF g, Is
  <2>2. QED
    BY <2>1
<1>2. ASSUME NEW k \in 1 .. L, k - 1 \in S PROVE k \in S
  <2>1. PICK f : Is(f, k - 1)
    BY <1>2
  <2> DEFINE g == [n \in 0 .. k |-> IF n = k THEN LoadEmbedded(f[k - 1], Embedded[k]) ELSE f[n]]
  <2>2. Is(g, k)
    BY <2>1
  <2> HIDE DEF g, Is
  <2>3. QED
    BY <2>2
<1>3. L \in S
  BY <1>1, <1>2, Steps
<1>4. Is(after, L)
  BY <1>3
<1>5. LoadEmbeddedModules(s) = after[L]
  BY DEF LoadEmbeddedModules, ForEach
<1> HIDE DEF after
<1>6. after[0] = s /\ \A n \in 1 .. L : after[n] = LoadEmbedded(after[n - 1], Embedded[n])
  BY <1>4
<1>7. QED
  BY <1>5, <1>6
-----------------------------------------------------------------------------
(* Arrays of entities.                                                      *)

LEMMA NamedIs ==
  ASSUME NEW a, Named(a)
  PROVE  /\ a \in Seq(Range(a)) /\ Len(a) \in Nat /\ DOMAIN a = 1 .. Len(a)
         /\ Range(a) = {a[n] : n \in 1 .. Len(a)}
         /\ \A e \in Range(a) : e.name \in STRING
<1>1. a \in Seq(Range(a)) /\ \A e \in Range(a) : e.name \in STRING
  BY DEF Named
<1>2. Len(a) \in Nat /\ DOMAIN a = 1 .. Len(a)
  BY <1>1
<1>3. QED
  BY <1>1, <1>2 DEF Range

LEMMA EmptyIsNamed == Named(<<>>) /\ Range(<<>>) = {}
BY DEF Named, Range

LEMMA RangeAppend ==
  ASSUME NEW a, a \in Seq(Range(a)), NEW e
  PROVE  /\ Append(a, e) \in Seq(Range(Append(a, e)))
         /\ Range(Append(a, e)) = Range(a) \cup {e}
<1> DEFINE T == Range(a) \cup {e}
           c == Append(a, e)
           L == Len(a)
<1>1. L \in Nat /\ DOMAIN a = 1 .. L
  OBVIOUS
<1>2. a \in Seq(T) /\ e \in T
  <2>1. Range(a) \subseteq T /\ e \in T
    OBVIOUS
  <2> HIDE DEF T
  <2>2. QED
    BY <2>1, SeqMonotonic
<1> HIDE DEF T
<1>3. /\ c \in Seq(T) /\ Len(c) = L + 1
      /\ \A n \in 1 .. L : c[n] = a[n]
      /\ c[L + 1] = e
  BY <1>2, AppendProperties
<1> HIDE DEF c
<1>4. DOMAIN c = 1 .. L + 1
  BY <1>3
<1>5. Range(c) = Range(a) \cup {e}
  <2>1. Range(c) = {c[n] : n \in 1 .. L + 1} /\ Range(a) = {a[n] : n \in 1 .. L}
    BY <1>1, <1>4 DEF Range
  <2>2. \A n \in 1 .. L + 1 : n \in 1 .. L \/ n = L + 1
    BY <1>1
  <2>3. \A n \in 1 .. L : n \in 1 .. L + 1
    BY <1>1
  <2>4. L + 1 \in 1 .. L + 1
    BY <1>1
  <2> HIDE DEF L
  <2>5. QED
    BY <1>3, <2>1, <2>2, <2>3, <2>4 DEF L
<1>6. QED
  BY <1>3, <1>5 DEF T, c

LEMMA RangeConcat ==
  ASSUME NEW a, NEW d, a \in Seq(Range(a)), d \in Seq(Range(d))
  PROVE  /\ a \o d \in Seq(Range(a \o d))
         /\ Range(a \o d) = Range(a) \cup Range(d)
<1> DEFINE T == Range(a) \cup Range(d)
           c == a \o d
           K == Len(a)
           L == Len(d)
<1>1. K \in Nat /\ DOMAIN a = 1 .. K /\ L \in Nat /\ DOMAIN d = 1 .. L
  OBVIOUS
<1>2. a \in Seq(T) /\ d \in Seq(T)
  <2>1. Range(a) \subseteq T /\ Range(d) \subseteq T
    OBVIOUS
  <2> HIDE DEF T
  <2>2. QED
    BY <2>1, SeqMonotonic
<1> HIDE DEF T
<1>3. /\ c \in Seq(T) /\ Len(c) = K + L
      /\ \A n \in 1 .. K + L : c[n] = IF n <= K THEN a[n] ELSE d[n - K]
  BY <1>2, ConcatProperties
<1> HIDE DEF c, K, L
<1>4. Range(c) = {c[n] : n \in 1 .. K + L} /\ Range(a) = {a[n] : n \in 1 .. K} /\ Range(d) = {d[n] : n \in 1 .. L}
  <2>1. DOMAIN c = 1 .. K + L
    BY <1>1, <1>3
  <2>2. QED
    BY <1>1, <2>1 DEF Range
<1>5. ASSUME NEW e \in Range(c) PROVE e \in Range(a) \cup Range(d)
  <2>1. PICK n \in 1 .. K + L : e = c[n]
    BY <1>4
  <2>2. CASE n <= K
    <3>1. n \in 1 .. K /\ e = a[n]
      BY <1>1, <1>3, <2>1, <2>2
    <3>2. QED
      BY <1>4, <3>1
  <2>3. CASE ~(n <= K)
    <3>1. n - K \in 1 .. L /\ e = d[n - K]
      BY <1>1, <1>3, <2>1, <2>3
    <3>2. QED
      BY <1>4, <3>1
  <2>4. QED
    BY <2>2, <2>3
<1>6. ASSUME NEW e \in Range(a) PROVE e \in Range(c)
  <2>1. PICK n \in 1 .. K : e = a[n]
    BY <1>4
  <2>2. n \in 1 .. K + L /\ c[n] = e
    BY <1>1, <1>3, <2>1
  <2>3. QED
    BY <1>4, <2>2
<1>7. ASSUME NEW e \in Range(d) PROVE e \in Range(c)
  <2>1. PICK n \in 1 .. L : e = d[n]
    BY <1>4
  <2> DEFINE m == K + n
  <2>2. m \in 1 .. K + L /\ ~(m <= K) /\ m - K = n
    BY <1>1, <2>1
  <2> HIDE DEF m
  <2>3. c[m] = e
    BY <1>3, <2>1, <2>2
  <2>4. QED
    BY <1>4, <2>2, <2>3
<1>8. Range(c) = T
  BY <1>5, <1>6, <1>7 DEF T
<1>9. QED
  BY <1>3, <1>8 DEF T, c

LEMMA NamedAppend ==
  ASSUME NEW a, Named(a), NEW e, e.name \in STRING
  PROVE  Named(Append(a, e)) /\ Range(Append(a, e)) = Range(a) \cup {e}
BY RangeAppend DEF Named

LEMMA NamedConcat ==
  ASSUME NEW a, NEW d, Named(a), Named(d)
  PROVE  Named(a \o d) /\ Range(a \o d) = Range(a) \cup Range(d)
BY RangeConcat DEF Named

LEMMA RegisteredIs ==
  ASSUME NEW a, NEW name
  PROVE  IsRegistered(a, name) <=> \E e \in Range(a) : e.name = name
BY DEF IsRegistered, Range
-----------------------------------------------------------------------------
(* What one registration does.                                              *)

Messages == {"Gate already registered.", "Signal already registered.", "Constant already registered."}

Texts == STRING \cup Messages

IsState(s) ==
  /\ s = [behaviors |-> s.behaviors, signals |-> s.signals, constants |-> s.constants,
          nodes |-> s.nodes, lib_gates |-> s.lib_gates, loaded |-> s.loaded, ready |-> s.ready,
          errors |-> s.errors, ret |-> s.ret, room |-> s.room]
  /\ Named(s.behaviors) /\ Named(s.signals) /\ Named(s.constants)
  /\ s.lib_gates = [lib \in DOMAIN Libraries |-> s.lib_gates[lib]]
  /\ \A lib \in DOMAIN Libraries : Named(s.lib_gates[lib])
  /\ s.errors \in Seq(Texts) /\ s.room \in Nat

\* A load adds to what is registered and to what is reported, ...
Follows(s, r) ==
  /\ IsState(r)
  /\ Range(s.behaviors) \subseteq Range(r.behaviors)
  /\ Range(s.signals) \subseteq Range(r.signals)
  /\ Range(s.constants) \subseteq Range(r.constants)
  /\ Range(s.errors) \subseteq Range(r.errors) /\ Len(s.errors) <= Len(r.errors)
  /\ r.lib_gates = s.lib_gates /\ r.loaded = s.loaded /\ r.ready = s.ready /\ r.room = s.room

\* ... or adds nothing.
SameEntities(s, r) ==
  r.behaviors = s.behaviors /\ r.signals = s.signals /\ r.constants = s.constants /\ r.nodes = s.nodes

IsTold(s, name) == Len(s.errors) >= s.room \/ name \in Range(s.errors)

LEMMA FollowsItself ==
  ASSUME NEW s, IsState(s)
  PROVE  Follows(s, s)
<1>1. Len(s.errors) \in Nat
  BY DEF IsState
<1>2. QED
  BY <1>1 DEF Follows

LEMMA FollowsOn ==
  ASSUME NEW s, NEW r, NEW q, IsState(s), Follows(s, r), Follows(r, q)
  PROVE  Follows(s, q)
<1>1. Len(s.errors) \in Nat /\ Len(r.errors) \in Nat /\ Len(q.errors) \in Nat
  BY DEF IsState, Follows
<1>2. QED
  BY <1>1 DEF Follows

LEMMA ToldStays ==
  ASSUME NEW s, NEW r, IsState(s), Follows(s, r), NEW name, IsTold(s, name)
  PROVE  IsTold(r, name)
<1>1. /\ Len(s.errors) \in Nat /\ Len(r.errors) \in Nat /\ s.room \in Nat /\ r.room = s.room
      /\ Len(s.errors) <= Len(r.errors) /\ Range(s.errors) \subseteq Range(r.errors)
  BY DEF IsState, Follows
<1>2. QED
  BY <1>1 DEF IsTold

LEMMA PairIs ==
  ASSUME NEW S, NEW x \in S, NEW y \in S
  PROVE  <<x, y>> \in Seq(S) /\ Len(<<x, y>>) = 2 /\ <<x, y>>[2] = y
OBVIOUS

LEMMA ReportIs ==
  ASSUME NEW s, IsState(s), NEW what \in Messages, NEW name \in STRING
  PROVE  LET r == Report(s, what, name)
         IN  /\ Follows(s, r) /\ SameEntities(s, r) /\ r.ret = s.ret
             /\ IsTold(r, name)
<1> DEFINE r == Report(s, what, name)
           L == Len(s.errors)
           R == s.room
           m == Min({R, L + 2})
           longer == s.errors \o <<what, name>>
           told == IF (1 .. R) \ (DOMAIN s.errors) = {} THEN s.errors ELSE SubSeq(longer, 1, m)
<1>1. /\ s.errors \in Seq(Texts) /\ L \in Nat /\ DOMAIN s.errors = 1 .. L /\ R \in Nat
  BY DEF IsState
<1>2. r = [s EXCEPT !.errors = told]
  BY DEF Report
<1>3. (1 .. R) \ (DOMAIN s.errors) = {} <=> L >= R
  <2>1. L >= R => (1 .. R) \ (DOMAIN s.errors) = {}
    BY <1>1
  <2>2. ~(L >= R) => R \in (1 .. R) \ (DOMAIN s.errors)
    BY <1>1
  <2>3. QED
    BY <2>1, <2>2
<1>4. /\ told \in Seq(Texts) /\ Len(told) \in Nat /\ L <= Len(told)
      /\ Range(s.errors) \subseteq Range(told)
      /\ Len(told) >= R \/ name \in Range(told)
  <2>1. CASE L >= R
    <3>1. told = s.errors
      BY <1>3, <2>1
    <3>2. QED
      BY <1>1, <2>1, <3>1
  <2>2. CASE ~(L >= R)
    <3>1. told = SubSeq(longer, 1, m)
      BY <1>3, <2>2
    <3>2. m \in Nat /\ L < m /\ m <= R /\ m <= L + 2 /\ (m = R \/ m = L + 2)
      <4> DEFINE S == {R, L + 2}
      <4>1. \E x \in S : \A y \in S : x <= y
        BY <1>1
      <4>2. m \in S /\ \A y \in S : m <= y
        BY <4>1 DEF Min
      <4>3. QED
        BY <1>1, <2>2, <4>2
    <3>3. /\ longer \in Seq(Texts) /\ Len(longer) = L + 2
          /\ \A n \in 1 .. L : longer[n] = s.errors[n]
          /\ longer[L + 2] = name
      <4> DEFINE pair == <<what, name>>
      <4>1. pair \in Seq(Texts) /\ Len(pair) = 2 /\ pair[2] = name
        BY PairIs DEF Texts
      <4> HIDE DEF pair
      <4>2. /\ s.errors \o pair \in Seq(Texts) /\ Len(s.errors \o pair) = L + Len(pair)
            /\ \A n \in 1 .. L + Len(pair) :
                 (s.errors \o pair)[n] = IF n <= L THEN s.errors[n] ELSE pair[n - L]
        BY <1>1, <4>1, ConcatProperties
      <4>3. longer = s.errors \o pair
        BY DEF pair
      <4> HIDE DEF longer, L
      <4>4. L + 2 \in 1 .. L + Len(pair) /\ ~(L + 2 <= L) /\ (L + 2) - L = 2
        BY <1>1, <4>1
      <4>5. longer[L + 2] = pair[2]
        BY <4>2, <4>3, <4>4
      <4>6. \A n \in 1 .. L : n \in 1 .. L + Len(pair) /\ n <= L
        BY <1>1, <4>1
      <4>7. QED
        BY <4>1, <4>2, <4>3, <4>5, <4>6
    <3> HIDE DEF longer, m
    <3>4. \A n \in 1 .. m : n \in 1 .. Len(longer)
      BY <1>1, <3>2, <3>3
    <3>5. \A n \in 1 .. m : longer[n] \in Texts
      BY <3>3, <3>4, ElementOfSeq
    <3>6. told \in Seq(Texts) /\ Len(told) = m /\ \A n \in 1 .. m : told[n] = longer[n]
      <4>1. 1 \in Int /\ m \in Int /\ 1 <= m /\ m - 1 + 1 = m /\ \A n \in 1 .. m : 1 + n - 1 = n
        BY <1>1, <3>2
      <4> DEFINE cut == SubSeq(longer, 1, m)
      <4>2. /\ cut \in Seq(Texts) /\ Len(cut) = IF 1 <= m THEN m - 1 + 1 ELSE 0
            /\ \A n \in 1 .. m - 1 + 1 : cut[n] = longer[1 + n - 1]
        BY <3>5, <4>1, SubSeqProperties
      <4> HIDE DEF cut
      <4>3. cut \in Seq(Texts) /\ Len(cut) = m /\ \A n \in 1 .. m : cut[n] = longer[n]
        BY <4>1, <4>2
      <4>4. told = cut
        BY <3>1 DEF cut
      <4>5. QED
        BY <4>3, <4>4
    <3> HIDE DEF told, L
    <3>7. DOMAIN told = 1 .. m
      BY <3>6
    <3>8. Range(s.errors) \subseteq Range(told)
      <4>1. ASSUME NEW n \in 1 .. L PROVE n \in 1 .. m /\ told[n] = s.errors[n]
        BY <1>1, <3>2, <3>3, <3>6
      <4>2. QED
        BY <1>1, <3>7, <4>1 DEF Range
    <3>9. m = L + 2 => name \in Range(told)
      <4>1. m = L + 2 => told[m] = name /\ m \in 1 .. m
        BY <1>1, <3>2, <3>3, <3>6
      <4>2. QED
        BY <3>7, <4>1 DEF Range
    <3>10. Len(told) >= R \/ name \in Range(told)
      BY <1>1, <3>2, <3>6, <3>9
    <3>11. QED
      BY <1>1, <3>2, <3>6, <3>8, <3>10
  <2>3. QED
    BY <2>1, <2>2
<1> HIDE DEF told, m, longer, r
<1>5. /\ r = [behaviors |-> s.behaviors, signals |-> s.signals, constants |-> s.constants,
              nodes |-> s.nodes, lib_gates |-> s.lib_gates, loaded |-> s.loaded, ready |-> s.ready,
              errors |-> told, ret |-> s.ret, room |-> s.room]
  BY <1>2 DEF IsState
<1>6. IsState(r)
  BY <1>4, <1>5 DEF IsState
<1>7. QED
  BY <1>4, <1>5, <1>6 DEF Follows, SameEntities, IsTold, r

LEMMA GateIs ==
  ASSUME NEW s, IsState(s), NEW gate, gate.name \in STRING
  PROVE  LET r == RegisterGate(s, gate)
         IN  /\ Follows(s, r) /\ r.signals = s.signals /\ r.constants = s.constants /\ r.ret = s.ret
             /\ IsRegistered(r.behaviors, gate.name)
             /\ gate \in Range(r.behaviors) \/ IsTold(r, gate.name)
             /\ IsRegistered(s.behaviors, gate.name) => SameEntities(s, r)
<1> DEFINE r == RegisterGate(s, gate)
<1>1. CASE IsRegistered(s.behaviors, gate.name)
  <2> DEFINE what == "Gate already registered."
  <2>0. what \in Messages
    BY DEF Messages
  <2>1. r = Report(s, what, gate.name)
    BY <1>1 DEF RegisterGate
  <2> HIDE DEF what
  <2> HIDE DEF r
  <2>2. Follows(s, r) /\ SameEntities(s, r) /\ r.ret = s.ret /\ IsTold(r, gate.name)
    BY <2>0, <2>1, ReportIs
  <2>3. QED
    BY <1>1, <2>2 DEF SameEntities, r
<1>2. CASE ~IsRegistered(s.behaviors, gate.name)
  <2> DEFINE more == Append(s.behaviors, gate)
             tree == ListAll(s.nodes, gate)
  <2>1. r = [s EXCEPT !.behaviors = more, !.nodes = tree]
    BY <1>2 DEF RegisterGate, RegisterAnyGate
  <2>2. Named(more) /\ Range(more) = Range(s.behaviors) \cup {gate}
    BY NamedAppend DEF IsState
  <2> HIDE DEF r, more, tree
  <2>3. r = [behaviors |-> more, signals |-> s.signals, constants |-> s.constants,
             nodes |-> tree, lib_gates |-> s.lib_gates, loaded |-> s.loaded, ready |-> s.ready,
             errors |-> s.errors, ret |-> s.ret, room |-> s.room]
    BY <2>1 DEF IsState
  <2>4. IsState(r)
    BY <2>2, <2>3 DEF IsState
  <2>5. Len(s.errors) \in Nat
    BY DEF IsState
  <2>6. Follows(s, r) /\ r.signals = s.signals /\ r.constants = s.constants /\ r.ret = s.ret
    BY <2>2, <2>3, <2>4, <2>5 DEF Follows
  <2>7. gate \in Range(r.behaviors)
    BY <2>2, <2>3
  <2>8. IsRegistered(r.behaviors, gate.name)
    BY <2>7, RegisteredIs
  <2>9. QED
    BY <1>2, <2>6, <2>7, <2>8 DEF r
<1>3. QED
  BY <1>1, <1>2

LEMMA SignalIs ==
  ASSUME NEW s, IsState(s), NEW signal, signal.name \in STRING
  PROVE  LET r == RegisterSignal(s, signal)
         IN  /\ Follows(s, r)
             /\ r.behaviors = s.behaviors /\ r.nodes = s.nodes /\ r.constants = s.constants
             /\ s.ret = "ok" => IsRegistered(r.signals, signal.name)
             /\ r.ret \in {s.ret, "registered"}
             /\ r.ret = "ok" => s.ret = "ok" /\ signal \in Range(r.signals)
             /\ s.ret # "ok" \/ IsRegistered(s.signals, signal.name) =>
                  SameEntities(s, r) /\ r.ret # "ok"
<1> DEFINE r == RegisterSignal(s, signal)
<1>1. CASE s.ret # "ok"
  <2>1. r = s
    BY <1>1 DEF RegisterSignal
  <2>2. QED
    BY <1>1, <2>1, FollowsItself DEF SameEntities
<1>2. CASE s.ret = "ok" /\ IsRegistered(s.signals, signal.name)
  <2> DEFINE what == "Signal already registered."
             q == Report(s, what, signal.name)
  <2>0. what \in Messages
    BY DEF Messages
  <2>1. r = [q EXCEPT !.ret = "registered"]
    BY <1>2 DEF RegisterSignal
  <2> HIDE DEF what
  <2>2. Follows(s, q) /\ SameEntities(s, q)
    BY <2>0, ReportIs
  <2> HIDE DEF r, q
  <2>3. IsState(q)
    BY <2>2 DEF Follows
  <2>4. r = [behaviors |-> q.behaviors, signals |-> q.signals, constants |-> q.constants,
             nodes |-> q.nodes, lib_gates |-> q.lib_gates, loaded |-> q.loaded, ready |-> q.ready,
             errors |-> q.errors, ret |-> "registered", room |-> q.room]
    BY <2>1, <2>3 DEF IsState
  <2>5. IsState(r)
    BY <2>3, <2>4 DEF IsState
  <2>6. Follows(s, r) /\ SameEntities(s, r) /\ r.ret = "registered"
    BY <2>2, <2>4, <2>5 DEF Follows, SameEntities
  <2>7. QED
    BY <1>2, <2>6 DEF SameEntities, r
<1>3. CASE s.ret = "ok" /\ ~IsRegistered(s.signals, signal.name)
  <2> DEFINE more == Append(s.signals, signal)
  <2>1. r = [s EXCEPT !.signals = more]
    BY <1>3 DEF RegisterSignal, ReportSignal
  <2>2. Named(more) /\ Range(more) = Range(s.signals) \cup {signal}
    BY NamedAppend DEF IsState
  <2> HIDE DEF r, more
  <2>3. r = [behaviors |-> s.behaviors, signals |-> more, constants |-> s.constants,
             nodes |-> s.nodes, lib_gates |-> s.lib_gates, loaded |-> s.loaded, ready |-> s.ready,
             errors |-> s.errors, ret |-> s.ret, room |-> s.room]
    BY <2>1 DEF IsState
  <2>4. IsState(r)
    BY <2>2, <2>3 DEF IsState
  <2>5. Len(s.errors) \in Nat
    BY DEF IsState
  <2>6. /\ Follows(s, r) /\ r.ret = s.ret
        /\ r.behaviors = s.behaviors /\ r.nodes = s.nodes /\ r.constants = s.constants
    BY <2>2, <2>3, <2>4, <2>5 DEF Follows
  <2>7. signal \in Range(r.signals)
    BY <2>2, <2>3
  <2>8. IsRegistered(r.signals, signal.name)
    BY <2>7, RegisteredIs
  <2>9. QED
    BY <1>3, <2>6, <2>7, <2>8 DEF r
<1>4. QED
  BY <1>1, <1>2, <1>3

LEMMA ConstantIs ==
  ASSUME NEW s, IsState(s), NEW constant, constant.name \in STRING
  PROVE  LET r == RegisterConstant(s, constant)
         IN  /\ Follows(s, r) /\ r.ret = s.ret
             /\ r.behaviors = s.behaviors /\ r.nodes = s.nodes /\ r.signals = s.signals
             /\ s.ret = "ok" =>
                  /\ IsRegistered(r.constants, constant.name)
                  /\ constant \in Range(r.constants) \/ IsTold(r, constant.name)
             /\ s.ret # "ok" \/ IsRegistered(s.constants, constant.name) => SameEntities(s, r)
<1> DEFINE r == RegisterConstant(s, constant)
<1>1. CASE s.ret # "ok"
  <2>1. r = s
    BY <1>1 DEF RegisterConstant
  <2>2. QED
    BY <1>1, <2>1, FollowsItself DEF SameEntities
<1>2. CASE s.ret = "ok" /\ IsRegistered(s.constants, constant.name)
  <2> DEFINE what == "Constant already registered."
  <2>0. what \in Messages
    BY DEF Messages
  <2>1. r = Report(s, what, constant.name)
    BY <1>2 DEF RegisterConstant
  <2> HIDE DEF what
  <2> HIDE DEF r
  <2>2. Follows(s, r) /\ SameEntities(s, r) /\ r.ret = s.ret /\ IsTold(r, constant.name)
    BY <2>0, <2>1, ReportIs
  <2>3. QED
    BY <1>2, <2>2 DEF SameEntities, r
<1>3. CASE s.ret = "ok" /\ ~IsRegistered(s.constants, constant.name)
  <2> DEFINE more == Append(s.constants, constant)
  <2>1. r = [s EXCEPT !.constants = more]
    BY <1>3 DEF RegisterConstant
  <2>2. Named(more) /\ Range(more) = Range(s.constants) \cup {constant}
    BY NamedAppend DEF IsState
  <2> HIDE DEF r, more
  <2>3. r = [behaviors |-> s.behaviors, signals |-> s.signals, constants |-> more,
             nodes |-> s.nodes, lib_gates |-> s.lib_gates, loaded |-> s.loaded, ready |-> s.ready,
             errors |-> s.errors, ret |-> s.ret, room |-> s.room]
    BY <2>1 DEF IsState
  <2>4. IsState(r)
    BY <2>2, <2>3 DEF IsState
  <2>5. Len(s.errors) \in Nat
    BY DEF IsState
  <2>6. /\ Follows(s, r) /\ r.ret = s.ret
        /\ r.behaviors = s.behaviors /\ r.nodes = s.nodes /\ r.signals = s.signals
    BY <2>2, <2>3, <2>4, <2>5 DEF Follows
  <2>7. constant \in Range(r.constants)
    BY <2>2, <2>3
  <2>8. IsRegistered(r.constants, constant.name)
    BY <2>7, RegisteredIs
  <2>9. QED
    BY <1>3, <2>6, <2>7, <2>8 DEF r
<1>4. QED
  BY <1>1, <1>2, <1>3
-----------------------------------------------------------------------------
(* What a library's loops do.                                               *)

LEMMA RegisteredStays ==
  ASSUME NEW a, NEW c, Range(a) \subseteq Range(c), NEW name, IsRegistered(a, name)
  PROVE  IsRegistered(c, name)
BY RegisteredIs

LEMMA GatesAre ==
  ASSUME NEW s, IsState(s), NEW gates, Named(gates)
  PROVE  LET r == LoadGates(s, gates)
         IN  /\ Follows(s, r) /\ r.signals = s.signals /\ r.constants = s.constants /\ r.ret = s.ret
             /\ \A gate \in Range(gates) :
                  /\ IsRegistered(r.behaviors, gate.name)
                  /\ gate \in Range(r.behaviors) \/ IsTold(r, gate.name)
             /\ (\A gate \in Range(gates) : IsRegistered(s.behaviors, gate.name)) => SameEntities(s, r)
<1> DEFINE L == Len(gates)
<1>1. /\ L \in Nat /\ Range(gates) = {gates[n] : n \in 1 .. L}
      /\ \A gate \in Range(gates) : gate.name \in STRING
  BY NamedIs
<1>2. PICK after : /\ after[0] = s
                   /\ \A n \in 1 .. L : after[n] = RegisterGate(after[n - 1], gates[n])
                   /\ LoadGates(s, gates) = after[L]
  BY <1>1, GatesLoop
<1> DEFINE Known == \A gate \in Range(gates) : IsRegistered(s.behaviors, gate.name)
           Done(r, gate) == /\ IsRegistered(r.behaviors, gate.name)
                            /\ gate \in Range(r.behaviors) \/ IsTold(r, gate.name)
           Good(r, k) == /\ Follows(s, r) /\ r.signals = s.signals /\ r.constants = s.constants
                         /\ r.ret = s.ret /\ (Known => SameEntities(s, r))
                         /\ \A n \in 1 .. k : Done(r, gates[n])
           S == {k \in 0 .. L : Good(after[k], k)}
<1>3. 0 \in S
  BY <1>1, <1>2, FollowsItself DEF SameEntities
<1>4. ASSUME NEW k \in 1 .. L, k - 1 \in S PROVE k \in S
  <2> DEFINE q == after[k - 1]
             r == after[k]
             gate == gates[k]
  <2>1. /\ Follows(s, q) /\ q.signals = s.signals /\ q.constants = s.constants
        /\ q.ret = s.ret /\ (Known => SameEntities(s, q))
        /\ \A n \in 1 .. k - 1 : Done(q, gates[n])
    BY <1>4
  <2>2. r = RegisterGate(q, gate) /\ gate \in Range(gates) /\ gate.name \in STRING
    BY <1>1, <1>2
  <2>3. IsState(q)
    BY <2>1 DEF Follows
  <2>4. k \in 0 .. L /\ \A n \in 1 .. k : n \in 1 .. k - 1 \/ n = k
    BY <1>1
  <2> HIDE DEF q, r, Known, gate
  <2>5. /\ Follows(q, r) /\ r.signals = q.signals /\ r.constants = q.constants /\ r.ret = q.ret
        /\ Done(r, gate)
        /\ IsRegistered(q.behaviors, gate.name) => SameEntities(q, r)
    BY <2>2, <2>3, GateIs
  <2>6. Follows(s, r) /\ Range(q.behaviors) \subseteq Range(r.behaviors)
    BY <2>1, <2>5, FollowsOn DEF Follows
  <2>7. Known => SameEntities(s, r)
    <3>1. Known => IsRegistered(s.behaviors, gate.name)
      BY <2>2 DEF Known
    <3>2. QED
      BY <2>1, <2>5, <3>1 DEF SameEntities
  <2>8. ASSUME NEW n \in 1 .. k PROVE Done(r, gates[n])
    <3>1. CASE n = k
      BY <2>5, <3>1 DEF gate
    <3>2. CASE n \in 1 .. k - 1
      <4>1. Done(q, gates[n])
        BY <2>1, <3>2
      <4>2. QED
        BY <2>3, <2>5, <2>6, <4>1, RegisteredStays, ToldStays
    <3>3. QED
      BY <2>4, <3>1, <3>2
  <2>9. Good(r, k)
    BY <2>1, <2>5, <2>6, <2>7, <2>8
  <2> HIDE DEF Good
  <2>10. QED
    BY <2>4, <2>9 DEF r
<1> HIDE DEF Good, L
<1>5. L \in S
  <2> HIDE DEF S
  <2>1. \A k \in 0 .. L : k \in S
    BY <1>1, <1>3, <1>4, Steps
  <2>2. QED
    BY <1>1, <2>1
<1>6. Good(after[L], L)
  BY <1>5
<1>7. QED
  BY <1>1, <1>2, <1>6 DEF Good

LEMMA SignalsAre ==
  ASSUME NEW s, IsState(s), NEW sigs, Named(sigs)
  PROVE  LET r == LoadSignals(s, sigs)
         IN  /\ Follows(s, r)
             /\ r.behaviors = s.behaviors /\ r.nodes = s.nodes /\ r.constants = s.constants
             /\ r.ret \in {s.ret, "registered"}
             /\ r.ret = "ok" => s.ret = "ok" /\ Range(sigs) \subseteq Range(r.signals)
             /\ Len(sigs) = 0 => r = s
             /\ Len(sigs) > 0 /\ s.ret = "ok" => IsRegistered(r.signals, sigs[1].name)
             /\ Len(sigs) > 0 /\ IsRegistered(s.signals, sigs[1].name) => SameEntities(s, r) /\ r.ret # "ok"
<1> DEFINE L == Len(sigs)
<1>1. /\ L \in Nat /\ Range(sigs) = {sigs[n] : n \in 1 .. L}
      /\ \A sig \in Range(sigs) : sig.name \in STRING
  BY NamedIs
<1>2. PICK after : /\ after[0] = s
                   /\ \A n \in 1 .. L : after[n] = RegisterSignal(after[n - 1], sigs[n])
                   /\ LoadSignals(s, sigs) = after[L]
  BY <1>1, SignalsLoop
<1> DEFINE Known == IsRegistered(s.signals, sigs[1].name)
           Good(r, k) == /\ Follows(s, r)
                         /\ r.behaviors = s.behaviors /\ r.nodes = s.nodes /\ r.constants = s.constants
                         /\ r.ret \in {s.ret, "registered"}
                         /\ r.ret = "ok" => s.ret = "ok" /\ \A n \in 1 .. k : sigs[n] \in Range(r.signals)
                         /\ k = 0 => r = s
                         /\ k > 0 /\ s.ret = "ok" => IsRegistered(r.signals, sigs[1].name)
                         /\ k > 0 /\ Known => SameEntities(s, r) /\ r.ret # "ok"
           S == {k \in 0 .. L : Good(after[k], k)}
<1>3. 0 \in S
  BY <1>1, <1>2, FollowsItself
<1>4. ASSUME NEW k \in 1 .. L, k - 1 \in S PROVE k \in S
  <2> DEFINE q == after[k - 1]
             r == after[k]
             sig == sigs[k]
  <2>1. Good(q, k - 1)
    BY <1>4
  <2>2. r = RegisterSignal(q, sig) /\ sig \in Range(sigs) /\ sig.name \in STRING
    BY <1>1, <1>2
  <2>3. IsState(q)
    BY <2>1 DEF Follows
  <2>4. k \in 0 .. L /\ k # 0 /\ \A n \in 1 .. k : n \in 1 .. k - 1 \/ n = k
    BY <1>1
  <2> HIDE DEF q, r, Known, sig
  <2>5. /\ Follows(q, r)
        /\ r.behaviors = q.behaviors /\ r.nodes = q.nodes /\ r.constants = q.constants
        /\ q.ret = "ok" => IsRegistered(r.signals, sig.name)
        /\ r.ret \in {q.ret, "registered"}
        /\ r.ret = "ok" => q.ret = "ok" /\ sig \in Range(r.signals)
        /\ q.ret # "ok" \/ IsRegistered(q.signals, sig.name) => SameEntities(q, r) /\ r.ret # "ok"
    BY <2>2, <2>3, SignalIs
  <2>6. Follows(s, r) /\ Range(q.signals) \subseteq Range(r.signals)
    BY <2>1, <2>5, FollowsOn DEF Follows
  <2>7. r.ret = "ok" => s.ret = "ok" /\ \A n \in 1 .. k : sigs[n] \in Range(r.signals)
    <3>1. ASSUME r.ret = "ok", NEW n \in 1 .. k PROVE sigs[n] \in Range(r.signals)
      <4>1. CASE n = k
        BY <2>5, <3>1, <4>1 DEF sig
      <4>2. CASE n \in 1 .. k - 1
        BY <2>1, <2>5, <2>6, <3>1, <4>2
      <4>3. QED
        BY <2>4, <4>1, <4>2
    <3>2. QED
      BY <2>1, <2>5, <3>1
  <2>8. s.ret = "ok" => IsRegistered(r.signals, sigs[1].name)
    <3>1. CASE k = 1
      <4>1. q = s /\ sig = sigs[1]
        BY <2>1, <3>1 DEF sig
      <4>2. QED
        BY <2>5, <4>1
    <3>2. CASE k # 1
      <4>1. k - 1 > 0
        BY <3>2
      <4>2. s.ret = "ok" => IsRegistered(q.signals, sigs[1].name)
        BY <2>1, <4>1
      <4>3. QED
        BY <2>6, <4>2, RegisteredStays
    <3>3. QED
      BY <3>1, <3>2
  <2>9. Known => SameEntities(s, r) /\ r.ret # "ok"
    <3>1. CASE k = 1
      <4>1. q = s /\ sig = sigs[1]
        BY <2>1, <3>1 DEF sig
      <4>2. QED
        BY <2>5, <4>1 DEF Known
    <3>2. CASE k # 1
      <4>1. k - 1 > 0
        BY <3>2
      <4>2. Known => SameEntities(s, q) /\ q.ret # "ok"
        BY <2>1, <4>1
      <4>3. QED
        BY <2>5, <4>2 DEF SameEntities
    <3>3. QED
      BY <3>1, <3>2
  <2>10. Good(r, k)
    BY <2>1, <2>4, <2>5, <2>6, <2>7, <2>8, <2>9
  <2> HIDE DEF Good
  <2>11. QED
    BY <2>4, <2>10 DEF r
<1> HIDE DEF Good, L
<1>5. L \in S
  <2> HIDE DEF S
  <2>1. \A k \in 0 .. L : k \in S
    BY <1>1, <1>3, <1>4, Steps
  <2>2. QED
    BY <1>1, <2>1
<1>6. Good(after[L], L)
  BY <1>5
<1>7. QED
  BY <1>1, <1>2, <1>6 DEF Good, L, Known

LEMMA ConstantsAre ==
  ASSUME NEW s, IsState(s), NEW consts, Named(consts)
  PROVE  LET r == LoadConstants(s, consts)
         IN  /\ Follows(s, r) /\ r.ret = s.ret
             /\ r.behaviors = s.behaviors /\ r.nodes = s.nodes /\ r.signals = s.signals
             /\ s.ret = "ok" =>
                  \A constant \in Range(consts) :
                    /\ IsRegistered(r.constants, constant.name)
                    /\ constant \in Range(r.constants) \/ IsTold(r, constant.name)
             /\ s.ret # "ok" \/ (\A constant \in Range(consts) : IsRegistered(s.constants, constant.name)) =>
                  SameEntities(s, r)
<1> DEFINE L == Len(consts)
<1>1. /\ L \in Nat /\ Range(consts) = {consts[n] : n \in 1 .. L}
      /\ \A constant \in Range(consts) : constant.name \in STRING
  BY NamedIs
<1>2. PICK after : /\ after[0] = s
                   /\ \A n \in 1 .. L : after[n] = RegisterConstant(after[n - 1], consts[n])
                   /\ LoadConstants(s, consts) = after[L]
  BY <1>1, ConstantsLoop
<1> DEFINE Known == s.ret # "ok" \/ (\A constant \in Range(consts) : IsRegistered(s.constants, constant.name))
           Done(r, constant) == /\ IsRegistered(r.constants, constant.name)
                                /\ constant \in Range(r.constants) \/ IsTold(r, constant.name)
           Good(r, k) == /\ Follows(s, r) /\ r.ret = s.ret
                         /\ r.behaviors = s.behaviors /\ r.nodes = s.nodes /\ r.signals = s.signals
                         /\ (Known => SameEntities(s, r))
                         /\ s.ret = "ok" => \A n \in 1 .. k : Done(r, consts[n])
           S == {k \in 0 .. L : Good(after[k], k)}
<1>3. 0 \in S
  BY <1>1, <1>2, FollowsItself DEF SameEntities
<1>4. ASSUME NEW k \in 1 .. L, k - 1 \in S PROVE k \in S
  <2> DEFINE q == after[k - 1]
             r == after[k]
             constant == consts[k]
  <2>1. /\ Follows(s, q) /\ q.ret = s.ret
        /\ q.behaviors = s.behaviors /\ q.nodes = s.nodes /\ q.signals = s.signals
        /\ (Known => SameEntities(s, q))
        /\ s.ret = "ok" => \A n \in 1 .. k - 1 : Done(q, consts[n])
    BY <1>4
  <2>2. r = RegisterConstant(q, constant) /\ constant \in Range(consts) /\ constant.name \in STRING
    BY <1>1, <1>2
  <2>3. IsState(q)
    BY <2>1 DEF Follows
  <2>4. k \in 0 .. L /\ \A n \in 1 .. k : n \in 1 .. k - 1 \/ n = k
    BY <1>1
  <2> HIDE DEF q, r, Known, constant
  <2>5. /\ Follows(q, r) /\ r.ret = q.ret
        /\ r.behaviors = q.behaviors /\ r.nodes = q.nodes /\ r.signals = q.signals
        /\ q.ret = "ok" => Done(r, constant)
        /\ q.ret # "ok" \/ IsRegistered(q.constants, constant.name) => SameEntities(q, r)
    BY <2>2, <2>3, ConstantIs
  <2>6. Follows(s, r) /\ Range(q.constants) \subseteq Range(r.constants)
    BY <2>1, <2>5, FollowsOn DEF Follows
  <2>7. Known => SameEntities(s, r)
    <3>1. Known => s.ret # "ok" \/ IsRegistered(s.constants, constant.name)
      BY <2>2 DEF Known
    <3>2. QED
      BY <2>1, <2>5, <3>1 DEF SameEntities
  <2>8. ASSUME s.ret = "ok", NEW n \in 1 .. k PROVE Done(r, consts[n])
    <3>1. CASE n = k
      BY <2>1, <2>5, <2>8, <3>1 DEF constant
    <3>2. CASE n \in 1 .. k - 1
      <4>1. Done(q, consts[n])
        BY <2>1, <2>8, <3>2
      <4>2. QED
        BY <2>3, <2>5, <2>6, <4>1, RegisteredStays, ToldStays
    <3>3. QED
      BY <2>4, <3>1, <3>2
  <2>9. Good(r, k)
    BY <2>1, <2>5, <2>6, <2>7, <2>8
  <2> HIDE DEF Good
  <2>10. QED
    BY <2>4, <2>9 DEF r
<1> HIDE DEF Good, L
<1>5. L \in S
  <2> HIDE DEF S
  <2>1. \A k \in 0 .. L : k \in S
    BY <1>1, <1>3, <1>4, Steps
  <2>2. QED
    BY <1>1, <2>1
<1>6. Good(after[L], L)
  BY <1>5
<1>7. QED
  BY <1>1, <1>2, <1>6 DEF Good, Known
-----------------------------------------------------------------------------
(* What a load does.                                                        *)

\* Loaded again, a library finds every name it has, up to where it was stopped.
KnowsLoaded(s) ==
  /\ s.loaded \subseteq DOMAIN Libraries
  /\ \A lib \in s.loaded :
       /\ Range(Libraries[lib].made) \subseteq Range(s.lib_gates[lib])
       /\ \A gate \in Range(s.lib_gates[lib]) : IsRegistered(s.behaviors, gate.name)
       /\ Len(Libraries[lib].signals) > 0 => IsRegistered(s.signals, Libraries[lib].signals[1].name)
       /\ Len(Libraries[lib].signals) = 0 =>
            \A constant \in Range(Libraries[lib].constants) : IsRegistered(s.constants, constant.name)

HasReadySignals(s) ==
  /\ s.ready \subseteq DOMAIN Libraries
  /\ \A lib \in s.ready : Range(Libraries[lib].signals) \subseteq Range(s.signals)

LoadInv(s) == IsState(s) /\ KnowsLoaded(s) /\ HasReadySignals(s)

Reported(r, lib) ==
  r.ret # "registered" /\ ~(Len(r.errors) >= r.room) =>
    \A e \in Range(r.lib_gates[lib]) \cup Range(Libraries[lib].signals) \cup Range(Libraries[lib].constants) :
      \/ e \in Range(r.behaviors) \cup Range(r.signals) \cup Range(r.constants)
      \/ e.name \in Range(r.errors)

\* library_before_load gives a library the gates it makes.
Prepared(s, lib, r) ==
  /\ IsState(r) /\ SameEntities(s, r)
  /\ r.ret = s.ret /\ r.room = s.room /\ r.ready = s.ready /\ r.errors = s.errors
  /\ r.loaded = s.loaded \cup {lib}
  /\ Range(r.lib_gates[lib]) = Range(s.lib_gates[lib]) \cup Range(Libraries[lib].made)
  /\ \A l \in DOMAIN Libraries : l # lib => r.lib_gates[l] = s.lib_gates[l]

LEMMA BeforeLoadIs ==
  ASSUME NEW s, IsState(s), NEW lib \in DOMAIN Libraries,
         NEW r, r = BeforeLoad(s, lib)
  PROVE  Prepared(s, lib, r)
<1> DEFINE made == Libraries[lib].made
           whole == s.lib_gates[lib] \o made
           more == [s.lib_gates EXCEPT ![lib] = whole]
           known == s.loaded \cup {lib}
<1>1. Named(s.lib_gates[lib]) /\ Named(made)
  BY LibrariesAssumption DEF IsState
<1>2. Named(whole) /\ Range(whole) = Range(s.lib_gates[lib]) \cup Range(made)
  BY <1>1, NamedConcat
<1>3. r = [s EXCEPT !.lib_gates = more, !.loaded = known]
  BY DEF BeforeLoad, IsState
<1> HIDE DEF whole, known
<1>4. /\ more = [l \in DOMAIN Libraries |-> more[l]]
      /\ more[lib] = whole /\ \A l \in DOMAIN Libraries : l # lib => more[l] = s.lib_gates[l]
  BY DEF IsState
<1> HIDE DEF more
<1>5. r = [behaviors |-> s.behaviors, signals |-> s.signals, constants |-> s.constants,
           nodes |-> s.nodes, lib_gates |-> more, loaded |-> known, ready |-> s.ready,
           errors |-> s.errors, ret |-> s.ret, room |-> s.room]
  BY <1>3 DEF IsState
<1>6. IsState(r)
  <2>1. \A l \in DOMAIN Libraries : Named(more[l])
    BY <1>2, <1>4 DEF IsState
  <2>2. QED
    BY <1>4, <1>5, <2>1 DEF IsState
<1>7. QED
  BY <1>2, <1>4, <1>5, <1>6 DEF SameEntities, known, Prepared

LEMMA LoadIs ==
  ASSUME NEW s, LoadInv(s), s.ret = "ok", NEW lib \in DOMAIN Libraries
  PROVE  LET r == LoadLibrary(s, lib)
         IN  /\ LoadInv(r) /\ r.loaded = s.loaded \cup {lib} /\ r.room = s.room
             /\ lib \in s.loaded => SameEntities(s, r)
             /\ Reported(r, lib)
<1> DEFINE q == BeforeLoad(s, lib)
           gates == q.lib_gates[lib]
           sigs == Libraries[lib].signals
           consts == Libraries[lib].constants
           g == LoadGates(q, gates)
           h == LoadSignals(g, sigs)
           c == LoadConstants(h, consts)
           r == LoadLibrary(s, lib)
<1>1. IsState(s) /\ KnowsLoaded(s) /\ HasReadySignals(s)
  BY DEF LoadInv
<1>2. Named(sigs) /\ Named(consts) /\ Len(sigs) \in Nat
  BY LibrariesAssumption, NamedIs
<1>3. r = IF c.ret = "ok" THEN [c EXCEPT !.ready = @ \cup {lib}, !.ret = Libraries[lib].answer] ELSE c
  BY DEF LoadLibrary, AfterLoaded
<1>4. /\ IsState(q) /\ SameEntities(s, q)
      /\ q.ret = "ok" /\ q.room = s.room /\ q.ready = s.ready /\ q.errors = s.errors
      /\ q.loaded = s.loaded \cup {lib}
      /\ Range(gates) = Range(s.lib_gates[lib]) \cup Range(Libraries[lib].made)
      /\ \A l \in DOMAIN Libraries : l # lib => q.lib_gates[l] = s.lib_gates[l]
  <2>1. IsState(s) /\ q = BeforeLoad(s, lib)
    BY <1>1
  <2> HIDE DEF q
  <2>2. Prepared(s, lib, q)
    BY <2>1, BeforeLoadIs
  <2>3. QED
    BY <2>2 DEF Prepared
<1> HIDE DEF q, sigs, consts
<1>5. Named(gates)
  BY <1>4 DEF IsState
<1>6. /\ Follows(q, g) /\ g.signals = q.signals /\ g.constants = q.constants /\ g.ret = q.ret
      /\ \A gate \in Range(gates) :
           /\ IsRegistered(g.behaviors, gate.name)
           /\ gate \in Range(g.behaviors) \/ IsTold(g, gate.name)
      /\ (\A gate \in Range(gates) : IsRegistered(q.behaviors, gate.name)) => SameEntities(q, g)
  BY <1>4, <1>5, GatesAre
<1>7. IsState(g)
  BY <1>6 DEF Follows
<1> HIDE DEF g
<1>8. /\ Follows(g, h)
      /\ h.behaviors = g.behaviors /\ h.nodes = g.nodes /\ h.constants = g.constants
      /\ h.ret \in {g.ret, "registered"}
      /\ h.ret = "ok" => g.ret = "ok" /\ Range(sigs) \subseteq Range(h.signals)
      /\ Len(sigs) = 0 => h = g
      /\ Len(sigs) > 0 /\ g.ret = "ok" => IsRegistered(h.signals, sigs[1].name)
      /\ Len(sigs) > 0 /\ IsRegistered(g.signals, sigs[1].name) => SameEntities(g, h) /\ h.ret # "ok"
  BY <1>2, <1>7, SignalsAre
<1>9. IsState(h)
  BY <1>8 DEF Follows
<1> HIDE DEF h
<1>10. /\ Follows(h, c) /\ c.ret = h.ret
       /\ c.behaviors = h.behaviors /\ c.nodes = h.nodes /\ c.signals = h.signals
       /\ h.ret = "ok" =>
            \A constant \in Range(consts) :
              /\ IsRegistered(c.constants, constant.name)
              /\ constant \in Range(c.constants) \/ IsTold(c, constant.name)
       /\ h.ret # "ok" \/ (\A constant \in Range(consts) : IsRegistered(h.constants, constant.name)) =>
            SameEntities(h, c)
  BY <1>2, <1>9, ConstantsAre
<1>11. Follows(q, h) /\ Follows(q, c) /\ Follows(g, c) /\ IsState(c)
  <2>1. Follows(q, h)
    BY <1>4, <1>6, <1>8, FollowsOn
  <2>2. Follows(q, c)
    BY <1>4, <1>10, <2>1, FollowsOn
  <2>3. Follows(g, c)
    BY <1>7, <1>8, <1>10, FollowsOn
  <2>4. QED
    BY <2>1, <2>2, <2>3 DEF Follows
<1> HIDE DEF c, r
<1>12. /\ IsState(r) /\ r.errors = c.errors /\ r.room = c.room
       /\ r.lib_gates = c.lib_gates /\ r.loaded = c.loaded /\ SameEntities(c, r)
       /\ r.ready = IF c.ret = "ok" THEN c.ready \cup {lib} ELSE c.ready
       /\ c.ret # "ok" => r.ret = c.ret
  <2>1. CASE c.ret = "ok"
    <3> DEFINE told == c.ready \cup {lib}
               answer == Libraries[lib].answer
    <3>1. r = [c EXCEPT !.ready = told, !.ret = answer]
      BY <1>3, <2>1
    <3> HIDE DEF told, answer
    <3>2. r = [behaviors |-> c.behaviors, signals |-> c.signals, constants |-> c.constants,
               nodes |-> c.nodes, lib_gates |-> c.lib_gates, loaded |-> c.loaded, ready |-> told,
               errors |-> c.errors, ret |-> answer, room |-> c.room]
      BY <1>11, <3>1 DEF IsState
    <3>3. IsState(r)
      BY <1>11, <3>2 DEF IsState
    <3>4. QED
      BY <2>1, <3>2, <3>3 DEF SameEntities, told
  <2>2. CASE c.ret # "ok"
    BY <1>3, <1>11, <2>2 DEF SameEntities
  <2>3. QED
    BY <2>1, <2>2
<1>13. /\ r.loaded = s.loaded \cup {lib} /\ r.room = s.room /\ r.lib_gates = q.lib_gates
       /\ Range(s.behaviors) \subseteq Range(r.behaviors)
       /\ Range(s.signals) \subseteq Range(r.signals)
       /\ Range(s.constants) \subseteq Range(r.constants)
       /\ r.behaviors = g.behaviors /\ r.signals = h.signals /\ r.constants = c.constants
  BY <1>4, <1>8, <1>10, <1>11, <1>12 DEF Follows, SameEntities
<1>14. KnowsLoaded(r)
  <2>1. ASSUME NEW l \in r.loaded
        PROVE  /\ l \in DOMAIN Libraries
               /\ Range(Libraries[l].made) \subseteq Range(r.lib_gates[l])
               /\ \A gate \in Range(r.lib_gates[l]) : IsRegistered(r.behaviors, gate.name)
               /\ Len(Libraries[l].signals) > 0 => IsRegistered(r.signals, Libraries[l].signals[1].name)
               /\ Len(Libraries[l].signals) = 0 =>
                    \A constant \in Range(Libraries[l].constants) : IsRegistered(r.constants, constant.name)
    <3>1. CASE l = lib
      <4>1. /\ Range(Libraries[l].made) \subseteq Range(r.lib_gates[l])
            /\ \A gate \in Range(r.lib_gates[l]) : IsRegistered(r.behaviors, gate.name)
        BY <1>4, <1>6, <1>13, <3>1
      <4>2. Len(sigs) > 0 => IsRegistered(r.signals, sigs[1].name)
        BY <1>4, <1>6, <1>8, <1>13
      <4>3. Len(sigs) = 0 => \A constant \in Range(consts) : IsRegistered(r.constants, constant.name)
        BY <1>4, <1>6, <1>8, <1>10, <1>13
      <4>4. QED
        BY <3>1, <4>1, <4>2, <4>3 DEF sigs, consts
    <3>2. CASE l # lib
      <4>1. l \in s.loaded /\ l \in DOMAIN Libraries /\ r.lib_gates[l] = s.lib_gates[l]
        BY <1>1, <1>4, <1>13, <3>2 DEF KnowsLoaded
      <4>2. /\ Range(Libraries[l].made) \subseteq Range(s.lib_gates[l])
            /\ \A gate \in Range(s.lib_gates[l]) : IsRegistered(s.behaviors, gate.name)
            /\ Len(Libraries[l].signals) > 0 => IsRegistered(s.signals, Libraries[l].signals[1].name)
            /\ Len(Libraries[l].signals) = 0 =>
                 \A constant \in Range(Libraries[l].constants) : IsRegistered(s.constants, constant.name)
        BY <1>1, <4>1 DEF KnowsLoaded
      <4>3. \A name : IsRegistered(s.behaviors, name) => IsRegistered(r.behaviors, name)
        BY <1>13, RegisteredStays
      <4>4. \A name : IsRegistered(s.signals, name) => IsRegistered(r.signals, name)
        BY <1>13, RegisteredStays
      <4>5. \A name : IsRegistered(s.constants, name) => IsRegistered(r.constants, name)
        BY <1>13, RegisteredStays
      <4>6. QED
        BY <4>1, <4>2, <4>3, <4>4, <4>5
    <3>3. QED
      BY <3>1, <3>2
  <2>2. QED
    BY <2>1 DEF KnowsLoaded
<1>15. HasReadySignals(r)
  <2>1. c.ready = s.ready
    BY <1>4, <1>11 DEF Follows
  <2>2. ASSUME NEW l \in r.ready
        PROVE  l \in DOMAIN Libraries /\ Range(Libraries[l].signals) \subseteq Range(r.signals)
    <3>1. CASE l \in s.ready
      BY <1>1, <1>13, <3>1 DEF HasReadySignals
    <3>2. CASE l \notin s.ready
      <4>1. l = lib /\ h.ret = "ok"
        BY <1>10, <1>12, <2>1, <3>2
      <4>2. QED
        BY <1>8, <1>13, <4>1 DEF sigs
    <3>3. QED
      BY <3>1, <3>2
  <2>3. QED
    BY <2>2 DEF HasReadySignals
<1>16. lib \in s.loaded => SameEntities(s, r)
  <2>1. SUFFICES ASSUME lib \in s.loaded PROVE SameEntities(s, r)
    OBVIOUS
  <2>2. /\ \A gate \in Range(gates) : IsRegistered(q.behaviors, gate.name)
        /\ Len(sigs) > 0 => IsRegistered(s.signals, sigs[1].name)
        /\ Len(sigs) = 0 => \A constant \in Range(consts) : IsRegistered(s.constants, constant.name)
    BY <1>1, <1>4, <2>1 DEF KnowsLoaded, SameEntities, sigs, consts
  <2>3. SameEntities(s, g)
    BY <1>4, <1>6, <2>2 DEF SameEntities
  <2>4. SameEntities(g, c)
    <3>1. CASE Len(sigs) > 0
      <4>1. SameEntities(g, h) /\ h.ret # "ok"
        BY <1>8, <2>2, <2>3, <3>1 DEF SameEntities
      <4>2. QED
        BY <1>10, <4>1 DEF SameEntities
    <3>2. CASE Len(sigs) = 0
      <4>1. h = g /\ \A constant \in Range(consts) : IsRegistered(h.constants, constant.name)
        BY <1>8, <2>2, <2>3, <3>2 DEF SameEntities
      <4>2. QED
        BY <1>10, <4>1
    <3>3. QED
      BY <1>2, <3>1, <3>2
  <2>5. QED
    BY <1>12, <2>3, <2>4 DEF SameEntities
<1>17. Reported(r, lib)
  <2>1. SUFFICES ASSUME r.ret # "registered", ~(Len(r.errors) >= r.room),
                        NEW e \in Range(gates) \cup Range(sigs) \cup Range(consts)
                 PROVE  \/ e \in Range(r.behaviors) \cup Range(r.signals) \cup Range(r.constants)
                        \/ e.name \in Range(r.errors)
    BY <1>13 DEF Reported, sigs, consts
  <2>2. h.ret = "ok" /\ \A name : IsTold(c, name) => name \in Range(r.errors)
    BY <1>4, <1>6, <1>8, <1>10, <1>12, <2>1 DEF IsTold
  <2>3. CASE e \in Range(gates)
    <3>1. e \in Range(g.behaviors) \/ IsTold(c, e.name)
      BY <1>6, <1>7, <1>11, <2>3, ToldStays
    <3>2. QED
      BY <1>13, <2>2, <3>1
  <2>4. CASE e \in Range(sigs)
    BY <1>8, <1>13, <2>2, <2>4
  <2>5. CASE e \in Range(consts)
    BY <1>10, <1>13, <2>2, <2>5
  <2>6. QED
    BY <2>1, <2>3, <2>4, <2>5
<1>18. QED
  BY <1>12, <1>13, <1>14, <1>15, <1>16, <1>17 DEF LoadInv, r

LEMMA EmbeddedIs ==
  ASSUME NEW s, LoadInv(s), NEW lib \in DOMAIN Libraries
  PROVE  LET r == LoadEmbedded(s, lib)
         IN  /\ LoadInv(r) /\ r.loaded = s.loaded \cup {lib}
             /\ lib \in s.loaded => SameEntities(s, r)
             /\ Reported(r, lib)
<1> DEFINE q == [s EXCEPT !.ret = "ok", !.room = FewerRoom]
           r == LoadEmbedded(s, lib)
<1>1. r = LoadLibrary(q, lib)
  BY DEF LoadEmbedded
<1>2. q = [behaviors |-> s.behaviors, signals |-> s.signals, constants |-> s.constants,
           nodes |-> s.nodes, lib_gates |-> s.lib_gates, loaded |-> s.loaded, ready |-> s.ready,
           errors |-> s.errors, ret |-> "ok", room |-> FewerRoom]
  <2>1. s = [behaviors |-> s.behaviors, signals |-> s.signals, constants |-> s.constants,
             nodes |-> s.nodes, lib_gates |-> s.lib_gates, loaded |-> s.loaded, ready |-> s.ready,
             errors |-> s.errors, ret |-> s.ret, room |-> s.room]
    BY DEF LoadInv, IsState
  <2> DEFINE p == [s EXCEPT !.ret = "ok"]
  <2>2. p = [behaviors |-> s.behaviors, signals |-> s.signals, constants |-> s.constants,
             nodes |-> s.nodes, lib_gates |-> s.lib_gates, loaded |-> s.loaded, ready |-> s.ready,
             errors |-> s.errors, ret |-> "ok", room |-> s.room]
    BY <2>1
  <2>3. q = [p EXCEPT !.room = FewerRoom]
    OBVIOUS
  <2> HIDE DEF p, q
  <2>4. QED
    BY <2>2, <2>3
<1> HIDE DEF q, r
<1>3. IsState(q)
  BY <1>2, RoomAssumption DEF LoadInv, IsState
<1>4. KnowsLoaded(q) /\ HasReadySignals(q)
  BY <1>2 DEF LoadInv, KnowsLoaded, HasReadySignals
<1>5. LoadInv(q) /\ q.ret = "ok" /\ q.loaded = s.loaded /\ SameEntities(s, q)
  BY <1>2, <1>3, <1>4 DEF LoadInv, SameEntities
<1>6. /\ LoadInv(r) /\ r.loaded = q.loaded \cup {lib}
      /\ lib \in q.loaded => SameEntities(q, r)
      /\ Reported(r, lib)
  BY <1>1, <1>5, LoadIs
<1>7. QED
  BY <1>5, <1>6 DEF SameEntities, r

LEMMA ModulesAre ==
  ASSUME NEW s, LoadInv(s)
  PROVE  LET r == LoadEmbeddedModules(s)
         IN  /\ LoadInv(r) /\ r.loaded = s.loaded \cup Range(Embedded)
             /\ Range(Embedded) \subseteq s.loaded => SameEntities(s, r)
             /\ Reported(r, Last(Embedded))
<1> DEFINE L == Len(Embedded)
<1>1. /\ L \in Nat /\ L > 0 /\ Embedded \in Seq(DOMAIN Libraries)
      /\ DOMAIN Embedded = 1 .. L /\ \A n \in 1 .. L : Embedded[n] \in DOMAIN Libraries
  BY LibrariesAssumption
<1>2. Range(Embedded) = {Embedded[n] : n \in 1 .. L} /\ Last(Embedded) = Embedded[L]
  BY <1>1 DEF Range, Last
<1>3. PICK after : /\ after[0] = s
                   /\ \A n \in 1 .. L : after[n] = LoadEmbedded(after[n - 1], Embedded[n])
                   /\ LoadEmbeddedModules(s) = after[L]
  BY <1>1, LibrariesLoop
<1> DEFINE Known == Range(Embedded) \subseteq s.loaded
           First(k) == {Embedded[n] : n \in 1 .. k}
           Good(r, k) == /\ LoadInv(r) /\ r.loaded = s.loaded \cup First(k)
                         /\ (Known => SameEntities(s, r))
                         /\ (k > 0 => Reported(r, Embedded[k]))
           S == {k \in 0 .. L : Good(after[k], k)}
<1>4. 0 \in S
  <2>1. First(0) = {}
    OBVIOUS
  <2> HIDE DEF First
  <2>2. QED
    BY <1>1, <1>3, <2>1 DEF SameEntities
<1>5. ASSUME NEW k \in 1 .. L, k - 1 \in S PROVE k \in S
  <2> DEFINE q == after[k - 1]
             r == after[k]
             lib == Embedded[k]
  <2>1. First(k) = First(k - 1) \cup {lib}
    <3>1. \A n \in 1 .. k : n \in 1 .. k - 1 \/ n = k
      BY <1>1
    <3>2. k \in 1 .. k /\ \A n \in 1 .. k - 1 : n \in 1 .. k
      BY <1>1
    <3>3. QED
      BY <3>1, <3>2
  <2> HIDE DEF First
  <2>2. /\ LoadInv(q) /\ q.loaded = s.loaded \cup First(k - 1)
        /\ (Known => SameEntities(s, q))
    BY <1>5
  <2>3. r = LoadEmbedded(q, lib) /\ lib \in DOMAIN Libraries /\ lib \in Range(Embedded) /\ k \in 0 .. L
    BY <1>1, <1>2, <1>3
  <2> HIDE DEF q, r, lib
  <2>4. /\ LoadInv(r) /\ r.loaded = q.loaded \cup {lib}
        /\ lib \in q.loaded => SameEntities(q, r)
        /\ Reported(r, lib)
    BY <2>2, <2>3, EmbeddedIs
  <2>5. Known => SameEntities(s, r)
    BY <2>2, <2>3, <2>4 DEF SameEntities
  <2>6. r.loaded = s.loaded \cup First(k)
    BY <2>1, <2>2, <2>4
  <2>7. Good(r, k)
    BY <2>4, <2>5, <2>6 DEF lib
  <2> HIDE DEF Good
  <2>8. QED
    BY <2>3, <2>7 DEF r
<1>6. L \in S
  <2> HIDE DEF S
  <2>1. \A k \in 0 .. L : k \in S
    BY <1>1, <1>4, <1>5, Steps
  <2>2. QED
    BY <1>1, <2>1
<1>7. First(L) = Range(Embedded)
  BY <1>2
<1> HIDE DEF First
<1>8. Good(after[L], L)
  BY <1>6
<1>9. QED
  BY <1>1, <1>2, <1>3, <1>7, <1>8
-----------------------------------------------------------------------------
(* What holds in every state.                                               *)

AccInv == LoadInv(State(Room)) /\ LeftOutIsReported

LEMMA StateIs ==
  /\ State(Room).behaviors = behaviors /\ State(Room).signals = signals
  /\ State(Room).constants = constants /\ State(Room).nodes = nodes
  /\ State(Room).lib_gates = lib_gates /\ State(Room).loaded = loaded /\ State(Room).ready = ready
  /\ State(Room).ret = "ok"
BY DEF State

\* What a load leaves the environment with.
LEMMA TakeIs ==
  ASSUME NEW r, LoadInv(r), NEW lib, Reported(r, lib), Take(r, lib)
  PROVE  AccInv'
<1>1. LoadInv(State(Room))'
  <2> DEFINE q == State(Room)'
  <2>1. q = [behaviors |-> r.behaviors, signals |-> r.signals, constants |-> r.constants,
             nodes |-> r.nodes, lib_gates |-> r.lib_gates, loaded |-> r.loaded, ready |-> r.ready,
             errors |-> <<>>, ret |-> "ok", room |-> Room]
    BY DEF State, Take
  <2> HIDE DEF q
  <2>2. <<>> \in Seq(Texts)
    OBVIOUS
  <2>3. IsState(q)
    BY <2>1, <2>2, RoomAssumption DEF LoadInv, IsState
  <2>4. KnowsLoaded(q) /\ HasReadySignals(q)
    BY <2>1 DEF LoadInv, KnowsLoaded, HasReadySignals
  <2>5. LoadInv(q)
    BY <2>3, <2>4 DEF LoadInv
  <2>6. QED
    BY <2>5 DEF q
<1>2. LeftOutIsReported'
  <2>1. /\ last'.lib = lib /\ last'.ret = r.ret /\ last'.errors = r.errors
        /\ last'.full <=> Len(r.errors) >= r.room
        /\ lib_gates' = r.lib_gates /\ behaviors' = r.behaviors
        /\ signals' = r.signals /\ constants' = r.constants
    BY DEF Take
  <2>2. /\ EntitiesOf(last.lib)' =
             Range(r.lib_gates[lib]) \cup Range(Libraries[lib].signals) \cup Range(Libraries[lib].constants)
        /\ Registered' = Range(r.behaviors) \cup Range(r.signals) \cup Range(r.constants)
    BY <2>1 DEF EntitiesOf, Registered, Gates, Range
  <2>3. Range(r.errors) = {r.errors[n] : n \in DOMAIN r.errors}
    BY DEF Range
  <2>4. QED
    BY <2>1, <2>2, <2>3 DEF LeftOutIsReported, Reported
<1>3. QED
  BY <1>1, <1>2 DEF AccInv

LEMMA InitHolds ==
  ASSUME Init
  PROVE  AccInv
<1> DEFINE q == State(Room)
           own == [lib \in DOMAIN Libraries |-> Libraries[lib].gates]
<1>1. q = [behaviors |-> <<>>, signals |-> <<>>, constants |-> <<>>,
           nodes |-> <<>>, lib_gates |-> own, loaded |-> {}, ready |-> {},
           errors |-> <<>>, ret |-> "ok", room |-> Room]
  BY DEF State, Init
<1>2. own = [lib \in DOMAIN Libraries |-> own[lib]] /\ \A lib \in DOMAIN Libraries : Named(own[lib])
  BY LibrariesAssumption
<1> HIDE DEF q, own
<1>3. <<>> \in Seq(Texts)
  OBVIOUS
<1>4. IsState(q)
  BY <1>1, <1>2, <1>3, EmptyIsNamed, RoomAssumption DEF IsState
<1>5. KnowsLoaded(q) /\ HasReadySignals(q)
  BY <1>1 DEF KnowsLoaded, HasReadySignals
<1>6. LeftOutIsReported
  BY DEF Init, LeftOutIsReported
<1>7. QED
  BY <1>4, <1>5, <1>6 DEF AccInv, LoadInv, q

LEMMA InitEnvironmentIs ==
  ASSUME AccInv, InitEnvironment
  PROVE  AccInv' /\ (loaded' = loaded => UNCHANGED registries)
<1> DEFINE s == State(Room)
           q == LoadLibrary(s, Builtin)
           r == LoadEmbeddedModules(q)
<1>1. LoadInv(s) /\ s.ret = "ok" /\ Builtin \in DOMAIN Libraries
  BY StateIs, LibrariesAssumption DEF AccInv
<1>2. Take(r, Last(Embedded))
  BY DEF InitEnvironment
<1>3. /\ s.behaviors = behaviors /\ s.signals = signals /\ s.constants = constants /\ s.nodes = nodes
      /\ s.loaded = loaded
  BY StateIs
<1> HIDE DEF s
<1>4. /\ LoadInv(q) /\ q.loaded = s.loaded \cup {Builtin}
      /\ Builtin \in s.loaded => SameEntities(s, q)
  BY <1>1, LoadIs
<1> HIDE DEF q
<1>5. /\ LoadInv(r) /\ r.loaded = q.loaded \cup Range(Embedded)
      /\ Range(Embedded) \subseteq q.loaded => SameEntities(q, r)
      /\ Reported(r, Last(Embedded))
  BY <1>4, ModulesAre
<1> HIDE DEF r
<1>6. AccInv'
  BY <1>2, <1>5, TakeIs
<1>7. ASSUME loaded' = loaded PROVE UNCHANGED registries
  <2>1. r.loaded = s.loaded
    BY <1>2, <1>3, <1>7 DEF Take
  <2>2. SameEntities(s, q) /\ SameEntities(q, r)
    BY <1>4, <1>5, <2>1
  <2>3. QED
    BY <1>2, <1>3, <2>2 DEF SameEntities, Take, registries
<1>8. QED
  BY <1>6, <1>7

LEMMA LoadSharedIs ==
  ASSUME AccInv, NEW lib \in DOMAIN Libraries, LoadShared(lib)
  PROVE  AccInv' /\ (loaded' = loaded => UNCHANGED registries)
<1> DEFINE s == State(Room)
           r == LoadLibrary(s, lib)
<1>1. LoadInv(s) /\ s.ret = "ok"
  BY StateIs DEF AccInv
<1>2. Take(r, lib)
  BY DEF LoadShared
<1>3. /\ s.behaviors = behaviors /\ s.signals = signals /\ s.constants = constants /\ s.nodes = nodes
      /\ s.loaded = loaded
  BY StateIs
<1> HIDE DEF s
<1>4. /\ LoadInv(r) /\ r.loaded = s.loaded \cup {lib}
      /\ lib \in s.loaded => SameEntities(s, r)
      /\ Reported(r, lib)
  BY <1>1, LoadIs
<1> HIDE DEF r
<1>5. AccInv'
  BY <1>2, <1>4, TakeIs
<1>6. ASSUME loaded' = loaded PROVE UNCHANGED registries
  <2>1. r.loaded = s.loaded
    BY <1>2, <1>3, <1>6 DEF Take
  <2>2. SameEntities(s, r)
    BY <1>4, <2>1
  <2>3. QED
    BY <1>2, <1>3, <2>2 DEF SameEntities, Take, registries
<1>7. QED
  BY <1>5, <1>6

LEMMA StutterHolds ==
  ASSUME AccInv, UNCHANGED <<behaviors, signals, constants, nodes, lib_gates, last, loaded, ready>>
  PROVE  AccInv'
BY DEF AccInv, State, LeftOutIsReported, EntitiesOf, Registered, Gates

LEMMA StepHolds ==
  ASSUME AccInv, [Next]_vars
  PROVE  AccInv'
<1>1. CASE InitEnvironment
  BY <1>1, InitEnvironmentIs
<1>2. CASE DestroyEnvironment
  BY <1>2, StutterHolds DEF DestroyEnvironment
<1>3. CASE \E lib \in DOMAIN Libraries : LoadShared(lib)
  BY <1>3, LoadSharedIs
<1>4. CASE UNCHANGED vars
  BY <1>4, StutterHolds DEF vars
<1>5. QED
  BY <1>1, <1>2, <1>3, <1>4 DEF Next

THEOREM AccInvHolds == Spec => []AccInv
<1>1. Init => AccInv
  BY InitHolds
<1>2. AccInv /\ [Next]_vars => AccInv'
  BY StepHolds
<1>3. QED
  BY <1>1, <1>2, PTL DEF Spec

\* A library told library_after_loaded has its own signals registered: lxc_load_library
\* stops at the first one that is there already, whosever it is, and answers so.
THEOREM ReadyLibrariesHaveTheirSignals == Spec => []ReadyHasItsSignals
<1>1. AccInv => ReadyHasItsSignals
  <2>1. SUFFICES ASSUME AccInv, NEW lib \in ready,
                        NEW n \in DOMAIN Libraries[lib].signals
                 PROVE  Libraries[lib].signals[n] \in {signals[k] : k \in DOMAIN signals}
    BY DEF ReadyHasItsSignals
  <2>2. Range(Libraries[lib].signals) \subseteq Range(signals)
    BY <2>1, StateIs DEF AccInv, LoadInv, HasReadySignals
  <2>3. QED
    BY <2>1, <2>2 DEF Range
<1>2. QED
  BY <1>1, AccInvHolds, PTL

\* Whatever a load that was not stopped at a signal keeps out is named to its
\* caller, unless the caller's array is full.
THEOREM NothingIsLeftOutSilently == Spec => []LeftOutIsReported
<1>1. AccInv => LeftOutIsReported
  BY DEF AccInv
<1>2. QED
  BY <1>1, AccInvHolds, PTL

\* Libraries that are loaded again, in any order and however often the environment
\* is made, register nothing: what a name stands for never changes.
THEOREM LoadingAgainChangesNothing == Spec => AgainChangesNothing
<1>1. AccInv /\ [Next]_vars => [loads' # loads /\ loaded' = loaded => UNCHANGED registries]_vars
  <2>1. SUFFICES ASSUME AccInv, [Next]_vars, loads' # loads, loaded' = loaded
                 PROVE  UNCHANGED registries
    OBVIOUS
  <2>2. CASE InitEnvironment
    BY <2>1, <2>2, InitEnvironmentIs
  <2>3. CASE DestroyEnvironment
    BY <2>1, <2>3 DEF DestroyEnvironment
  <2>4. CASE \E lib \in DOMAIN Libraries : LoadShared(lib)
    BY <2>1, <2>4, LoadSharedIs
  <2>5. CASE UNCHANGED vars
    BY <2>1, <2>5 DEF vars
  <2>6. QED
    BY <2>1, <2>2, <2>3, <2>4, <2>5 DEF Next
<1>2. QED
  BY <1>1, AccInvHolds, PTL DEF Spec, AgainChangesNothing
-----------------------------------------------------------------------------
(* Library trees.                                                           *)

AllGates ==
  UNION {Range(Libraries[lib].gates) \cup Range(Libraries[lib].made) : lib \in DOMAIN Libraries}

\* What a path is made of.
Labels == STRING

Node == [name : Labels, parent : Nat, gates : Seq(AllGates)]

\* Nodes come after their parents, and the nodes at one have different names.
IsTree(tree) ==
  /\ tree \in Seq(Node)
  /\ \A n \in 1 .. Len(tree) : tree[n].parent < n
  /\ \A m, n \in 1 .. Len(tree) :
       tree[m].parent = tree[n].parent /\ tree[m].name = tree[n].name => m = n

LEMMA TreeIs ==
  ASSUME NEW tree, IsTree(tree)
  PROVE  /\ Len(tree) \in Nat /\ DOMAIN tree = 1 .. Len(tree)
         /\ \A n \in 1 .. Len(tree) :
              /\ tree[n] \in Node /\ tree[n].name \in Labels /\ tree[n].gates \in Seq(AllGates)
              /\ tree[n].parent \in 0 .. n - 1 /\ tree[n].parent \in 0 .. Len(tree)
<1>1. tree \in Seq(Node) /\ Len(tree) \in Nat /\ DOMAIN tree = 1 .. Len(tree)
  BY DEF IsTree
<1>2. ASSUME NEW n \in 1 .. Len(tree)
      PROVE  /\ tree[n] \in Node /\ tree[n].name \in Labels /\ tree[n].gates \in Seq(AllGates)
             /\ tree[n].parent \in 0 .. n - 1 /\ tree[n].parent \in 0 .. Len(tree)
  <2>1. tree[n] \in Node
    BY <1>1, ElementOfSeq
  <2>2. tree[n].name \in Labels /\ tree[n].gates \in Seq(AllGates) /\ tree[n].parent \in Nat
    BY <2>1 DEF Node
  <2>3. tree[n].parent < n
    BY DEF IsTree
  <2>4. QED
    BY <1>1, <2>1, <2>2, <2>3
<1>3. QED
  BY <1>1, <1>2

\* Every node has a path, ...
LEMMA PathsAre ==
  ASSUME NEW tree, IsTree(tree)
  PROVE  /\ PathsIn(tree) \in [0 .. Len(tree) -> Seq(Labels)]
         /\ PathsIn(tree)[0] = <<>>
         /\ \A n \in 1 .. Len(tree) :
              PathsIn(tree)[n] = Append(PathsIn(tree)[tree[n].parent], tree[n].name)
<1> DEFINE L == Len(tree)
           Up(n) == tree[n].parent
           On(to, n) == to \o <<tree[n].name>>
           Is(f, k) == f = [n \in 0 .. k |-> IF n = 0 THEN <<>> ELSE On(f[Up(n)], n)]
           S == {k \in 0 .. L : \E f : Is(f, k)}
           path == CHOOSE f : Is(f, L)
<1>1. L \in Nat /\ \A n \in 1 .. L : Up(n) \in 0 .. n - 1 /\ tree[n].name \in Labels
  BY TreeIs
<1> HIDE DEF L, Up, On
<1>2. 0 \in S
  <2> DEFINE g == [n \in 0 .. 0 |-> <<>>]
  <2>1. Is(g, 0)
    OBVIOUS
  <2> HIDE DEF g, Is
  <2>2. QED
    BY <1>1, <2>1
<1>3. ASSUME NEW k \in 1 .. L, k - 1 \in S PROVE k \in S
  <2>1. PICK f : Is(f, k - 1)
    BY <1>3
  <2> DEFINE g == [n \in 0 .. k |-> IF n = k THEN On(f[Up(k)], k) ELSE f[n]]
  <2>2. /\ \A n \in 0 .. k - 1 : g[n] = f[n] /\ f[n] = IF n = 0 THEN <<>> ELSE On(f[Up(n)], n)
        /\ g[k] = On(f[Up(k)], k)
    BY <1>1, <2>1
  <2>3. \A n \in 1 .. k : Up(n) \in 0 .. k - 1
    BY <1>1
  <2>4. ASSUME NEW n \in 0 .. k PROVE g[n] = IF n = 0 THEN <<>> ELSE On(g[Up(n)], n)
    <3>1. CASE n = k
      BY <2>2, <2>3, <3>1
    <3>2. CASE n \in 0 .. k - 1
      BY <2>2, <2>3, <3>2
    <3>3. QED
      BY <3>1, <3>2
  <2>5. g = [n \in 0 .. k |-> g[n]]
    OBVIOUS
  <2> HIDE DEF g
  <2>6. Is(g, k)
    BY <2>4, <2>5
  <2> HIDE DEF Is
  <2>7. QED
    BY <1>1, <2>6
<1>4. L \in S
  <2> HIDE DEF S
  <2>1. \A k \in 0 .. L : k \in S
    BY <1>1, <1>2, <1>3, Steps
  <2>2. QED
    BY <1>1, <2>1
<1>5. Is(path, L)
  BY <1>4
<1>6. PathsIn(tree) = path
  BY DEF PathsIn, L, Up, On
<1> HIDE DEF path
<1>7. /\ path[0] = <<>> /\ path = [n \in 0 .. L |-> path[n]]
      /\ \A n \in 1 .. L : path[n] = On(path[Up(n)], n)
  BY <1>1, <1>5
<1> HIDE DEF Is
<1> DEFINE T == {k \in 0 .. L : \A n \in 0 .. k : path[n] \in Seq(Labels)}
<1>8. 0 \in T
  <2>1. <<>> \in Seq(Labels) /\ 0 \in 0 .. L /\ \A n \in 0 .. 0 : n = 0
    BY <1>1
  <2>2. QED
    BY <1>7, <2>1
<1>9. \A n \in 1 .. L : path[Up(n)] \in Seq(Labels) =>
        path[n] \in Seq(Labels) /\ path[n] = Append(path[Up(n)], tree[n].name)
  <2>1. ASSUME NEW n \in 1 .. L, path[Up(n)] \in Seq(Labels)
        PROVE  path[n] \in Seq(Labels) /\ path[n] = Append(path[Up(n)], tree[n].name)
    <3> DEFINE to == path[Up(n)]
               name == tree[n].name
    <3>1. to \in Seq(Labels) /\ name \in Labels
      BY <1>1, <2>1
    <3>2. path[n] = to \o <<name>>
      BY <1>7 DEF On
    <3> HIDE DEF to, name
    <3>3. Append(to, name) = to \o <<name>> /\ Append(to, name) \in Seq(Labels)
      BY <3>1, AppendIsConcat, AppendProperties
    <3>4. QED
      BY <3>2, <3>3 DEF to, name
  <2>2. QED
    BY <2>1
<1>10. ASSUME NEW k \in 1 .. L, k - 1 \in T PROVE k \in T
  <2>1. path[k] \in Seq(Labels)
    BY <1>1, <1>9, <1>10
  <2>2. \A n \in 0 .. k : n \in 0 .. k - 1 \/ n = k
    BY <1>1
  <2>3. QED
    BY <1>1, <1>10, <2>1, <2>2
<1>11. \A n \in 0 .. L : path[n] \in Seq(Labels)
  <2>1. \A k \in 0 .. L : k \in T
    <3> HIDE DEF T
    <3>1. QED
      BY <1>1, <1>8, <1>10, Steps
  <2>2. L \in T
    BY <1>1, <2>1
  <2>3. QED
    BY <2>2
<1>12. \A n \in 1 .. L : path[n] = Append(path[Up(n)], tree[n].name)
  <2>1. \A n \in 1 .. L : Up(n) \in 0 .. L
    BY <1>1
  <2>2. QED
    BY <1>9, <1>11, <2>1
<1>13. QED
  BY <1>6, <1>7, <1>11, <1>12 DEF L, Up

\* ... and no two have the same.
LEMMA PathsDiffer ==
  ASSUME NEW tree, IsTree(tree)
  PROVE  \A m, n \in 0 .. Len(tree) : PathsIn(tree)[m] = PathsIn(tree)[n] => m = n
<1> DEFINE L == Len(tree)
           p == PathsIn(tree)
           Up(n) == tree[n].parent
           Name(n) == tree[n].name
           S == {k \in 0 .. L : \A m \in 0 .. k, n \in 0 .. L : p[m] = p[n] => m = n}
<1>1. L \in Nat /\ \A n \in 1 .. L : Up(n) \in 0 .. n - 1 /\ Up(n) \in 0 .. L /\ Name(n) \in Labels
  BY TreeIs
<1>2. /\ p \in [0 .. L -> Seq(Labels)] /\ p[0] = <<>>
      /\ \A n \in 1 .. L : p[n] = Append(p[Up(n)], Name(n))
  BY PathsAre
<1>3. \A m, n \in 1 .. L : Up(m) = Up(n) /\ Name(m) = Name(n) => m = n
  BY DEF IsTree
<1> HIDE DEF L, p, Up, Name
<1>4. \A n \in 1 .. L : p[n] # <<>>
  <2>1. \A n \in 1 .. L : p[Up(n)] \in Seq(Labels)
    BY <1>1, <1>2
  <2>2. QED
    BY <1>1, <1>2, <2>1, AppendProperties
<1>5. 0 \in S
  <2>1. \A n \in 0 .. L : n = 0 \/ n \in 1 .. L
    BY <1>1
  <2>2. \A m \in 0 .. 0 : m = 0
    OBVIOUS
  <2>3. QED
    BY <1>1, <1>2, <1>4, <2>1, <2>2
<1>6. ASSUME NEW k \in 1 .. L, k - 1 \in S PROVE k \in S
  <2>1. \A m \in 0 .. k : m \in 0 .. k - 1 \/ m = k
    BY <1>1
  <2>2. ASSUME NEW n \in 0 .. L, p[k] = p[n] PROVE k = n
    <3>1. n \in 1 .. L
      BY <1>1, <1>2, <1>4, <2>2
    <3>2. p[Up(k)] \in Seq(Labels) /\ p[Up(n)] \in Seq(Labels) /\ Name(k) \in Labels /\ Name(n) \in Labels
      BY <1>1, <1>2, <3>1
    <3>3. Append(p[Up(k)], Name(k)) = Append(p[Up(n)], Name(n))
      BY <1>2, <2>2, <3>1
    <3>4. p[Up(k)] = p[Up(n)] /\ Name(k) = Name(n)
      <4> DEFINE a == p[Up(k)]
                 c == p[Up(n)]
                 e == Name(k)
                 f == Name(n)
      <4>1. a \in Seq(Labels) /\ c \in Seq(Labels) /\ e \in Labels /\ f \in Labels /\ Append(a, e) = Append(c, f)
        BY <3>2, <3>3
      <4> HIDE DEF a, c, e, f
      <4>2. a = c /\ e = f
        BY <4>1, AppendInjective
      <4>3. QED
        BY <4>2 DEF a, c, e, f
    <3>5. Up(k) \in 0 .. k - 1 /\ Up(n) \in 0 .. L
      BY <1>1, <3>1
    <3>6. Up(k) = Up(n)
      BY <1>6, <3>4, <3>5
    <3>7. QED
      BY <1>3, <3>1, <3>4, <3>6
  <2>3. k \in 0 .. L
    BY <1>1
  <2>4. QED
    BY <1>6, <2>1, <2>2, <2>3
<1>7. L \in S
  <2> HIDE DEF S
  <2>1. \A k \in 0 .. L : k \in S
    BY <1>1, <1>5, <1>6, Steps
  <2>2. QED
    BY <1>1, <2>1
<1>8. QED
  BY <1>7 DEF L, p

LEMMA PrefixIs ==
  ASSUME NEW path \in Seq(Labels), NEW k \in 0 .. Len(path)
  PROVE  /\ SubSeq(path, 1, k) \in Seq(Labels) /\ Len(SubSeq(path, 1, k)) = k
         /\ SubSeq(path, 1, 0) = <<>> /\ SubSeq(path, 1, Len(path)) = path
         /\ k < Len(path) =>
              /\ path[k + 1] \in Labels
              /\ SubSeq(path, 1, k + 1) = Append(SubSeq(path, 1, k), path[k + 1])
<1>1. Len(path) \in Nat /\ k \in Nat /\ k <= Len(path)
  BY LenProperties
<1>2. \A i \in 1 .. Len(path) : path[i] \in Labels
  BY ElementOfSeq
<1>3. SubSeq(path, 1, k) \in Seq(Labels) /\ Len(SubSeq(path, 1, k)) = k
  <2>1. \A i \in 1 .. k : path[i] \in Labels
    BY <1>1, <1>2
  <2>2. 1 \in Int /\ k \in Int
    BY <1>1
  <2>3. /\ SubSeq(path, 1, k) \in Seq(Labels)
        /\ Len(SubSeq(path, 1, k)) = IF 1 <= k THEN k - 1 + 1 ELSE 0
    BY <2>1, <2>2, SubSeqProperties
  <2>4. QED
    BY <1>1, <2>3
<1>4. SubSeq(path, 1, 0) = <<>> /\ SubSeq(path, 1, Len(path)) = path
  BY SubSeqEmpty, SubSeqFull
<1>5. ASSUME k < Len(path)
      PROVE  path[k + 1] \in Labels /\ SubSeq(path, 1, k + 1) = Append(SubSeq(path, 1, k), path[k + 1])
  <2>1. 1 \in 1 .. Len(path) /\ k + 1 \in 1 .. Len(path) /\ (k + 1) - 1 = k
    BY <1>1, <1>5
  <2>2. SubSeq(path, 1, k + 1) = SubSeq(path, 1, (k + 1) - 1) \o <<path[k + 1]>>
    BY <2>1, SubSeqRecursiveSecond
  <2>3. path[k + 1] \in Labels
    BY <1>2, <2>1
  <2>4. QED
    BY <1>3, <2>1, <2>2, <2>3, AppendIsConcat
<1>6. QED
  BY <1>3, <1>4, <1>5

LEMMA PrefixOfAppend ==
  ASSUME NEW path \in Seq(Labels), NEW name \in Labels, NEW k \in 0 .. Len(path)
  PROVE  SubSeq(Append(path, name), 1, k) = SubSeq(path, 1, k)
<1> DEFINE c == Append(path, name)
           a == SubSeq(c, 1, k)
           d == SubSeq(path, 1, k)
<1>1. /\ c \in Seq(Labels) /\ Len(c) = Len(path) + 1 /\ Len(path) \in Nat
      /\ \A i \in 1 .. Len(path) : c[i] = path[i]
  <2>1. Len(path) \in Nat
    BY LenProperties
  <2>2. QED
    BY <2>1, AppendProperties
<1> HIDE DEF c
<1>2. /\ \A i \in 1 .. k : c[i] = path[i] /\ path[i] \in Labels
      /\ k \in Int
  BY <1>1, ElementOfSeq
<1>3. a \in Seq(Labels) /\ Len(a) = (IF 1 <= k THEN k - 1 + 1 ELSE 0) /\ \A i \in 1 .. k - 1 + 1 : a[i] = c[1 + i - 1]
  BY <1>2, SubSeqProperties
<1>4. d \in Seq(Labels) /\ Len(d) = (IF 1 <= k THEN k - 1 + 1 ELSE 0) /\ \A i \in 1 .. k - 1 + 1 : d[i] = path[1 + i - 1]
  BY <1>2, SubSeqProperties
<1> HIDE DEF a, d
<1>5. Len(a) = k /\ Len(d) = k
  BY <1>3, <1>4
<1>6. \A i \in 1 .. k : a[i] = d[i]
  BY <1>2, <1>3, <1>4
<1>7. a = d
  BY <1>3, <1>4, <1>5, <1>6, SeqEqual
<1>8. QED
  BY <1>7 DEF a, d, c

\* The beginning of a path leads to a node.
LEMMA PrefixesAreThere ==
  ASSUME NEW tree, IsTree(tree)
  PROVE  \A n \in 0 .. Len(tree) : \A k \in 0 .. Len(PathsIn(tree)[n]) :
           \E m \in 0 .. Len(tree) : PathsIn(tree)[m] = SubSeq(PathsIn(tree)[n], 1, k)
<1> DEFINE L == Len(tree)
           p == PathsIn(tree)
           Up(n) == tree[n].parent
           Name(n) == tree[n].name
           All(n) == \A k \in 0 .. Len(p[n]) : \E m \in 0 .. L : p[m] = SubSeq(p[n], 1, k)
           S == {j \in 0 .. L : \A n \in 0 .. j : All(n)}
<1>1. L \in Nat /\ \A n \in 1 .. L : Up(n) \in 0 .. n - 1 /\ Up(n) \in 0 .. L /\ Name(n) \in Labels
  BY TreeIs
<1>2. /\ p \in [0 .. L -> Seq(Labels)] /\ p[0] = <<>>
      /\ \A n \in 1 .. L : p[n] = Append(p[Up(n)], Name(n))
  BY PathsAre
<1> HIDE DEF L, p, Up, Name
<1>3. All(0)
  <2>1. Len(p[0]) = 0 /\ p[0] \in Seq(Labels) /\ 0 \in 0 .. L
    BY <1>1, <1>2
  <2>2. SubSeq(p[0], 1, 0) = p[0]
    BY <1>2, <2>1, PrefixIs
  <2>3. \A k \in 0 .. Len(p[0]) : k = 0
    BY <2>1
  <2>4. QED
    BY <2>1, <2>2, <2>3
<1>4. ASSUME NEW j \in 1 .. L, All(Up(j)) PROVE All(j)
  <2> DEFINE q == p[Up(j)]
  <2>1. q \in Seq(Labels) /\ Len(q) \in Nat /\ Name(j) \in Labels /\ p[j] = Append(q, Name(j))
    <3>1. Up(j) \in 0 .. L
      BY <1>1
    <3>2. q \in Seq(Labels)
      BY <1>2, <3>1
    <3>3. Len(q) \in Nat
      BY <3>2, LenProperties
    <3> HIDE DEF q
    <3>4. QED
      BY <1>1, <1>2, <3>2, <3>3 DEF q
  <2> HIDE DEF q
  <2>2. p[j] \in Seq(Labels) /\ Len(p[j]) = Len(q) + 1
    BY <2>1, AppendProperties
  <2>3. ASSUME NEW k \in 0 .. Len(p[j]) PROVE \E m \in 0 .. L : p[m] = SubSeq(p[j], 1, k)
    <3>1. CASE k \in 0 .. Len(q)
      <4>1. SubSeq(p[j], 1, k) = SubSeq(q, 1, k)
        BY <2>1, <3>1, PrefixOfAppend
      <4>2. \E m \in 0 .. L : p[m] = SubSeq(q, 1, k)
        BY <1>4, <3>1 DEF q
      <4>3. QED
        BY <4>1, <4>2
    <3>2. CASE k = Len(p[j])
      <4>1. SubSeq(p[j], 1, k) = p[j]
        BY <2>2, <3>2, SubSeqFull
      <4>2. j \in 0 .. L
        BY <1>1
      <4>3. QED
        BY <4>1, <4>2
    <3>3. QED
      BY <2>1, <2>2, <3>1, <3>2
  <2>4. QED
    BY <2>3
<1> HIDE DEF All
<1>5. 0 \in S
  BY <1>1, <1>3
<1>6. ASSUME NEW j \in 1 .. L, j - 1 \in S PROVE j \in S
  <2>1. All(j)
    BY <1>1, <1>4, <1>6
  <2>2. j \in 0 .. L /\ \A n \in 0 .. j : n \in 0 .. j - 1 \/ n = j
    BY <1>1
  <2>3. QED
    BY <1>6, <2>1, <2>2
<1>7. L \in S
  <2> HIDE DEF S
  <2>1. \A k \in 0 .. L : k \in S
    BY <1>1, <1>5, <1>6, Steps
  <2>2. QED
    BY <1>1, <2>1
<1>8. \A n \in 0 .. L : All(n)
  BY <1>7
<1>9. QED
  BY <1>8 DEF All, L, p

\* The search goes on at a child of the node that it is at.
Further(tree, path, q, lvl) ==
  LET next == Children(tree, q.node, path[lvl])
  IN  IF q.lvl < lvl - 1 \/ next = {} THEN q ELSE [lvl |-> lvl, node |-> Min(next)]

LEMMA SearchLoop ==
  ASSUME NEW tree, NEW path, Len(path) \in Nat
  PROVE  \E to : /\ to[0] = [lvl |-> 0, node |-> 0]
                 /\ \A n \in 1 .. Len(path) : to[n] = Further(tree, path, to[n - 1], n)
                 /\ SearchAhead(tree, path) = to[Len(path)]
<1> DEFINE L == Len(path)
           Is(f, k) == f = [lvl \in 0 .. k |-> IF lvl = 0 THEN [lvl |-> 0, node |-> 0]
                                                        ELSE Further(tree, path, f[lvl - 1], lvl)]
           S == {k \in 0 .. L : \E f : Is(f, k)}
           to == CHOOSE f : Is(f, L)
<1>1. 0 \in S
  <2> DEFINE g == [n \in 0 .. 0 |-> [lvl |-> 0, node |-> 0]]
  <2>1. Is(g, 0)
    OBVIOUS
  <2> HIDE DEF g, Is
  <2>2. QED
    BY <2>1
<1>2. ASSUME NEW k \in 1 .. L, k - 1 \in S PROVE k \in S
  <2>1. PICK f : Is(f, k - 1)
    BY <1>2
  <2> DEFINE g == [n \in 0 .. k |-> IF n = k THEN Further(tree, path, f[k - 1], k) ELSE f[n]]
  <2>2. Is(g, k)
    BY <2>1
  <2> HIDE DEF g, Is
  <2>3. QED
    BY <2>2
<1>3. L \in S
  <2> HIDE DEF S
  <2>1. \A k \in 0 .. L : k \in S
    BY <1>1, <1>2, Steps
  <2>2. QED
    BY <2>1
<1>4. Is(to, L)
  BY <1>3
<1>5. SearchAhead(tree, path) = to[L]
  BY DEF SearchAhead, Further
<1> HIDE DEF to
<1>6. to[0] = [lvl |-> 0, node |-> 0] /\ \A n \in 1 .. L : to[n] = Further(tree, path, to[n - 1], n)
  BY <1>4
<1>7. QED
  BY <1>5, <1>6

\* It ends where the path does or the node has no such child.
Leads(tree, path, r, k) ==
  /\ r.lvl \in 0 .. k /\ r.node \in 0 .. Len(tree)
  /\ PathsIn(tree)[r.node] = SubSeq(path, 1, r.lvl)
  /\ r.lvl < k => Children(tree, r.node, path[r.lvl + 1]) = {}

LEMMA FurtherLeads ==
  ASSUME NEW tree, IsTree(tree), NEW path \in Seq(Labels), NEW k \in 1 .. Len(path),
         NEW q, Leads(tree, path, q, k - 1)
  PROVE  Leads(tree, path, Further(tree, path, q, k), k)
<1> DEFINE next == Children(tree, q.node, path[k])
           r == Further(tree, path, q, k)
           p == PathsIn(tree)
<1>1. Len(path) \in Nat /\ k \in Nat /\ k - 1 \in 0 .. Len(path)
  BY LenProperties
<1>2. /\ q.lvl \in 0 .. k - 1 /\ q.node \in 0 .. Len(tree)
      /\ p[q.node] = SubSeq(path, 1, q.lvl)
      /\ q.lvl < k - 1 => Children(tree, q.node, path[q.lvl + 1]) = {}
  BY DEF Leads
<1> HIDE DEF p
<1>3. CASE q.lvl < k - 1
  <2>1. r = q
    BY <1>3 DEF Further
  <2>2. QED
    BY <1>1, <1>2, <1>3, <2>1 DEF Leads, p
<1>4. CASE q.lvl = k - 1 /\ next = {}
  <2>1. r = q
    BY <1>4 DEF Further
  <2>2. q.lvl + 1 = k /\ q.lvl \in 0 .. k
    BY <1>1, <1>4
  <2>3. Children(tree, r.node, path[r.lvl + 1]) = {}
    BY <1>4, <2>1, <2>2
  <2> HIDE DEF r, next
  <2>4. QED
    BY <1>2, <2>1, <2>2, <2>3 DEF Leads, p, r
<1>5. CASE q.lvl = k - 1 /\ next # {}
  <2> DEFINE m == Min(next)
  <2>1. r = [lvl |-> k, node |-> m]
    BY <1>1, <1>5 DEF Further
  <2>2. DOMAIN tree = 1 .. Len(tree) /\ Len(tree) \in Nat
    BY TreeIs
  <2>3. next \subseteq Nat /\ \A n \in next : n \in 1 .. Len(tree) /\ tree[n].parent = q.node /\ tree[n].name = path[k]
    BY <2>2 DEF Children
  <2>4. m \in next
    <3> HIDE DEF next
    <3>1. \E n \in next : \A j \in next : n <= j
      BY <1>5, <2>3, LeastIs
    <3>2. QED
      BY <3>1 DEF Min
  <2>5. m \in 1 .. Len(tree) /\ tree[m].parent = q.node /\ tree[m].name = path[k]
    BY <2>3, <2>4
  <2> HIDE DEF m, next, r
  <2>6. p[m] = Append(SubSeq(path, 1, k - 1), path[k])
    BY <1>2, <1>5, <2>5, PathsAre DEF p
  <2>7. SubSeq(path, 1, (k - 1) + 1) = Append(SubSeq(path, 1, k - 1), path[(k - 1) + 1])
    BY <1>1, PrefixIs
  <2>8. p[m] = SubSeq(path, 1, k)
    BY <1>1, <2>6, <2>7
  <2>9. QED
    BY <1>1, <2>1, <2>2, <2>5, <2>8 DEF Leads, p, r
<1>6. QED
  BY <1>1, <1>2, <1>3, <1>4, <1>5

LEMMA SearchLeads ==
  ASSUME NEW tree, IsTree(tree), NEW path \in Seq(Labels)
  PROVE  Leads(tree, path, SearchAhead(tree, path), Len(path))
<1> DEFINE L == Len(path)
<1>1. L \in Nat
  BY LenProperties
<1>2. PICK to : /\ to[0] = [lvl |-> 0, node |-> 0]
                /\ \A n \in 1 .. L : to[n] = Further(tree, path, to[n - 1], n)
                /\ SearchAhead(tree, path) = to[L]
  BY <1>1, SearchLoop
<1> DEFINE S == {k \in 0 .. L : Leads(tree, path, to[k], k)}
<1>3. 0 \in S
  <2>1. Len(tree) \in Nat /\ PathsIn(tree)[0] = <<>> /\ SubSeq(path, 1, 0) = <<>>
    BY TreeIs, PathsAre, SubSeqEmpty
  <2>2. to[0].lvl = 0 /\ to[0].node = 0 /\ 0 \in 0 .. Len(tree) /\ 0 \in 0 .. L
    BY <1>1, <1>2, <2>1
  <2> DEFINE q == to[0]
  <2>3. Leads(tree, path, q, 0)
    <3>1. q.lvl = 0 /\ q.node = 0 /\ q.lvl \in 0 .. 0 /\ ~(q.lvl < 0)
      BY <2>2
    <3> HIDE DEF q
    <3>2. PathsIn(tree)[q.node] = SubSeq(path, 1, q.lvl)
      BY <2>1, <3>1
    <3>3. QED
      BY <2>2, <3>1, <3>2 DEF Leads
  <2>4. QED
    BY <2>2, <2>3
<1>4. ASSUME NEW k \in 1 .. L, k - 1 \in S PROVE k \in S
  BY <1>1, <1>2, <1>4, FurtherLeads
<1>5. L \in S
  <2> HIDE DEF S
  <2>1. \A k \in 0 .. L : k \in S
    BY <1>1, <1>3, <1>4, Steps
  <2>2. QED
    BY <1>1, <2>1
<1>6. QED
  BY <1>2, <1>5

\* The search finds what is there.
LEMMA SearchFinds ==
  ASSUME NEW tree, IsTree(tree), NEW path \in Seq(Labels),
         NEW n \in 0 .. Len(tree), PathsIn(tree)[n] = path
  PROVE  SearchAhead(tree, path).lvl = Len(path) /\ SearchAhead(tree, path).node = n
<1> DEFINE r == SearchAhead(tree, path)
           p == PathsIn(tree)
           to == SubSeq(path, 1, r.lvl)
           name == path[r.lvl + 1]
<1>1. /\ r.lvl \in 0 .. Len(path) /\ r.node \in 0 .. Len(tree)
      /\ p[r.node] = to
      /\ r.lvl < Len(path) => Children(tree, r.node, name) = {}
  BY SearchLeads DEF Leads
<1>2. Len(path) \in Nat /\ Len(tree) \in Nat /\ DOMAIN tree = 1 .. Len(tree)
  BY LenProperties, TreeIs
<1>3. /\ p \in [0 .. Len(tree) -> Seq(Labels)] /\ p[0] = <<>>
      /\ \A m \in 1 .. Len(tree) : p[m] = Append(p[tree[m].parent], tree[m].name)
  BY PathsAre
<1>4. \A m, k \in 0 .. Len(tree) : p[m] = p[k] => m = k
  BY PathsDiffer
<1> HIDE DEF r, p
<1>5. ASSUME r.lvl < Len(path) PROVE FALSE
  <2>1. to \in Seq(Labels) /\ name \in Labels /\ SubSeq(path, 1, r.lvl + 1) = Append(to, name)
    BY <1>1, <1>5, PrefixIs
  <2>2. r.lvl + 1 \in 0 .. Len(path)
    BY <1>1, <1>2, <1>5
  <2>3. PICK m \in 0 .. Len(tree) : p[m] = SubSeq(path, 1, r.lvl + 1)
    BY <2>2, PrefixesAreThere DEF p
  <2> HIDE DEF to, name
  <2>4. p[m] = Append(to, name) /\ p[m] # <<>>
    <3>1. Append(to, name) # <<>>
      BY <2>1, AppendProperties
    <3>2. QED
      BY <2>1, <2>3, <3>1
  <2>5. m \in 1 .. Len(tree)
    BY <1>2, <1>3, <2>4
  <2> DEFINE up == tree[m].parent
             own == tree[m].name
  <2>6. up \in 0 .. Len(tree) /\ own \in Labels
    BY <2>5, TreeIs
  <2> DEFINE above == p[up]
  <2>7. above \in Seq(Labels) /\ Append(above, own) = Append(to, name)
    BY <1>3, <2>4, <2>5, <2>6
  <2> HIDE DEF above, own
  <2>8. above = to /\ own = name
    BY <2>1, <2>6, <2>7, AppendInjective
  <2> HIDE DEF up
  <2>9. up = r.node
    BY <1>1, <1>4, <2>6, <2>8 DEF above
  <2>10. m \in Children(tree, r.node, name)
    BY <1>2, <2>5, <2>8, <2>9 DEF Children, up, own
  <2>11. QED
    BY <1>1, <1>5, <2>10 DEF name
<1>6. r.lvl = Len(path)
  BY <1>1, <1>2, <1>5
<1>7. p[r.node] = path
  BY <1>1, <1>6, SubSeqFull
<1>8. QED
  BY <1>1, <1>4, <1>6, <1>7 DEF r, p

\* What is added to a tree leaves the paths in it as they are.
LEMMA PathsStay ==
  ASSUME NEW tree, NEW more, IsTree(tree), IsTree(more), Len(tree) <= Len(more),
         \A n \in 1 .. Len(tree) : more[n].parent = tree[n].parent /\ more[n].name = tree[n].name
  PROVE  \A n \in 0 .. Len(tree) : PathsIn(more)[n] = PathsIn(tree)[n]
<1> DEFINE L == Len(tree)
           p == PathsIn(tree)
           q == PathsIn(more)
           S == {k \in 0 .. L : \A n \in 0 .. k : q[n] = p[n]}
<1>1. /\ L \in Nat /\ Len(more) \in Nat
      /\ \A n \in 1 .. L : tree[n].parent \in 0 .. n - 1 /\ n \in 1 .. Len(more)
  BY TreeIs
<1>2. p[0] = <<>> /\ \A n \in 1 .. L : p[n] = Append(p[tree[n].parent], tree[n].name)
  BY PathsAre
<1>3. q[0] = <<>> /\ \A n \in 1 .. L : q[n] = Append(q[tree[n].parent], tree[n].name)
  BY <1>1, PathsAre
<1> HIDE DEF p, q, L
<1>4. 0 \in S
  <2>1. 0 \in 0 .. L /\ \A n \in 0 .. 0 : n = 0
    BY <1>1
  <2>2. QED
    BY <1>2, <1>3, <2>1
<1>5. ASSUME NEW k \in 1 .. L, k - 1 \in S PROVE k \in S
  <2>1. q[tree[k].parent] = p[tree[k].parent]
    BY <1>1, <1>5
  <2>2. q[k] = p[k]
    BY <1>2, <1>3, <2>1
  <2>3. k \in 0 .. L /\ \A n \in 0 .. k : n \in 0 .. k - 1 \/ n = k
    BY <1>1
  <2>4. QED
    BY <1>5, <2>2, <2>3
<1>6. L \in S
  <2> HIDE DEF S
  <2>1. \A k \in 0 .. L : k \in S
    BY <1>1, <1>4, <1>5, Steps
  <2>2. QED
    BY <1>1, <2>1
<1>7. QED
  BY <1>6 DEF p, q, L

LEMMA FunctionIsSeq ==
  ASSUME NEW S, NEW n \in Nat, NEW f \in [1 .. n -> S]
  PROVE  f \in Seq(S) /\ Len(f) = n
BY SeqDef

\* The rest of a path becomes a branch: nodes without gates, each under the last.
LEMMA GrownIs ==
  ASSUME NEW tree, IsTree(tree), NEW path \in Seq(Labels), path # <<>>
  PROVE  LET more == Grown(tree, path)
             found == SearchAhead(tree, path)
             node == IF found.lvl = Len(path) THEN found.node ELSE Len(more)
         IN  /\ IsTree(more) /\ Len(tree) <= Len(more)
             /\ \A n \in 1 .. Len(tree) : more[n] = tree[n]
             /\ \A n \in Len(tree) + 1 .. Len(more) : more[n].gates = <<>>
             /\ node \in 1 .. Len(more) /\ PathsIn(more)[node] = path
<1> DEFINE found == SearchAhead(tree, path)
           L == Len(tree)
           l == found.lvl
           N == Len(path) - l
           Up(k) == IF k = 1 THEN found.node ELSE L + k - 1
           rest == [k \in 1 .. N |-> [name |-> path[l + k], parent |-> Up(k), gates |-> <<>>]]
           more == Grown(tree, path)
           p == PathsIn(tree)
           q == PathsIn(more)
<1>1. /\ Len(path) \in Nat /\ L \in Nat
      /\ \A n \in 1 .. L : tree[n].parent \in 0 .. n - 1
      /\ DOMAIN tree = 1 .. L /\ tree \in Seq(Node)
  BY TreeIs, LenProperties DEF IsTree
<1>2. /\ l \in 0 .. Len(path) /\ found.node \in 0 .. L
      /\ p[found.node] = SubSeq(path, 1, l)
      /\ l < Len(path) => Children(tree, found.node, path[l + 1]) = {}
  BY SearchLeads DEF Leads
<1>3. more = tree \o rest
  BY DEF Grown
<1> HIDE DEF found, l, p
<1>4. N \in Nat /\ \A k \in 1 .. N : l + k \in 1 .. Len(path) /\ Up(k) \in 0 .. L + k - 1
  BY <1>1, <1>2
<1>5. rest \in Seq(Node) /\ Len(rest) = N
  <2>1. \A k \in 1 .. N : path[l + k] \in Labels
    BY <1>4, ElementOfSeq
  <2>2. ASSUME NEW k \in 1 .. N PROVE rest[k] \in Node
    <3>1. rest[k] = [name |-> path[l + k], parent |-> Up(k), gates |-> <<>>]
      OBVIOUS
    <3>2. Up(k) \in Nat
      BY <1>1, <1>4
    <3>3. <<>> \in Seq(AllGates)
      OBVIOUS
    <3> HIDE DEF rest, Up, N
    <3>4. QED
      BY <2>1, <3>1, <3>2, <3>3 DEF Node
  <2>3. rest = [k \in 1 .. N |-> rest[k]]
    OBVIOUS
  <2> HIDE DEF rest
  <2>4. rest \in [1 .. N -> Node]
    BY <2>2, <2>3
  <2> HIDE DEF N
  <2>5. QED
    BY <1>4, <2>4, FunctionIsSeq
<1>6. \A k \in 1 .. N : rest[k].name = path[l + k] /\ rest[k].parent = Up(k) /\ rest[k].gates = <<>>
  OBVIOUS
<1> HIDE DEF more, N, Up, rest, L
<1>7. /\ more \in Seq(Node) /\ Len(more) = L + N
      /\ \A n \in 1 .. L + N : more[n] = IF n <= L THEN tree[n] ELSE rest[n - L]
  BY <1>1, <1>3, <1>5, ConcatProperties DEF L
<1>8. \A n \in 1 .. L : more[n] = tree[n]
  BY <1>1, <1>4, <1>7
<1>9. \A n \in L + 1 .. L + N :
        /\ n - L \in 1 .. N
        /\ more[n].name = path[l + (n - L)] /\ more[n].parent = Up(n - L) /\ more[n].gates = <<>>
  <2>1. ASSUME NEW n \in L + 1 .. L + N
        PROVE  /\ n - L \in 1 .. N
               /\ more[n].name = path[l + (n - L)] /\ more[n].parent = Up(n - L) /\ more[n].gates = <<>>
    <3>1. n - L \in 1 .. N /\ n \in 1 .. L + N /\ ~(n <= L)
      BY <1>1, <1>4
    <3>2. more[n] = rest[n - L]
      BY <1>7, <3>1
    <3>3. QED
      BY <1>6, <3>1, <3>2
  <2>2. QED
    BY <2>1
<1>10. \A n \in 1 .. L + N : n \in 1 .. L \/ n \in L + 1 .. L + N
  BY <1>1, <1>4
<1>11. IsTree(more)
  <2>1. ASSUME NEW n \in 1 .. L + N PROVE more[n].parent < n
    <3>1. CASE n \in 1 .. L
      BY <1>1, <1>8, <3>1
    <3>2. CASE n \in L + 1 .. L + N
      <4>1. n - L \in 1 .. N /\ more[n].parent = Up(n - L)
        BY <1>9, <3>2
      <4>2. Up(n - L) \in 0 .. L + (n - L) - 1
        BY <1>4, <4>1
      <4>3. QED
        BY <1>1, <4>1, <4>2
    <3>3. QED
      BY <1>10, <3>1, <3>2
  <2>2. ASSUME NEW m \in 1 .. L + N, NEW n \in 1 .. L + N,
               more[m].parent = more[n].parent, more[m].name = more[n].name
        PROVE  m = n
    <3>1. ASSUME NEW i \in 1 .. L, NEW j \in L + 1 .. L + N,
                 more[i].parent = more[j].parent, more[i].name = more[j].name
          PROVE  FALSE
      <4>1. /\ tree[i].parent = Up(j - L) /\ tree[i].name = path[l + (j - L)]
            /\ tree[i].parent \in 0 .. i - 1 /\ j - L \in 1 .. N
        BY <1>1, <1>8, <1>9, <3>1
      <4>2. j - L = 1 /\ tree[i].parent = found.node
        BY <1>1, <1>4, <4>1 DEF Up
      <4>3. i \in Children(tree, found.node, path[l + 1])
        BY <1>1, <4>1, <4>2 DEF Children
      <4>4. l < Len(path)
        BY <1>1, <1>2, <1>4, <4>1
      <4>5. QED
        BY <1>2, <4>3, <4>4
    <3>2. CASE m \in 1 .. L /\ n \in 1 .. L
      BY <1>8, <2>2, <3>2 DEF IsTree, L
    <3>3. CASE m \in L + 1 .. L + N /\ n \in L + 1 .. L + N
      <4>1. /\ Up(m - L) = Up(n - L) /\ m - L \in 1 .. N /\ n - L \in 1 .. N
        BY <1>9, <2>2, <3>3
      <4>2. m - L = n - L
        BY <1>1, <1>2, <1>4, <4>1 DEF Up
      <4>3. QED
        BY <1>1, <3>3, <4>2
    <3>4. QED
      BY <1>10, <2>2, <3>1, <3>2, <3>3
  <2>3. QED
    BY <1>7, <2>1, <2>2 DEF IsTree
<1>12. \A n \in 0 .. L : q[n] = p[n]
  <2>1. L <= Len(more)
    BY <1>1, <1>4, <1>7
  <2>2. QED
    BY <1>8, <1>11, <2>1, PathsStay DEF p, L
<1>13. \A n \in 1 .. L + N : q[n] = Append(q[more[n].parent], more[n].name)
  BY <1>7, <1>11, PathsAre
<1> HIDE DEF q
<1> DEFINE S == {k \in 0 .. N : k > 0 => q[L + k] = SubSeq(path, 1, l + k)}
<1>14. ASSUME NEW k \in 1 .. N, k - 1 \in S PROVE k \in S
  <2> DEFINE n == L + k
  <2>1. n \in L + 1 .. L + N /\ n - L = k /\ n \in 1 .. L + N
    BY <1>1, <1>4
  <2>2. q[n] = Append(q[Up(k)], path[l + k])
    BY <1>9, <1>13, <2>1
  <2>3. q[Up(k)] = SubSeq(path, 1, l + (k - 1))
    <3>1. CASE k = 1
      <4>1. Up(k) = found.node /\ l + (k - 1) = l
        BY <1>2, <3>1 DEF Up
      <4>2. QED
        BY <1>2, <1>12, <4>1
    <3>2. CASE k # 1
      <4>1. Up(k) = L + (k - 1) /\ k - 1 > 0
        BY <1>1, <3>2 DEF Up
      <4>2. QED
        BY <1>14, <4>1
    <3>3. QED
      BY <3>1, <3>2
  <2>4. l + (k - 1) \in 0 .. Len(path) /\ l + (k - 1) < Len(path) /\ (l + (k - 1)) + 1 = l + k
    <3> HIDE DEF n, S
    <3>1. l \in Nat /\ N \in Nat
      BY <1>1, <1>2, <1>4
    <3>2. l + k \in 1 .. Len(path)
      BY <1>4
    <3>3. QED
      BY <1>1, <3>1, <3>2
  <2> DEFINE j == l + (k - 1)
  <2> HIDE DEF j
  <2>5. SubSeq(path, 1, j + 1) = Append(SubSeq(path, 1, j), path[j + 1])
    BY <2>4, PrefixIs DEF j
  <2>6. q[n] = SubSeq(path, 1, l + k)
    BY <2>2, <2>3, <2>4, <2>5 DEF j
  <2>7. k \in 0 .. N
    BY <1>4
  <2>8. QED
    BY <2>6, <2>7
<1>15. \A k \in 0 .. N : k \in S
  <2>1. 0 \in S
    BY <1>4
  <2> HIDE DEF S
  <2>2. QED
    BY <1>4, <1>14, <2>1, Steps
<1> DEFINE node == IF l = Len(path) THEN found.node ELSE Len(more)
<1>16. node \in 1 .. Len(more) /\ q[node] = path
  <2>1. CASE l = Len(path)
    <3>1. q[found.node] = path
      BY <1>2, <1>12, <2>1, SubSeqFull
    <3>2. found.node # 0
      BY <1>11, <3>1, PathsAre DEF q
    <3>3. found.node \in 1 .. Len(more)
      BY <1>1, <1>2, <1>4, <1>7, <3>2
    <3>4. QED
      BY <2>1, <3>1, <3>3
  <2>2. CASE l # Len(path)
    <3>1. N > 0 /\ N \in 0 .. N /\ l + N = Len(path) /\ Len(more) \in 1 .. Len(more)
      BY <1>1, <1>2, <1>4, <1>7, <2>2 DEF N
    <3>2. q[L + N] = SubSeq(path, 1, l + N)
      BY <1>15, <3>1
    <3>3. q[Len(more)] = path
      BY <1>7, <3>1, <3>2, SubSeqFull
    <3>4. QED
      BY <2>2, <3>1, <3>3
  <2>3. QED
    BY <2>1, <2>2
<1>17. L <= Len(more)
  BY <1>1, <1>4, <1>7
<1>18. \A n \in L + 1 .. Len(more) : more[n].gates = <<>>
  BY <1>7, <1>9
<1>19. QED
  BY <1>8, <1>11, <1>16, <1>17, <1>18 DEF more, found, l, L, q
-----------------------------------------------------------------------------
(* Where a tree lists the gates.                                            *)

\* Where a node lists a gate, ...
Here(tree, n, gate) == {k \in DOMAIN tree[n].gates : tree[n].gates[k] = gate}

\* ... and which of the gate's paths lead there, of those that are listed.
Wanting(want, gate, to) == {p \in want[gate] : gate.paths[p] = to}

\* The tree lists each gate under the paths wanted, and under no other.
Lists(tree, want) ==
  /\ IsTree(tree)
  /\ \A g \in AllGates :
       /\ want[g] \subseteq DOMAIN g.paths
       /\ \A p \in want[g] : \E n \in 1 .. Len(tree) : PathsIn(tree)[n] = g.paths[p]
       /\ \A n \in 1 .. Len(tree) :
            Cardinality(Here(tree, n, g)) = Cardinality(Wanting(want, g, PathsIn(tree)[n]))

LEMMA GatesPaths ==
  ASSUME NEW gate \in AllGates
  PROVE  /\ gate.paths \in Seq(Seq(Labels) \ {<<>>})
         /\ Len(gate.paths) \in Nat /\ DOMAIN gate.paths = 1 .. Len(gate.paths)
         /\ \A p \in DOMAIN gate.paths : gate.paths[p] \in Seq(Labels) /\ gate.paths[p] # <<>>
<1>1. gate.paths \in Seq(Seq(Labels) \ {<<>>})
  BY LibrariesAssumption DEF AllGates, Labels
<1> DEFINE a == gate.paths
           S == Seq(Labels) \ {<<>>}
<1>2. a \in Seq(S)
  BY <1>1
<1> HIDE DEF a, S
<1>3. Len(a) \in Nat /\ DOMAIN a = 1 .. Len(a) /\ \A p \in 1 .. Len(a) : a[p] \in S
  BY <1>2, ElementOfSeq
<1>4. QED
  BY <1>1, <1>3 DEF a, S

LEMMA HereIsFinite ==
  ASSUME NEW tree, IsTree(tree), NEW n \in 1 .. Len(tree), NEW gate
  PROVE  /\ IsFiniteSet(Here(tree, n, gate)) /\ Cardinality(Here(tree, n, gate)) \in Nat
         /\ DOMAIN tree[n].gates = 1 .. Len(tree[n].gates) /\ Len(tree[n].gates) \in Nat
<1> DEFINE a == tree[n].gates
<1>1. a \in Seq(AllGates)
  BY TreeIs
<1> HIDE DEF a
<1>2. DOMAIN a = 1 .. Len(a) /\ Len(a) \in Nat
  BY <1>1
<1>3. IsFiniteSet(1 .. Len(a))
  BY <1>2, FS_Interval
<1>4. Here(tree, n, gate) \in SUBSET (1 .. Len(a))
  BY <1>2 DEF Here, a
<1>5. IsFiniteSet(Here(tree, n, gate))
  BY <1>3, <1>4, FS_Subset
<1>6. QED
  BY <1>2, <1>5, FS_CardinalityType DEF a

LEMMA WantingIsFinite ==
  ASSUME NEW gate \in AllGates, NEW want, want[gate] \subseteq DOMAIN gate.paths, NEW to
  PROVE  IsFiniteSet(Wanting(want, gate, to)) /\ Cardinality(Wanting(want, gate, to)) \in Nat
<1>1. IsFiniteSet(DOMAIN gate.paths)
  <2>1. Len(gate.paths) \in Nat /\ DOMAIN gate.paths = 1 .. Len(gate.paths)
    BY GatesPaths
  <2>2. QED
    BY <2>1, FS_Interval
<1>2. Wanting(want, gate, to) \in SUBSET DOMAIN gate.paths
  BY DEF Wanting
<1>3. IsFiniteSet(Wanting(want, gate, to))
  BY <1>1, <1>2, FS_Subset
<1>4. QED
  BY <1>3, FS_CardinalityType

\* A new branch lists nothing, and no listed path leads to it.
LEMMA GrownLists ==
  ASSUME NEW tree, NEW want, Lists(tree, want), NEW path \in Seq(Labels), path # <<>>
  PROVE  Lists(Grown(tree, path), want)
<1> DEFINE more == Grown(tree, path)
           L == Len(tree)
           M == Len(more)
           p == PathsIn(tree)
           q == PathsIn(more)
<1>1. /\ IsTree(more) /\ L <= M
      /\ \A n \in 1 .. L : more[n] = tree[n]
      /\ \A n \in L + 1 .. M : more[n].gates = <<>>
  BY GrownIs DEF Lists
<1> HIDE DEF more
<1>2. IsTree(tree) /\ L \in Nat /\ M \in Nat
  BY <1>1, TreeIs DEF Lists
<1>3. \A n \in 0 .. L : q[n] = p[n]
  BY <1>1, <1>2, PathsStay
<1>4. \A m, n \in 0 .. M : q[m] = q[n] => m = n
  BY <1>1, PathsDiffer
<1> HIDE DEF p, q
<1>5. ASSUME NEW g \in AllGates
      PROVE  /\ want[g] \subseteq DOMAIN g.paths
             /\ \A k \in want[g] : \E n \in 1 .. M : q[n] = g.paths[k]
             /\ \A n \in 1 .. M : Cardinality(Here(more, n, g)) = Cardinality(Wanting(want, g, q[n]))
  <2>1. /\ want[g] \subseteq DOMAIN g.paths
        /\ \A k \in want[g] : \E n \in 1 .. L : p[n] = g.paths[k]
        /\ \A n \in 1 .. L : Cardinality(Here(tree, n, g)) = Cardinality(Wanting(want, g, p[n]))
    BY DEF Lists, p
  <2>2. \A n \in 1 .. L : n \in 1 .. M /\ n \in 0 .. L /\ n \in 0 .. M
    BY <1>1, <1>2
  <2>3. \A k \in want[g] : \E n \in 1 .. L : n \in 1 .. M /\ q[n] = g.paths[k]
    BY <1>3, <2>1, <2>2
  <2>4. ASSUME NEW n \in 1 .. M
        PROVE  Cardinality(Here(more, n, g)) = Cardinality(Wanting(want, g, q[n]))
    <3>1. CASE n \in 1 .. L
      <4>1. Here(more, n, g) = Here(tree, n, g) /\ q[n] = p[n]
        BY <1>1, <1>3, <2>2, <3>1 DEF Here
      <4>2. QED
        BY <2>1, <3>1, <4>1
    <3>2. CASE n \in L + 1 .. M
      <4>1. more[n].gates = <<>> /\ DOMAIN <<>> = {}
        BY <1>1, <3>2
      <4>2. Here(more, n, g) = {}
        BY <4>1 DEF Here
      <4>3. ASSUME NEW k \in want[g], g.paths[k] = q[n] PROVE FALSE
        <5>1. PICK m \in 1 .. L : q[m] = q[n]
          BY <2>3, <4>3
        <5>2. m = n
          BY <1>2, <1>4, <2>2, <5>1
        <5>3. QED
          BY <1>2, <3>2, <5>1, <5>2
      <4>4. Wanting(want, g, q[n]) = {}
        BY <4>3 DEF Wanting
      <4>5. QED
        BY <4>2, <4>4
    <3>3. QED
      BY <1>1, <1>2, <3>1, <3>2
  <2>5. QED
    BY <2>1, <2>3, <2>4
<1>6. QED
  BY <1>1, <1>5 DEF Lists, more, M, q

\* The gates of a node are of no account for the paths.
With(tree, node, gate) == [tree EXCEPT ![node].gates = Append(@, gate)]

LEMMA ListedIsTree ==
  ASSUME NEW tree, IsTree(tree), NEW node \in 1 .. Len(tree), NEW gate \in AllGates
  PROVE  LET r == With(tree, node, gate)
         IN  /\ IsTree(r) /\ Len(r) = Len(tree)
             /\ \A n \in 1 .. Len(tree) : n # node => r[n].gates = tree[n].gates
             /\ r[node].gates = Append(tree[node].gates, gate)
             /\ \A n \in 0 .. Len(tree) : PathsIn(r)[n] = PathsIn(tree)[n]
<1> DEFINE r == With(tree, node, gate)
           L == Len(tree)
           new == [tree[node] EXCEPT !.gates = Append(@, gate)]
<1>1. /\ L \in Nat /\ DOMAIN tree = 1 .. L /\ tree \in Seq(Node)
      /\ \A n \in 1 .. L : tree[n] \in Node
      /\ tree[node].gates \in Seq(AllGates)
  BY TreeIs DEF IsTree
<1>2. r = [tree EXCEPT ![node] = new]
  BY DEF With
<1>3. /\ new \in Node /\ new.name = tree[node].name /\ new.parent = tree[node].parent
      /\ new.gates = Append(tree[node].gates, gate)
  <2> DEFINE a == tree[node]
             c == Append(a.gates, gate)
  <2>1. a \in Node /\ a.gates \in Seq(AllGates)
    BY <1>1
  <2>2. c \in Seq(AllGates)
    BY <2>1, AppendProperties
  <2>3. new = [a EXCEPT !.gates = c]
    OBVIOUS
  <2> HIDE DEF a, c, new
  <2>4. new \in Node /\ new.name = a.name /\ new.parent = a.parent /\ new.gates = c
    BY <2>1, <2>2, <2>3 DEF Node
  <2>5. QED
    BY <2>4 DEF a, c
<1> HIDE DEF new, L, r
<1>4. /\ r[node] = new /\ \A n \in 1 .. L : n # node => r[n] = tree[n]
      /\ r \in Seq(Node) /\ Len(r) = L
  <2>0. node \in 1 .. L
    BY DEF L
  <2>1. r = [n \in 1 .. L |-> IF n = node THEN new ELSE tree[n]]
    BY <1>1, <1>2, <2>0
  <2>2. r[node] = new /\ \A n \in 1 .. L : n # node => r[n] = tree[n]
    BY <2>0, <2>1
  <2>3. r \in [1 .. L -> Node]
    BY <1>1, <1>3, <2>1
  <2>4. QED
    BY <1>1, <2>2, <2>3, FunctionIsSeq
<1>5. \A n \in 1 .. L : r[n].name = tree[n].name /\ r[n].parent = tree[n].parent
  BY <1>3, <1>4
<1>6. IsTree(r)
  BY <1>4, <1>5 DEF IsTree, L
<1>7. \A n \in 0 .. L : PathsIn(r)[n] = PathsIn(tree)[n]
  <2>1. L <= Len(r)
    BY <1>1, <1>4
  <2>2. QED
    BY <1>5, <1>6, <2>1, PathsStay DEF L
<1>8. QED
  BY <1>3, <1>4, <1>6, <1>7 DEF L, r

\* A gate is listed under one more of its paths.
LEMMA ListIs ==
  ASSUME NEW tree, NEW want, Lists(tree, want), NEW gate \in AllGates,
         NEW k \in DOMAIN gate.paths, k \notin want[gate],
         NEW more, more[gate] = want[gate] \cup {k},
         \A g \in AllGates : g # gate => more[g] = want[g]
  PROVE  Lists(List(tree, gate.paths[k], gate), more)
<1> DEFINE path == gate.paths[k]
           grown == Grown(tree, path)
           found == SearchAhead(tree, path)
           node == IF found.lvl = Len(path) THEN found.node ELSE Len(grown)
           r == List(tree, path, gate)
           L == Len(grown)
           p == PathsIn(grown)
<1>1. path \in Seq(Labels) /\ path # <<>>
  BY GatesPaths
<1>2. r = With(grown, node, gate)
  BY DEF List, With
<1> HIDE DEF path
<1>3. node \in 1 .. L /\ p[node] = path
  BY <1>1, GrownIs DEF Lists
<1>4. Lists(grown, want) /\ IsTree(grown) /\ L \in Nat
  <2>1. Lists(grown, want)
    BY <1>1, GrownLists
  <2> HIDE DEF grown
  <2>2. QED
    BY <2>1, TreeIs DEF Lists
<1> HIDE DEF grown, node, r, p
<1>5. /\ IsTree(r) /\ Len(r) = L
      /\ \A n \in 1 .. L : n # node => r[n].gates = grown[n].gates
      /\ r[node].gates = Append(grown[node].gates, gate)
      /\ \A n \in 0 .. L : PathsIn(r)[n] = p[n]
  <2>1. IsTree(grown) /\ node \in 1 .. Len(grown)
    BY <1>3, <1>4
  <2> HIDE DEF L
  <2>2. /\ IsTree(r) /\ Len(r) = Len(grown)
        /\ \A n \in 1 .. Len(grown) : n # node => r[n].gates = grown[n].gates
        /\ r[node].gates = Append(grown[node].gates, gate)
        /\ \A n \in 0 .. Len(grown) : PathsIn(r)[n] = PathsIn(grown)[n]
    BY <1>2, <2>1, ListedIsTree
  <2>3. QED
    BY <2>2 DEF L, p
<1>6. \A m, n \in 0 .. L : p[m] = p[n] => m = n
  BY <1>4, PathsDiffer DEF p
<1> HIDE DEF L
<1>7. \A n \in 1 .. L : n \in 0 .. L /\ PathsIn(r)[n] = p[n]
  BY <1>4, <1>5
<1>8. ASSUME NEW g \in AllGates
      PROVE  /\ more[g] \subseteq DOMAIN g.paths
             /\ \A i \in more[g] : \E n \in 1 .. L : p[n] = g.paths[i]
             /\ \A n \in 1 .. L : Cardinality(Here(r, n, g)) = Cardinality(Wanting(more, g, p[n]))
  <2>1. /\ want[g] \subseteq DOMAIN g.paths
        /\ \A i \in want[g] : \E n \in 1 .. L : p[n] = g.paths[i]
        /\ \A n \in 1 .. L : Cardinality(Here(grown, n, g)) = Cardinality(Wanting(want, g, p[n]))
    BY <1>4 DEF Lists, p, L
  <2>2. more[g] \subseteq DOMAIN g.paths /\ \A i \in more[g] : i \in want[g] \/ (g = gate /\ i = k)
    BY <2>1
  <2>3. \A i \in more[g] : \E n \in 1 .. L : p[n] = g.paths[i]
    BY <1>3, <2>1, <2>2 DEF path
  <2>4. ASSUME NEW n \in 1 .. L
        PROVE  Cardinality(Here(r, n, g)) = Cardinality(Wanting(more, g, p[n]))
    <3> DEFINE a == grown[n].gates
               H == Here(grown, n, g)
               W == Wanting(want, g, p[n])
    <3>1. /\ IsFiniteSet(H) /\ IsFiniteSet(W) /\ Cardinality(H) = Cardinality(W)
          /\ DOMAIN a = 1 .. Len(a) /\ Len(a) \in Nat /\ a \in Seq(AllGates)
      <4>1. n \in 1 .. Len(grown)
        BY DEF L
      <4>2. IsFiniteSet(H) /\ DOMAIN a = 1 .. Len(a) /\ Len(a) \in Nat
        BY <1>4, <4>1, HereIsFinite
      <4>3. IsFiniteSet(W)
        BY <2>1, WantingIsFinite
      <4>4. a \in Seq(AllGates)
        BY <1>4, <4>1, TreeIs
      <4>5. QED
        BY <2>1, <4>2, <4>3, <4>4
    <3>2. CASE n # node
      <4>1. Here(r, n, g) = H
        BY <1>5, <3>2 DEF Here
      <4>2. p[n] # path
        BY <1>3, <1>6, <1>7, <3>2
      <4>3. Wanting(more, g, p[n]) = W
        BY <2>2, <4>2 DEF Wanting, path
      <4>4. QED
        BY <3>1, <4>1, <4>3
    <3>3. CASE n = node /\ g # gate
      <4> DEFINE c == Append(a, gate)
      <4>1. r[n].gates = c
        BY <1>5, <3>3
      <4>2. /\ DOMAIN c = 1 .. Len(a) + 1 /\ c[Len(a) + 1] = gate
            /\ \A i \in 1 .. Len(a) : c[i] = a[i]
        <5> HIDE DEF a
        <5>1. QED
          BY <3>1, AppendProperties
      <4> HIDE DEF c
      <4>3. {i \in 1 .. Len(a) + 1 : c[i] = g} = {i \in 1 .. Len(a) : a[i] = g}
        <5> HIDE DEF a
        <5>1. QED
          BY <3>1, <3>3, <4>2
      <4>4. Here(r, n, g) = H
        BY <3>1, <4>1, <4>2, <4>3 DEF Here
      <4>5. Wanting(more, g, p[n]) = W
        BY <3>3 DEF Wanting
      <4>6. QED
        BY <3>1, <4>4, <4>5
    <3>4. CASE n = node /\ g = gate
      <4> DEFINE c == Append(a, gate)
                 e == Len(a) + 1
      <4>1. r[n].gates = c
        BY <1>5, <3>4
      <4>2. /\ DOMAIN c = 1 .. e /\ c[e] = gate /\ e \notin 1 .. Len(a)
            /\ \A i \in 1 .. Len(a) : c[i] = a[i]
            /\ \A i \in 1 .. e : i \in 1 .. Len(a) \/ i = e
            /\ e \in 1 .. e /\ \A i \in 1 .. Len(a) : i \in 1 .. e
        <5> HIDE DEF a
        <5>1. QED
          BY <3>1, AppendProperties
      <4> HIDE DEF c, e
      <4>3. {i \in 1 .. e : c[i] = g} = {i \in 1 .. Len(a) : a[i] = g} \cup {e}
        <5> HIDE DEF a
        <5>1. QED
          BY <3>4, <4>2
      <4>4. H = {i \in 1 .. Len(a) : a[i] = g}
        BY <3>1 DEF Here
      <4>5. Here(r, n, g) = H \cup {e} /\ e \notin H
        BY <4>1, <4>2, <4>3, <4>4 DEF Here
      <4>6. p[n] = path
        BY <1>3, <3>4
      <4>7. Wanting(more, g, p[n]) = W \cup {k} /\ k \notin W
        BY <3>4, <4>6 DEF Wanting, path
      <4> HIDE DEF H, W
      <4>8. Cardinality(H \cup {e}) = Cardinality(H) + 1
        BY <3>1, <4>5, FS_AddElement
      <4>9. Cardinality(W \cup {k}) = Cardinality(W) + 1
        BY <3>1, <4>7, FS_AddElement
      <4>10. QED
        BY <3>1, <4>5, <4>7, <4>8, <4>9
    <3>5. QED
      BY <3>2, <3>3, <3>4
  <2>5. QED
    BY <2>2, <2>3, <2>4
<1>9. QED
  BY <1>5, <1>7, <1>8 DEF Lists, r, path
-----------------------------------------------------------------------------
(* The loads keep the tree.                                                 *)

LEMMA ListingLoop ==
  ASSUME NEW tree, NEW gate, Len(gate.paths) \in Nat
  PROVE  \E after : /\ after[0] = tree
                    /\ \A n \in 1 .. Len(gate.paths) : after[n] = List(after[n - 1], gate.paths[n], gate)
                    /\ ListAll(tree, gate) = after[Len(gate.paths)]
<1> DEFINE L == Len(gate.paths)
           Is(f, k) == f = [n \in 0 .. k |-> IF n = 0 THEN tree ELSE List(f[n - 1], gate.paths[n], gate)]
           S == {k \in 0 .. L : \E f : Is(f, k)}
           after == CHOOSE f : Is(f, L)
<1>1. 0 \in S
  <2> DEFINE g == [n \in 0 .. 0 |-> tree]
  <2>1. Is(g, 0)
    OBVIOUS
  <2> HIDE DEF g, Is
  <2>2. QED
    BY <2>1
<1>2. ASSUME NEW k \in 1 .. L, k - 1 \in S PROVE k \in S
  <2>1. PICK f : Is(f, k - 1)
    BY <1>2
  <2> DEFINE g == [n \in 0 .. k |-> IF n = k THEN List(f[k - 1], gate.paths[k], gate) ELSE f[n]]
  <2>2. Is(g, k)
    BY <2>1
  <2> HIDE DEF g, Is
  <2>3. QED
    BY <2>2
<1>3. L \in S
  <2> HIDE DEF S
  <2>1. \A k \in 0 .. L : k \in S
    BY <1>1, <1>2, Steps
  <2>2. QED
    BY <2>1
<1>4. Is(after, L)
  BY <1>3
<1>5. ListAll(tree, gate) = after[L]
  BY DEF ListAll, ForEach
<1> HIDE DEF after
<1>6. after[0] = tree /\ \A n \in 1 .. L : after[n] = List(after[n - 1], gate.paths[n], gate)
  BY <1>4
<1>7. QED
  BY <1>5, <1>6

\* The paths of the gates that are registered.
Wanted(reg) == [g \in AllGates |-> IF g \in Range(reg) THEN DOMAIN g.paths ELSE {}]

LEMMA ListAllIs ==
  ASSUME NEW reg, reg \in Seq(Range(reg)), NEW tree, Lists(tree, Wanted(reg)),
         NEW gate \in AllGates, gate \notin Range(reg)
  PROVE  Lists(ListAll(tree, gate), Wanted(Append(reg, gate)))
<1> DEFINE L == Len(gate.paths)
           want(k) == [g \in AllGates |-> IF g = gate THEN 1 .. k ELSE Wanted(reg)[g]]
<1>1. L \in Nat /\ DOMAIN gate.paths = 1 .. L
  BY GatesPaths
<1>2. PICK after : /\ after[0] = tree
                   /\ \A n \in 1 .. L : after[n] = List(after[n - 1], gate.paths[n], gate)
                   /\ ListAll(tree, gate) = after[L]
  BY <1>1, ListingLoop
<1> DEFINE S == {k \in 0 .. L : Lists(after[k], want(k))}
<1>3. 0 \in S
  <2>1. want(0) = Wanted(reg)
    <3>1. 1 .. 0 = {} /\ Wanted(reg)[gate] = {}
      BY DEF Wanted
    <3>2. Wanted(reg) = [g \in AllGates |-> Wanted(reg)[g]]
      BY DEF Wanted
    <3>3. QED
      BY <3>1, <3>2
  <2> HIDE DEF want
  <2>2. QED
    BY <1>1, <1>2, <2>1
<1>4. ASSUME NEW k \in 1 .. L, k - 1 \in S PROVE k \in S
  <2> DEFINE old == want(k - 1)
             new == want(k)
  <2>1. Lists(after[k - 1], old)
    BY <1>4
  <2>2. 1 .. k = (1 .. k - 1) \cup {k} /\ k \notin 1 .. k - 1 /\ k \in 0 .. L
    BY <1>1
  <2>3. /\ old[gate] = 1 .. k - 1 /\ new[gate] = 1 .. k
        /\ \A g \in AllGates : g # gate => new[g] = old[g]
    OBVIOUS
  <2> HIDE DEF old, new
  <2>4. Lists(List(after[k - 1], gate.paths[k], gate), new)
    <3>1. k \in DOMAIN gate.paths /\ k \notin old[gate] /\ new[gate] = old[gate] \cup {k}
      BY <1>1, <2>2, <2>3
    <3>2. QED
      BY <2>1, <2>3, <3>1, ListIs
  <2>5. Lists(after[k], new)
    BY <1>2, <2>4
  <2> HIDE DEF want
  <2>6. QED
    BY <2>2, <2>5 DEF new
<1>5. L \in S
  <2> HIDE DEF S
  <2>1. \A k \in 0 .. L : k \in S
    BY <1>1, <1>3, <1>4, Steps
  <2>2. QED
    BY <1>1, <2>1
<1>6. want(L) = Wanted(Append(reg, gate))
  <2>1. Range(Append(reg, gate)) = Range(reg) \cup {gate}
    BY RangeAppend
  <2>2. ASSUME NEW g \in AllGates PROVE want(L)[g] = Wanted(Append(reg, gate))[g]
    BY <1>1, <2>1 DEF Wanted
  <2>3. Wanted(Append(reg, gate)) = [g \in AllGates |-> Wanted(Append(reg, gate))[g]]
    BY DEF Wanted
  <2>4. want(L) = [g \in AllGates |-> want(L)[g]]
    OBVIOUS
  <2> HIDE DEF want
  <2>5. QED
    BY <2>2, <2>3, <2>4
<1>7. QED
  BY <1>2, <1>5, <1>6

\* The tree has the gates that are registered.
TreeInv(s) ==
  /\ \A lib \in DOMAIN Libraries : Range(s.lib_gates[lib]) \subseteq AllGates
  /\ Range(s.behaviors) \subseteq AllGates
  /\ Lists(s.nodes, Wanted(s.behaviors))

LEMMA GatesHaveNames ==
  ASSUME NEW gate \in AllGates
  PROVE  gate.name \in STRING
BY LibrariesAssumption DEF AllGates, Named

LEMMA RegisterLists ==
  ASSUME NEW s, IsState(s), TreeInv(s), NEW gate \in AllGates
  PROVE  TreeInv(RegisterGate(s, gate))
<1> DEFINE r == RegisterGate(s, gate)
<1>1. gate.name \in STRING
  BY GatesHaveNames
<1>2. Follows(s, r) /\ IsRegistered(s.behaviors, gate.name) => SameEntities(s, r)
  BY <1>1, GateIs
<1>3. r.lib_gates = s.lib_gates
  BY <1>1, GateIs DEF Follows
<1>4. CASE IsRegistered(s.behaviors, gate.name)
  <2>1. SameEntities(s, r)
    BY <1>1, <1>4, GateIs
  <2> HIDE DEF r
  <2>2. QED
    BY <1>3, <2>1 DEF TreeInv, SameEntities, r
<1>5. CASE ~IsRegistered(s.behaviors, gate.name)
  <2> DEFINE more == Append(s.behaviors, gate)
             tree == ListAll(s.nodes, gate)
  <2>1. r = [s EXCEPT !.behaviors = more, !.nodes = tree]
    BY <1>5 DEF RegisterGate, RegisterAnyGate
  <2>2. s.behaviors \in Seq(Range(s.behaviors))
    BY DEF IsState, Named
  <2>3. gate \notin Range(s.behaviors)
    BY <1>5, RegisteredIs
  <2>4. Range(more) = Range(s.behaviors) \cup {gate}
    BY <2>2, RangeAppend
  <2>5. Lists(tree, Wanted(more))
    BY <2>2, <2>3, ListAllIs DEF TreeInv
  <2> HIDE DEF r, more, tree
  <2>6. r.behaviors = more /\ r.nodes = tree
    <3>1. r = [behaviors |-> more, signals |-> s.signals, constants |-> s.constants,
               nodes |-> tree, lib_gates |-> s.lib_gates, loaded |-> s.loaded, ready |-> s.ready,
               errors |-> s.errors, ret |-> s.ret, room |-> s.room]
      BY <2>1 DEF IsState
    <3>2. QED
      BY <3>1
  <2>7. QED
    BY <1>3, <2>4, <2>5, <2>6 DEF TreeInv, r
<1>6. QED
  BY <1>4, <1>5

LEMMA LoadGatesLists ==
  ASSUME NEW s, IsState(s), TreeInv(s), NEW gates, Named(gates), Range(gates) \subseteq AllGates
  PROVE  TreeInv(LoadGates(s, gates))
<1> DEFINE L == Len(gates)
<1>1. L \in Nat /\ \A n \in 1 .. L : gates[n] \in AllGates
  BY NamedIs
<1>2. PICK after : /\ after[0] = s
                   /\ \A n \in 1 .. L : after[n] = RegisterGate(after[n - 1], gates[n])
                   /\ LoadGates(s, gates) = after[L]
  BY <1>1, GatesLoop
<1> DEFINE S == {k \in 0 .. L : IsState(after[k]) /\ TreeInv(after[k])}
<1>3. 0 \in S
  BY <1>1, <1>2
<1>4. ASSUME NEW k \in 1 .. L, k - 1 \in S PROVE k \in S
  <2> DEFINE q == after[k - 1]
             gate == gates[k]
             r == RegisterGate(q, gate)
  <2>1. IsState(q) /\ TreeInv(q) /\ gate \in AllGates /\ k \in 0 .. L /\ after[k] = r
    BY <1>1, <1>2, <1>4
  <2> HIDE DEF q, gate
  <2>2. gate.name \in STRING
    BY <2>1, GatesHaveNames
  <2>3. Follows(q, r)
    BY <2>1, <2>2, GateIs
  <2>4. TreeInv(r)
    BY <2>1, RegisterLists
  <2> HIDE DEF r
  <2>5. QED
    BY <2>1, <2>3, <2>4 DEF Follows
<1>5. L \in S
  <2> HIDE DEF S
  <2>1. \A k \in 0 .. L : k \in S
    BY <1>1, <1>3, <1>4, Steps
  <2>2. QED
    BY <1>1, <2>1
<1>6. QED
  BY <1>2, <1>5

LEMMA LoadLists ==
  ASSUME NEW s, IsState(s), TreeInv(s), NEW lib \in DOMAIN Libraries
  PROVE  TreeInv(LoadLibrary(s, lib))
<1> DEFINE q == BeforeLoad(s, lib)
           gates == q.lib_gates[lib]
           sigs == Libraries[lib].signals
           consts == Libraries[lib].constants
           g == LoadGates(q, gates)
           h == LoadSignals(g, sigs)
           c == LoadConstants(h, consts)
           r == LoadLibrary(s, lib)
<1>1. Named(sigs) /\ Named(consts)
  BY LibrariesAssumption
<1>2. r = IF c.ret = "ok" THEN [c EXCEPT !.ready = @ \cup {lib}, !.ret = Libraries[lib].answer] ELSE c
  BY DEF LoadLibrary, AfterLoaded
<1>3. Prepared(s, lib, q)
  <2> HIDE DEF q
  <2>1. q = BeforeLoad(s, lib)
    BY DEF q
  <2>2. QED
    BY <2>1, BeforeLoadIs
<1> HIDE DEF q, sigs, consts
<1>4. IsState(q) /\ TreeInv(q) /\ Named(gates) /\ Range(gates) \subseteq AllGates
  <2>1. Range(Libraries[lib].made) \subseteq AllGates
    BY DEF AllGates
  <2>2. Range(gates) \subseteq AllGates /\ \A l \in DOMAIN Libraries : Range(q.lib_gates[l]) \subseteq AllGates
    BY <1>3, <2>1 DEF Prepared, TreeInv
  <2>3. QED
    BY <1>3, <2>2 DEF Prepared, TreeInv, SameEntities, IsState
<1>5. Follows(q, g) /\ TreeInv(g)
  BY <1>4, GatesAre, LoadGatesLists
<1>6. IsState(g)
  BY <1>5 DEF Follows
<1> HIDE DEF g
<1>7. Follows(g, h) /\ h.behaviors = g.behaviors /\ h.nodes = g.nodes
  BY <1>1, <1>6, SignalsAre
<1>8. IsState(h)
  BY <1>7 DEF Follows
<1> HIDE DEF h
<1>9. Follows(h, c) /\ c.behaviors = h.behaviors /\ c.nodes = h.nodes
  BY <1>1, <1>8, ConstantsAre
<1>10. /\ IsState(c) /\ c.behaviors = g.behaviors /\ c.nodes = g.nodes /\ c.lib_gates = g.lib_gates
  BY <1>7, <1>9 DEF Follows
<1> HIDE DEF c, r
<1>11. r.behaviors = c.behaviors /\ r.nodes = c.nodes /\ r.lib_gates = c.lib_gates
  <2> DEFINE told == c.ready \cup {lib}
             answer == Libraries[lib].answer
  <2>1. r = [c EXCEPT !.ready = told, !.ret = answer] \/ r = c
    BY <1>2
  <2> HIDE DEF told, answer
  <2>2. c = [behaviors |-> c.behaviors, signals |-> c.signals, constants |-> c.constants,
             nodes |-> c.nodes, lib_gates |-> c.lib_gates, loaded |-> c.loaded, ready |-> c.ready,
             errors |-> c.errors, ret |-> c.ret, room |-> c.room]
    BY <1>10 DEF IsState
  <2>3. QED
    BY <2>1, <2>2
<1>12. QED
  BY <1>5, <1>10, <1>11 DEF TreeInv, r

LEMMA EmbeddedLists ==
  ASSUME NEW s, IsState(s), TreeInv(s), NEW lib \in DOMAIN Libraries
  PROVE  TreeInv(LoadEmbedded(s, lib))
<1> DEFINE p == [s EXCEPT !.ret = "ok"]
           q == [p EXCEPT !.room = FewerRoom]
<1>1. LoadEmbedded(s, lib) = LoadLibrary(q, lib)
  BY DEF LoadEmbedded
<1>2. s = [behaviors |-> s.behaviors, signals |-> s.signals, constants |-> s.constants,
           nodes |-> s.nodes, lib_gates |-> s.lib_gates, loaded |-> s.loaded, ready |-> s.ready,
           errors |-> s.errors, ret |-> s.ret, room |-> s.room]
  BY DEF IsState
<1>3. p = [behaviors |-> s.behaviors, signals |-> s.signals, constants |-> s.constants,
           nodes |-> s.nodes, lib_gates |-> s.lib_gates, loaded |-> s.loaded, ready |-> s.ready,
           errors |-> s.errors, ret |-> "ok", room |-> s.room]
  BY <1>2
<1> HIDE DEF p
<1>4. q = [behaviors |-> s.behaviors, signals |-> s.signals, constants |-> s.constants,
           nodes |-> s.nodes, lib_gates |-> s.lib_gates, loaded |-> s.loaded, ready |-> s.ready,
           errors |-> s.errors, ret |-> "ok", room |-> FewerRoom]
  BY <1>3
<1> HIDE DEF q
<1>5. IsState(q)
  BY <1>4, RoomAssumption DEF IsState
<1>6. TreeInv(q)
  BY <1>4 DEF TreeInv
<1>7. QED
  BY <1>1, <1>5, <1>6, LoadLists

LEMMA ModulesList ==
  ASSUME NEW s, LoadInv(s), TreeInv(s)
  PROVE  TreeInv(LoadEmbeddedModules(s))
<1> DEFINE L == Len(Embedded)
<1>1. L \in Nat /\ \A n \in 1 .. L : Embedded[n] \in DOMAIN Libraries
  BY LibrariesAssumption
<1>2. PICK after : /\ after[0] = s
                   /\ \A n \in 1 .. L : after[n] = LoadEmbedded(after[n - 1], Embedded[n])
                   /\ LoadEmbeddedModules(s) = after[L]
  BY <1>1, LibrariesLoop
<1> DEFINE S == {k \in 0 .. L : LoadInv(after[k]) /\ TreeInv(after[k])}
<1>3. 0 \in S
  BY <1>1, <1>2
<1>4. ASSUME NEW k \in 1 .. L, k - 1 \in S PROVE k \in S
  <2> DEFINE q == after[k - 1]
             lib == Embedded[k]
             r == LoadEmbedded(q, lib)
  <2>1. LoadInv(q) /\ TreeInv(q) /\ lib \in DOMAIN Libraries /\ k \in 0 .. L /\ after[k] = r
    BY <1>1, <1>2, <1>4
  <2> HIDE DEF q, lib
  <2>2. LoadInv(r)
    BY <2>1, EmbeddedIs
  <2>3. TreeInv(r)
    BY <2>1, EmbeddedLists DEF LoadInv
  <2> HIDE DEF r
  <2>4. QED
    BY <2>1, <2>2, <2>3
<1>5. L \in S
  <2> HIDE DEF S
  <2>1. \A k \in 0 .. L : k \in S
    BY <1>1, <1>3, <1>4, Steps
  <2>2. QED
    BY <1>1, <2>1
<1>6. QED
  BY <1>2, <1>5

LEMMA InitLists ==
  ASSUME Init
  PROVE  TreeInv(State(Room))
<1>1. /\ State(Room).behaviors = <<>> /\ State(Room).nodes = <<>>
      /\ \A lib \in DOMAIN Libraries : State(Room).lib_gates[lib] = Libraries[lib].gates
  BY StateIs DEF Init
<1>2. \A lib \in DOMAIN Libraries : Range(Libraries[lib].gates) \subseteq AllGates
  BY DEF AllGates
<1>3. IsTree(<<>>)
  <2>1. <<>> \in Seq(Node) /\ Len(<<>>) = 0
    OBVIOUS
  <2>2. QED
    BY <2>1 DEF IsTree
<1>4. Lists(<<>>, Wanted(<<>>))
  <2>1. Len(<<>>) = 0 /\ 1 .. 0 = {} /\ Range(<<>>) = {}
    BY EmptyIsNamed
  <2>2. \A g \in AllGates : Wanted(<<>>)[g] = {}
    BY <2>1 DEF Wanted
  <2>3. QED
    BY <1>3, <2>1, <2>2 DEF Lists
<1>5. QED
  BY <1>1, <1>2, <1>4, EmptyIsNamed DEF TreeInv

LEMMA TakeLists ==
  ASSUME NEW r, TreeInv(r), NEW lib, Take(r, lib)
  PROVE  TreeInv(State(Room))'
<1> DEFINE q == State(Room)'
<1>1. q.behaviors = r.behaviors /\ q.nodes = r.nodes /\ q.lib_gates = r.lib_gates
  BY DEF State, Take
<1> HIDE DEF q
<1>2. TreeInv(q)
  BY <1>1 DEF TreeInv
<1>3. QED
  BY <1>2 DEF q

LEMMA StepLists ==
  ASSUME AccInv, TreeInv(State(Room)), [Next]_vars
  PROVE  TreeInv(State(Room))'
<1> DEFINE s == State(Room)
<1>1. LoadInv(s) /\ IsState(s) /\ s.ret = "ok" /\ TreeInv(s) /\ Builtin \in DOMAIN Libraries
  BY StateIs, LibrariesAssumption DEF AccInv, LoadInv
<1>2. ASSUME UNCHANGED <<behaviors, signals, constants, nodes, lib_gates, loaded, ready>>
      PROVE  TreeInv(State(Room))'
  BY <1>2 DEF State
<1>3. CASE InitEnvironment
  <2> DEFINE q == LoadLibrary(s, Builtin)
             r == LoadEmbeddedModules(q)
  <2>1. Take(r, Last(Embedded))
    BY <1>3 DEF InitEnvironment
  <2> HIDE DEF s
  <2>2. LoadInv(q) /\ TreeInv(q)
    BY <1>1, LoadIs, LoadLists
  <2> HIDE DEF q
  <2>3. TreeInv(r)
    BY <2>2, ModulesList
  <2> HIDE DEF r
  <2>4. QED
    BY <2>1, <2>3, TakeLists
<1>4. CASE DestroyEnvironment
  BY <1>2, <1>4 DEF DestroyEnvironment
<1>5. ASSUME NEW lib \in DOMAIN Libraries, LoadShared(lib)
      PROVE  TreeInv(State(Room))'
  <2> DEFINE r == LoadLibrary(s, lib)
  <2>1. Take(r, lib)
    BY <1>5 DEF LoadShared
  <2> HIDE DEF s
  <2>2. TreeInv(r)
    BY <1>1, LoadLists
  <2> HIDE DEF r
  <2>3. QED
    BY <2>1, <2>2, TakeLists
<1>6. CASE UNCHANGED vars
  BY <1>2, <1>6 DEF vars
<1>7. QED
  BY <1>3, <1>4, <1>5, <1>6 DEF Next

LEMMA TreeIsRight ==
  ASSUME TreeInv(State(Room))
  PROVE  TreeHasTheGates
<1> DEFINE L == Len(nodes)
           p == PathsIn(nodes)
           want == Wanted(behaviors)
<1>1. /\ Gates = Range(behaviors) /\ Gates \subseteq AllGates
      /\ Lists(nodes, want) /\ IsTree(nodes)
  BY StateIs DEF TreeInv, Gates, Range, Lists
<1>2. L \in Nat /\ DOMAIN nodes = 1 .. L
  BY <1>1, TreeIs
<1>3. \A n \in 1 .. L : PathTo(n) = p[n] /\ n \in 0 .. L
  BY <1>2 DEF PathTo
<1>4. \A m, n \in 0 .. L : p[m] = p[n] => m = n
  BY <1>1, PathsDiffer
<1>5. \A g \in AllGates :
        /\ want[g] = IF g \in Gates THEN DOMAIN g.paths ELSE {}
        /\ \A k \in want[g] : \E n \in 1 .. L : p[n] = g.paths[k]
        /\ \A n \in 1 .. L : Cardinality(Here(nodes, n, g)) = Cardinality(Wanting(want, g, p[n]))
  BY <1>1 DEF Lists, Wanted
<1>6. \A g \in Gates : \A to : Cardinality(Wanting(want, g, to)) = Listings(g, to)
  <2>1. ASSUME NEW g \in Gates, NEW to
        PROVE  Cardinality(Wanting(want, g, to)) = Listings(g, to)
    <3>1. want[g] = DOMAIN g.paths
      BY <1>1, <1>5
    <3> HIDE DEF want
    <3>2. Wanting(want, g, to) = {k \in DOMAIN g.paths : g.paths[k] = to}
      BY <3>1 DEF Wanting
    <3>3. QED
      BY <3>2 DEF Listings
  <2>2. QED
    BY <2>1
<1> HIDE DEF p, want, L
<1>7. ASSUME NEW gate \in Gates, NEW k \in DOMAIN gate.paths
      PROVE  LET to == SearchAhead(nodes, gate.paths[k])
             IN  to.lvl = Len(gate.paths[k]) /\ Listed(to.node, gate) = Listings(gate, gate.paths[k])
  <2> DEFINE path == gate.paths[k]
             to == SearchAhead(nodes, path)
  <2>1. gate \in AllGates /\ k \in want[gate]
    BY <1>1, <1>5, <1>7
  <2>2. path \in Seq(Labels)
    BY <2>1, GatesPaths
  <2>3. PICK n \in 1 .. L : p[n] = path
    BY <1>5, <2>1
  <2> HIDE DEF path
  <2>4. to.lvl = Len(path) /\ to.node = n
    <3>1. n \in 0 .. Len(nodes) /\ PathsIn(nodes)[n] = path
      BY <1>3, <2>3 DEF L, p
    <3>2. QED
      BY <1>1, <2>2, <3>1, SearchFinds
  <2> HIDE DEF to
  <2>5. Cardinality(Here(nodes, n, gate)) = Cardinality(Wanting(want, gate, path))
    BY <1>5, <2>1, <2>3
  <2>6. Listed(n, gate) = Listings(gate, path)
    BY <1>6, <2>5 DEF Listed, Here
  <2>7. QED
    BY <2>4, <2>6 DEF path, to
<1>8. ASSUME NEW n \in 1 .. L, NEW m \in 1 .. L \ {n} PROVE PathTo(m) # PathTo(n)
  BY <1>3, <1>4, <1>8
<1>9. ASSUME NEW n \in 1 .. L, NEW k \in DOMAIN nodes[n].gates
      PROVE  nodes[n].gates[k] \in Gates /\ Listings(nodes[n].gates[k], PathTo(n)) > 0
  <2> DEFINE g == nodes[n].gates[k]
  <2>1. g \in AllGates
    <3>1. nodes[n].gates \in Seq(AllGates)
      BY <1>1, TreeIs DEF L
    <3>2. QED
      BY <3>1
  <2>2. /\ IsFiniteSet(Here(nodes, n, g)) /\ Cardinality(Here(nodes, n, g)) \in Nat
    BY <1>1, HereIsFinite DEF L
  <2>3. k \in Here(nodes, n, g)
    BY DEF Here
  <2> HIDE DEF g
  <2>4. Cardinality(Here(nodes, n, g)) > 0
    BY <2>2, <2>3, FS_EmptySet
  <2>5. Cardinality(Wanting(want, g, p[n])) > 0
    BY <1>5, <2>1, <2>4
  <2>6. g \in Gates
    <3>1. ASSUME g \notin Gates PROVE FALSE
      <4>1. want[g] = {}
        BY <1>5, <2>1, <3>1
      <4>2. Wanting(want, g, p[n]) = {}
        BY <4>1 DEF Wanting
      <4>3. QED
        BY <2>5, <4>2, FS_EmptySet
    <3>2. QED
      BY <3>1
  <2>7. Listings(g, PathTo(n)) > 0
    BY <1>3, <1>6, <2>5, <2>6
  <2>8. QED
    BY <2>6, <2>7 DEF g
<1>10. QED
  BY <1>2, <1>7, <1>8, <1>9 DEF TreeHasTheGates

\* However the libraries are loaded, whatever paths and names their gates share,
\* and whatever is left out: the library tree has one node for a path, and lists
\* there the registered gates that have it, each as often as it has it, and no other.
THEOREM TheTreeHasTheGates == Spec => []TreeHasTheGates
<1>1. Init => AccInv /\ TreeInv(State(Room))
  BY InitHolds, InitLists
<1>2. AccInv /\ TreeInv(State(Room)) /\ [Next]_vars => AccInv' /\ TreeInv(State(Room))'
  BY StepHolds, StepLists
<1>3. TreeInv(State(Room)) => TreeHasTheGates
  BY TreeIsRight
<1>4. QED
  BY <1>1, <1>2, <1>3, PTL DEF Spec
=============================================================================
