------------------------- MODULE PropagationProofs --------------------------
(***************************************************************************)
(* Theorems about propagation, for every circuit that the hypotheses of the *)
(* theorem describe, any number of threads and any length of a run.         *)
(***************************************************************************)
EXTENDS Propagation, FiniteSetTheorems, SequenceTheorems, WellFoundedInduction, TLAPS

\* The circuit uses lxc_execution_loopbreaker.
HasBreaker == \E g \in Gates : Behavior[g] = "loopbreaker"

\* Frames that the program can have: whose write it is determines the wire.
Frame ==
  {f \in [at : {"call", "run", "write", "notify", "make", "append", "loop", "wipe"},
          gate : Gates \cup {NULL}, wire : Wires \cup {NULL}, value : Value, next : Nat] :
     /\ f.at \in {"call", "run", "make", "append"} => f.gate # NULL
     /\ f.at \in {"make", "append", "loop", "wipe"} => HasBreaker
     /\ f.at \in {"write", "notify"} =>
          /\ f.wire # NULL /\ f.value # NULL
          /\ IF f.gate = NULL THEN f.wire \in Stimuli
             ELSE Kind[f.gate] # "sniffer" /\ f.wire = Output[f.gate]
     /\ f.at = "notify" => f.next # 0}

TypeOK ==
  /\ circuit \in Circuits
  /\ program \in {"start", "running", "shut", "destroyed", "aborted"}
  /\ enabled \in [Gates -> BOOLEAN]
  /\ value \in [Wires -> Value]
  /\ tokens \in [Ports -> Value]
  /\ stack \in [Threads -> Seq(Frame)]
  /\ breaker \in {NULL} \cup Seq(Gates \X Value)
  /\ tasks \in [Gates -> Nat]
-----------------------------------------------------------------------------
(* What the three operations on a stack do.                                 *)

LEMMA EndOfSeq ==
  ASSUME NEW S, NEW s \in Seq(S), s # <<>>
  PROVE  /\ Len(s) \in Nat \ {0}
         /\ Last(s) = s[Len(s)] /\ Last(s) \in S
         /\ Front(s) \in Seq(S) /\ Len(Front(s)) = Len(s) - 1
         /\ \A i \in 1 .. Len(s) - 1 : Front(s)[i] = s[i]
<1>1. Len(s) \in Nat \ {0}
  BY EmptySeq
<1> DEFINE n == Len(s) - 1
<1>2. n \in Nat /\ 1 \in Int /\ n \in Int /\ \A i \in 1 .. n : s[i] \in S
  BY <1>1
<1> HIDE DEF n
<1>3. /\ SubSeq(s, 1, n) \in Seq(S)
      /\ Len(SubSeq(s, 1, n)) = IF 1 <= n THEN n - 1 + 1 ELSE 0
      /\ \A i \in 1 .. n - 1 + 1 : SubSeq(s, 1, n)[i] = s[1 + i - 1]
  BY <1>2, SubSeqProperties
<1>4. /\ SubSeq(s, 1, n) \in Seq(S) /\ Len(SubSeq(s, 1, n)) = n
      /\ \A i \in 1 .. n : SubSeq(s, 1, n)[i] = s[i]
  BY <1>2, <1>3
<1>5. Front(s) = SubSeq(s, 1, n)
  BY DEF Front, n
<1>6. QED
  BY <1>1, <1>4, <1>5 DEF Last, n

\* The frames below the top of t's stack, and the stacks of the others, stay.
Keeps(t) ==
  /\ \A u \in Threads \ {t} : stack'[u] = stack[u]
  /\ \A i \in 1 .. Len(stack[t]) - 1 : stack'[t][i] = stack[t][i]

LEMMA OnReturn ==
  ASSUME NEW S, stack \in [Threads -> Seq(S)], NEW t \in Threads,
         stack[t] # <<>>, Return(t)
  PROVE  /\ stack' \in [Threads -> Seq(S)] /\ Keeps(t)
         /\ Len(stack'[t]) = Len(stack[t]) - 1
<1> DEFINE s == stack[t]
<1>1. /\ Front(s) \in Seq(S) /\ Len(Front(s)) = Len(s) - 1
      /\ \A i \in 1 .. Len(s) - 1 : Front(s)[i] = s[i]
  BY EndOfSeq
<1>2. stack' = [stack EXCEPT ![t] = Front(s)]
  BY DEF Return
<1>3. QED
  BY <1>1, <1>2 DEF Keeps

LEMMA OnGoto ==
  ASSUME NEW S, stack \in [Threads -> Seq(S)], NEW t \in Threads,
         stack[t] # <<>>, NEW f \in S, Goto(t, f)
  PROVE  /\ stack' \in [Threads -> Seq(S)] /\ Keeps(t)
         /\ Len(stack'[t]) = Len(stack[t])
         /\ stack'[t][Len(stack[t])] = f
<1> DEFINE s == stack[t]
<1>1. /\ Front(s) \in Seq(S) /\ Len(Front(s)) = Len(s) - 1 /\ Len(s) \in Nat \ {0}
      /\ \A i \in 1 .. Len(s) - 1 : Front(s)[i] = s[i]
  BY EndOfSeq
<1>2. stack' = [stack EXCEPT ![t] = Append(Front(s), f)]
  BY DEF Goto
<1>3. /\ Append(Front(s), f) \in Seq(S)
      /\ Len(Append(Front(s), f)) = Len(s)
      /\ Append(Front(s), f)[Len(s)] = f
      /\ \A i \in 1 .. Len(s) - 1 : Append(Front(s), f)[i] = s[i]
  BY <1>1
<1>4. QED
  BY <1>2, <1>3 DEF Keeps

LEMMA OnCall ==
  ASSUME NEW S, stack \in [Threads -> Seq(S)], NEW t \in Threads,
         stack[t] # <<>>, NEW f \in S, NEW callee \in S, CallFrom(t, f, callee)
  PROVE  /\ stack' \in [Threads -> Seq(S)] /\ Keeps(t)
         /\ Len(stack'[t]) = Len(stack[t]) + 1
         /\ stack'[t][Len(stack[t])] = f
         /\ stack'[t][Len(stack[t]) + 1] = callee
<1> DEFINE s == stack[t]
           a == Append(Front(s), f)
<1>1. /\ Front(s) \in Seq(S) /\ Len(Front(s)) = Len(s) - 1 /\ Len(s) \in Nat \ {0}
      /\ \A i \in 1 .. Len(s) - 1 : Front(s)[i] = s[i]
  BY EndOfSeq
<1>2. stack' = [stack EXCEPT ![t] = Append(a, callee)]
  BY DEF CallFrom
<1>3. /\ a \in Seq(S) /\ Len(a) = Len(s) /\ a[Len(s)] = f
      /\ \A i \in 1 .. Len(s) - 1 : a[i] = s[i]
  BY <1>1
<1> HIDE DEF a
<1>4. /\ Append(a, callee) \in Seq(S)
      /\ Len(Append(a, callee)) = Len(s) + 1
      /\ Append(a, callee)[Len(s) + 1] = callee
      /\ \A i \in 1 .. Len(s) : Append(a, callee)[i] = a[i]
  BY <1>1, <1>3
<1>5. QED
  BY <1>1, <1>2, <1>3, <1>4 DEF Keeps
-----------------------------------------------------------------------------
(* Counting the frames of a kind P, before and after a step.                *)

Bit(f, P) == IF f \in P THEN 1 ELSE 0

Where(P) == {f \in Frames : stack[f[1]][f[2]] \in P}
WhereNext(P) == {f \in Frames' : stack'[f[1]][f[2]] \in P}

LEMMA InWhere ==
  ASSUME NEW S, stack \in [Threads -> Seq(S)], NEW P
  PROVE  /\ \A f \in Where(P) : f = <<f[1], f[2]>> /\ f[1] \in Threads /\ f[2] \in Nat
         /\ \A t \in Threads, i \in Nat :
              <<t, i>> \in Where(P) <=> i \in 1 .. Len(stack[t]) /\ stack[t][i] \in P
<1>1. \A t \in Threads : DOMAIN stack[t] = 1 .. Len(stack[t]) /\ Len(stack[t]) \in Nat
  OBVIOUS
<1>2. QED
  BY <1>1 DEF Frames, Where

LEMMA InWhereNext ==
  ASSUME NEW S, stack' \in [Threads -> Seq(S)], NEW P
  PROVE  /\ \A f \in WhereNext(P) : f = <<f[1], f[2]>> /\ f[1] \in Threads /\ f[2] \in Nat
         /\ \A t \in Threads, i \in Nat :
              <<t, i>> \in WhereNext(P) <=> i \in 1 .. Len(stack'[t]) /\ stack'[t][i] \in P
<1>1. \A t \in Threads : DOMAIN stack'[t] = 1 .. Len(stack'[t]) /\ Len(stack'[t]) \in Nat
  OBVIOUS
<1>2. QED
  BY <1>1 DEF Frames, WhereNext, Threads

\* Where the frames stay, so does their kind.
LEMMA KindsStay ==
  ASSUME NEW S, stack \in [Threads -> Seq(S)], stack' \in [Threads -> Seq(S)],
         NEW t \in Threads, Keeps(t), NEW n \in Nat \ {0}, n = Len(stack[t]),
         Len(stack'[t]) \in {n - 1, n, n + 1}, NEW P
  PROVE  \A u \in Threads, i \in Nat :
           u # t \/ i < n => (<<u, i>> \in WhereNext(P) <=> <<u, i>> \in Where(P))
<1> SUFFICES ASSUME NEW u \in Threads, NEW i \in Nat, u # t \/ i < n
             PROVE  <<u, i>> \in WhereNext(P) <=> <<u, i>> \in Where(P)
  OBVIOUS
<1>1. <<u, i>> \in WhereNext(P) <=> i \in 1 .. Len(stack'[u]) /\ stack'[u][i] \in P
  BY InWhereNext
<1>2. <<u, i>> \in Where(P) <=> i \in 1 .. Len(stack[u]) /\ stack[u][i] \in P
  BY InWhere
<1>3. CASE u # t
  BY <1>1, <1>2, <1>3 DEF Keeps
<1>4. CASE u = t /\ i < n
  <2>1. i \in 1 .. Len(stack'[t]) <=> i \in 1 .. Len(stack[t])
    BY <1>4
  <2>2. i \in 1 .. Len(stack[t]) => stack'[t][i] = stack[t][i]
    BY <1>4 DEF Keeps
  <2>3. QED
    BY <1>1, <1>2, <1>4, <2>1, <2>2
<1>5. QED
  BY <1>3, <1>4

LEMMA WhereReturn ==
  ASSUME NEW S, stack \in [Threads -> Seq(S)], NEW t \in Threads,
         stack[t] # <<>>, Return(t), NEW P
  PROVE  WhereNext(P) = Where(P) \ {<<t, Len(stack[t])>>}
<1> DEFINE n == Len(stack[t])
<1>1. n \in Nat \ {0}
  BY EndOfSeq
<1>2. stack' \in [Threads -> Seq(S)] /\ Keeps(t) /\ Len(stack'[t]) = n - 1
  BY OnReturn
<1>3. \A u \in Threads, i \in Nat :
        u # t \/ i < n => (<<u, i>> \in WhereNext(P) <=> <<u, i>> \in Where(P))
  BY <1>1, <1>2, KindsStay
<1>4. \A i \in Nat : i >= n => <<t, i>> \notin WhereNext(P)
  BY <1>1, <1>2, InWhereNext
<1>5. \A i \in Nat : i > n => <<t, i>> \notin Where(P)
  BY <1>1, InWhere
<1> HIDE DEF n
<1>6. ASSUME NEW f
      PROVE  f \in WhereNext(P) <=> f \in Where(P) /\ f # <<t, n>>
  <2>1. CASE f = <<f[1], f[2]>> /\ f[1] \in Threads /\ f[2] \in Nat
    BY <1>1, <1>3, <1>4, <1>5, <2>1
  <2>2. CASE ~(f = <<f[1], f[2]>> /\ f[1] \in Threads /\ f[2] \in Nat)
    BY <1>2, <2>2, InWhere, InWhereNext
  <2>3. QED
    BY <2>1, <2>2
<1>7. QED
  BY <1>6 DEF n

LEMMA WhereGoto ==
  ASSUME NEW S, stack \in [Threads -> Seq(S)], NEW t \in Threads,
         stack[t] # <<>>, NEW f \in S, Goto(t, f), NEW P
  PROVE  WhereNext(P) = (Where(P) \ {<<t, Len(stack[t])>>})
                          \cup (IF f \in P THEN {<<t, Len(stack[t])>>} ELSE {})
<1> DEFINE n == Len(stack[t])
<1>1. n \in Nat \ {0}
  BY EndOfSeq
<1>2. /\ stack' \in [Threads -> Seq(S)] /\ Keeps(t) /\ Len(stack'[t]) = n
      /\ stack'[t][n] = f
  BY OnGoto
<1>3. \A u \in Threads, i \in Nat :
        u # t \/ i < n => (<<u, i>> \in WhereNext(P) <=> <<u, i>> \in Where(P))
  BY <1>1, <1>2, KindsStay
<1>4. \A i \in Nat : i >= n => (<<t, i>> \in WhereNext(P) <=> i = n /\ f \in P)
  BY <1>1, <1>2, InWhereNext
<1>5. \A i \in Nat : i > n => <<t, i>> \notin Where(P)
  BY <1>1, InWhere
<1> HIDE DEF n
<1>6. ASSUME NEW x
      PROVE  x \in WhereNext(P) <=> (x \in Where(P) /\ x # <<t, n>>) \/ (x = <<t, n>> /\ f \in P)
  <2>1. CASE x = <<x[1], x[2]>> /\ x[1] \in Threads /\ x[2] \in Nat
    BY <1>1, <1>3, <1>4, <1>5, <2>1
  <2>2. CASE ~(x = <<x[1], x[2]>> /\ x[1] \in Threads /\ x[2] \in Nat)
    BY <1>1, <1>2, <2>2, InWhere, InWhereNext
  <2>3. QED
    BY <2>1, <2>2
<1>7. QED
  BY <1>6 DEF n

LEMMA WhereCall ==
  ASSUME NEW S, stack \in [Threads -> Seq(S)], NEW t \in Threads,
         stack[t] # <<>>, NEW f \in S, NEW c \in S, CallFrom(t, f, c), NEW P
  PROVE  WhereNext(P) = ((Where(P) \ {<<t, Len(stack[t])>>})
                          \cup (IF f \in P THEN {<<t, Len(stack[t])>>} ELSE {}))
                          \cup (IF c \in P THEN {<<t, Len(stack[t]) + 1>>} ELSE {})
<1> DEFINE n == Len(stack[t])
<1>1. n \in Nat \ {0}
  BY EndOfSeq
<1>2. /\ stack' \in [Threads -> Seq(S)] /\ Keeps(t) /\ Len(stack'[t]) = n + 1
      /\ stack'[t][n] = f /\ stack'[t][n + 1] = c
  BY OnCall
<1>3. \A u \in Threads, i \in Nat :
        u # t \/ i < n => (<<u, i>> \in WhereNext(P) <=> <<u, i>> \in Where(P))
  BY <1>1, <1>2, KindsStay
<1>4. \A i \in Nat :
        i >= n => (<<t, i>> \in WhereNext(P) <=> (i = n /\ f \in P) \/ (i = n + 1 /\ c \in P))
  BY <1>1, <1>2, InWhereNext
<1>5. \A i \in Nat : i > n => <<t, i>> \notin Where(P)
  BY <1>1, InWhere
<1> HIDE DEF n
<1>6. ASSUME NEW x
      PROVE  x \in WhereNext(P) <=> \/ x \in Where(P) /\ x # <<t, n>>
                                    \/ x = <<t, n>> /\ f \in P
                                    \/ x = <<t, n + 1>> /\ c \in P
  <2>1. CASE x = <<x[1], x[2]>> /\ x[1] \in Threads /\ x[2] \in Nat
    BY <1>1, <1>3, <1>4, <1>5, <2>1
  <2>2. CASE ~(x = <<x[1], x[2]>> /\ x[1] \in Threads /\ x[2] \in Nat)
    BY <1>1, <1>2, <2>2, InWhere, InWhereNext
  <2>3. QED
    BY <2>1, <2>2
<1>7. QED
  BY <1>6 DEF n

\* A thread whose stack is empty begins to run f.
LEMMA WhereBegins ==
  ASSUME NEW S, stack \in [Threads -> Seq(S)], NEW t \in Threads,
         stack[t] = <<>>, NEW f \in S, stack' = [stack EXCEPT ![t] = <<f>>], NEW P
  PROVE  /\ stack' \in [Threads -> Seq(S)]
         /\ WhereNext(P) = Where(P) \cup (IF f \in P THEN {<<t, 1>>} ELSE {})
         /\ \A i \in Nat : <<t, i>> \notin Where(P)
<1>0. <<f>> \in Seq(S) /\ Len(<<f>>) = 1 /\ <<f>>[1] = f
  OBVIOUS
<1>1. /\ stack' \in [Threads -> Seq(S)] /\ stack'[t] = <<f>>
      /\ \A u \in Threads \ {t} : stack'[u] = stack[u]
  BY <1>0
<1>2. \A i \in Nat : <<t, i>> \in WhereNext(P) <=> i = 1 /\ f \in P
  <2>1. \A i \in Nat : <<t, i>> \in WhereNext(P) <=> i \in 1 .. Len(stack'[t]) /\ stack'[t][i] \in P
    BY <1>1, InWhereNext
  <2>2. Len(stack'[t]) = 1 /\ stack'[t][1] = f
    BY <1>0, <1>1
  <2>3. \A i \in Nat : i \in 1 .. 1 <=> i = 1
    OBVIOUS
  <2>4. QED
    BY <2>1, <2>2, <2>3
<1>3. \A i \in Nat : <<t, i>> \notin Where(P)
  BY InWhere
<1>4. \A u \in Threads \ {t}, i \in Nat : <<u, i>> \in WhereNext(P) <=> <<u, i>> \in Where(P)
  BY <1>1, InWhere, InWhereNext
<1>5. ASSUME NEW x
      PROVE  x \in WhereNext(P) <=> x \in Where(P) \/ (x = <<t, 1>> /\ f \in P)
  <2>1. CASE x = <<x[1], x[2]>> /\ x[1] \in Threads /\ x[2] \in Nat
    BY <1>2, <1>3, <1>4, <2>1
  <2>2. CASE ~(x = <<x[1], x[2]>> /\ x[1] \in Threads /\ x[2] \in Nat)
    BY <1>1, <2>2, InWhere, InWhereNext
  <2>3. QED
    BY <2>1, <2>2
<1>6. QED
  BY <1>1, <1>3, <1>5

LEMMA WhereFinite ==
  ASSUME IsFiniteSet(Frames), NEW P
  PROVE  IsFiniteSet(Where(P)) /\ Cardinality(Where(P)) \in Nat
<1>1. Where(P) \in SUBSET Frames
  BY DEF Where
<1>2. IsFiniteSet(Where(P))
  BY <1>1, FS_Subset
<1>3. QED
  BY <1>2, FS_CardinalityType

LEMMA AllFrames ==
  ASSUME NEW S, stack' \in [Threads -> Seq(S)]
  PROVE  WhereNext(S) = Frames'
<1>1. ASSUME NEW t \in Threads PROVE \A i \in DOMAIN stack'[t] : stack'[t][i] \in S
  BY ElementOfSeq
<1>2. QED
  BY <1>1 DEF WhereNext, Frames, Threads

LEMMA TopWhere ==
  ASSUME NEW S, stack \in [Threads -> Seq(S)], NEW t \in Threads, stack[t] # <<>>, NEW P
  PROVE  /\ <<t, Len(stack[t])>> \in Where(P) <=> Top(t) \in P
         /\ <<t, Len(stack[t]) + 1>> \notin Where(P)
         /\ Len(stack[t]) \in Nat \ {0}
<1> DEFINE n == Len(stack[t])
<1>0. stack[t] \in Seq(S)
  OBVIOUS
<1>1. n \in Nat \ {0} /\ Top(t) = stack[t][n]
  BY <1>0, EndOfSeq DEF Top
<1>2. \A i \in Nat : <<t, i>> \in Where(P) <=> i \in 1 .. n /\ stack[t][i] \in P
  BY InWhere
<1> HIDE DEF n
<1>3. (<<t, n>> \in Where(P) <=> Top(t) \in P) /\ <<t, n + 1>> \notin Where(P)
  BY <1>1, <1>2
<1>4. QED
  BY <1>1, <1>3 DEF n

\* An element goes, and may come again.
LEMMA Exchange ==
  ASSUME NEW X, IsFiniteSet(X), NEW x
  PROVE  /\ IsFiniteSet(X \ {x}) /\ IsFiniteSet((X \ {x}) \cup {x})
         /\ Cardinality(X) \in Nat /\ Cardinality(X \ {x}) \in Nat
         /\ Cardinality(X \ {x}) = IF x \in X THEN Cardinality(X) - 1 ELSE Cardinality(X)
         /\ Cardinality((X \ {x}) \cup {x}) = Cardinality(X \ {x}) + 1
<1>1. /\ IsFiniteSet(X \ {x}) /\ Cardinality(X) \in Nat
      /\ Cardinality(X \ {x}) = IF x \in X THEN Cardinality(X) - 1 ELSE Cardinality(X)
  BY FS_RemoveElement, FS_CardinalityType
<1>2. x \notin X \ {x}
  OBVIOUS
<1>3. QED
  BY <1>1, <1>2, FS_AddElement, FS_CardinalityType

LEMMA CountReturn ==
  ASSUME NEW S, stack \in [Threads -> Seq(S)], NEW t \in Threads,
         stack[t] # <<>>, Return(t), IsFiniteSet(Frames)
  PROVE  /\ IsFiniteSet(Frames')
         /\ \A P : Cardinality(WhereNext(P)) = Cardinality(Where(P)) - Bit(Top(t), P)
<1> DEFINE top == <<t, Len(stack[t])>>
<1>1. stack' \in [Threads -> Seq(S)]
  BY OnReturn
<1>2. ASSUME NEW P
      PROVE  /\ IsFiniteSet(WhereNext(P))
             /\ Cardinality(WhereNext(P)) = Cardinality(Where(P)) - Bit(Top(t), P)
  <2>1. top \in Where(P) <=> Top(t) \in P
    BY TopWhere
  <2>2. WhereNext(P) = Where(P) \ {top}
    BY WhereReturn
  <2>3. IsFiniteSet(Where(P))
    BY WhereFinite
  <2> HIDE DEF top
  <2>4. /\ IsFiniteSet(Where(P) \ {top}) /\ Cardinality(Where(P)) \in Nat
        /\ Cardinality(Where(P) \ {top}) =
              IF top \in Where(P) THEN Cardinality(Where(P)) - 1 ELSE Cardinality(Where(P))
    BY <2>3, Exchange
  <2>5. QED
    BY <2>1, <2>2, <2>4 DEF Bit
<1>3. IsFiniteSet(Frames')
  BY <1>1, <1>2, AllFrames
<1>4. QED
  BY <1>2, <1>3

LEMMA CountGoto ==
  ASSUME NEW S, stack \in [Threads -> Seq(S)], NEW t \in Threads,
         stack[t] # <<>>, NEW f \in S, Goto(t, f), IsFiniteSet(Frames)
  PROVE  /\ IsFiniteSet(Frames')
         /\ \A P : Cardinality(WhereNext(P)) =
                     Cardinality(Where(P)) - Bit(Top(t), P) + Bit(f, P)
<1> DEFINE top == <<t, Len(stack[t])>>
<1>1. stack' \in [Threads -> Seq(S)]
  BY OnGoto
<1>2. ASSUME NEW P
      PROVE  /\ IsFiniteSet(WhereNext(P))
             /\ Cardinality(WhereNext(P)) =
                  Cardinality(Where(P)) - Bit(Top(t), P) + Bit(f, P)
  <2> DEFINE X == Where(P) \ {top}
             Z == X \cup {top}
  <2>1. top \in Where(P) <=> Top(t) \in P
    BY TopWhere
  <2>2. WhereNext(P) = X \cup (IF f \in P THEN {top} ELSE {})
    BY WhereGoto
  <2>3. IsFiniteSet(Where(P))
    BY WhereFinite
  <2> HIDE DEF top
  <2>4. /\ IsFiniteSet(X) /\ IsFiniteSet(Z)
        /\ Cardinality(Where(P)) \in Nat
        /\ Cardinality(X) = IF top \in Where(P) THEN Cardinality(Where(P)) - 1 ELSE Cardinality(Where(P))
        /\ Cardinality(Z) = Cardinality(X) + 1
    BY <2>3, Exchange
  <2>5. (f \in P => WhereNext(P) = Z) /\ (f \notin P => WhereNext(P) = X)
    BY <2>2
  <2> HIDE DEF X, Z
  <2>6. QED
    BY <2>1, <2>4, <2>5 DEF Bit
<1>3. IsFiniteSet(Frames')
  BY <1>1, <1>2, AllFrames
<1>4. QED
  BY <1>2, <1>3

LEMMA CountCall ==
  ASSUME NEW S, stack \in [Threads -> Seq(S)], NEW t \in Threads,
         stack[t] # <<>>, NEW f \in S, NEW c \in S, CallFrom(t, f, c), IsFiniteSet(Frames)
  PROVE  /\ IsFiniteSet(Frames')
         /\ \A P : Cardinality(WhereNext(P)) =
                     Cardinality(Where(P)) - Bit(Top(t), P) + Bit(f, P) + Bit(c, P)
<1> DEFINE top == <<t, Len(stack[t])>>
           above == <<t, Len(stack[t]) + 1>>
<1>1. stack' \in [Threads -> Seq(S)]
  BY OnCall
<1>2. ASSUME NEW P
      PROVE  /\ IsFiniteSet(WhereNext(P))
             /\ Cardinality(WhereNext(P)) =
                  Cardinality(Where(P)) - Bit(Top(t), P) + Bit(f, P) + Bit(c, P)
  <2> DEFINE X == Where(P) \ {top}
             Z == X \cup {top}
             Y == X \cup (IF f \in P THEN {top} ELSE {})
             W == Y \cup {above}
  <2>1. (top \in Where(P) <=> Top(t) \in P) /\ above \notin Where(P)
    BY TopWhere
  <2>2. above # top
    BY TopWhere
  <2>3. WhereNext(P) = Y \cup (IF c \in P THEN {above} ELSE {})
    BY WhereCall
  <2>4. IsFiniteSet(Where(P))
    BY WhereFinite
  <2>5. above \notin Y
    BY <2>1, <2>2
  <2> HIDE DEF top, above
  <2>6. /\ IsFiniteSet(X) /\ IsFiniteSet(Z)
        /\ Cardinality(Where(P)) \in Nat
        /\ Cardinality(X) = IF top \in Where(P) THEN Cardinality(Where(P)) - 1 ELSE Cardinality(Where(P))
        /\ Cardinality(Z) = Cardinality(X) + 1
    BY <2>4, Exchange
  <2>7. (f \in P => Y = Z) /\ (f \notin P => Y = X)
    OBVIOUS
  <2>8. (c \in P => WhereNext(P) = W) /\ (c \notin P => WhereNext(P) = Y)
    BY <2>3
  <2> HIDE DEF X, Y, Z
  <2>9. IsFiniteSet(Y) /\ Cardinality(Y) = Cardinality(Where(P)) - Bit(Top(t), P) + Bit(f, P)
    BY <2>1, <2>6, <2>7 DEF Bit
  <2>10. IsFiniteSet(W) /\ Cardinality(W) = Cardinality(Y) + 1
    BY <2>5, <2>9, FS_AddElement
  <2>11. Cardinality(Y) \in Nat
    BY <2>9, FS_CardinalityType
  <2> HIDE DEF W
  <2>12. QED
    BY <2>8, <2>9, <2>10, <2>11 DEF Bit
<1>3. IsFiniteSet(Frames')
  BY <1>1, <1>2, AllFrames
<1>4. QED
  BY <1>2, <1>3

LEMMA CountBegins ==
  ASSUME NEW S, stack \in [Threads -> Seq(S)], NEW t \in Threads, stack[t] = <<>>,
         NEW f \in S, stack' = [stack EXCEPT ![t] = <<f>>], IsFiniteSet(Frames)
  PROVE  /\ stack' \in [Threads -> Seq(S)] /\ IsFiniteSet(Frames')
         /\ \A P : Cardinality(WhereNext(P)) = Cardinality(Where(P)) + Bit(f, P)
<1>1. stack' \in [Threads -> Seq(S)]
  BY WhereBegins
<1>2. ASSUME NEW P
      PROVE  /\ IsFiniteSet(WhereNext(P))
             /\ Cardinality(WhereNext(P)) = Cardinality(Where(P)) + Bit(f, P)
  <2> DEFINE Z == Where(P) \cup {<<t, 1>>}
  <2>1. WhereNext(P) = Where(P) \cup (IF f \in P THEN {<<t, 1>>} ELSE {})
    BY WhereBegins
  <2>2. <<t, 1>> \notin Where(P)
    BY WhereBegins
  <2>3. IsFiniteSet(Where(P)) /\ Cardinality(Where(P)) \in Nat
    BY WhereFinite
  <2>4. IsFiniteSet(Z) /\ Cardinality(Z) = Cardinality(Where(P)) + 1
    BY <2>2, <2>3, FS_AddElement
  <2>5. (f \in P => WhereNext(P) = Z) /\ (f \notin P => WhereNext(P) = Where(P))
    BY <2>1
  <2> HIDE DEF Z
  <2>6. QED
    BY <2>3, <2>4, <2>5 DEF Bit
<1>3. IsFiniteSet(Frames')
  BY <1>1, <1>2, AllFrames
<1>4. QED
  BY <1>1, <1>2, <1>3
-----------------------------------------------------------------------------
(* Types.                                                                   *)

LEMMA LogicType ==
  ASSUME NEW kind \in Kinds, NEW vals \in Seq(BOOLEAN)
  PROVE  Logic(kind, vals) \in Value
<1>1. CASE vals = <<>> \/ (kind = "xor" /\ Len(vals) = 1)
  BY <1>1 DEF Logic, Value
<1>2. CASE ~(vals = <<>> \/ (kind = "xor" /\ Len(vals) = 1))
  BY <1>2 DEF Logic, Value, Kinds, Nand, Nor, And, Or, Not, Xor, Some
<1>3. QED
  BY <1>1, <1>2

\* What CircuitType says, in the words of the module.
LEMMA Wired ==
  ASSUME TypeOK
  PROVE  /\ NULL \notin Gates /\ NULL \notin Wires /\ IsFiniteSet(Gates)
         /\ NULL \notin Seq(Gates \X Value) /\ NULL \notin BOOLEAN
         /\ \A g \in Gates : Kind[g] \in Kinds \cup {"sniffer"}
         /\ Inputs \in [Gates -> Seq(Wires)]
         /\ \A g \in Gates : Len(Inputs[g]) <= 21
         /\ Output \in [Gates -> Wires \cup {NULL}]
         /\ Drivens \in [Wires -> Seq(Ports)]
         /\ Behavior \in [Gates -> {"default", "loopbreaker", "async"}]
         /\ Start \in Gates \cup {NULL} /\ Stimuli \subseteq Wires
         /\ Main \in Threads
<1>1. CircuitType(circuit)
  BY PropagationAssumption DEF TypeOK
<1>2. QED
  BY <1>1, PropagationAssumption DEF CircuitType, Gates, Wires, Kind, Inputs, Output,
     Drivens, Behavior, Start, Stimuli, Ports, Value, Threads

\* The top of a stack, which the guards look at.
LEMMA TopFrame ==
  ASSUME TypeOK, NEW t \in Threads, NEW at, At(t, at)
  PROVE  /\ stack[t] # <<>> /\ Top(t) \in Frame /\ Top(t).at = at
         /\ Len(stack[t]) \in Nat \ {0}
         /\ Top(t) = stack[t][Len(stack[t])]
BY EndOfSeq DEF At, Top, TypeOK

\* The frames that functions call and continue with.
LEMMA NewFrames ==
  ASSUME TypeOK, NEW g \in Gates, NEW v \in Value
  PROVE  /\ Call(g, v) \in Frame /\ Run(g, v) \in Frame
         /\ HasBreaker => /\ Make(g, v) \in Frame /\ Enqueue(g, v) \in Frame
                          /\ Loop(g, v) \in Frame /\ Loop(NULL, NULL) \in Frame
                          /\ Wipe \in Frame
BY Wired DEF Call, Run, Make, Enqueue, Loop, Wipe, F, Frame, Value

\* The call of a gate with the loopbreaker, and what it becomes.
LEMMA BreakerFrame ==
  ASSUME TypeOK, NEW t \in Threads, CallBreaker(t),
         NEW f, f = IF IsFirstCall THEN Make(Top(t).gate, Top(t).value)
                                   ELSE Enqueue(Top(t).gate, Top(t).value)
  PROVE  /\ Goto(t, f) /\ f \in Frame /\ HasBreaker
         /\ f.at = (IF IsFirstCall THEN "make" ELSE "append")
         /\ f.gate = Top(t).gate /\ f.value = Top(t).value
<1>1. Top(t) \in Frame /\ Top(t).at = "call"
  BY TopFrame DEF CallBreaker
<1>2. Top(t).gate \in Gates /\ Top(t).value \in Value
  BY <1>1 DEF Frame
<1>3. HasBreaker
  BY <1>2 DEF CallBreaker, HasBreaker
<1>4. f \in Frame
  BY <1>2, <1>3, NewFrames
<1>5. QED
  BY <1>3, <1>4 DEF CallBreaker, Make, Enqueue, F

\* A port that a wire notifies.
LEMMA DrivenPort ==
  ASSUME TypeOK, NEW f \in Frame, f.at = "notify", More(f)
  PROVE  /\ f.wire \in Wires /\ f.next \in DOMAIN Drivens[f.wire]
         /\ Drivens[f.wire][f.next] \in Ports
         /\ Drivens[f.wire][f.next][1] \in Gates
<1>1. f.wire \in Wires /\ f.next \in Nat \ {0}
  BY DEF Frame
<1>2. Drivens[f.wire] \in Seq(Ports)
  BY <1>1, Wired
<1>3. f.next \in DOMAIN Drivens[f.wire] /\ Drivens[f.wire][f.next] \in Ports
  BY <1>1, <1>2 DEF More
<1>4. QED
  BY <1>1, <1>3 DEF Ports

\* A step on the stack of one thread that pushes frames of the program.
LEMMA StackType ==
  ASSUME TypeOK, circuit' = circuit, NEW t \in Threads, stack[t] # <<>>,
         \/ Return(t)
         \/ \E f \in Frame : Goto(t, f)
         \/ \E f \in Frame, callee \in Frame : CallFrom(t, f, callee)
  PROVE  stack' \in [Threads -> Seq(Frame')]
<1>1. Frame' = Frame
  BY DEF Frame, HasBreaker, Behavior, Gates, Wires, Kind, Output, Stimuli, Value
<1>2. stack' \in [Threads -> Seq(Frame)]
  BY OnReturn, OnGoto, OnCall DEF TypeOK
<1>3. QED
  BY <1>1, <1>2

\* The rest of TypeOK, in the words of the module's variables.
LEMMA SameCircuit ==
  ASSUME circuit' = circuit
  PROVE  /\ Gates' = Gates /\ Wires' = Wires /\ Ports' = Ports
         /\ Frame' = Frame
BY DEF Gates, Wires, Ports, Inputs, Frame, HasBreaker, Behavior, Kind, Output, Stimuli, Value

\* What a gate reads when its inputs are complete.
LEMMA ValsType ==
  ASSUME TypeOK, NEW g \in Gates
  PROVE  /\ Len(Vals(g)) = Len(Inputs[g])
         /\ Complete(g) => Vals(g) \in Seq(BOOLEAN)
<1>1. /\ Inputs[g] \in Seq(Wires) /\ DOMAIN Inputs[g] = 1 .. Len(Inputs[g])
      /\ Len(Inputs[g]) \in Nat /\ Len(Inputs[g]) <= 21
  BY Wired
<1>2. \A i \in DOMAIN Inputs[g] : Read(g, i) \in Value
  <2> SUFFICES ASSUME NEW i \in DOMAIN Inputs[g] PROVE Read(g, i) \in Value
    OBVIOUS
  <2> DEFINE ins == Inputs[g]
  <2>0. ins \in Seq(Wires) /\ i \in 1 .. Len(ins) /\ Len(ins) \in Nat /\ Len(ins) <= 21
    BY <1>1
  <2> HIDE DEF ins
  <2>1. i \in 1 .. 21
    BY <2>0
  <2>3. ins[i] \in Wires
    BY <2>0, ElementOfSeq
  <2>2. <<g, i>> \in Ports
    BY <2>1 DEF Ports
  <2>4. QED
    BY <2>1, <2>2, <2>3 DEF Read, TypeOK, ins
<1>3. QED
  BY <1>1, <1>2 DEF Vals, Complete, Value

\* What a gate that is complete drives.
LEMMA WrittenFrame ==
  ASSUME TypeOK, NEW g \in Gates, Kind[g] # "sniffer", Complete(g),
         Logic(Kind[g], Vals(g)) # NULL, Output[g] # NULL
  PROVE  /\ Write(g, Output[g], Logic(Kind[g], Vals(g))) \in Frame
         /\ Write(g, Output[g], Logic(Kind[g], Vals(g))).at = "write"
<1> DEFINE result == Logic(Kind[g], Vals(g))
<1>1. Vals(g) \in Seq(BOOLEAN) /\ Kind[g] \in Kinds
  BY ValsType, Wired
<1>2. result \in BOOLEAN
  BY <1>1, LogicType DEF Value
<1>3. Output[g] \in Wires
  BY Wired
<1> HIDE DEF result
<1>4. Write(g, Output[g], result) \in Frame /\ Write(g, Output[g], result).at = "write"
  BY <1>2, <1>3, Wired DEF Write, F, Frame, Value
<1>5. QED
  BY <1>4 DEF result

\* The queue of the loopbreaker when a call has been added.
LEMMA QueueGrows ==
  ASSUME TypeOK, NEW t \in Threads, AppendTask(t)
  PROVE  /\ <<Top(t).gate, Top(t).value>> \in Gates \X Value
         /\ breaker \in Seq(Gates \X Value) /\ breaker' \in Seq(Gates \X Value)
         /\ Len(breaker') = Len(breaker) + 1
<1>1. <<Top(t).gate, Top(t).value>> \in Gates \X Value
  BY TopFrame DEF AppendTask, Frame
<1>2. breaker \in Seq(Gates \X Value)
  BY DEF AppendTask, TypeOK
<1>3. breaker' = Append(breaker, <<Top(t).gate, Top(t).value>>)
  BY DEF AppendTask
<1>4. QED
  BY <1>1, <1>2, <1>3, AppendProperties

\* The next call of the queue.
LEMMA PoppedFrame ==
  ASSUME TypeOK, HasBreaker, breaker # NULL, breaker # <<>>
  PROVE  /\ Head(breaker) \in Gates \X Value /\ Tail(breaker) \in Seq(Gates \X Value)
         /\ Loop(Head(breaker)[1], Head(breaker)[2]) \in Frame
         /\ Loop(Head(breaker)[1], Head(breaker)[2]).at = "loop"
<1>1. Head(breaker) \in Gates \X Value /\ Tail(breaker) \in Seq(Gates \X Value)
  BY HeadTailProperties DEF TypeOK
<1>2. QED
  BY <1>1, NewFrames DEF Loop, F

LEMMA TypeStep ==
  ASSUME TypeOK, NEW t \in Threads, Step(t)
  PROVE  TypeOK'
<1> USE DEF TypeOK
<1>1. CASE CallDefault(t)
  <2>1. Top(t) \in Frame /\ Top(t).at = "call" /\ stack[t] # <<>>
    BY <1>1, TopFrame DEF CallDefault
  <2>2. Run(Top(t).gate, Top(t).value) \in Frame
    BY <2>1, NewFrames DEF Frame
  <2>3. stack' \in [Threads -> Seq(Frame')]
    BY <1>1, <2>1, <2>2, StackType DEF CallDefault
  <2>4. QED
    BY <1>1, <2>3, SameCircuit DEF CallDefault
<1>2. CASE CallBreaker(t)
  <2>1. stack[t] # <<>>
    BY <1>2, TopFrame DEF CallBreaker
  <2>2. \E f \in Frame : Goto(t, f)
    BY <1>2, BreakerFrame
  <2>3. stack' \in [Threads -> Seq(Frame')]
    BY <1>2, <2>1, <2>2, StackType DEF CallBreaker
  <2>4. QED
    BY <1>2, <2>3, SameCircuit DEF CallBreaker
<1>3. CASE CallAsync(t)
  <2>1. Top(t) \in Frame /\ Top(t).at = "call" /\ stack[t] # <<>>
        /\ Top(t).gate \in Gates
    BY <1>3, TopFrame DEF CallAsync, Frame
  <2>2. CASE Submits
    <3>1. stack' \in [Threads -> Seq(Frame')]
      BY <1>3, <2>1, <2>2, StackType DEF CallAsync
    <3>2. tasks' \in [Gates -> Nat]
      <4>1. tasks' = [tasks EXCEPT ![Top(t).gate] = @ + 1]
        BY <1>3, <2>2 DEF CallAsync
      <4>2. QED
        BY <2>1, <4>1
    <3>3. QED
      BY <1>3, <2>2, <3>1, <3>2, SameCircuit DEF CallAsync
  <2>3. CASE ~Submits
    BY <1>3, <2>3, SameCircuit DEF CallAsync
  <2>4. QED
    BY <2>2, <2>3
<1>4. CASE LoopExecute(t)
  <2>1. Top(t) \in Frame /\ stack[t] # <<>> /\ Top(t).gate \in Gates /\ HasBreaker
    BY <1>4, TopFrame DEF LoopExecute, Frame
  <2>2. Loop(NULL, NULL) \in Frame /\ Run(Top(t).gate, Top(t).value) \in Frame
    BY <2>1, NewFrames DEF Frame
  <2>3. stack' \in [Threads -> Seq(Frame')]
    BY <1>4, <2>1, <2>2, StackType DEF LoopExecute
  <2>4. QED
    BY <1>4, <2>3, SameCircuit DEF LoopExecute
<1>5. CASE LoopNext(t)
  <2>1. /\ stack[t] # <<>> /\ breaker \in Seq(Gates \X Value) /\ breaker # NULL
        /\ HasBreaker
    BY <1>5, TopFrame DEF LoopNext, Frame
  <2>2. CASE breaker = <<>>
    <3>1. Wipe \in Frame
      BY <2>1, NewFrames DEF Value, HasBreaker
    <3>2. stack' \in [Threads -> Seq(Frame')]
      BY <1>5, <2>1, <2>2, <3>1, StackType DEF LoopNext
    <3>3. QED
      BY <1>5, <2>2, <3>2, SameCircuit DEF LoopNext
  <2>3. CASE breaker # <<>>
    <3>1. Head(breaker) \in Gates \X Value /\ breaker' \in Seq(Gates \X Value)
      BY <1>5, <2>1, <2>3, HeadTailProperties DEF LoopNext, Popped
    <3>2. Loop(Head(breaker)[1], Head(breaker)[2]) \in Frame
      BY <2>1, <3>1, NewFrames
    <3>3. stack' \in [Threads -> Seq(Frame')]
      BY <1>5, <2>1, <2>3, <3>2, StackType DEF LoopNext
    <3>4. QED
      BY <1>5, <2>3, <3>1, <3>3, SameCircuit DEF LoopNext
  <2>4. QED
    BY <2>2, <2>3
<1>11. CASE MakeQueue(t)
  <2>1. Top(t) \in Frame /\ stack[t] # <<>> /\ HasBreaker
        /\ Top(t).gate \in Gates /\ Top(t).value \in Value
    BY <1>11, TopFrame DEF MakeQueue, Frame
  <2>2. Loop(Top(t).gate, Top(t).value) \in Frame
    BY <2>1, NewFrames
  <2>3. stack' \in [Threads -> Seq(Frame')]
    BY <1>11, <2>1, <2>2, StackType DEF MakeQueue
  <2>4. QED
    BY <1>11, <2>3, SameCircuit DEF MakeQueue
<1>12. CASE AppendTask(t)
  <2>1. stack[t] # <<>> /\ breaker' \in Seq(Gates \X Value)
    BY <1>12, TopFrame, QueueGrows DEF AppendTask
  <2>2. stack' \in [Threads -> Seq(Frame')]
    BY <1>12, <2>1, StackType DEF AppendTask
  <2>3. QED
    BY <1>12, <2>1, <2>2, SameCircuit DEF AppendTask
<1>13. CASE WipeQueue(t)
  BY <1>13, TopFrame, StackType, SameCircuit DEF WipeQueue
<1>14. CASE CrashAtQueue(t)
  BY <1>14, SameCircuit DEF CrashAtQueue
<1>6. CASE Execute(t)
  <2> DEFINE g == Top(t).gate
             result == Logic(Kind[g], Vals(g))
  <2>1. Top(t) \in Frame /\ stack[t] # <<>> /\ g \in Gates /\ Kind[g] # "sniffer"
    BY <1>6, TopFrame DEF Execute, Frame
  <2>2. tokens' \in [Ports -> Value]
    BY <1>6 DEF Execute, Absorb, Value
  <2>3. ASSUME Complete(g), result # NULL, Output[g] # NULL
        PROVE  Write(g, Output[g], result) \in Frame
    BY <2>1, <2>3, WrittenFrame
  <2>4. stack' \in [Threads -> Seq(Frame')]
    BY <1>6, <2>1, <2>3, StackType DEF Execute
  <2>5. QED
    BY <1>6, <2>2, <2>4, SameCircuit DEF Execute
<1>7. CASE Sniff(t)
  BY <1>7, TopFrame, StackType, SameCircuit DEF Sniff
<1>8. CASE WriteWire(t)
  <2> DEFINE f == Top(t)
  <2>1. f \in Frame /\ stack[t] # <<>> /\ f.at = "write"
    BY <1>8, TopFrame DEF WriteWire
  <2>2. Notify(f.gate, f.wire, f.value, 1) \in Frame /\ f.value \in Value
    BY <2>1 DEF Notify, F, Frame
  <2>3. stack' \in [Threads -> Seq(Frame')]
    BY <1>8, <2>1, <2>2, StackType DEF WriteWire
  <2>4. value' \in [Wires -> Value]
    BY <1>8, <2>2 DEF WriteWire
  <2>5. QED
    BY <1>8, <2>3, <2>4, SameCircuit DEF WriteWire
<1>9. CASE NotifyNext(t)
  <2> DEFINE f == Top(t)
             p == Drivens[f.wire][f.next]
  <2>1. f \in Frame /\ stack[t] # <<>> /\ f.at = "notify" /\ More(f)
    BY <1>9, TopFrame DEF NotifyNext
  <2>2. Notify(f.gate, f.wire, f.value, f.next + 1) \in Frame /\ f.value \in Value
    BY <2>1 DEF Notify, F, Frame
  <2>3. p[1] \in Gates
    BY <2>1, DrivenPort
  <2>4. Call(p[1], f.value) \in Frame
    BY <2>2, <2>3, NewFrames
  <2>5. stack' \in [Threads -> Seq(Frame')]
    BY <1>9, <2>1, <2>2, <2>4, StackType DEF NotifyNext
  <2>6. tokens' \in [Ports -> Value]
    BY <1>9, <2>2 DEF NotifyNext, Give
  <2>7. QED
    BY <1>9, <2>5, <2>6, SameCircuit DEF NotifyNext
<1>10. CASE NotifyDone(t)
  BY <1>10, TopFrame, StackType, SameCircuit DEF NotifyDone
<1>15. QED
  BY <1>1, <1>2, <1>3, <1>4, <1>5, <1>6, <1>7, <1>8, <1>9, <1>10, <1>11, <1>12, <1>13, <1>14
  DEF Step
-----------------------------------------------------------------------------
(* The queue of the loopbreaker has one owner.                              *)

LoopFrame == {f \in Frame : f.at \in {"loop", "wipe"}}
Queues == IF breaker = NULL THEN 0 ELSE 1

LEMMA Owners ==
  ASSUME stack \in [Threads -> Seq(Frame)]
  PROVE  BreakerIsOwned <=> Cardinality(Where(LoopFrame)) = Queues
<1>1. ASSUME NEW f \in Frames PROVE stack[f[1]][f[2]] \in Frame
  <2>1. stack[f[1]] \in Seq(Frame) /\ f[2] \in 1 .. Len(stack[f[1]])
    BY DEF Frames
  <2>2. QED
    BY <2>1, ElementOfSeq
<1>2. Where(LoopFrame) = {f \in Frames : stack[f[1]][f[2]].at \in {"loop", "wipe"}}
  BY <1>1 DEF Where, LoopFrame
<1>3. QED
  BY <1>2, Zenon DEF BreakerIsOwned, Queues

LEMMA OwnersNext ==
  ASSUME stack' \in [Threads -> Seq(Frame)]
  PROVE  BreakerIsOwned' <=> Cardinality(WhereNext(LoopFrame)) = Queues'
<1>1. ASSUME NEW f \in Frames' PROVE stack'[f[1]][f[2]] \in Frame
  <2>1. stack'[f[1]] \in Seq(Frame) /\ f[2] \in 1 .. Len(stack'[f[1]])
    BY DEF Frames, Threads
  <2>2. QED
    BY <2>1, ElementOfSeq
<1>2. WhereNext(LoopFrame) = {f \in Frames' : stack'[f[1]][f[2]].at \in {"loop", "wipe"}}
  BY <1>1 DEF WhereNext, LoopFrame
<1>3. QED
  BY <1>2, Zenon DEF BreakerIsOwned, Queues

\* So there is at most one in a stack.
LEMMA OneLoop ==
  ASSUME stack \in [Threads -> Seq(Frame)], IsFiniteSet(Frames), BreakerIsOwned,
         NEW t \in Threads, NEW k \in DOMAIN stack[t], NEW l \in DOMAIN stack[t],
         stack[t][k].at \in {"loop", "wipe"}, stack[t][l].at \in {"loop", "wipe"}
  PROVE  k = l
<1>1. stack[t][k] \in LoopFrame /\ stack[t][l] \in LoopFrame /\ k \in Nat /\ l \in Nat
  <2>1. stack[t] \in Seq(Frame) /\ DOMAIN stack[t] = 1 .. Len(stack[t]) /\ Len(stack[t]) \in Nat
    OBVIOUS
  <2>2. QED
    BY <2>1, ElementOfSeq DEF LoopFrame
<1>2. <<t, k>> \in Where(LoopFrame) /\ <<t, l>> \in Where(LoopFrame)
  BY <1>1 DEF Where, Frames
<1>3. IsFiniteSet(Where(LoopFrame)) /\ Cardinality(Where(LoopFrame)) \in {0, 1}
  BY WhereFinite, Owners DEF Queues
<1>4. Cardinality(Where(LoopFrame)) # 0
  BY <1>2, <1>3, FS_EmptySet
<1>5. PICK x : Where(LoopFrame) = {x}
  BY <1>3, <1>4, FS_Singleton
<1>6. QED
  BY <1>2, <1>5

LEMMA LoopHasQueue ==
  ASSUME TypeOK, IsFiniteSet(Frames), BreakerIsOwned, NEW t \in Threads,
         stack[t] # <<>>, Top(t) \in LoopFrame
  PROVE  breaker # NULL
<1>2. <<t, Len(stack[t])>> \in Where(LoopFrame)
  BY TopWhere DEF TypeOK
<1>3. IsFiniteSet(Where(LoopFrame))
  BY WhereFinite
<1>4. Cardinality(Where(LoopFrame)) # 0
  BY <1>2, <1>3, FS_EmptySet
<1>5. QED
  BY <1>4, Owners DEF Queues, TypeOK

\* A call of lxc_execution_loopbreaker between what it read of LOOP_BREAKER and
\* what it does then: nothing runs above it, and what it read is still so.
Between == {"make", "append", "wipe"}
Fits(f, queue) ==
  /\ f.at = "make" => queue = NULL
  /\ f.at = "append" => queue # NULL
  /\ f.at = "wipe" => queue = <<>>
Deals(s, queue) ==
  \A i \in 1 .. Len(s) : s[i].at \in Between => i = Len(s) /\ Fits(s[i], queue)

\* The one thread that uses LOOP_BREAKER is main.
BreakerInv ==
  /\ BreakerIsOwned
  /\ HasBreaker => NoTasks /\ \A u \in Threads \ {Main} : stack[u] = <<>>
  /\ \A u \in Threads : Deals(stack[u], breaker)

LEMMA DealsStep ==
  ASSUME TypeOK, NEW t \in Threads, stack[t] # <<>>,
         \A u \in Threads : Deals(stack[u], breaker),
         breaker' = breaker \/ \A u \in Threads \ {t} : stack[u] = <<>>,
         \/ Return(t)
         \/ \E f \in Frame : Goto(t, f) /\ Fits(f, breaker')
         \/ \E f \in Frame, c \in Frame :
              CallFrom(t, f, c) /\ f.at \notin Between /\ Fits(c, breaker')
  PROVE  \A u \in Threads : Deals(stack'[u], breaker')
<1> DEFINE n == Len(stack[t])
<1>0. stack \in [Threads -> Seq(Frame)] /\ n \in Nat \ {0}
  BY EndOfSeq DEF TypeOK
<1>1. Keeps(t) /\ Len(stack'[t]) \in Nat
  BY <1>0, OnReturn, OnGoto, OnCall
<1>2. ASSUME NEW u \in Threads \ {t} PROVE Deals(stack'[u], breaker')
  BY <1>1, <1>2 DEF Keeps, Deals
<1>3. ASSUME NEW i \in 1 .. n - 1 PROVE stack'[t][i].at \notin Between
  BY <1>0, <1>1, <1>3 DEF Keeps, Deals
<1>4. Deals(stack'[t], breaker')
  <2>1. CASE Return(t)
    <3>1. Len(stack'[t]) = n - 1
      BY <1>0, <2>1, OnReturn
    <3>2. QED
      BY <1>3, <3>1 DEF Deals
  <2>2. ASSUME NEW f \in Frame, Goto(t, f), Fits(f, breaker')
        PROVE  Deals(stack'[t], breaker')
    <3>1. Len(stack'[t]) = n /\ stack'[t][n] = f
      BY <1>0, <2>2, OnGoto
    <3> HIDE DEF n
    <3>2. QED
      BY <1>0, <1>3, <2>2, <3>1 DEF Deals
  <2>3. ASSUME NEW f \in Frame, NEW c \in Frame, CallFrom(t, f, c),
               f.at \notin Between, Fits(c, breaker')
        PROVE  Deals(stack'[t], breaker')
    <3>1. Len(stack'[t]) = n + 1 /\ stack'[t][n] = f /\ stack'[t][n + 1] = c
      <4>1. stack[t] # <<>> /\ CallFrom(t, f, c)
        BY <2>3
      <4>2. QED
        BY <1>0, <4>1, OnCall
    <3> HIDE DEF n
    <3>2. QED
      BY <1>0, <1>3, <2>3, <3>1 DEF Deals
  <2>4. QED
    BY <2>1, <2>2, <2>3
<1>5. QED
  BY <1>2, <1>4

\* The steps of a call of the loopbreaker, and the others.
AtBreaker(t) ==
  \/ CallBreaker(t) \/ MakeQueue(t) \/ AppendTask(t) \/ LoopExecute(t) \/ LoopNext(t)
  \/ WipeQueue(t) \/ CrashAtQueue(t)

Others == {"call", "run", "write", "notify"}

LEMMA OtherSteps ==
  ASSUME TypeOK, NEW t \in Threads, Step(t), ~AtBreaker(t)
  PROVE  /\ stack[t] # <<>> /\ Top(t) \in Frame /\ Top(t).at \in Others
         /\ breaker' = breaker
         /\ \/ Return(t)
            \/ stack' = stack
            \/ \E f \in Frame : Goto(t, f) /\ f.at \in Others
            \/ \E f \in Frame, c \in Frame :
                 CallFrom(t, f, c) /\ f.at \in Others /\ c.at \in Others
<1>1. CASE CallDefault(t)
  <2>1. Top(t) \in Frame /\ Top(t).at = "call" /\ stack[t] # <<>> /\ breaker' = breaker
    BY <1>1, TopFrame DEF CallDefault
  <2>2. /\ Run(Top(t).gate, Top(t).value) \in Frame
        /\ Run(Top(t).gate, Top(t).value).at = "run"
    BY <2>1, NewFrames DEF Frame, Run, F
  <2>3. QED
    BY <1>1, <2>1, <2>2 DEF CallDefault, Others
<1>2. CASE CallAsync(t)
  BY <1>2, TopFrame DEF CallAsync, Others
<1>3. CASE Execute(t)
  <2> DEFINE g == Top(t).gate
             result == Logic(Kind[g], Vals(g))
             w == Write(g, Output[g], result)
  <2>1. /\ Top(t) \in Frame /\ stack[t] # <<>> /\ Top(t).at = "run" /\ breaker' = breaker
        /\ g \in Gates /\ Kind[g] # "sniffer"
    BY <1>3, TopFrame DEF Execute, Frame
  <2>2. CASE Complete(g) /\ result # NULL /\ Output[g] # NULL
    <3>1. w \in Frame /\ w.at = "write"
      BY <2>1, <2>2, WrittenFrame
    <3>2. Goto(t, w)
      BY <1>3, <2>2 DEF Execute
    <3> HIDE DEF w
    <3>3. QED
      BY <2>1, <3>1, <3>2 DEF Others
  <2>3. CASE ~(Complete(g) /\ result # NULL /\ Output[g] # NULL)
    BY <1>3, <2>1, <2>3 DEF Execute, Others
  <2>4. QED
    BY <2>2, <2>3
<1>4. CASE Sniff(t)
  BY <1>4, TopFrame DEF Sniff, Others
<1>5. CASE WriteWire(t)
  <2> DEFINE f == Notify(Top(t).gate, Top(t).wire, Top(t).value, 1)
  <2>1. /\ Top(t) \in Frame /\ stack[t] # <<>> /\ Top(t).at = "write" /\ breaker' = breaker
        /\ Goto(t, f)
    BY <1>5, TopFrame DEF WriteWire
  <2>2. f \in Frame /\ f.at = "notify"
    BY <2>1 DEF Notify, F, Frame
  <2>3. QED
    BY <2>1, <2>2 DEF Others
<1>6. CASE NotifyNext(t)
  <2> DEFINE f == Top(t)
             p == Drivens[f.wire][f.next]
             rest == Notify(f.gate, f.wire, f.value, f.next + 1)
             c == Call(p[1], f.value)
  <2>1. f \in Frame /\ stack[t] # <<>> /\ f.at = "notify" /\ More(f) /\ breaker' = breaker
    BY <1>6, TopFrame DEF NotifyNext
  <2>2. rest \in Frame /\ rest.at = "notify" /\ f.value \in Value
    BY <2>1 DEF Notify, F, Frame
  <2>3. c \in Frame /\ c.at = "call"
    BY <2>1, <2>2, DrivenPort, NewFrames DEF Call, F
  <2>4. CallFrom(t, rest, c) \/ Goto(t, rest)
    BY <1>6 DEF NotifyNext
  <2> HIDE DEF rest, c
  <2>5. QED
    BY <2>1, <2>2, <2>3, <2>4 DEF Others
<1>7. CASE NotifyDone(t)
  BY <1>7, TopFrame DEF NotifyDone, Others
<1>8. QED
  BY <1>1, <1>2, <1>3, <1>4, <1>5, <1>6, <1>7 DEF Step, AtBreaker

\* The steps of the loopbreaker's calls on the stack.
LEMMA BreakerSteps ==
  ASSUME TypeOK, NEW t \in Threads, AtBreaker(t)
  PROVE  /\ stack[t] # <<>> /\ Top(t) \in Frame /\ HasBreaker
         /\ program' \in {program, "aborted"}
         /\ \/ Return(t)
            \/ stack' = stack
            \/ \E f \in Frame : Goto(t, f)
            \/ \E f \in Frame, c \in Frame : CallFrom(t, f, c)
<1>1. CASE CallBreaker(t)
  BY <1>1, BreakerFrame, TopFrame DEF CallBreaker
<1>2. CASE MakeQueue(t)
  <2>1. Top(t) \in Frame /\ Top(t).at = "make" /\ stack[t] # <<>>
    BY <1>2, TopFrame DEF MakeQueue
  <2>2. HasBreaker /\ Loop(Top(t).gate, Top(t).value) \in Frame
    BY <2>1, NewFrames DEF Frame
  <2>3. QED
    BY <1>2, <2>1, <2>2 DEF MakeQueue
<1>3. CASE AppendTask(t)
  BY <1>3, TopFrame DEF AppendTask, Frame
<1>4. CASE LoopExecute(t)
  <2>1. /\ Top(t) \in Frame /\ stack[t] # <<>> /\ Top(t).gate \in Gates /\ Top(t).at = "loop"
    BY <1>4, TopFrame DEF LoopExecute, Frame
  <2>2. HasBreaker /\ Loop(NULL, NULL) \in Frame /\ Run(Top(t).gate, Top(t).value) \in Frame
    BY <2>1, NewFrames DEF Frame
  <2>3. QED
    BY <1>4, <2>1, <2>2 DEF LoopExecute
<1>5. CASE LoopNext(t)
  <2>1. Top(t) \in Frame /\ stack[t] # <<>> /\ Top(t).at = "loop" /\ HasBreaker
    BY <1>5, TopFrame DEF LoopNext, Frame
  <2>2. Wipe \in Frame
    BY <2>1, NewFrames DEF HasBreaker, Value
  <2>3. QED
    BY <1>5, <2>1, <2>2, PoppedFrame DEF LoopNext
<1>6. CASE WipeQueue(t)
  BY <1>6, TopFrame DEF WipeQueue, Frame
<1>7. CASE CrashAtQueue(t)
  BY <1>7, TopFrame DEF CrashAtQueue, Frame
<1>8. QED
  BY <1>1, <1>2, <1>3, <1>4, <1>5, <1>6, <1>7 DEF AtBreaker

LEMMA FiniteStep ==
  ASSUME TypeOK, IsFiniteSet(Frames), NEW t \in Threads, Step(t)
  PROVE  /\ TypeOK' /\ IsFiniteSet(Frames') /\ circuit' = circuit
         /\ stack' \in [Threads -> Seq(Frame)] /\ stack[t] # <<>>
<1>1. circuit' = circuit
  BY DEF Step, CallDefault, CallBreaker, CallAsync, MakeQueue, AppendTask, LoopExecute,
     LoopNext, WipeQueue, CrashAtQueue, Execute, Sniff, WriteWire, NotifyNext, NotifyDone
<1>2. TypeOK'
  BY TypeStep
<1>3. stack \in [Threads -> Seq(Frame)] /\ stack' \in [Threads -> Seq(Frame)]
  BY <1>1, <1>2, SameCircuit DEF TypeOK, Threads
<1>4. /\ stack[t] # <<>>
      /\ \/ Return(t)
         \/ stack' = stack
         \/ \E f \in Frame : Goto(t, f)
         \/ \E f \in Frame, c \in Frame : CallFrom(t, f, c)
  BY OtherSteps, BreakerSteps
<1>5. IsFiniteSet(Frames')
  <2>1. CASE stack' = stack
    BY <2>1 DEF Frames, Threads
  <2>2. CASE Return(t)
    BY <1>3, <1>4, <2>2, CountReturn
  <2>3. ASSUME NEW f \in Frame, Goto(t, f) PROVE IsFiniteSet(Frames')
    BY <1>3, <1>4, <2>3, CountGoto
  <2>4. ASSUME NEW f \in Frame, NEW c \in Frame, CallFrom(t, f, c) PROVE IsFiniteSet(Frames')
    BY <1>3, <1>4, <2>4, CountCall
  <2>5. QED
    BY <1>4, <2>1, <2>2, <2>3, <2>4
<1>6. QED
  BY <1>1, <1>2, <1>3, <1>4, <1>5

\* What main's steps at LOOP_BREAKER do to its owner.
LEMMA OwnerStep ==
  ASSUME TypeOK, IsFiniteSet(Frames), BreakerInv, NEW t \in Threads, Step(t)
  PROVE  BreakerIsOwned' /\ \A u \in Threads : Deals(stack'[u], breaker')
<1>1. /\ stack \in [Threads -> Seq(Frame)] /\ stack' \in [Threads -> Seq(Frame)]
      /\ stack[t] # <<>>
  BY FiniteStep DEF TypeOK
<1> DEFINE old == Cardinality(Where(LoopFrame))
           new == Cardinality(WhereNext(LoopFrame))
           Good == BreakerIsOwned' /\ \A u \in Threads : Deals(stack'[u], breaker')
<1>2. /\ old \in Nat /\ old = Queues /\ \A u \in Threads : Deals(stack[u], breaker)
      /\ BreakerIsOwned
  BY <1>1, WhereFinite, Owners DEF BreakerInv
<1>3. ASSUME breaker' = breaker \/ \A u \in Threads \ {t} : stack[u] = <<>>,
             Top(t) \in Frame, Return(t), Queues' = Queues - Bit(Top(t), LoopFrame)
      PROVE  Good
  <2>1. new = old - Bit(Top(t), LoopFrame)
    BY <1>1, <1>3, CountReturn
  <2>2. \A u \in Threads : Deals(stack'[u], breaker')
    BY <1>1, <1>2, <1>3, DealsStep
  <2>3. QED
    BY <1>1, <1>2, <1>3, <2>1, <2>2, OwnersNext
<1>4. ASSUME breaker' = breaker \/ \A u \in Threads \ {t} : stack[u] = <<>>,
             Top(t) \in Frame, NEW f \in Frame, Goto(t, f), Fits(f, breaker'),
             Queues' = Queues - Bit(Top(t), LoopFrame) + Bit(f, LoopFrame)
      PROVE  Good
  <2>1. new = old - Bit(Top(t), LoopFrame) + Bit(f, LoopFrame)
    BY <1>1, <1>4, CountGoto
  <2>2. \A u \in Threads : Deals(stack'[u], breaker')
    BY <1>1, <1>2, <1>4, DealsStep
  <2>3. QED
    BY <1>1, <1>2, <1>4, <2>1, <2>2, OwnersNext
<1>5. ASSUME Top(t) \in Frame, NEW f \in Frame, NEW c \in Frame, CallFrom(t, f, c),
             f.at \notin Between, c.at \notin Between \cup {"loop"},
             f.at = "loop" <=> Top(t).at \in {"loop", "wipe"}, breaker' = breaker
      PROVE  Good
  <2>1. /\ Bit(Top(t), LoopFrame) = Bit(f, LoopFrame) /\ Bit(c, LoopFrame) = 0
        /\ Bit(f, LoopFrame) \in Nat /\ Queues' = Queues /\ Fits(c, breaker')
    BY <1>5 DEF Bit, LoopFrame, Queues, Fits, Between
  <2>2. \A P : Cardinality(WhereNext(P)) =
                 Cardinality(Where(P)) - Bit(Top(t), P) + Bit(f, P) + Bit(c, P)
    <3>1. stack[t] # <<>> /\ CallFrom(t, f, c)
      BY <1>1, <1>5
    <3>2. QED
      BY <1>1, <3>1, CountCall
  <2>3. new = old - Bit(Top(t), LoopFrame) + Bit(f, LoopFrame) + Bit(c, LoopFrame)
    BY <2>2
  <2>4. \A u \in Threads : Deals(stack'[u], breaker')
    BY <1>1, <1>2, <1>5, <2>1, DealsStep
  <2>5. QED
    BY <1>1, <1>2, <2>1, <2>3, <2>4, OwnersNext
<1>6. ASSUME stack' = stack, breaker' = breaker PROVE Good
  BY <1>1, <1>2, <1>6 DEF BreakerIsOwned, Frames, Threads
<1>7. CASE ~AtBreaker(t)
  <2>1. Top(t) \in Frame /\ Top(t).at \in Others /\ breaker' = breaker
    BY <1>7, OtherSteps
  <2>2. Bit(Top(t), LoopFrame) = 0 /\ Queues' = Queues /\ Queues \in {0, 1}
    BY <2>1 DEF Others, Bit, LoopFrame, Queues
  <2>3. CASE Return(t)
    BY <1>3, <2>1, <2>2, <2>3
  <2>4. ASSUME NEW f \in Frame, Goto(t, f), f.at \in Others PROVE Good
    <3>1. Bit(f, LoopFrame) = 0 /\ Fits(f, breaker')
      BY <2>4 DEF Others, Bit, LoopFrame, Fits
    <3>2. QED
      BY <1>4, <2>1, <2>2, <2>4, <3>1
  <2>5. ASSUME NEW f \in Frame, NEW c \in Frame, CallFrom(t, f, c), f.at \in Others, c.at \in Others
        PROVE  Good
    BY <1>5, <2>1, <2>5 DEF Others, Between
  <2>6. QED
    BY <1>6, <1>7, <2>1, <2>3, <2>4, <2>5, OtherSteps
<1>8. CASE AtBreaker(t)
  <2>0. /\ HasBreaker /\ t = Main /\ Top(t) \in Frame
        /\ \A u \in Threads \ {t} : stack[u] = <<>>
    BY <1>1, <1>8, BreakerSteps DEF BreakerInv
  <2>1. Deals(stack[t], breaker) /\ Top(t) = stack[t][Len(stack[t])] /\ Len(stack[t]) \in Nat \ {0}
    BY <1>1, <1>2, EndOfSeq DEF Top
  <2>2. Top(t).at \in Between => Fits(Top(t), breaker)
    BY <2>1 DEF Deals
  <2>3. Top(t) \in LoopFrame => breaker # NULL
    BY <1>1, <1>2, LoopHasQueue
  <2>4. CASE CallBreaker(t)
    <3>1. Top(t).at = "call" /\ breaker' = breaker
      BY <2>4, TopFrame DEF CallBreaker
    <3>2. PICK f \in Frame : Goto(t, f) /\ f.at = (IF IsFirstCall THEN "make" ELSE "append")
      BY <2>4, BreakerFrame
    <3>3. /\ Fits(f, breaker') /\ Bit(f, LoopFrame) = 0 /\ Bit(Top(t), LoopFrame) = 0
          /\ Queues' = Queues /\ Queues \in {0, 1}
      BY <3>1, <3>2 DEF Fits, IsFirstCall, Bit, LoopFrame, Queues
    <3>4. QED
      BY <1>4, <2>0, <3>2, <3>3
  <2>5. CASE MakeQueue(t)
    <3>1. /\ Top(t).at = "make" /\ breaker' = <<>> /\ Goto(t, Loop(Top(t).gate, Top(t).value))
          /\ Top(t).gate \in Gates /\ Top(t).value \in Value
      BY <2>0, <2>5, TopFrame DEF MakeQueue, Frame
    <3>2. /\ Loop(Top(t).gate, Top(t).value) \in Frame
          /\ Loop(Top(t).gate, Top(t).value).at = "loop"
      BY <2>0, <3>1, NewFrames DEF Loop, F
    <3>3. breaker = NULL /\ breaker' # NULL
      <4>1. <<>> \in Seq(Gates \X Value)
        OBVIOUS
      <4>2. QED
        BY <2>2, <3>1, <4>1, Wired DEF Between, Fits
    <3>4. /\ Bit(Top(t), LoopFrame) = 0 /\ Bit(Loop(Top(t).gate, Top(t).value), LoopFrame) = 1
          /\ Queues = 0 /\ Queues' = 1 /\ Fits(Loop(Top(t).gate, Top(t).value), breaker')
      BY <3>1, <3>2, <3>3 DEF Bit, LoopFrame, Queues, Fits
    <3>5. QED
      BY <1>4, <2>0, <3>1, <3>2, <3>4
  <2>6. CASE AppendTask(t)
    <3>1. Top(t).at = "append" /\ breaker # NULL /\ Return(t)
      BY <2>6, TopFrame DEF AppendTask
    <3>2. breaker' # NULL
      BY <2>6, QueueGrows, Wired
    <3>3. Bit(Top(t), LoopFrame) = 0 /\ Queues = 1 /\ Queues' = 1
      BY <3>1, <3>2 DEF Bit, LoopFrame, Queues
    <3>4. QED
      BY <1>3, <2>0, <3>1, <3>3
  <2>7. CASE LoopExecute(t)
    <3>1. Top(t).at = "loop" /\ Top(t).gate \in Gates /\ breaker' = breaker
      BY <2>0, <2>7, TopFrame DEF LoopExecute, Frame
    <3>2. /\ Loop(NULL, NULL) \in Frame /\ Loop(NULL, NULL).at = "loop"
          /\ Run(Top(t).gate, Top(t).value) \in Frame
          /\ Run(Top(t).gate, Top(t).value).at = "run"
      BY <2>0, <3>1, NewFrames DEF Frame, Loop, Run, F
    <3>3. CASE IsEnabled(Top(t).gate)
      <4>1. CallFrom(t, Loop(NULL, NULL), Run(Top(t).gate, Top(t).value))
        BY <2>7, <3>3 DEF LoopExecute
      <4>2. QED
        BY <1>5, <2>0, <3>1, <3>2, <4>1 DEF Between
    <3>4. CASE ~IsEnabled(Top(t).gate)
      <4>1. Goto(t, Loop(NULL, NULL))
        BY <2>7, <3>4 DEF LoopExecute
      <4>2. /\ Bit(Top(t), LoopFrame) = 1 /\ Bit(Loop(NULL, NULL), LoopFrame) = 1
            /\ Queues' = Queues /\ Queues \in {0, 1} /\ Fits(Loop(NULL, NULL), breaker')
        BY <2>0, <3>1, <3>2 DEF Bit, LoopFrame, Queues, Fits
      <4>3. QED
        BY <1>4, <2>0, <3>1, <3>2, <4>1, <4>2
    <3>5. QED
      BY <3>3, <3>4
  <2>8. CASE LoopNext(t)
    <3>1. Top(t).at = "loop" /\ breaker # NULL /\ Bit(Top(t), LoopFrame) = 1 /\ Queues = 1
      BY <2>0, <2>8, TopFrame DEF LoopNext, Bit, LoopFrame, Queues
    <3>2. CASE breaker = <<>>
      <4>1. Goto(t, Wipe) /\ breaker' = breaker /\ Wipe.at = "wipe" /\ Wipe \in Frame
        BY <2>0, <2>8, <3>2, NewFrames DEF LoopNext, Wipe, F, HasBreaker, Value
      <4>2. Bit(Wipe, LoopFrame) = 1 /\ Queues' = 1 /\ Fits(Wipe, breaker')
        BY <3>1, <3>2, <4>1 DEF Bit, LoopFrame, Queues, Fits
      <4>3. QED
        BY <1>4, <2>0, <3>1, <4>1, <4>2
    <3>3. CASE breaker # <<>>
      <4> DEFINE f == Loop(Head(breaker)[1], Head(breaker)[2])
      <4>1. f \in Frame /\ f.at = "loop" /\ Tail(breaker) \in Seq(Gates \X Value)
        BY <2>0, <3>1, <3>3, PoppedFrame
      <4>2. Goto(t, f) /\ breaker' = Tail(breaker) /\ breaker' # NULL
        BY <2>8, <3>3, <4>1, Wired DEF LoopNext, Popped
      <4> HIDE DEF f
      <4>3. Bit(f, LoopFrame) = 1 /\ Queues' = 1 /\ Fits(f, breaker')
        BY <4>1, <4>2 DEF Bit, LoopFrame, Queues, Fits
      <4>4. QED
        BY <1>4, <2>0, <3>1, <4>1, <4>2, <4>3
    <3>4. QED
      BY <3>2, <3>3
  <2>9. CASE WipeQueue(t)
    <3>1. Top(t).at = "wipe" /\ breaker' = NULL /\ Return(t)
      BY <2>9, TopFrame DEF WipeQueue
    <3>2. Bit(Top(t), LoopFrame) = 1 /\ Queues = 1 /\ Queues' = 0
      BY <2>0, <2>3, <3>1 DEF Bit, LoopFrame, Queues
    <3>3. QED
      BY <1>3, <2>0, <3>1, <3>2
  <2>10. CASE CrashAtQueue(t)
    BY <1>6, <2>10 DEF CrashAtQueue
  <2>11. QED
    BY <1>8, <2>4, <2>5, <2>6, <2>7, <2>8, <2>9, <2>10 DEF AtBreaker
<1>9. QED
  BY <1>7, <1>8

\* A task of the pool begins.
LEMMA TaskBegins ==
  ASSUME TypeOK, NEW t \in Workers, NEW g \in Gates, TakeTask(t, g)
  PROVE  /\ TypeOK' /\ t \in Threads /\ stack[t] = <<>> /\ tasks[g] > 0
         /\ Run(g, NULL) \in Frame
         /\ IF IsEnabled(g) THEN stack' = [stack EXCEPT ![t] = <<Run(g, NULL)>>]
                            ELSE stack' = stack
<1>1. t \in Threads /\ stack[t] = <<>> /\ circuit' = circuit
  BY DEF Threads, TakeTask
<1>2. Run(g, NULL) \in Frame
  BY NewFrames DEF Value
<1>3. IF IsEnabled(g) THEN stack' = [stack EXCEPT ![t] = <<Run(g, NULL)>>]
                      ELSE stack' = stack
  <2>1. CASE IsEnabled(g)
    BY <2>1 DEF TakeTask
  <2>2. CASE ~IsEnabled(g)
    BY <1>1, <2>2 DEF TakeTask, TypeOK
  <2>3. QED
    BY <2>1, <2>2
<1>4. stack' \in [Threads -> Seq(Frame)]
  <2>1. <<Run(g, NULL)>> \in Seq(Frame) /\ stack \in [Threads -> Seq(Frame)]
    BY <1>2 DEF TypeOK
  <2>2. QED
    BY <1>1, <1>3, <2>1
<1>5. tasks[g] > 0 /\ tasks[g] \in Nat
  BY DEF TakeTask, HasTask, TypeOK
<1>6. tasks' \in [Gates -> Nat]
  BY <1>5 DEF TakeTask, Taken, TypeOK
<1>7. TypeOK'
  BY <1>1, <1>4, <1>6, SameCircuit DEF TypeOK, TakeTask, Threads
<1>8. QED
  BY <1>1, <1>2, <1>3, <1>5, <1>7

\* What main begins, with an empty stack.
LEMMA MainBegins ==
  ASSUME TypeOK, stack[Main] = <<>>,
         \/ StartOscillator /\ Start \in Gates
         \/ \E w \in Stimuli, v \in BOOLEAN : DriveWire(w, v)
  PROVE  /\ TypeOK'
         /\ \E f \in Frame : f.at \in {"call", "write"} /\ stack' = [stack EXCEPT ![Main] = <<f>>]
<1>1. circuit' = circuit
  BY DEF StartOscillator, DriveWire
<1>2. \E f \in Frame : f.at \in {"call", "write"} /\ stack' = [stack EXCEPT ![Main] = <<f>>]
  <2>1. ASSUME StartOscillator, Start \in Gates
        PROVE  Call(Start, NULL) \in Frame /\ Call(Start, NULL).at \in {"call", "write"}
    BY <2>1, NewFrames DEF Value, Call, F
  <2>2. ASSUME NEW w \in Stimuli, NEW v \in BOOLEAN
        PROVE  Write(NULL, w, v) \in Frame /\ Write(NULL, w, v).at \in {"call", "write"}
    BY Wired DEF Write, F, Frame, Value
  <2>3. QED
    BY <2>1, <2>2 DEF StartOscillator, DriveWire
<1>3. stack' \in [Threads -> Seq(Frame)]
  <2>1. PICK f \in Frame : stack' = [stack EXCEPT ![Main] = <<f>>]
    BY <1>2
  <2>2. <<f>> \in Seq(Frame)
    OBVIOUS
  <2>3. QED
    BY <2>1, <2>2 DEF TypeOK
<1>4. QED
  BY <1>1, <1>2, <1>3, SameCircuit DEF TypeOK, StartOscillator, DriveWire, Threads

\* The base of the other proofs: types, the owner of the queue, and what the
\* program has done before it starts and after it has shut the pool down.
BaseInv ==
  /\ TypeOK /\ IsFiniteSet(Frames)
  /\ BreaksInOneThread(circuit) => BreakerInv
  /\ program = "start" => Start # NULL /\ Idle /\ breaker = NULL
  /\ program \in {"shut", "destroyed"} => Start # NULL /\ MainReturned
  /\ program = "destroyed" => Idle

\* A frame other than one of the loopbreaker begins a stack.
LEMMA OwnerBegins ==
  ASSUME stack \in [Threads -> Seq(Frame)], IsFiniteSet(Frames),
         circuit' = circuit, breaker' = breaker,
         NEW t \in Threads, stack[t] = <<>>, NEW f \in Frame, f.at \in Others,
         stack' = [stack EXCEPT ![t] = <<f>>]
  PROVE  /\ IsFiniteSet(Frames')
         /\ BreakerIsOwned => BreakerIsOwned'
         /\ (\A u \in Threads : Deals(stack[u], breaker)) =>
              \A u \in Threads : Deals(stack'[u], breaker')
<1>1. /\ stack' \in [Threads -> Seq(Frame)] /\ IsFiniteSet(Frames')
      /\ \A P : Cardinality(WhereNext(P)) = Cardinality(Where(P)) + Bit(f, P)
  BY CountBegins
<1>2. Bit(f, LoopFrame) = 0 /\ Queues' = Queues
  BY DEF Bit, LoopFrame, Queues, Others
<1>3. Cardinality(Where(LoopFrame)) \in Nat
  BY WhereFinite
<1>4. BreakerIsOwned => BreakerIsOwned'
  BY <1>1, <1>2, <1>3, Owners, OwnersNext
<1>5. ASSUME NEW u \in Threads, Deals(stack[u], breaker) PROVE Deals(stack'[u], breaker')
  <2>1. CASE u = t
    <3>1. stack'[u] = <<f>> /\ Len(<<f>>) = 1 /\ <<f>>[1] = f
      BY <2>1
    <3>2. QED
      BY <3>1 DEF Deals, Others, Between
  <2>2. CASE u # t
    BY <1>5, <2>2
  <2>3. QED
    BY <2>1, <2>2
<1>6. QED
  BY <1>1, <1>4, <1>5

LEMMA OthersStay ==
  ASSUME stack \in [Threads -> Seq(Frame)], NEW t \in Threads, Step(t)
  PROVE  \A u \in Threads \ {t} : stack'[u] = stack[u]
BY DEF Step, CallDefault, CallBreaker, CallAsync, MakeQueue, AppendTask, LoopExecute,
   LoopNext, WipeQueue, CrashAtQueue, Execute, Sniff, WriteWire, NotifyNext, NotifyDone,
   Goto, Return, CallFrom

\* No step but an asynchronous call submits a task.
LEMMA StepTasks ==
  ASSUME TypeOK, NEW t \in Threads, Step(t)
  PROVE  /\ tasks' = tasks \/ \E g \in Gates : Behavior[g] = "async"
         /\ program' \in {program, "aborted"} /\ program # "destroyed"
<1>1. CASE CallAsync(t)
  <2>1. Top(t).gate \in Gates
    BY <1>1, TopFrame DEF CallAsync, Frame
  <2>2. QED
    BY <1>1, <2>1 DEF CallAsync, Step
<1>2. CASE ~CallAsync(t)
  BY <1>2 DEF Step, CallDefault, CallBreaker, MakeQueue, AppendTask, LoopExecute,
     LoopNext, WipeQueue, CrashAtQueue, Execute, Sniff, WriteWire, NotifyNext, NotifyDone
<1>3. QED
  BY <1>1, <1>2

\* Main stays the one thread at LOOP_BREAKER.
LEMMA BreakerStep ==
  ASSUME TypeOK, IsFiniteSet(Frames), BreaksInOneThread(circuit), BreakerInv,
         NEW t \in Threads, Step(t)
  PROVE  BreakerInv'
<1>1. BreakerIsOwned' /\ \A u \in Threads : Deals(stack'[u], breaker')
  BY OwnerStep
<1>2. circuit' = circuit /\ stack \in [Threads -> Seq(Frame)]
  BY FiniteStep DEF TypeOK
<1>3. ASSUME HasBreaker
      PROVE  NoTasks' /\ \A u \in Threads \ {Main} : stack'[u] = <<>>
  <2>1. \A g \in Gates : Behavior[g] # "async"
    BY <1>3 DEF HasBreaker, BreaksInOneThread, Gates, Behavior
  <2>2. NoTasks /\ \A u \in Threads \ {Main} : stack[u] = <<>>
    BY <1>3 DEF BreakerInv
  <2>3. tasks' = tasks /\ t = Main
    BY <2>1, <2>2, StepTasks, FiniteStep
  <2>4. \A u \in Threads \ {Main} : stack'[u] = <<>>
    BY <1>2, <2>2, <2>3, OthersStay
  <2>5. NoTasks'
    BY <1>2, <2>2, <2>3 DEF NoTasks, Gates
  <2>6. QED
    BY <2>4, <2>5
<1>4. HasBreaker' = HasBreaker
  BY <1>2 DEF HasBreaker, Gates, Behavior
<1>5. QED
  BY <1>1, <1>3, <1>4 DEF BreakerInv, Threads

\* A step of the program that leaves the stacks.
LEMMA BreakerSame ==
  ASSUME BreakerInv, circuit' = circuit, stack' = stack, breaker' = breaker, tasks' = tasks
  PROVE  BreakerInv' /\ Frames' = Frames
<1>1. Frames' = Frames /\ HasBreaker' = HasBreaker /\ Gates' = Gates
  BY DEF Frames, Threads, HasBreaker, Gates, Behavior
<1>2. BreakerIsOwned'
  BY <1>1 DEF BreakerInv, BreakerIsOwned
<1>3. QED
  BY <1>1, <1>2 DEF BreakerInv, NoTasks, Threads

LEMMA Base == Spec => []BaseInv
<1>1. Init => BaseInv
  <2> SUFFICES ASSUME Init PROVE BaseInv
    OBVIOUS
  <2>1. TypeOK
    <3>1. stack \in [Threads -> Seq(Frame)]
      BY DEF Init
    <3>2. circuit \in Circuits /\ NULL \in Value /\ FALSE \in Value
      BY DEF Init, Value
    <3>3. value \in [Wires -> Value] /\ tokens \in [Ports -> Value]
      BY <3>2 DEF Init
    <3>4. QED
      BY <3>1, <3>2, <3>3 DEF Init, TypeOK
  <2>2. Frames = {}
    BY DEF Init, Frames
  <2>3. IsFiniteSet(Frames) /\ BreakerIsOwned
    <3>1. {f \in Frames : stack[f[1]][f[2]].at \in {"loop", "wipe"}} = {}
      BY <2>2
    <3>2. QED
      BY <2>2, <3>1, FS_EmptySet DEF BreakerIsOwned, Init
  <2>4. BreakerInv
    BY <2>3 DEF BreakerInv, Init, NoTasks, Deals
  <2>5. QED
    BY <2>1, <2>3, <2>4 DEF BaseInv, Init, Idle, NoTasks
<1>2. BaseInv /\ [Next]_vars => BaseInv'
  <2> SUFFICES ASSUME BaseInv, [Next]_vars PROVE BaseInv'
    OBVIOUS
  <2> USE DEF BaseInv
  <2>0. stack \in [Threads -> Seq(Frame)] /\ Main \in Threads /\ Workers \subseteq Threads
    BY DEF TypeOK, Threads
  <2>1. ASSUME TypeOK', stack[Main] = <<>>,
               NEW f \in Frame, f.at \in Others, stack' = [stack EXCEPT ![Main] = <<f>>],
               circuit' = circuit, breaker' = breaker, tasks' = tasks
        PROVE  IsFiniteSet(Frames') /\ (BreaksInOneThread(circuit') => BreakerInv')
    <3>1. /\ IsFiniteSet(Frames') /\ (BreakerIsOwned => BreakerIsOwned')
          /\ (\A u \in Threads : Deals(stack[u], breaker)) =>
               \A u \in Threads : Deals(stack'[u], breaker')
      BY <2>0, <2>1, OwnerBegins
    <3>2. \A u \in Threads \ {Main} : stack'[u] = stack[u]
      BY <2>0, <2>1
    <3>3. HasBreaker' = HasBreaker /\ NoTasks' = NoTasks
      BY <2>1 DEF HasBreaker, NoTasks, Gates, Behavior
    <3>4. QED
      BY <2>1, <3>1, <3>2, <3>3 DEF BreakerInv, Threads
  <2>2. CASE StartOscillator
    <3>1. Start \in Gates /\ stack[Main] = <<>>
      BY <2>0, <2>2, Wired DEF StartOscillator, Idle
    <3>2. TypeOK' /\ \E f \in Frame : f.at \in Others /\ stack' = [stack EXCEPT ![Main] = <<f>>]
      BY <2>2, <3>1, MainBegins DEF Others
    <3>3. IsFiniteSet(Frames') /\ (BreaksInOneThread(circuit') => BreakerInv')
      BY <2>1, <2>2, <3>1, <3>2 DEF StartOscillator
    <3>4. QED
      BY <2>2, <3>2, <3>3 DEF StartOscillator
  <2>3. ASSUME NEW w \in Stimuli, NEW v \in BOOLEAN, DriveWire(w, v) PROVE BaseInv'
    <3>1. Start = NULL /\ stack[Main] = <<>> /\ circuit' = circuit /\ program' = program
      BY <2>3 DEF DriveWire, MainReturned
    <3>2. TypeOK' /\ \E f \in Frame : f.at \in Others /\ stack' = [stack EXCEPT ![Main] = <<f>>]
      BY <2>3, <3>1, MainBegins DEF Others
    <3>3. IsFiniteSet(Frames') /\ (BreaksInOneThread(circuit') => BreakerInv')
      BY <2>1, <2>3, <3>1, <3>2 DEF DriveWire
    <3>4. program \notin {"start", "shut", "destroyed"}
      <4>1. program = "destroyed" => FALSE
        BY <3>1
      <4>2. QED
        BY <3>1, <4>1
    <3>5. QED
      BY <3>1, <3>2, <3>3, <3>4
  <2>4. ASSUME circuit' = circuit, stack' = stack, breaker' = breaker, tasks' = tasks
        PROVE  IsFiniteSet(Frames') /\ (BreaksInOneThread(circuit') => BreakerInv')
    <3>1. Frames' = Frames
      BY <2>4 DEF Frames, Threads
    <3>2. QED
      BY <2>4, <3>1, BreakerSame
  <2>5. ASSUME NEW g \in Gates, DisableGate(g) PROVE BaseInv'
    <3>1. TypeOK'
      BY <2>5, SameCircuit DEF DisableGate, TypeOK, Threads
    <3>2. IsFiniteSet(Frames') /\ (BreaksInOneThread(circuit') => BreakerInv')
      BY <2>4, <2>5 DEF DisableGate
    <3>3. QED
      BY <2>5, <3>1, <3>2, SameCircuit DEF DisableGate, Idle, NoTasks, MainReturned, Start, Threads
  <2>6. CASE ShutdownPool
    <3>1. TypeOK'
      BY <2>6, SameCircuit DEF ShutdownPool, TypeOK, Threads
    <3>2. IsFiniteSet(Frames') /\ (BreaksInOneThread(circuit') => BreakerInv')
      BY <2>4, <2>6 DEF ShutdownPool
    <3>3. QED
      BY <2>6, <3>1, <3>2 DEF ShutdownPool, MainReturned, Start
  <2>7. CASE DestroyCircuit
    <3>1. TypeOK'
      BY <2>7, SameCircuit DEF DestroyCircuit, TypeOK, Threads
    <3>2. IsFiniteSet(Frames') /\ (BreaksInOneThread(circuit') => BreakerInv')
      BY <2>4, <2>7 DEF DestroyCircuit
    <3>3. Idle
      BY <2>7 DEF DestroyCircuit, PoolExited, Idle, MainReturned, Threads
    <3>4. QED
      BY <2>7, <3>1, <3>2, <3>3, SameCircuit
      DEF DestroyCircuit, Idle, NoTasks, MainReturned, Start, Threads
  <2>8. ASSUME NEW t \in Threads, Step(t) PROVE BaseInv'
    <3>1. TypeOK' /\ IsFiniteSet(Frames') /\ circuit' = circuit /\ stack[t] # <<>>
      BY <2>8, FiniteStep
    <3>2. BreaksInOneThread(circuit') => BreakerInv'
      BY <2>8, <3>1, BreakerStep
    <3>3. program' \in {program, "aborted"} /\ program # "destroyed"
      BY <2>8, StepTasks
    <3>4. program # "start"
      BY <3>1 DEF Idle
    <3>5. ASSUME program = "shut" PROVE MainReturned'
      <4>1. stack'[Main] = stack[Main]
        BY <2>0, <2>8, <3>1, <3>5, OthersStay DEF MainReturned
      <4>2. QED
        BY <3>5, <4>1 DEF MainReturned
    <3>6. QED
      BY <3>1, <3>2, <3>3, <3>4, <3>5 DEF Start
  <2>9. ASSUME NEW t \in Workers, NEW g \in Gates, TakeTask(t, g) PROVE BaseInv'
    <3>1. TypeOK' /\ stack[t] = <<>> /\ tasks[g] > 0 /\ t \in Threads /\ t # Main
      BY <2>9, TaskBegins, PropagationAssumption
    <3>2. program # "start" /\ program # "destroyed" /\ program' = program /\ circuit' = circuit
          /\ breaker' = breaker
      BY <2>9, <3>1 DEF TakeTask, Idle, NoTasks
    <3>3. stack'[Main] = stack[Main]
      BY <2>0, <2>9, <3>1 DEF TakeTask
    <3>4. /\ IsFiniteSet(Frames') /\ (BreakerIsOwned => BreakerIsOwned')
          /\ (\A u \in Threads : Deals(stack[u], breaker)) =>
               \A u \in Threads : Deals(stack'[u], breaker')
      <4>1. CASE IsEnabled(g)
        <5>1. Run(g, NULL) \in Frame /\ stack' = [stack EXCEPT ![t] = <<Run(g, NULL)>>]
          BY <2>9, <4>1, TaskBegins
        <5>2. Run(g, NULL).at \in Others
          BY DEF Run, F, Others
        <5>3. QED
          BY <2>0, <3>1, <3>2, <5>1, <5>2, OwnerBegins
      <4>2. CASE ~IsEnabled(g)
        <5>1. stack' = stack
          BY <2>9, <4>2, TaskBegins
        <5>2. QED
          BY <3>2, <5>1 DEF BreakerIsOwned, Frames, Threads
      <4>3. QED
        BY <4>1, <4>2
    \* A circuit with the loopbreaker has no task to take.
    <3>5. ASSUME BreaksInOneThread(circuit) PROVE BreakerInv'
      <4>1. ~HasBreaker /\ HasBreaker' = HasBreaker
        BY <3>1, <3>2, <3>5 DEF BreakerInv, NoTasks, HasBreaker, Gates, Behavior
      <4>2. QED
        BY <3>4, <3>5, <4>1 DEF BreakerInv, Threads
    <3>6. QED
      BY <3>1, <3>2, <3>3, <3>4, <3>5 DEF MainReturned, Start
  <2>10. CASE UNCHANGED vars
    <3>1. TypeOK'
      BY <2>10, SameCircuit DEF vars, TypeOK, Threads
    <3>2. IsFiniteSet(Frames') /\ (BreaksInOneThread(circuit') => BreakerInv')
      BY <2>4, <2>10 DEF vars
    <3>3. QED
      BY <2>10, <3>1, <3>2, SameCircuit DEF vars, Idle, NoTasks, MainReturned, Start, Threads
  <2>11. QED
    BY <2>2, <2>3, <2>5, <2>6, <2>7, <2>8, <2>9, <2>10 DEF Next
<1>3. QED
  BY <1>1, <1>2, PTL DEF Spec

\* Every variable keeps its type, whatever the circuit: no frame but that of a
\* write or of its notification has a wire, and it is the output of the gate
\* whose write it is.
THEOREM TypeCorrect == Spec => []TypeOK
BY Base, PTL DEF BaseInv

\* For any circuits in which tasks of the pool do not meet the loopbreaker, as in
\* the programs, LOOP_BREAKER is there exactly while one call empties its queue,
\* though nothing locks it (lxc_execution_loopbreaker).
THEOREM QueueHasOneOwner ==
  ASSUME \A c \in Circuits : BreaksInOneThread(c)
  PROVE  Spec => []BreakerIsOwned
<1>1. BaseInv => BreakerIsOwned
  BY DEF BaseInv, BreakerInv, TypeOK
<1>2. QED
  BY <1>1, Base, PTL

\* For those circuits: when lxc_circuit_destroy frees the gates, no call, queued
\* call or task has one.
THEOREM DestroyedLast ==
  ASSUME \A c \in Circuits : BreaksInOneThread(c)
  PROVE  Spec => []DestroyedIsIdle
<1>1. BaseInv => DestroyedIsIdle
  <2> SUFFICES ASSUME BaseInv, program = "destroyed" PROVE Idle /\ breaker = NULL
    BY DEF DestroyedIsIdle
  <2>0. TypeOK /\ BreakerIsOwned /\ IsFiniteSet(Frames)
    BY DEF BaseInv, BreakerInv, TypeOK
  <2>1. Idle /\ Frames = {}
    BY DEF BaseInv, Idle, Frames
  <2>2. Where(LoopFrame) = {}
    BY <2>1 DEF Where
  <2>3. Cardinality(Where(LoopFrame)) = 0
    BY <2>2, FS_EmptySet
  <2>4. breaker = NULL
    BY <2>0, <2>3, Owners DEF TypeOK, Queues
  <2>5. QED
    BY <2>1, <2>4
<1>2. QED
  BY <1>1, Base, PTL
-----------------------------------------------------------------------------
(* The loopbreaker keeps stacks short.                                      *)

\* Each loop of the circuit has a gate that does not call through: a rank that
\* grows along the calls of the default behaviour says so.
Grows(c, rank) ==
  \A g \in DOMAIN c.kind :
    c.output[g] # NULL =>
      \A n \in DOMAIN c.drivens[c.output[g]] :
        LET h == c.drivens[c.output[g]][n][1]
        IN  c.behavior[h] = "default" => rank[g] < rank[h]

LoopsHaveABreaker(c) == \E rank \in [DOMAIN c.kind -> Nat] : Grows(c, rank)

Rank == CHOOSE rank \in [Gates -> Nat] : Grows(circuit, rank)

\* A frame of a gate that runs, or is about to.
Inside(f) ==
  /\ f.gate \in Gates
  /\ \/ f.at \in {"run", "write", "notify"}
     \/ f.at = "call" /\ Behavior[f.gate] = "default"

\* The frame of a wire that the program drives.
Driven(f) == f.gate = NULL /\ f.at \in {"write", "notify"}

\* Ranks grow along a stack, but for the loop; the program's frame is lowest.
Growing(s) ==
  /\ \A i \in 1 .. Len(s) : Driven(s[i]) => i = 1
  /\ \A i, j \in 1 .. Len(s) :
       i < j /\ Inside(s[i]) /\ Inside(s[j]) /\ (\A k \in i .. j : s[k].at # "loop")
         => Rank[s[i].gate] < Rank[s[j].gate]

NestInv == \A t \in Threads : Growing(stack[t])

LEMMA RankGrows ==
  ASSUME TypeOK, LoopsHaveABreaker(circuit), NEW f \in Frame,
         f.at = "notify", f.gate # NULL, More(f)
  PROVE  /\ Rank \in [Gates -> Nat]
         /\ LET h == Drivens[f.wire][f.next][1]
            IN  Behavior[h] = "default" => Rank[f.gate] < Rank[h]
<1>1. Rank \in [Gates -> Nat] /\ Grows(circuit, Rank)
  BY DEF LoopsHaveABreaker, Rank, Gates
<1>2. f.gate \in Gates /\ f.wire = Output[f.gate] /\ f.wire # NULL
  BY DEF Frame
<1>3. f.next \in DOMAIN Drivens[f.wire]
  BY DrivenPort
<1>4. QED
  BY <1>1, <1>2, <1>3 DEF Grows, Gates, Output, Drivens, Behavior

\* A frame replaces the top one.
LEMMA GrowingGoto ==
  ASSUME NEW s \in Seq(Frame), NEW r \in Seq(Frame), Growing(s),
         NEW n \in Nat \ {0}, n = Len(s), n = Len(r),
         \A i \in 1 .. n - 1 : r[i] = s[i],
         Inside(r[n]) => Inside(s[n]) /\ r[n].gate = s[n].gate,
         Driven(r[n]) => Driven(s[n])
  PROVE  Growing(r)
<1>1. ASSUME NEW i \in 1 .. n, Driven(r[i]) PROVE i = 1
  <2>1. Driven(s[i])
    BY <1>1
  <2>2. QED
    BY <2>1 DEF Growing
<1>2. ASSUME NEW i \in 1 .. n, NEW j \in 1 .. n, i < j, Inside(r[i]), Inside(r[j]),
             \A k \in i .. j : r[k].at # "loop"
      PROVE  Rank[r[i].gate] < Rank[r[j].gate]
  <2>1. i \in 1 .. n - 1 /\ r[i] = s[i]
    BY <1>2
  <2>2. Inside(s[j]) /\ r[j].gate = s[j].gate
    BY <1>2
  <2>3. \A k \in i .. j : s[k].at # "loop"
    <3> SUFFICES ASSUME NEW k \in i .. j PROVE s[k].at # "loop"
      OBVIOUS
    <3>1. CASE k = n
      BY <1>2, <2>2, <3>1 DEF Inside
    <3>2. CASE k # n
      BY <1>2, <3>2
    <3>3. QED
      BY <3>1, <3>2
  <2>4. Rank[s[i].gate] < Rank[s[j].gate]
    BY <1>2, <2>1, <2>2, <2>3 DEF Growing
  <2>5. QED
    BY <2>1, <2>2, <2>4
<1>3. QED
  BY <1>1, <1>2 DEF Growing

\* A frame calls.
LEMMA GrowingCall ==
  ASSUME NEW s \in Seq(Frame), NEW r \in Seq(Frame), Growing(s),
         Rank \in [Gates -> Nat], NULL \notin Gates,
         NEW n \in Nat \ {0}, n = Len(s), Len(r) = n + 1,
         \A i \in 1 .. n : r[i] = s[i],
         ~Driven(r[n + 1]),
         Inside(r[n + 1]) => \/ s[n].at = "loop" \/ Driven(s[n])
                             \/ Inside(s[n]) /\ Rank[s[n].gate] < Rank[r[n + 1].gate]
  PROVE  Growing(r)
<1>1. ASSUME NEW i \in 1 .. n + 1, Driven(r[i]) PROVE i = 1
  <2>1. i \in 1 .. n /\ Driven(s[i])
    BY <1>1
  <2>2. QED
    BY <2>1 DEF Growing
<1>2. ASSUME NEW i \in 1 .. n + 1, NEW j \in 1 .. n + 1, i < j, Inside(r[i]), Inside(r[j]),
             \A k \in i .. j : r[k].at # "loop"
      PROVE  Rank[r[i].gate] < Rank[r[j].gate]
  <2>1. i \in 1 .. n /\ r[i] = s[i]
    BY <1>2
  <2>2. CASE j \in 1 .. n
    <3>1. r[j] = s[j] /\ \A k \in i .. j : s[k].at # "loop"
      BY <1>2, <2>2
    <3>2. QED
      BY <1>2, <2>1, <2>2, <3>1 DEF Growing
  <2>3. CASE j = n + 1
    <3>1. n \in i .. j /\ r[n] = s[n]
      BY <2>1, <2>3
    <3>2. s[n].at # "loop"
      BY <1>2, <3>1
    <3>3. ~Driven(s[n])
      <4>1. ASSUME Driven(s[n]) PROVE FALSE
        <5>1. n = 1
          BY <4>1 DEF Growing
        <5>2. i = 1
          BY <2>1, <5>1
        <5>3. QED
          BY <1>2, <2>1, <4>1, <5>1, <5>2 DEF Inside, Driven
      <4>2. QED
        BY <4>1
    <3>4. Inside(s[n]) /\ Rank[s[n].gate] < Rank[r[j].gate]
      BY <1>2, <2>3, <3>2, <3>3
    <3>5. CASE i = n
      BY <2>1, <3>4, <3>5
    <3>6. CASE i < n
      <4>1. \A k \in i .. n : s[k].at # "loop"
        BY <1>2, <2>1, <2>3
      <4>2. Rank[s[i].gate] < Rank[s[n].gate]
        BY <1>2, <2>1, <3>4, <3>6, <4>1 DEF Growing
      <4>3. s[i].gate \in Gates /\ s[n].gate \in Gates /\ r[j].gate \in Gates
        BY <1>2, <2>1, <3>4 DEF Inside
      <4>4. QED
        BY <2>1, <3>4, <4>2, <4>3
    <3>7. QED
      BY <2>1, <3>5, <3>6
  <2>4. QED
    BY <2>2, <2>3
<1>3. QED
  BY <1>1, <1>2 DEF Growing

LEMMA GrowingReturn ==
  ASSUME NEW s \in Seq(Frame), NEW r \in Seq(Frame), Growing(s),
         NEW n \in Nat \ {0}, n = Len(s), Len(r) = n - 1,
         \A i \in 1 .. n - 1 : r[i] = s[i]
  PROVE  Growing(r)
<1>1. ASSUME NEW i \in 1 .. n - 1, Driven(r[i]) PROVE i = 1
  <2>1. i \in 1 .. n /\ Driven(s[i])
    BY <1>1
  <2>2. QED
    BY <2>1 DEF Growing
<1>2. ASSUME NEW i \in 1 .. n - 1, NEW j \in 1 .. n - 1, i < j, Inside(r[i]), Inside(r[j]),
             \A k \in i .. j : r[k].at # "loop"
      PROVE  Rank[r[i].gate] < Rank[r[j].gate]
  <2>1. /\ i \in 1 .. n /\ j \in 1 .. n /\ r[i] = s[i] /\ r[j] = s[j]
        /\ \A k \in i .. j : s[k].at # "loop"
    BY <1>2
  <2>2. QED
    BY <1>2, <2>1 DEF Growing
<1>3. QED
  BY <1>1, <1>2 DEF Growing

LEMMA NestNext ==
  ASSUME circuit' = circuit, NEW t \in Threads, NestInv, Growing(stack'[t]),
         \A u \in Threads \ {t} : stack'[u] = stack[u]
  PROVE  NestInv'
<1>1. \A u \in Threads : Growing(stack'[u])
  BY DEF NestInv
<1>2. Rank' = Rank
  BY DEF Rank, Gates
<1>3. Gates' = Gates /\ Behavior' = Behavior
  BY DEF Gates, Behavior
<1>4. \A u \in Threads : Growing(stack[u])'
  BY <1>1, <1>2, <1>3 DEF Growing, Inside, Driven
<1>5. QED
  BY <1>4 DEF NestInv, Threads

LEMMA NestStep ==
  ASSUME BaseInv, LoopsHaveABreaker(circuit), NestInv, NEW t \in Threads, Step(t)
  PROVE  NestInv'
<1> USE DEF BaseInv
<1> DEFINE s == stack[t]
           n == Len(s)
<1>0. stack \in [Threads -> Seq(Frame)] /\ s \in Seq(Frame) /\ Growing(s)
  BY DEF TypeOK, NestInv
<1>1. circuit' = circuit /\ s # <<>>
  BY FiniteStep
<1>2. n \in Nat \ {0} /\ Top(t) = s[n]
  BY <1>0, <1>1, EndOfSeq DEF Top
<1>3. \A u \in Threads \ {t} : stack'[u] = stack[u]
  BY <1>0, OthersStay
<1>4. ASSUME Return(t) PROVE NestInv'
  <2>1. stack'[t] \in Seq(Frame) /\ Len(stack'[t]) = n - 1 /\ \A i \in 1 .. n - 1 : stack'[t][i] = s[i]
    BY <1>0, <1>1, <1>4, OnReturn DEF Keeps
  <2>2. Growing(stack'[t])
    BY <1>0, <1>2, <2>1, GrowingReturn
  <2>3. QED
    BY <1>1, <1>3, <2>2, NestNext
<1>5. ASSUME NEW f \in Frame, Goto(t, f),
             Inside(f) => Inside(Top(t)) /\ f.gate = Top(t).gate,
             Driven(f) => Driven(Top(t))
      PROVE  NestInv'
  <2>1. /\ stack'[t] \in Seq(Frame) /\ Len(stack'[t]) = n /\ stack'[t][n] = f
        /\ \A i \in 1 .. n - 1 : stack'[t][i] = s[i]
    BY <1>0, <1>1, <1>5, OnGoto DEF Keeps
  <2>2. Growing(stack'[t])
    BY <1>0, <1>2, <1>5, <2>1, GrowingGoto
  <2>3. QED
    BY <1>1, <1>3, <2>2, NestNext
<1>6. ASSUME NEW f \in Frame, NEW c \in Frame, CallFrom(t, f, c),
             Inside(f) => Inside(Top(t)) /\ f.gate = Top(t).gate,
             Driven(f) => Driven(Top(t)), ~Driven(c),
             Inside(c) => \/ f.at = "loop" \/ Driven(f)
                          \/ Inside(f) /\ Rank[f.gate] < Rank[c.gate]
      PROVE  NestInv'
  <2> DEFINE m == Append(Front(s), f)
  <2>1. /\ m \in Seq(Frame) /\ Len(m) = n /\ m[n] = f
        /\ \A i \in 1 .. n - 1 : m[i] = s[i]
    <3>1. /\ Front(s) \in Seq(Frame) /\ Len(Front(s)) = n - 1
          /\ \A i \in 1 .. n - 1 : Front(s)[i] = s[i]
      BY <1>0, <1>1, EndOfSeq
    <3>2. QED
      BY <1>2, <3>1
  <2>2. stack'[t] = Append(m, c)
    BY <1>0, <1>6 DEF CallFrom
  <2> HIDE DEF m
  <2>3. Growing(m)
    BY <1>0, <1>2, <1>6, <2>1, GrowingGoto
  <2>4. /\ stack'[t] \in Seq(Frame) /\ Len(stack'[t]) = n + 1
        /\ stack'[t][n + 1] = c /\ \A i \in 1 .. n : stack'[t][i] = m[i]
    BY <1>2, <2>1, <2>2
  <2>5. Rank \in [Gates -> Nat] /\ NULL \notin Gates
    BY Wired DEF LoopsHaveABreaker, Rank, Gates
  <2> HIDE DEF n, s
  <2>6. Growing(stack'[t])
    BY <1>2, <1>6, <2>1, <2>3, <2>4, <2>5, GrowingCall
  <2>7. QED
    BY <1>1, <1>3, <2>6, NestNext
<1> HIDE DEF n, s
<1>7. CASE CallDefault(t)
  <2>1. Top(t) \in Frame /\ Top(t).at = "call" /\ Top(t).gate \in Gates
    BY <1>7, TopFrame DEF CallDefault, Frame
  <2>2. Run(Top(t).gate, Top(t).value) \in Frame
    BY <2>1, NewFrames DEF Frame
  <2>3. Inside(Top(t)) /\ ~Driven(Run(Top(t).gate, Top(t).value)) /\ Run(Top(t).gate, Top(t).value).gate = Top(t).gate
    BY <1>7, <2>1 DEF CallDefault, Inside, Driven, Run, F
  <2>4. QED
    BY <1>5, <1>7, <2>2, <2>3 DEF CallDefault
<1>8. CASE CallBreaker(t)
  <2>1. PICK f \in Frame : Goto(t, f) /\ f.at \in {"make", "append"}
    BY <1>8, BreakerFrame
  <2>2. ~Inside(f) /\ ~Driven(f)
    BY <2>1 DEF Inside, Driven
  <2>3. QED
    BY <1>5, <2>1, <2>2
<1>9. CASE CallAsync(t)
  <2>1. Return(t) \/ stack' = stack
    BY <1>9 DEF CallAsync
  <2>2. CASE stack' = stack
    BY <1>1, <2>2, <1>3, <1>0, NestNext DEF s
  <2>3. QED
    BY <1>4, <2>1, <2>2
<1>10. CASE LoopExecute(t)
  <2>1. Top(t) \in Frame /\ Top(t).gate \in Gates
    BY <1>10, TopFrame DEF LoopExecute, Frame
  <2> DEFINE f == Loop(NULL, NULL)
             c == Run(Top(t).gate, Top(t).value)
  <2>2. f \in Frame /\ f.at = "loop" /\ ~Inside(f) /\ ~Driven(f)
    <3>1. f \in Frame
      BY <1>10, <2>1, TopFrame, NewFrames DEF LoopExecute, Frame
    <3>2. f.at = "loop"
      BY DEF Loop, F
    <3>3. QED
      BY <3>1, <3>2 DEF Inside, Driven
  <2>3. c \in Frame /\ ~Driven(c)
    BY <2>1, NewFrames DEF Frame, Run, F, Driven
  <2>4. Goto(t, f) \/ CallFrom(t, f, c)
    BY <1>10 DEF LoopExecute
  <2> HIDE DEF f, c
  <2>5. CASE Goto(t, f)
    BY <1>5, <2>2, <2>5
  <2>6. CASE CallFrom(t, f, c)
    <3>1. Inside(f) => Inside(Top(t)) /\ f.gate = Top(t).gate
      BY <2>2
    <3>2. Driven(f) => Driven(Top(t))
      BY <2>2
    <3>3. Inside(c) => \/ f.at = "loop" \/ Driven(f)
                       \/ Inside(f) /\ Rank[f.gate] < Rank[c.gate]
      BY <2>2
    <3>4. QED
      BY <1>6, <2>2, <2>3, <2>6, <3>1, <3>2, <3>3
  <2>7. QED
    BY <2>4, <2>5, <2>6
<1>11. CASE LoopNext(t)
  <2> DEFINE f == Loop(Head(breaker)[1], Head(breaker)[2])
  <2>0. HasBreaker /\ breaker # NULL
    BY <1>11, TopFrame DEF LoopNext, Frame
  <2>1. CASE breaker = <<>>
    <3>1. Goto(t, Wipe) /\ Wipe \in Frame /\ Wipe.at = "wipe"
      BY <1>11, <2>0, <2>1, NewFrames DEF LoopNext, HasBreaker, Value, Wipe, F
    <3>2. QED
      BY <1>5, <3>1 DEF Inside, Driven
  <2>2. CASE breaker # <<>>
    <3>1. f \in Frame /\ f.at = "loop"
      BY <2>0, <2>2, PoppedFrame
    <3>2. Goto(t, f)
      BY <1>11, <2>2 DEF LoopNext
    <3> HIDE DEF f
    <3>3. QED
      BY <1>5, <3>1, <3>2 DEF Inside, Driven
  <2>3. QED
    BY <2>1, <2>2
<1>12. CASE Execute(t)
  <2> DEFINE g == Top(t).gate
             result == Logic(Kind[g], Vals(g))
             w == Write(g, Output[g], result)
  <2>1. Top(t).at = "run" /\ g \in Gates /\ Kind[g] # "sniffer"
    BY <1>12, TopFrame DEF Execute, Frame
  <2>2. CASE Complete(g) /\ result # NULL /\ Output[g] # NULL
    <3>1. w \in Frame /\ w.gate = g
      BY <2>1, <2>2, WrittenFrame DEF Write, F
    <3>2. Goto(t, w)
      BY <1>12, <2>2 DEF Execute
    <3>3. Inside(Top(t)) /\ ~Driven(w)
      BY <2>1, <3>1, Wired DEF Inside, Driven
    <3> HIDE DEF w
    <3>4. QED
      BY <1>5, <3>1, <3>2, <3>3
  <2>3. CASE ~(Complete(g) /\ result # NULL /\ Output[g] # NULL)
    BY <1>4, <1>12, <2>3 DEF Execute
  <2>4. QED
    BY <2>2, <2>3
<1>13. CASE Sniff(t)
  BY <1>4, <1>13 DEF Sniff
<1>14. CASE WriteWire(t)
  <2> DEFINE f == Notify(Top(t).gate, Top(t).wire, Top(t).value, 1)
  <2>1. Top(t) \in Frame /\ Top(t).at = "write" /\ Goto(t, f)
    BY <1>14, TopFrame DEF WriteWire
  <2>2. f \in Frame /\ f.gate = Top(t).gate
    BY <2>1 DEF Notify, F, Frame
  <2>3. (Inside(f) => Inside(Top(t))) /\ (Driven(f) => Driven(Top(t)))
    BY <2>1, <2>2 DEF Inside, Driven
  <2>4. QED
    BY <1>5, <2>1, <2>2, <2>3
<1>15. CASE NotifyNext(t)
  <2> DEFINE f == Top(t)
             p == Drivens[f.wire][f.next]
             rest == Notify(f.gate, f.wire, f.value, f.next + 1)
             c == Call(p[1], f.value)
  <2>1. f \in Frame /\ f.at = "notify" /\ More(f)
    BY <1>15, TopFrame DEF NotifyNext
  <2>2. /\ rest \in Frame /\ f.value \in Value
        /\ rest.gate = f.gate /\ rest.at = "notify"
    BY <2>1 DEF Notify, F, Frame
  <2>3. c \in Frame /\ c.at = "call" /\ c.gate = p[1]
    BY <2>1, <2>2, DrivenPort, NewFrames DEF Call, F
  <2>4. CallFrom(t, rest, c) \/ Goto(t, rest)
    BY <1>15 DEF NotifyNext
  <2>5. Behavior[p[1]] = "default" /\ f.gate # NULL => Rank[f.gate] < Rank[p[1]]
    BY <2>1, RankGrows
  <2> HIDE DEF rest, c, p
  <2>6. (Inside(rest) => Inside(f)) /\ (Driven(rest) => Driven(f)) /\ ~Driven(c)
    BY <2>1, <2>2, <2>3 DEF Inside, Driven
  <2>7. Inside(c) => Driven(rest) \/ (Inside(rest) /\ Rank[rest.gate] < Rank[c.gate])
    BY <2>1, <2>2, <2>3, <2>5 DEF Inside, Driven, Frame
  <2>8. CASE CallFrom(t, rest, c)
    <3>1. Inside(rest) => Inside(Top(t)) /\ rest.gate = Top(t).gate
      BY <2>2, <2>6
    <3>2. Driven(rest) => Driven(Top(t))
      BY <2>6
    <3>3. Inside(c) => \/ rest.at = "loop" \/ Driven(rest)
                       \/ Inside(rest) /\ Rank[rest.gate] < Rank[c.gate]
      BY <2>7
    <3>4. QED
      BY <1>6, <2>2, <2>3, <2>6, <2>8, <3>1, <3>2, <3>3
  <2>9. CASE Goto(t, rest)
    BY <1>5, <2>2, <2>6, <2>9
  <2>10. QED
    BY <2>4, <2>8, <2>9
<1>16. CASE NotifyDone(t)
  BY <1>4, <1>16 DEF NotifyDone
<1>17. CASE MakeQueue(t)
  <2> DEFINE f == Loop(Top(t).gate, Top(t).value)
  <2>1. Top(t).gate \in Gates /\ Top(t).value \in Value /\ HasBreaker
    BY <1>17, TopFrame DEF MakeQueue, Frame
  <2>2. f \in Frame /\ f.at = "loop" /\ Goto(t, f)
    BY <1>17, <2>1, NewFrames DEF MakeQueue, Loop, F
  <2> HIDE DEF f
  <2>3. QED
    BY <1>5, <2>2 DEF Inside, Driven
<1>18. CASE AppendTask(t) \/ WipeQueue(t)
  BY <1>4, <1>18 DEF AppendTask, WipeQueue
<1>19. CASE CrashAtQueue(t)
  BY <1>0, <1>1, <1>3, <1>19, NestNext DEF CrashAtQueue, s
<1>20. QED
  BY <1>7, <1>8, <1>9, <1>10, <1>11, <1>12, <1>13, <1>14, <1>15, <1>16, <1>17, <1>18, <1>19
  DEF Step

LEMMA NestBegins ==
  ASSUME stack \in [Threads -> Seq(Frame)], circuit' = circuit, NestInv, NEW t \in Threads,
         NEW f \in Frame, stack' = [stack EXCEPT ![t] = <<f>>]
  PROVE  NestInv'
<1>1. \A u \in Threads \ {t} : stack'[u] = stack[u]
  OBVIOUS
<1>2. Len(stack'[t]) = 1
  OBVIOUS
<1>3. Growing(stack'[t])
  BY <1>2 DEF Growing
<1>4. QED
  BY <1>1, <1>3, NestNext

LEMMA NestStays ==
  ASSUME stack' = stack, circuit' = circuit, NestInv
  PROVE  NestInv'
<1>1. Rank' = Rank
  BY DEF Rank, Gates
<1>2. Gates' = Gates /\ Behavior' = Behavior
  BY DEF Gates, Behavior
<1>3. QED
  BY <1>1, <1>2 DEF NestInv, Growing, Inside, Driven, Threads

\* In every run ranks grow along the stacks.
LEMMA Nests ==
  ASSUME \A c \in Circuits : LoopsHaveABreaker(c)
  PROVE  Spec => []NestInv
<1>1. Init => NestInv
  BY DEF Init, NestInv, Growing
<1>2. BaseInv /\ NestInv /\ [Next]_vars => NestInv'
  <2> SUFFICES ASSUME BaseInv, NestInv, [Next]_vars PROVE NestInv'
    OBVIOUS
  <2>0. /\ stack \in [Threads -> Seq(Frame)] /\ Main \in Threads /\ Workers \subseteq Threads
        /\ LoopsHaveABreaker(circuit)
    BY DEF BaseInv, TypeOK, Threads
  <2>1. CASE StartOscillator
    <3>1. Start \in Gates /\ stack[Main] = <<>>
      BY <2>0, <2>1, Wired DEF StartOscillator, BaseInv, Idle
    <3>2. \E f \in Frame : stack' = [stack EXCEPT ![Main] = <<f>>]
      BY <2>1, <3>1, MainBegins DEF BaseInv
    <3>3. QED
      BY <2>0, <2>1, <3>2, NestBegins DEF StartOscillator
  <2>2. ASSUME NEW w \in Stimuli, NEW v \in BOOLEAN, DriveWire(w, v) PROVE NestInv'
    <3>1. \E f \in Frame : stack' = [stack EXCEPT ![Main] = <<f>>]
      BY <2>2, MainBegins DEF BaseInv, DriveWire, MainReturned
    <3>2. QED
      BY <2>0, <2>2, <3>1, NestBegins DEF DriveWire
  <2>3. ASSUME NEW t \in Threads, Step(t) PROVE NestInv'
    BY <2>0, <2>3, NestStep
  <2>4. ASSUME NEW t \in Workers, NEW g \in Gates, TakeTask(t, g) PROVE NestInv'
    <3>1. /\ t \in Threads /\ Run(g, NULL) \in Frame /\ circuit' = circuit
          /\ stack' = [stack EXCEPT ![t] = <<Run(g, NULL)>>] \/ stack' = stack
      BY <2>4, TaskBegins DEF BaseInv, TakeTask
    <3>2. QED
      BY <2>0, <3>1, NestBegins, NestStays
  <2>5. ASSUME \/ \E g \in Gates : DisableGate(g)
               \/ ShutdownPool \/ DestroyCircuit \/ UNCHANGED vars
        PROVE  NestInv'
    <3>1. stack' = stack /\ circuit' = circuit
      BY <2>5 DEF DisableGate, ShutdownPool, DestroyCircuit, vars
    <3>2. QED
      BY <3>1, NestStays
  <2>6. QED
    BY <2>1, <2>2, <2>3, <2>4, <2>5 DEF Next
<1>3. QED
  BY <1>1, <1>2, Base, PTL DEF Spec

LEMMA AtMostTwo ==
  ASSUME NEW D, \A a, b, c \in D : a = b \/ b = c \/ a = c
  PROVE  IsFiniteSet(D) /\ Cardinality(D) <= 2
<1>1. CASE D = {}
  BY <1>1, FS_EmptySet
<1>2. CASE D # {}
  <2>1. PICK a \in D : TRUE
    BY <1>2
  <2>2. \E b \in D : \A c \in D : c = a \/ c = b
    <3>1. CASE \E b \in D : b # a
      BY <3>1
    <3>2. CASE \A b \in D : b = a
      BY <2>1, <3>2
    <3>3. QED
      BY <3>1, <3>2
  <2>3. PICK b \in D : \A c \in D : c = a \/ c = b
    BY <2>2
  <2> DEFINE E == {a} \cup {b}
  <2>4. IsFiniteSet({a}) /\ Cardinality({a}) = 1
    BY FS_Singleton
  <2>5. IsFiniteSet(E) /\ Cardinality(E) <= 2 /\ Cardinality(E) \in Nat
    BY <2>4, FS_AddElement, FS_CardinalityType
  <2>6. D \in SUBSET E
    BY <2>3
  <2> HIDE DEF E
  <2>7. IsFiniteSet(D) /\ Cardinality(D) <= Cardinality(E)
    BY <2>5, <2>6, FS_Subset
  <2>8. Cardinality(D) \in Nat
    BY <2>7, FS_CardinalityType
  <2>9. QED
    BY <2>5, <2>7, <2>8
<1>3. QED
  BY <1>1, <1>2

\* In every circuit whose loops each have a gate that does not call through, and
\* whose loopbreaker no task of a pool meets, however long the loops and many the
\* gates, no gate is in a stack more than twice: lxc_execution_loopbreaker does
\* what it is for.
THEOREM LoopsNeverFillTheStack ==
  ASSUME \A c \in Circuits : LoopsHaveABreaker(c) /\ BreaksInOneThread(c)
  PROVE  Spec => []LoopsAreBroken
<1>1. BaseInv /\ NestInv => NestsAtMostTwice
  <2> SUFFICES ASSUME BaseInv, NestInv, NEW t \in Threads, NEW g \in Gates
               PROVE  Cardinality({i \in DOMAIN stack[t] : /\ stack[t][i].gate = g
                         /\ stack[t][i].at \in {"run", "write", "notify"}}) <= 2
    BY DEF NestsAtMostTwice
  <2>0. BreakerIsOwned /\ IsFiniteSet(Frames) /\ stack \in [Threads -> Seq(Frame)]
    BY DEF BaseInv, BreakerInv, TypeOK
  <2> DEFINE s == stack[t]
             D == {i \in DOMAIN s : s[i].gate = g /\ s[i].at \in {"run", "write", "notify"}}
  <2>1. s \in Seq(Frame) /\ Growing(s) /\ DOMAIN s = 1 .. Len(s) /\ Len(s) \in Nat
    BY DEF BaseInv, TypeOK, NestInv
  <2>2. Rank \in [Gates -> Nat]
    BY DEF LoopsHaveABreaker, Rank, Gates, BaseInv, TypeOK
  <2>3. ASSUME NEW i \in D, NEW j \in D, i < j
        PROVE  \E k \in i .. j : k # i /\ k # j /\ k \in DOMAIN s /\ s[k].at = "loop"
    <3>1. Inside(s[i]) /\ Inside(s[j]) /\ s[i].gate = g /\ s[j].gate = g
      BY DEF Inside
    <3>2. ~(Rank[g] < Rank[g])
      BY <2>2
    <3>3. \E k \in i .. j : s[k].at = "loop"
      BY <2>1, <2>3, <3>1, <3>2 DEF Growing
    <3>4. QED
      BY <2>1, <3>3
  <2>4. ASSUME NEW k \in DOMAIN s, NEW l \in DOMAIN s, s[k].at = "loop", s[l].at = "loop"
        PROVE  k = l
    BY <2>0, <2>4, OneLoop
  <2>5. \A a, b, c \in D : a = b \/ b = c \/ a = c
    <3>1. ASSUME NEW a \in D, NEW b \in D, NEW c \in D, a < b, b < c PROVE FALSE
      <4>1. PICK k \in a .. b : k # b /\ k \in DOMAIN s /\ s[k].at = "loop"
        BY <2>3, <3>1
      <4>2. PICK l \in b .. c : l # b /\ l \in DOMAIN s /\ s[l].at = "loop"
        BY <2>3, <3>1
      <4>3. k = l
        BY <2>4, <4>1, <4>2
      <4>4. QED
        BY <2>1, <4>1, <4>2, <4>3
    <3>2. \A a \in D : a \in Nat
      BY <2>1
    <3> HIDE DEF D
    <3>3. QED
      BY <3>1, <3>2
  <2> HIDE DEF D
  <2>6. Cardinality(D) <= 2
    BY <2>5, AtMostTwo
  <2>7. QED
    BY <2>6 DEF D
<1>2. Spec => []NestInv
  BY Nests
<1>3. BaseInv => BreakerIsOwned
  BY DEF BaseInv, BreakerInv, TypeOK
<1>4. QED
  BY <1>1, <1>2, <1>3, Base, PTL DEF LoopsAreBroken
-----------------------------------------------------------------------------
(* One edge circulates.                                                     *)

\* Every wire leads to one gate, sniffers aside, and every gate to one wire.
IsRing(c) ==
  /\ c.handler = "direct"
  /\ c.start # NULL /\ c.kind[c.start] # "sniffer"
  /\ \A g \in DOMAIN c.kind :
       IF c.kind[g] = "sniffer" THEN c.behavior[g] = "default"
       ELSE c.kind[g] # "xor" /\ Len(c.inputs[g]) = 1 /\ c.output[g] # NULL
  /\ \A w \in DOMAIN c.drivens :
       \E m \in DOMAIN c.drivens[w] :
         /\ c.inputs[c.drivens[w][m][1]] = <<w>>
         /\ \A n \in DOMAIN c.drivens[w] : c.kind[c.drivens[w][n][1]] # "sniffer" <=> n = m

LEMMA RingFacts ==
  ASSUME TypeOK, IsRing(circuit)
  PROVE  /\ Handler = "direct" /\ Start \in Gates /\ Signals(Start)
         /\ \A g \in Gates : Kind[g] = "sniffer" => Behavior[g] = "default"
         /\ \A g \in Gates : Kind[g] # "sniffer" =>
              /\ Kind[g] \in Kinds \ {"xor"} /\ Len(Inputs[g]) = 1
              /\ Inputs[g][1] \in Wires /\ Output[g] \in Wires
         /\ \A w \in Wires : \E m \in 1 .. Len(Drivens[w]) :
              /\ Inputs[Drivens[w][m][1]] = <<w>>
              /\ \A n \in 1 .. Len(Drivens[w]) : Signals(Drivens[w][n][1]) <=> n = m
<1>1. /\ Handler = "direct" /\ Start \in Gates /\ Signals(Start)
      /\ \A g \in Gates : Kind[g] = "sniffer" => Behavior[g] = "default"
  BY Wired DEF IsRing, Handler, Start, Signals, Kind, Gates, Behavior
<1>2. \A g \in Gates : Kind[g] # "sniffer" =>
         /\ Kind[g] \in Kinds \ {"xor"} /\ Len(Inputs[g]) = 1
         /\ Inputs[g][1] \in Wires /\ Output[g] \in Wires
  <2> SUFFICES ASSUME NEW g \in Gates, Kind[g] # "sniffer"
               PROVE  /\ Kind[g] \in Kinds \ {"xor"} /\ Len(Inputs[g]) = 1
                      /\ Inputs[g][1] \in Wires /\ Output[g] \in Wires
    OBVIOUS
  <2>1. Kind[g] # "xor" /\ Len(Inputs[g]) = 1 /\ Output[g] # NULL
    BY DEF IsRing, Kind, Gates, Inputs, Output
  <2>2. Inputs[g] \in Seq(Wires) /\ Output[g] \in Wires /\ Kind[g] \in Kinds
    BY <2>1, Wired
  <2>3. Inputs[g][1] \in Wires
    BY <2>1, <2>2, ElementOfSeq
  <2>4. QED
    BY <2>1, <2>2, <2>3
<1>3. ASSUME NEW w \in Wires
      PROVE  \E m \in 1 .. Len(Drivens[w]) :
              /\ Inputs[Drivens[w][m][1]] = <<w>>
              /\ \A n \in 1 .. Len(Drivens[w]) : Signals(Drivens[w][n][1]) <=> n = m
  <2>1. DOMAIN Drivens[w] = 1 .. Len(Drivens[w]) /\ Drivens[w] \in Seq(Ports)
    BY Wired
  <2>2. PICK m \in DOMAIN Drivens[w] :
          /\ Inputs[Drivens[w][m][1]] = <<w>>
          /\ \A n \in DOMAIN Drivens[w] : Kind[Drivens[w][n][1]] # "sniffer" <=> n = m
    BY DEF IsRing, Wires, Drivens, Inputs, Kind
  <2>3. \A n \in 1 .. Len(Drivens[w]) : Drivens[w][n][1] # NULL
    <3>1. \A n \in 1 .. Len(Drivens[w]) : Drivens[w][n] \in Ports
      BY <2>1, ElementOfSeq
    <3>2. QED
      BY <3>1, Wired DEF Ports
  <2>4. QED
    BY <2>1, <2>2, <2>3 DEF Signals
<1>4. QED
  BY <1>1, <1>2, <1>3

Carrying == {f \in Frame : Carries(f)}
Queued == IF breaker = NULL THEN 0 ELSE Len(breaker)

LEMMA EdgesAre ==
  ASSUME stack \in [Threads -> Seq(Frame)]
  PROVE  Edges = Cardinality(Where(Carrying)) + Cardinality(Waiting) + Queued
<1>1. ASSUME NEW f \in Frames PROVE stack[f[1]][f[2]] \in Frame
  <2>1. stack[f[1]] \in Seq(Frame) /\ f[2] \in 1 .. Len(stack[f[1]])
    BY DEF Frames
  <2>2. QED
    BY <2>1, ElementOfSeq
<1>2. Where(Carrying) = Carriers
  BY <1>1 DEF Where, Carrying, Carriers
<1>3. QED
  BY <1>2, Zenon DEF Edges, Queued

LEMMA EdgesNextAre ==
  ASSUME stack' \in [Threads -> Seq(Frame)], circuit' = circuit
  PROVE  Edges' = Cardinality(WhereNext(Carrying)) + Cardinality(Waiting') + Queued'
<1>1. ASSUME NEW f \in Frames' PROVE stack'[f[1]][f[2]] \in Frame
  <2>1. stack'[f[1]] \in Seq(Frame) /\ f[2] \in 1 .. Len(stack'[f[1]])
    BY DEF Frames, Threads
  <2>2. QED
    BY <2>1, ElementOfSeq
<1>2. \A f : Carries(f)' <=> Carries(f)
  BY DEF Carries, Signals, Kind, Drivens
<1>3. WhereNext(Carrying) = Carriers'
  <2>1. Carriers' = {f \in Frames' : Carries(stack'[f[1]][f[2]])}
    BY DEF Carriers, Carries, Signals, Kind, Drivens
  <2>2. QED
    BY <1>1, <2>1 DEF WhereNext, Carrying
<1>4. QED
  BY <1>3, Zenon DEF Edges, Queued

LEMMA WaitingAdd ==
  ASSUME tasks \in [Gates -> Nat], circuit' = circuit, IsFiniteSet(Waiting),
         NEW g \in Gates, tasks' = [tasks EXCEPT ![g] = @ + 1]
  PROVE  IsFiniteSet(Waiting') /\ Cardinality(Waiting') = Cardinality(Waiting) + 1
<1>1. Gates' = Gates
  BY DEF Gates
<1> DEFINE x == <<g, tasks[g] + 1>>
<1>2. \A h \in Gates : tasks[h] \in Nat /\ tasks'[h] = IF h = g THEN tasks[h] + 1 ELSE tasks[h]
  OBVIOUS
<1>3. x \notin Waiting
  BY <1>2 DEF Waiting
<1>4. Waiting' = Waiting \cup {x}
  BY <1>1, <1>2 DEF Waiting
<1> HIDE DEF x
<1>5. QED
  BY <1>3, <1>4, FS_AddElement

LEMMA WaitingTake ==
  ASSUME tasks \in [Gates -> Nat], circuit' = circuit, IsFiniteSet(Waiting),
         NEW g \in Gates, tasks[g] > 0, tasks' = [tasks EXCEPT ![g] = @ - 1]
  PROVE  /\ IsFiniteSet(Waiting') /\ Cardinality(Waiting') = Cardinality(Waiting) - 1
         /\ Cardinality(Waiting) \in Nat
<1>1. Gates' = Gates
  BY DEF Gates
<1> DEFINE x == <<g, tasks[g]>>
<1>2. \A h \in Gates : tasks[h] \in Nat /\ tasks'[h] = IF h = g THEN tasks[h] - 1 ELSE tasks[h]
  OBVIOUS
<1>3. x \in Waiting
  BY <1>2 DEF Waiting
<1>4. Waiting' = Waiting \ {x}
  BY <1>1, <1>2 DEF Waiting
<1> HIDE DEF x
<1>5. QED
  BY <1>3, <1>4, FS_RemoveElement, FS_CardinalityType

\* A gate that is about to run has a value on its input.
Ready(g, values) == values[Inputs[g][1]] # NULL

ReadyFrame(f, values) ==
  /\ f.at \in {"call", "make", "append", "run", "loop"} /\ Signals(f.gate) =>
       Ready(f.gate, values)
  /\ f.at \in {"make", "append"} => Behavior[f.gate] = "loopbreaker"
  /\ f.at = "notify" => values[f.wire] # NULL

ReadyStack(s, values) == \A i \in 1 .. Len(s) : ReadyFrame(s[i], values)

ReadyInv ==
  /\ \A t \in Threads : ReadyStack(stack[t], value)
  /\ \A g \in Gates : tasks[g] > 0 => Behavior[g] = "async" /\ Ready(g, value)
  /\ breaker # NULL =>
       \A n \in 1 .. Len(breaker) :
         Behavior[breaker[n][1]] = "loopbreaker" /\ Ready(breaker[n][1], value)
  /\ program = "start" => Ready(Start, value)

LEMMA ReadyNext ==
  ASSUME TypeOK, IsRing(circuit), circuit' = circuit, stack' \in [Threads -> Seq(Frame)],
         \A w \in Wires : value[w] # NULL => value'[w] # NULL,
         \A u \in Threads : ReadyStack(stack'[u], value'),
         \A g \in Gates : tasks'[g] > 0 => Behavior[g] = "async" /\ Ready(g, value'),
         breaker' # NULL =>
           \A n \in 1 .. Len(breaker') :
             Behavior[breaker'[n][1]] = "loopbreaker" /\ Ready(breaker'[n][1], value'),
         program' # "start"
  PROVE  ReadyInv'
<1>1. /\ Gates' = Gates /\ Behavior' = Behavior /\ Inputs' = Inputs /\ Kind' = Kind
      /\ Threads' = Threads
  BY DEF Gates, Behavior, Inputs, Kind, Threads
<1>2. (\A g \in Gates : tasks[g] > 0 => Behavior[g] = "async" /\ Ready(g, value))'
  BY <1>1 DEF Ready
<1>3. (\A t \in Threads : ReadyStack(stack[t], value))'
  BY <1>1 DEF Ready, ReadyStack, ReadyFrame, Signals
<1>4. (breaker # NULL =>
         \A n \in 1 .. Len(breaker) :
           Behavior[breaker[n][1]] = "loopbreaker" /\ Ready(breaker[n][1], value))'
  BY <1>1 DEF Ready
<1>5. QED
  BY <1>2, <1>3, <1>4 DEF ReadyInv

\* Values stay on the wires, so what is ready stays so.
LEMMA StillReady ==
  ASSUME TypeOK, IsRing(circuit),
         \A w \in Wires : value[w] # NULL => value'[w] # NULL
  PROVE  /\ \A g \in Gates : Signals(g) /\ Ready(g, value) => Ready(g, value')
         /\ \A f \in Frame : ReadyFrame(f, value) => ReadyFrame(f, value')
<1>1. \A g \in Gates : Signals(g) /\ Ready(g, value) => Ready(g, value')
  BY RingFacts DEF Ready, Signals
<1>2. ASSUME NEW f \in Frame, ReadyFrame(f, value) PROVE ReadyFrame(f, value')
  <2>1. f.gate \in Gates \cup {NULL} /\ (f.at = "notify" => f.wire \in Wires)
    BY DEF Frame
  <2>2. QED
    BY <1>1, <1>2, <2>1 DEF ReadyFrame, Signals
<1>3. QED
  BY <1>1, <1>2

LEMMA StacksReady ==
  ASSUME TypeOK, IsRing(circuit), ReadyInv, NEW t \in Threads, stack[t] # <<>>,
         \A w \in Wires : value[w] # NULL => value'[w] # NULL,
         \/ Return(t)
         \/ \E f \in Frame : Goto(t, f) /\ ReadyFrame(f, value')
         \/ \E f, c \in Frame : /\ CallFrom(t, f, c)
                                /\ ReadyFrame(f, value') /\ ReadyFrame(c, value')
  PROVE  /\ stack' \in [Threads -> Seq(Frame)]
         /\ \A u \in Threads : ReadyStack(stack'[u], value')
<1> DEFINE n == Len(stack[t])
<1>1. stack \in [Threads -> Seq(Frame)] /\ n \in Nat \ {0}
  BY EndOfSeq DEF TypeOK
<1>2. ASSUME NEW u \in Threads, NEW i \in 1 .. Len(stack[u])
      PROVE  ReadyFrame(stack[u][i], value')
  <2>1. stack[u][i] \in Frame
    BY <1>1, ElementOfSeq
  <2>2. ReadyFrame(stack[u][i], value)
    BY DEF ReadyInv, ReadyStack
  <2>3. QED
    BY <2>1, <2>2, StillReady
<1>3. ASSUME stack' \in [Threads -> Seq(Frame)], Keeps(t),
             \A i \in n .. Len(stack'[t]) : ReadyFrame(stack'[t][i], value')
      PROVE  \A u \in Threads : ReadyStack(stack'[u], value')
  <2> SUFFICES ASSUME NEW u \in Threads, NEW i \in 1 .. Len(stack'[u])
               PROVE  ReadyFrame(stack'[u][i], value')
    BY DEF ReadyStack
  <2>1. CASE u # t
    BY <1>2, <1>3, <2>1 DEF Keeps
  <2>2. CASE u = t /\ i < n
    BY <1>1, <1>2, <1>3, <2>2 DEF Keeps
  <2>3. CASE u = t /\ i >= n
    BY <1>1, <1>3, <2>3
  <2>4. QED
    BY <1>1, <2>1, <2>2, <2>3
<1>4. CASE Return(t)
  <2>1. stack' \in [Threads -> Seq(Frame)] /\ Keeps(t) /\ Len(stack'[t]) = n - 1
    BY <1>1, <1>4, OnReturn
  <2>2. \A i \in n .. Len(stack'[t]) : FALSE
    BY <1>1, <2>1
  <2>3. QED
    BY <1>3, <2>1, <2>2
<1>5. ASSUME NEW f \in Frame, Goto(t, f), ReadyFrame(f, value')
      PROVE  /\ stack' \in [Threads -> Seq(Frame)]
             /\ \A u \in Threads : ReadyStack(stack'[u], value')
  <2>1. /\ stack' \in [Threads -> Seq(Frame)] /\ Keeps(t) /\ Len(stack'[t]) = n
        /\ stack'[t][n] = f
    BY <1>1, <1>5, OnGoto
  <2>2. \A i \in n .. Len(stack'[t]) : i = n
    BY <1>1, <2>1
  <2>3. QED
    BY <1>3, <1>5, <2>1, <2>2
<1>6. ASSUME NEW f \in Frame, NEW c \in Frame, CallFrom(t, f, c),
             ReadyFrame(f, value'), ReadyFrame(c, value')
      PROVE  /\ stack' \in [Threads -> Seq(Frame)]
             /\ \A u \in Threads : ReadyStack(stack'[u], value')
  <2>1. /\ stack' \in [Threads -> Seq(Frame)] /\ Keeps(t) /\ Len(stack'[t]) = n + 1
        /\ stack'[t][n] = f /\ stack'[t][n + 1] = c
    BY <1>1, <1>6, OnCall
  <2>2. \A i \in n .. Len(stack'[t]) : i = n \/ i = n + 1
    BY <1>1, <2>1
  <2>3. QED
    BY <1>3, <1>6, <2>1, <2>2
<1>7. QED
  BY <1>4, <1>5, <1>6

LEMMA ReadyStep ==
  ASSUME BaseInv, IsRing(circuit), ReadyInv, NEW t \in Threads, Step(t)
  PROVE  ReadyInv'
<1> USE DEF BaseInv
<1>1. circuit' = circuit /\ stack[t] # <<>> /\ program' \in {program, "aborted"}
  BY FiniteStep, StepTasks
<1>2. program' # "start"
  BY <1>1 DEF Idle
<1>3. Top(t) \in Frame /\ ReadyFrame(Top(t), value)
  <2>1. stack[t] \in Seq(Frame)
    BY DEF TypeOK
  <2>2. Len(stack[t]) \in Nat \ {0} /\ Top(t) = stack[t][Len(stack[t])]
    BY <1>1, <2>1, EndOfSeq DEF Top
  <2>3. QED
    BY <2>1, <2>2, ElementOfSeq DEF ReadyInv, ReadyStack
<1>4. ASSUME value' = value, UNCHANGED <<tasks, breaker>>,
             \/ Return(t)
             \/ \E f \in Frame : Goto(t, f) /\ ReadyFrame(f, value)
             \/ \E f, c \in Frame :
                  CallFrom(t, f, c) /\ ReadyFrame(f, value) /\ ReadyFrame(c, value)
      PROVE  ReadyInv'
  <2>1. stack' \in [Threads -> Seq(Frame)] /\ \A u \in Threads : ReadyStack(stack'[u], value')
    BY <1>1, <1>4, StacksReady
  <2>2. QED
    BY <1>1, <1>2, <1>4, <2>1, ReadyNext DEF ReadyInv
<1>5. CASE CallDefault(t)
  <2> DEFINE f == Run(Top(t).gate, Top(t).value)
  <2>1. Top(t).at = "call" /\ f \in Frame
    BY <1>3, <1>5, TopFrame, NewFrames DEF CallDefault, Frame
  <2>2. f.at = "run" /\ f.gate = Top(t).gate
    BY DEF Run, F
  <2>3. ReadyFrame(f, value)
    BY <1>3, <2>1, <2>2 DEF ReadyFrame
  <2> HIDE DEF f
  <2>4. Goto(t, f) /\ value' = value /\ UNCHANGED <<tasks, breaker>>
    BY <1>5 DEF CallDefault, f
  <2>5. QED
    BY <1>4, <2>1, <2>3, <2>4
<1>6. CASE CallBreaker(t)
  <2> DEFINE f == IF IsFirstCall THEN Make(Top(t).gate, Top(t).value)
                                 ELSE Enqueue(Top(t).gate, Top(t).value)
  <2>1. Top(t).at = "call" /\ Behavior[Top(t).gate] = "loopbreaker"
    BY <1>6, TopFrame DEF CallBreaker
  <2>2. Goto(t, f) /\ f \in Frame /\ f.at \in {"make", "append"} /\ f.gate = Top(t).gate
    BY <1>6, BreakerFrame
  <2> HIDE DEF f
  <2>3. ReadyFrame(f, value)
    BY <1>3, <2>1, <2>2 DEF ReadyFrame
  <2>4. value' = value /\ UNCHANGED <<tasks, breaker>>
    BY <1>6 DEF CallBreaker
  <2>5. QED
    BY <1>4, <2>2, <2>3, <2>4
<1>7. CASE MakeQueue(t)
  <2> DEFINE f == Loop(Top(t).gate, Top(t).value)
  <2>1. Top(t).at = "make" /\ f \in Frame
    BY <1>3, <1>7, TopFrame, NewFrames DEF MakeQueue, Frame
  <2>2. f.at = "loop" /\ f.gate = Top(t).gate
    BY DEF Loop, F
  <2>3. Goto(t, f) /\ value' = value /\ tasks' = tasks /\ breaker' = <<>>
    BY <1>7 DEF MakeQueue
  <2> HIDE DEF f
  <2>4. ReadyFrame(f, value)
    BY <1>3, <2>1, <2>2 DEF ReadyFrame
  <2>5. stack' \in [Threads -> Seq(Frame)] /\ \A u \in Threads : ReadyStack(stack'[u], value')
    BY <1>1, <2>1, <2>3, <2>4, StacksReady
  <2>6. QED
    BY <1>1, <1>2, <2>3, <2>5, ReadyNext DEF ReadyInv
<1>8. CASE AppendTask(t)
  <2>1. Top(t).at = "append" /\ Top(t).gate \in Gates /\ Behavior[Top(t).gate] = "loopbreaker"
    BY <1>3, <1>8, TopFrame DEF AppendTask, Frame, ReadyFrame
  <2>2. Signals(Top(t).gate) /\ Ready(Top(t).gate, value)
    BY <1>3, <2>1, RingFacts, Wired DEF ReadyFrame, Signals
  <2>3. value' = value /\ tasks' = tasks /\ Return(t) /\ breaker # NULL
    BY <1>8 DEF AppendTask
  <2>4. stack' \in [Threads -> Seq(Frame)] /\ \A u \in Threads : ReadyStack(stack'[u], value')
    BY <1>1, <2>3, StacksReady
  <2>5. \A n \in 1 .. Len(breaker') :
          Behavior[breaker'[n][1]] = "loopbreaker" /\ Ready(breaker'[n][1], value)
    <3> DEFINE x == <<Top(t).gate, Top(t).value>>
    <3>1. breaker \in Seq(Gates \X Value) /\ x \in Gates \X Value /\ x[1] = Top(t).gate
      BY <1>8, QueueGrows
    <3>2. breaker' = Append(breaker, x)
      BY <1>8 DEF AppendTask
    <3> HIDE DEF x
    <3>3. /\ Len(breaker') = Len(breaker) + 1 /\ Len(breaker) \in Nat
          /\ breaker'[Len(breaker) + 1] = x
          /\ \A n \in 1 .. Len(breaker) : breaker'[n] = breaker[n]
      BY <3>1, <3>2
    <3>4. \A n \in 1 .. Len(breaker') : n \in 1 .. Len(breaker) \/ n = Len(breaker) + 1
      BY <3>3
    <3>5. QED
      BY <2>1, <2>2, <2>3, <3>1, <3>3, <3>4 DEF ReadyInv
  <2>6. QED
    BY <1>1, <1>2, <2>3, <2>4, <2>5, ReadyNext DEF ReadyInv
<1>9. CASE CallAsync(t)
  <2>1. Top(t).at = "call" /\ Top(t).gate \in Gates /\ Behavior[Top(t).gate] = "async"
    BY <1>3, <1>9, TopFrame DEF CallAsync, Frame
  <2>2. Signals(Top(t).gate) /\ Ready(Top(t).gate, value)
    BY <1>3, <2>1, RingFacts, Wired DEF ReadyFrame, Signals
  <2>3. value' = value /\ breaker' = breaker
    BY <1>9 DEF CallAsync
  <2>4. CASE Submits
    <3>1. Return(t) /\ tasks' = [tasks EXCEPT ![Top(t).gate] = @ + 1]
      BY <1>9, <2>4 DEF CallAsync
    <3>2. stack' \in [Threads -> Seq(Frame)] /\ \A u \in Threads : ReadyStack(stack'[u], value')
      BY <1>1, <2>3, <3>1, StacksReady
    <3>3. \A g \in Gates : tasks'[g] > 0 => Behavior[g] = "async" /\ Ready(g, value)
      BY <2>1, <2>2, <3>1 DEF ReadyInv, TypeOK
    <3>4. QED
      BY <1>1, <1>2, <2>3, <3>2, <3>3, ReadyNext DEF ReadyInv
  <2>5. CASE ~Submits
    <3>1. stack' = stack /\ tasks' = tasks
      BY <1>9, <2>5 DEF CallAsync
    <3>2. QED
      BY <1>1, <1>2, <2>3, <3>1, ReadyNext DEF ReadyInv, TypeOK
  <2>6. QED
    BY <2>4, <2>5
<1>10. CASE LoopExecute(t)
  <2> DEFINE f == Loop(NULL, NULL)
             c == Run(Top(t).gate, Top(t).value)
  <2>1. Top(t).at = "loop" /\ Top(t).gate \in Gates
    BY <1>3, <1>10, TopFrame DEF LoopExecute, Frame
  <2>2. f \in Frame /\ c \in Frame
    BY <1>3, <2>1, NewFrames DEF Frame
  <2>3. f.at = "loop" /\ f.gate = NULL /\ c.at = "run" /\ c.gate = Top(t).gate
    BY DEF Loop, Run, F
  <2>4. ReadyFrame(f, value) /\ ReadyFrame(c, value)
    BY <1>3, <2>1, <2>3 DEF ReadyFrame, Signals
  <2>5. /\ Goto(t, f) \/ CallFrom(t, f, c)
        /\ value' = value /\ UNCHANGED <<tasks, breaker>>
    BY <1>10 DEF LoopExecute
  <2> HIDE DEF f, c
  <2>6. QED
    BY <1>4, <2>2, <2>4, <2>5
<1>11. CASE LoopNext(t)
  <2>1. value' = value /\ tasks' = tasks /\ breaker # NULL /\ HasBreaker
    BY <1>11, BreakerSteps DEF LoopNext, AtBreaker
  <2>2. CASE breaker = <<>>
    <3>1. Goto(t, Wipe) /\ breaker' = breaker
      BY <1>11, <2>2 DEF LoopNext
    <3>2. Wipe \in Frame /\ Wipe.at = "wipe"
      BY <2>1, NewFrames DEF Wipe, F, HasBreaker, Value
    <3>3. ReadyFrame(Wipe, value)
      BY <3>2 DEF ReadyFrame
    <3>4. QED
      BY <1>4, <2>1, <3>1, <3>2, <3>3
  <2>3. CASE breaker # <<>>
    <3> DEFINE f == Loop(Head(breaker)[1], Head(breaker)[2])
    <3>1. f \in Frame /\ f.at = "loop" /\ f.gate = Head(breaker)[1]
      BY <2>1, <2>3, PoppedFrame DEF Loop, F
    <3>2. /\ breaker \in Seq(Gates \X Value) /\ Len(breaker) \in Nat \ {0}
          /\ Head(breaker) = breaker[1] /\ Len(Tail(breaker)) = Len(breaker) - 1
          /\ \A n \in 1 .. Len(breaker) - 1 : Tail(breaker)[n] = breaker[n + 1]
      BY <2>1, <2>3, HeadTailProperties, EmptySeq DEF TypeOK
    <3>3. Ready(f.gate, value)
      BY <2>1, <3>1, <3>2 DEF ReadyInv
    <3>4. Goto(t, f) /\ breaker' = Tail(breaker)
      BY <1>11, <2>3 DEF LoopNext, Popped
    <3> HIDE DEF f
    <3>5. stack' \in [Threads -> Seq(Frame)] /\ \A u \in Threads : ReadyStack(stack'[u], value')
      BY <1>1, <2>1, <3>1, <3>3, <3>4, StacksReady DEF ReadyFrame
    <3>6. \A n \in 1 .. Len(breaker') :
            Behavior[breaker'[n][1]] = "loopbreaker" /\ Ready(breaker'[n][1], value)
      <4> SUFFICES ASSUME NEW n \in 1 .. Len(breaker')
                   PROVE  Behavior[breaker'[n][1]] = "loopbreaker" /\ Ready(breaker'[n][1], value)
        OBVIOUS
      <4>1. breaker'[n] = breaker[n + 1] /\ n + 1 \in 1 .. Len(breaker)
        BY <3>2, <3>4
      <4>2. QED
        BY <2>1, <4>1 DEF ReadyInv
    <3>7. QED
      BY <1>1, <1>2, <2>1, <3>5, <3>6, ReadyNext DEF ReadyInv
  <2>4. QED
    BY <2>2, <2>3
<1>12. CASE WipeQueue(t)
  <2>1. value' = value /\ tasks' = tasks /\ Return(t) /\ breaker' = NULL
    BY <1>12 DEF WipeQueue
  <2>2. stack' \in [Threads -> Seq(Frame)] /\ \A u \in Threads : ReadyStack(stack'[u], value')
    BY <1>1, <2>1, StacksReady
  <2>3. QED
    BY <1>1, <1>2, <2>1, <2>2, ReadyNext DEF ReadyInv
<1>13. CASE CrashAtQueue(t)
  <2>1. value' = value /\ UNCHANGED <<tasks, breaker, stack>>
    BY <1>13 DEF CrashAtQueue
  <2>2. QED
    BY <1>1, <1>2, <2>1, ReadyNext DEF ReadyInv, TypeOK
<1>14. CASE Execute(t)
  <2> DEFINE g == Top(t).gate
             result == Logic(Kind[g], Vals(g))
             w == Write(g, Output[g], result)
  <2>1. g \in Gates /\ Kind[g] # "sniffer"
    BY <1>14, TopFrame DEF Execute, Frame
  <2>2. value' = value /\ UNCHANGED <<tasks, breaker>>
    BY <1>14 DEF Execute
  <2>3. CASE Complete(g) /\ result # NULL /\ Output[g] # NULL
    <3>1. w \in Frame /\ w.at = "write"
      BY <2>1, <2>3, WrittenFrame
    <3>2. Goto(t, w)
      BY <1>14, <2>3 DEF Execute
    <3> HIDE DEF w
    <3>3. QED
      BY <1>4, <2>2, <3>1, <3>2 DEF ReadyFrame
  <2>4. CASE ~(Complete(g) /\ result # NULL /\ Output[g] # NULL)
    BY <1>4, <1>14, <2>2, <2>4 DEF Execute
  <2>5. QED
    BY <2>3, <2>4
<1>15. CASE Sniff(t)
  BY <1>4, <1>15 DEF Sniff
<1>16. CASE WriteWire(t)
  <2> DEFINE f == Notify(Top(t).gate, Top(t).wire, Top(t).value, 1)
  <2>1. /\ Top(t).at = "write" /\ Top(t).wire \in Wires /\ Top(t).value # NULL
        /\ Goto(t, f) /\ UNCHANGED <<tasks, breaker>>
    BY <1>3, <1>16, TopFrame DEF WriteWire, Frame
  <2>2. f \in Frame /\ f.at = "notify" /\ f.wire = Top(t).wire
    BY <1>3, <2>1 DEF Notify, F, Frame
  <2>3. value' = [value EXCEPT ![Top(t).wire] = Top(t).value]
    BY <1>16, RingFacts DEF WriteWire
  <2>4. \A w \in Wires : value[w] # NULL => value'[w] # NULL
    BY <2>1, <2>3 DEF TypeOK
  <2>5. ReadyFrame(f, value')
    BY <2>1, <2>2, <2>3 DEF ReadyFrame, TypeOK
  <2> HIDE DEF f
  <2>6. stack' \in [Threads -> Seq(Frame)] /\ \A u \in Threads : ReadyStack(stack'[u], value')
    BY <1>1, <2>1, <2>2, <2>4, <2>5, StacksReady
  <2>7. \A g \in Gates : tasks[g] > 0 => Behavior[g] = "async" /\ Ready(g, value')
    BY <2>4, StillReady, RingFacts, Wired DEF ReadyInv, Signals
  <2>8. breaker # NULL =>
          \A n \in 1 .. Len(breaker) :
            Behavior[breaker[n][1]] = "loopbreaker" /\ Ready(breaker[n][1], value')
    <3> SUFFICES ASSUME breaker # NULL, NEW n \in 1 .. Len(breaker)
                 PROVE  Behavior[breaker[n][1]] = "loopbreaker" /\ Ready(breaker[n][1], value')
      OBVIOUS
    <3>1. breaker[n] \in Gates \X Value
      BY ElementOfSeq DEF TypeOK
    <3>2. QED
      BY <2>4, <3>1, StillReady, RingFacts, Wired DEF ReadyInv, Signals
  <2>9. QED
    BY <1>1, <1>2, <2>1, <2>4, <2>6, <2>7, <2>8, ReadyNext
<1>17. CASE NotifyNext(t)
  <2> DEFINE f == Top(t)
             p == Drivens[f.wire][f.next]
             rest == Notify(f.gate, f.wire, f.value, f.next + 1)
             c == Call(p[1], f.value)
  <2>1. f.at = "notify" /\ More(f)
    BY <1>17, TopFrame DEF NotifyNext
  <2>2. /\ rest \in Frame /\ f.value \in Value
        /\ rest.wire = f.wire /\ rest.at = "notify"
    BY <1>3, <2>1 DEF Notify, F, Frame
  <2>3. /\ c \in Frame /\ c.at = "call" /\ c.gate = p[1]
        /\ f.wire \in Wires /\ f.next \in 1 .. Len(Drivens[f.wire])
    BY <1>3, <2>1, <2>2, DrivenPort, NewFrames, Wired DEF Call, F
  <2>4. /\ CallFrom(t, rest, c) \/ Goto(t, rest)
        /\ value' = value /\ UNCHANGED <<tasks, breaker>>
    BY <1>17 DEF NotifyNext
  <2>5. ReadyFrame(rest, value)
    BY <1>3, <2>1, <2>2 DEF ReadyFrame
  <2>6. ReadyFrame(c, value)
    <3>1. value[f.wire] # NULL
      BY <1>3, <2>1 DEF ReadyFrame
    <3>2. Signals(p[1]) => Inputs[p[1]] = <<f.wire>>
      BY <2>3, RingFacts
    <3> HIDE DEF c, p
    <3>3. QED
      BY <2>3, <3>1, <3>2 DEF ReadyFrame, Ready
  <2> HIDE DEF rest, c, p
  <2>7. QED
    BY <1>4, <2>2, <2>3, <2>4, <2>5, <2>6
<1>18. CASE NotifyDone(t)
  BY <1>4, <1>18 DEF NotifyDone
<1>19. QED
  BY <1>5, <1>6, <1>7, <1>8, <1>9, <1>10, <1>11, <1>12, <1>13, <1>14, <1>15, <1>16,
     <1>17, <1>18 DEF Step

\* Which frames have the edge.
LEMMA Weights ==
  ASSUME TypeOK, NEW f \in Frame
  PROVE  /\ Bit(f, Carrying) = IF Carries(f) THEN 1 ELSE 0
         /\ f.at \in {"call", "make", "append", "run", "loop"} =>
              (Carries(f) <=> Signals(f.gate))
         /\ f.at = "wipe" => ~Carries(f)
         /\ f.at = "write" => Carries(f)
         /\ f.at = "notify" => (Carries(f) <=>
               \E n \in f.next .. Len(Drivens[f.wire]) : Signals(Drivens[f.wire][n][1]))
<1>1. Bit(f, Carrying) = IF Carries(f) THEN 1 ELSE 0
  BY DEF Bit, Carrying
<1>2. QED
  BY <1>1 DEF Carries

\* A ring's gate that runs, runs to its write.
LEMMA RingGateDrives ==
  ASSUME TypeOK, IsRing(circuit), NEW g \in Gates, Kind[g] # "sniffer", Ready(g, value)
  PROVE  Complete(g) /\ Logic(Kind[g], Vals(g)) # NULL /\ Output[g] # NULL
<1>1. /\ Kind[g] \in Kinds \ {"xor"} /\ Len(Inputs[g]) = 1 /\ Output[g] # NULL
      /\ Handler = "direct"
  BY RingFacts, Wired
<1>2. DOMAIN Inputs[g] = {1}
  <2>1. Inputs[g] \in Seq(Wires)
    BY Wired
  <2>2. DOMAIN Inputs[g] = 1 .. 1
    BY <1>1, <2>1
  <2>3. QED
    BY <2>2
<1>3. Complete(g)
  BY <1>1, <1>2 DEF Complete, Read, Ready
<1>4. Vals(g) \in Seq(BOOLEAN) /\ Len(Vals(g)) = 1
  BY <1>1, <1>3, ValsType
<1>5. NULL \notin BOOLEAN
  BY PropagationAssumption
<1>6. Logic(Kind[g], Vals(g)) # NULL
  <2> DEFINE vals == Vals(g)
             kind == Kind[g]
  <2>1. vals \in Seq(BOOLEAN) /\ Len(vals) = 1 /\ vals # <<>>
    BY <1>4
  <2>2. kind \in Kinds \ {"xor"}
    BY <1>1
  <2> HIDE DEF vals, kind
  <2>3. Logic(kind, vals) \in BOOLEAN
    BY <2>1, <2>2 DEF Logic, Kinds, Nand, Nor, And, Or, Not, Some
  <2>4. QED
    BY <1>5, <2>3 DEF vals, kind
<1>7. QED
  BY <1>1, <1>3, <1>6

Lost == \E g \in Gates : ~enabled[g]

LEMMA EdgesStep ==
  ASSUME BaseInv, IsRing(circuit), ReadyInv, IsFiniteSet(Waiting), NEW t \in Threads, Step(t)
  PROVE  /\ IsFiniteSet(Waiting')
         /\ \/ Edges' = Edges
            \/ Edges' = Edges - 1 /\ Lost
            \/ Edges' \in 0 .. Edges /\ ~BreaksInOneThread(circuit)
<1> USE DEF BaseInv
<1>1. circuit' = circuit /\ stack[t] # <<>>
  BY FiniteStep
<1>2. stack \in [Threads -> Seq(Frame)] /\ stack' \in [Threads -> Seq(Frame)]
  BY FiniteStep DEF TypeOK
<1>3. BreaksInOneThread(circuit) /\ Top(t).at \in Between => Fits(Top(t), breaker)
  <2>1. stack[t] \in Seq(Frame)
    BY DEF TypeOK
  <2>2. Len(stack[t]) \in Nat \ {0} /\ Top(t) = stack[t][Len(stack[t])]
    BY <1>1, <2>1, EndOfSeq DEF Top
  <2>3. QED
    BY <2>2 DEF BreakerInv, Deals
<1>4. Top(t) \in Frame /\ ReadyFrame(Top(t), value)
  <2>1. stack[t] \in Seq(Frame)
    BY DEF TypeOK
  <2>2. Len(stack[t]) \in Nat \ {0} /\ Top(t) = stack[t][Len(stack[t])]
    BY <1>1, <2>1, EndOfSeq DEF Top
  <2>3. QED
    BY <2>1, <2>2, ElementOfSeq DEF ReadyInv, ReadyStack
<1> DEFINE C == Cardinality(Where(Carrying))
           W == Cardinality(Waiting)
           b(f) == Bit(f, Carrying)
<1>5. /\ Edges = C + W + Queued /\ C \in Nat /\ W \in Nat /\ Queued \in Nat
      /\ Edges' = Cardinality(WhereNext(Carrying)) + Cardinality(Waiting') + Queued'
  BY <1>1, <1>2, EdgesAre, EdgesNextAre, WhereFinite, FS_CardinalityType DEF Queued, TypeOK
<1>6. Waiting' = Waiting \/ tasks' # tasks
  BY <1>1 DEF Waiting, Gates
<1>7. ASSUME Return(t) PROVE Cardinality(WhereNext(Carrying)) = C - b(Top(t))
  BY <1>1, <1>2, <1>7, CountReturn
<1>8. ASSUME NEW f \in Frame, Goto(t, f)
      PROVE  Cardinality(WhereNext(Carrying)) = C - b(Top(t)) + b(f)
  BY <1>1, <1>2, <1>8, CountGoto
<1>9. ASSUME NEW f \in Frame, NEW c \in Frame, CallFrom(t, f, c)
      PROVE  Cardinality(WhereNext(Carrying)) = C - b(Top(t)) + b(f) + b(c)
  BY <1>1, <1>2, <1>9, CountCall
<1>10. \A f \in Frame : b(f) \in {0, 1} /\ (b(f) = 1 <=> Carries(f))
  BY Weights
<1> HIDE DEF C, W, b
<1>11. ASSUME UNCHANGED <<tasks, breaker>>
       PROVE  IsFiniteSet(Waiting') /\ Cardinality(Waiting') = W /\ Queued' = Queued
  <2>1. Waiting' = Waiting
    BY <1>6, <1>11
  <2>2. IsFiniteSet(Waiting') /\ Cardinality(Waiting') = Cardinality(Waiting)
    BY <2>1
  <2>3. QED
    BY <1>11, <2>2 DEF W, Queued
<1>12. ASSUME UNCHANGED <<tasks, breaker>>, Return(t), ~Carries(Top(t))
       PROVE  IsFiniteSet(Waiting') /\ Edges' = Edges
  <2>1. b(Top(t)) = 0
    BY <1>4, <1>10, <1>12
  <2>2. QED
    BY <1>5, <1>7, <1>11, <1>12, <2>1
<1>13. ASSUME UNCHANGED <<tasks, breaker>>, NEW f \in Frame, Goto(t, f),
              Carries(f) => Carries(Top(t)), Carries(Top(t)) /\ ~Carries(f) => Lost
       PROVE  IsFiniteSet(Waiting') /\ (Edges' = Edges \/ (Edges' = Edges - 1 /\ Lost))
  <2>1. b(Top(t)) = b(f) \/ (b(Top(t)) = 1 /\ b(f) = 0 /\ Lost)
    BY <1>4, <1>10, <1>13
  <2>2. b(Top(t)) \in {0, 1} /\ b(f) \in {0, 1}
    BY <1>4, <1>10
  <2>3. QED
    BY <1>5, <1>8, <1>11, <1>13, <2>1, <2>2
<1>14. ASSUME UNCHANGED <<tasks, breaker>>, NEW f \in Frame, NEW c \in Frame, CallFrom(t, f, c),
              Carries(Top(t)) <=> Carries(f) \/ Carries(c), ~(Carries(f) /\ Carries(c))
       PROVE  IsFiniteSet(Waiting') /\ Edges' = Edges
  <2>1. b(Top(t)) \in {0, 1} /\ b(f) \in {0, 1} /\ b(c) \in {0, 1}
    BY <1>4, <1>10
  <2>2. b(Top(t)) = b(f) + b(c)
    <3>1. (b(Top(t)) = 1 <=> b(f) = 1 \/ b(c) = 1) /\ ~(b(f) = 1 /\ b(c) = 1)
      BY <1>4, <1>10, <1>14
    <3>2. QED
      BY <2>1, <3>1
  <2>3. QED
    BY <1>5, <1>9, <1>11, <1>14, <2>1, <2>2
<1>15. CASE CallDefault(t)
  <2> DEFINE f == Run(Top(t).gate, Top(t).value)
  <2>1. Top(t).at = "call" /\ f \in Frame
    BY <1>4, <1>15, TopFrame, NewFrames DEF CallDefault, Frame
  <2>2. f.at = "run" /\ f.gate = Top(t).gate
    BY DEF Run, F
  <2>3. Goto(t, f) /\ UNCHANGED <<tasks, breaker>>
    BY <1>15 DEF CallDefault
  <2> HIDE DEF f
  <2>4. Carries(f) <=> Carries(Top(t))
    BY <1>4, <2>1, <2>2, Weights
  <2>5. QED
    BY <1>13, <2>1, <2>3, <2>4
<1>16. CASE CallBreaker(t)
  <2> DEFINE f == IF IsFirstCall THEN Make(Top(t).gate, Top(t).value)
                                 ELSE Enqueue(Top(t).gate, Top(t).value)
  <2>1. Top(t).at = "call"
    BY <1>16, TopFrame DEF CallBreaker
  <2>2. Goto(t, f) /\ f \in Frame /\ f.at \in {"make", "append"} /\ f.gate = Top(t).gate
    BY <1>16, BreakerFrame
  <2>3. UNCHANGED <<tasks, breaker>>
    BY <1>16 DEF CallBreaker
  <2> HIDE DEF f
  <2>4. Carries(f) <=> Carries(Top(t))
    BY <1>4, <2>1, <2>2, Weights
  <2>5. QED
    BY <1>13, <2>2, <2>3, <2>4
<1>17. ASSUME tasks' = tasks PROVE IsFiniteSet(Waiting') /\ Cardinality(Waiting') = W
  <2>1. Waiting' = Waiting
    BY <1>6, <1>17
  <2>2. IsFiniteSet(Waiting') /\ Cardinality(Waiting') = Cardinality(Waiting)
    BY <2>1
  <2>3. QED
    BY <2>2 DEF W
<1>18. CASE MakeQueue(t)
  <2> DEFINE f == Loop(Top(t).gate, Top(t).value)
  <2>1. Top(t).at = "make" /\ f \in Frame
    BY <1>4, <1>18, TopFrame, NewFrames DEF MakeQueue, Frame
  <2>2. f.at = "loop" /\ f.gate = Top(t).gate
    BY DEF Loop, F
  <2>3. Goto(t, f) /\ tasks' = tasks /\ breaker' = <<>>
    BY <1>18 DEF MakeQueue
  <2> HIDE DEF f
  <2>4. b(Top(t)) \in {0, 1} /\ b(f) = b(Top(t))
    BY <1>4, <1>10, <2>1, <2>2, Weights
  <2>5. Queued' = 0 /\ (BreaksInOneThread(circuit) => Queued = 0)
    BY <1>3, <2>1, <2>3 DEF Queued, Between, Fits
  <2>6. Cardinality(WhereNext(Carrying)) = C
    BY <1>5, <1>8, <2>1, <2>3, <2>4
  <2>7. QED
    BY <1>5, <1>17, <2>3, <2>5, <2>6
<1>19. CASE AppendTask(t)
  <2>1. Top(t).at = "append" /\ Top(t).gate \in Gates /\ Behavior[Top(t).gate] = "loopbreaker"
    BY <1>4, <1>19, TopFrame DEF AppendTask, Frame, ReadyFrame
  <2>2. Signals(Top(t).gate)
    BY <2>1, RingFacts, Wired DEF Signals
  <2>3. b(Top(t)) = 1
    BY <1>4, <1>10, <2>1, <2>2, Weights
  <2>4. Return(t) /\ tasks' = tasks /\ breaker # NULL
    BY <1>19 DEF AppendTask
  <2>5. Queued' = Queued + 1
    <3>1. breaker' \in Seq(Gates \X Value) /\ Len(breaker') = Len(breaker) + 1
      BY <1>19, QueueGrows
    <3>2. breaker' # NULL
      BY <3>1, Wired
    <3>3. QED
      BY <2>4, <3>1, <3>2 DEF Queued
  <2>6. QED
    BY <1>5, <1>7, <1>17, <2>3, <2>4, <2>5
<1>20. CASE CallAsync(t)
  <2>1. Top(t).at = "call" /\ Top(t).gate \in Gates /\ Behavior[Top(t).gate] = "async"
    BY <1>4, <1>20, TopFrame DEF CallAsync, Frame
  <2>2. Signals(Top(t).gate)
    BY <2>1, RingFacts, Wired DEF Signals
  <2>3. b(Top(t)) = 1
    BY <1>4, <1>10, <2>1, <2>2, Weights
  <2>4. CASE Submits
    <3>1. Return(t) /\ tasks' = [tasks EXCEPT ![Top(t).gate] = @ + 1] /\ breaker' = breaker
      BY <1>20, <2>4 DEF CallAsync
    <3>2. IsFiniteSet(Waiting') /\ Cardinality(Waiting') = W + 1
      BY <1>1, <2>1, <3>1, WaitingAdd DEF W, TypeOK
    <3>3. Queued' = Queued
      BY <3>1 DEF Queued
    <3>4. QED
      BY <1>5, <1>7, <2>3, <3>1, <3>2, <3>3
  <2>5. CASE ~Submits
    <3>1. stack' = stack /\ tasks' = tasks /\ breaker' = breaker
      BY <1>20, <2>5 DEF CallAsync
    <3>2. WhereNext(Carrying) = Where(Carrying)
      BY <3>1 DEF WhereNext, Where, Frames, Threads
    <3>3. Cardinality(WhereNext(Carrying)) = C
      BY <3>2 DEF C
    <3>4. QED
      BY <1>5, <1>11, <3>1, <3>3
  <2>6. QED
    BY <2>4, <2>5
<1>21. CASE LoopExecute(t)
  <2> DEFINE f == Loop(NULL, NULL)
             c == Run(Top(t).gate, Top(t).value)
  <2>1. Top(t).at = "loop" /\ Top(t).gate \in Gates
    BY <1>4, <1>21, TopFrame DEF LoopExecute, Frame
  <2>2. f \in Frame /\ c \in Frame
    BY <1>4, <2>1, NewFrames DEF Frame
  <2>3. f.at = "loop" /\ f.gate = NULL /\ c.at = "run" /\ c.gate = Top(t).gate
    BY DEF Loop, Run, F
  <2>4. UNCHANGED <<tasks, breaker>>
    BY <1>21 DEF LoopExecute
  <2>5. CallFrom(t, f, c) \/ (Goto(t, f) /\ ~enabled[Top(t).gate])
    BY <1>21 DEF LoopExecute, IsEnabled
  <2> HIDE DEF f, c
  <2>6. ~Carries(f) /\ (Carries(c) <=> Carries(Top(t)))
    BY <1>4, <2>1, <2>2, <2>3, Weights DEF Signals
  <2>7. QED
    BY <1>13, <1>14, <2>1, <2>2, <2>4, <2>5, <2>6 DEF Lost
<1>22. CASE LoopNext(t)
  <2>1. /\ Top(t).at = "loop" /\ Top(t).gate = NULL /\ breaker # NULL /\ tasks' = tasks
        /\ HasBreaker
    BY <1>22, TopFrame, BreakerSteps DEF LoopNext, AtBreaker
  <2>2. b(Top(t)) = 0
    BY <1>4, <1>10, <2>1, Weights DEF Signals
  <2>3. IsFiniteSet(Waiting') /\ Cardinality(Waiting') = W
    BY <1>17, <2>1
  <2>4. CASE breaker = <<>>
    <3>1. Goto(t, Wipe) /\ breaker' = breaker
      BY <1>22, <2>4 DEF LoopNext
    <3>2. Wipe \in Frame /\ Wipe.at = "wipe"
      BY <2>1, NewFrames DEF Wipe, F, HasBreaker, Value
    <3>3. ~Carries(Wipe) /\ ~Carries(Top(t))
      BY <1>4, <2>1, <3>2, Weights DEF Signals
    <3>4. QED
      BY <1>13, <2>1, <3>1, <3>2, <3>3
  <2>5. CASE breaker # <<>>
    <3> DEFINE f == Loop(Head(breaker)[1], Head(breaker)[2])
    <3>1. /\ f \in Frame /\ f.at = "loop" /\ f.gate = Head(breaker)[1]
          /\ Tail(breaker) \in Seq(Gates \X Value) /\ Head(breaker)[1] \in Gates
      BY <2>1, <2>5, PoppedFrame DEF Loop, F
    <3>2. /\ breaker \in Seq(Gates \X Value) /\ Len(breaker) \in Nat \ {0}
          /\ Head(breaker) = breaker[1] /\ Len(Tail(breaker)) = Len(breaker) - 1
      BY <2>1, <2>5, HeadTailProperties, EmptySeq DEF TypeOK
    <3>3. Goto(t, f) /\ breaker' = Tail(breaker)
      BY <1>22, <2>5 DEF LoopNext, Popped
    <3>4. Signals(f.gate)
      <4>1. Behavior[breaker[1][1]] = "loopbreaker"
        BY <2>1, <3>2 DEF ReadyInv
      <4> DEFINE g == breaker[1][1]
      <4>2. g \in Gates /\ f.gate = g
        BY <3>1, <3>2
      <4> HIDE DEF g, f
      <4>3. Kind[g] # "sniffer" /\ g # NULL
        BY <4>1, <4>2, RingFacts, Wired DEF g
      <4>4. QED
        BY <4>2, <4>3 DEF Signals
    <3>5. Queued' = Queued - 1
      <4>1. breaker' # NULL
        BY <3>1, <3>3, Wired
      <4>2. QED
        BY <2>1, <3>2, <3>3, <4>1 DEF Queued
    <3> HIDE DEF f
    <3>6. b(f) = 1
      BY <1>10, <3>1, <3>4, Weights
    <3>7. Cardinality(WhereNext(Carrying)) = C + 1
      BY <1>5, <1>8, <2>2, <3>1, <3>3, <3>6
    <3>8. QED
      BY <1>5, <2>3, <3>5, <3>7
  <2>6. QED
    BY <2>4, <2>5
<1>23. CASE WipeQueue(t)
  <2>1. Top(t).at = "wipe" /\ Return(t) /\ tasks' = tasks /\ breaker' = NULL
    BY <1>23, TopFrame DEF WipeQueue
  <2>2. b(Top(t)) = 0
    BY <1>4, <1>10, <2>1, Weights
  <2>3. Queued' = 0 /\ (BreaksInOneThread(circuit) => Queued = 0)
    BY <1>3, <2>1 DEF Queued, Between, Fits
  <2>4. Cardinality(WhereNext(Carrying)) = C
    BY <1>5, <1>7, <2>1, <2>2
  <2>5. QED
    BY <1>5, <1>17, <2>1, <2>3, <2>4
<1>24. CASE CrashAtQueue(t)
  <2>1. stack' = stack /\ UNCHANGED <<tasks, breaker>>
    BY <1>24 DEF CrashAtQueue
  <2>2. WhereNext(Carrying) = Where(Carrying)
    BY <2>1 DEF WhereNext, Where, Frames, Threads
  <2>3. Cardinality(WhereNext(Carrying)) = C
    BY <2>2 DEF C
  <2>4. QED
    BY <1>5, <1>11, <2>1, <2>3
<1>25. CASE Execute(t)
  <2> DEFINE g == Top(t).gate
             w == Write(g, Output[g], Logic(Kind[g], Vals(g)))
  <2>1. g \in Gates /\ Kind[g] # "sniffer" /\ Top(t).at = "run"
    BY <1>25, TopFrame DEF Execute, Frame
  <2>2. Signals(g) /\ Ready(g, value)
    BY <1>4, <2>1, Wired DEF ReadyFrame, Signals
  <2>3. Complete(g) /\ Logic(Kind[g], Vals(g)) # NULL /\ Output[g] # NULL
    BY <2>1, <2>2, RingGateDrives
  <2>4. w \in Frame /\ w.at = "write"
    BY <2>1, <2>3, WrittenFrame
  <2>5. Goto(t, w) /\ UNCHANGED <<tasks, breaker>>
    BY <1>25, <2>3 DEF Execute
  <2> HIDE DEF w
  <2>6. Carries(Top(t)) /\ Carries(w)
    BY <1>4, <2>1, <2>2, <2>4, Weights
  <2>7. QED
    BY <1>13, <2>4, <2>5, <2>6
<1>26. CASE Sniff(t)
  <2>1. Top(t).at = "run" /\ Kind[Top(t).gate] = "sniffer"
    BY <1>26, TopFrame DEF Sniff
  <2>2. ~Carries(Top(t))
    BY <1>4, <2>1, Weights DEF Signals
  <2>3. QED
    BY <1>12, <1>26, <2>2 DEF Sniff
<1>27. CASE WriteWire(t)
  <2> DEFINE f == Notify(Top(t).gate, Top(t).wire, Top(t).value, 1)
  <2>1. /\ Top(t).at = "write" /\ Top(t).wire \in Wires
        /\ Goto(t, f) /\ UNCHANGED <<tasks, breaker>>
    BY <1>4, <1>27, TopFrame DEF WriteWire, Frame
  <2>2. f \in Frame /\ f.at = "notify" /\ f.wire = Top(t).wire /\ f.next = 1
    BY <1>4, <2>1 DEF Notify, F, Frame
  <2> HIDE DEF f
  <2>3. Carries(f)
    <3>1. \E m \in 1 .. Len(Drivens[f.wire]) : Signals(Drivens[f.wire][m][1])
      BY <2>1, <2>2, RingFacts
    <3>2. QED
      BY <2>2, <3>1, Weights
  <2>4. Carries(Top(t))
    BY <1>4, <2>1, Weights
  <2>5. QED
    BY <1>13, <2>1, <2>2, <2>3, <2>4
<1>28. CASE NotifyNext(t)
  <2> DEFINE f == Top(t)
             p == Drivens[f.wire][f.next]
             rest == Notify(f.gate, f.wire, f.value, f.next + 1)
             c == Call(p[1], f.value)
  <2>1. f.at = "notify" /\ More(f)
    BY <1>28, TopFrame DEF NotifyNext
  <2>2. /\ rest \in Frame /\ f.value \in Value /\ rest.next = f.next + 1
        /\ rest.wire = f.wire /\ rest.at = "notify"
    BY <1>4, <2>1 DEF Notify, F, Frame
  <2>3. /\ c \in Frame /\ c.at = "call" /\ c.gate = p[1] /\ p[1] \in Gates
        /\ f.wire \in Wires /\ f.next \in 1 .. Len(Drivens[f.wire]) /\ Len(Drivens[f.wire]) \in Nat
    BY <1>4, <2>1, <2>2, DrivenPort, NewFrames, Wired DEF Call, F
  <2>4. /\ CallFrom(t, rest, c) \/ (Goto(t, rest) /\ ~enabled[p[1]])
        /\ UNCHANGED <<tasks, breaker>>
    BY <1>28 DEF NotifyNext, IsEnabled
  <2>5. PICK m \in 1 .. Len(Drivens[f.wire]) :
          \A n \in 1 .. Len(Drivens[f.wire]) : Signals(Drivens[f.wire][n][1]) <=> n = m
    BY <2>3, RingFacts
  <2>6. Carries(f) <=> f.next <= m
    BY <1>4, <2>1, <2>3, <2>5, Weights
  <2>7. Carries(rest) <=> f.next + 1 <= m
    <3> HIDE DEF rest
    <3>1. Carries(rest) <=> \E n \in f.next + 1 .. Len(Drivens[f.wire]) : Signals(Drivens[f.wire][n][1])
      BY <2>2, Weights
    <3>2. QED
      BY <2>3, <2>5, <3>1
  <2>8. Carries(c) <=> f.next = m
    <3> HIDE DEF c
    <3>1. Carries(c) <=> Signals(p[1])
      BY <2>3, Weights
    <3>2. QED
      BY <2>3, <2>5, <3>1
  <2> HIDE DEF rest, c, p
  <2>9. CASE CallFrom(t, rest, c)
    <3>1. (Carries(Top(t)) <=> Carries(rest) \/ Carries(c)) /\ ~(Carries(rest) /\ Carries(c))
      BY <2>3, <2>5, <2>6, <2>7, <2>8
    <3>2. QED
      BY <1>14, <2>2, <2>3, <2>4, <2>9, <3>1
  <2>10. CASE Goto(t, rest) /\ ~enabled[p[1]]
    <3>1. (Carries(rest) => Carries(Top(t))) /\ Lost
      BY <2>3, <2>5, <2>6, <2>7, <2>10 DEF Lost
    <3>2. QED
      BY <1>13, <2>2, <2>4, <2>10, <3>1
  <2>11. QED
    BY <2>4, <2>9, <2>10
<1>29. CASE NotifyDone(t)
  <2>1. Top(t).at = "notify" /\ ~More(Top(t))
    BY <1>29, TopFrame DEF NotifyDone
  <2>2. ~Carries(Top(t))
    <3>1. Top(t).next \in Nat /\ Drivens[Top(t).wire] \in Seq(Ports)
      BY <1>4, <2>1, Wired DEF Frame
    <3>2. QED
      BY <1>4, <2>1, <3>1, Weights DEF More
  <2>3. QED
    BY <1>12, <1>29, <2>2 DEF NotifyDone
<1>30. QED
  BY <1>15, <1>16, <1>18, <1>19, <1>20, <1>21, <1>22, <1>23, <1>24, <1>25, <1>26,
     <1>27, <1>28, <1>29 DEF Step

\* The edge when no call, queue or task changes.
LEMMA EdgesStay ==
  ASSUME BaseInv, ReadyInv, UNCHANGED <<circuit, stack, tasks, breaker, value>>
  PROVE  /\ Edges' = Edges /\ Waiting' = Waiting
         /\ program' # "start" \/ program' = program => ReadyInv'
<1>1. /\ stack \in [Threads -> Seq(Frame)] /\ stack' \in [Threads -> Seq(Frame)]
      /\ circuit' = circuit
  BY DEF BaseInv, TypeOK
<1>2. WhereNext(Carrying) = Where(Carrying)
  BY DEF WhereNext, Where, Frames, Threads
<1>3. Waiting' = Waiting
  BY DEF Waiting, Gates
<1>4. Queued' = Queued
  BY DEF Queued
<1>5. Edges' = Edges
  <2>1. /\ Edges = Cardinality(Where(Carrying)) + Cardinality(Waiting) + Queued
        /\ Edges' = Cardinality(WhereNext(Carrying)) + Cardinality(Waiting') + Queued'
    BY <1>1, EdgesAre, EdgesNextAre
  <2>2. QED
    BY <1>2, <1>3, <1>4, <2>1, Zenon
<1>6. ASSUME program' # "start" \/ program' = program PROVE ReadyInv'
  BY <1>6 DEF ReadyInv, ReadyStack, ReadyFrame, Ready, Signals, Threads, Gates, Behavior,
     Inputs, Kind, Start
<1>7. QED
  BY <1>3, <1>5, <1>6

\* A stack that begins with a frame whose gate can run.
LEMMA ReadyBegins ==
  ASSUME BaseInv, IsRing(circuit), ReadyInv, circuit' = circuit, value' = value,
         breaker' = breaker, program' # "start",
         NEW t \in Threads, NEW f \in Frame, ReadyFrame(f, value),
         stack' = [stack EXCEPT ![t] = <<f>>],
         \A g \in Gates : tasks'[g] > 0 => tasks[g] > 0
  PROVE  ReadyInv'
<1>1. TypeOK /\ stack \in [Threads -> Seq(Frame)] /\ <<f>> \in Seq(Frame)
  BY DEF BaseInv, TypeOK
<1>2. stack' \in [Threads -> Seq(Frame)]
  BY <1>1
<1>3. \A u \in Threads : ReadyStack(stack'[u], value')
  <2>1. \A u \in Threads \ {t} : ReadyStack(stack'[u], value')
    BY <1>1 DEF ReadyInv
  <2>2. Len(stack'[t]) = 1 /\ stack'[t][1] = f
    BY <1>1
  <2>3. QED
    BY <2>1, <2>2 DEF ReadyStack
<1>4. QED
  BY <1>1, <1>2, <1>3, ReadyNext DEF ReadyInv

\* The edge when a stack begins with a gate that is no sniffer.
LEMMA EdgeBegins ==
  ASSUME BaseInv, circuit' = circuit, breaker' = breaker,
         IsFiniteSet(Waiting), IsFiniteSet(Waiting'),
         NEW t \in Threads, stack[t] = <<>>, NEW f \in Frame, Carries(f),
         stack' = [stack EXCEPT ![t] = <<f>>]
  PROVE  Edges' = Edges + 1 + Cardinality(Waiting') - Cardinality(Waiting)
<1>1. /\ stack \in [Threads -> Seq(Frame)] /\ stack' \in [Threads -> Seq(Frame)]
      /\ Cardinality(WhereNext(Carrying)) = Cardinality(Where(Carrying)) + Bit(f, Carrying)
      /\ Cardinality(Where(Carrying)) \in Nat
  BY CountBegins, WhereFinite DEF BaseInv, TypeOK
<1>2. Bit(f, Carrying) = 1
  BY Weights DEF BaseInv
<1>3. Queued' = Queued /\ Queued \in Nat
  BY DEF Queued, BaseInv, TypeOK
<1>4. /\ Edges = Cardinality(Where(Carrying)) + Cardinality(Waiting) + Queued
      /\ Edges' = Cardinality(WhereNext(Carrying)) + Cardinality(Waiting') + Queued'
  BY <1>1, EdgesAre, EdgesNextAre
<1>5. Cardinality(Waiting) \in Nat /\ Cardinality(Waiting') \in Nat
  BY FS_CardinalityType
<1> DEFINE W == Cardinality(Waiting)
           V == Cardinality(Waiting')
           C == Cardinality(Where(Carrying))
<1>6. W \in Nat /\ V \in Nat /\ C \in Nat /\ Edges = C + W + Queued /\ Edges' = (C + 1) + V + Queued
  BY <1>1, <1>2, <1>3, <1>4, <1>5
<1>7. (C + 1) + V + Queued = (C + W + Queued) + 1 + V - W
  <2> HIDE DEF C, W, V
  <2>1. QED
    BY <1>3, <1>6
<1>8. QED
  BY <1>6, <1>7

\* The invariant: the edge, and that its gate can run.
EdgeInv ==
  /\ ReadyInv /\ IsFiniteSet(Waiting)
  /\ Edges <= 1
  /\ program = "start" => Edges = 0
  /\ BreaksInOneThread(circuit) /\ program = "running" /\ ~Lost => Edges = 1

\* A task becomes a call, or its gate is disabled and the edge is lost.
LEMMA TaskEdges ==
  ASSUME BaseInv, IsRing(circuit), ReadyInv, IsFiniteSet(Waiting),
         NEW t \in Workers, NEW g \in Gates, TakeTask(t, g)
  PROVE  /\ ReadyInv' /\ IsFiniteSet(Waiting')
         /\ Edges' = Edges \/ (Edges' = Edges - 1 /\ Lost)
<1>1. /\ TypeOK /\ t \in Threads /\ stack[t] = <<>> /\ tasks[g] > 0 /\ Run(g, NULL) \in Frame
      /\ IF IsEnabled(g) THEN stack' = [stack EXCEPT ![t] = <<Run(g, NULL)>>] ELSE stack' = stack
  BY TaskBegins DEF BaseInv
<1>2. /\ circuit' = circuit /\ value' = value /\ breaker' = breaker /\ program' = program
      /\ tasks \in [Gates -> Nat] /\ tasks' = [tasks EXCEPT ![g] = @ - 1]
  BY <1>1 DEF TakeTask, Taken, TypeOK
<1>3. program # "start"
  BY <1>1 DEF BaseInv, Idle, NoTasks
<1>4. /\ IsFiniteSet(Waiting') /\ Cardinality(Waiting') = Cardinality(Waiting) - 1
      /\ Cardinality(Waiting) \in Nat
  BY <1>1, <1>2, WaitingTake
<1>5. \A h \in Gates : tasks'[h] > 0 => tasks[h] > 0
  BY <1>2
<1>6. Signals(g) /\ Ready(g, value)
  <2>1. Behavior[g] = "async" /\ Ready(g, value)
    BY <1>1 DEF ReadyInv
  <2>2. QED
    BY <1>1, <2>1, RingFacts, Wired DEF Signals
<1>7. CASE IsEnabled(g)
  <2> DEFINE f == Run(g, NULL)
  <2>1. f \in Frame /\ f.at = "run" /\ f.gate = g
    BY <1>1 DEF Run, F
  <2>2. stack' = [stack EXCEPT ![t] = <<f>>]
    BY <1>1, <1>7
  <2> HIDE DEF f
  <2>3. ReadyFrame(f, value) /\ Carries(f)
    BY <1>1, <1>6, <2>1, Weights DEF ReadyFrame
  <2>4. ReadyInv'
    BY <1>1, <1>2, <1>3, <1>5, <2>1, <2>2, <2>3, ReadyBegins
  <2>5. Edges' = Edges + 1 + Cardinality(Waiting') - Cardinality(Waiting)
    BY <1>1, <1>2, <1>4, <2>1, <2>2, <2>3, EdgeBegins
  <2>6. Edges' = Edges
    <3>1. /\ Edges = Cardinality(Where(Carrying)) + Cardinality(Waiting) + Queued
          /\ Cardinality(Where(Carrying)) \in Nat /\ Queued \in Nat
      BY <1>1, EdgesAre, WhereFinite DEF BaseInv, TypeOK, Queued
    <3>2. Edges \in Nat
      BY <1>4, <3>1
    <3>3. QED
      BY <1>4, <2>5, <3>2
  <2>7. QED
    BY <1>4, <2>4, <2>6
<1>8. CASE ~IsEnabled(g)
  <2>1. stack' = stack /\ Lost
    BY <1>1, <1>8 DEF IsEnabled, Lost
  <2>2. stack \in [Threads -> Seq(Frame)] /\ stack' \in [Threads -> Seq(Frame)]
    BY <2>1 DEF BaseInv, TypeOK
  <2>3. WhereNext(Carrying) = Where(Carrying) /\ Queued' = Queued
    BY <1>2, <2>1 DEF WhereNext, Where, Frames, Threads, Queued
  <2>4. Edges' = Edges - 1
    <3> DEFINE C == Cardinality(Where(Carrying))
               W == Cardinality(Waiting)
    <3>1. /\ Edges = C + W + Queued /\ Edges' = C + Cardinality(Waiting') + Queued
          /\ C \in Nat /\ Queued \in Nat
      BY <1>2, <2>2, <2>3, EdgesAre, EdgesNextAre, WhereFinite DEF BaseInv, TypeOK, Queued
    <3>2. W \in Nat /\ Edges' = C + (W - 1) + Queued
      BY <1>4, <3>1
    <3> HIDE DEF C, W
    <3>3. QED
      BY <3>1, <3>2
  <2>5. ReadyInv'
    <3>1. \A u \in Threads : ReadyStack(stack'[u], value')
      BY <1>2, <2>1 DEF ReadyInv
    <3>2. QED
      BY <1>1, <1>2, <1>3, <1>5, <2>2, <3>1, ReadyNext DEF ReadyInv
  <2>6. QED
    BY <1>4, <2>1, <2>4, <2>5
<1>9. QED
  BY <1>7, <1>8

\* The oscillator starts, with its first edge.
LEMMA StartEdges ==
  ASSUME BaseInv, IsRing(circuit), EdgeInv, StartOscillator
  PROVE  EdgeInv'
<1>1. TypeOK /\ Start \in Gates /\ Signals(Start) /\ stack[Main] = <<>> /\ Main \in Threads
  BY RingFacts, Wired DEF StartOscillator, BaseInv, Idle
<1> DEFINE f == Call(Start, NULL)
<1>2. f \in Frame /\ f.at = "call" /\ f.gate = Start
  BY <1>1, NewFrames DEF Value, Call, F
<1>3. /\ stack' = [stack EXCEPT ![Main] = <<f>>] /\ circuit' = circuit /\ value' = value
      /\ tasks' = tasks /\ breaker' = breaker /\ program = "start" /\ program' = "running"
  BY DEF StartOscillator
<1> HIDE DEF f
<1>4. ReadyFrame(f, value) /\ Carries(f)
  BY <1>1, <1>2, <1>3, Weights DEF EdgeInv, ReadyInv, ReadyFrame
<1>5. ReadyInv'
  BY <1>1, <1>2, <1>3, <1>4, ReadyBegins DEF EdgeInv
<1>6. Waiting' = Waiting
  BY <1>3 DEF Waiting, Gates
<1>7. IsFiniteSet(Waiting')
  BY <1>6 DEF EdgeInv
<1>8. Edges' = Edges + 1 + Cardinality(Waiting') - Cardinality(Waiting)
  BY <1>1, <1>2, <1>3, <1>4, <1>7, EdgeBegins DEF EdgeInv
<1>9. Cardinality(Waiting') = Cardinality(Waiting) /\ Cardinality(Waiting) \in Nat
  BY <1>6, FS_CardinalityType DEF EdgeInv
<1>10. Edges' = 1
  BY <1>3, <1>8, <1>9 DEF EdgeInv
<1>11. QED
  BY <1>3, <1>5, <1>7, <1>10 DEF EdgeInv

RingInv == IsRing(circuit) => EdgeInv

LEMMA OneEdgeInv == Spec => []RingInv
<1>1. BaseInv /\ Init => RingInv
  <2> SUFFICES ASSUME BaseInv, Init, IsRing(circuit) PROVE EdgeInv
    BY DEF RingInv
  <2>1. TypeOK
    BY DEF BaseInv
  <2>2. /\ Start \in Gates /\ Signals(Start) /\ Start # NULL /\ NULL \notin BOOLEAN
        /\ Inputs[Start][1] \in Wires
    BY <2>1, RingFacts, Wired DEF Signals
  <2>3. value[Inputs[Start][1]] = FALSE
    BY <2>2 DEF Init
  <2>4. Ready(Start, value)
    BY <2>2, <2>3 DEF Ready
  <2>5. Frames = {} /\ Waiting = {}
    BY DEF Init, Frames, Waiting
  <2>6. ReadyInv
    <3>1. \A t \in Threads : ReadyStack(stack[t], value)
      BY DEF Init, ReadyStack
    <3>2. /\ breaker = NULL
          /\ \A g \in Gates : ~(tasks[g] > 0)
      BY DEF Init
    <3>3. QED
      BY <2>4, <3>1, <3>2 DEF ReadyInv
  <2>7. Carriers = {}
    BY <2>5 DEF Carriers
  <2>8. Cardinality(Carriers) = 0 /\ Cardinality(Waiting) = 0 /\ IsFiniteSet(Waiting)
    BY <2>5, <2>7, FS_EmptySet
  <2>9. Edges = 0
    BY <2>8 DEF Edges, Init
  <2>10. program = "start"
    BY <2>2 DEF Init
  <2>11. QED
    BY <2>6, <2>8, <2>9, <2>10 DEF EdgeInv
<1>2. BaseInv /\ RingInv /\ [Next]_vars => RingInv'
  <2>0. [Next]_vars => circuit' = circuit
    BY DEF Next, vars, StartOscillator, DisableGate, ShutdownPool, DestroyCircuit,
       DriveWire, TakeTask, Step, CallDefault, CallBreaker, CallAsync, MakeQueue,
       AppendTask, LoopExecute, LoopNext, WipeQueue, CrashAtQueue, Execute, Sniff,
       WriteWire, NotifyNext, NotifyDone
  <2> SUFFICES ASSUME BaseInv, RingInv, [Next]_vars, IsRing(circuit) PROVE EdgeInv'
    BY <2>0 DEF RingInv
  <2>1. TypeOK /\ EdgeInv /\ ReadyInv /\ IsFiniteSet(Waiting) /\ Edges <= 1
    BY DEF BaseInv, RingInv, EdgeInv
  <2>2. Edges \in Nat
    <3>1. /\ Edges = Cardinality(Where(Carrying)) + Cardinality(Waiting) + Queued
          /\ Cardinality(Where(Carrying)) \in Nat /\ Queued \in Nat
          /\ Cardinality(Waiting) \in Nat
      BY <2>1, EdgesAre, WhereFinite, FS_CardinalityType DEF BaseInv, TypeOK, Queued
    <3>2. QED
      BY <3>1
  <2>3. ASSUME ReadyInv', IsFiniteSet(Waiting'), program # "start",
               program' \in {program, "aborted"}, UNCHANGED <<circuit, enabled>>,
               \/ Edges' = Edges
               \/ Edges' = Edges - 1 /\ Lost
               \/ Edges' \in 0 .. Edges /\ ~BreaksInOneThread(circuit)
        PROVE  EdgeInv'
    <3>1. Lost' <=> Lost
      BY <2>3 DEF Lost, Gates
    <3>2. Edges' <= 1
      BY <2>1, <2>2, <2>3
    <3>3. BreaksInOneThread(circuit)' /\ program' = "running" /\ ~Lost => Edges' = 1
      BY <2>1, <2>3 DEF EdgeInv, BreaksInOneThread
    <3>4. QED
      BY <2>3, <3>1, <3>2, <3>3 DEF EdgeInv
  <2>4. ASSUME UNCHANGED <<circuit, stack, tasks, breaker, value>>,
               program' = program \/ (program' # "start" /\ program' # "running"),
               Lost => Lost'
        PROVE  EdgeInv'
    <3>1. Edges' = Edges /\ Waiting' = Waiting /\ ReadyInv'
      BY <2>1, <2>4, EdgesStay
    <3>2. IsFiniteSet(Waiting')
      BY <2>1, <3>1
    <3>3. QED
      BY <2>1, <2>4, <3>1, <3>2 DEF EdgeInv
  <2>5. CASE StartOscillator
    BY <2>1, <2>5, StartEdges
  <2>6. ASSUME NEW g \in Gates, DisableGate(g) PROVE EdgeInv'
    <3>1. Lost'
      BY <2>1, <2>6 DEF DisableGate, Lost, Gates, TypeOK
    <3>2. QED
      BY <2>4, <2>6, <3>1 DEF DisableGate
  <2>7. CASE ShutdownPool
    BY <2>4, <2>7 DEF ShutdownPool, Lost, Gates
  <2>8. CASE DestroyCircuit
    BY <2>4, <2>8 DEF DestroyCircuit, Lost, Gates
  <2>9. ASSUME NEW w \in Stimuli, NEW v \in BOOLEAN, DriveWire(w, v) PROVE FALSE
    BY <2>1, <2>9, RingFacts, Wired DEF DriveWire
  <2>10. ASSUME NEW t \in Threads, Step(t) PROVE EdgeInv'
    <3>1. /\ circuit' = circuit /\ enabled' = enabled /\ stack[t] # <<>>
          /\ program' \in {program, "aborted"}
      <4>1. enabled' = enabled
        BY <2>10 DEF Step, CallDefault, CallBreaker, CallAsync, MakeQueue, AppendTask,
           LoopExecute, LoopNext, WipeQueue, CrashAtQueue, Execute, Sniff, WriteWire,
           NotifyNext, NotifyDone
      <4>2. QED
        BY <2>1, <2>10, <4>1, FiniteStep, StepTasks DEF BaseInv
    <3>2. program # "start"
      BY <3>1 DEF BaseInv, Idle
    <3>3. ReadyInv'
      BY <2>1, <2>10, ReadyStep
    <3>4. /\ IsFiniteSet(Waiting')
          /\ \/ Edges' = Edges
             \/ Edges' = Edges - 1 /\ Lost
             \/ Edges' \in 0 .. Edges /\ ~BreaksInOneThread(circuit)
      BY <2>1, <2>10, EdgesStep
    <3>5. QED
      BY <2>3, <3>1, <3>2, <3>3, <3>4
  <2>11. ASSUME NEW t \in Workers, NEW g \in Gates, TakeTask(t, g) PROVE EdgeInv'
    <3>1. /\ circuit' = circuit /\ enabled' = enabled /\ program' = program /\ tasks[g] > 0
      BY <2>11, <2>1, TaskBegins DEF TakeTask
    <3>2. program # "start"
      BY <3>1 DEF BaseInv, Idle, NoTasks
    <3>3. QED
      BY <2>1, <2>3, <2>11, <3>1, <3>2, TaskEdges
  <2>12. CASE UNCHANGED vars
    BY <2>4, <2>12 DEF vars, Lost, Gates
  <2>13. QED
    BY <2>5, <2>6, <2>7, <2>8, <2>9, <2>10, <2>11, <2>12 DEF Next
<1>3. QED
  BY <1>1, <1>2, Base, PTL DEF Spec

\* In every circuit where each wire leads to one gate and each gate to one wire,
\* sniffers aside, of any length, whichever of the three behaviours its gates have
\* and whatever threads run them, there are never two edges.  While its gates are
\* enabled exactly one call, queued call, task or write is under way, if its calls
\* of lxc_execution_loopbreaker are all in one thread: where several threads use
\* LOOP_BREAKER, which nothing locks, the edge may get lost.
THEOREM OneEdgeCirculates ==
  ASSUME \A c \in Circuits : IsRing(c)
  PROVE  Spec => []OneEdge
<1>1. EdgeInv => OneEdge
  BY DEF EdgeInv, OneEdge, Lost
<1>2. BaseInv /\ RingInv => EdgeInv
  BY DEF BaseInv, TypeOK, RingInv
<1>3. QED
  BY <1>1, <1>2, Base, OneEdgeInv, PTL
-----------------------------------------------------------------------------
(* A write is never late.                                                   *)

\* Frames but for writes of a value that their gate does not compute any more.
Current ==
  {f \in Frame : f.at = "write" /\ f.gate # NULL =>
                   Complete(f.gate) /\ f.value = Logic(Kind[f.gate], Vals(f.gate))}

\* A call that writes calls nothing else.
Writes(s) == \A i \in 1 .. Len(s) : s[i].at = "write" => i = Len(s) /\ s[i] \in Current

\* What the writes rest on: without asynchronous gates the pool has no work.
CurrentInv ==
  /\ \A g \in Gates : tasks[g] > 0 => Behavior[g] = "async"
  /\ Async = {} => \A t \in Workers : stack[t] = <<>>
  /\ Handler = "direct" => \A t \in Threads : Writes(stack[t])

LEMMA CurrentStays ==
  ASSUME circuit' = circuit, value' = value, Handler = "direct"
  PROVE  Current' = Current
<1>1. /\ Frame' = Frame /\ Kind' = Kind /\ Inputs' = Inputs /\ Handler' = Handler
  BY SameCircuit DEF Kind, Inputs, Handler
<1>2. \A g : Vals(g)' = Vals(g) /\ (Complete(g)' <=> Complete(g))
  BY <1>1 DEF Vals, Complete, Read
<1>3. QED
  BY <1>1, <1>2 DEF Current

\* A step that writes nothing, on the stack of one thread.
LEMMA WritesStep ==
  ASSUME TypeOK, circuit' = circuit, value' = value, Handler = "direct",
         NEW t \in Threads, stack[t] # <<>>, \A u \in Threads : Writes(stack[u]),
         \/ Return(t)
         \/ \E f \in Current : Goto(t, f)
         \/ \E f, c \in Current : CallFrom(t, f, c) /\ f.at # "write"
  PROVE  \A u \in Threads : Writes(stack[u])'
<1> DEFINE n == Len(stack[t])
<1>1. stack \in [Threads -> Seq(Frame)] /\ n \in Nat \ {0} /\ Current \subseteq Frame
  BY EndOfSeq DEF TypeOK, Current
<1>2. Current' = Current
  BY CurrentStays
<1>3. \A u \in Threads : \A i \in 1 .. Len(stack[u]) :
        stack[u][i].at = "write" => i = Len(stack[u]) /\ stack[u][i] \in Current
  BY DEF Writes
<1>4. ASSUME Keeps(t), Len(stack'[t]) \in Nat,
             \A i \in n .. Len(stack'[t]) :
               stack'[t][i].at = "write" => i = Len(stack'[t]) /\ stack'[t][i] \in Current
      PROVE  \A u \in Threads : Writes(stack[u])'
  <2> SUFFICES ASSUME NEW u \in Threads, NEW i \in 1 .. Len(stack'[u]), stack'[u][i].at = "write"
               PROVE  i = Len(stack'[u]) /\ stack'[u][i] \in Current
    BY <1>2 DEF Writes
  <2>1. CASE u # t
    BY <1>3, <1>4, <2>1 DEF Keeps
  <2>2. CASE u = t /\ i < n
    <3>1. stack'[u][i] = stack[t][i] /\ i \in 1 .. Len(stack[t]) /\ i # n
      BY <1>1, <1>4, <2>2 DEF Keeps
    <3>2. QED
      BY <1>3, <3>1
  <2>3. CASE u = t /\ i >= n
    BY <1>1, <1>4, <2>3
  <2>4. QED
    BY <1>1, <1>4, <2>1, <2>2, <2>3
<1>5. CASE Return(t)
  <2>1. Keeps(t) /\ Len(stack'[t]) = n - 1
    BY <1>1, <1>5, OnReturn
  <2>2. \A i \in n .. Len(stack'[t]) : FALSE
    BY <1>1, <2>1
  <2>3. QED
    BY <1>1, <1>4, <2>1, <2>2
<1>6. ASSUME NEW f \in Current, Goto(t, f) PROVE \A u \in Threads : Writes(stack[u])'
  <2>1. Keeps(t) /\ Len(stack'[t]) = n /\ stack'[t][n] = f
    BY <1>1, <1>6, OnGoto
  <2>2. \A i \in n .. Len(stack'[t]) : i = n
    BY <1>1, <2>1
  <2>3. QED
    BY <1>1, <1>4, <2>1, <2>2
<1>7. ASSUME NEW f \in Current, NEW c \in Current, CallFrom(t, f, c), f.at # "write"
      PROVE  \A u \in Threads : Writes(stack[u])'
  <2>1. Keeps(t) /\ Len(stack'[t]) = n + 1 /\ stack'[t][n] = f /\ stack'[t][n + 1] = c
    BY <1>1, <1>7, OnCall
  <2>2. \A i \in n .. Len(stack'[t]) : i = n \/ i = n + 1
    BY <1>1, <2>1
  <2>3. QED
    BY <1>1, <1>4, <1>7, <2>1, <2>2
<1>8. QED
  BY <1>5, <1>6, <1>7

\* One thread writes at a time, in a ring and without asynchronous gates.
LEMMA OneWriter ==
  ASSUME BaseInv, RingInv, CurrentInv, IsRing(circuit) \/ Async = {},
         NEW t \in Threads, NEW u \in Threads, At(t, "write"), At(u, "write")
  PROVE  t = u
<1>1. CASE Async = {}
  BY <1>1 DEF CurrentInv, At, Threads
<1>2. CASE IsRing(circuit)
  <2> DEFINE X == Where(Carrying)
             x == <<t, Len(stack[t])>>
             y == <<u, Len(stack[u])>>
  <2>1. TypeOK /\ stack \in [Threads -> Seq(Frame)] /\ IsFiniteSet(Frames)
    BY DEF BaseInv, TypeOK
  <2>2. Top(t) \in Carrying /\ Top(u) \in Carrying /\ stack[t] # <<>> /\ stack[u] # <<>>
    BY <2>1, TopFrame, Weights DEF Carrying
  <2>3. x \in X /\ y \in X
    BY <2>1, <2>2, TopWhere
  <2>4. IsFiniteSet(X) /\ Cardinality(X) \in Nat
    BY <2>1, WhereFinite
  <2>5. Cardinality(X) <= 1
    <3>1. Edges = Cardinality(X) + Cardinality(Waiting) + Queued /\ Edges <= 1
      BY <1>2, <2>1, EdgesAre DEF RingInv, EdgeInv
    <3>2. Cardinality(Waiting) \in Nat /\ Queued \in Nat
      BY <1>2, <2>1, FS_CardinalityType DEF RingInv, EdgeInv, Queued, TypeOK
    <3> HIDE DEF X
    <3>3. QED
      BY <2>4, <3>1, <3>2
  <2> HIDE DEF X
  <2>6. IsFiniteSet(X \ {x}) /\ Cardinality(X \ {x}) = Cardinality(X) - 1
    BY <2>3, <2>4, FS_RemoveElement
  <2>7. X \ {x} = {}
    <3>1. Cardinality(X \ {x}) \in Nat
      BY <2>6, FS_CardinalityType
    <3>2. Cardinality(X \ {x}) = 0
      BY <2>4, <2>5, <2>6, <3>1
    <3>3. QED
      BY <2>6, <3>2, FS_EmptySet
  <2>8. QED
    BY <2>3, <2>7
<1>3. QED
  BY <1>1, <1>2

\* A thread's step, but for the write of a wire, keeps the writes current.
LEMMA CurrentStep ==
  ASSUME BaseInv, CurrentInv, Handler = "direct", NEW t \in Threads, Step(t), ~WriteWire(t)
  PROVE  \A u \in Threads : Writes(stack[u])'
<1> USE DEF BaseInv
<1>1. circuit' = circuit /\ stack[t] # <<>> /\ \A u \in Threads : Writes(stack[u])
  BY FiniteStep DEF CurrentInv
<1>2. value' = value
  BY DEF Step, CallDefault, CallBreaker, CallAsync, MakeQueue, AppendTask, LoopExecute,
     LoopNext, WipeQueue, CrashAtQueue, Execute, Sniff, NotifyNext, NotifyDone
<1>3. Top(t) \in Frame
  <2>1. stack[t] \in Seq(Frame)
    BY DEF TypeOK
  <2>2. QED
    BY <1>1, <2>1, EndOfSeq DEF Top
<1>4. ASSUME \/ Return(t)
             \/ \E f \in Current : Goto(t, f)
             \/ \E f, c \in Current : CallFrom(t, f, c) /\ f.at # "write"
      PROVE  \A u \in Threads : Writes(stack[u])'
  BY <1>1, <1>2, <1>4, WritesStep
<1>5. \A f \in Frame : f.at # "write" => f \in Current
  BY DEF Current
<1>6. CASE CallDefault(t)
  <2> DEFINE f == Run(Top(t).gate, Top(t).value)
  <2>1. f \in Frame
    BY <1>3, <1>6, TopFrame, NewFrames DEF CallDefault, Frame
  <2>2. f.at # "write"
    BY DEF Run, F
  <2>3. Goto(t, f)
    BY <1>6 DEF CallDefault
  <2> HIDE DEF f
  <2>4. QED
    BY <1>4, <1>5, <2>1, <2>2, <2>3
<1>7. CASE CallBreaker(t)
  <2> DEFINE f == IF IsFirstCall THEN Make(Top(t).gate, Top(t).value)
                                 ELSE Enqueue(Top(t).gate, Top(t).value)
  <2>1. Goto(t, f) /\ f \in Frame /\ f.at # "write"
    BY <1>7, BreakerFrame
  <2> HIDE DEF f
  <2>2. QED
    BY <1>4, <1>5, <2>1
<1>8. CASE MakeQueue(t)
  <2> DEFINE f == Loop(Top(t).gate, Top(t).value)
  <2>1. f \in Frame
    BY <1>3, <1>8, TopFrame, NewFrames DEF MakeQueue, Frame
  <2>2. f.at # "write"
    BY DEF Loop, F
  <2>3. Goto(t, f)
    BY <1>8 DEF MakeQueue
  <2> HIDE DEF f
  <2>4. QED
    BY <1>4, <1>5, <2>1, <2>2, <2>3
<1>9. CASE AppendTask(t) \/ WipeQueue(t)
  BY <1>4, <1>9 DEF AppendTask, WipeQueue
<1>10. ASSUME stack' = stack PROVE \A u \in Threads : Writes(stack[u])'
  BY <1>1, <1>2, <1>10, CurrentStays DEF Writes
<1>11. CASE CrashAtQueue(t)
  BY <1>10, <1>11 DEF CrashAtQueue
<1>12. CASE CallAsync(t)
  <2>1. CASE Submits
    BY <1>4, <1>12, <2>1 DEF CallAsync
  <2>2. CASE ~Submits
    <3>1. stack' = stack
      BY <1>12, <2>2 DEF CallAsync
    <3>2. QED
      BY <1>10, <3>1
  <2>3. QED
    BY <2>1, <2>2
<1>13. CASE LoopExecute(t)
  <2> DEFINE f == Loop(NULL, NULL)
             c == Run(Top(t).gate, Top(t).value)
  <2>1. f \in Frame /\ c \in Frame
    BY <1>3, <1>13, TopFrame, NewFrames DEF LoopExecute, Frame
  <2>2. f.at # "write" /\ c.at # "write"
    BY DEF Loop, Run, F
  <2>3. CallFrom(t, f, c) \/ Goto(t, f)
    BY <1>13 DEF LoopExecute
  <2> HIDE DEF f, c
  <2>4. QED
    BY <1>4, <1>5, <2>1, <2>2, <2>3
<1>14. CASE LoopNext(t)
  <2>0. HasBreaker
    BY <1>14, BreakerSteps DEF AtBreaker
  <2>1. CASE breaker = <<>>
    <3>1. Wipe \in Frame /\ Wipe.at # "write"
      BY <2>0, NewFrames DEF Wipe, F, HasBreaker, Value
    <3>2. Goto(t, Wipe)
      BY <1>14, <2>1 DEF LoopNext
    <3>3. QED
      BY <1>4, <1>5, <3>1, <3>2
  <2>2. CASE breaker # <<>>
    <3> DEFINE f == Loop(Head(breaker)[1], Head(breaker)[2])
    <3>1. f \in Frame
      BY <1>14, <2>0, <2>2, PoppedFrame DEF LoopNext
    <3>2. f.at # "write"
      BY DEF Loop, F
    <3>3. Goto(t, f)
      BY <1>14, <2>2 DEF LoopNext
    <3> HIDE DEF f
    <3>4. QED
      BY <1>4, <1>5, <3>1, <3>2, <3>3
  <2>3. QED
    BY <2>1, <2>2
<1>15. CASE Execute(t)
  <2> DEFINE g == Top(t).gate
             result == Logic(Kind[g], Vals(g))
             w == Write(g, Output[g], result)
  <2>1. g \in Gates /\ Kind[g] # "sniffer"
    BY <1>15, TopFrame DEF Execute, Frame
  <2>2. CASE Complete(g) /\ result # NULL /\ Output[g] # NULL
    <3>1. w \in Frame
      BY <2>1, <2>2, WrittenFrame
    <3>2. w.gate = g /\ w.value = result
      BY DEF Write, F
    <3>3. Goto(t, w)
      BY <1>15, <2>2 DEF Execute
    <3> HIDE DEF w
    <3>4. w \in Current
      BY <2>2, <3>1, <3>2 DEF Current
    <3>5. QED
      BY <1>4, <3>3, <3>4
  <2>3. CASE ~(Complete(g) /\ result # NULL /\ Output[g] # NULL)
    BY <1>4, <1>15, <2>3 DEF Execute
  <2>4. QED
    BY <2>2, <2>3
<1>16. CASE Sniff(t)
  BY <1>4, <1>16 DEF Sniff
<1>17. CASE NotifyNext(t)
  <2> DEFINE f == Top(t)
             p == Drivens[f.wire][f.next]
             rest == Notify(f.gate, f.wire, f.value, f.next + 1)
             c == Call(p[1], f.value)
  <2>1. f.at = "notify" /\ More(f)
    BY <1>17, TopFrame DEF NotifyNext
  <2>2. rest \in Frame /\ f.value \in Value
    BY <1>3, <2>1 DEF Notify, F, Frame
  <2>3. c \in Frame
    BY <1>3, <2>1, <2>2, DrivenPort, NewFrames
  <2>4. CallFrom(t, rest, c) \/ Goto(t, rest)
    BY <1>17 DEF NotifyNext
  <2>5. rest.at # "write" /\ c.at # "write"
    BY DEF Notify, Call, F
  <2> HIDE DEF rest, c, p
  <2>6. QED
    BY <1>4, <1>5, <2>2, <2>3, <2>4, <2>5
<1>18. CASE NotifyDone(t)
  BY <1>4, <1>18 DEF NotifyDone
<1>19. QED
  BY <1>6, <1>7, <1>8, <1>9, <1>11, <1>12, <1>13, <1>14, <1>15, <1>16, <1>17, <1>18
     DEF Step

\* After the only write, no frame writes.
LEMMA CurrentWrite ==
  ASSUME BaseInv, RingInv, CurrentInv, IsRing(circuit) \/ Async = {},
         Handler = "direct", NEW t \in Threads, WriteWire(t)
  PROVE  \A u \in Threads : Writes(stack[u])'
<1> DEFINE f == Notify(Top(t).gate, Top(t).wire, Top(t).value, 1)
           n == Len(stack[t])
<1>1. /\ At(t, "write") /\ Top(t) \in Frame /\ Top(t).at = "write" /\ stack[t] # <<>>
      /\ n \in Nat \ {0} /\ stack \in [Threads -> Seq(Frame)]
  BY TopFrame DEF WriteWire, BaseInv, TypeOK
<1>2. f \in Frame /\ f.at # "write"
  BY <1>1 DEF Notify, F, Frame
<1>3. Goto(t, f)
  BY DEF WriteWire
<1> HIDE DEF f
<1>4. Keeps(t) /\ Len(stack'[t]) = n /\ stack'[t][n] = f
  BY <1>1, <1>2, <1>3, OnGoto
<1>5. \A u \in Threads : \A i \in 1 .. Len(stack[u]) :
        stack[u][i].at = "write" => i = Len(stack[u])
  BY DEF CurrentInv, Writes
<1>6. ASSUME NEW u \in Threads, NEW i \in 1 .. Len(stack'[u]), stack'[u][i].at = "write"
      PROVE  FALSE
  <2>1. CASE u # t
    <3>1. stack'[u] = stack[u] /\ stack[u] \in Seq(Frame)
      BY <1>1, <1>4, <2>1 DEF Keeps
    <3>2. i = Len(stack[u]) /\ stack[u] # <<>>
      BY <1>5, <1>6, <3>1
    <3>3. At(u, "write")
      BY <1>6, <3>1, <3>2, EndOfSeq DEF At
    <3>4. QED
      BY <1>1, <2>1, <3>3, OneWriter
  <2>2. CASE u = t /\ i # n
    <3>1. i \in 1 .. n - 1
      BY <1>1, <1>4, <2>2
    <3>2. stack'[u][i] = stack[t][i] /\ i \in 1 .. Len(stack[t])
      BY <1>1, <1>4, <2>2, <3>1 DEF Keeps
    <3>3. QED
      BY <1>5, <1>6, <2>2, <3>2
  <2>3. CASE u = t /\ i = n
    BY <1>2, <1>4, <1>6, <2>3
  <2>4. QED
    BY <2>1, <2>2, <2>3
<1>7. QED
  BY <1>6 DEF Writes

\* A stack that begins with a frame.
LEMMA CurrentBegins ==
  ASSUME BaseInv, CurrentInv, Handler = "direct", circuit' = circuit, value' = value,
         NEW t \in Threads, NEW f \in Current, stack' = [stack EXCEPT ![t] = <<f>>]
  PROVE  \A u \in Threads : Writes(stack[u])'
<1>1. stack \in [Threads -> Seq(Frame)] /\ Current' = Current
  BY CurrentStays DEF BaseInv, TypeOK
<1>2. \A u \in Threads \ {t} : Writes(stack[u])'
  BY <1>1 DEF CurrentInv, Writes
<1>3. Len(stack'[t]) = 1 /\ stack'[t][1] = f
  BY <1>1
<1>4. Writes(stack[t])'
  BY <1>1, <1>3 DEF Writes
<1>5. QED
  BY <1>2, <1>4

LEMMA WritesAre ==
  ASSUME \A c \in Circuits :
           IsRing(c) \/ \A g \in DOMAIN c.kind : c.behavior[g] # "async"
  PROVE  Spec => []CurrentInv
<1>1. Init => CurrentInv
  <2> SUFFICES ASSUME Init PROVE CurrentInv
    OBVIOUS
  <2>1. \A t \in Threads : stack[t] = <<>>
    BY DEF Init
  <2>2. \A t \in Threads : Writes(stack[t])
    BY <2>1 DEF Writes
  <2>3. \A g \in Gates : ~(tasks[g] > 0)
    BY DEF Init
  <2>4. QED
    BY <2>1, <2>2, <2>3 DEF CurrentInv, Threads
<1>2. BaseInv /\ RingInv /\ CurrentInv /\ [Next]_vars => CurrentInv'
  <2> SUFFICES ASSUME BaseInv, RingInv, CurrentInv, [Next]_vars PROVE CurrentInv'
    OBVIOUS
  <2>1. TypeOK /\ stack \in [Threads -> Seq(Frame)] /\ Main \in Threads /\ Workers \subseteq Threads
        /\ Main \notin Workers
    BY PropagationAssumption DEF BaseInv, TypeOK, Threads
  <2>2. IsRing(circuit) \/ Async = {}
    BY <2>1 DEF TypeOK, Async, Gates, Behavior
  <2>3. circuit' = circuit
    BY DEF Next, vars, StartOscillator, DisableGate, ShutdownPool, DestroyCircuit,
       DriveWire, TakeTask, Step, CallDefault, CallBreaker, CallAsync, MakeQueue,
       AppendTask, LoopExecute, LoopNext, WipeQueue, CrashAtQueue, Execute, Sniff,
       WriteWire, NotifyNext, NotifyDone
  <2>4. /\ Gates' = Gates /\ Behavior' = Behavior /\ Async' = Async /\ Handler' = Handler
        /\ Threads' = Threads
    BY <2>3 DEF Gates, Behavior, Async, Handler, Threads
  <2>5. ASSUME \A g \in Gates : tasks'[g] > 0 => Behavior[g] = "async",
               Async = {} => \A u \in Workers : stack'[u] = <<>>,
               Handler = "direct" => \A u \in Threads : Writes(stack[u])'
        PROVE  CurrentInv'
    BY <2>4, <2>5 DEF CurrentInv
  <2>6. ASSUME UNCHANGED <<stack, value, tasks>> PROVE CurrentInv'
    <3>1. Handler = "direct" => \A u \in Threads : Writes(stack[u])'
      BY <2>3, <2>6, CurrentStays DEF CurrentInv, Writes
    <3>2. QED
      BY <2>5, <2>6, <3>1 DEF CurrentInv
  <2>7. ASSUME NEW f \in Frame, f.at # "write" \/ f.gate = NULL,
               stack' = [stack EXCEPT ![Main] = <<f>>], UNCHANGED <<value, tasks>>
        PROVE  CurrentInv'
    <3>1. f \in Current
      BY <2>7 DEF Current
    <3>2. Handler = "direct" => \A u \in Threads : Writes(stack[u])'
      BY <2>1, <2>3, <2>7, <3>1, CurrentBegins
    <3>3. \A u \in Workers : stack'[u] = stack[u]
      BY <2>1, <2>7
    <3>4. QED
      BY <2>5, <2>7, <3>2, <3>3 DEF CurrentInv
  <2>8. CASE StartOscillator
    <3>1. Start \in Gates
      BY <2>1, <2>8, Wired DEF BaseInv, StartOscillator
    <3>2. Call(Start, NULL) \in Frame /\ Call(Start, NULL).at # "write"
      BY <2>1, <3>1, NewFrames DEF Value, Call, F
    <3>3. QED
      BY <2>7, <2>8, <3>2 DEF StartOscillator
  <2>9. ASSUME NEW w \in Stimuli, NEW v \in BOOLEAN, DriveWire(w, v) PROVE CurrentInv'
    <3>1. Write(NULL, w, v) \in Frame /\ Write(NULL, w, v).gate = NULL
      BY <2>1, Wired DEF Write, F, Frame, Value
    <3>2. QED
      BY <2>7, <2>9, <3>1 DEF DriveWire
  <2>10. ASSUME NEW t \in Threads, Step(t) PROVE CurrentInv'
    <3>1. Handler = "direct" => \A u \in Threads : Writes(stack[u])'
      BY <2>2, <2>10, CurrentStep, CurrentWrite
    <3>2. stack[t] # <<>> /\ \A u \in Threads \ {t} : stack'[u] = stack[u]
      BY <2>1, <2>10, OthersStay, FiniteStep DEF BaseInv
    <3>3. Async = {} => \A u \in Workers : stack'[u] = <<>>
      BY <2>1, <3>2 DEF CurrentInv
    <3>4. \A g \in Gates : tasks'[g] > 0 => Behavior[g] = "async"
      <4>1. CASE CallAsync(t)
        <5>1. /\ Behavior[Top(t).gate] = "async"
              /\ tasks' = [tasks EXCEPT ![Top(t).gate] = @ + 1] \/ tasks' = tasks
          BY <4>1 DEF CallAsync
        <5>2. QED
          BY <2>1, <5>1 DEF CurrentInv, TypeOK
      <4>2. CASE ~CallAsync(t)
        <5>1. tasks' = tasks
          BY <2>10, <4>2 DEF Step, CallDefault, CallBreaker, MakeQueue, AppendTask,
             LoopExecute, LoopNext, WipeQueue, CrashAtQueue, Execute, Sniff, WriteWire,
             NotifyNext, NotifyDone
        <5>2. QED
          BY <5>1 DEF CurrentInv
      <4>3. QED
        BY <4>1, <4>2
    <3>5. QED
      BY <2>5, <3>1, <3>3, <3>4
  <2>11. ASSUME NEW t \in Workers, NEW g \in Gates, TakeTask(t, g) PROVE CurrentInv'
    <3>1. /\ t \in Threads /\ tasks[g] > 0 /\ Run(g, NULL) \in Frame
          /\ IF IsEnabled(g) THEN stack' = [stack EXCEPT ![t] = <<Run(g, NULL)>>] ELSE stack' = stack
      BY <2>1, <2>11, TaskBegins
    <3>2. Async # {}
      BY <3>1 DEF CurrentInv, Async
    <3>3. value' = value /\ tasks' = [tasks EXCEPT ![g] = @ - 1]
      BY <2>11 DEF TakeTask, Taken
    <3>4. \A h \in Gates : tasks'[h] > 0 => Behavior[h] = "async"
      BY <2>1, <3>1, <3>3 DEF CurrentInv, TypeOK
    <3>5. Handler = "direct" => \A u \in Threads : Writes(stack[u])'
      <4>1. Run(g, NULL) \in Current
        BY <3>1 DEF Current, Run, F
      <4>2. CASE IsEnabled(g)
        BY <2>3, <3>1, <3>3, <4>1, <4>2, CurrentBegins
      <4>3. CASE ~IsEnabled(g)
        BY <2>3, <3>1, <3>3, <4>3, CurrentStays DEF CurrentInv, Writes
      <4>4. QED
        BY <4>2, <4>3
    <3>6. QED
      BY <2>5, <3>2, <3>4, <3>5
  <2>12. CASE UNCHANGED vars
    BY <2>6, <2>12 DEF vars
  <2>13. ASSUME \/ \E g \in Gates : DisableGate(g)
                \/ ShutdownPool \/ DestroyCircuit
         PROVE  CurrentInv'
    BY <2>6, <2>13 DEF DisableGate, ShutdownPool, DestroyCircuit
  <2>14. QED
    BY <2>8, <2>9, <2>10, <2>11, <2>12, <2>13 DEF Next
<1>3. QED
  BY <1>1, <1>2, Base, OneEdgeInv, PTL DEF Spec

\* The network computes with the same gates.
LEMMA SameLogic ==
  ASSUME NEW kind, NEW vals
  PROVE  Abstract!Logic(kind, vals) = Logic(kind, vals)
BY DEF Logic, Nand, Nor, And, Or, Not, Xor, Some, Abstract!Logic, Abstract!Nand,
   Abstract!Nor, Abstract!And, Abstract!Or, Abstract!Not, Abstract!Xor, Abstract!Some

\* In rings, whose gates may be asynchronous, and in circuits without asynchronous
\* gates, of any size and with either wire handler, a wire only gets a value that
\* the program drives, or that its gate computes of its inputs as they are in
\* that step: queues, tasks and nested calls never make a write late.
THEOREM NoWriteIsLate ==
  ASSUME \A c \in Circuits :
           IsRing(c) \/ \A g \in DOMAIN c.kind : c.behavior[g] # "async"
  PROVE  Spec => WritesAreCurrent
<1>1. Init => Abstract!Init
  BY DEF Init, Abstract!Init, Wires, Start, Inputs
<1>2. BaseInv /\ CurrentInv /\ [Next]_vars => [Abstract!Next]_<<circuit, value>>
  <2> SUFFICES ASSUME BaseInv, CurrentInv, [Next]_vars
               PROVE  Abstract!Next \/ UNCHANGED <<circuit, value>>
    OBVIOUS
  <2>1. TypeOK /\ stack \in [Threads -> Seq(Frame)]
    BY DEF BaseInv, TypeOK
  <2>2. circuit' = circuit
    BY DEF Next, vars, StartOscillator, DisableGate, ShutdownPool, DestroyCircuit,
       DriveWire, TakeTask, Step, CallDefault, CallBreaker, CallAsync, MakeQueue,
       AppendTask, LoopExecute, LoopNext, WipeQueue, CrashAtQueue, Execute, Sniff,
       WriteWire, NotifyNext, NotifyDone
  <2>3. value' = value \/ \E t \in Threads : WriteWire(t)
    BY DEF Next, vars, StartOscillator, DisableGate, ShutdownPool, DestroyCircuit,
       DriveWire, TakeTask, Step, CallDefault, CallBreaker, CallAsync, MakeQueue,
       AppendTask, LoopExecute, LoopNext, WipeQueue, CrashAtQueue, Execute, Sniff,
       NotifyNext, NotifyDone
  <2>4. ASSUME NEW t \in Threads, WriteWire(t), Handler = "direct" PROVE Abstract!Next
    <3> DEFINE f == Top(t)
               n == Len(stack[t])
    <3>1. f \in Frame /\ f.at = "write" /\ n \in Nat \ {0} /\ f = stack[t][n]
      BY <2>1, <2>4, TopFrame DEF WriteWire
    <3>2. value' = [value EXCEPT ![f.wire] = f.value]
      BY <2>4 DEF WriteWire
    <3>3. f \in Current
      BY <2>4, <3>1 DEF CurrentInv, Writes
    <3> HIDE DEF f, n
    <3>4. CASE f.gate = NULL
      <4>1. f.wire \in Stimuli /\ f.value \in BOOLEAN
        BY <3>1, <3>4 DEF Frame, Value
      <4>2. Abstract!Stimulate(f.wire)
        BY <3>2, <4>1 DEF Abstract!Stimulate
      <4>3. QED
        BY <2>2, <4>1, <4>2 DEF Abstract!Next, Stimuli
    <3>5. CASE f.gate # NULL
      <4> DEFINE g == f.gate
                 vals == [i \in DOMAIN Inputs[g] |-> value[Inputs[g][i]]]
      <4>1. g \in Gates /\ Kind[g] # "sniffer" /\ f.wire = Output[g] /\ f.wire # NULL
        BY <3>1, <3>5 DEF Frame
      <4>2. Complete(g) /\ f.value = Logic(Kind[g], Vals(g))
        BY <3>1, <3>3, <3>5 DEF Current
      <4>3. Vals(g) = vals /\ \A i \in DOMAIN vals : vals[i] # NULL
        BY <2>4, <4>2 DEF Vals, Complete, Read
      <4>4. value' = [value EXCEPT ![Output[g]] = Abstract!Logic(Kind[g], vals)]
        BY <3>2, <4>1, <4>2, <4>3, SameLogic
      <4>5. Abstract!Fire(g)
        BY <4>1, <4>3, <4>4 DEF Abstract!Fire, Kind, Output, Inputs
      <4>6. QED
        BY <2>2, <4>1, <4>5 DEF Abstract!Next, Gates
    <3>6. QED
      BY <3>4, <3>5
  <2>5. ASSUME NEW t \in Threads, WriteWire(t), Handler # "direct" PROVE value' = value
    BY <2>5 DEF WriteWire
  <2>6. QED
    BY <2>2, <2>3, <2>4, <2>5
<1>3. QED
  BY <1>1, <1>2, Base, WritesAre, PTL DEF Spec, WritesAreCurrent, Abstract!Spec
-----------------------------------------------------------------------------
(* Circuits that the program drives and whose gates are called directly:    *)
(* between drives every gate has computed of its inputs.                    *)

\* The gates other than sniffers have inputs and a wire of their own to write.
IsDriven(c) ==
  LET gates == {g \in DOMAIN c.kind : c.kind[g] # "sniffer"}
  IN  /\ c.start = NULL /\ \A g \in DOMAIN c.kind : c.behavior[g] = "default"
      /\ \A g \in gates :
           /\ c.inputs[g] # <<>> /\ (c.kind[g] = "xor" => Len(c.inputs[g]) = 2)
           /\ c.output[g] \notin c.stimuli \cup {NULL}
           /\ \A h \in gates : c.output[g] = c.output[h] => g = h
      /\ \A g \in gates : \A i \in DOMAIN c.inputs[g] :
           \E n \in DOMAIN c.drivens[c.inputs[g][i]] : c.drivens[c.inputs[g][i]][n] = <<g, i>>

\* Such a circuit with tokens has one wire to drive, from which all others follow.
FillsItsPorts(c) ==
  LET gates == {g \in DOMAIN c.kind : c.kind[g] # "sniffer"}
      wires == DOMAIN c.drivens
  IN  /\ c.handler = "nonhazard"
      /\ \A w \in wires : w \in c.stimuli \/ \E g \in gates : c.output[g] = w
      /\ \A v, w \in c.stimuli : v = w
      /\ \A w \in wires : \A m, n \in DOMAIN c.drivens[w] :
           /\ c.inputs[c.drivens[w][n][1]][c.drivens[w][n][2]] = w
           /\ c.drivens[w][m] = c.drivens[w][n] => m = n
      /\ \E rank \in [wires -> Nat] :
           \A g \in gates : \A i \in DOMAIN c.inputs[g] : rank[c.inputs[g][i]] < rank[c.output[g]]

\* Gate g is about to run or to write, or to be called.
Leads(f, g) ==
  \/ f.at \in {"call", "run", "write"} /\ f.gate = g
  \/ f.at = "notify" /\ \E n \in f.next .. Len(Drivens[f.wire]) : Drivens[f.wire][n][1] = g

Pending(s, g) == \E i \in 1 .. Len(s) : Leads(s[i], g)

Computed(g) == Complete(g) => value[Output[g]] = Logic(Kind[g], Vals(g))

ComputedInv == \A g \in Gates : Signals(g) => Pending(stack[Main], g) \/ Computed(g)

\* How far the drive in progress has come: reached[w] is 0 before wire w is written, then
\* the next of its ports to be given a token.
Drives(f) == f.at \in {"write", "notify"}
Place(f) == IF f.at = "write" THEN 1 ELSE f.next
About(f, g) == f.at \in {"call", "run"} /\ f.gate = g

\* A wire is written once, and then by one call.
Marks(reached, s) ==
  /\ \A i \in 1 .. Len(s) : Drives(s[i]) =>
       /\ reached[s[i].wire] = Place(s[i])
       /\ \A j \in 1 .. Len(s) : Drives(s[j]) /\ s[i].wire = s[j].wire => i = j
  /\ \A w \in Wires :
       \/ reached[w] = 0 \/ reached[w] > Len(Drivens[w])
       \/ \E i \in 1 .. Len(s) : Drives(s[i]) /\ s[i].wire = w

\* A port has got its token exactly if the wire has come to it; the gate's output is
\* written when the token is used.
Given(reached, toks, p) == toks[p] # NULL \/ reached[Output[p[1]]] # 0

Fed(reached, toks) ==
  /\ \A w \in Wires : \A n \in 1 .. Len(Drivens[w]) :
       Signals(Drivens[w][n][1]) => (Given(reached, toks, Drivens[w][n]) <=> n < reached[w])
  /\ \A p \in Ports : Signals(p[1]) /\ reached[Output[p[1]]] # 0 => toks[p] = NULL
  /\ (\E w \in Wires : reached[w] # 0) => \A w \in Stimuli : reached[w] # 0

\* A gate with all its tokens is about to run.
Filled(toks, g) == \A p \in Ports : p[1] = g => toks[p] # NULL

Runs(toks, s) ==
  \A g \in Gates : Signals(g) /\ Filled(toks, g) => \E i \in 1 .. Len(s) : About(s[i], g)

Flow(reached, toks, s) == Marks(reached, s) /\ Fed(reached, toks) /\ Runs(toks, s)

FlowInv == \E reached \in [Wires -> Nat] : Flow(reached, tokens, stack[Main])

LEMMA DrivenFacts ==
  ASSUME TypeOK, IsDriven(circuit)
  PROVE  /\ Start = NULL /\ \A g \in Gates : Behavior[g] = "default"
         /\ \A g \in Gates : Signals(g) =>
              /\ Kind[g] \in Kinds /\ Inputs[g] \in Seq(Wires) /\ Inputs[g] # <<>>
              /\ Len(Inputs[g]) \in Nat \ {0} /\ DOMAIN Inputs[g] = 1 .. Len(Inputs[g])
              /\ Len(Inputs[g]) <= 21
              /\ Kind[g] = "xor" => Len(Inputs[g]) = 2
              /\ Output[g] \in Wires /\ Output[g] \notin Stimuli
              /\ \A h \in Gates : Signals(h) /\ Output[g] = Output[h] => g = h
              /\ \A i \in DOMAIN Inputs[g] :
                   /\ Inputs[g][i] \in Wires /\ <<g, i>> \in Ports
                   /\ \E n \in 1 .. Len(Drivens[Inputs[g][i]]) : Drivens[Inputs[g][i]][n] = <<g, i>>
<1> DEFINE gates == {g \in Gates : Kind[g] # "sniffer"}
<1>1. Start = NULL /\ \A g \in Gates : Behavior[g] = "default"
  BY DEF IsDriven, Start, Behavior, Gates
<1>2. \A g \in gates :
        /\ Inputs[g] # <<>> /\ (Kind[g] = "xor" => Len(Inputs[g]) = 2)
        /\ Output[g] \notin Stimuli \cup {NULL}
        /\ \A h \in gates : Output[g] = Output[h] => g = h
        /\ \A i \in DOMAIN Inputs[g] :
             \E n \in DOMAIN Drivens[Inputs[g][i]] : Drivens[Inputs[g][i]][n] = <<g, i>>
  BY DEF IsDriven, Gates, Kind, Inputs, Output, Stimuli, Drivens
<1>3. ASSUME NEW g \in Gates, Signals(g)
      PROVE  /\ Kind[g] \in Kinds /\ Inputs[g] \in Seq(Wires) /\ Inputs[g] # <<>>
             /\ Len(Inputs[g]) \in Nat \ {0} /\ DOMAIN Inputs[g] = 1 .. Len(Inputs[g])
             /\ Len(Inputs[g]) <= 21
             /\ Kind[g] = "xor" => Len(Inputs[g]) = 2
             /\ Output[g] \in Wires /\ Output[g] \notin Stimuli
             /\ \A h \in Gates : Signals(h) /\ Output[g] = Output[h] => g = h
             /\ \A i \in DOMAIN Inputs[g] :
                  /\ Inputs[g][i] \in Wires /\ <<g, i>> \in Ports
                  /\ \E n \in 1 .. Len(Drivens[Inputs[g][i]]) : Drivens[Inputs[g][i]][n] = <<g, i>>
  <2>1. g \in gates /\ Kind[g] \in Kinds /\ Inputs[g] \in Seq(Wires) /\ Output[g] \in Wires
        /\ Len(Inputs[g]) <= 21 /\ \A h \in Gates : Signals(h) => h \in gates
    BY <1>2, <1>3, Wired DEF Signals
  <2> DEFINE ins == Inputs[g]
  <2>2. ins \in Seq(Wires) /\ ins # <<>> /\ Len(ins) <= 21
    BY <1>2, <2>1
  <2>3. ASSUME NEW i \in DOMAIN ins
        PROVE  /\ ins[i] \in Wires /\ <<g, i>> \in Ports
               /\ \E n \in 1 .. Len(Drivens[ins[i]]) : Drivens[ins[i]][n] = <<g, i>>
    <3>1. ins[i] \in Wires
      <4> HIDE DEF ins
      <4>1. QED
        BY <2>2
    <3>2. <<g, i>> \in Ports
      <4>1. i \in 1 .. 21
        <5> HIDE DEF ins
        <5>1. QED
          BY <2>2
      <4>2. QED
        BY <4>1 DEF Ports
    <3>3. Drivens[ins[i]] \in Seq(Ports)
      BY <3>1, Wired
    <3>4. PICK n \in DOMAIN Drivens[ins[i]] : Drivens[ins[i]][n] = <<g, i>>
      BY <1>2, <2>1
    <3>5. QED
      BY <3>1, <3>2, <3>3, <3>4
  <2>4. Len(ins) \in Nat \ {0} /\ DOMAIN ins = 1 .. Len(ins)
    <3> HIDE DEF ins
    <3>1. QED
      BY <2>2
  <2>5. QED
    BY <1>2, <2>1, <2>2, <2>3, <2>4
<1>4. QED
  BY <1>1, <1>3

\* A program with such a circuit disables nothing, and only main calls.
DirectInv ==
  /\ BaseInv /\ CurrentInv
  /\ \A g \in Gates : enabled[g]
  /\ breaker = NULL

MainStep ==
  \/ CallDefault(Main) \/ Execute(Main) \/ Sniff(Main) \/ WriteWire(Main) \/ NotifyNext(Main)
  \/ NotifyDone(Main)

LEMMA OnlyMain ==
  ASSUME DirectInv, IsDriven(circuit), Next
  PROVE  (\E w \in Stimuli, v \in BOOLEAN : DriveWire(w, v)) \/ MainStep
<1>1. TypeOK /\ Start = NULL /\ \A g \in Gates : Behavior[g] = "default"
  BY DrivenFacts DEF DirectInv, BaseInv
<1>2. program \notin {"start", "shut"}
  BY <1>1 DEF DirectInv, BaseInv
<1>3. \A g \in Gates : ~(tasks[g] > 0)
  BY <1>1 DEF DirectInv, CurrentInv
<1>4. \A t \in Workers : stack[t] = <<>>
  BY <1>1 DEF DirectInv, CurrentInv, Async
<1>5. ASSUME NEW t \in Threads PROVE ~AtBreaker(t) /\ ~CallAsync(t)
  <2>1. At(t, "call") => Top(t).gate \in Gates
    BY <1>1, TopFrame DEF Frame
  <2>2. ~HasBreaker
    BY <1>1 DEF HasBreaker
  <2>3. ~AtBreaker(t)
    BY <1>1, <2>2, BreakerSteps
  <2>4. QED
    BY <1>1, <2>1, <2>3 DEF CallAsync
<1>6. ASSUME NEW t \in Threads, Step(t) PROVE t = Main
  <2>1. stack[t] # <<>>
    BY <1>6, FiniteStep DEF DirectInv, BaseInv
  <2>2. QED
    BY <1>4, <2>1 DEF Threads
<1>7. ASSUME NEW t \in Threads, Step(t) PROVE MainStep
  BY <1>5, <1>6, <1>7 DEF Step, MainStep, AtBreaker
<1>8. ~StartOscillator /\ ~ShutdownPool /\ ~DestroyCircuit /\ \A g \in Gates : ~DisableGate(g)
  BY <1>1, <1>2 DEF StartOscillator, ShutdownPool, DestroyCircuit, DisableGate
<1>9. \A t \in Workers, g \in Gates : ~TakeTask(t, g)
  BY <1>3 DEF TakeTask, HasTask
<1>10. QED
  BY <1>7, <1>8, <1>9 DEF Next

LEMMA Directly ==
  ASSUME \A c \in Circuits : IsDriven(c)
  PROVE  Spec => []DirectInv
<1> DEFINE Enabled == (\A g \in Gates : enabled[g]) /\ breaker = NULL
<1>1. Init => Enabled
  BY DEF Init
<1>2. BaseInv /\ CurrentInv /\ Enabled /\ [Next]_vars => Enabled'
  <2> SUFFICES ASSUME BaseInv, CurrentInv, Enabled, [Next]_vars PROVE Enabled'
    OBVIOUS
  <2>1. DirectInv /\ IsDriven(circuit)
    BY DEF DirectInv, BaseInv, TypeOK
  <2>2. UNCHANGED <<circuit, enabled, breaker>>
    <3>1. CASE Next
      BY <2>1, <3>1, OnlyMain DEF DriveWire, MainStep, CallDefault, Execute, Sniff, WriteWire,
         NotifyNext, NotifyDone
    <3>2. CASE UNCHANGED vars
      BY <3>2 DEF vars
    <3>3. QED
      BY <3>1, <3>2
  <2>3. QED
    BY <2>2 DEF Gates
<1>3. Spec => []CurrentInv
  <2>1. \A c \in Circuits : IsRing(c) \/ \A g \in DOMAIN c.kind : c.behavior[g] # "async"
    BY DEF IsDriven
  <2>2. QED
    BY <2>1, WritesAre
<1>4. BaseInv /\ CurrentInv /\ Enabled => DirectInv
  BY DEF DirectInv
<1> HIDE DEF Enabled
<1>5. QED
  BY <1>1, <1>2, <1>3, <1>4, Base, PTL DEF Spec

\* A step of main exchanges the last frame of its stack.
LEMMA MainMoves ==
  ASSUME DirectInv, MainStep
  PROVE  /\ stack \in [Threads -> Seq(Frame)] /\ stack' \in [Threads -> Seq(Frame)] /\ Main \in Threads
         /\ circuit' = circuit /\ stack[Main] # <<>> /\ Keeps(Main)
         /\ Len(stack[Main]) \in Nat \ {0} /\ Top(Main) \in Frame /\ Top(Main) = stack[Main][Len(stack[Main])]
         /\ Len(stack'[Main]) \in {Len(stack[Main]) - 1, Len(stack[Main]), Len(stack[Main]) + 1}
<1>1. TypeOK /\ stack \in [Threads -> Seq(Frame)] /\ Main \in Threads
  BY Wired DEF DirectInv, BaseInv, TypeOK
<1>2. circuit' = circuit /\ stack[Main] # <<>> /\ program' = program
  BY DEF MainStep, At, CallDefault, Execute, Sniff, WriteWire, NotifyNext, NotifyDone
<1>3. /\ Len(stack[Main]) \in Nat \ {0} /\ Top(Main) \in Frame /\ Top(Main) = stack[Main][Len(stack[Main])]
  BY <1>1, <1>2, EndOfSeq DEF Top
<1>4. \/ Return(Main)
      \/ \E f \in Frame : Goto(Main, f)
      \/ \E f \in Frame, c \in Frame : CallFrom(Main, f, c)
  <2>1. CASE CallDefault(Main)
    <3>1. Run(Top(Main).gate, Top(Main).value) \in Frame
      BY <1>1, <1>3, <2>1, TopFrame, NewFrames DEF CallDefault, Frame
    <3>2. QED
      BY <2>1, <3>1 DEF CallDefault
  <2>2. CASE Execute(Main)
    <3> DEFINE g == Top(Main).gate
    <3>1. g \in Gates /\ Kind[g] # "sniffer"
      BY <1>1, <2>2, TopFrame DEF Execute, Frame
    <3>2. CASE Complete(g) /\ Logic(Kind[g], Vals(g)) # NULL /\ Output[g] # NULL
      <4>1. Write(g, Output[g], Logic(Kind[g], Vals(g))) \in Frame
        BY <1>1, <3>1, <3>2, WrittenFrame
      <4>2. Goto(Main, Write(g, Output[g], Logic(Kind[g], Vals(g))))
        BY <2>2, <3>2 DEF Execute
      <4>3. QED
        BY <4>1, <4>2
    <3>3. CASE ~(Complete(g) /\ Logic(Kind[g], Vals(g)) # NULL /\ Output[g] # NULL)
      BY <2>2, <3>3 DEF Execute
    <3>4. QED
      BY <3>2, <3>3
  <2>3. CASE Sniff(Main) \/ NotifyDone(Main)
    BY <2>3 DEF Sniff, NotifyDone
  <2>4. CASE WriteWire(Main)
    <3>1. Top(Main).at = "write"
      BY <1>1, <2>4, TopFrame DEF WriteWire
    <3>2. Notify(Top(Main).gate, Top(Main).wire, Top(Main).value, 1) \in Frame
      BY <1>3, <3>1 DEF Notify, F, Frame
    <3>3. QED
      BY <2>4, <3>2 DEF WriteWire
  <2>5. CASE NotifyNext(Main)
    <3> DEFINE f == Top(Main)
               rest == Notify(f.gate, f.wire, f.value, f.next + 1)
               c == Call(Drivens[f.wire][f.next][1], f.value)
    <3>1. f.at = "notify" /\ More(f)
      BY <1>1, <2>5, TopFrame DEF NotifyNext
    <3>2. rest \in Frame /\ f.value \in Value
      BY <1>3, <3>1 DEF Notify, F, Frame
    <3>3. c \in Frame
      BY <1>1, <1>3, <3>1, <3>2, DrivenPort, NewFrames
    <3>4. CallFrom(Main, rest, c) \/ Goto(Main, rest)
      BY <2>5 DEF NotifyNext
    <3>5. QED
      BY <3>2, <3>3, <3>4
  <2>6. QED
    BY <2>1, <2>2, <2>3, <2>4, <2>5 DEF MainStep
<1>5. /\ stack' \in [Threads -> Seq(Frame)] /\ Keeps(Main)
      /\ Len(stack'[Main]) \in {Len(stack[Main]) - 1, Len(stack[Main]), Len(stack[Main]) + 1}
  BY <1>1, <1>2, <1>4, OnReturn, OnGoto, OnCall
<1>6. QED
  BY <1>1, <1>2, <1>3, <1>5

\* What is pending is so until the frame on top goes on.
LEMMA StaysPending ==
  ASSUME DirectInv, MainStep, NEW g, Pending(stack[Main], g), ~Leads(Top(Main), g)
  PROVE  Pending(stack'[Main], g)
<1> DEFINE n == Len(stack[Main])
<1>1. PICK i \in 1 .. n : Leads(stack[Main][i], g)
  BY DEF Pending
<1>2. n \in Nat \ {0} /\ Len(stack'[Main]) \in {n - 1, n, n + 1} /\ Keeps(Main) /\ Top(Main) = stack[Main][n]
  BY MainMoves
<1>3. i \in 1 .. n - 1 /\ i \in 1 .. Len(stack'[Main])
  BY <1>1, <1>2
<1>4. stack'[Main][i] = stack[Main][i]
  BY <1>2, <1>3 DEF Keeps
<1>5. QED
  BY <1>1, <1>3, <1>4 DEF Pending

LEMMA NowPending ==
  ASSUME NEW s, NEW i \in 1 .. Len(s), NEW g, Leads(s[i], g)
  PROVE  Pending(s, g)
BY DEF Pending

\* The frames on top after a step of main.
LEMMA TopGoes ==
  ASSUME DirectInv, MainStep, NEW f \in Frame
  PROVE  /\ Goto(Main, f) => /\ Len(stack'[Main]) = Len(stack[Main])
                             /\ stack'[Main][Len(stack[Main])] = f
         /\ \A c \in Frame : CallFrom(Main, f, c) =>
              /\ Len(stack'[Main]) = Len(stack[Main]) + 1
              /\ stack'[Main][Len(stack[Main])] = f /\ stack'[Main][Len(stack[Main]) + 1] = c
         /\ Return(Main) => Len(stack'[Main]) = Len(stack[Main]) - 1
<1>1. stack \in [Threads -> Seq(Frame)] /\ stack[Main] # <<>> /\ Main \in Threads
  BY MainMoves
<1>2. QED
  BY <1>1, OnGoto, OnCall, OnReturn

\* Each kind's function is that of the name Yields gives it.
LEMMA LogicMeans ==
  ASSUME NEW kind \in Kinds, NEW vals \in Seq(BOOLEAN), vals # <<>>,
         kind = "xor" => Len(vals) = 2
  PROVE  Logic(kind, vals) = Yields(kind, vals) /\ Logic(kind, vals) \in BOOLEAN
<1>1. Len(vals) \in Nat \ {0} /\ DOMAIN vals = 1 .. Len(vals) /\ \A i \in DOMAIN vals : vals[i] \in BOOLEAN
  OBVIOUS
<1> DEFINE n == Len(vals)
<1>0. kind = "xor" => n = 2
  BY Zenon
<1> HIDE DEF n
<1>2. ~(vals = <<>> \/ (kind = "xor" /\ Len(vals) = 1))
  <2>1. kind = "xor" => ~(n = 1)
    BY <1>0
  <2>2. QED
    BY <2>1, Zenon DEF n
<1>3. \A i \in DOMAIN vals : (vals[i] <=> vals[i] = TRUE) /\ (~vals[i] <=> vals[i] = FALSE)
  <2>1. ASSUME NEW b \in BOOLEAN PROVE (b <=> b = TRUE) /\ (~b <=> b = FALSE)
    <3>1. b = TRUE \/ b = FALSE
      BY <2>1
    <3>2. QED
      BY <3>1
  <2>2. QED
    BY <1>1, <2>1
<1>4. CASE kind = "nand"
  <2>1. Logic(kind, vals) = Nand(vals) /\ Yields(kind, vals) = \E i \in DOMAIN vals : ~vals[i]
    BY <1>2, <1>4 DEF Logic, Meaning, Yields
  <2>2. Nand(vals) = \E i \in DOMAIN vals : ~vals[i]
    BY <1>3 DEF Nand, Some
  <2>3. Nand(vals) \in BOOLEAN
    BY DEF Nand, Some
  <2>4. QED
    BY <2>1, <2>2, <2>3
<1>5. CASE kind \in {"nor", "and"}
  <2>1. Logic(kind, vals) = Nor(vals) /\ Yields(kind, vals) = \A i \in DOMAIN vals : ~vals[i]
    BY <1>2, <1>5 DEF Logic, Meaning, Yields, Nor, And
  <2>2. Nor(vals) = \A i \in DOMAIN vals : ~vals[i]
    BY <1>3 DEF Nor, Some
  <2>3. Nor(vals) \in BOOLEAN
    BY DEF Nor, Some
  <2>4. QED
    BY <2>1, <2>2, <2>3
<1>6. CASE kind = "or"
  <2>1. Logic(kind, vals) = Or(vals) /\ Yields(kind, vals) = \E i \in DOMAIN vals : vals[i]
    BY <1>2, <1>6 DEF Logic, Meaning, Yields
  <2>2. Or(vals) = \E i \in DOMAIN vals : vals[i]
    BY <1>3 DEF Or, Some
  <2>3. Or(vals) \in BOOLEAN
    BY DEF Or, Some
  <2>4. QED
    BY <2>1, <2>2, <2>3
<1>7. CASE kind = "not"
  BY <1>1, <1>2, <1>7 DEF Logic, Meaning, Yields, Not
<1>8. CASE kind = "xor"
  <2>1. Logic(kind, vals) = Xor(vals) /\ Yields(kind, vals) = (vals[1] # vals[2])
    BY <1>2, <1>8 DEF Logic, Meaning, Yields
  <2>2. Xor(vals) = (vals[1] # vals[2])
    <3>1. \A i \in 2 .. n : i = 2 /\ i - 1 = 1
      BY <1>0, <1>8
    <3>2. 2 \in 2 .. n
      BY <1>0, <1>8
    <3>3. (\A i \in 2 .. n : vals[i] # vals[i - 1]) <=> vals[2] # vals[1]
      BY <3>1, <3>2
    <3>4. QED
      BY <3>3 DEF Xor, n
  <2>3. QED
    BY <2>1, <2>2
<1>9. QED
  BY <1>4, <1>5, <1>6, <1>7, <1>8 DEF Kinds

\* A gate that is complete drives what its function yields.
LEMMA GateMeans ==
  ASSUME TypeOK, IsDriven(circuit), NEW g \in Gates, Signals(g), Complete(g)
  PROVE  /\ Logic(Kind[g], Vals(g)) = Yields(Kind[g], Vals(g))
         /\ Logic(Kind[g], Vals(g)) # NULL /\ Output[g] # NULL
<1>1. /\ Kind[g] \in Kinds /\ Inputs[g] # <<>> /\ Len(Inputs[g]) \in Nat \ {0}
      /\ Kind[g] = "xor" => Len(Inputs[g]) = 2
      /\ Output[g] \in Wires
  BY DrivenFacts
<1>2. Vals(g) \in Seq(BOOLEAN) /\ Len(Vals(g)) = Len(Inputs[g])
  BY ValsType
<1>3. Vals(g) # <<>>
  BY <1>1, <1>2
<1>4. QED
  BY <1>1, <1>2, <1>3, LogicMeans, Wired

\* Without a change on its wires a gate that has computed still has.
LEMMA ComputedStays ==
  ASSUME Handler = "direct", circuit' = circuit, NEW g \in Gates, Computed(g),
         value'[Output[g]] = value[Output[g]],
         \A i \in DOMAIN Inputs[g] : value'[Inputs[g][i]] = value[Inputs[g][i]]
  PROVE  Computed(g)'
<1>1. Handler' = Handler /\ Inputs' = Inputs /\ Output' = Output /\ Kind' = Kind
  BY DEF Handler, Inputs, Output, Kind
<1>2. \A i \in DOMAIN Inputs[g] : Read(g, i)' = Read(g, i)
  BY <1>1 DEF Read
<1>3. Vals(g)' = Vals(g) /\ (Complete(g)' <=> Complete(g))
  BY <1>1, <1>2 DEF Vals, Complete
<1>4. QED
  BY <1>1, <1>3 DEF Computed

LEMMA ComputedNext ==
  ASSUME circuit' = circuit, \A g \in Gates : Signals(g) => Pending(stack'[Main], g) \/ Computed(g)'
  PROVE  ComputedInv'
<1>1. Gates' = Gates /\ Drivens' = Drivens /\ \A g : Signals(g)' <=> Signals(g)
  BY DEF Gates, Drivens, Signals, Kind
<1>2. \A g : Pending(stack[Main], g)' <=> Pending(stack'[Main], g)
  BY <1>1 DEF Pending, Leads
<1>3. QED
  BY <1>1, <1>2 DEF ComputedInv

LEMMA ComputedStep ==
  ASSUME DirectInv, IsDriven(circuit), Handler = "direct", ComputedInv, MainStep
  PROVE  ComputedInv'
<1> DEFINE f == Top(Main)
           n == Len(stack[Main])
<1>1. /\ circuit' = circuit /\ n \in Nat \ {0} /\ f \in Frame /\ f = stack[Main][n] /\ TypeOK
      /\ Main \in Threads
  BY MainMoves DEF DirectInv, BaseInv
<1>2. SUFFICES ASSUME NEW g \in Gates, Signals(g) PROVE Pending(stack'[Main], g) \/ Computed(g)'
  BY <1>1, ComputedNext
<1>3. Pending(stack[Main], g) \/ Computed(g)
  BY <1>2 DEF ComputedInv
<1>4. Pending(stack[Main], g) /\ ~Leads(f, g) => Pending(stack'[Main], g)
  BY StaysPending
<1>5. value' = value /\ Computed(g) => Computed(g)'
  BY <1>1, ComputedStays
<1>6. Drivens[f.wire] \in Seq(Ports) \/ f.wire = NULL
  BY <1>1, Wired DEF Frame
<1> HIDE DEF f, n
<1>7. CASE CallDefault(Main)
  <2> DEFINE r == Run(f.gate, f.value)
  <2>1. f.at = "call" /\ f.gate \in Gates /\ value' = value /\ Goto(Main, r)
    BY <1>1, <1>7, TopFrame DEF CallDefault, Frame, f
  <2>2. r \in Frame /\ r.at = "run" /\ r.gate = f.gate
    BY <1>1, <2>1, NewFrames DEF Frame, Run, F
  <2> HIDE DEF r
  <2>3. Len(stack'[Main]) = n /\ stack'[Main][n] = r
    BY <2>1, <2>2, TopGoes DEF n
  <2>4. Leads(f, g) => Pending(stack'[Main], g)
    <3>1. Leads(f, g) => Leads(r, g)
      BY <2>1, <2>2 DEF Leads
    <3>2. n \in 1 .. Len(stack'[Main])
      BY <1>1, <2>3
    <3>3. QED
      BY <2>3, <3>1, <3>2, NowPending
  <2>5. QED
    BY <1>3, <1>4, <1>5, <2>1, <2>4
<1>8. CASE Execute(Main)
  <2> DEFINE h == f.gate
             w == Write(h, Output[h], Logic(Kind[h], Vals(h)))
  <2>1. f.at = "run" /\ h \in Gates /\ Kind[h] # "sniffer" /\ value' = value
    BY <1>1, <1>8, TopFrame DEF Execute, Frame, f
  <2>2. Leads(f, g) => g = h
    BY <2>1 DEF Leads
  <2>3. CASE Complete(h) /\ Logic(Kind[h], Vals(h)) # NULL /\ Output[h] # NULL
    <3>1. Goto(Main, w)
      BY <1>8, <2>3 DEF Execute, f
    <3>2. w \in Frame /\ w.at = "write" /\ w.gate = h
      <4>1. w.gate = h
        BY DEF Write, F
      <4>2. QED
        BY <1>1, <2>1, <2>3, <4>1, WrittenFrame
    <3> HIDE DEF w
    <3>3. Len(stack'[Main]) = n /\ stack'[Main][n] = w
      BY <3>1, <3>2, TopGoes DEF n
    <3>4. g = h => Pending(stack'[Main], g)
      <4>1. Leads(w, h)
        BY <3>2 DEF Leads
      <4>2. n \in 1 .. Len(stack'[Main])
        BY <1>1, <3>3
      <4>3. QED
        BY <3>3, <4>1, <4>2, NowPending
    <3>5. QED
      BY <1>3, <1>4, <1>5, <2>1, <2>2, <3>4
  <2>4. CASE ~(Complete(h) /\ Logic(Kind[h], Vals(h)) # NULL /\ Output[h] # NULL)
    <3>1. g = h => ~Complete(g)
      BY <1>1, <1>2, <2>4, GateMeans
    <3>2. g = h => Computed(g)
      BY <3>1 DEF Computed
    <3>3. QED
      BY <1>3, <1>4, <1>5, <2>1, <2>2, <3>2
  <2>5. QED
    BY <2>3, <2>4
<1>9. CASE Sniff(Main)
  <2>1. f.at = "run" /\ Kind[f.gate] = "sniffer" /\ value' = value
    BY <1>1, <1>9, TopFrame DEF Sniff, f
  <2>2. ~Leads(f, g)
    BY <1>2, <2>1 DEF Leads, Signals
  <2>3. QED
    BY <1>3, <1>4, <1>5, <2>1, <2>2
<1>10. CASE WriteWire(Main)
  <2> DEFINE w == f.wire
             nf == Notify(f.gate, w, f.value, 1)
  <2>1. /\ f.at = "write" /\ w \in Wires /\ value' = [value EXCEPT ![w] = f.value] /\ Goto(Main, nf)
        /\ f.value # NULL /\ f.value \in Value
        /\ IF f.gate = NULL THEN w \in Stimuli ELSE Kind[f.gate] # "sniffer" /\ w = Output[f.gate] /\ f.gate \in Gates
    BY <1>1, <1>10, TopFrame DEF WriteWire, Frame, f
  <2>2. nf \in Frame /\ nf.at = "notify" /\ nf.wire = w /\ nf.next = 1
    BY <1>1, <2>1 DEF Notify, F, Frame
  <2> HIDE DEF nf
  <2>3. Len(stack'[Main]) = n /\ stack'[Main][n] = nf /\ n \in 1 .. Len(stack'[Main])
    BY <1>1, <2>1, <2>2, TopGoes DEF n
  <2>4. CASE \E i \in DOMAIN Inputs[g] : Inputs[g][i] = w
    <3>1. \E k \in 1 .. Len(Drivens[w]) : Drivens[w][k][1] = g
      <4>1. PICK i \in DOMAIN Inputs[g] : Inputs[g][i] = w
        BY <2>4
      <4>2. \E k \in 1 .. Len(Drivens[Inputs[g][i]]) : Drivens[Inputs[g][i]][k] = <<g, i>>
        BY <1>1, <1>2, DrivenFacts
      <4>3. <<g, i>>[1] = g
        OBVIOUS
      <4>4. QED
        BY <4>1, <4>2, <4>3, Zenon
    <3>2. Leads(nf, g)
      BY <2>2, <3>1 DEF Leads
    <3>3. QED
      BY <2>3, <3>2, NowPending
  <2>5. CASE \A i \in DOMAIN Inputs[g] : Inputs[g][i] # w
    <3>0. value \in [Wires -> Value]
      BY <1>1 DEF TypeOK
    <3>1. \A i \in DOMAIN Inputs[g] : value'[Inputs[g][i]] = value[Inputs[g][i]]
      <4>1. \A i \in DOMAIN Inputs[g] : Inputs[g][i] \in Wires
        BY <1>1, <1>2, DrivenFacts
      <4>2. QED
        BY <2>1, <2>5, <3>0, <4>1
    <3>2. CASE f.gate = g
      <4>1. Complete(g) /\ f.value = Logic(Kind[g], Vals(g))
        <5>1. Writes(stack[Main])
          BY <1>1 DEF DirectInv, CurrentInv
        <5>2. f \in Current
          BY <1>1, <2>1, <5>1 DEF Writes, n
        <5>3. f.gate # NULL
          BY <1>1, <3>2, Wired
        <5>4. QED
          BY <2>1, <3>2, <5>2, <5>3 DEF Current
      <4>2. w = Output[g] /\ w \in Wires /\ value'[w] = f.value
        <5>1. f.gate # NULL
          BY <1>1, <3>2, Wired
        <5>2. QED
          BY <2>1, <3>0, <3>2, <5>1
      <4>3. Computed(g)'
        <5>1. Handler' = Handler /\ Inputs' = Inputs /\ Output' = Output /\ Kind' = Kind
          BY <1>1 DEF Handler, Inputs, Output, Kind
        <5>2. \A i \in DOMAIN Inputs[g] : Read(g, i)' = Read(g, i)
          BY <3>1, <5>1 DEF Read
        <5>3. Vals(g)' = Vals(g)
          BY <5>1, <5>2 DEF Vals
        <5>4. QED
          BY <4>1, <4>2, <5>1, <5>3 DEF Computed
      <4>4. QED
        BY <4>3
    <3>3. CASE f.gate # g
      <4>1. Output[g] # w
        <5>1. Output[g] \notin Stimuli /\ \A h \in Gates : Signals(h) /\ Output[g] = Output[h] => g = h
          BY <1>1, <1>2, DrivenFacts
        <5>2. f.gate \in Gates => f.gate # NULL
          BY <1>1, Wired
        <5>3. QED
          BY <2>1, <3>3, <5>1, <5>2 DEF Signals
      <4>2. Output[g] \in Wires
        BY <1>1, <1>2, DrivenFacts
      <4>3. value'[Output[g]] = value[Output[g]]
        BY <2>1, <3>0, <4>1, <4>2
      <4>4. ~Leads(f, g)
        BY <2>1, <3>3 DEF Leads
      <4>5. Computed(g) => Computed(g)'
        BY <1>1, <3>1, <4>3, ComputedStays
      <4>6. QED
        BY <1>3, <1>4, <4>4, <4>5
    <3>4. QED
      BY <3>2, <3>3
  <2>6. QED
    BY <2>4, <2>5
<1>11. CASE NotifyNext(Main)
  <2> DEFINE p == Drivens[f.wire][f.next]
             rest == Notify(f.gate, f.wire, f.value, f.next + 1)
             c == Call(p[1], f.value)
  <2>1. f.at = "notify" /\ More(f) /\ value' = value /\ f.next \in Nat
    BY <1>1, <1>11, TopFrame DEF NotifyNext, Frame, f
  <2>2. p[1] \in Gates /\ f.wire \in Wires
    BY <1>1, <2>1, DrivenPort
  <2>3. CallFrom(Main, rest, c)
    <3>1. IsEnabled(p[1])
      BY <2>2 DEF DirectInv, IsEnabled
    <3>2. QED
      BY <1>11, <3>1 DEF NotifyNext, f
  <2>4. rest \in Frame /\ rest.at = "notify" /\ rest.wire = f.wire /\ rest.next = f.next + 1
    BY <1>1, <2>1 DEF Notify, F, Frame
  <2>5. c \in Frame /\ c.at = "call" /\ c.gate = p[1]
    <3>1. f.value \in Value
      BY <1>1 DEF Frame
    <3>2. QED
      BY <1>1, <2>2, <3>1, NewFrames DEF Call, F
  <2> HIDE DEF rest, c
  <2>6. /\ Len(stack'[Main]) = n + 1 /\ stack'[Main][n] = rest /\ stack'[Main][n + 1] = c
        /\ n \in 1 .. Len(stack'[Main]) /\ n + 1 \in 1 .. Len(stack'[Main])
    BY <1>1, <2>3, <2>4, <2>5, TopGoes DEF n
  <2>7. ASSUME Leads(f, g) PROVE Pending(stack'[Main], g)
    <3>1. PICK k \in f.next .. Len(Drivens[f.wire]) : Drivens[f.wire][k][1] = g
      BY <2>1, <2>7 DEF Leads
    <3>2. CASE k = f.next
      <4>1. Leads(c, g)
        BY <2>5, <3>1, <3>2 DEF Leads
      <4>2. QED
        BY <2>6, <4>1, NowPending
    <3>3. CASE k # f.next
      <4>1. Drivens[f.wire] \in Seq(Ports)
        BY <1>1, <2>2, Wired
      <4>2. k \in f.next + 1 .. Len(Drivens[f.wire])
        BY <2>1, <3>1, <3>3, <4>1
      <4>3. Leads(rest, g)
        BY <2>4, <3>1, <4>2 DEF Leads
      <4>4. QED
        BY <2>6, <4>3, NowPending
    <3>4. QED
      BY <3>2, <3>3
  <2>8. QED
    BY <1>3, <1>4, <1>5, <2>1, <2>7
<1>12. CASE NotifyDone(Main)
  <2>1. f.at = "notify" /\ ~More(f) /\ value' = value /\ f.next \in Nat /\ f.wire \in Wires
    BY <1>1, <1>12, TopFrame DEF NotifyDone, Frame, f
  <2>2. Drivens[f.wire] \in Seq(Ports)
    BY <1>1, <2>1, Wired
  <2>3. ~Leads(f, g)
    BY <2>1, <2>2 DEF Leads, More
  <2>4. QED
    BY <1>3, <1>4, <1>5, <2>1, <2>3
<1>13. QED
  BY <1>7, <1>8, <1>9, <1>10, <1>11, <1>12 DEF MainStep

\* The program drives a wire when its stack is empty.
LEMMA DriveBegins ==
  ASSUME NEW w \in Stimuli, NEW v \in BOOLEAN, DirectInv, DriveWire(w, v)
  PROVE  /\ circuit' = circuit /\ value' = value /\ tokens' = tokens /\ stack[Main] = <<>>
         /\ w \in Wires
         /\ Len(stack[Main]) = 0
         /\ Len(stack'[Main]) = 1 /\ stack'[Main][1] = Write(NULL, w, v)
         /\ Write(NULL, w, v).at = "write" /\ Write(NULL, w, v).wire = w
         /\ Write(NULL, w, v).gate = NULL
<1>1. stack \in [Threads -> Seq(Frame)] /\ Main \in Threads /\ w \in Wires
  BY Wired DEF DirectInv, BaseInv, TypeOK
<1>2. /\ circuit' = circuit /\ value' = value /\ tokens' = tokens /\ stack[Main] = <<>>
      /\ stack' = [stack EXCEPT ![Main] = <<Write(NULL, w, v)>>]
  BY DEF DriveWire, MainReturned
<1>3. Len(stack[Main]) = 0
  BY <1>2
<1>4. Len(stack'[Main]) = 1 /\ stack'[Main][1] = Write(NULL, w, v)
  BY <1>1, <1>2
<1>5. /\ Write(NULL, w, v).at = "write" /\ Write(NULL, w, v).wire = w
      /\ Write(NULL, w, v).gate = NULL
  BY DEF Write, F
<1>6. QED
  BY <1>1, <1>2, <1>3, <1>4, <1>5

LEMMA NothingPends ==
  ASSUME Len(stack[Main]) = 0, NEW g
  PROVE  ~Pending(stack[Main], g)
BY DEF Pending

\* Without calls, what gates drive is what they have computed.
LEMMA AllComputed ==
  ASSUME \A c \in Circuits : IsDriven(c)
  PROVE  Spec => [](Handler = "direct" => ComputedInv)
<1>1. ASSUME Init, Handler = "direct" PROVE ComputedInv
  <2> SUFFICES ASSUME NEW g \in Gates, Signals(g) PROVE Computed(g)
    BY DEF ComputedInv
  <2>1. circuit \in Circuits /\ Start = NULL /\ value = [w \in Wires |-> NULL]
    BY <1>1 DEF Init, IsDriven, Start
  <2>2. Inputs[g] # <<>> /\ Inputs[g] \in Seq(Wires)
    <3>1. IsDriven(circuit)
      BY <2>1
    <3>2. Inputs[g] # <<>>
      BY <3>1 DEF IsDriven, Signals, Kind, Gates, Inputs
    <3>3. Inputs[g] \in Seq(Wires)
      <4>1. circuit.inputs \in [DOMAIN circuit.kind -> Seq(DOMAIN circuit.drivens)]
        BY <2>1, PropagationAssumption DEF CircuitType
      <4>2. QED
        BY <4>1 DEF Inputs, Gates, Wires
    <3>4. QED
      BY <3>2, <3>3
  <2> DEFINE ins == Inputs[g]
  <2>3. 1 \in DOMAIN ins /\ ins[1] \in Wires
    <3>1. ins # <<>> /\ ins \in Seq(Wires)
      BY <2>2
    <3> HIDE DEF ins
    <3>2. QED
      BY <3>1
  <2>4. Read(g, 1) = NULL
    BY <1>1, <2>1, <2>3 DEF Read
  <2>5. QED
    BY <2>3, <2>4 DEF Computed, Complete
<1>2. ASSUME DirectInv, IsDriven(circuit), Handler = "direct", ComputedInv, [Next]_vars PROVE ComputedInv'
  <2>1. ASSUME NEW w \in Stimuli, NEW v \in BOOLEAN, DriveWire(w, v) PROVE ComputedInv'
    <3>1. \A g \in Gates : Signals(g) => Computed(g)
      BY <1>2, <2>1, DriveBegins, NothingPends DEF ComputedInv
    <3>2. circuit' = circuit /\ value' = value
      BY <1>2, <2>1, DriveBegins
    <3>3. \A g \in Gates : Signals(g) => Computed(g)'
      BY <1>2, <3>1, <3>2, ComputedStays
    <3>4. QED
      BY <3>2, <3>3, ComputedNext
  <2>2. CASE MainStep
    BY <1>2, <2>2, ComputedStep
  <2>3. CASE UNCHANGED vars
    <3>1. circuit' = circuit /\ value' = value /\ stack' = stack
      BY <2>3 DEF vars
    <3>2. \A g \in Gates : Computed(g) => Computed(g)'
      BY <1>2, <3>1, ComputedStays
    <3>3. QED
      BY <1>2, <3>1, <3>2, ComputedNext DEF ComputedInv
  <2>4. QED
    BY <1>2, <2>1, <2>2, <2>3, OnlyMain
<1>3. DirectInv /\ (Handler = "direct" => ComputedInv) /\ [Next]_vars => (Handler = "direct" => ComputedInv)'
  <2> SUFFICES ASSUME DirectInv, Handler = "direct" => ComputedInv, [Next]_vars, Handler' = "direct"
               PROVE  ComputedInv'
    OBVIOUS
  <2>1. IsDriven(circuit)
    BY DEF DirectInv, BaseInv, TypeOK
  <2>2. circuit' = circuit
    <3>1. CASE Next
      BY <2>1, <3>1, OnlyMain, DriveBegins, MainMoves
    <3>2. CASE UNCHANGED vars
      BY <3>2 DEF vars
    <3>3. QED
      BY <3>1, <3>2
  <2>3. Handler = "direct"
    BY <2>2 DEF Handler
  <2>4. QED
    BY <1>2, <2>1, <2>3
<1>4. Init => (Handler = "direct" => ComputedInv)
  BY <1>1
<1>5. QED
  BY <1>3, <1>4, Directly, PTL DEF Spec
-----------------------------------------------------------------------------
(* With tokens, a drive fills every port once and leaves none filled.       *)

LEMMA FillsFacts ==
  ASSUME TypeOK, IsDriven(circuit), FillsItsPorts(circuit)
  PROVE  /\ Handler = "nonhazard"
         /\ \A w \in Wires : w \in Stimuli \/ \E g \in Gates : Signals(g) /\ Output[g] = w
         /\ \A v, w \in Stimuli : v = w
         /\ \A w \in Wires : \A m, n \in 1 .. Len(Drivens[w]) :
              /\ Inputs[Drivens[w][n][1]][Drivens[w][n][2]] = w
              /\ Drivens[w][m] = Drivens[w][n] => m = n
         /\ \E rank \in [Wires -> Nat] : \A g \in Gates : Signals(g) =>
              \A i \in DOMAIN Inputs[g] : rank[Inputs[g][i]] < rank[Output[g]]
<1> DEFINE gates == {g \in Gates : Kind[g] # "sniffer"}
<1>1. gates = {g \in DOMAIN circuit.kind : circuit.kind[g] # "sniffer"}
  BY DEF Gates, Kind
<1>2. \A g \in Gates : Signals(g) <=> g \in gates
  BY Wired DEF Signals
<1>3. /\ Handler = "nonhazard"
      /\ \A w \in Wires : w \in Stimuli \/ \E g \in gates : Output[g] = w
      /\ \A v, w \in Stimuli : v = w
      /\ \A w \in Wires : \A m, n \in DOMAIN Drivens[w] :
           /\ Inputs[Drivens[w][n][1]][Drivens[w][n][2]] = w
           /\ Drivens[w][m] = Drivens[w][n] => m = n
      /\ \E rank \in [Wires -> Nat] :
           \A g \in gates : \A i \in DOMAIN Inputs[g] : rank[Inputs[g][i]] < rank[Output[g]]
  BY <1>1 DEF FillsItsPorts, Handler, Wires, Stimuli, Output, Drivens, Inputs
<1>4. \A w \in Wires : DOMAIN Drivens[w] = 1 .. Len(Drivens[w])
  BY Wired
<1>5. \A w \in Wires : w \in Stimuli \/ \E g \in Gates : Signals(g) /\ Output[g] = w
  BY <1>2, <1>3
<1>6. \E rank \in [Wires -> Nat] : \A g \in Gates : Signals(g) =>
        \A i \in DOMAIN Inputs[g] : rank[Inputs[g][i]] < rank[Output[g]]
  BY <1>2, <1>3
<1>7. QED
  BY <1>3, <1>4, <1>5, <1>6

\* Wired ports, by gate.
LEMMA PortFacts ==
  ASSUME TypeOK, IsDriven(circuit)
  PROVE  /\ \A p \in Ports : p[1] \in Gates /\ p[2] \in DOMAIN Inputs[p[1]] /\ p = <<p[1], p[2]>>
         /\ \A g \in Gates : Signals(g) => <<g, 1>> \in Ports /\ 1 \in DOMAIN Inputs[g]
         /\ \A p \in Ports : Signals(p[1]) =>
              /\ Inputs[p[1]][p[2]] \in Wires
              /\ \E n \in 1 .. Len(Drivens[Inputs[p[1]][p[2]]]) : Drivens[Inputs[p[1]][p[2]]][n] = p
         /\ \A w \in Wires : Len(Drivens[w]) \in Nat
         /\ \A w \in Wires : \A n \in 1 .. Len(Drivens[w]) : Drivens[w][n] \in Ports
<1>1. \A p \in Ports : p[1] \in Gates /\ p[2] \in DOMAIN Inputs[p[1]] /\ p = <<p[1], p[2]>>
  BY DEF Ports
<1>2. \A g \in Gates : Signals(g) => <<g, 1>> \in Ports /\ 1 \in DOMAIN Inputs[g]
  <2> SUFFICES ASSUME NEW g \in Gates, Signals(g) PROVE <<g, 1>> \in Ports /\ 1 \in DOMAIN Inputs[g]
    OBVIOUS
  <2>1. /\ Len(Inputs[g]) \in Nat \ {0} /\ DOMAIN Inputs[g] = 1 .. Len(Inputs[g])
        /\ \A i \in DOMAIN Inputs[g] : <<g, i>> \in Ports
    BY DrivenFacts
  <2>2. 1 \in DOMAIN Inputs[g]
    BY <2>1
  <2>3. QED
    BY <2>1, <2>2
<1>3. ASSUME NEW p \in Ports, Signals(p[1])
      PROVE  /\ Inputs[p[1]][p[2]] \in Wires
             /\ \E n \in 1 .. Len(Drivens[Inputs[p[1]][p[2]]]) : Drivens[Inputs[p[1]][p[2]]][n] = p
  <2>1. \A i \in DOMAIN Inputs[p[1]] :
          /\ Inputs[p[1]][i] \in Wires
          /\ \E n \in 1 .. Len(Drivens[Inputs[p[1]][i]]) : Drivens[Inputs[p[1]][i]][n] = <<p[1], i>>
    BY <1>1, <1>3, DrivenFacts
  <2>2. p[2] \in DOMAIN Inputs[p[1]] /\ p = <<p[1], p[2]>>
    BY <1>1
  <2>3. QED
    BY <2>1, <2>2, Zenon
<1>4. ASSUME NEW w \in Wires
      PROVE  Len(Drivens[w]) \in Nat /\ \A n \in 1 .. Len(Drivens[w]) : Drivens[w][n] \in Ports
  <2>1. Drivens[w] \in Seq(Ports)
    BY Wired
  <2>2. QED
    BY <2>1
<1>5. QED
  BY <1>1, <1>2, <1>3, <1>4

LEMMA FlowNext ==
  ASSUME circuit' = circuit, NEW reached \in [Wires -> Nat], Flow(reached, tokens', stack'[Main])
  PROVE  FlowInv'
<1>1. /\ Gates' = Gates /\ Wires' = Wires /\ Ports' = Ports /\ Drivens' = Drivens /\ Output' = Output
      /\ Stimuli' = Stimuli /\ \A g : Signals(g)' <=> Signals(g)
  BY DEF Gates, Wires, Ports, Inputs, Drivens, Output, Stimuli, Signals, Kind
<1>2. Marks(reached, stack[Main])' <=> Marks(reached, stack'[Main])
  BY <1>1 DEF Marks, Drives, Place
<1>3. Fed(reached, tokens)' <=> Fed(reached, tokens')
  BY <1>1 DEF Fed, Given
<1>4. Runs(tokens, stack[Main])' <=> Runs(tokens', stack'[Main])
  BY <1>1 DEF Runs, Filled, About
<1>5. Flow(reached, tokens, stack[Main])'
  BY <1>2, <1>3, <1>4 DEF Flow
<1>6. QED
  BY <1>1, <1>5 DEF FlowInv

\* A step of main that reaches nothing new.
LEMMA FlowSame ==
  ASSUME DirectInv, MainStep, NEW r \in [Wires -> Nat], Flow(r, tokens, stack[Main]),
         NEW n, n = Len(stack[Main]), NEW f, f = Top(Main), NEW s, s = stack'[Main], Len(s) <= n,
         Len(s) = n /\ Drives(s[n]) => Drives(f) /\ s[n].wire = f.wire /\ Place(s[n]) = Place(f),
         Drives(f) => \/ Len(s) = n /\ Drives(s[n]) /\ s[n].wire = f.wire
                      \/ r[f.wire] > Len(Drivens[f.wire]),
         \A g \in Gates : Signals(g) /\ Filled(tokens, g) /\ About(f, g) =>
           Len(s) = n /\ About(s[n], g)
  PROVE  Flow(r, tokens, s)
<1> DEFINE o == stack[Main]
<1>1. /\ n \in Nat \ {0} /\ f = o[n] /\ Len(s) \in {n - 1, n} /\ \A i \in 1 .. n - 1 : s[i] = o[i]
  <2>1. n \in Nat \ {0} /\ f = o[n] /\ Len(s) \in {n - 1, n, n + 1} /\ Keeps(Main)
    BY MainMoves, Zenon
  <2>2. Len(s) \in {n - 1, n}
    BY <2>1
  <2>3. \A i \in 1 .. n - 1 : s[i] = o[i]
    BY <2>1, Zenon DEF Keeps
  <2>4. QED
    BY <2>1, <2>2, <2>3
<1> HIDE DEF o
<1>2. Len(o) = n /\ Marks(r, o) /\ Fed(r, tokens) /\ Runs(tokens, o)
  BY DEF Flow, o
<1>3. \A i \in 1 .. Len(s) : Drives(s[i]) =>
        i \in 1 .. n /\ Drives(o[i]) /\ s[i].wire = o[i].wire /\ Place(s[i]) = Place(o[i])
  <2> SUFFICES ASSUME NEW i \in 1 .. Len(s), Drives(s[i])
               PROVE  i \in 1 .. n /\ Drives(o[i]) /\ s[i].wire = o[i].wire /\ Place(s[i]) = Place(o[i])
    OBVIOUS
  <2>1. CASE i = n
    BY <1>1, <2>1
  <2>2. CASE i # n
    <3>1. i \in 1 .. n - 1
      BY <1>1, <2>2
    <3>2. QED
      BY <1>1, <3>1
  <2>3. QED
    BY <2>1, <2>2
<1>4. \A i \in 1 .. n : Drives(o[i]) =>
        \/ i \in 1 .. Len(s) /\ Drives(s[i]) /\ s[i].wire = o[i].wire
        \/ r[o[i].wire] > Len(Drivens[o[i].wire])
  <2> SUFFICES ASSUME NEW i \in 1 .. n, Drives(o[i])
               PROVE  \/ i \in 1 .. Len(s) /\ Drives(s[i]) /\ s[i].wire = o[i].wire
                      \/ r[o[i].wire] > Len(Drivens[o[i].wire])
    OBVIOUS
  <2>1. CASE i = n
    BY <1>1, <2>1
  <2>2. CASE i # n
    <3>1. i \in 1 .. n - 1 /\ i \in 1 .. Len(s)
      BY <1>1, <2>2
    <3>2. QED
      BY <1>1, <3>1
  <2>3. QED
    BY <2>1, <2>2
<1>5. Marks(r, s)
  <2>1. \A i \in 1 .. Len(s) : Drives(s[i]) =>
          /\ r[s[i].wire] = Place(s[i])
          /\ \A j \in 1 .. Len(s) : Drives(s[j]) /\ s[i].wire = s[j].wire => i = j
    <3>1. \A i, j \in 1 .. n : Drives(o[i]) /\ Drives(o[j]) /\ o[i].wire = o[j].wire => i = j
      BY <1>2 DEF Marks
    <3>2. \A i \in 1 .. n : Drives(o[i]) => r[o[i].wire] = Place(o[i])
      BY <1>2 DEF Marks
    <3> SUFFICES ASSUME NEW i \in 1 .. Len(s), Drives(s[i])
                 PROVE  /\ r[s[i].wire] = Place(s[i])
                        /\ \A j \in 1 .. Len(s) : Drives(s[j]) /\ s[i].wire = s[j].wire => i = j
      OBVIOUS
    <3>3. r[s[i].wire] = Place(s[i])
      BY <1>3, <3>2
    <3>4. \A j \in 1 .. Len(s) : Drives(s[j]) /\ s[i].wire = s[j].wire => i = j
      BY <1>3, <3>1
    <3>5. QED
      BY <3>3, <3>4
  <2>2. \A w \in Wires :
          \/ r[w] = 0 \/ r[w] > Len(Drivens[w])
          \/ \E i \in 1 .. Len(s) : Drives(s[i]) /\ s[i].wire = w
    <3> SUFFICES ASSUME NEW w \in Wires
                 PROVE  \/ r[w] = 0 \/ r[w] > Len(Drivens[w])
                        \/ \E i \in 1 .. Len(s) : Drives(s[i]) /\ s[i].wire = w
      OBVIOUS
    <3>1. \/ r[w] = 0 \/ r[w] > Len(Drivens[w])
          \/ \E i \in 1 .. n : Drives(o[i]) /\ o[i].wire = w
      BY <1>2 DEF Marks
    <3>2. QED
      BY <1>4, <3>1
  <2>3. QED
    BY <2>1, <2>2 DEF Marks
<1>6. Runs(tokens, s)
  <2> SUFFICES ASSUME NEW g \in Gates, Signals(g), Filled(tokens, g)
               PROVE  \E i \in 1 .. Len(s) : About(s[i], g)
    BY DEF Runs
  <2>1. PICK i \in 1 .. n : About(o[i], g)
    BY <1>2 DEF Runs
  <2>2. CASE i = n
    <3>1. Len(s) = n /\ About(s[n], g) /\ n \in 1 .. n
      BY <1>1, <2>1, <2>2
    <3>2. QED
      BY <3>1
  <2>3. CASE i # n
    <3>1. i \in 1 .. n - 1 /\ i \in 1 .. Len(s)
      BY <1>1, <2>3
    <3>2. QED
      BY <1>1, <2>1, <3>1
  <2>4. QED
    BY <2>2, <2>3
<1>7. QED
  BY <1>2, <1>5, <1>6 DEF Flow

\* A drive begins, with no token left.
LEMMA FlowBegins ==
  ASSUME DirectInv, IsDriven(circuit), FillsItsPorts(circuit),
         NEW w \in Stimuli, NEW v \in BOOLEAN, DriveWire(w, v),
         \A p \in Ports : Signals(p[1]) => tokens[p] = NULL
  PROVE  FlowInv'
<1> DEFINE r == [u \in Wires |-> IF u = w THEN 1 ELSE 0]
           s == stack'[Main]
<1>1. TypeOK /\ w \in Wires /\ circuit' = circuit /\ tokens' = tokens
  BY DriveBegins DEF DirectInv, BaseInv
<1>2. Len(s) = 1 /\ s[1].at = "write" /\ s[1].wire = w
  BY DriveBegins
<1>3. r \in [Wires -> Nat] /\ r[w] = 1 /\ \A u \in Wires : r[u] = IF u = w THEN 1 ELSE 0
  BY <1>1
<1> HIDE DEF r, s
<1>4. \A i : i \in 1 .. Len(s) <=> i = 1
  BY <1>2
<1>5. Marks(r, s)
  <2>1. Drives(s[1]) /\ Place(s[1]) = 1
    BY <1>2 DEF Drives, Place
  <2>2. \A u \in Wires : r[u] = 0 \/ \E i \in 1 .. Len(s) : Drives(s[i]) /\ s[i].wire = u
    BY <1>2, <1>3, <1>4, <2>1
  <2>3. QED
    BY <1>2, <1>3, <1>4, <2>1, <2>2 DEF Marks
<1>6. \A g \in Gates : Signals(g) => r[Output[g]] = 0
  <2>1. \A g \in Gates : Signals(g) => Output[g] \in Wires /\ Output[g] \notin Stimuli
    BY <1>1, DrivenFacts
  <2>2. QED
    BY <1>3, <2>1
<1>7. Fed(r, tokens)
  <2>1. ASSUME NEW u \in Wires, NEW n \in 1 .. Len(Drivens[u]), Signals(Drivens[u][n][1])
        PROVE  Given(r, tokens, Drivens[u][n]) <=> n < r[u]
    <3>1. Drivens[u][n] \in Ports /\ Drivens[u][n][1] \in Gates
      BY <1>1, PortFacts
    <3>2. ~Given(r, tokens, Drivens[u][n])
      BY <1>6, <2>1, <3>1 DEF Given
    <3>3. ~(n < r[u])
      BY <1>3
    <3>4. QED
      BY <3>2, <3>3
  <2>2. \A p \in Ports : Signals(p[1]) /\ r[Output[p[1]]] # 0 => tokens[p] = NULL
    OBVIOUS
  <2>3. \A u \in Stimuli : r[u] # 0
    BY <1>1, <1>3, FillsFacts
  <2>4. QED
    BY <2>1, <2>2, <2>3 DEF Fed
<1>8. Runs(tokens, s)
  <2>1. ASSUME NEW g \in Gates, Signals(g) PROVE ~Filled(tokens, g)
    <3>1. <<g, 1>> \in Ports /\ <<g, 1>>[1] = g
      BY <1>1, <2>1, PortFacts
    <3>2. QED
      BY <2>1, <3>1 DEF Filled
  <2>2. QED
    BY <2>1 DEF Runs
<1>9. QED
  BY <1>1, <1>3, <1>5, <1>7, <1>8, FlowNext DEF Flow, s

LEMMA FlowInit ==
  ASSUME Init, IsDriven(circuit), FillsItsPorts(circuit)
  PROVE  /\ TypeOK /\ FlowInv
<1> DEFINE r == [u \in Wires |-> 0]
           s == stack[Main]
<1>1. TypeOK
  <2>1. stack \in [Threads -> Seq(Frame)]
    BY DEF Init
  <2>2. circuit \in Circuits /\ NULL \in Value /\ FALSE \in Value
    BY DEF Init, Value
  <2>3. value \in [Wires -> Value] /\ tokens \in [Ports -> Value]
    BY <2>2 DEF Init
  <2>4. QED
    BY <2>1, <2>2, <2>3 DEF Init, TypeOK
<1>2. s = <<>> /\ tokens = [p \in Ports |-> NULL]
  BY DEF Init, Threads
<1>3. r \in [Wires -> Nat] /\ \A u \in Wires : r[u] = 0
  OBVIOUS
<1> HIDE DEF r, s
<1>4. \A i : i \notin 1 .. Len(s)
  BY <1>2
<1>5. Marks(r, s)
  BY <1>3, <1>4 DEF Marks
<1>6. Fed(r, tokens)
  <2>1. ASSUME NEW u \in Wires, NEW n \in 1 .. Len(Drivens[u]), Signals(Drivens[u][n][1])
        PROVE  Given(r, tokens, Drivens[u][n]) <=> n < r[u]
    <3>1. Drivens[u][n] \in Ports /\ Drivens[u][n][1] \in Gates
      BY <1>1, PortFacts
    <3>2. Output[Drivens[u][n][1]] \in Wires
      BY <1>1, <2>1, <3>1, DrivenFacts
    <3>3. ~Given(r, tokens, Drivens[u][n])
      BY <1>2, <1>3, <3>1, <3>2 DEF Given
    <3>4. ~(n < r[u])
      BY <1>3
    <3>5. QED
      BY <3>3, <3>4
  <2>2. \A p \in Ports : tokens[p] = NULL
    BY <1>2
  <2>3. QED
    BY <1>3, <2>1, <2>2 DEF Fed
<1>7. Runs(tokens, s)
  <2>1. ASSUME NEW g \in Gates, Signals(g) PROVE ~Filled(tokens, g)
    <3>1. <<g, 1>> \in Ports /\ <<g, 1>>[1] = g
      BY <1>1, <2>1, PortFacts
    <3>2. QED
      BY <1>2, <3>1 DEF Filled
  <2>2. QED
    BY <2>1 DEF Runs
<1>8. Flow(r, tokens, stack[Main])
  BY <1>5, <1>6, <1>7 DEF Flow, s
<1>9. QED
  BY <1>1, <1>3, <1>8 DEF FlowInv

\* A gate has used its tokens and writes its wire.
LEMMA FlowWrites ==
  ASSUME DirectInv, MainStep, IsDriven(circuit), FillsItsPorts(circuit),
         NEW r \in [Wires -> Nat], Flow(r, tokens, stack[Main]),
         NEW h \in Gates, Signals(h), Filled(tokens, h), About(Top(Main), h),
         NEW n, n = Len(stack[Main]), NEW s, s = stack'[Main], Len(s) = n,
         s[n].at = "write", s[n].wire = Output[h],
         tokens' = [p \in Ports |-> IF p[1] = h THEN NULL ELSE tokens[p]]
  PROVE  FlowInv'
<1> DEFINE o == stack[Main]
           q == [r EXCEPT ![Output[h]] = 1]
           out == Output[h]
<1>1. TypeOK /\ n \in Nat \ {0} /\ o \in Seq(Frame) /\ circuit' = circuit /\ About(o[n], h)
  BY MainMoves DEF DirectInv, BaseInv
<1>2. \A i \in 1 .. n - 1 : s[i] = o[i]
  BY MainMoves, Zenon DEF Keeps
<1>3. out \in Wires /\ out \notin Stimuli /\ \A g \in Gates : Signals(g) /\ Output[g] = out => g = h
  BY <1>1, DrivenFacts
<1>4. q \in [Wires -> Nat] /\ q[out] = 1 /\ \A u \in Wires : u # out => q[u] = r[u]
  BY <1>3
<1> HIDE DEF o, q
<1>5. Len(o) = n /\ Marks(r, o) /\ Fed(r, tokens) /\ Runs(tokens, o)
  BY DEF Flow, o
<1>6. <<h, 1>> \in Ports /\ <<h, 1>>[1] = h /\ tokens[<<h, 1>>] # NULL
  BY <1>1, PortFacts DEF Filled
<1>7. r[out] = 0
  BY <1>5, <1>6 DEF Fed
<1>8. \A i \in 1 .. n : Drives(o[i]) => i \in 1 .. n - 1 /\ o[i].wire # out
  <2> SUFFICES ASSUME NEW i \in 1 .. n, Drives(o[i]) PROVE i \in 1 .. n - 1 /\ o[i].wire # out
    OBVIOUS
  <2>1. i # n
    BY <1>1 DEF Drives, About
  <2>2. o[i] \in Frame
    BY <1>1, <1>5, ElementOfSeq
  <2>3. Place(o[i]) # 0
    BY <2>2 DEF Place, Drives, Frame
  <2>4. r[o[i].wire] = Place(o[i])
    BY <1>5 DEF Marks
  <2>5. QED
    BY <1>1, <1>7, <2>1, <2>3, <2>4
<1>9. Drives(s[n]) /\ Place(s[n]) = 1
  BY DEF Drives, Place
<1>10. Marks(q, s)
  <2>1. ASSUME NEW i \in 1 .. n, Drives(s[i])
        PROVE  i = n \/ (i \in 1 .. n - 1 /\ s[i] = o[i] /\ Drives(o[i]) /\ s[i].wire # out)
    <3>1. CASE i \in 1 .. n - 1
      <4>1. s[i] = o[i] /\ i \in 1 .. n
        BY <1>1, <1>2, <3>1
      <4>2. QED
        BY <1>8, <2>1, <3>1, <4>1
    <3>2. QED
      BY <1>1, <3>1
  <2>2. \A i \in 1 .. n - 1 : Drives(o[i]) => o[i].wire \in Wires
    <3> SUFFICES ASSUME NEW i \in 1 .. n - 1, Drives(o[i]) PROVE o[i].wire \in Wires
      OBVIOUS
    <3>1. i \in 1 .. n
      BY <1>1
    <3>2. o[i] \in Frame
      BY <1>1, <1>5, <3>1, ElementOfSeq
    <3>3. QED
      BY <3>2 DEF Drives, Frame
  <2>3. \A i \in 1 .. n - 1 : i \in 1 .. n
    BY <1>1
  <2>4. ASSUME NEW i \in 1 .. n, Drives(s[i])
        PROVE  /\ q[s[i].wire] = Place(s[i])
               /\ \A j \in 1 .. n : Drives(s[j]) /\ s[i].wire = s[j].wire => i = j
    <3>1. q[s[i].wire] = Place(s[i])
      <4>1. CASE i = n
        BY <1>4, <1>9, <4>1
      <4>2. CASE i # n
        <5>1. i \in 1 .. n - 1 /\ s[i] = o[i] /\ Drives(o[i]) /\ s[i].wire # out
          BY <2>1, <2>4, <4>2
        <5>2. r[o[i].wire] = Place(o[i])
          BY <1>5, <5>1 DEF Marks
        <5>3. QED
          BY <1>4, <2>2, <5>1, <5>2
      <4>3. QED
        BY <4>1, <4>2
    <3>2. ASSUME NEW j \in 1 .. n, Drives(s[j]), s[i].wire = s[j].wire PROVE i = j
      <4>1. CASE i = n \/ j = n
        BY <2>1, <2>4, <3>2, <4>1
      <4>2. CASE i # n /\ j # n
        <5>1. s[i] = o[i] /\ Drives(o[i]) /\ s[j] = o[j] /\ Drives(o[j])
          BY <2>1, <2>4, <3>2, <4>2
        <5>2. QED
          BY <1>5, <3>2, <5>1 DEF Marks
      <4>3. QED
        BY <4>1, <4>2
    <3>3. QED
      BY <3>1, <3>2
  <2>5. ASSUME NEW u \in Wires
        PROVE  \/ q[u] = 0 \/ q[u] > Len(Drivens[u])
               \/ \E i \in 1 .. n : Drives(s[i]) /\ s[i].wire = u
    <3>1. CASE u = out
      <4>1. n \in 1 .. n
        BY <1>1
      <4>2. QED
        BY <1>9, <3>1, <4>1
    <3>2. CASE u # out
      <4>1. q[u] = r[u]
        BY <1>4, <3>2
      <4>2. \/ r[u] = 0 \/ r[u] > Len(Drivens[u])
            \/ \E i \in 1 .. n : Drives(o[i]) /\ o[i].wire = u
        BY <1>5 DEF Marks
      <4>3. ASSUME NEW i \in 1 .. n, Drives(o[i]), o[i].wire = u
            PROVE  \E j \in 1 .. n : Drives(s[j]) /\ s[j].wire = u
        <5>1. i \in 1 .. n - 1
          BY <1>8, <4>3
        <5>2. s[i] = o[i]
          BY <1>2, <5>1
        <5>3. QED
          BY <4>3, <5>2
      <4>4. QED
        BY <4>1, <4>2, <4>3
    <3>3. QED
      BY <3>1, <3>2
  <2>6. QED
    BY <2>4, <2>5 DEF Marks
<1>11. \A g \in Gates : Signals(g) => Output[g] \in Wires /\ (g # h => q[Output[g]] = r[Output[g]])
  <2>1. \A g \in Gates : Signals(g) => Output[g] \in Wires
    BY <1>1, DrivenFacts
  <2>2. QED
    BY <1>3, <1>4, <2>1
<1>12. \A p \in Ports : tokens'[p] = IF p[1] = h THEN NULL ELSE tokens[p]
  OBVIOUS
<1>13. Fed(q, tokens')
  <2>1. ASSUME NEW u \in Wires, NEW k \in 1 .. Len(Drivens[u]), Signals(Drivens[u][k][1])
        PROVE  Given(q, tokens', Drivens[u][k]) <=> k < q[u]
    <3> DEFINE p == Drivens[u][k]
    <3>1. p \in Ports /\ p[1] \in Gates
      BY <1>1, PortFacts
    <3> HIDE DEF p
    <3>2. Given(r, tokens, p) <=> k < r[u]
      BY <1>5, <2>1 DEF Fed, p
    <3>3. k \in Nat \ {0} /\ (u = out => ~(k < r[u]) /\ ~(k < q[u]))
      <4>1. Len(Drivens[u]) \in Nat
        BY <1>1, PortFacts
      <4>2. QED
        BY <1>4, <1>7, <4>1
    <3>4. CASE p[1] = h
      <4>1. Given(r, tokens, p)
        BY <3>1, <3>4 DEF Given, Filled
      <4>2. u # out /\ k < q[u]
        BY <1>4, <3>2, <3>3, <4>1
      <4>3. Given(q, tokens', p)
        BY <1>4, <3>4 DEF Given
      <4>4. QED
        BY <4>2, <4>3 DEF p
    <3>5. CASE p[1] # h
      <4>1. q[Output[p[1]]] = r[Output[p[1]]] /\ tokens'[p] = tokens[p]
        BY <1>11, <1>12, <2>1, <3>1, <3>5 DEF p
      <4>2. Given(q, tokens', p) <=> Given(r, tokens, p)
        BY <4>1 DEF Given
      <4>3. k < q[u] <=> k < r[u]
        BY <1>4, <3>3
      <4>4. QED
        BY <3>2, <4>2, <4>3 DEF p
    <3>6. QED
      BY <3>4, <3>5
  <2>2. ASSUME NEW p \in Ports, Signals(p[1]), q[Output[p[1]]] # 0 PROVE tokens'[p] = NULL
    <3>1. CASE p[1] = h
      BY <1>12, <3>1
    <3>2. CASE p[1] # h
      <4>1. p[1] \in Gates
        BY <1>1, PortFacts
      <4>2. r[Output[p[1]]] # 0
        BY <1>11, <2>2, <3>2, <4>1
      <4>3. tokens[p] = NULL
        BY <1>5, <2>2, <4>2 DEF Fed
      <4>4. QED
        BY <1>12, <3>2, <4>3
    <3>3. QED
      BY <3>1, <3>2
  <2>3. \A u \in Stimuli : q[u] # 0
    <3> DEFINE p == <<h, 1>>
               x == Inputs[h][1]
    <3>1. p \in Ports /\ p[1] = h /\ p[2] = 1
      BY <1>6
    <3>2. x \in Wires /\ \E k \in 1 .. Len(Drivens[x]) : Drivens[x][k] = p
      BY <1>1, <3>1, PortFacts
    <3> HIDE DEF p, x
    <3>3. PICK k \in 1 .. Len(Drivens[x]) : Drivens[x][k] = p
      BY <3>2
    <3>4. Given(r, tokens, p)
      BY <1>6 DEF Given, p
    <3>5. k < r[x]
      BY <1>5, <3>1, <3>2, <3>3, <3>4 DEF Fed
    <3>6. r[x] # 0
      <4>1. Len(Drivens[x]) \in Nat
        BY <1>1, <3>2, PortFacts
      <4>2. QED
        BY <3>2, <3>5, <4>1
    <3>7. \A u \in Stimuli : r[u] # 0
      BY <1>5, <3>2, <3>6 DEF Fed
    <3>8. QED
      BY <1>1, <1>3, <1>4, <3>7, Wired
  <2>4. QED
    BY <2>1, <2>2, <2>3 DEF Fed
<1>14. Runs(tokens', s)
  <2> SUFFICES ASSUME NEW g \in Gates, Signals(g), Filled(tokens', g)
               PROVE  \E i \in 1 .. Len(s) : About(s[i], g)
    BY DEF Runs
  <2>1. g # h
    BY <1>6, <1>12 DEF Filled
  <2>2. Filled(tokens, g)
    BY <1>12, <2>1 DEF Filled
  <2>3. PICK i \in 1 .. n : About(o[i], g)
    BY <1>5, <2>2 DEF Runs
  <2>4. i # n
    BY <1>1, <2>1, <2>3 DEF About
  <2>5. i \in 1 .. n - 1
    BY <1>1, <2>4
  <2>6. QED
    BY <1>2, <2>3, <2>5
<1>15. QED
  BY <1>1, <1>4, <1>10, <1>13, <1>14, FlowNext DEF Flow

\* A wire gives its next port a token and calls its gate.
LEMMA FlowGives ==
  ASSUME DirectInv, MainStep, IsDriven(circuit), FillsItsPorts(circuit),
         NEW r \in [Wires -> Nat], Flow(r, tokens, stack[Main]),
         NEW f, f = Top(Main), f.at = "notify", More(f),
         NEW v, v # NULL, tokens' = [tokens EXCEPT ![Drivens[f.wire][f.next]] = v],
         NEW n, n = Len(stack[Main]), NEW s, s = stack'[Main], Len(s) = n + 1,
         s[n].at = "notify", s[n].wire = f.wire, s[n].next = f.next + 1,
         s[n + 1].at = "call", s[n + 1].gate = Drivens[f.wire][f.next][1]
  PROVE  FlowInv'
<1> DEFINE o == stack[Main]
           w == f.wire
           k == f.next
           p == Drivens[w][k]
           q == [r EXCEPT ![w] = k + 1]
<1>1. /\ TypeOK /\ n \in Nat \ {0} /\ o \in Seq(Frame) /\ circuit' = circuit /\ o[n] = f
      /\ f \in Frame
  BY MainMoves DEF DirectInv, BaseInv
<1>2. \A i \in 1 .. n - 1 : s[i] = o[i]
  BY MainMoves, Zenon DEF Keeps
<1>3. w \in Wires /\ k \in 1 .. Len(Drivens[w]) /\ p \in Ports /\ p[1] \in Gates
  <2>1. w \in Wires /\ k \in DOMAIN Drivens[w] /\ p \in Ports /\ p[1] \in Gates
    BY <1>1, DrivenPort
  <2>2. DOMAIN Drivens[w] = 1 .. Len(Drivens[w])
    BY <1>1, <2>1, Wired
  <2>3. QED
    BY <2>1, <2>2
<1>4. k \in Nat \ {0} /\ k + 1 \in Nat \ {0} /\ Len(Drivens[w]) \in Nat
  BY <1>1, <1>3, PortFacts
<1>5. q \in [Wires -> Nat] /\ q[w] = k + 1 /\ \A u \in Wires : u # w => q[u] = r[u]
  BY <1>3, <1>4
<1>6. Len(o) = n /\ Marks(r, o) /\ Fed(r, tokens) /\ Runs(tokens, o)
  BY DEF Flow
<1>7. s[n].wire = w /\ s[n].next = k + 1 /\ s[n + 1].gate = p[1]
  OBVIOUS
<1>8. tokens'[p] = v /\ \A x \in Ports : x # p => tokens'[x] = tokens[x]
  BY <1>1, <1>3 DEF TypeOK
<1> HIDE DEF o, q, p, w, k
<1>9. f.wire = w /\ Drives(f) /\ Place(f) = k
  BY DEF w, k, Drives, Place
<1>10. r[w] = k
  <2>1. n \in 1 .. n
    BY <1>1
  <2>2. QED
    BY <1>1, <1>6, <1>9, <2>1 DEF Marks
<1>11. \A u \in Wires : q[u] # 0 <=> r[u] # 0
  BY <1>4, <1>5, <1>10
<1>12. Drives(s[n]) /\ Place(s[n]) = k + 1 /\ ~Drives(s[n + 1]) /\ About(s[n + 1], p[1])
  BY <1>7 DEF Drives, Place, About
<1>13. \A i \in 1 .. n - 1 : Drives(o[i]) => o[i].wire # w /\ o[i].wire \in Wires /\ i \in 1 .. n
  <2> SUFFICES ASSUME NEW i \in 1 .. n - 1, Drives(o[i])
               PROVE  o[i].wire # w /\ o[i].wire \in Wires /\ i \in 1 .. n
    OBVIOUS
  <2>1. i \in 1 .. n /\ n \in 1 .. n /\ i # n
    BY <1>1
  <2>2. o[i] \in Frame
    BY <1>1, <1>6, <2>1, ElementOfSeq
  <2>3. o[i].wire \in Wires
    BY <2>2 DEF Drives, Frame
  <2>4. o[i].wire # w
    BY <1>1, <1>6, <1>9, <2>1 DEF Marks
  <2>5. QED
    BY <2>1, <2>3, <2>4
<1>14. Marks(q, s)
  <2>1. ASSUME NEW i \in 1 .. n + 1, Drives(s[i])
        PROVE  i = n \/ (i \in 1 .. n - 1 /\ s[i] = o[i] /\ Drives(o[i]) /\ s[i].wire # w)
    <3>1. CASE i \in 1 .. n - 1
      BY <1>2, <1>13, <2>1, <3>1
    <3>2. CASE i = n + 1
      BY <1>12, <2>1, <3>2
    <3>3. QED
      BY <1>1, <3>1, <3>2
  <2>2. ASSUME NEW i \in 1 .. n + 1, Drives(s[i])
        PROVE  /\ q[s[i].wire] = Place(s[i])
               /\ \A j \in 1 .. n + 1 : Drives(s[j]) /\ s[i].wire = s[j].wire => i = j
    <3>1. q[s[i].wire] = Place(s[i])
      <4>1. CASE i = n
        BY <1>5, <1>7, <1>12, <4>1
      <4>2. CASE i # n
        <5>1. i \in 1 .. n - 1 /\ s[i] = o[i] /\ Drives(o[i]) /\ s[i].wire # w
          BY <2>1, <2>2, <4>2
        <5>2. r[o[i].wire] = Place(o[i]) /\ o[i].wire \in Wires
          BY <1>6, <1>13, <5>1 DEF Marks
        <5>3. QED
          BY <1>5, <5>1, <5>2
      <4>3. QED
        BY <4>1, <4>2
    <3>2. ASSUME NEW j \in 1 .. n + 1, Drives(s[j]), s[i].wire = s[j].wire PROVE i = j
      <4>1. CASE i = n \/ j = n
        BY <1>7, <2>1, <2>2, <3>2, <4>1
      <4>2. CASE i # n /\ j # n
        <5>1. s[i] = o[i] /\ Drives(o[i]) /\ s[j] = o[j] /\ Drives(o[j])
              /\ i \in 1 .. n - 1 /\ j \in 1 .. n - 1
          BY <2>1, <2>2, <3>2, <4>2
        <5>2. i \in 1 .. n /\ j \in 1 .. n
          BY <1>13, <5>1
        <5>3. QED
          BY <1>6, <3>2, <5>1, <5>2 DEF Marks
      <4>3. QED
        BY <4>1, <4>2
    <3>3. QED
      BY <3>1, <3>2
  <2>3. ASSUME NEW u \in Wires
        PROVE  \/ q[u] = 0 \/ q[u] > Len(Drivens[u])
               \/ \E i \in 1 .. n + 1 : Drives(s[i]) /\ s[i].wire = u
    <3>0. n \in 1 .. n + 1 /\ \A i \in 1 .. n - 1 : i \in 1 .. n + 1
      BY <1>1
    <3>1. CASE u = w
      BY <1>7, <1>12, <3>0, <3>1
    <3>2. CASE u # w
      <4>1. q[u] = r[u]
        BY <1>5, <3>2
      <4>2. \/ r[u] = 0 \/ r[u] > Len(Drivens[u])
            \/ \E i \in 1 .. n : Drives(o[i]) /\ o[i].wire = u
        BY <1>6 DEF Marks
      <4>3. ASSUME NEW i \in 1 .. n, Drives(o[i]), o[i].wire = u
            PROVE  \E j \in 1 .. n + 1 : Drives(s[j]) /\ s[j].wire = u
        <5>1. i # n
          BY <1>1, <1>9, <3>2, <4>3
        <5>2. i \in 1 .. n - 1
          BY <1>1, <5>1
        <5>3. s[i] = o[i] /\ i \in 1 .. n + 1
          BY <1>2, <3>0, <5>2
        <5>4. QED
          BY <4>3, <5>3
      <4>4. QED
        BY <4>1, <4>2, <4>3
    <3>3. QED
      BY <3>1, <3>2
  <2>4. QED
    BY <2>2, <2>3 DEF Marks
<1>15. \A g \in Gates : Signals(g) => Output[g] \in Wires
  BY <1>1, DrivenFacts
<1>16. Signals(p[1]) => r[Output[p[1]]] = 0
  <2> SUFFICES ASSUME Signals(p[1]) PROVE r[Output[p[1]]] = 0
    OBVIOUS
  <2>1. Given(r, tokens, p) <=> k < r[w]
    BY <1>3, <1>6 DEF Fed, p
  <2>2. QED
    BY <1>4, <1>10, <2>1 DEF Given
<1>17. Fed(q, tokens')
  <2>1. ASSUME NEW u \in Wires, NEW m \in 1 .. Len(Drivens[u]), Signals(Drivens[u][m][1])
        PROVE  Given(q, tokens', Drivens[u][m]) <=> m < q[u]
    <3> DEFINE x == Drivens[u][m]
    <3>1. x \in Ports /\ x[1] \in Gates /\ m \in Nat
      <4>1. Len(Drivens[u]) \in Nat
        BY <1>1, PortFacts
      <4>2. QED
        BY <1>1, <4>1, PortFacts
    <3>2. Given(r, tokens, x) <=> m < r[u]
      BY <1>6, <2>1 DEF Fed
    <3>3. x = p => u = w /\ m = k
      <4> SUFFICES ASSUME x = p PROVE u = w /\ m = k
        OBVIOUS
      <4>1. Inputs[x[1]][x[2]] = u
        BY <1>1, FillsFacts
      <4>2. Inputs[p[1]][p[2]] = w
        BY <1>1, <1>3, FillsFacts DEF p
      <4>3. u = w
        BY <4>1, <4>2
      <4>4. QED
        BY <1>1, <1>3, <4>3, FillsFacts DEF p
    <3>4. (u = w /\ m = k) => x = p
      BY DEF p
    <3> HIDE DEF x
    <3>5. CASE x = p
      <4>1. Given(q, tokens', x)
        BY <1>8, <3>5 DEF Given
      <4>2. m < q[u]
        BY <1>4, <1>5, <3>3, <3>5
      <4>3. QED
        BY <4>1, <4>2 DEF x
    <3>6. CASE x # p
      <4>1. tokens'[x] = tokens[x] /\ (q[Output[x[1]]] # 0 <=> r[Output[x[1]]] # 0)
        BY <1>8, <1>11, <1>15, <2>1, <3>1, <3>6 DEF x
      <4>2. Given(q, tokens', x) <=> Given(r, tokens, x)
        BY <4>1 DEF Given
      <4>3. m < q[u] <=> m < r[u]
        <5>1. CASE u = w
          BY <1>4, <1>5, <1>10, <3>1, <3>4, <3>6, <5>1
        <5>2. CASE u # w
          BY <1>5, <5>2
        <5>3. QED
          BY <5>1, <5>2
      <4>4. QED
        BY <3>2, <4>2, <4>3 DEF x
    <3>7. QED
      BY <3>5, <3>6
  <2>2. ASSUME NEW x \in Ports, Signals(x[1]), q[Output[x[1]]] # 0 PROVE tokens'[x] = NULL
    <3>1. x[1] \in Gates
      BY <1>1, PortFacts
    <3>2. r[Output[x[1]]] # 0
      BY <1>11, <1>15, <2>2, <3>1
    <3>3. tokens[x] = NULL /\ x # p
      BY <1>6, <1>16, <2>2, <3>2 DEF Fed
    <3>4. QED
      BY <1>8, <3>3
  <2>3. \A u \in Stimuli : q[u] # 0
    <3>1. r[w] # 0
      BY <1>4, <1>10
    <3>2. \A u \in Stimuli : r[u] # 0
      BY <1>3, <1>6, <3>1 DEF Fed
    <3>3. QED
      BY <1>1, <1>11, <3>2, Wired
  <2>4. QED
    BY <2>1, <2>2, <2>3 DEF Fed
<1>18. Runs(tokens', s)
  <2> SUFFICES ASSUME NEW g \in Gates, Signals(g), Filled(tokens', g)
               PROVE  \E i \in 1 .. Len(s) : About(s[i], g)
    BY DEF Runs
  <2>0. n + 1 \in 1 .. n + 1 /\ \A i \in 1 .. n - 1 : i \in 1 .. n + 1
    BY <1>1
  <2>1. CASE g = p[1]
    BY <1>12, <2>0, <2>1
  <2>2. CASE g # p[1]
    <3>1. Filled(tokens, g)
      BY <1>8, <2>2 DEF Filled
    <3>2. PICK i \in 1 .. n : About(o[i], g)
      BY <1>6, <3>1 DEF Runs
    <3>3. i # n
      BY <1>1, <3>2 DEF About
    <3>4. i \in 1 .. n - 1
      BY <1>1, <3>3
    <3>5. s[i] = o[i] /\ i \in 1 .. n + 1
      BY <1>2, <2>0, <3>4
    <3>6. QED
      BY <3>2, <3>5
  <2>3. QED
    BY <2>1, <2>2
<1>19. QED
  BY <1>1, <1>5, <1>14, <1>17, <1>18, FlowNext DEF Flow

LEMMA FlowStep ==
  ASSUME DirectInv, MainStep, IsDriven(circuit), FillsItsPorts(circuit), FlowInv
  PROVE  FlowInv'
<1>1. PICK r \in [Wires -> Nat] : Flow(r, tokens, stack[Main])
  BY DEF FlowInv
<1> DEFINE n == Len(stack[Main])
           f == Top(Main)
           s == stack'[Main]
<1>2. n = Len(stack[Main]) /\ f = Top(Main) /\ s = stack'[Main]
  OBVIOUS
<1>3. /\ circuit' = circuit /\ n \in Nat \ {0} /\ f \in Frame /\ f = stack[Main][n] /\ TypeOK
      /\ Main \in Threads
  BY MainMoves DEF DirectInv, BaseInv
<1>4. Handler = "nonhazard"
  BY <1>3, FillsFacts
<1> HIDE DEF n, f, s
<1>5. ASSUME tokens' = tokens, Len(s) <= n,
             Len(s) = n /\ Drives(s[n]) => Drives(f) /\ s[n].wire = f.wire /\ Place(s[n]) = Place(f),
             Drives(f) => \/ Len(s) = n /\ Drives(s[n]) /\ s[n].wire = f.wire
                          \/ r[f.wire] > Len(Drivens[f.wire]),
             \A g \in Gates : Signals(g) /\ Filled(tokens, g) /\ About(f, g) =>
               Len(s) = n /\ About(s[n], g)
      PROVE  FlowInv'
  <2>1. Flow(r, tokens, s)
    BY <1>1, <1>2, <1>5, FlowSame
  <2>2. Flow(r, tokens', stack'[Main])
    BY <1>2, <1>5, <2>1
  <2>3. QED
    BY <1>3, <2>2, FlowNext
<1>6. ASSUME Return(Main), tokens' = tokens, ~Drives(f) \/ r[f.wire] > Len(Drivens[f.wire]),
             \A g \in Gates : Signals(g) /\ Filled(tokens, g) => ~About(f, g)
      PROVE  FlowInv'
  <2>1. Len(s) = n - 1
    BY <1>2, <1>3, <1>6, TopGoes
  <2>2. Len(s) <= n /\ Len(s) # n
    BY <1>3, <2>1
  <2>3. QED
    BY <1>5, <1>6, <2>2
<1>7. ASSUME NEW g \in Frame, Goto(Main, g)
      PROVE  Len(s) = n /\ s[n] = g /\ Len(s) <= n
  <2>1. Len(s) = n /\ s[n] = g
    BY <1>2, <1>7, TopGoes
  <2>2. QED
    BY <1>3, <2>1
<1>8. CASE CallDefault(Main)
  <2> DEFINE c == Run(f.gate, f.value)
  <2>1. f.at = "call" /\ f.gate \in Gates /\ tokens' = tokens /\ Goto(Main, c)
    BY <1>2, <1>3, <1>8, TopFrame DEF CallDefault, Frame
  <2>2. c \in Frame /\ c.at = "run" /\ c.gate = f.gate
    BY <1>3, <2>1, NewFrames DEF Frame, Run, F
  <2> HIDE DEF c
  <2>3. Len(s) = n /\ s[n] = c /\ Len(s) <= n
    BY <1>7, <2>1, <2>2
  <2>4. ~Drives(c) /\ ~Drives(f) /\ \A g \in Gates : About(f, g) => About(c, g)
    BY <2>1, <2>2 DEF Drives, About
  <2>5. QED
    BY <1>5, <2>1, <2>3, <2>4
<1>9. CASE Execute(Main)
  <2> DEFINE h == f.gate
             w == Write(h, Output[h], Logic(Kind[h], Vals(h)))
  <2>1. f.at = "run" /\ h \in Gates /\ Kind[h] # "sniffer"
    BY <1>2, <1>3, <1>9, TopFrame DEF Execute, Frame
  <2>2. Signals(h) /\ ~Drives(f) /\ \A g \in Gates : About(f, g) <=> g = h
    BY <1>3, <2>1, Wired DEF Signals, Drives, About
  <2>3. Filled(tokens, h) => Complete(h)
    <3>1. \A i \in DOMAIN Inputs[h] : <<h, i>> \in Ports /\ <<h, i>>[1] = h
      BY <1>3, <2>1, <2>2, DrivenFacts
    <3>2. \A i \in DOMAIN Inputs[h] : Read(h, i) = tokens[<<h, i>>]
      BY <1>4 DEF Read
    <3>3. QED
      BY <3>1, <3>2 DEF Filled, Complete
  <2>4. Complete(h) => Filled(tokens, h)
    <3> SUFFICES ASSUME Complete(h), NEW p \in Ports, p[1] = h PROVE tokens[p] # NULL
      BY DEF Filled
    <3>1. p[2] \in DOMAIN Inputs[h] /\ p = <<h, p[2]>>
      BY <1>3, PortFacts
    <3>2. Read(h, p[2]) = tokens[<<h, p[2]>>]
      BY <1>4 DEF Read
    <3>3. QED
      BY <3>1, <3>2 DEF Complete
  <2>5. CASE Complete(h)
    <3>1. Logic(Kind[h], Vals(h)) # NULL /\ Output[h] # NULL
      BY <1>3, <2>1, <2>2, <2>5, GateMeans
    <3>2. Goto(Main, w) /\ tokens' = [p \in Ports |-> IF p[1] = h THEN NULL ELSE tokens[p]]
      BY <1>2, <1>4, <1>9, <2>5, <3>1 DEF Execute, Absorb
    <3>3. w \in Frame /\ w.at = "write" /\ w.wire = Output[h]
      <4>1. w.wire = Output[h]
        BY DEF Write, F
      <4>2. QED
        BY <1>3, <2>1, <2>5, <3>1, <4>1, WrittenFrame
    <3> HIDE DEF w
    <3>4. Len(s) = n /\ s[n] = w
      BY <1>7, <3>2, <3>3
    <3>5. s[n].at = "write" /\ s[n].wire = Output[h] /\ About(Top(Main), h)
      BY <1>2, <2>1, <2>2, <3>3, <3>4
    <3> HIDE DEF h
    <3>6. QED
      BY <1>1, <1>2, <2>1, <2>2, <2>4, <2>5, <3>2, <3>4, <3>5, FlowWrites
  <2>6. CASE ~Complete(h)
    <3>1. Return(Main) /\ tokens' = tokens
      BY <1>2, <1>9, <2>6 DEF Execute
    <3>2. QED
      BY <1>6, <2>2, <2>3, <2>6, <3>1
  <2>7. QED
    BY <2>5, <2>6
<1>10. CASE Sniff(Main)
  <2>1. f.at = "run" /\ Kind[f.gate] = "sniffer" /\ tokens' = tokens /\ Return(Main)
    BY <1>2, <1>3, <1>10, TopFrame DEF Sniff
  <2>2. ~Drives(f) /\ \A g \in Gates : Signals(g) => ~About(f, g)
    BY <2>1 DEF Drives, About, Signals
  <2>3. QED
    BY <1>6, <2>1, <2>2
<1>11. CASE WriteWire(Main)
  <2> DEFINE c == Notify(f.gate, f.wire, f.value, 1)
  <2>1. f.at = "write" /\ tokens' = tokens /\ Goto(Main, c)
    BY <1>2, <1>3, <1>11, TopFrame DEF WriteWire
  <2>2. c \in Frame /\ c.at = "notify" /\ c.wire = f.wire /\ c.next = 1
    BY <1>3, <2>1 DEF Notify, F, Frame
  <2> HIDE DEF c
  <2>3. Len(s) = n /\ s[n] = c /\ Len(s) <= n
    BY <1>7, <2>1, <2>2
  <2>4. /\ Drives(c) /\ Drives(f) /\ c.wire = f.wire /\ Place(c) = Place(f)
        /\ \A g \in Gates : ~About(f, g)
    BY <2>1, <2>2 DEF Drives, About, Place
  <2>5. QED
    BY <1>5, <2>1, <2>3, <2>4
<1>12. CASE NotifyNext(Main)
  <2> DEFINE p == Drivens[f.wire][f.next]
             rest == Notify(f.gate, f.wire, f.value, f.next + 1)
             c == Call(p[1], f.value)
  <2>1. f.at = "notify" /\ More(f) /\ tokens' = [tokens EXCEPT ![p] = f.value]
    BY <1>2, <1>3, <1>4, <1>12, TopFrame DEF NotifyNext, Give
  <2>2. f.value # NULL /\ f.value \in Value /\ p[1] \in Gates
    BY <1>3, <2>1, DrivenPort DEF Frame
  <2>3. CallFrom(Main, rest, c)
    <3>1. IsEnabled(p[1])
      BY <2>2 DEF DirectInv, IsEnabled
    <3>2. QED
      BY <1>2, <1>12, <3>1 DEF NotifyNext
  <2>4. rest \in Frame /\ rest.at = "notify" /\ rest.wire = f.wire /\ rest.next = f.next + 1
    BY <1>3, <2>1 DEF Notify, F, Frame
  <2>5. c \in Frame /\ c.at = "call" /\ c.gate = p[1]
    BY <1>3, <2>2, NewFrames DEF Call, F
  <2> HIDE DEF rest, c
  <2>6. Len(s) = n + 1 /\ s[n] = rest /\ s[n + 1] = c
    BY <1>2, <2>3, <2>4, <2>5, TopGoes
  <2>7. QED
    BY <1>1, <1>2, <2>1, <2>2, <2>4, <2>5, <2>6, FlowGives
<1>13. CASE NotifyDone(Main)
  <2>1. f.at = "notify" /\ ~More(f) /\ tokens' = tokens /\ Return(Main)
        /\ f.next \in Nat /\ f.wire \in Wires
    BY <1>2, <1>3, <1>13, TopFrame DEF NotifyDone, Frame
  <2>2. r[f.wire] > Len(Drivens[f.wire])
    <3>1. r[f.wire] = f.next
      <4>1. n \in 1 .. Len(stack[Main]) /\ Drives(f) /\ Place(f) = f.next
        BY <1>2, <1>3, <2>1 DEF Drives, Place
      <4>2. QED
        BY <1>1, <1>3, <4>1 DEF Flow, Marks
    <3>2. Len(Drivens[f.wire]) \in Nat
      BY <1>3, <2>1, PortFacts
    <3>3. QED
      BY <2>1, <3>1, <3>2 DEF More
  <2>3. \A g \in Gates : ~About(f, g)
    BY <2>1 DEF About
  <2>4. QED
    BY <1>6, <2>1, <2>2, <2>3
<1>14. QED
  BY <1>8, <1>9, <1>10, <1>11, <1>12, <1>13 DEF MainStep

\* When main has returned, a drive has come to every wire, or there was none.
LEMMA FlowEnds ==
  ASSUME TypeOK, IsDriven(circuit), FillsItsPorts(circuit), FlowInv, Len(stack[Main]) = 0
  PROVE  \A p \in Ports : Signals(p[1]) => tokens[p] = NULL
<1> DEFINE s == stack[Main]
<1>1. PICK r \in [Wires -> Nat] : Marks(r, s) /\ Fed(r, tokens) /\ Runs(tokens, s)
  BY DEF FlowInv, Flow
<1>2. \A i : i \notin 1 .. Len(s)
  OBVIOUS
<1> HIDE DEF s
<1>3. \A w \in Wires : r[w] = 0 \/ r[w] > Len(Drivens[w])
  BY <1>1, <1>2 DEF Marks
<1>4. \A g \in Gates : Signals(g) => ~Filled(tokens, g)
  BY <1>1, <1>2 DEF Runs
<1>5. \A p \in Ports : Signals(p[1]) =>
        p[1] \in Gates /\ p[2] \in DOMAIN Inputs[p[1]] /\ Inputs[p[1]][p[2]] \in Wires
  BY PortFacts
<1>6. ASSUME NEW p \in Ports, Signals(p[1])
      PROVE  Given(r, tokens, p) <=> r[Inputs[p[1]][p[2]]] # 0
  <2> DEFINE w == Inputs[p[1]][p[2]]
  <2>1. w \in Wires /\ \E k \in 1 .. Len(Drivens[w]) : Drivens[w][k] = p
    BY <1>6, PortFacts
  <2> HIDE DEF w
  <2>2. PICK k \in 1 .. Len(Drivens[w]) : Drivens[w][k] = p
    BY <2>1
  <2>3. Given(r, tokens, p) <=> k < r[w]
    BY <1>1, <1>6, <2>1, <2>2 DEF Fed
  <2>4. Len(Drivens[w]) \in Nat /\ r[w] \in Nat
    BY <2>1, PortFacts
  <2>5. k < r[w] <=> r[w] # 0
    BY <1>3, <2>1, <2>4
  <2>6. QED
    BY <2>3, <2>5 DEF w
<1>7. CASE \A w \in Wires : r[w] = 0
  BY <1>5, <1>6, <1>7 DEF Given
<1>8. CASE \E w \in Wires : r[w] # 0
  <2>1. \A w \in Stimuli : r[w] # 0
    BY <1>1, <1>8 DEF Fed
  <2>2. PICK rank \in [Wires -> Nat] : \A g \in Gates : Signals(g) =>
          \A i \in DOMAIN Inputs[g] : rank[Inputs[g][i]] < rank[Output[g]]
    BY FillsFacts
  <2> DEFINE Left == {rank[w] : w \in {v \in Wires : r[v] = 0}}
  <2>3. ASSUME Left # {} PROVE FALSE
    <3>1. Left \subseteq Nat
      OBVIOUS
    <3>2. \E x \in Left : \A y \in Left : ~(<<y, x>> \in OpToRel(<, Nat))
      BY <2>3, <3>1, NatLessThanWellFounded, WFMin
    <3>3. PICK x \in Left : \A y \in Left : ~(y < x)
      BY <3>1, <3>2 DEF OpToRel
    <3>4. PICK w \in Wires : r[w] = 0 /\ rank[w] = x
      BY <3>3
    <3>5. PICK g \in Gates : Signals(g) /\ Output[g] = w
      BY <2>1, <3>4, FillsFacts
    <3>6. ASSUME NEW p \in Ports, p[1] = g PROVE tokens[p] # NULL
      <4> DEFINE v == Inputs[p[1]][p[2]]
      <4>1. v \in Wires /\ rank[v] < rank[w]
        BY <1>5, <2>2, <3>5, <3>6
      <4>2. r[v] # 0
        <5>1. rank[v] \in Left \/ r[v] # 0
          BY <4>1
        <5>2. QED
          BY <3>3, <3>4, <4>1, <5>1
      <4>3. Given(r, tokens, p)
        BY <1>6, <3>5, <3>6, <4>2
      <4>4. QED
        BY <3>4, <3>5, <3>6, <4>3 DEF Given
    <3>7. Filled(tokens, g)
      BY <3>6 DEF Filled
    <3>8. QED
      BY <1>4, <3>5, <3>7
  <2>4. \A w \in Wires : r[w] # 0
    BY <2>3
  <2>5. QED
    <3> SUFFICES ASSUME NEW p \in Ports, Signals(p[1]) PROVE tokens[p] = NULL
      OBVIOUS
    <3>1. Output[p[1]] \in Wires
      BY <1>5, DrivenFacts
    <3>2. QED
      BY <1>1, <2>4, <3>1 DEF Fed
<1>9. QED
  BY <1>7, <1>8

\* The two wire handlers, of circuits as the programs wire them.
WellWired(c) == IsDriven(c) /\ (c.handler = "direct" \/ FillsItsPorts(c))

TokensInv ==
  /\ Handler = "direct" => \A p \in Ports : tokens[p] = NULL
  /\ Handler # "direct" => FlowInv

LEMMA NoneByDirect ==
  ASSUME DirectInv, IsDriven(circuit), Handler = "direct", \A p \in Ports : tokens[p] = NULL, [Next]_vars
  PROVE  \A p \in Ports : tokens'[p] = NULL
<1>1. tokens' = tokens \/ \E g : Absorb(g)
  <2>1. CASE MainStep
    <3>1. \A p, v : Give(p, v) => tokens' = tokens
      BY DEF Give
    <3>2. QED
      BY <2>1, <3>1 DEF MainStep, CallDefault, Execute, Sniff, WriteWire, NotifyNext, NotifyDone
  <2>2. CASE UNCHANGED vars
    BY <2>2 DEF vars
  <2>3. QED
    BY <2>1, <2>2, OnlyMain, DriveBegins
<1>2. ASSUME NEW g, Absorb(g) PROVE \A p \in Ports : tokens'[p] = NULL
  BY <1>2 DEF Absorb
<1>3. QED
  BY <1>1, <1>2

LEMMA TokensFlow ==
  ASSUME \A c \in Circuits : WellWired(c)
  PROVE  Spec => []TokensInv
<1>1. \A c \in Circuits : IsDriven(c)
  BY DEF WellWired
<1>2. Init => TokensInv
  <2> SUFFICES ASSUME Init PROVE TokensInv
    OBVIOUS
  <2>1. circuit \in Circuits /\ \A p \in Ports : tokens[p] = NULL
    BY DEF Init
  <2>2. IsDriven(circuit) /\ (Handler # "direct" => FillsItsPorts(circuit))
    BY <2>1 DEF WellWired, Handler
  <2>3. QED
    BY <2>1, <2>2, FlowInit DEF TokensInv
<1>3. DirectInv /\ TokensInv /\ [Next]_vars => TokensInv'
  <2> SUFFICES ASSUME DirectInv, TokensInv, [Next]_vars PROVE TokensInv'
    OBVIOUS
  <2>1. TypeOK /\ IsDriven(circuit) /\ (Handler # "direct" => FillsItsPorts(circuit))
    BY DEF DirectInv, BaseInv, TypeOK, WellWired, Handler
  <2>2. circuit' = circuit
    <3>1. CASE Next
      BY <2>1, <3>1, OnlyMain, DriveBegins, MainMoves
    <3>2. CASE UNCHANGED vars
      BY <3>2 DEF vars
    <3>3. QED
      BY <3>1, <3>2
  <2>3. Handler' = Handler /\ Ports' = Ports
    BY <2>2 DEF Handler, Ports, Gates, Inputs
  <2>4. CASE Handler = "direct"
    BY <2>1, <2>3, <2>4, NoneByDirect DEF TokensInv
  <2>5. CASE Handler # "direct"
    <3>1. FlowInv /\ FillsItsPorts(circuit)
      BY <2>1, <2>5 DEF TokensInv
    <3>2. ASSUME MainStep PROVE FlowInv'
      BY <2>1, <3>1, <3>2, FlowStep
    <3>3. ASSUME NEW w \in Stimuli, NEW v \in BOOLEAN, DriveWire(w, v) PROVE FlowInv'
      <4>1. Len(stack[Main]) = 0
        BY <3>3, DriveBegins
      <4>2. QED
        BY <2>1, <3>1, <3>3, <4>1, FlowBegins, FlowEnds
    <3>4. ASSUME UNCHANGED vars PROVE FlowInv'
      <4>1. tokens' = tokens /\ stack' = stack
        BY <3>4 DEF vars
      <4>2. PICK r \in [Wires -> Nat] : Flow(r, tokens, stack[Main])
        BY <3>1 DEF FlowInv
      <4>3. Flow(r, tokens', stack'[Main])
        BY <4>1, <4>2
      <4>4. QED
        BY <2>2, <4>3, FlowNext
    <3>5. FlowInv'
      BY <2>1, <3>2, <3>3, <3>4, OnlyMain
    <3>6. QED
      BY <2>3, <2>5, <3>5 DEF TokensInv
  <2>6. QED
    BY <2>4, <2>5
<1>4. QED
  BY <1>1, <1>2, <1>3, Directly, PTL DEF Spec

LEMMA NoneLeft ==
  ASSUME DirectInv, TokensInv, WellWired(circuit)
  PROVE  NoTokenLeft
<1>1. IsDriven(circuit) /\ TypeOK /\ (Handler # "direct" => FillsItsPorts(circuit))
  BY DEF WellWired, DirectInv, BaseInv, Handler
<1>2. SUFFICES ASSUME MainReturned, NEW p \in Ports, Kind[p[1]] # "sniffer" PROVE tokens[p] = NULL
  BY DEF NoTokenLeft
<1>3. CASE Handler = "direct"
  BY <1>3 DEF TokensInv
<1>4. CASE Handler # "direct"
  <2>1. Len(stack[Main]) = 0
    BY <1>2 DEF MainReturned
  <2>2. Signals(p[1])
    BY <1>1, <1>2, PortFacts, Wired DEF Signals
  <2>3. QED
    BY <1>1, <1>4, <2>1, <2>2, FlowEnds DEF TokensInv
<1>5. QED
  BY <1>3, <1>4

\* When a drive has returned, no gate but a sniffer has a token at a port, in any circuit
\* whose gates call each other directly: with wire_nonhazard_propagate_wire_new_value, if
\* one wire is driven, every wire follows from it without a loop and every port has one
\* wire, each gate gets a token on each port exactly once, and its execution absorbs them.
THEOREM NothingIsLeft ==
  ASSUME \A c \in Circuits : WellWired(c)
  PROVE  Spec => []NoTokenLeft
<1>1. DirectInv /\ TokensInv => NoTokenLeft
  BY NoneLeft DEF DirectInv, BaseInv, TypeOK
<1>2. \A c \in Circuits : IsDriven(c)
  BY DEF WellWired
<1>3. QED
  BY <1>1, <1>2, TokensFlow, Directly, PTL

\* When a drive has returned, each gate's output is its function of its inputs,
\* "and" being that of nor, in any circuit whose gates call each other directly
\* and have outputs of their own: with wire_direct_propagate_wire_new_value,
\* where the circuit may have loops and any number of stimuli, and (as no gate is
\* left with inputs) with tokens.
THEOREM GatesComputeTheirFunctions ==
  ASSUME \A c \in Circuits : WellWired(c)
  PROVE  Spec => []ComputesItsFunction
<1>1. ASSUME DirectInv, TokensInv, Handler = "direct" => ComputedInv PROVE ComputesItsFunction
  <2>1. WellWired(circuit) /\ IsDriven(circuit) /\ TypeOK
    BY <1>1 DEF DirectInv, BaseInv, TypeOK, WellWired
  <2> SUFFICES ASSUME MainReturned, NEW g \in Gates, Kind[g] # "sniffer", Complete(g)
               PROVE  value[Output[g]] = Yields(Kind[g], Vals(g))
    BY DEF ComputesItsFunction, SettlesOn
  <2>2. Signals(g)
    BY <2>1, Wired DEF Signals
  <2>3. CASE Handler = "direct"
    <3>1. Len(stack[Main]) = 0
      BY DEF MainReturned
    <3>2. Computed(g)
      BY <1>1, <2>2, <2>3, <3>1, NothingPends DEF ComputedInv
    <3>3. QED
      BY <2>1, <2>2, <3>2, GateMeans DEF Computed
  <2>4. CASE Handler # "direct"
    <3>1. <<g, 1>> \in Ports /\ <<g, 1>>[1] = g /\ 1 \in DOMAIN Inputs[g]
      BY <2>1, <2>2, PortFacts
    <3>2. tokens[<<g, 1>>] = NULL
      BY <1>1, <2>1, <3>1, NoneLeft DEF NoTokenLeft
    <3>3. QED
      BY <2>4, <3>1, <3>2 DEF Complete, Read
  <2>5. QED
    BY <2>3, <2>4
<1>2. DirectInv /\ TokensInv /\ (Handler = "direct" => ComputedInv) => ComputesItsFunction
  BY <1>1
<1>3. \A c \in Circuits : IsDriven(c)
  BY DEF WellWired
<1>4. QED
  BY <1>2, <1>3, TokensFlow, Directly, AllComputed, PTL
=============================================================================
