------------------------ MODULE GenericGatesProofs ------------------------
(***************************************************************************)
(* Theorems about GenericGates, for any names, types, constants and lists   *)
(* of a behavior's ports: the port manager stays one-to-one.                *)
(***************************************************************************)
EXTENDS GenericGates, SequenceTheorems, FiniteSetTheorems, WellFoundedInduction, TLAPS

\* The loops of the port manager find the first of what they look for.
LEMMA LeastIsFound ==
  ASSUME NEW S, S \subseteq Nat, S # {}
  PROVE  Least(S) \in S /\ \A k \in S : Least(S) <= k
<1> DEFINE R == OpToRel(<, Nat)
<1>1. PICK n \in S : \A k \in S : ~(<<k, n>> \in R)
  BY NatLessThanWellFounded, WFMin
<1>2. \A k \in S : ~(k < n)
  BY <1>1 DEF OpToRel
<1>3. IsLeast(n, S)
  BY <1>2 DEF IsLeast
<1>4. IsLeast(Least(S), S)
  BY <1>3 DEF Least
<1> QED
  BY <1>4 DEF IsLeast

Sound(m) == m \in Manager /\ Corresponds(m)

\* A port of type t at place s.
Held(m, s, t) ==
  \E ti \in DOMAIN m.types : m.types[ti] = t /\ \E k \in DOMAIN m.to_abs[ti] : m.to_abs[ti][k] + 1 = s

\* A sound manager's sequences.
Parts(m) ==
  /\ m = [names |-> m.names, types |-> m.types, to_abs |-> m.to_abs]
  /\ m.names \in Seq(Names \cup {EMPTY})
  /\ m.types \in Seq(Types)
  /\ m.to_abs \in Seq(Seq(Nat))
  /\ Len(m.types) \in Nat /\ Len(m.names) \in Nat
  /\ Len(m.to_abs) = Len(m.types)
  /\ DOMAIN m.types = 1 .. Len(m.types)
  /\ DOMAIN m.to_abs = 1 .. Len(m.types)
  /\ DOMAIN m.names = 1 .. Len(m.names)
  /\ \A ti \in 1 .. Len(m.types) :
       /\ m.to_abs[ti] \in Seq(Nat)
       /\ Len(m.to_abs[ti]) \in Nat
       /\ DOMAIN m.to_abs[ti] = 1 .. Len(m.to_abs[ti])
       /\ \A k \in 1 .. Len(m.to_abs[ti]) : m.to_abs[ti][k] \in Nat

LEMMA SoundParts ==
  ASSUME NEW m, Sound(m)
  PROVE  Parts(m)
<1>1. m \in Manager /\ Len(m.to_abs) = Len(m.types)
  BY DEF Sound, Corresponds
<1>2. /\ m = [names |-> m.names, types |-> m.types, to_abs |-> m.to_abs]
      /\ m.names \in Seq(Names \cup {EMPTY})
      /\ m.types \in Seq(Types)
      /\ m.to_abs \in Seq(Seq(Nat))
  BY <1>1 DEF Manager
<1>3. /\ Len(m.types) \in Nat /\ DOMAIN m.types = 1 .. Len(m.types)
      /\ Len(m.names) \in Nat /\ DOMAIN m.names = 1 .. Len(m.names)
      /\ DOMAIN m.to_abs = 1 .. Len(m.to_abs)
  BY <1>2, LenProperties
<1>4. ASSUME NEW ti \in 1 .. Len(m.types)
      PROVE  /\ m.to_abs[ti] \in Seq(Nat)
             /\ Len(m.to_abs[ti]) \in Nat
             /\ DOMAIN m.to_abs[ti] = 1 .. Len(m.to_abs[ti])
             /\ \A k \in 1 .. Len(m.to_abs[ti]) : m.to_abs[ti][k] \in Nat
  <2>1. m.to_abs[ti] \in Seq(Nat)
    BY <1>1, <1>2, <1>4, ElementOfSeq
  <2> QED
    BY <2>1, LenProperties, ElementOfSeq
<1> QED
  BY <1>1, <1>2, <1>3, <1>4 DEF Parts

\* Where a managed type is found.
LEMMA TypeIsFound ==
  ASSUME NEW m, m \in Manager, NEW t, IsManaged(m, t)
  PROVE  TypeIndex(m, t) \in DOMAIN m.types /\ m.types[TypeIndex(m, t)] = t
<1> DEFINE S == {ti \in DOMAIN m.types : m.types[ti] = t}
<1>1. DOMAIN m.types \subseteq Nat
  BY LenProperties DEF Manager
<1>2. S # {}
  BY DEF IsManaged
<1>3. Least(S) \in S
  BY <1>1, <1>2, LeastIsFound
<1> QED
  BY <1>3 DEF TypeIndex

LEMMA NoPortsAreSound == Sound(NoPorts)
<1>1. \A S : <<>> \in Seq(S) /\ Len(<<>>) = 0 /\ DOMAIN <<>> = {}
  BY EmptySeq
<1>2. NoPorts \in Manager
  BY <1>1 DEF NoPorts, Manager
<1>3. Corresponds(NoPorts)
  BY <1>1 DEF NoPorts, Corresponds
<1> QED
  BY <1>2, <1>3 DEF Sound

\* Making room for a type disturbs no port.
LEMMA WithTypeIsSound ==
  ASSUME NEW m, Sound(m), NEW t \in Types
  PROVE  /\ Sound(WithType(m, t))
         /\ WithType(m, t).names = m.names
         /\ IsManaged(WithType(m, t), t)
         /\ \A s, u : Held(m, s, u) => Held(WithType(m, t), s, u)
<1> DEFINE w == WithType(m, t)
<1>0. Corresponds(m) /\ Parts(m)
  BY SoundParts DEF Sound
<1>1. CASE IsManaged(m, t)
  BY <1>1 DEF WithType
<1>2. CASE ~IsManaged(m, t) /\ FreeTypes(m) # {}
  <2> DEFINE f == Least(FreeTypes(m))
  <2>1. f \in 1 .. Len(m.types) /\ m.to_abs[f] = <<>>
    <3>1. FreeTypes(m) \subseteq Nat
      BY <1>0 DEF FreeTypes, Parts
    <3>2. f \in FreeTypes(m)
      BY <1>2, <3>1, LeastIsFound
    <3> QED
      BY <3>2, <1>0 DEF FreeTypes, Parts
  <2>2. w = [names |-> m.names, types |-> [m.types EXCEPT ![f] = t], to_abs |-> m.to_abs]
    <3>1. w = [m EXCEPT !.types[f] = t]
      BY <1>2 DEF WithType
    <3> HIDE DEF f
    <3> QED
      BY <3>1, <1>0 DEF Parts
  <2>3. /\ w.types \in Seq(Types) /\ Len(w.types) = Len(m.types)
        /\ DOMAIN w.types = 1 .. Len(m.types)
        /\ \A ti \in 1 .. Len(m.types) : w.types[ti] = IF ti = f THEN t ELSE m.types[ti]
    <3> HIDE DEF f
    <3>1. m.types \in Seq(Types) /\ f \in 1 .. Len(m.types) /\ DOMAIN m.types = 1 .. Len(m.types)
      BY <1>0, <2>1 DEF Parts
    <3>2. /\ [m.types EXCEPT ![f] = t] \in Seq(Types)
          /\ Len([m.types EXCEPT ![f] = t]) = Len(m.types)
      BY <3>1, ExceptSeq
    <3> QED
      BY <2>2, <3>1, <3>2
  <2>4. w.names = m.names /\ w.to_abs = m.to_abs
    BY <2>2
  <2>5. w \in Manager
    BY <2>2, <2>3, <1>0 DEF Manager, Parts
  <2>6. Corresponds(w)
    <3>1. FreeSlots(w) = FreeSlots(m)
      BY <2>4 DEF FreeSlots
    <3>2. ASSUME NEW ti \in DOMAIN w.types, NEW tj \in DOMAIN w.types, w.types[ti] = w.types[tj]
          PROVE  ti = tj
      BY <1>0, <1>2, <2>3, <3>2 DEF IsManaged, Corresponds, Parts
    <3>3. DOMAIN w.types = DOMAIN m.types /\ Len(w.to_abs) = Len(w.types)
      BY <2>3, <2>4, <1>0 DEF Parts
    <3>4. \A ti \in DOMAIN w.types : \A k \in DOMAIN w.to_abs[ti] :
            /\ w.to_abs[ti][k] + 1 \in DOMAIN w.names \ FreeSlots(w)
            /\ \A tj \in DOMAIN w.types : \A l \in DOMAIN w.to_abs[tj] :
                 w.to_abs[ti][k] = w.to_abs[tj][l] => ti = tj /\ k = l
      BY <1>0, <2>4, <3>1, <3>3 DEF Corresponds
    <3>5. \A s \in DOMAIN w.names \ FreeSlots(w) :
            \E ti \in DOMAIN w.types : \E k \in DOMAIN w.to_abs[ti] : w.to_abs[ti][k] + 1 = s
      BY <1>0, <2>4, <3>1, <3>3 DEF Corresponds
    <3> HIDE DEF w
    <3> QED
      BY <3>2, <3>3, <3>4, <3>5 DEF Corresponds
  <2>7. IsManaged(w, t)
    BY <2>1, <2>3 DEF IsManaged
  <2>8. ASSUME NEW s, NEW u, Held(m, s, u)
        PROVE  Held(w, s, u)
    <3>1. PICK ti \in 1 .. Len(m.types) :
            m.types[ti] = u /\ \E k \in DOMAIN m.to_abs[ti] : m.to_abs[ti][k] + 1 = s
      BY <1>0, <2>8 DEF Held, Parts
    <3>2. DOMAIN m.to_abs[f] = {}
      BY <2>1, EmptySeq
    <3>3. ti # f
      BY <3>1, <3>2
    <3> QED
      BY <2>3, <2>4, <3>1, <3>3 DEF Held
  <2> QED
    BY <2>4, <2>5, <2>6, <2>7, <2>8 DEF Sound
<1>3. CASE ~IsManaged(m, t) /\ FreeTypes(m) = {}
  <2> DEFINE n == Len(m.types) + 1
  <2>1. w = [names |-> m.names, types |-> Append(m.types, t), to_abs |-> Append(m.to_abs, <<>>)]
    <3>1. w = [m EXCEPT !.types = Append(@, t), !.to_abs = Append(@, <<>>)]
      BY <1>3 DEF WithType
    <3> QED
      BY <3>1, <1>0 DEF Parts
  <2>2. /\ w.types \in Seq(Types) /\ Len(w.types) = n
        /\ DOMAIN w.types = 1 .. n
        /\ w.types[n] = t
        /\ \A ti \in 1 .. Len(m.types) : w.types[ti] = m.types[ti]
    BY <2>1, <1>0, AppendProperties, LenProperties DEF Parts
  <2>3. /\ w.to_abs \in Seq(Seq(Nat)) /\ Len(w.to_abs) = n
        /\ w.to_abs[n] = <<>>
        /\ \A ti \in 1 .. Len(m.types) : w.to_abs[ti] = m.to_abs[ti]
    <3>1. <<>> \in Seq(Nat)
      BY EmptySeq
    <3> QED
      BY <2>1, <3>1, <1>0, AppendProperties, LenProperties DEF Parts
  <2>4. w.names = m.names /\ n \in Nat
    BY <2>1, <1>0 DEF Parts
  <2>5. w \in Manager
    BY <2>1, <2>2, <2>3, <1>0 DEF Manager, Parts
  <2>6. Corresponds(w)
    <3>1. FreeSlots(w) = FreeSlots(m)
      BY <2>4 DEF FreeSlots
    <3> DEFINE len == Len(m.types)
    <3>0. DOMAIN m.types = 1 .. len /\ len \in Nat /\ DOMAIN w.types = 1 .. len + 1
      BY <1>0, <2>2 DEF Parts
    <3>2. ASSUME NEW ti \in DOMAIN w.types, NEW tj \in DOMAIN w.types, w.types[ti] = w.types[tj]
          PROVE  ti = tj
      <4>1. \A i \in 1 .. len : w.types[i] = m.types[i] /\ m.types[i] # t
        BY <1>3, <2>2, <3>0 DEF IsManaged
      <4>2. \A i, j \in 1 .. len : m.types[i] = m.types[j] => i = j
        BY <1>0, <3>0 DEF Corresponds
      <4>3. w.types[len + 1] = t
        BY <2>2
      <4> HIDE DEF len, w
      <4> QED
        BY <3>0, <3>2, <4>1, <4>2, <4>3
    <3>3. ASSUME NEW ti \in DOMAIN w.types, NEW k \in DOMAIN w.to_abs[ti]
          PROVE  ti \in DOMAIN m.types /\ w.to_abs[ti] = m.to_abs[ti]
      <4>1. DOMAIN w.to_abs[n] = {}
        BY <2>3, EmptySeq
      <4>2. ti # n
        BY <3>3, <4>1
      <4>3. ti \in 1 .. len + 1 /\ ti # len + 1
        BY <3>0, <3>3, <4>2
      <4>4. ti \in 1 .. len
        <5> HIDE DEF len
        <5> QED
          BY <3>0, <4>3
      <4> QED
        BY <2>3, <3>0, <4>4
    <3>4. \A ti \in DOMAIN m.types : ti \in DOMAIN w.types /\ w.to_abs[ti] = m.to_abs[ti]
      BY <2>3, <3>0
    <3>5. Len(w.to_abs) = Len(w.types)
      BY <2>2, <2>3
    <3> HIDE DEF w
    <3>6. \A ti \in DOMAIN w.types : \A k \in DOMAIN w.to_abs[ti] :
            w.to_abs[ti][k] + 1 \in DOMAIN w.names \ FreeSlots(w)
      BY <1>0, <2>4, <3>1, <3>3 DEF Corresponds
    <3>7. \A ti, tj \in DOMAIN w.types :
            \A k \in DOMAIN w.to_abs[ti], l \in DOMAIN w.to_abs[tj] :
              w.to_abs[ti][k] = w.to_abs[tj][l] => ti = tj /\ k = l
      BY <1>0, <3>3 DEF Corresponds
    <3>8. \A s \in DOMAIN w.names \ FreeSlots(w) :
            \E ti \in DOMAIN w.types : \E k \in DOMAIN w.to_abs[ti] : w.to_abs[ti][k] + 1 = s
      BY <1>0, <2>4, <3>1, <3>4 DEF Corresponds
    <3> QED
      BY <3>2, <3>5, <3>6, <3>7, <3>8 DEF Corresponds
  <2>7. IsManaged(w, t)
    BY <2>2, <2>4 DEF IsManaged
  <2>8. ASSUME NEW s, NEW u, Held(m, s, u)
        PROVE  Held(w, s, u)
    <3>1. PICK ti \in 1 .. Len(m.types) :
            m.types[ti] = u /\ \E k \in DOMAIN m.to_abs[ti] : m.to_abs[ti][k] + 1 = s
      BY <1>0, <2>8 DEF Held, Parts
    <3>2. ti \in DOMAIN w.types
      BY <2>2, <2>4
    <3> QED
      BY <2>2, <2>3, <3>1, <3>2 DEF Held
  <2> QED
    BY <2>4, <2>5, <2>6, <2>7, <2>8 DEF Sound
<1> QED
  BY <1>1, <1>2, <1>3

\* The place lxc_port_unchecked_add_new_port takes is nobody's.
LEMMA SlotIsFree ==
  ASSUME NEW m, Sound(m)
  PROVE  SlotForNew(m) = Len(m.names) + 1 \/ SlotForNew(m) \in FreeSlots(m)
<1>1. DOMAIN m.names = 1 .. Len(m.names) /\ Len(m.names) \in Nat
  BY SoundParts DEF Parts
<1>2. CASE FreeSlots(m) = {}
  BY <1>2 DEF SlotForNew, Count
<1>3. CASE FreeSlots(m) # {}
  <2>1. FreeSlots(m) \subseteq Nat
    BY <1>1 DEF FreeSlots
  <2>2. SlotForNew(m) \in FreeSlots(m)
    BY <1>3, <2>1, LeastIsFound DEF SlotForNew
  <2> QED
    BY <2>2
<1> QED
  BY <1>2, <1>3

\* What AddPort makes of m, with the type found or made in w.
Added(m, w, ti, s, a, n, t) ==
  /\ Sound(w) /\ w.names = m.names
  /\ ti \in 1 .. Len(w.types) /\ w.types[ti] = t
  /\ a = [names |-> a.names, types |-> w.types, to_abs |-> a.to_abs]
  /\ a.names \in Seq(Names \cup {EMPTY})
  /\ a.to_abs \in Seq(Seq(Nat)) /\ Len(a.to_abs) = Len(w.types)
  /\ DOMAIN a.names = DOMAIN m.names \cup {s}
  /\ a.names[s] = n
  /\ \A r \in DOMAIN m.names \ {s} : a.names[r] = m.names[r]
  /\ \A tj \in 1 .. Len(w.types) \ {ti} : a.to_abs[tj] = w.to_abs[tj]
  /\ DOMAIN a.to_abs[ti] = 1 .. Len(w.to_abs[ti]) + 1
  /\ \A k \in 1 .. Len(w.to_abs[ti]) : a.to_abs[ti][k] = w.to_abs[ti][k]
  /\ a.to_abs[ti][Len(w.to_abs[ti]) + 1] = s - 1

LEMMA AddPortParts ==
  ASSUME NEW m, Sound(m), NEW n \in Names, NEW t \in Types
  PROVE  Added(m, WithType(m, t), TypeIndex(WithType(m, t), t), SlotForNew(m), AddPort(m, n, t), n, t)
<1> DEFINE w == WithType(m, t)
           ti == TypeIndex(w, t)
           s == SlotForNew(m)
           a == AddPort(m, n, t)
<1>1. Sound(w) /\ w.names = m.names /\ IsManaged(w, t)
  BY WithTypeIsSound
<1>2. Parts(w) /\ Parts(m)
  BY <1>1, SoundParts
<1>3. ti \in 1 .. Len(w.types) /\ w.types[ti] = t
  BY <1>1, <1>2, TypeIsFound DEF Sound, Parts
<1>4. a = [names |-> IF s \in DOMAIN m.names THEN [m.names EXCEPT ![s] = n] ELSE Append(m.names, n),
           types |-> w.types,
           to_abs |-> [w.to_abs EXCEPT ![ti] = Append(@, s - 1)]]
  BY DEF AddPort
<1>6. m.names \in Seq(Names \cup {EMPTY}) /\ DOMAIN m.names = 1 .. Len(m.names) /\ Len(m.names) \in Nat
  BY <1>2 DEF Parts
<1>5. s = Len(m.names) + 1 \/ s \in 1 .. Len(m.names)
  BY <1>6, SlotIsFree DEF FreeSlots
<1>7. /\ a.names \in Seq(Names \cup {EMPTY})
      /\ DOMAIN a.names = DOMAIN m.names \cup {s}
      /\ a.names[s] = n
      /\ \A r \in DOMAIN m.names \ {s} : a.names[r] = m.names[r]
  <2>1. CASE s \in DOMAIN m.names
    <3>1. a.names = [m.names EXCEPT ![s] = n]
      BY <1>4, <2>1
    <3>2. a.names \in Seq(Names \cup {EMPTY})
      BY <1>6, <2>1, <3>1, ExceptSeq
    <3> QED
      BY <1>6, <2>1, <3>1, <3>2
  <2>2. CASE s \notin DOMAIN m.names
    <3>1. a.names = Append(m.names, n) /\ s = Len(m.names) + 1
      BY <1>4, <1>5, <1>6, <2>2
    <3>2. /\ a.names \in Seq(Names \cup {EMPTY})
          /\ Len(a.names) = Len(m.names) + 1
          /\ \A r \in 1 .. Len(m.names) : a.names[r] = m.names[r]
          /\ a.names[Len(m.names) + 1] = n
      BY <1>6, <3>1, AppendProperties
    <3>3. DOMAIN a.names = 1 .. Len(m.names) + 1
      BY <3>2, LenProperties
    <3> QED
      BY <1>6, <3>1, <3>2, <3>3
  <2> QED
    BY <2>1, <2>2
<1>8. s - 1 \in Nat
  BY <1>5, <1>6
<1>9. /\ w.to_abs[ti] \in Seq(Nat) /\ Len(w.to_abs[ti]) \in Nat
      /\ w.to_abs \in Seq(Seq(Nat)) /\ Len(w.to_abs) = Len(w.types)
  BY <1>2, <1>3 DEF Parts
<1> DEFINE e == Append(w.to_abs[ti], s - 1)
<1>10. /\ e \in Seq(Nat) /\ Len(e) = Len(w.to_abs[ti]) + 1
       /\ DOMAIN e = 1 .. Len(w.to_abs[ti]) + 1
       /\ \A k \in 1 .. Len(w.to_abs[ti]) : e[k] = w.to_abs[ti][k]
       /\ e[Len(w.to_abs[ti]) + 1] = s - 1
  BY <1>8, <1>9, AppendProperties, LenProperties
<1>11. a.to_abs = [w.to_abs EXCEPT ![ti] = e]
  BY <1>4
<1> HIDE DEF e
<1>12. /\ a.to_abs \in Seq(Seq(Nat)) /\ Len(a.to_abs) = Len(w.types)
       /\ \A tj \in 1 .. Len(w.types) : a.to_abs[tj] = IF tj = ti THEN e ELSE w.to_abs[tj]
  BY <1>3, <1>9, <1>10, <1>11, ExceptSeq
<1>13. a = [names |-> a.names, types |-> w.types, to_abs |-> a.to_abs]
  BY <1>4
<1> HIDE DEF w, ti, s, a
<1>14. Added(m, w, ti, s, a, n, t)
  BY <1>1, <1>3, <1>7, <1>10, <1>12, <1>13 DEF Added
<1> QED
  BY <1>14 DEF w, ti, s, a

\* A port that is added disturbs no other, and the manager stays one-to-one.
LEMMA AddPortIsSound ==
  ASSUME NEW m, Sound(m), NEW n \in Names, NEW t \in Types
  PROVE  /\ Sound(AddPort(m, n, t))
         /\ \A r, u : Held(m, r, u) => Held(AddPort(m, n, t), r, u)
         /\ \A r \in DOMAIN m.names \ FreeSlots(m) :
              r \in DOMAIN AddPort(m, n, t).names /\ AddPort(m, n, t).names[r] = m.names[r]
<1> DEFINE w == WithType(m, t)
           ti == TypeIndex(w, t)
           s == SlotForNew(m)
           a == AddPort(m, n, t)
<1>1. Added(m, w, ti, s, a, n, t)
  BY AddPortParts
<1>20. s = Len(m.names) + 1 \/ s \in FreeSlots(m)
  BY SlotIsFree
<1>0. \A r, u : Held(m, r, u) => Held(w, r, u)
  BY WithTypeIsSound
<1> SUFFICES /\ Sound(a)
             /\ \A r, u : Held(m, r, u) => Held(a, r, u)
             /\ \A r \in DOMAIN m.names \ FreeSlots(m) : r \in DOMAIN a.names /\ a.names[r] = m.names[r]
  OBVIOUS
<1> HIDE DEF w, ti, s, a
<1>2. /\ Sound(w) /\ w.names = m.names
      /\ ti \in 1 .. Len(w.types) /\ w.types[ti] = t
      /\ a = [names |-> a.names, types |-> w.types, to_abs |-> a.to_abs]
      /\ a.names \in Seq(Names \cup {EMPTY})
      /\ a.to_abs \in Seq(Seq(Nat)) /\ Len(a.to_abs) = Len(w.types)
      /\ DOMAIN a.names = DOMAIN m.names \cup {s}
      /\ a.names[s] = n
      /\ \A r \in DOMAIN m.names \ {s} : a.names[r] = m.names[r]
      /\ \A tj \in 1 .. Len(w.types) \ {ti} : a.to_abs[tj] = w.to_abs[tj]
      /\ DOMAIN a.to_abs[ti] = 1 .. Len(w.to_abs[ti]) + 1
      /\ \A k \in 1 .. Len(w.to_abs[ti]) : a.to_abs[ti][k] = w.to_abs[ti][k]
      /\ a.to_abs[ti][Len(w.to_abs[ti]) + 1] = s - 1
  BY <1>1 DEF Added
<1>3. Parts(w) /\ Parts(m) /\ Corresponds(w)
  BY <1>2, SoundParts DEF Sound
<1>4. a.types = w.types /\ DOMAIN w.types = 1 .. Len(w.types)
  BY <1>2, <1>3 DEF Parts
<1> DEFINE len == Len(w.to_abs[ti])
           Used == DOMAIN m.names \ FreeSlots(m)
<1>5. len \in Nat /\ DOMAIN w.to_abs[ti] = 1 .. len
  BY <1>2, <1>3 DEF Parts
<1>6. s \notin Used /\ s \in Nat
  <2>1. Len(m.names) \in Nat /\ DOMAIN m.names = 1 .. Len(m.names)
    BY <1>3 DEF Parts
  <2> QED
    BY <1>20, <2>1 DEF FreeSlots
<1>7. DOMAIN a.names \ FreeSlots(a) = Used \cup {s}
  BY <1>2, EmptyAssumption DEF FreeSlots
<1>8. Used = DOMAIN w.names \ FreeSlots(w)
  BY <1>2 DEF FreeSlots
\* The entries of the new manager are the old ones and the new port's.
<1>9. ASSUME NEW tj \in DOMAIN w.types, NEW k \in DOMAIN w.to_abs[tj]
      PROVE  k \in DOMAIN a.to_abs[tj] /\ a.to_abs[tj][k] = w.to_abs[tj][k]
  <2>1. CASE tj = ti
    <3>1. k \in 1 .. len + 1 /\ k \in 1 .. len
      <4>1. k \in 1 .. len
        BY <1>5, <1>9, <2>1
      <4> HIDE DEF len
      <4> QED
        BY <1>5, <4>1
    <3> QED
      BY <1>2, <2>1, <3>1
  <2>2. CASE tj # ti
    BY <1>2, <1>4, <1>9, <2>2
  <2> QED
    BY <2>1, <2>2
<1>10. ASSUME NEW tj \in DOMAIN w.types, NEW k \in DOMAIN a.to_abs[tj]
       PROVE  \/ k \in DOMAIN w.to_abs[tj] /\ a.to_abs[tj][k] = w.to_abs[tj][k]
              \/ tj = ti /\ k = len + 1 /\ a.to_abs[tj][k] = s - 1
  <2>1. CASE tj = ti
    <3>1. k \in 1 .. len \/ k = len + 1
      <4>1. k \in 1 .. len + 1
        BY <1>2, <1>10, <2>1
      <4> HIDE DEF len
      <4> QED
        BY <1>5, <4>1
    <3> QED
      BY <1>2, <1>5, <2>1, <3>1
  <2>2. CASE tj # ti
    BY <1>2, <1>4, <1>10, <2>2
  <2> QED
    BY <2>1, <2>2
<1>11. a \in Manager
  BY <1>2, <1>3 DEF Manager, Parts
<1>12. Corresponds(a)
  <2>0. /\ \A tj \in DOMAIN w.types : \A k \in DOMAIN w.to_abs[tj] :
             w.to_abs[tj][k] \in Nat /\ w.to_abs[tj][k] + 1 \in Used
        /\ \A tj, tk \in DOMAIN w.types : \A k \in DOMAIN w.to_abs[tj], l \in DOMAIN w.to_abs[tk] :
             w.to_abs[tj][k] = w.to_abs[tk][l] => tj = tk /\ k = l
        /\ \A r \in Used : \E tj \in DOMAIN w.types : \E k \in DOMAIN w.to_abs[tj] : w.to_abs[tj][k] + 1 = r
    <3>1. \A tj \in DOMAIN w.types : \A k \in DOMAIN w.to_abs[tj] : w.to_abs[tj][k] \in Nat
      BY <1>3, <1>4 DEF Parts
    <3>2. \A tj \in DOMAIN w.types : \A k \in DOMAIN w.to_abs[tj] : w.to_abs[tj][k] + 1 \in Used
      BY <1>3, <1>8 DEF Corresponds
    <3>3. \A tj, tk \in DOMAIN w.types : \A k \in DOMAIN w.to_abs[tj], l \in DOMAIN w.to_abs[tk] :
            w.to_abs[tj][k] = w.to_abs[tk][l] => tj = tk /\ k = l
      BY <1>3 DEF Corresponds
    <3>4. \A r \in Used : \E tj \in DOMAIN w.types : \E k \in DOMAIN w.to_abs[tj] : w.to_abs[tj][k] + 1 = r
      BY <1>3, <1>8 DEF Corresponds
    <3> QED
      BY <3>1, <3>2, <3>3, <3>4
  <2> HIDE DEF len, Used
  <2>1. ASSUME NEW tj \in DOMAIN a.types, NEW k \in DOMAIN a.to_abs[tj]
        PROVE  a.to_abs[tj][k] + 1 \in DOMAIN a.names \ FreeSlots(a)
    BY <1>4, <1>6, <1>7, <1>10, <2>0, <2>1
  <2>2. ASSUME NEW tj \in DOMAIN a.types, NEW k \in DOMAIN a.to_abs[tj],
               NEW tk \in DOMAIN a.types, NEW l \in DOMAIN a.to_abs[tk],
               a.to_abs[tj][k] = a.to_abs[tk][l]
        PROVE  tj = tk /\ k = l
    <3>1. /\ \/ k \in DOMAIN w.to_abs[tj] /\ a.to_abs[tj][k] = w.to_abs[tj][k]
             \/ tj = ti /\ k = len + 1 /\ a.to_abs[tj][k] = s - 1
          /\ \/ l \in DOMAIN w.to_abs[tk] /\ a.to_abs[tk][l] = w.to_abs[tk][l]
             \/ tk = ti /\ l = len + 1 /\ a.to_abs[tk][l] = s - 1
      BY <1>4, <1>10, <2>2
    <3> QED
      BY <1>4, <1>6, <2>0, <2>2, <3>1
  <2>3. ASSUME NEW r \in DOMAIN a.names \ FreeSlots(a)
        PROVE  \E tj \in DOMAIN a.types : \E k \in DOMAIN a.to_abs[tj] : a.to_abs[tj][k] + 1 = r
    <3>1. CASE r \in Used
      BY <1>4, <1>9, <2>0, <3>1
    <3>2. CASE r = s
      <4>1. len + 1 \in DOMAIN a.to_abs[ti] /\ a.to_abs[ti][len + 1] + 1 = s
        BY <1>2, <1>5, <1>6 DEF len
      <4> QED
        BY <1>2, <1>4, <3>2, <4>1
    <3> QED
      BY <1>7, <2>3, <3>1, <3>2
  <2>4. /\ Len(a.to_abs) = Len(a.types)
        /\ \A tj, tk \in DOMAIN a.types : a.types[tj] = a.types[tk] => tj = tk
    BY <1>2, <1>3, <1>4 DEF Corresponds
  <2> QED
    BY <2>1, <2>2, <2>3, <2>4 DEF Corresponds
<1>13. ASSUME NEW r, NEW u, Held(m, r, u)
       PROVE  Held(a, r, u)
  <2>1. Held(w, r, u)
    BY <1>0, <1>13
  <2> QED
    BY <1>4, <1>9, <2>1 DEF Held
<1>14. ASSUME NEW r \in Used
       PROVE  r \in DOMAIN a.names /\ a.names[r] = m.names[r]
  BY <1>2, <1>6
<1> QED
  BY <1>11, <1>12, <1>13, <1>14 DEF Sound
-----------------------------------------------------------------------------
(* The few managers that a const gate and a socket address gate have.       *)

\* One port, and one that was taken away.
OnePort(n, t) == [names |-> <<n>>, types |-> <<t>>, to_abs |-> << <<0>> >>]
BarePort(t) == [names |-> <<EMPTY>>, types |-> <<t>>, to_abs |-> << <<>> >>]
TwoPorts(n, t, o, u) == [names |-> <<n, o>>, types |-> <<t, u>>, to_abs |-> << <<0>>, <<1>> >>]

LEMMA TypeOfOne ==
  ASSUME NEW m, NEW i \in Nat, NEW t, i \in DOMAIN m.types, m.types[i] = t,
         \A ti \in DOMAIN m.types : m.types[ti] = t => ti = i
  PROVE  TypeIndex(m, t) = i /\ IsManaged(m, t)
<1>1. {ti \in DOMAIN m.types : m.types[ti] = t} = {i}
  OBVIOUS
<1>2. Least({i}) \in {i}
  BY LeastIsFound
<1> QED
  BY <1>1, <1>2 DEF TypeIndex, IsManaged

LEMMA AddToNone ==
  ASSUME NEW n, NEW t
  PROVE  AddPort(NoPorts, n, t) = OnePort(n, t)
<1> DEFINE w == [names |-> <<>>, types |-> <<t>>, to_abs |-> << <<>> >>]
<1>1. WithType(NoPorts, t) = w
  <2>1. ~IsManaged(NoPorts, t) /\ FreeTypes(NoPorts) = {}
    BY DEF IsManaged, FreeTypes, NoPorts
  <2>2. Append(<<>>, t) = <<t>> /\ Append(<<>>, <<>>) = << <<>> >>
    OBVIOUS
  <2> QED
    BY <2>1, <2>2 DEF WithType, NoPorts
<1>2. TypeIndex(w, t) = 1
  BY TypeOfOne
<1>3. SlotForNew(NoPorts) = 1
  BY DEF SlotForNew, FreeSlots, NoPorts, Count
<1>4. [w.to_abs EXCEPT ![1] = Append(@, 0)] = << <<0>> >>
  OBVIOUS
<1>5. Append(NoPorts.names, n) = <<n>> /\ ~(1 \in DOMAIN NoPorts.names) /\ w.types = <<t>>
  BY DEF NoPorts
<1>6. 1 - 1 = 0
  OBVIOUS
<1> HIDE DEF w
<1> QED
  BY <1>1, <1>2, <1>3, <1>4, <1>5, <1>6 DEF AddPort, OnePort

LEMMA RemoveTheOne ==
  ASSUME NEW n, NEW t
  PROVE  RemoveOnlyPort(OnePort(n, t), t) = BarePort(t)
<1> DEFINE m == OnePort(n, t)
<1>1. TypeIndex(m, t) = 1 /\ IsManaged(m, t)
  BY TypeOfOne DEF OnePort
<1>2. TypeMaxIndex(m, t) = 1
  BY <1>1 DEF TypeMaxIndex, OnePort
<1>3. AbsIndex(m, t, 0) = 0
  BY <1>1, <1>2 DEF AbsIndex, OnePort
<1>4. [m.to_abs EXCEPT ![1] = <<>>] = << <<>> >>
  BY DEF OnePort
<1>5. [m.names EXCEPT ![1] = EMPTY] = <<EMPTY>> /\ m.types = <<t>>
  BY DEF OnePort
<1> HIDE DEF m
<1> QED
  BY <1>1, <1>3, <1>4, <1>5 DEF RemoveOnlyPort, BarePort, m

LEMMA AddToBare ==
  ASSUME NEW n, NEW t, NEW u
  PROVE  AddPort(BarePort(t), n, u) = OnePort(n, u)
<1> DEFINE m == BarePort(t)
           w == BarePort(u)
<1>1. WithType(m, u) = w
  <2>1. CASE u = t
    BY <2>1, TypeOfOne DEF WithType, BarePort, IsManaged
  <2>2. CASE u # t
    <3>1. ~IsManaged(m, u)
      BY <2>2 DEF IsManaged, BarePort
    <3>2. FreeTypes(m) = {1}
      BY DEF FreeTypes, BarePort
    <3>3. Least({1}) = 1
      BY LeastIsFound
    <3>4. [m.types EXCEPT ![1] = u] = <<u>>
      BY DEF BarePort
    <3> QED
      BY <3>1, <3>2, <3>3, <3>4 DEF WithType, BarePort
  <2> QED
    BY <2>1, <2>2
<1>2. TypeIndex(w, u) = 1
  BY TypeOfOne DEF BarePort
<1>3. SlotForNew(m) = 1
  <2>1. FreeSlots(m) = {1}
    BY DEF FreeSlots, BarePort
  <2>2. Least({1}) = 1
    BY LeastIsFound
  <2> QED
    BY <2>1, <2>2 DEF SlotForNew
<1>4. [w.to_abs EXCEPT ![1] = Append(@, 0)] = << <<0>> >> /\ w.types = <<u>>
  BY DEF BarePort
<1>5. [m.names EXCEPT ![1] = n] = <<n>> /\ 1 \in DOMAIN m.names
  BY DEF BarePort
<1>6. 1 - 1 = 0
  OBVIOUS
<1> HIDE DEF w, m
<1> QED
  BY <1>1, <1>2, <1>3, <1>4, <1>5, <1>6 DEF AddPort, OnePort, m

LEMMA AppendToOne ==
  ASSUME NEW a, NEW b
  PROVE  Append(<<a>>, b) = <<a, b>>
<1>1. <<a>> \in Seq({a, b}) /\ <<a, b>> \in Seq({a, b}) /\ Len(<<a>>) = 1
  OBVIOUS
<1>2. /\ Append(<<a>>, b) \in Seq({a, b})
      /\ Len(Append(<<a>>, b)) = 2
      /\ Append(<<a>>, b)[1] = a /\ Append(<<a>>, b)[2] = b
  BY <1>1, AppendProperties
<1> DEFINE x == Append(<<a>>, b)
           y == <<a, b>>
<1>3. Len(y) = 2 /\ y[1] = a /\ y[2] = b
  OBVIOUS
<1>4. x \in Seq({a, b}) /\ y \in Seq({a, b}) /\ Len(x) = Len(y) /\ x[1] = y[1] /\ x[2] = y[2]
  BY <1>1, <1>2, <1>3
<1>5. Len(x) = 2
  BY <1>2
<1> HIDE DEF x, y
<1>6. \A i \in 1 .. Len(x) : x[i] = y[i]
  BY <1>4, <1>5
<1>7. x = y
  BY <1>4, <1>6, SeqEqual
<1> QED
  BY <1>7 DEF x, y

LEMMA AddToOne ==
  ASSUME NEW n \in Names, NEW t, NEW o, NEW u, u # t
  PROVE  AddPort(OnePort(n, t), o, u) = TwoPorts(n, t, o, u)
<1> DEFINE m == OnePort(n, t)
           w == [names |-> <<n>>, types |-> <<t, u>>, to_abs |-> << <<0>>, <<>> >>]
<1>1. WithType(m, u) = w
  <2>1. ~IsManaged(m, u)
    BY DEF IsManaged, OnePort
  <2>2. FreeTypes(m) = {}
    BY DEF FreeTypes, OnePort
  <2>3. Append(<<t>>, u) = <<t, u>> /\ Append(<< <<0>> >>, <<>>) = << <<0>>, <<>> >>
    BY AppendToOne
  <2> QED
    BY <2>1, <2>2, <2>3 DEF WithType, OnePort
<1>2. TypeIndex(w, u) = 2
  BY TypeOfOne
<1>3. SlotForNew(m) = 2
  <2>1. FreeSlots(m) = {}
    BY EmptyAssumption DEF FreeSlots, OnePort
  <2> QED
    BY <2>1 DEF SlotForNew, Count, OnePort
<1>4. [w.to_abs EXCEPT ![2] = Append(@, 1)] = << <<0>>, <<1>> >> /\ w.types = <<t, u>>
  OBVIOUS
<1>5. Append(m.names, o) = <<n, o>> /\ ~(2 \in DOMAIN m.names)
  BY AppendToOne DEF OnePort
<1>6. 2 - 1 = 1
  OBVIOUS
<1> HIDE DEF w, m
<1> QED
  BY <1>1, <1>2, <1>3, <1>4, <1>5, <1>6 DEF AddPort, TwoPorts, m

LEMMA InetHasTwo == InetPorts = TwoPorts("address", StringType, "port", IntType)
<1>1. IntType # StringType
  BY DEF IntType, StringType
<1>2. "address" \in Names
  BY GatesAssumption
<1> QED
  BY <1>1, <1>2, AddToNone, AddToOne DEF InetPorts
-----------------------------------------------------------------------------
(* The inductive invariant.                                                 *)

\* Each wire is where its port is.
WiresHeld(m, ws) ==
  \A s \in DOMAIN ws : ws[s] # NULL =>
    s \in DOMAIN m.names /\ m.names[s] = ws[s].name /\ Held(m, s, ws[s].type)

\* No two ports of a manager have the same name.
Distinct(m) ==
  \A r, s \in DOMAIN m.names \ FreeSlots(m) : m.names[r] = m.names[s] => r = s

\* The names that are checked are ports' own; a behavior's are those it is set up
\* with.
NamesAreOwn ==
  /\ kind # "javaOut" => Distinct(mgr)
  /\ kind = "behavior" =>
       /\ Count(mgr) <= Len(BehaviorPorts)
       /\ \A s \in DOMAIN mgr.names : mgr.names[s] = BehaviorPorts[s].name

\* Only a gate whose ports are its behavior's has an array of a fixed size.
ArrayFits ==
  /\ kind # "behavior" => made
  /\ kind = "behavior" =>
       IF made THEN Len(wires) = Count(mgr) /\ Count(mgr) = Len(BehaviorPorts) ELSE wires = <<>>

\* The managers of the gates that change their own ports.
OwnPorts ==
  /\ kind = "const" => /\ Len(wires) <= 1
                       /\ mgr = NoPorts \/ \E t \in Types : mgr = OnePort("const", t)
  /\ kind = "sockaddr" => /\ mgr \in {NoPorts, InetPorts}
                          /\ family = "INET" => mgr = InetPorts

GatesInv ==
  /\ TypeOK
  /\ Sound(mgr)
  /\ NamesAreOwn
  /\ WiresHeld(mgr, wires)
  /\ ArrayFits
  /\ OwnPorts

LEMMA ManagerLengths ==
  ASSUME NEW m, Sound(m)
  PROVE  Count(m) \in Nat /\ DOMAIN m.names = 1 .. Count(m)
BY SoundParts DEF Parts, Count

\* An absolute index is a place of the manager, and holds a port of the type.
LEMMA IndexIsHeld ==
  ASSUME NEW m, Sound(m), NEW t, NEW k \in Nat, AbsIndex(m, t, k) >= 0
  PROVE  /\ k < TypeMaxIndex(m, t)
         /\ AbsIndex(m, t, k) \in Nat
         /\ AbsIndex(m, t, k) + 1 \in DOMAIN m.names \ FreeSlots(m)
         /\ Held(m, AbsIndex(m, t, k) + 1, t)
<1> DEFINE ti == TypeIndex(m, t)
<1>1. k < TypeMaxIndex(m, t)
  BY DEF AbsIndex
<1>2. IsManaged(m, t) /\ TypeMaxIndex(m, t) = Len(m.to_abs[ti])
  BY <1>1 DEF TypeMaxIndex
<1>3. Parts(m) /\ m \in Manager /\ Corresponds(m)
  BY SoundParts DEF Sound
<1>4. ti \in DOMAIN m.types /\ m.types[ti] = t
  BY <1>2, <1>3, TypeIsFound
<1>5. AbsIndex(m, t, k) = m.to_abs[ti][k + 1]
  BY <1>1 DEF AbsIndex
<1> HIDE DEF ti
<1>6. k + 1 \in DOMAIN m.to_abs[ti] /\ m.to_abs[ti][k + 1] \in Nat
  BY <1>1, <1>2, <1>3, <1>4 DEF Parts
<1>7. m.to_abs[ti][k + 1] + 1 \in DOMAIN m.names \ FreeSlots(m)
  BY <1>3, <1>4, <1>6 DEF Corresponds
<1>8. Held(m, m.to_abs[ti][k + 1] + 1, t)
  BY <1>4, <1>6 DEF Held
<1> QED
  BY <1>1, <1>5, <1>6, <1>7, <1>8

\* And every port of a type below the type's maximum has one.
LEMMA IndexInRange ==
  ASSUME NEW m, Sound(m), NEW t, NEW k \in Nat, k < TypeMaxIndex(m, t)
  PROVE  AbsIndex(m, t, k) >= 0
<1> DEFINE ti == TypeIndex(m, t)
<1>2. IsManaged(m, t) /\ TypeMaxIndex(m, t) = Len(m.to_abs[ti])
  BY DEF TypeMaxIndex
<1>3. Parts(m) /\ m \in Manager
  BY SoundParts DEF Sound
<1>4. ti \in DOMAIN m.types
  BY <1>2, <1>3, TypeIsFound
<1>5. AbsIndex(m, t, k) = m.to_abs[ti][k + 1]
  BY DEF AbsIndex
<1> HIDE DEF ti
<1>6. k + 1 \in 1 .. Len(m.to_abs[ti])
  BY <1>2, <1>3, <1>4 DEF Parts
<1>7. m.to_abs[ti][k + 1] \in Nat
  BY <1>3, <1>4, <1>6 DEF Parts
<1> QED
  BY <1>5, <1>7

\* A port that a manager holds has a type and an index.
LEMMA HeldHasIndex ==
  ASSUME NEW m, Sound(m), NEW s, NEW t, Held(m, s, t)
  PROVE  \E k \in 0 .. TypeMaxIndex(m, t) - 1 : AbsIndex(m, t, k) = s - 1
<1>1. PICK ti \in DOMAIN m.types : m.types[ti] = t /\ \E k \in DOMAIN m.to_abs[ti] : m.to_abs[ti][k] + 1 = s
  BY DEF Held
<1>2. PICK k \in DOMAIN m.to_abs[ti] : m.to_abs[ti][k] + 1 = s
  BY <1>1
<1>3. Parts(m) /\ Corresponds(m)
  BY SoundParts DEF Sound
<1>4. ti \in Nat /\ \A tj \in DOMAIN m.types : m.types[tj] = t => tj = ti
  <2>1. \A tj, tk \in DOMAIN m.types : m.types[tj] = m.types[tk] => tj = tk
    BY <1>3 DEF Corresponds
  <2>2. ti \in Nat
    BY <1>3 DEF Parts
  <2> QED
    BY <1>1, <2>1, <2>2
<1>5. TypeIndex(m, t) = ti /\ IsManaged(m, t)
  BY <1>1, <1>4, TypeOfOne
<1>6. TypeMaxIndex(m, t) = Len(m.to_abs[ti])
  BY <1>5 DEF TypeMaxIndex
<1>7. k \in 1 .. Len(m.to_abs[ti]) /\ Len(m.to_abs[ti]) \in Nat /\ m.to_abs[ti][k] \in Nat
  BY <1>2, <1>3 DEF Parts
<1>8. k - 1 \in 0 .. TypeMaxIndex(m, t) - 1 /\ k - 1 < TypeMaxIndex(m, t) /\ k - 1 + 1 = k
  BY <1>6, <1>7
<1>9. AbsIndex(m, t, k - 1) = m.to_abs[ti][k]
  BY <1>5, <1>8 DEF AbsIndex
<1>10. m.to_abs[ti][k] = s - 1
  BY <1>2, <1>7
<1> QED
  BY <1>8, <1>9, <1>10
-----------------------------------------------------------------------------
WireValues == [name : Names, type : Types] \cup {NULL}

LEMMA AnswerIs ==
  ASSUME NEW t, NEW k
  PROVE  /\ Answer(t, k).max = TypeMaxIndex(mgr, t)
         /\ Answer(t, k).label = Label(mgr, t, k, NULL)
         /\ kind = "behavior" => Answer(t, k).wire = WireAt(mgr, wires, t, k, Count(mgr), NULL)
         /\ kind # "behavior" => Answer(t, k).wire = WireAt(mgr, wires, t, k, Len(wires), NULL)
BY DEF Answer, BehaviorAnswer, InstanceAnswer

\* The array a wire is written to has a place for every port and keeps the wires.
LEMMA ArrayHasRoom ==
  ASSUME GatesInv, made
  PROVE  /\ Array \in Seq(WireValues)
         /\ DOMAIN Array = 1 .. Len(Array) /\ Len(Array) \in Nat
         /\ Count(mgr) <= Len(Array)
         /\ \A s \in DOMAIN Array : Array[s] # NULL => s \in DOMAIN wires /\ Array[s] = wires[s]
         /\ \A s \in DOMAIN wires : s \in DOMAIN Array /\ Array[s] = wires[s]
         /\ kind = "behavior" => Array = wires
         /\ kind = "const" => Len(Array) <= 1
<1>1. /\ wires \in Seq(WireValues) /\ Len(wires) \in Nat
      /\ DOMAIN wires = 1 .. Len(wires)
      /\ \A s \in 1 .. Len(wires) : wires[s] \in WireValues
  BY LenProperties, ElementOfSeq DEF GatesInv, TypeOK, WireValues
<1>2. Count(mgr) \in Nat
  BY ManagerLengths DEF GatesInv
<1>3. CASE kind = "behavior"
  BY <1>1, <1>2, <1>3 DEF GatesInv, ArrayFits, Array
<1>4. CASE kind # "behavior"
  <2> DEFINE n == IF Count(mgr) >= Len(wires) THEN Count(mgr) ELSE Len(wires)
             a == [s \in 1 .. n |-> IF s \in DOMAIN wires THEN wires[s] ELSE NULL]
  <2>1. Array = a
    BY <1>4 DEF Array, WithRoom
  <2>2. n \in Nat /\ Count(mgr) <= n
    BY <1>1, <1>2
  <2>3. kind = "const" => n <= 1
    <3>1. kind = "const" => Len(wires) <= 1
      BY DEF GatesInv, OwnPorts
    <3>2. kind = "const" => Count(mgr) <= 1
      <4>1. Count(NoPorts) = 0 /\ \A t : Count(OnePort("const", t)) = 1
        BY DEF Count, NoPorts, OnePort
      <4> QED
        BY <4>1 DEF GatesInv, OwnPorts
    <3> QED
      BY <3>1, <3>2
  <2> HIDE DEF n
  <2>4. a \in [1 .. n -> WireValues]
    BY <1>1 DEF WireValues
  <2>5. a \in Seq(WireValues) /\ DOMAIN a = 1 .. n
    BY <2>2, <2>4, SeqDef
  <2>6. Len(a) = n
    BY <2>2, <2>5, LenProperties
  <2>7. \A s \in DOMAIN a : a[s] # NULL => s \in DOMAIN wires /\ a[s] = wires[s]
    OBVIOUS
  <2>8. \A s \in DOMAIN wires : s \in DOMAIN a /\ a[s] = wires[s]
    BY <1>1, <1>2 DEF n
  <2> HIDE DEF a
  <2> QED
    BY <1>4, <2>1, <2>2, <2>3, <2>5, <2>6, <2>7, <2>8
<1> QED
  BY <1>3, <1>4

\* A wire put on a port, or taken off, leaves the others.
LEMMA PutKeeps ==
  ASSUME GatesInv, made, NEW t \in Types, NEW k \in Nat, NEW w,
         Put(t, k, w),
         w = NULL \/ w = [name |-> Label(mgr, t, k, NULL), type |-> t]
  PROVE  GatesInv'
<1> DEFINE abs == AbsIndex(mgr, t, k)
<1>1. Sound(mgr) /\ TypeOK /\ WiresHeld(mgr, wires) /\ ArrayFits /\ OwnPorts /\ NamesAreOwn
  BY DEF GatesInv
<1>2. k < TypeMaxIndex(mgr, t)
  BY AnswerIs DEF Put
<1>3. abs \in Nat /\ abs + 1 \in DOMAIN mgr.names \ FreeSlots(mgr) /\ Held(mgr, abs + 1, t)
  BY <1>1, <1>2, IndexInRange, IndexIsHeld
<1>4. DOMAIN mgr.names = 1 .. Count(mgr) /\ Count(mgr) \in Nat
  BY <1>1, ManagerLengths
<1>5. Label(mgr, t, k, NULL) = mgr.names[abs + 1]
  BY <1>3 DEF Label
<1>6. mgr.names[abs + 1] \in Names
  BY <1>1, <1>3, SoundParts, ElementOfSeq DEF Parts, FreeSlots
<1>7. /\ wires' = [Array EXCEPT ![abs + 1] = w]
      /\ UNCHANGED <<kind, made, mgr, constant, family>>
  BY DEF Put
<1> HIDE DEF abs
<1>8. w \in WireValues /\ (w # NULL => w.name = mgr.names[abs + 1] /\ w.type = t)
  BY <1>5, <1>6 DEF WireValues
<1>9. /\ Array \in Seq(WireValues)
      /\ DOMAIN Array = 1 .. Len(Array) /\ Len(Array) \in Nat
      /\ Count(mgr) <= Len(Array)
      /\ \A s \in DOMAIN Array : Array[s] # NULL => s \in DOMAIN wires /\ Array[s] = wires[s]
      /\ kind = "behavior" => Array = wires
      /\ kind = "const" => Len(Array) <= 1
  BY ArrayHasRoom
<1> DEFINE a == Array
<1> HIDE DEF a
<1>10. wires' \in Seq(WireValues) /\ Len(wires') = Len(Array)
  <2>1. a \in Seq(WireValues) /\ abs + 1 \in 1 .. Len(a)
    BY <1>3, <1>4, <1>9 DEF a
  <2>2. wires' = [a EXCEPT ![abs + 1] = w]
    BY <1>7 DEF a
  <2>3. wires' \in Seq(WireValues) /\ Len(wires') = Len(a)
    BY <1>8, <2>1, <2>2, ExceptSeq
  <2> QED
    BY <2>3 DEF a
<1>11. TypeOK'
  BY <1>1, <1>7, <1>10 DEF TypeOK, WireValues
<1>12. WiresHeld(mgr, wires')
  <2>1. ASSUME NEW s \in DOMAIN wires', wires'[s] # NULL
        PROVE  s \in DOMAIN mgr.names /\ mgr.names[s] = wires'[s].name /\ Held(mgr, s, wires'[s].type)
    <3>1. s \in DOMAIN Array
      BY <1>7, <2>1
    <3>2. CASE s = abs + 1
      <4>1. wires'[s] = w
        BY <1>7, <3>1, <3>2
      <4> QED
        BY <1>3, <1>8, <2>1, <3>2, <4>1
    <3>3. CASE s # abs + 1
      <4>1. wires'[s] = Array[s]
        BY <1>7, <3>1, <3>3
      <4>2. s \in DOMAIN wires /\ wires'[s] = wires[s]
        BY <1>9, <2>1, <3>1, <4>1
      <4> QED
        BY <1>1, <2>1, <4>2 DEF WiresHeld
    <3> QED
      BY <3>2, <3>3
  <2> QED
    BY <2>1 DEF WiresHeld
<1>13. ArrayFits'
  BY <1>1, <1>7, <1>9, <1>10 DEF ArrayFits
<1>14. OwnPorts'
  BY <1>1, <1>7, <1>9, <1>10 DEF OwnPorts
<1>15. NamesAreOwn'
  BY <1>1, <1>7 DEF NamesAreOwn
<1> QED
  BY <1>1, <1>7, <1>11, <1>12, <1>13, <1>14, <1>15 DEF GatesInv
-----------------------------------------------------------------------------
(* The ports a manager gets stay one-to-one and keep their names distinct.  *)

LEMMA AddKeeps ==
  ASSUME NEW m, Sound(m), Distinct(m), NEW n \in Names, ~InUse(m, n), NEW t \in Types
  PROVE  Sound(AddPort(m, n, t)) /\ Distinct(AddPort(m, n, t))
<1> DEFINE s == SlotForNew(m)
           a == AddPort(m, n, t)
<1>1. Added(m, WithType(m, t), TypeIndex(WithType(m, t), t), s, a, n, t)
  BY AddPortParts
<1>2. /\ DOMAIN a.names = DOMAIN m.names \cup {s}
      /\ a.names[s] = n
      /\ \A r \in DOMAIN m.names : r # s => a.names[r] = m.names[r]
  BY <1>1 DEF Added
<1>3. Sound(a)
  BY AddPortIsSound
<1> HIDE DEF a, s
<1>4. \A r \in DOMAIN m.names : m.names[r] # n
  BY DEF InUse
<1>5. \A r \in DOMAIN a.names \ FreeSlots(a) : r # s => r \in DOMAIN m.names \ FreeSlots(m)
  BY <1>2 DEF FreeSlots
<1>6. Distinct(a)
  BY <1>2, <1>4, <1>5 DEF Distinct
<1> QED
  BY <1>3, <1>6 DEF a

LEMMA OwnManagersAreSound ==
  /\ Sound(NoPorts) /\ Distinct(NoPorts)
  /\ Sound(InetPorts) /\ Distinct(InetPorts)
  /\ \A t \in Types : Sound(OnePort("const", t)) /\ Distinct(OnePort("const", t))
<1>1. Sound(NoPorts) /\ Distinct(NoPorts) /\ \A n : ~InUse(NoPorts, n)
  BY NoPortsAreSound DEF Distinct, InUse, NoPorts
<1>2. \A n \in Names, t \in Types : Sound(OnePort(n, t)) /\ Distinct(OnePort(n, t))
  BY <1>1, AddKeeps, AddToNone
<1>3. ~InUse(OnePort("address", StringType), "port")
  BY DEF InUse, OnePort
<1>4. "const" \in Names /\ "address" \in Names /\ "port" \in Names /\ StringType \in Types /\ IntType \in Types
  BY GatesAssumption
<1>5. Sound(InetPorts) /\ Distinct(InetPorts)
  BY <1>2, <1>3, <1>4, AddKeeps, AddToNone DEF InetPorts
<1> QED
  BY <1>1, <1>2, <1>4, <1>5

\* A wire's port has its place still, and is not a removed one.
LEMMA WireIsUsed ==
  ASSUME GatesInv, NEW s \in DOMAIN wires, wires[s] # NULL
  PROVE  /\ s \in DOMAIN mgr.names \ FreeSlots(mgr)
         /\ mgr.names[s] = wires[s].name
         /\ Held(mgr, s, wires[s].type)
         /\ wires[s] \in [name : Names, type : Types]
<1>1. wires[s] \in [name : Names, type : Types]
  BY ElementOfSeq, LenProperties DEF GatesInv, TypeOK
<1>2. s \in DOMAIN mgr.names /\ mgr.names[s] = wires[s].name /\ Held(mgr, s, wires[s].type)
  BY DEF GatesInv, WiresHeld
<1>3. wires[s].name # EMPTY
  BY <1>1, EmptyAssumption
<1> QED
  BY <1>1, <1>2, <1>3 DEF FreeSlots

\* New ports, with the wires of the ports that stay.
LEMMA AddKeepsWires ==
  ASSUME GatesInv, NEW n \in Names, NEW t \in Types
  PROVE  WiresHeld(AddPort(mgr, n, t), wires)
<1>1. Sound(mgr)
  BY DEF GatesInv
<1>2. ASSUME NEW s \in DOMAIN wires, wires[s] # NULL
      PROVE  /\ s \in DOMAIN AddPort(mgr, n, t).names
             /\ AddPort(mgr, n, t).names[s] = wires[s].name
             /\ Held(AddPort(mgr, n, t), s, wires[s].type)
  BY <1>1, <1>2, WireIsUsed, AddPortIsSound
<1> QED
  BY <1>2 DEF WiresHeld
-----------------------------------------------------------------------------
LEMMA GatesInit == Init => GatesInv
<1> SUFFICES ASSUME Init PROVE GatesInv
  OBVIOUS
<1>1. Sound(NoPorts) /\ Distinct(NoPorts) /\ NoPorts \in Manager
  BY OwnManagersAreSound DEF Sound
<1>2. \A S : <<>> \in Seq(S) /\ Len(<<>>) = 0 /\ DOMAIN <<>> = {}
  BY EmptySeq
<1>3. TypeOK
  BY <1>1, <1>2 DEF Init, TypeOK
<1>4. WiresHeld(mgr, wires)
  BY <1>2 DEF Init, WiresHeld
<1>5. ArrayFits /\ OwnPorts
  <2>1. /\ kind # "behavior" => made
        /\ kind = "behavior" => ~made
        /\ wires = <<>> /\ mgr = NoPorts /\ family = "UNSPEC"
    BY Zenon DEF Init
  <2>2. Len(wires) <= 1
    BY <1>2, <2>1
  <2>3. ArrayFits
    BY <2>1 DEF ArrayFits
  <2> QED
    BY <2>1, <2>2, <2>3 DEF OwnPorts
<1>6. NamesAreOwn
  <2>1. mgr = NoPorts /\ mgr.names = <<>> /\ Count(mgr) = 0
    BY <1>2 DEF Init, NoPorts, Count
  <2>2. Len(BehaviorPorts) >= 0
    BY BehaviorAssumption, LenProperties
  <2> QED
    BY <1>1, <1>2, <2>1, <2>2 DEF NamesAreOwn
<1> QED
  BY <1>1, <1>3, <1>4, <1>5, <1>6 DEF Init, GatesInv

LEMMA AddBehaviorPortKeeps ==
  ASSUME GatesInv, AddBehaviorPort
  PROVE  GatesInv'
<1> DEFINE next == Count(mgr) + 1
           port == BehaviorPorts[next]
<1>1. /\ kind = "behavior" /\ mgr' = AddPort(mgr, port.name, port.type)
      /\ Count(mgr) < Len(BehaviorPorts)
      /\ UNCHANGED <<kind, made, wires, constant, family>>
  BY DEF AddBehaviorPort
<1>2. Sound(mgr) /\ Count(mgr) \in Nat /\ DOMAIN mgr.names = 1 .. Count(mgr)
  BY ManagerLengths DEF GatesInv
<1>3. /\ DOMAIN BehaviorPorts = 1 .. Len(BehaviorPorts) /\ Len(BehaviorPorts) \in Nat
      /\ \A i \in DOMAIN BehaviorPorts : BehaviorPorts[i] \in [name : Names, type : Types]
  BY BehaviorAssumption, LenProperties, ElementOfSeq
<1>4. next \in DOMAIN BehaviorPorts /\ port.name \in Names /\ port.type \in Types
  BY <1>1, <1>2, <1>3
<1>5. /\ Distinct(mgr)
      /\ \A s \in 1 .. Count(mgr) : s \in DOMAIN BehaviorPorts /\ mgr.names[s] = BehaviorPorts[s].name
  BY <1>1, <1>2, <1>3 DEF GatesInv, NamesAreOwn
<1>6. ~InUse(mgr, port.name)
  BY <1>2, <1>4, <1>5, BehaviorAssumption DEF InUse
<1>7. FreeSlots(mgr) = {}
  BY <1>2, <1>3, <1>5, EmptyAssumption DEF FreeSlots
<1>8. SlotForNew(mgr) = next
  BY <1>7 DEF SlotForNew
<1> HIDE DEF next, port
<1>9. Added(mgr, WithType(mgr, port.type), TypeIndex(WithType(mgr, port.type), port.type), next, mgr',
            port.name, port.type)
  BY <1>1, <1>2, <1>4, <1>8, AddPortParts
<1>10. /\ DOMAIN mgr'.names = DOMAIN mgr.names \cup {next}
       /\ mgr'.names[next] = port.name
       /\ \A r \in DOMAIN mgr.names \ {next} : mgr'.names[r] = mgr.names[r]
  BY <1>9 DEF Added
<1>11. Sound(mgr') /\ Distinct(mgr')
  BY <1>1, <1>2, <1>4, <1>5, <1>6, AddKeeps
<1>12. NamesAreOwn'
  <2>1. Count(mgr') = next
    <3>1. DOMAIN mgr'.names = 1 .. next
      BY <1>2, <1>10 DEF next
    <3>2. Count(mgr') \in Nat /\ DOMAIN mgr'.names = 1 .. Count(mgr')
      BY <1>11, ManagerLengths
    <3>3. next \in Nat
      BY <1>2 DEF next
    <3> QED
      BY <3>1, <3>2, <3>3
  <2>2. next <= Len(BehaviorPorts)
    BY <1>1, <1>2, <1>3 DEF next
  <2>3. \A s \in DOMAIN mgr'.names : mgr'.names[s] = BehaviorPorts[s].name
    <3>1. \A s \in 1 .. Count(mgr) : s # next
      BY <1>2 DEF next
    <3> QED
      BY <1>2, <1>5, <1>10, <3>1 DEF port
  <2> QED
    BY <1>11, <2>1, <2>2, <2>3 DEF NamesAreOwn
<1>13. TypeOK'
  BY <1>1, <1>11 DEF GatesInv, TypeOK, Sound
<1>14. WiresHeld(mgr', wires')
  BY <1>1, <1>4, AddKeepsWires
<1>15. ArrayFits' /\ OwnPorts'
  <2>1. ~made
    <3>1. made => Count(mgr) = Len(BehaviorPorts)
      BY <1>1 DEF GatesInv, ArrayFits
    <3> QED
      BY <1>1, <1>2, <1>3, <3>1
  <2> QED
    BY <1>1, <2>1 DEF GatesInv, ArrayFits, OwnPorts
<1> QED
  BY <1>11, <1>12, <1>13, <1>14, <1>15 DEF GatesInv

LEMMA CreateGateKeeps ==
  ASSUME GatesInv, CreateGate
  PROVE  GatesInv'
<1> DEFINE a == [s \in 1 .. Count(mgr) |-> NULL]
<1>1. /\ kind = "behavior" /\ made' = TRUE /\ wires' = a /\ Count(mgr) = Len(BehaviorPorts)
      /\ UNCHANGED <<kind, mgr, constant, family>>
  BY DEF CreateGate, GatesInv, ArrayFits
<1>2. Count(mgr) \in Nat
  BY ManagerLengths DEF GatesInv
<1>3. a \in Seq(WireValues)
  <2>1. a \in [1 .. Count(mgr) -> WireValues]
    BY DEF WireValues
  <2> QED
    BY <1>2, <2>1, SeqDef
<1>4. Len(a) = Count(mgr)
  BY <1>2, <1>3, LenProperties
<1>5. \A s \in DOMAIN a : a[s] = NULL
  OBVIOUS
<1> HIDE DEF a
<1>6. TypeOK'
  BY <1>1, <1>3 DEF GatesInv, TypeOK, WireValues
<1>7. WiresHeld(mgr', wires')
  BY <1>1, <1>5 DEF WiresHeld
<1>8. ArrayFits' /\ OwnPorts'
  BY <1>1, <1>4 DEF ArrayFits, OwnPorts, Count
<1>9. NamesAreOwn'
  BY <1>1 DEF GatesInv, NamesAreOwn
<1> QED
  BY <1>1, <1>6, <1>7, <1>8, <1>9 DEF GatesInv

LEMMA SelectConstantKeeps ==
  ASSUME GatesInv, NEW c \in Constants, SelectConstant(c)
  PROVE  GatesInv'
<1>1. kind = "const" /\ constant' = c /\ UNCHANGED <<kind, made, wires, family>>
  BY DEF SelectConstant, HasProperty, Properties
<1>2. c.type \in Types
  BY GatesAssumption
<1>3. mgr' = mgr \/ (~KeepsPort /\ mgr' = OnePort("const", c.type))
  <2>1. CASE mgr = NoPorts
    <3>1. mgr.types = <<>>
      BY <2>1 DEF NoPorts
    <3>2. WithoutItsPort = NoPorts
      BY <2>1, <3>1 DEF WithoutItsPort
    <3> QED
      BY <3>1, <3>2, AddToNone DEF SelectConstant
  <2>2. ASSUME NEW t \in Types, mgr = OnePort("const", t)
        PROVE  WithoutItsPort = BarePort(t)
    <3>1. mgr.types # <<>> /\ mgr.types[1] = t
      BY <2>2 DEF OnePort
    <3> QED
      BY <2>2, <3>1, RemoveTheOne DEF WithoutItsPort
  <2>3. mgr = NoPorts \/ \E t \in Types : mgr = OnePort("const", t)
    BY <1>1 DEF GatesInv, OwnPorts
  <2> QED
    BY <2>1, <2>2, <2>3, AddToBare DEF SelectConstant
<1>4. Sound(mgr') /\ Distinct(mgr') /\ NamesAreOwn'
  BY <1>1, <1>2, <1>3, OwnManagersAreSound DEF GatesInv, NamesAreOwn
<1>5. TypeOK'
  BY <1>1, <1>4 DEF GatesInv, TypeOK, Sound
<1>6. WiresHeld(mgr', wires')
  <2>1. CASE mgr' = mgr
    BY <1>1, <2>1 DEF GatesInv
  <2>2. CASE ~KeepsPort
    <3>1. DOMAIN wires = 1 .. Len(wires) /\ Len(wires) \in Nat /\ Len(wires) <= 1
      BY <1>1, LenProperties DEF GatesInv, TypeOK, OwnPorts
    <3>2. wires = <<>> \/ wires[1] = NULL
      BY <2>2 DEF KeepsPort
    <3>3. DOMAIN <<>> = {}
      BY EmptySeq
    <3>4. \A s \in DOMAIN wires : wires[s] = NULL
      BY <3>1, <3>2, <3>3
    <3> QED
      BY <1>1, <3>4 DEF WiresHeld
  <2> QED
    BY <1>3, <2>1, <2>2
<1>7. ArrayFits'
  BY <1>1 DEF GatesInv, ArrayFits
<1>8. OwnPorts'
  BY <1>1, <1>2, <1>3 DEF GatesInv, OwnPorts
<1> QED
  BY <1>4, <1>5, <1>6, <1>7, <1>8 DEF GatesInv

\* A wire of the array is one that lxc_port_is_any_wire_connected sees.
LEMMA WireIsSeen ==
  ASSUME GatesInv, NEW s \in DOMAIN wires, wires[s] # NULL
  PROVE  AnyWireConnected(mgr, wires, NULL)
BY WireIsUsed, ManagerLengths DEF AnyWireConnected, GatesInv

LEMMA SelectFamilyKeeps ==
  ASSUME GatesInv, NEW f \in {"INET", "UNSPEC"}, SelectFamily(f)
  PROVE  GatesInv'
<1>1. kind = "sockaddr" /\ family' = f /\ UNCHANGED <<kind, made, wires, constant>>
  BY DEF SelectFamily, HasProperty, Properties
<1>2. mgr \in {NoPorts, InetPorts} /\ mgr' = IF AnyWireConnected(mgr, wires, NULL) THEN mgr ELSE PortsOfFamily(f)
  BY <1>1 DEF SelectFamily, GatesInv, OwnPorts
<1>3. Sound(mgr') /\ NamesAreOwn'
  BY <1>1, <1>2, OwnManagersAreSound DEF PortsOfFamily, NamesAreOwn
<1>4. TypeOK'
  BY <1>1, <1>3 DEF GatesInv, TypeOK, Sound
<1>5. WiresHeld(mgr', wires')
  <2>1. CASE AnyWireConnected(mgr, wires, NULL)
    BY <1>1, <1>2, <2>1 DEF GatesInv
  <2>2. CASE ~AnyWireConnected(mgr, wires, NULL)
    BY <1>1, <2>2, WireIsSeen DEF WiresHeld
  <2> QED
    BY <2>1, <2>2
<1>6. mgr' \in {NoPorts, InetPorts} /\ (f = "INET" => mgr' = InetPorts)
  <2>1. CASE AnyWireConnected(mgr, wires, NULL)
    <3>1. PICK s \in DOMAIN wires : wires[s] # NULL
      BY <2>1 DEF AnyWireConnected
    <3>2. mgr # NoPorts
      BY <3>1, WireIsUsed, EmptySeq DEF NoPorts
    <3> QED
      BY <1>2, <2>1, <3>2
  <2>2. CASE ~AnyWireConnected(mgr, wires, NULL)
    BY <1>2, <2>2 DEF PortsOfFamily
  <2> QED
    BY <2>1, <2>2
<1>7. ArrayFits' /\ OwnPorts'
  BY <1>1, <1>6 DEF GatesInv, ArrayFits, OwnPorts
<1> QED
  BY <1>3, <1>4, <1>5, <1>7 DEF GatesInv

LEMMA AddInputPortKeeps ==
  ASSUME GatesInv, NEW n \in Names, NEW t \in Types, AddInputPort(n, t)
  PROVE  GatesInv'
<1>1. /\ kind = "javaIn" /\ ~InUse(mgr, n) /\ mgr' = AddPort(mgr, n, t)
      /\ UNCHANGED <<kind, made, wires, constant, family>>
  BY DEF AddInputPort, NameIsNew
<1>2. Sound(mgr') /\ NamesAreOwn'
  BY <1>1, AddKeeps DEF GatesInv, NamesAreOwn
<1>3. TypeOK'
  BY <1>1, <1>2 DEF GatesInv, TypeOK, Sound
<1>4. WiresHeld(mgr', wires')
  BY <1>1, AddKeepsWires
<1>5. ArrayFits' /\ OwnPorts'
  BY <1>1 DEF GatesInv, ArrayFits, OwnPorts
<1> QED
  BY <1>2, <1>3, <1>4, <1>5 DEF GatesInv

LEMMA AddOutputPortKeeps ==
  ASSUME GatesInv, NEW n \in Names, NEW t \in Types, AddOutputPort(n, t)
  PROVE  GatesInv'
<1>1. /\ kind = "javaOut" /\ mgr' = AddPort(mgr, n, t)
      /\ UNCHANGED <<kind, made, wires, constant, family>>
  BY DEF AddOutputPort
<1>2. Sound(mgr') /\ NamesAreOwn'
  BY <1>1, AddPortIsSound DEF GatesInv, NamesAreOwn
<1>3. TypeOK'
  BY <1>1, <1>2 DEF GatesInv, TypeOK, Sound
<1>4. WiresHeld(mgr', wires')
  BY <1>1, AddKeepsWires
<1>5. ArrayFits' /\ OwnPorts'
  BY <1>1 DEF GatesInv, ArrayFits, OwnPorts
<1> QED
  BY <1>2, <1>3, <1>4, <1>5 DEF GatesInv

LEMMA GatesStep == GatesInv /\ [Next]_vars => GatesInv'
<1> SUFFICES ASSUME GatesInv, [Next]_vars PROVE GatesInv'
  OBVIOUS
<1>0. \A k \in Indices : k \in Nat
  BY ManagerLengths DEF Indices, GatesInv
<1>1. CASE AddBehaviorPort
  BY <1>1, AddBehaviorPortKeeps
<1>2. CASE CreateGate
  BY <1>2, CreateGateKeeps
<1>3. ASSUME NEW t \in Types, NEW k \in Indices, WirePort(t, k)
      PROVE  GatesInv'
  BY <1>0, <1>3, PutKeeps, AnswerIs DEF WirePort
<1>4. ASSUME NEW t \in Types, NEW k \in Indices, UnwirePort(t, k)
      PROVE  GatesInv'
  BY <1>0, <1>4, PutKeeps DEF UnwirePort
<1>5. ASSUME NEW n \in Names, NEW t \in Types, AddInputPort(n, t) \/ AddOutputPort(n, t)
      PROVE  GatesInv'
  BY <1>5, AddInputPortKeeps, AddOutputPortKeeps
<1>6. CASE ClearConstant
  BY <1>6 DEF ClearConstant, GatesInv, TypeOK, ArrayFits, OwnPorts, NamesAreOwn
<1>7. ASSUME NEW c \in Constants, SelectConstant(c)
      PROVE  GatesInv'
  BY <1>7, SelectConstantKeeps
<1>8. ASSUME NEW f \in {"INET", "UNSPEC"}, SelectFamily(f)
      PROVE  GatesInv'
  BY <1>8, SelectFamilyKeeps
<1>9. CASE UNCHANGED vars
  BY <1>9 DEF vars, GatesInv, TypeOK, ArrayFits, OwnPorts, NamesAreOwn
<1> QED
  BY <1>1, <1>2, <1>3, <1>4, <1>5, <1>6, <1>7, <1>8, <1>9 DEF Next

LEMMA GatesAlways == Spec => []GatesInv
BY GatesInit, GatesStep, PTL DEF Spec
-----------------------------------------------------------------------------
\* A gate's variables have their types: through every call of Next, the manager
\* is three sequences of names, types and indices (lxc_port_manager).
THEOREM GatesTypeCorrect == Spec => []TypeOK
<1>1. GatesInv => TypeOK
  BY DEF GatesInv
<1> QED
  BY <1>1, GatesAlways, PTL

\* For any names, types and lists of a behavior's ports, and every kind of gate: the
\* ports' names and the types' indices are one-to-one
\* (lxc_port_unchecked_add_new_port; lxc_port_remove_port of a type's only port, as
\* the const gate calls it).
THEOREM PortsAlwaysCorrespond == Spec => []PortsCorrespond
<1>1. GatesInv => PortsCorrespond
  BY DEF GatesInv, Sound, PortsCorrespond
<1> QED
  BY <1>1, GatesAlways, PTL

\* For any names, types and lists of a behavior's ports, and every kind of gate: no
\* addition of a port, selection of a constant or change of the family takes a wire
\* from its port, and lxc_port_wiring writes within the array.
THEOREM WiresAlwaysStay == Spec => []WiresStayWithTheirPorts
<1>1. ASSUME GatesInv PROVE WiresStayWithTheirPorts
  <2>1. Sound(mgr)
    BY <1>1 DEF GatesInv
  <2>2. ASSUME NEW s \in DOMAIN wires, wires[s] # NULL
        PROVE  s \in DOMAIN mgr.names /\ IsPortAt(s, wires[s])
    BY <1>1, <2>1, <2>2, WireIsUsed, HeldHasIndex DEF IsPortAt
  <2>3. ASSUME NEW t \in Types, NEW k \in Indices, made, AbsIndex(mgr, t, k) >= 0
        PROVE  AbsIndex(mgr, t, k) < Len(Array)
    <3>1. Count(mgr) \in Nat /\ DOMAIN mgr.names = 1 .. Count(mgr)
      BY <2>1, ManagerLengths
    <3>2. k \in Nat
      BY <3>1 DEF Indices
    <3>3. AbsIndex(mgr, t, k) \in Nat /\ AbsIndex(mgr, t, k) + 1 <= Count(mgr)
      BY <2>1, <2>3, <3>1, <3>2, IndexIsHeld
    <3>4. Count(mgr) <= Len(Array) /\ Len(Array) \in Nat
      BY <1>1, <2>3, ArrayHasRoom
    <3> QED
      BY <3>1, <3>3, <3>4
  <2> QED
    BY <2>2, <2>3 DEF WiresStayWithTheirPorts
<1> QED
  BY <1>1, GatesAlways, PTL

\* inet_create_socket finds the address and the port where it looks for them
\* (posix/socketaddress_create.c).
THEOREM CreatorAlwaysFindsItsInputs == Spec => []CreatorFindsItsInputs
<1>1. ASSUME GatesInv PROVE CreatorFindsItsInputs
  <2> DEFINE m == TwoPorts("address", StringType, "port", IntType)
  <2>1. StringType # IntType
    BY DEF StringType, IntType
  <2>2. TypeIndex(m, StringType) = 1 /\ IsManaged(m, StringType)
    BY <2>1, TypeOfOne DEF TwoPorts
  <2>3. TypeIndex(m, IntType) = 2 /\ IsManaged(m, IntType)
    BY <2>1, TypeOfOne DEF TwoPorts
  <2>4. AbsIndex(m, StringType, 0) = 0
    BY <2>2 DEF AbsIndex, TypeMaxIndex, TwoPorts
  <2>5. AbsIndex(m, IntType, 0) = 1
    BY <2>3 DEF AbsIndex, TypeMaxIndex, TwoPorts
  <2>6. kind = "sockaddr" /\ family = "INET" => mgr = m
    BY <1>1, InetHasTwo DEF GatesInv, OwnPorts
  <2> HIDE DEF m
  <2> QED
    BY <2>4, <2>5, <2>6 DEF CreatorFindsItsInputs
<1> QED
  BY <1>1, GatesAlways, PTL
-----------------------------------------------------------------------------
(* A gate's ports implement PortMap.                                        *)

\* The ports of the wires in an array.
OfWires(ws) == {ws[s] : s \in {r \in DOMAIN ws : ws[r] # NULL}}

LEMMA PortIsHeld ==
  ASSUME NEW m, Sound(m), NEW p
  PROVE  p \in PortsOf(m) <=>
           \E s \in DOMAIN m.names \ FreeSlots(m), t \in Types :
             Held(m, s, t) /\ p = [name |-> m.names[s], type |-> t]
<1>1. Parts(m) /\ Corresponds(m)
  BY SoundParts DEF Sound
<1>2. ASSUME p \in PortsOf(m)
      PROVE  \E s \in DOMAIN m.names \ FreeSlots(m), t \in Types :
               Held(m, s, t) /\ p = [name |-> m.names[s], type |-> t]
  <2>1. PICK ti \in DOMAIN m.types :
          p \in {[name |-> m.names[abs + 1], type |-> m.types[ti]] :
                   abs \in {m.to_abs[ti][k] : k \in DOMAIN m.to_abs[ti]}}
    BY <1>2 DEF PortsOf
  <2>2. PICK k \in DOMAIN m.to_abs[ti] : p = [name |-> m.names[m.to_abs[ti][k] + 1], type |-> m.types[ti]]
    BY <2>1
  <2>3. m.to_abs[ti][k] + 1 \in DOMAIN m.names \ FreeSlots(m)
    BY <1>1, <2>2 DEF Corresponds
  <2>4. Held(m, m.to_abs[ti][k] + 1, m.types[ti])
    BY <2>2 DEF Held
  <2>5. m.types[ti] \in Types
    BY <1>1, ElementOfSeq DEF Parts
  <2> QED
    BY <2>2, <2>3, <2>4, <2>5
<1>3. ASSUME NEW s \in DOMAIN m.names, NEW t, Held(m, s, t), p = [name |-> m.names[s], type |-> t]
      PROVE  p \in PortsOf(m)
  <2>1. PICK ti \in DOMAIN m.types : m.types[ti] = t /\ \E k \in DOMAIN m.to_abs[ti] : m.to_abs[ti][k] + 1 = s
    BY <1>3 DEF Held
  <2>2. PICK k \in DOMAIN m.to_abs[ti] : m.to_abs[ti][k] + 1 = s
    BY <2>1
  <2>3. p = [name |-> m.names[m.to_abs[ti][k] + 1], type |-> m.types[ti]]
    BY <1>3, <2>1, <2>2
  <2>4. p \in {[name |-> m.names[abs + 1], type |-> m.types[ti]] :
                 abs \in {m.to_abs[ti][l] : l \in DOMAIN m.to_abs[ti]}}
    BY <2>2, <2>3
  <2> QED
    BY <2>1, <2>4 DEF PortsOf
<1> QED
  BY <1>2, <1>3

\* A place has one type.
LEMMA HeldOnce ==
  ASSUME NEW m, Sound(m), NEW s, NEW t, NEW u, Held(m, s, t), Held(m, s, u)
  PROVE  t = u
<1>1. Parts(m) /\ Corresponds(m)
  BY SoundParts DEF Sound
<1>2. PICK ti \in DOMAIN m.types : m.types[ti] = t /\ \E k \in DOMAIN m.to_abs[ti] : m.to_abs[ti][k] + 1 = s
  BY DEF Held
<1>3. PICK tj \in DOMAIN m.types : m.types[tj] = u /\ \E l \in DOMAIN m.to_abs[tj] : m.to_abs[tj][l] + 1 = s
  BY DEF Held
<1>5. PICK k \in DOMAIN m.to_abs[ti] : m.to_abs[ti][k] + 1 = s
  BY <1>2
<1>6. PICK l \in DOMAIN m.to_abs[tj] : m.to_abs[tj][l] + 1 = s
  BY <1>3
<1>4. m.to_abs[ti][k] = m.to_abs[tj][l]
  <2>1. m.to_abs[ti][k] \in Nat /\ m.to_abs[tj][l] \in Nat
    BY <1>1 DEF Parts
  <2> QED
    BY <1>5, <1>6, <2>1
<1>7. ti = tj
  BY <1>1, <1>4, <1>5, <1>6 DEF Corresponds
<1> QED
  BY <1>2, <1>3, <1>7

\* What PortMap sees of a gate.
MapInv ==
  /\ PortsOf(mgr) \subseteq [name : Names, type : Types]
  /\ Map!OwnNames(PortsOf(mgr))
  /\ WiredPorts(mgr, wires) = OfWires(wires)
  /\ OfWires(wires) \subseteq PortsOf(mgr)

LEMMA GatesMap ==
  ASSUME GatesInv, Distinct(mgr)
  PROVE  MapInv
<1>1. Sound(mgr) /\ Distinct(mgr) /\ Parts(mgr)
  BY SoundParts DEF GatesInv
<1>2. \A s \in DOMAIN mgr.names \ FreeSlots(mgr) : mgr.names[s] \in Names
  BY <1>1, ElementOfSeq DEF Parts, FreeSlots
<1>3. PortsOf(mgr) \subseteq [name : Names, type : Types]
  BY <1>1, <1>2, PortIsHeld
<1>4. Map!OwnNames(PortsOf(mgr))
  <2>1. ASSUME NEW p \in PortsOf(mgr), NEW q \in PortsOf(mgr), p.name = q.name
        PROVE  p = q
    <3>1. PICK s \in DOMAIN mgr.names \ FreeSlots(mgr), t \in Types :
            Held(mgr, s, t) /\ p = [name |-> mgr.names[s], type |-> t]
      BY <1>1, <2>1, PortIsHeld
    <3>2. PICK r \in DOMAIN mgr.names \ FreeSlots(mgr), u \in Types :
            Held(mgr, r, u) /\ q = [name |-> mgr.names[r], type |-> u]
      BY <1>1, <2>1, PortIsHeld
    <3>3. s = r
      BY <1>1, <2>1, <3>1, <3>2 DEF Distinct
    <3>4. t = u
      BY <1>1, <3>1, <3>2, <3>3, HeldOnce
    <3> QED
      BY <3>1, <3>2, <3>3, <3>4
  <2> QED
    BY <2>1 DEF Map!OwnNames
<1>5. ASSUME NEW s \in DOMAIN wires, wires[s] # NULL
      PROVE  /\ wires[s] \in PortsOf(mgr) /\ s \in DOMAIN mgr.names
             /\ mgr.names[s] = wires[s].name
  <2>1. /\ s \in DOMAIN mgr.names \ FreeSlots(mgr)
        /\ mgr.names[s] = wires[s].name
        /\ Held(mgr, s, wires[s].type)
        /\ wires[s] \in [name : Names, type : Types]
    BY <1>5, WireIsUsed
  <2>2. wires[s] = [name |-> mgr.names[s], type |-> wires[s].type] /\ wires[s].type \in Types
    BY <2>1
  <2> QED
    BY <1>1, <2>1, <2>2, PortIsHeld
<1>6. OfWires(wires) \subseteq PortsOf(mgr)
  BY <1>5 DEF OfWires
<1>7. WiredPorts(mgr, wires) \subseteq OfWires(wires)
  <2>1. NULL \notin PortsOf(mgr)
    BY <1>3, GatesAssumption
  <2> QED
    BY <2>1 DEF WiredPorts, OfWires
<1>8. OfWires(wires) \subseteq WiredPorts(mgr, wires)
  BY <1>5 DEF WiredPorts, OfWires
<1> QED
  BY <1>3, <1>4, <1>6, <1>7, <1>8 DEF MapInv

\* What a gate answers for the wire of a port.
LEMMA AnswerWire ==
  ASSUME GatesInv, made, NEW t, NEW k, AbsIndex(mgr, t, k) \in Nat
  PROVE  Answer(t, k).wire =
           IF AbsIndex(mgr, t, k) + 1 \in DOMAIN wires THEN wires[AbsIndex(mgr, t, k) + 1] ELSE NULL
<1>1. DOMAIN wires = 1 .. Len(wires) /\ Len(wires) \in Nat
  BY LenProperties DEF GatesInv, TypeOK
<1>2. Answer(t, k).wire = WireAt(mgr, wires, t, k, Len(wires), NULL)
  BY AnswerIs DEF GatesInv, ArrayFits
<1> QED
  BY <1>1, <1>2 DEF WireAt

\* The place that a wire is put in, and what is in the array then.
LEMMA PutIsLocal ==
  ASSUME GatesInv, made, NEW t \in Types, NEW k \in Nat, NEW w, Put(t, k, w)
  PROVE  \E s \in DOMAIN mgr.names \ FreeSlots(mgr) :
           /\ Held(mgr, s, t) /\ Label(mgr, t, k, NULL) = mgr.names[s]
           /\ Answer(t, k).wire = IF s \in DOMAIN wires THEN wires[s] ELSE NULL
           /\ OfWires(wires') = {wires[r] : r \in {q \in DOMAIN wires : wires[q] # NULL /\ q # s}}
                                  \cup ({w} \ {NULL})
<1> DEFINE abs == AbsIndex(mgr, t, k)
           s == abs + 1
<1>1. Sound(mgr)
  BY DEF GatesInv
<1>2. k < TypeMaxIndex(mgr, t)
  BY AnswerIs DEF Put
<1>3. abs \in Nat /\ s \in DOMAIN mgr.names \ FreeSlots(mgr) /\ Held(mgr, s, t)
  BY <1>1, <1>2, IndexInRange, IndexIsHeld
<1>4. Label(mgr, t, k, NULL) = mgr.names[s]
  BY <1>3 DEF Label
<1>5. Answer(t, k).wire = IF s \in DOMAIN wires THEN wires[s] ELSE NULL
  BY <1>3, AnswerWire
<1>6. wires' = [Array EXCEPT ![s] = w]
  BY DEF Put
<1>7. s \in DOMAIN Array
  BY <1>1, <1>3, ArrayHasRoom, ManagerLengths
<1> HIDE DEF abs, s
<1> DEFINE a == Array
<1>8. /\ \A r \in DOMAIN a : a[r] # NULL => r \in DOMAIN wires /\ a[r] = wires[r]
      /\ \A r \in DOMAIN wires : r \in DOMAIN a /\ a[r] = wires[r]
  BY ArrayHasRoom
<1>9. wires' = [a EXCEPT ![s] = w] /\ s \in DOMAIN a
  BY <1>6, <1>7
<1> HIDE DEF a
<1>10. /\ DOMAIN wires' = DOMAIN a /\ wires'[s] = w
       /\ \A r \in DOMAIN a : r # s => wires'[r] = a[r]
  BY <1>9
<1>11. OfWires(wires') = {wires[r] : r \in {q \in DOMAIN wires : wires[q] # NULL /\ q # s}}
                           \cup ({w} \ {NULL})
  <2> DEFINE R == {wires[r] : r \in {q \in DOMAIN wires : wires[q] # NULL /\ q # s}}
  <2>1. ASSUME NEW p \in OfWires(wires') PROVE p \in R \cup ({w} \ {NULL})
    BY <1>8, <1>10 DEF OfWires
  <2>2. ASSUME NEW p \in R PROVE p \in OfWires(wires')
    BY <1>8, <1>10 DEF OfWires
  <2>3. ASSUME NEW p \in {w} \ {NULL} PROVE p \in OfWires(wires')
    BY <1>9, <1>10 DEF OfWires
  <2> QED
    BY <2>1, <2>2, <2>3
<1> QED
  BY <1>3, <1>4, <1>5, <1>11

LEMMA WireIsAttached ==
  ASSUME GatesInv, Distinct(mgr), MapInv, NEW t \in Types, NEW k \in Nat, WirePort(t, k)
  PROVE  \E p \in PortsOf(mgr) \ OfWires(wires) : OfWires(wires') = OfWires(wires) \cup {p}
<1> DEFINE w == [name |-> Answer(t, k).label, type |-> t]
<1>1. Put(t, k, w) /\ made /\ Answer(t, k).wire = NULL
  BY DEF WirePort
<1> HIDE DEF w
<1>2. PICK s \in DOMAIN mgr.names \ FreeSlots(mgr) :
        /\ Held(mgr, s, t) /\ Label(mgr, t, k, NULL) = mgr.names[s]
        /\ Answer(t, k).wire = IF s \in DOMAIN wires THEN wires[s] ELSE NULL
        /\ OfWires(wires') = {wires[r] : r \in {q \in DOMAIN wires : wires[q] # NULL /\ q # s}}
                               \cup ({w} \ {NULL})
  BY <1>1, PutIsLocal
<1>3. w = [name |-> mgr.names[s], type |-> t]
  BY <1>2, AnswerIs DEF w
<1>4. Sound(mgr) /\ Distinct(mgr)
  BY DEF GatesInv
<1>5. w \in PortsOf(mgr)
  BY <1>2, <1>3, <1>4, PortIsHeld
<1>6. w # NULL
  BY <1>5, GatesAssumption DEF MapInv
<1>7. s \in DOMAIN wires => wires[s] = NULL
  BY <1>1, <1>2
<1>8. OfWires(wires') = OfWires(wires) \cup {w}
  BY <1>2, <1>6, <1>7 DEF OfWires
<1>9. ASSUME NEW r \in DOMAIN wires, wires[r] # NULL PROVE wires[r] # w
  <2>1. r \in DOMAIN mgr.names \ FreeSlots(mgr) /\ mgr.names[r] = wires[r].name
    BY <1>9, WireIsUsed
  <2>2. r # s
    BY <1>7, <1>9
  <2>3. mgr.names[r] # mgr.names[s]
    BY <1>4, <2>1, <2>2 DEF Distinct
  <2> QED
    BY <1>3, <2>1, <2>3
<1>10. w \notin OfWires(wires)
  BY <1>9 DEF OfWires
<1> QED
  BY <1>5, <1>8, <1>10

LEMMA WireIsDetached ==
  ASSUME GatesInv, Distinct(mgr), MapInv, NEW t \in Types, NEW k \in Nat, UnwirePort(t, k)
  PROVE  \E p \in OfWires(wires) : OfWires(wires') = OfWires(wires) \ {p}
<1>1. Put(t, k, NULL) /\ made /\ Answer(t, k).wire # NULL
  BY DEF UnwirePort
<1>2. PICK s \in DOMAIN mgr.names \ FreeSlots(mgr) :
        /\ Answer(t, k).wire = IF s \in DOMAIN wires THEN wires[s] ELSE NULL
        /\ OfWires(wires') = {wires[r] : r \in {q \in DOMAIN wires : wires[q] # NULL /\ q # s}}
                               \cup ({NULL} \ {NULL})
  BY <1>1, PutIsLocal
<1>3. s \in DOMAIN wires /\ wires[s] # NULL
  BY <1>1, <1>2
<1>4. ASSUME NEW r \in DOMAIN wires, wires[r] # NULL, r # s PROVE wires[r] # wires[s]
  <2>1. r \in DOMAIN mgr.names \ FreeSlots(mgr) /\ mgr.names[r] = wires[r].name
    BY <1>4, WireIsUsed
  <2>2. mgr.names[s] = wires[s].name
    BY <1>3, WireIsUsed
  <2> QED
    BY <1>2, <1>4, <2>1, <2>2 DEF Distinct
<1>5. wires[s] \in OfWires(wires)
  BY <1>3 DEF OfWires
<1>6. OfWires(wires') = OfWires(wires) \ {wires[s]}
  BY <1>2, <1>4 DEF OfWires
<1> QED
  BY <1>5, <1>6

LEMMA KindStays == [Next]_vars => kind' = kind
BY DEF Next, vars, AddBehaviorPort, CreateGate, WirePort, UnwirePort, Put, AddInputPort,
       AddOutputPort, ClearConstant, SelectConstant, SelectFamily

LEMMA MapStep ==
  ASSUME GatesInv, Distinct(mgr), MapInv, MapInv', [Next]_vars, HasNamesOfItsOwn
  PROVE  [Map!Next]_(Map!vars)
<1> DEFINE Same == /\ NamedPorts = PortsOf(mgr) /\ NamedPorts' = PortsOf(mgr')
                   /\ NamedWired = WiredPorts(mgr, wires)
                   /\ NamedWired' = WiredPorts(mgr', wires')
<1>s. Same
  BY KindStays DEF NamedPorts, NamedWired, HasNamesOfItsOwn
<1> HIDE DEF Same
<1>0. \A k \in Indices : k \in Nat
  BY ManagerLengths DEF Indices, GatesInv
<1>1. ASSUME OfWires(wires') = OfWires(wires)
      PROVE  Map!Change
  <2>1. PortsOf(mgr') \in SUBSET [name : Names, type : Types]
    BY DEF MapInv
  <2>2. Map!OwnNames(PortsOf(mgr'))
    BY DEF MapInv, Map!OwnNames
  <2>3. WiredPorts(mgr', wires') = WiredPorts(mgr, wires)
    BY <1>1 DEF MapInv
  <2>4. WiredPorts(mgr, wires) \subseteq PortsOf(mgr')
    BY <1>1 DEF MapInv
  <2> QED
    BY <1>s, <2>1, <2>2, <2>3, <2>4 DEF Map!Change, Same
<1>2. CASE UNCHANGED wires
  <2>1. OfWires(wires') = OfWires(wires)
    BY <1>2
  <2> QED
    BY <1>1, <2>1 DEF Map!Next
<1>3. CASE CreateGate
  <2>1. wires = <<>> /\ wires' = [s \in 1 .. Count(mgr) |-> NULL]
    BY <1>3 DEF CreateGate, GatesInv, ArrayFits
  <2>2. OfWires(wires) = {} /\ OfWires(wires') = {}
    BY <2>1, EmptySeq DEF OfWires
  <2> QED
    BY <1>1, <2>2 DEF Map!Next
<1>4. ASSUME NEW t \in Types, NEW k \in Indices, WirePort(t, k)
      PROVE  Map!Attach
  <2>1. mgr' = mgr
    BY <1>4 DEF WirePort, Put
  <2>2. PICK p \in PortsOf(mgr) \ OfWires(wires) : OfWires(wires') = OfWires(wires) \cup {p}
    BY <1>0, <1>4, WireIsAttached
  <2>3. /\ WiredPorts(mgr, wires) = OfWires(wires) /\ WiredPorts(mgr', wires') = OfWires(wires')
        /\ PortsOf(mgr') = PortsOf(mgr)
    BY <2>1 DEF MapInv
  <2> QED
    BY <1>s, <2>2, <2>3 DEF Map!Attach, Same
<1>5. ASSUME NEW t \in Types, NEW k \in Indices, UnwirePort(t, k)
      PROVE  Map!Detach
  <2>1. mgr' = mgr
    BY <1>5 DEF UnwirePort, Put
  <2>2. PICK p \in OfWires(wires) : OfWires(wires') = OfWires(wires) \ {p}
    BY <1>0, <1>5, WireIsDetached
  <2>3. /\ WiredPorts(mgr, wires) = OfWires(wires) /\ WiredPorts(mgr', wires') = OfWires(wires')
        /\ PortsOf(mgr') = PortsOf(mgr)
    BY <2>1 DEF MapInv
  <2> QED
    BY <1>s, <2>2, <2>3 DEF Map!Detach, Same
<1>6. \/ UNCHANGED wires
      \/ CreateGate
      \/ \E t \in Types, k \in Indices : WirePort(t, k) \/ UnwirePort(t, k)
  BY DEF Next, vars, AddBehaviorPort, AddInputPort, AddOutputPort, ClearConstant,
         SelectConstant, SelectFamily
<1> QED
  BY <1>2, <1>3, <1>4, <1>5, <1>6 DEF Map!Next

\* Where each added name is looked for or comes of a behavior's list, ports have
\* names of their own.
LEMMA NamesStayOwn == GatesInv /\ HasNamesOfItsOwn => Distinct(mgr)
BY DEF GatesInv, NamesAreOwn, HasNamesOfItsOwn

\* For any names, types and lists of a behavior's ports, and every kind of gate but
\* the outputs of a Java bridge gate, whose names nobody looks for: a gate's ports
\* behave as a set of named ports, and those that are wired stay as they are
\* (struct lxc_port_manager and the array of wires, through every call that changes
\* them).
THEOREM PortsImplementMap == Spec => PortsLikeAMap
<1>1. Init => Map!Init
  <2> SUFFICES ASSUME Init PROVE Map!Init
    OBVIOUS
  <2>1. mgr = NoPorts /\ wires = <<>> /\ DOMAIN <<>> = {}
    BY EmptySeq DEF Init
  <2>2. PortsOf(mgr) = {}
    BY <2>1 DEF PortsOf, NoPorts
  <2>3. WiredPorts(mgr, wires) = {}
    BY <2>2 DEF WiredPorts
  <2> QED
    BY <2>2, <2>3 DEF Map!Init, NamedPorts, NamedWired
<1>2. GatesInv /\ HasNamesOfItsOwn => MapInv
  BY NamesStayOwn, GatesMap
<1>3. GatesInv /\ GatesInv' /\ [Next]_vars => [Map!Next]_(Map!vars)
  <2> SUFFICES ASSUME GatesInv, GatesInv', [Next]_vars PROVE [Map!Next]_(Map!vars)
    OBVIOUS
  <2>1. HasNamesOfItsOwn' <=> HasNamesOfItsOwn
    BY KindStays DEF HasNamesOfItsOwn
  <2>2. CASE HasNamesOfItsOwn
    <3>1. MapInv /\ Distinct(mgr)
      BY <1>2, <2>2, NamesStayOwn
    <3>2. (GatesInv /\ HasNamesOfItsOwn => MapInv)'
      BY <1>2, PTL
    <3> QED
      BY <2>1, <2>2, <3>1, <3>2, MapStep
  <2>3. CASE ~HasNamesOfItsOwn
    BY <2>1, <2>3 DEF NamedPorts, NamedWired, Map!vars
  <2> QED
    BY <2>2, <2>3
<1> QED
  BY <1>1, <1>3, GatesAlways, PTL DEF Spec, PortsLikeAMap, Map!Spec
-----------------------------------------------------------------------------
(* Ports by their names.                                                    *)

\* Induction over the steps of a loop, for the set of those at which all is well.
LEMMA Steps ==
  ASSUME NEW n \in Nat, NEW S, 0 \in S, \A k \in 1 .. n : k - 1 \in S => k \in S
  PROVE  \A k \in 0 .. n : k \in S
<1> DEFINE Bad == {k \in 0 .. n : k \notin S}
<1>1. SUFFICES ASSUME Bad # {} PROVE FALSE
  OBVIOUS
<1>2. Bad \subseteq Nat /\ \A k \in 0 .. n : k \notin Bad => k \in S
  OBVIOUS
<1>3. Least(Bad) \in Bad /\ \A k \in Bad : Least(Bad) <= k
  BY <1>1, <1>2, LeastIsFound
<1> DEFINE m == Least(Bad)
<1> HIDE DEF m
<1>4. m \in 1 .. n /\ m - 1 \in 0 .. n /\ m \notin S
  <2>1. m \in 0 .. n /\ m \notin S
    BY <1>3 DEF m
  <2>2. m # 0
    BY <2>1
  <2>3. QED
    BY <2>1, <2>2
<1>5. m - 1 \notin Bad
  <2>1. ~(m <= m - 1)
    BY <1>4
  <2>2. QED
    BY <1>3, <2>1 DEF m
<1>6. m - 1 \in S
  BY <1>2, <1>4, <1>5
<1>7. QED
  BY <1>4, <1>6

\* One array after the other.
LEMMA FlattenLoop ==
  ASSUME NEW seqs, Len(seqs) \in Nat, Len(seqs) # 0
  PROVE  \E flat : /\ flat[1] = seqs[1]
                   /\ \A i \in 2 .. Len(seqs) : flat[i] = flat[i - 1] \o seqs[i]
                   /\ FlattenSeq(seqs) = flat[Len(seqs)]
<1> DEFINE L == Len(seqs)
           On(a, i) == a \o seqs[i]
           Is(f, k) == f = [i \in 1 .. k |-> IF i = 1 THEN seqs[i] ELSE On(f[i - 1], i)]
           S == {k \in 0 .. L : \E f : Is(f, k)}
           flat == CHOOSE f : Is(f, L)
<1>1. 0 \in S
  <2> DEFINE g == [i \in 1 .. 0 |-> seqs[i]]
  <2>1. Is(g, 0)
    OBVIOUS
  <2> HIDE DEF g, Is
  <2>2. QED
    BY <2>1
<1>2. ASSUME NEW k \in 1 .. L, k - 1 \in S PROVE k \in S
  <2>1. PICK f : Is(f, k - 1)
    BY <1>2
  <2> DEFINE g == [i \in 1 .. k |-> IF i = k THEN (IF k = 1 THEN seqs[k] ELSE On(f[k - 1], k)) ELSE f[i]]
  <2> HIDE DEF On
  <2>2. Is(g, k)
    BY <2>1
  <2> HIDE DEF g, Is
  <2>3. QED
    BY <2>2
<1>3. L \in S
  <2> HIDE DEF S
  <2>1. \A k \in 0 .. L : k \in S
    BY <1>1, <1>2, Steps
  <2>2. QED
    BY <2>1
<1>4. Is(flat, L)
  BY <1>3
<1>5. FlattenSeq(seqs) = flat[L]
  BY DEF FlattenSeq
<1> HIDE DEF flat, On
<1>6. flat[1] = seqs[1] /\ \A i \in 2 .. L : flat[i] = On(flat[i - 1], i)
  BY <1>4
<1>7. QED
  BY <1>5, <1>6 DEF On

\* What a gate answers for the labels of a type are the names at its indices.
LEMMA LabelsAre ==
  ASSUME Sound(mgr), NEW ti \in DOMAIN mgr.types
  PROVE  LET a == mgr.to_abs[ti]
             labels == LabelsOf(mgr.types[ti])
         IN  /\ labels \in Seq(Names \cup {EMPTY}) /\ Len(labels) = Len(a) /\ DOMAIN labels = 1 .. Len(a)
             /\ \A k \in 1 .. Len(a) :
                  /\ a[k] + 1 \in DOMAIN mgr.names \ FreeSlots(mgr) /\ a[k] \in Nat
                  /\ labels[k] = mgr.names[a[k] + 1]
                  /\ AbsIndex(mgr, mgr.types[ti], k - 1) = a[k]
<1> DEFINE a == mgr.to_abs[ti]
           t == mgr.types[ti]
           labels == LabelsOf(t)
           L == Len(a)
<1>1. Parts(mgr) /\ Corresponds(mgr)
  BY SoundParts DEF Sound
<1>2. /\ ti \in 1 .. Len(mgr.types) /\ ti \in Nat /\ L \in Nat /\ DOMAIN a = 1 .. L
      /\ \A k \in 1 .. L : a[k] \in Nat
  BY <1>1 DEF Parts
<1>3. TypeIndex(mgr, t) = ti /\ IsManaged(mgr, t)
  <2>1. \A tj \in DOMAIN mgr.types : mgr.types[tj] = t => tj = ti
    BY <1>1 DEF Corresponds
  <2> HIDE DEF t
  <2>2. t = mgr.types[ti]
    BY DEF t
  <2>3. QED
    BY <1>2, <2>1, <2>2, TypeOfOne
<1> HIDE DEF t
<1>4. TypeMaxIndex(mgr, t) = L
  BY <1>3 DEF TypeMaxIndex
<1>5. ASSUME NEW k \in 1 .. L PROVE AbsIndex(mgr, t, k - 1) = a[k]
  <2>1. k - 1 < L /\ (k - 1) + 1 = k
    BY <1>2
  <2>2. QED
    BY <1>3, <1>4, <2>1 DEF AbsIndex
<1>6. \A k \in 1 .. L : a[k] + 1 \in DOMAIN mgr.names \ FreeSlots(mgr)
  BY <1>1, <1>2 DEF Corresponds
<1>7. ASSUME NEW k \in 1 .. L PROVE Answer(t, k - 1).label = mgr.names[a[k] + 1]
  <2>1. Answer(t, k - 1).label = Label(mgr, t, k - 1, NULL)
    BY AnswerIs
  <2> DEFINE x == a[k]
  <2>2. x \in Nat /\ AbsIndex(mgr, t, k - 1) = x
    BY <1>2, <1>5
  <2> HIDE DEF x
  <2>3. Label(mgr, t, k - 1, NULL) = mgr.names[x + 1]
    BY <2>2 DEF Label
  <2>4. QED
    BY <2>1, <2>3 DEF x
<1>8. labels = [k \in 1 .. L |-> Answer(t, k - 1).label]
  <2>1. Answer(t, 0).max = L
    BY <1>4, AnswerIs
  <2>2. QED
    BY <2>1 DEF LabelsOf
<1> HIDE DEF labels, a, L
<1>9. \A k \in 1 .. L : labels[k] = mgr.names[a[k] + 1]
  BY <1>7, <1>8
<1>10. labels \in [1 .. L -> Names \cup {EMPTY}]
  <2>1. \A s \in DOMAIN mgr.names : mgr.names[s] \in Names \cup {EMPTY}
    BY <1>1, ElementOfSeq DEF Parts
  <2>2. \A k \in 1 .. L : Answer(t, k - 1).label \in Names \cup {EMPTY}
    BY <1>6, <1>7, <2>1
  <2>3. QED
    BY <1>8, <2>2
<1>11. labels \in Seq(Names \cup {EMPTY}) /\ Len(labels) = L
  <2> DEFINE V == Names \cup {EMPTY}
  <2>1. labels \in [1 .. L -> V] /\ L \in Nat
    BY <1>2, <1>10
  <2> HIDE DEF V
  <2>2. labels \in Seq(V) /\ Len(labels) = L
    BY <2>1, SeqDef
  <2>3. QED
    BY <2>2 DEF V
<1>12. QED
  BY <1>2, <1>5, <1>6, <1>9, <1>10, <1>11 DEF a, t, labels, L

\* A name leads to the port that has it.
LEMMA PortIsFound ==
  ASSUME Sound(mgr), Distinct(mgr), NEW s \in DOMAIN mgr.names \ FreeSlots(mgr)
  PROVE  LET port == PortByName(mgr.names[s])
         IN  port # NULL /\ AbsIndex(mgr, port.type, port.index) = s - 1
<1> DEFINE n == mgr.names[s]
           T == DOMAIN mgr.types
           labels(ti) == LabelsOf(mgr.types[ti])
           has(ti) == {k \in DOMAIN labels(ti) : labels(ti)[k] = n}
           found == {ti \in T : has(ti) # {}}
           i == Least(found)
           j == Least(has(i))
<1>1. Parts(mgr) /\ Corresponds(mgr)
  BY SoundParts DEF Sound
<1>2. /\ T \subseteq Nat /\ DOMAIN mgr.names \subseteq Nat
      /\ \A ti \in T : DOMAIN mgr.to_abs[ti] = 1 .. Len(mgr.to_abs[ti])
  BY <1>1 DEF Parts
<1>3. PICK ti \in T : \E k \in DOMAIN mgr.to_abs[ti] : mgr.to_abs[ti][k] + 1 = s
  BY <1>1 DEF Corresponds
<1>4. PICK k \in 1 .. Len(mgr.to_abs[ti]) : mgr.to_abs[ti][k] + 1 = s
  BY <1>2, <1>3
<1>5. \A tj \in T : DOMAIN labels(tj) \subseteq Nat
  <2>1. \A tj \in T : DOMAIN labels(tj) = 1 .. Len(mgr.to_abs[tj])
    BY LabelsAre
  <2>2. QED
    BY <2>1
<1>6. k \in has(ti) /\ found \subseteq Nat /\ found # {}
  <2>1. k \in DOMAIN labels(ti) /\ labels(ti)[k] = n
    BY <1>3, <1>4, LabelsAre
  <2> HIDE DEF labels, n
  <2>2. k \in has(ti)
    BY <2>1
  <2>3. QED
    BY <1>2, <2>2
<1> HIDE DEF labels, n
<1>7. i \in found
  <2> HIDE DEF found
  <2>1. QED
    BY <1>6, LeastIsFound
<1>8. i \in T /\ has(i) # {}
  BY <1>7
<1> HIDE DEF i
<1>9. j \in has(i)
  <2>1. has(i) \subseteq Nat
    BY <1>5, <1>8
  <2> HIDE DEF has
  <2>2. QED
    BY <1>8, <2>1, LeastIsFound
<1> DEFINE t == mgr.types[i]
           a == mgr.to_abs[i]
           port == PortByName(n)
<1>10. port = [type |-> t, index |-> j - 1]
  <2>1. found # {}
    BY <1>6
  <2>2. port = IF found = {} THEN NULL ELSE [type |-> mgr.types[i], index |-> j - 1]
    BY DEF PortByName, FirstPort, AnsweredTypes, labels, i
  <2>3. QED
    BY <2>1, <2>2
<1> HIDE DEF j
<1>11. j \in DOMAIN labels(i) /\ labels(i)[j] = n
  BY <1>9
<1>12. /\ j \in 1 .. Len(a) /\ a[j] \in Nat /\ a[j] + 1 \in DOMAIN mgr.names \ FreeSlots(mgr)
       /\ n = mgr.names[a[j] + 1] /\ AbsIndex(mgr, t, j - 1) = a[j]
  <2>1. j \in 1 .. Len(a)
    BY <1>8, <1>11, LabelsAre DEF labels
  <2>2. QED
    BY <1>8, <1>11, <2>1, LabelsAre DEF labels
<1>13. a[j] + 1 = s
  BY <1>12 DEF Distinct, n
<1> HIDE DEF port, t, a
<1>14. port.type = t /\ port.index = j - 1 /\ port \in [type : Types, index : Nat]
  <2>1. t \in Types
    BY <1>1, <1>8, ElementOfSeq DEF Parts, t
  <2>2. j - 1 \in Nat
    BY <1>12
  <2>3. QED
    BY <1>10, <2>1, <2>2
<1>15. port # NULL
  BY <1>14, GatesAssumption
<1>16. s - 1 = a[j]
  BY <1>2, <1>12, <1>13
<1>17. QED
  BY <1>12, <1>14, <1>15, <1>16 DEF port, n

\* The places of the ports of the first types, ...
PlacesOf(ti) == {mgr.to_abs[ti][k] + 1 : k \in DOMAIN mgr.to_abs[ti]}
PlacesOfFirst(n) == {s \in DOMAIN mgr.names \ FreeSlots(mgr) : \E ti \in 1 .. n : s \in PlacesOf(ti)}

\* ... of which a type has as many as indices.
LEMMA PlacesAreIndices ==
  ASSUME Sound(mgr), NEW ti \in DOMAIN mgr.types
  PROVE  /\ IsFiniteSet(PlacesOf(ti)) /\ Cardinality(PlacesOf(ti)) = Len(mgr.to_abs[ti])
         /\ PlacesOf(ti) \subseteq DOMAIN mgr.names \ FreeSlots(mgr)
<1> DEFINE a == mgr.to_abs[ti]
           L == Len(a)
           f == [k \in 1 .. L |-> a[k] + 1]
<1>1. Parts(mgr) /\ Corresponds(mgr)
  BY SoundParts DEF Sound
<1>2. L \in Nat /\ DOMAIN a = 1 .. L /\ \A k \in 1 .. L : a[k] \in Nat
  BY <1>1 DEF Parts
<1>3. \A k, l \in 1 .. L : a[k] = a[l] => k = l
  BY <1>1, <1>2 DEF Corresponds
<1>4. PlacesOf(ti) \subseteq DOMAIN mgr.names \ FreeSlots(mgr)
  BY <1>1 DEF Corresponds, PlacesOf
<1>5. PlacesOf(ti) = {f[k] : k \in 1 .. L}
  BY <1>2 DEF PlacesOf
<1> HIDE DEF a, L
<1>6. f \in Bijection(1 .. L, PlacesOf(ti))
  <2>1. f \in [1 .. L -> PlacesOf(ti)]
    BY <1>5
  <2>2. \A k, l \in 1 .. L : f[k] = f[l] => k = l
    BY <1>2, <1>3
  <2>3. DOMAIN f = 1 .. L
    OBVIOUS
  <2> HIDE DEF f
  <2>4. QED
    BY <1>5, <2>1, <2>2, <2>3 DEF Bijection, Injection, Surjection, IsInjective
<1> HIDE DEF f
<1>7. IsFiniteSet(1 .. L) /\ Cardinality(1 .. L) = L
  BY <1>2, FS_Interval
<1>8. ExistsBijection(1 .. L, PlacesOf(ti))
  BY <1>6 DEF ExistsBijection
<1>9. IsFiniteSet(PlacesOf(ti)) /\ Cardinality(PlacesOf(ti)) = L
  BY <1>7, <1>8, FS_Bijection
<1>10. QED
  BY <1>4, <1>9 DEF L, a

\* The enumeration has as many labels as there are ports.
LEMMA LabelsAreCounted ==
  ASSUME Sound(mgr)
  PROVE  Len(Labels) = Count(mgr) - Cardinality(FreeSlots(mgr))
<1> DEFINE T == Len(mgr.types)
           V == Names \cup {EMPTY}
           seqs == [ti \in DOMAIN mgr.types |-> LabelsOf(mgr.types[ti])]
           Used == DOMAIN mgr.names \ FreeSlots(mgr)
<1>1. Parts(mgr) /\ Corresponds(mgr) /\ Count(mgr) \in Nat /\ DOMAIN mgr.names = 1 .. Count(mgr)
  BY SoundParts, ManagerLengths DEF Sound
<1>2. T \in Nat /\ DOMAIN mgr.types = 1 .. T
  BY <1>1 DEF Parts
<1>3. Labels = FlattenSeq(seqs)
  BY DEF Labels, AnsweredTypes
<1>4. \A ti \in 1 .. T : seqs[ti] \in Seq(V) /\ Len(seqs[ti]) = Len(mgr.to_abs[ti])
  BY <1>2, LabelsAre
<1>5. Len(seqs) = T
  BY <1>2
<1> HIDE DEF T, V, seqs
<1>6. \A ti \in 1 .. T : /\ IsFiniteSet(PlacesOf(ti)) /\ Cardinality(PlacesOf(ti)) = Len(seqs[ti])
                         /\ PlacesOf(ti) \subseteq Used
  BY <1>2, <1>4, PlacesAreIndices
<1>7. PlacesOfFirst(0) = {} /\ PlacesOfFirst(T) = Used
  <2>1. ASSUME NEW s \in Used PROVE \E ti \in 1 .. T : s \in PlacesOf(ti)
    BY <1>1, <1>2 DEF Corresponds, PlacesOf
  <2> HIDE DEF Used
  <2>2. PlacesOfFirst(T) = Used
    BY <2>1 DEF PlacesOfFirst, Used
  <2>3. PlacesOfFirst(0) = {}
    BY DEF PlacesOfFirst
  <2>4. QED
    BY <2>2, <2>3
<1>8. ASSUME NEW ti \in 1 .. T
      PROVE  /\ PlacesOfFirst(ti) = PlacesOfFirst(ti - 1) \cup PlacesOf(ti)
             /\ PlacesOfFirst(ti - 1) \cap PlacesOf(ti) = {}
  <2>1. \A tj \in 1 .. ti : tj \in 1 .. ti - 1 \/ tj = ti
    BY <1>2
  <2>2. ti \in 1 .. ti /\ \A tj \in 1 .. ti - 1 : tj \in 1 .. ti /\ tj # ti /\ tj \in 1 .. T
    BY <1>2
  <2>3. PlacesOfFirst(ti) = PlacesOfFirst(ti - 1) \cup PlacesOf(ti)
    BY <1>6, <2>1, <2>2 DEF PlacesOfFirst
  <2>4. ASSUME NEW tj \in 1 .. ti - 1, NEW s \in PlacesOf(tj), s \in PlacesOf(ti) PROVE FALSE
    <3>1. PICK k \in DOMAIN mgr.to_abs[tj] : s = mgr.to_abs[tj][k] + 1
      BY DEF PlacesOf
    <3>2. PICK l \in DOMAIN mgr.to_abs[ti] : s = mgr.to_abs[ti][l] + 1
      BY <2>4 DEF PlacesOf
    <3>3. tj \in 1 .. Len(mgr.types) /\ ti \in 1 .. Len(mgr.types)
      BY <2>2 DEF T
    <3>4. mgr.to_abs[tj][k] \in Nat /\ mgr.to_abs[ti][l] \in Nat
      BY <1>1, <3>1, <3>2, <3>3 DEF Parts
    <3>5. mgr.to_abs[tj][k] = mgr.to_abs[ti][l]
      BY <3>1, <3>2, <3>4
    <3>6. tj = ti
      BY <1>1, <1>2, <2>2, <3>1, <3>2, <3>5 DEF Corresponds
    <3>7. QED
      BY <2>2, <3>6
  <2>5. QED
    BY <2>3, <2>4 DEF PlacesOfFirst
<1>9. Cardinality(Used) = Count(mgr) - Cardinality(FreeSlots(mgr))
  <2>1. IsFiniteSet(DOMAIN mgr.names) /\ Cardinality(DOMAIN mgr.names) = Count(mgr)
    BY <1>1, FS_Interval
  <2>2. DOMAIN mgr.names \cap FreeSlots(mgr) = FreeSlots(mgr)
    BY DEF FreeSlots
  <2>3. QED
    BY <2>1, <2>2, FS_Difference
<1> HIDE DEF Used
<1>10. CASE T = 0
  <2>1. Labels = seqs
    BY <1>3, <1>5, <1>10 DEF FlattenSeq
  <2>2. Cardinality(Used) = 0
    BY <1>7, <1>10, FS_EmptySet
  <2>3. QED
    BY <1>5, <1>9, <1>10, <2>1, <2>2
<1>11. CASE T # 0
  <2>1. PICK flat : /\ flat[1] = seqs[1]
                    /\ \A i \in 2 .. T : flat[i] = flat[i - 1] \o seqs[i]
                    /\ FlattenSeq(seqs) = flat[T]
    BY <1>2, <1>5, <1>11, FlattenLoop
  <2> DEFINE Good(k) == /\ IsFiniteSet(PlacesOfFirst(k))
                        /\ k > 0 => flat[k] \in Seq(V) /\ Len(flat[k]) = Cardinality(PlacesOfFirst(k))
             S == {k \in 0 .. T : Good(k)}
  <2>2. 0 \in S
    BY <1>2, <1>7, FS_EmptySet
  <2>3. ASSUME NEW k \in 1 .. T, k - 1 \in S PROVE k \in S
    <3> DEFINE P == PlacesOfFirst(k - 1)
               Q == PlacesOf(k)
    <3>1. IsFiniteSet(P) /\ IsFiniteSet(Q) /\ P \cap Q = {} /\ PlacesOfFirst(k) = P \cup Q
      BY <1>6, <1>8, <2>3
    <3>2. IsFiniteSet(P \cup Q) /\ Cardinality(P \cup Q) = Cardinality(P) + Cardinality(Q)
      <4> HIDE DEF P, Q
      <4>1. Cardinality(P \cap Q) = 0 /\ Cardinality(P) \in Nat /\ Cardinality(Q) \in Nat
        BY <3>1, FS_EmptySet, FS_CardinalityType
      <4>2. QED
        BY <3>1, <4>1, FS_Union
    <3>3. seqs[k] \in Seq(V) /\ Len(seqs[k]) = Cardinality(Q)
      BY <1>4, <1>6
    <3>4. flat[k] \in Seq(V) /\ Len(flat[k]) = Cardinality(P) + Cardinality(Q)
      <4>1. CASE k = 1
        <5>1. Cardinality(P) = 0
          BY <1>7, <4>1, FS_EmptySet
        <5>2. flat[k] = seqs[k]
          BY <2>1, <4>1
        <5>3. Len(seqs[k]) \in Nat
          BY <3>3
        <5> HIDE DEF P, Q
        <5>4. QED
          BY <3>3, <5>1, <5>2, <5>3
      <4>2. CASE k # 1
        <5>1. k \in 2 .. T /\ k - 1 > 0
          BY <4>2
        <5>2. flat[k] = flat[k - 1] \o seqs[k]
          BY <2>1, <5>1
        <5>3. flat[k - 1] \in Seq(V) /\ Len(flat[k - 1]) = Cardinality(P)
          BY <2>3, <5>1
        <5> DEFINE a == flat[k - 1]
                   c == seqs[k]
        <5> HIDE DEF P, Q, a, c
        <5>4. a \o c \in Seq(V) /\ Len(a \o c) = Len(a) + Len(c)
          BY <3>3, <5>3, ConcatProperties DEF a, c
        <5>5. QED
          BY <3>3, <5>2, <5>3, <5>4 DEF a, c
      <4>3. QED
        BY <4>1, <4>2
    <3> HIDE DEF P, Q
    <3>5. Good(k) /\ k \in 0 .. T
      BY <1>2, <3>1, <3>2, <3>4
    <3> HIDE DEF Good
    <3>6. QED
      BY <3>5
  <2>4. T \in S
    <3> HIDE DEF S
    <3>1. \A k \in 0 .. T : k \in S
      BY <1>2, <2>2, <2>3, Steps
    <3>2. QED
      BY <1>2, <3>1
  <2>5. Len(flat[T]) = Cardinality(Used)
    BY <1>2, <1>7, <1>11, <2>4
  <2>6. QED
    BY <1>3, <1>9, <2>1, <2>5
<1>12. QED
  BY <1>10, <1>11

\* The ports of every kind of gate but a Java bridge gate's outputs are found by
\* their names, for any names, types and lists of a behavior's ports:
\* lxc_gate_get_portinfo_by_name answers the type and index of the place that has
\* the name, and the enumeration has a label for each port.
THEOREM NamesAlwaysLeadToPorts == Spec => []NamesLeadToPorts
<1>1. GatesInv => NamesLeadToPorts
  BY NamesStayOwn, PortIsFound, LabelsAreCounted DEF GatesInv, NamesLeadToPorts
<1>2. QED
  BY <1>1, GatesAlways, PTL

\* The index addInputPort returns, at which it keeps the callback, is that of the
\* port it added, for any names and types (JavaBridgeGate.java; its outputs, whose
\* names nobody looks for, are left out).
THEOREM InputsAreReturned == Spec => ReturnsTheNewPort
<1>1. ASSUME GatesInv, NEW n \in Names, NEW t \in Types, AddInputPort(n, t)
      PROVE  AbsIndexByName(mgr', n) = SlotForNew(mgr) - 1
  <2>1. mgr' = AddPort(mgr, n, t) /\ ~InUse(mgr, n)
    BY <1>1 DEF GatesInv, TypeOK, AddInputPort, NameIsNew
  <2> DEFINE slot == SlotForNew(mgr)
  <2>2. Added(mgr, WithType(mgr, t), TypeIndex(WithType(mgr, t), t), slot, mgr', n, t)
    BY <1>1, <2>1, AddPortParts DEF GatesInv
  <2> HIDE DEF slot
  <2>3. /\ DOMAIN mgr'.names = DOMAIN mgr.names \cup {slot}
        /\ mgr'.names[slot] = n
        /\ \A r \in DOMAIN mgr.names \ {slot} : mgr'.names[r] = mgr.names[r]
        /\ mgr'.names \in Seq(Names \cup {EMPTY})
    BY <2>2 DEF Added
  <2>4. {s \in DOMAIN mgr'.names : mgr'.names[s] = n} = {slot}
    BY <2>1, <2>3 DEF InUse
  <2>5. slot \in Nat
    BY <2>3, LenProperties
  <2>6. Least({slot}) = slot
    BY <2>5, LeastIsFound
  <2>7. QED
    BY <2>4, <2>6 DEF AbsIndexByName, slot
<1>2. GatesInv /\ [Next]_vars =>
        [\A n \in Names, t \in Types :
           AddInputPort(n, t) => AbsIndexByName(mgr', n) = SlotForNew(mgr) - 1]_vars
  BY <1>1
<1>3. QED
  BY <1>2, GatesAlways, PTL DEF Spec, ReturnsTheNewPort
=============================================================================
