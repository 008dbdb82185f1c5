--------------------------- MODULE SequenceFacts ---------------------------
(***************************************************************************)
(* Induction over numbers, and what follows for sequences: lemmas that the *)
(* proofs about several components cite.                                   *)
(***************************************************************************)
EXTENDS Integers, Sequences, FiniteSets, SequencesExt, FiniteSetTheorems,
        SequenceTheorems, WellFoundedInduction, TLAPS

-----------------------------------------------------------------------------
(***************************************************************************)
(* Induction.  The natural numbers have a least element in every set of    *)
(* them because the finite sets are well-founded; induction over a set of  *)
(* numbers follows.                                                        *)
(***************************************************************************)

LEMMA LeastOfNats ==
  ASSUME NEW S, S \subseteq Nat, S # {}
  PROVE  \E m \in S : \A n \in S : m <= n
<1> DEFINE T == {1 .. n : n \in S}
<1>1. T \subseteq FiniteSubsetsOf(Nat)
  <2> SUFFICES ASSUME NEW n \in S PROVE 1 .. n \in SUBSET Nat /\ IsFiniteSet(1 .. n)
    BY DEF FiniteSubsetsOf
  <2> QED
    BY FS_Interval
<1>2. T # {}
  OBVIOUS
<1>3. PICK x \in T : \A y \in T : ~(<<y, x>> \in StrictSubsetOrdering(Nat))
  <2> HIDE DEF T
  <2> QED
    BY <1>1, <1>2, FS_StrictSubsetOrderingWellFounded, WFMin, Zenon
<1>4. PICK m \in S : x = 1 .. m
  OBVIOUS
<1>5. \A n \in S : m <= n
  <2> SUFFICES ASSUME NEW n \in S, n < m PROVE FALSE
    OBVIOUS
  <2>1. 1 .. n \in SUBSET Nat /\ 1 .. m \in SUBSET Nat
    OBVIOUS
  <2>2. 1 .. n \subseteq 1 .. m
    OBVIOUS
  <2>3. m \in 1 .. m /\ m \notin 1 .. n
    OBVIOUS
  <2>4. <<1 .. n, x>> \in StrictSubsetOrdering(Nat)
    BY <2>1, <2>2, <2>3, <1>4 DEF StrictSubsetOrdering
  <2> QED
    BY <1>3, <2>4
<1> QED
  BY <1>5

LEMMA NatSetInduction ==
  ASSUME NEW S, 0 \in S, \A n \in Nat : n \in S => n + 1 \in S
  PROVE  Nat \subseteq S
<1> SUFFICES ASSUME Nat \ S # {} PROVE FALSE
  OBVIOUS
<1>1. PICK m \in Nat \ S : \A n \in Nat \ S : m <= n
  BY LeastOfNats
<1>2. m - 1 \in Nat
  BY <1>1
<1>3. m - 1 \in S
  BY <1>1, <1>2
<1> QED
  BY <1>1, <1>2, <1>3

-----------------------------------------------------------------------------
(***************************************************************************)
(* FlattenSeq.  f holds the concatenations of the first n members of ss.   *)
(***************************************************************************)

IsFlat(f, ss, n) == f = [i \in 1 .. n |-> IF i = 1 THEN ss[i] ELSE f[i - 1] \o ss[i]]

LEMMA FlatStep ==
  ASSUME NEW f, NEW ss, NEW n, IsFlat(f, ss, n)
  PROVE  /\ \A i \in 1 .. n : f[i] = IF i = 1 THEN ss[i] ELSE f[i - 1] \o ss[i]
         /\ \A k \in Nat : k + 1 \in 1 .. n =>
              f[k + 1] = IF k + 1 = 1 THEN ss[k + 1] ELSE f[k] \o ss[k + 1]
<1>1. \A i \in 1 .. n : f[i] = IF i = 1 THEN ss[i] ELSE f[i - 1] \o ss[i]
  <2> TAKE i \in 1 .. n
  <2> DEFINE e(j) == IF j = 1 THEN ss[j] ELSE f[j - 1] \o ss[j]
  <2>1. f = [j \in 1 .. n |-> e(j)]
    BY DEF IsFlat
  <2> HIDE DEF e
  <2>2. f[i] = e(i)
    BY <2>1
  <2> QED
    BY <2>2 DEF e
<1>2. \A k \in Nat : (k + 1) - 1 = k
  OBVIOUS
<1> QED
  BY <1>1, <1>2, Zenon

LEMMA FlatExists ==
  ASSUME NEW ss, NEW n \in Nat
  PROVE  \E f : IsFlat(f, ss, n)
<1> DEFINE S == {k \in Nat : \E f : IsFlat(f, ss, k)}
<1>1. 0 \in S
  <2>1. PICK f : f = [i \in 1 .. 0 |-> 0]
    OBVIOUS
  <2>2. \A i : i \notin 1 .. 0
    OBVIOUS
  <2>3. f = [i \in 1 .. 0 |-> IF i = 1 THEN ss[i] ELSE f[i - 1] \o ss[i]]
    BY <2>1, <2>2
  <2> QED
    BY <2>3 DEF IsFlat
<1>2. ASSUME NEW k \in Nat, k \in S
      PROVE  k + 1 \in S
  <2>1. PICK f : IsFlat(f, ss, k)
    BY <1>2
  <2>2. PICK g : g = [i \in 1 .. k + 1 |-> IF i = 1 THEN ss[i] ELSE f[i - 1] \o ss[i]]
    OBVIOUS
  <2>3. \A i \in 1 .. k : g[i] = f[i]
    <3> TAKE i \in 1 .. k
    <3>1. f[i] = IF i = 1 THEN ss[i] ELSE f[i - 1] \o ss[i]
      BY <2>1, FlatStep
    <3>2. i \in 1 .. k + 1
      OBVIOUS
    <3>3. g[i] = IF i = 1 THEN ss[i] ELSE f[i - 1] \o ss[i]
      BY <2>2, <3>2, Zenon
    <3> QED
      BY <3>1, <3>3
  <2>4. \A i \in 1 .. k + 1 : i # 1 => g[i - 1] = f[i - 1]
    BY <2>3
  <2>5. g = [i \in 1 .. k + 1 |-> IF i = 1 THEN ss[i] ELSE g[i - 1] \o ss[i]]
    BY <2>2, <2>4
  <2>6. IsFlat(g, ss, k + 1)
    BY <2>5 DEF IsFlat
  <2> QED
    BY <2>6
<1>3. Nat \subseteq S
  <2> HIDE DEF S
  <2> QED
    BY <1>1, <1>2, NatSetInduction
<1> QED
  BY <1>3

LEMMA FlatAgrees ==
  ASSUME NEW ss, NEW tt, NEW n \in Nat, NEW m \in Nat, n <= m,
         \A i \in 1 .. n : ss[i] = tt[i],
         NEW f, IsFlat(f, ss, n), NEW g, IsFlat(g, tt, m)
  PROVE  \A i \in 1 .. n : f[i] = g[i]
<1> DEFINE S == {k \in Nat : k \in 1 .. n => f[k] = g[k]}
<1>1. 0 \in S
  OBVIOUS
<1>2. ASSUME NEW k \in Nat, k \in S
      PROVE  k + 1 \in S
  <2> SUFFICES ASSUME k + 1 \in 1 .. n PROVE f[k + 1] = g[k + 1]
    OBVIOUS
  <2>1. f[k + 1] = IF k + 1 = 1 THEN ss[k + 1] ELSE f[k] \o ss[k + 1]
    <3>1. k + 1 \in 1 .. n
      OBVIOUS
    <3> QED
      BY <3>1, FlatStep
  <2>2. g[k + 1] = IF k + 1 = 1 THEN tt[k + 1] ELSE g[k] \o tt[k + 1]
    <3>1. k + 1 \in 1 .. m
      OBVIOUS
    <3> QED
      BY <3>1, FlatStep
  <2>3. k + 1 # 1 => f[k] = g[k]
    BY <1>2
  <2> QED
    BY <2>1, <2>2, <2>3
<1>3. Nat \subseteq S
  <2> HIDE DEF S
  <2> QED
    BY <1>1, <1>2, NatSetInduction
<1> QED
  BY <1>3

Agree(s, t, n) == \A i \in 1 .. n : s[i] = t[i]

LEMMA FlatsAgree ==
  ASSUME NEW ss, NEW tt, NEW n \in Nat, NEW m \in Nat, n <= m, Agree(ss, tt, n),
         NEW f, IsFlat(f, ss, n), NEW g, IsFlat(g, tt, m)
  PROVE  Agree(f, g, n)
<1>1. \A i \in 1 .. n : ss[i] = tt[i]
  BY DEF Agree
<1>2. \A i \in 1 .. n : f[i] = g[i]
  BY <1>1, FlatAgrees
<1> QED
  BY <1>2 DEF Agree

LEMMA FlatType ==
  ASSUME NEW T, NEW ss, NEW n \in Nat, \A i \in 1 .. n : ss[i] \in Seq(T),
         NEW f, IsFlat(f, ss, n)
  PROVE  \A i \in 1 .. n : f[i] \in Seq(T)
<1> DEFINE S == {k \in Nat : k \in 1 .. n => f[k] \in Seq(T)}
<1>1. 0 \in S
  OBVIOUS
<1>2. ASSUME NEW k \in Nat, k \in S
      PROVE  k + 1 \in S
  <2> SUFFICES ASSUME k + 1 \in 1 .. n PROVE f[k + 1] \in Seq(T)
    OBVIOUS
  <2>1. f[k + 1] = IF k + 1 = 1 THEN ss[k + 1] ELSE f[k] \o ss[k + 1]
    <3>1. k + 1 \in 1 .. n
      OBVIOUS
    <3> QED
      BY <3>1, FlatStep
  <2>2. k + 1 # 1 => f[k] \in Seq(T)
    BY <1>2
  <2>3. ss[k + 1] \in Seq(T)
    OBVIOUS
  <2> QED
    BY <2>1, <2>2, <2>3
<1>3. Nat \subseteq S
  <2> HIDE DEF S
  <2> QED
    BY <1>1, <1>2, NatSetInduction
<1> QED
  BY <1>3

LEMMA FlattenIsFlat ==
  ASSUME NEW ss, Len(ss) \in Nat, Len(ss) # 0
  PROVE  \E f : IsFlat(f, ss, Len(ss)) /\ FlattenSeq(ss) = f[Len(ss)]
<1> DEFINE f == CHOOSE g : g = [i \in 1 .. Len(ss) |-> IF i = 1 THEN ss[i] ELSE g[i - 1] \o ss[i]]
<1>1. FlattenSeq(ss) = f[Len(ss)]
  BY DEF FlattenSeq
<1>2. IsFlat(f, ss, Len(ss))
  BY FlatExists DEF IsFlat
<1> QED
  BY <1>1, <1>2

(* FlattenSeq of a row of sequences is a sequence. *)
LEMMA FlattenType ==
  ASSUME NEW T, NEW ss \in Seq(Seq(T))
  PROVE  FlattenSeq(ss) \in Seq(T)
<1>1. Len(ss) \in Nat /\ \A i \in 1 .. Len(ss) : ss[i] \in Seq(T)
  OBVIOUS
<1>2. CASE Len(ss) = 0
  <2>1. FlattenSeq(ss) = ss /\ ss = << >>
    BY <1>2 DEF FlattenSeq
  <2> QED
    BY <2>1
<1>3. CASE Len(ss) # 0
  <2>1. PICK f : IsFlat(f, ss, Len(ss)) /\ FlattenSeq(ss) = f[Len(ss)]
    BY <1>1, <1>3, FlattenIsFlat
  <2>2. \A i \in 1 .. Len(ss) : f[i] \in Seq(T)
    BY <1>1, <2>1, FlatType
  <2> QED
    BY <1>1, <1>3, <2>1, <2>2
<1> QED
  BY <1>2, <1>3

LEMMA FlattenEmpty == FlattenSeq(<< >>) = << >>
BY DEF FlattenSeq

(* One member more is flattened by concatenation. *)
LEMMA FlattenAppend ==
  ASSUME NEW T, NEW ss \in Seq(Seq(T)), NEW s \in Seq(T)
  PROVE  FlattenSeq(Append(ss, s)) = FlattenSeq(ss) \o s
<1> DEFINE U == Seq(T)
<1>0. ss \in Seq(U) /\ s \in U
  OBVIOUS
<1> HIDE DEF U
<1>1. PICK tt \in Seq(U) : tt = Append(ss, s)
  BY <1>0, AppendProperties
<1>2. PICK n \in Nat : n = Len(ss)
  BY <1>0
<1>3. Len(tt) = n + 1 /\ tt[n + 1] = s /\ \A i \in 1 .. n : tt[i] = ss[i]
  BY <1>0, <1>1, <1>2
<1>4. PICK g : IsFlat(g, tt, n + 1) /\ FlattenSeq(tt) = g[n + 1]
  BY <1>3, FlattenIsFlat
<1>5. g[n + 1] = IF n + 1 = 1 THEN tt[n + 1] ELSE g[n] \o tt[n + 1]
  <2>1. n + 1 \in 1 .. n + 1
    OBVIOUS
  <2> QED
    BY <1>4, <2>1, FlatStep
<1>6. CASE n = 0
  <2>1. FlattenSeq(ss) = << >>
    <3>1. ss = << >>
      BY <1>0, <1>2, <1>6, EmptySeq
    <3> QED
      BY <3>1, FlattenEmpty
  <2>2. << >> \o s = s
    OBVIOUS
  <2> QED
    BY <1>1, <1>3, <1>4, <1>5, <1>6, <2>1, <2>2
<1>7. CASE n # 0
  <2>1. PICK f : IsFlat(f, ss, n) /\ FlattenSeq(ss) = f[n]
    BY <1>2, <1>7, FlattenIsFlat
  <2>2. f[n] = g[n]
    <3>1. PICK m \in Nat : m = n + 1
      OBVIOUS
    <3>2. n <= m /\ n \in 1 .. n
      BY <1>7, <3>1
    <3>3. IsFlat(f, ss, n) /\ IsFlat(g, tt, m) /\ Agree(ss, tt, n)
      BY <1>3, <1>4, <2>1, <3>1 DEF Agree
    <3>4. Agree(f, g, n)
      BY <3>2, <3>3, FlatsAgree
    <3> QED
      BY <3>2, <3>4 DEF Agree
  <2> QED
    BY <1>1, <1>3, <1>4, <1>5, <1>7, <2>1, <2>2
<1> QED
  BY <1>6, <1>7

-----------------------------------------------------------------------------
(* Concatenation *)

LEMMA ConcatFacts ==
  ASSUME NEW T, NEW s \in Seq(T), NEW t \in Seq(T)
  PROVE  /\ s \o t \in Seq(T)
         /\ s \o << >> = s /\ << >> \o s = s
         /\ \A x \in T : Append(s, x) = s \o <<x>>
         /\ \A u \in Seq(T) : (s \o t) \o u = s \o (t \o u)
OBVIOUS
-----------------------------------------------------------------------------
(***************************************************************************)
(* Sequences inside a sequence.  c holds s from place p; when s is a row   *)
(* of sequences flattened, places says where each of them is, and in the   *)
(* end what follows them.                                                  *)
(***************************************************************************)
StandsAt(c, p, s) ==
  /\ 1 <= p /\ p + Len(s) - 1 <= Len(c)
  /\ \A i \in 1 .. Len(s) : c[p + i - 1] = s[i]

LEMMA StandParts ==
  ASSUME NEW T, NEW c, Len(c) \in Nat, NEW p \in Int, NEW s \in Seq(T), NEW t \in Seq(T),
         StandsAt(c, p, s \o t)
  PROVE  StandsAt(c, p, s) /\ StandsAt(c, p + Len(s), t)
<1>1. /\ Len(s) \in Nat /\ Len(t) \in Nat /\ Len(s \o t) = Len(s) + Len(t)
      /\ \A i \in 1 .. Len(s) : (s \o t)[i] = s[i]
      /\ \A i \in 1 .. Len(t) : (s \o t)[Len(s) + i] = t[i]
  OBVIOUS
<1>2. 1 <= p /\ p + (Len(s) + Len(t)) - 1 <= Len(c)
  BY <1>1 DEF StandsAt
<1>3. \A i \in 1 .. Len(s) : i \in 1 .. Len(s \o t)
  BY <1>1
<1>4. StandsAt(c, p, s)
  BY <1>1, <1>2, <1>3 DEF StandsAt
<1>5. ASSUME NEW i \in 1 .. Len(t)
      PROVE  c[p + Len(s) + i - 1] = t[i]
  <2>1. PICK k \in Nat : k = Len(s) + i
    BY <1>1
  <2>2. k \in 1 .. Len(s \o t) /\ p + k - 1 = p + Len(s) + i - 1
    BY <1>1, <2>1
  <2>3. c[p + k - 1] = (s \o t)[k]
    BY <2>2 DEF StandsAt
  <2> QED
    BY <1>1, <2>1, <2>2, <2>3
<1> QED
  BY <1>1, <1>2, <1>4, <1>5 DEF StandsAt

ArePlaces(P, ss, at) ==
  /\ P[1] = at
  /\ \A i \in 1 .. Len(ss) : P[i + 1] = P[i] + Len(ss[i])

PlacesOf(ss, at) == CHOOSE P : ArePlaces(P, ss, at)

LEMMA PlacesOfParts ==
  ASSUME NEW T, NEW ss \in Seq(Seq(T)), NEW at \in Int,
         NEW c, Len(c) \in Nat, StandsAt(c, at, FlattenSeq(ss))
  PROVE  /\ ArePlaces(PlacesOf(ss, at), ss, at)
         /\ \A i \in 1 .. Len(ss) + 1 : PlacesOf(ss, at)[i] \in Int
         /\ \A i \in 1 .. Len(ss) : StandsAt(c, PlacesOf(ss, at)[i], ss[i])
         /\ PlacesOf(ss, at)[Len(ss) + 1] = at + Len(FlattenSeq(ss))
<1>1. PICK n \in Nat : n = Len(ss)
  OBVIOUS
<1>2. \A i \in 1 .. n : ss[i] \in Seq(T) /\ Len(ss[i]) \in Nat
  BY <1>1
<1>3. CASE n = 0
  <2>1. ss = << >> /\ FlattenSeq(ss) = << >> /\ Len(FlattenSeq(ss)) = 0
    <3> DEFINE U == Seq(T)
    <3>0. ss \in Seq(U)
      OBVIOUS
    <3> HIDE DEF U
    <3>1. ss = << >>
      BY <1>1, <1>3, <3>0, EmptySeq
    <3> QED
      BY <3>1, FlattenEmpty
  <2>2. PICK P : P = [i \in 1 .. 1 |-> at]
    OBVIOUS
  <2>3. ArePlaces(P, ss, at)
    BY <1>1, <1>3, <2>2 DEF ArePlaces
  <2>4. ArePlaces(PlacesOf(ss, at), ss, at)
    BY <2>3, Zenon DEF PlacesOf
  <2> QED
    BY <1>1, <1>3, <2>1, <2>4 DEF ArePlaces
<1>4. CASE n # 0
  <2>1. PICK f : IsFlat(f, ss, n) /\ FlattenSeq(ss) = f[n]
    BY <1>1, <1>4, FlattenIsFlat
  <2>2. \A i \in 1 .. n : f[i] \in Seq(T) /\ Len(f[i]) \in Nat
    <3>1. \A i \in 1 .. n : f[i] \in Seq(T)
      BY <1>2, <2>1, FlatType
    <3> QED
      BY <3>1
  <2>3. f[1] = ss[1]
    <3>1. 1 \in 1 .. n
      BY <1>4
    <3> QED
      BY <2>1, <3>1, FlatStep
  <2>4. ASSUME NEW i \in 1 .. n - 1
        PROVE  f[i + 1] = f[i] \o ss[i + 1]
    <3>1. i \in Nat /\ i + 1 \in 1 .. n /\ i + 1 # 1
      OBVIOUS
    <3> QED
      BY <2>1, <3>1, FlatStep
  <2>5. PICK P : P = [i \in 1 .. n + 1 |-> IF i = 1 THEN at ELSE at + Len(f[i - 1])]
    OBVIOUS
  <2>6. P[1] = at /\ \A i \in 1 .. n : P[i + 1] = at + Len(f[i])
    <3>1. P[1] = at
      BY <2>5
    <3>2. ASSUME NEW i \in 1 .. n PROVE P[i + 1] = at + Len(f[i])
      <4>1. i + 1 \in 1 .. n + 1 /\ i + 1 # 1 /\ i + 1 - 1 = i
        OBVIOUS
      <4> QED
        BY <2>5, <4>1
    <3> QED
      BY <3>1, <3>2
  <2>7. ASSUME NEW i \in 1 .. n
        PROVE  P[i + 1] = P[i] + Len(ss[i])
    <3>1. CASE i = 1
      BY <2>2, <2>3, <2>6, <3>1
    <3>2. CASE i # 1
      <4>1. PICK k \in 1 .. n - 1 : i = k + 1
        BY <3>2
      <4>2. Len(f[k + 1]) = Len(f[k]) + Len(ss[k + 1])
        <5>1. k \in 1 .. n /\ k + 1 \in 1 .. n
          OBVIOUS
        <5>2. f[k] \in Seq(T) /\ ss[k + 1] \in Seq(T)
          BY <1>2, <2>2, <5>1
        <5>3. f[k + 1] = f[k] \o ss[k + 1]
          BY <2>4
        <5> QED
          BY <5>2, <5>3
      <4>3. P[k + 1] = at + Len(f[k]) /\ P[i + 1] = at + Len(f[i])
        <5>1. k \in 1 .. n
          OBVIOUS
        <5> QED
          BY <2>6, <5>1
      <4>4. Len(f[k]) \in Nat /\ Len(ss[k + 1]) \in Nat
        <5>1. k \in 1 .. n /\ k + 1 \in 1 .. n
          OBVIOUS
        <5> QED
          BY <1>2, <2>2, <5>1
      <4> QED
        <5>1. PICK a \in Nat, b \in Nat : a = Len(f[k]) /\ b = Len(ss[k + 1])
          BY <4>4
        <5>2. P[i] = at + a /\ P[i + 1] = at + (a + b)
          BY <4>1, <4>2, <4>3, <5>1
        <5>3. at + (a + b) = (at + a) + b
          OBVIOUS
        <5> QED
          BY <4>1, <5>1, <5>2, <5>3
    <3> QED
      BY <3>1, <3>2
  <2>8. ArePlaces(P, ss, at)
    BY <1>1, <2>6, <2>7 DEF ArePlaces
  <2>9. ArePlaces(PlacesOf(ss, at), ss, at)
    BY <2>8, Zenon DEF PlacesOf
  <2> DEFINE Q == PlacesOf(ss, at)
  <2>10. \A i \in 1 .. n : Q[i + 1] = Q[i] + Len(ss[i])
    BY <1>1, <2>9 DEF ArePlaces
  <2>11. Q[1] = at
    BY <2>9 DEF ArePlaces
  <2> HIDE DEF Q
  <2>12. \A i \in 1 .. n : Q[i + 1] = at + Len(f[i])
    <3> DEFINE S == {k \in Nat : k + 1 \in 1 .. n => Q[k + 2] = at + Len(f[k + 1])}
    <3>1. 0 \in S
      <4>1. 1 \in 1 .. n
        BY <1>4
      <4>2. Q[2] = at + Len(f[1])
        BY <2>3, <2>10, <2>11, <4>1
      <4> QED
        BY <4>2
    <3>2. ASSUME NEW k \in Nat, k \in S PROVE k + 1 \in S
      <4> SUFFICES ASSUME k + 2 \in 1 .. n PROVE Q[k + 3] = at + Len(f[k + 2])
        OBVIOUS
      <4>1. k + 1 \in 1 .. n - 1 /\ k + 1 \in 1 .. n /\ k + 2 \in 1 .. n
        OBVIOUS
      <4>2. Q[k + 2] = at + Len(f[k + 1])
        BY <3>2, <4>1
      <4>3. Q[(k + 2) + 1] = Q[k + 2] + Len(ss[k + 2])
        BY <2>10, <4>1
      <4>4. f[(k + 1) + 1] = f[k + 1] \o ss[(k + 1) + 1]
        BY <2>4, <4>1
      <4>5. (k + 1) + 1 = k + 2 /\ (k + 2) + 1 = k + 3
        OBVIOUS
      <4>6. Len(f[k + 2]) = Len(f[k + 1]) + Len(ss[k + 2])
        <5>1. f[k + 1] \in Seq(T) /\ ss[k + 2] \in Seq(T)
          BY <1>2, <2>2, <4>1
        <5>2. f[k + 2] = f[k + 1] \o ss[k + 2]
          BY <4>4, <4>5
        <5> QED
          BY <5>1, <5>2
      <4>7. Len(f[k + 1]) \in Nat /\ Len(ss[k + 2]) \in Nat
        BY <1>2, <2>2, <4>1
      <4> QED
        <5>1. Q[k + 3] = (at + Len(f[k + 1])) + Len(ss[k + 2])
          BY <4>2, <4>3, <4>5
        <5>2. PICK a \in Nat, b \in Nat : a = Len(f[k + 1]) /\ b = Len(ss[k + 2])
          BY <4>7
        <5>3. at + (a + b) = (at + a) + b
          OBVIOUS
        <5> QED
          BY <4>6, <5>1, <5>2, <5>3
    <3>3. Nat \subseteq S
      <4> HIDE DEF S
      <4> QED
        BY <3>1, <3>2, NatSetInduction
    <3> SUFFICES ASSUME NEW i \in 1 .. n PROVE Q[i + 1] = at + Len(f[i])
      OBVIOUS
    <3>4. PICK k \in Nat : i = k + 1
      <4>1. i - 1 \in Nat /\ i = (i - 1) + 1
        OBVIOUS
      <4> QED
        BY <4>1
    <3>5. k \in S
      BY <3>3
    <3> QED
      BY <3>4, <3>5
  <2>13. \A i \in 1 .. n : StandsAt(c, at, f[i])
    <3> DEFINE S == {k \in Nat : k < n => StandsAt(c, at, f[n - k])}
    <3>1. 0 \in S
      BY <2>1
    <3>2. ASSUME NEW k \in Nat, k \in S PROVE k + 1 \in S
      <4> SUFFICES ASSUME k + 1 < n PROVE StandsAt(c, at, f[n - (k + 1)])
        OBVIOUS
      <4>1. PICK i \in 1 .. n - 1 : i = n - (k + 1)
        OBVIOUS
      <4>2. n - k = i + 1 /\ i + 1 \in 1 .. n /\ i \in 1 .. n
        BY <4>1
      <4>3. StandsAt(c, at, f[i] \o ss[i + 1])
        <5>1. StandsAt(c, at, f[i + 1])
          <6>1. k < n /\ n - k = i + 1
            BY <4>1
          <6> QED
            BY <3>2, <6>1
        <5> QED
          BY <2>4, <5>1
      <4> QED
        BY <1>2, <2>2, <4>1, <4>2, <4>3, StandParts
    <3>3. Nat \subseteq S
      <4> HIDE DEF S
      <4> QED
        BY <3>1, <3>2, NatSetInduction
    <3> SUFFICES ASSUME NEW i \in 1 .. n PROVE StandsAt(c, at, f[i])
      OBVIOUS
    <3>4. PICK k \in Nat : k = n - i
      OBVIOUS
    <3>5. k < n /\ n - k = i
      BY <3>4
    <3>6. k \in S
      BY <3>3
    <3> QED
      BY <3>5, <3>6
  <2>14. ASSUME NEW i \in 1 .. n
         PROVE  Q[i] \in Int /\ StandsAt(c, Q[i], ss[i])
    <3>1. CASE i = 1
      BY <2>3, <2>11, <2>13, <3>1
    <3>2. CASE i # 1
      <4>1. PICK k \in 1 .. n - 1 : i = k + 1
        BY <3>2
      <4>2. StandsAt(c, at, f[k] \o ss[k + 1])
        BY <2>4, <2>13, <4>1
      <4>3. k \in 1 .. n
        OBVIOUS
      <4>4. StandsAt(c, at + Len(f[k]), ss[i])
        BY <1>2, <2>2, <4>1, <4>2, <4>3, StandParts
      <4>5. Q[i] = at + Len(f[k]) /\ Len(f[k]) \in Nat
        BY <2>2, <2>12, <4>1, <4>3
      <4> QED
        BY <4>4, <4>5
    <3> QED
      BY <3>1, <3>2
  <2>15. Q[n + 1] = at + Len(FlattenSeq(ss)) /\ Q[n + 1] \in Int
    <3>1. n \in 1 .. n
      BY <1>4
    <3>2. Q[n + 1] = at + Len(f[n]) /\ Len(f[n]) \in Nat
      BY <2>2, <2>12, <3>1
    <3> QED
      BY <2>1, <3>2
  <2>16. \A i \in 1 .. n + 1 : i \in 1 .. n \/ i = n + 1
    OBVIOUS
  <2> QED
    BY <1>1, <2>9, <2>14, <2>15, <2>16 DEF Q
<1> QED
  BY <1>3, <1>4
=============================================================================
