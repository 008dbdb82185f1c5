---------------------- MODULE FunctionAnalysis_proof ----------------------
(***************************************************************************)
(* Proofs about the analysis of a function, for every code and every list  *)
(* of registers to save.                                                   *)
(***************************************************************************)
EXTENDS FunctionAnalysis, FiniteSetTheorems, TLAPS

-----------------------------------------------------------------------------
(* The elements of a finite set of numbers, one by one                      *)

LEMMA RankGrows ==
  ASSUME NEW S \in SUBSET Int, IsFiniteSet(S), NEW x \in S, NEW y \in S, x < y
  PROVE  Cardinality({z \in S : z < x}) < Cardinality({z \in S : z < y})
<1> DEFINE A == {z \in S : z < x}
           B == {z \in S : z < y}
<1>0. \A z \in S : z \in Int
  OBVIOUS
<1>1. A \in SUBSET B /\ x \in B /\ x \notin A /\ B \in SUBSET S
  <2>1. \A z \in S : z < x => z < y
    BY <1>0
  <2>2. ~(x < x)
    BY <1>0
  <2> QED BY <2>1, <2>2
<1>2. IsFiniteSet(B)
  BY <1>1, FS_Subset
<1>3. IsFiniteSet(A) /\ Cardinality(A) <= Cardinality(B)
      /\ (Cardinality(B) = Cardinality(A) => B = A)
  BY <1>1, <1>2, FS_Subset
<1>4. Cardinality(A) \in Nat /\ Cardinality(B) \in Nat
  BY <1>2, <1>3, FS_CardinalityType
<1> QED BY <1>1, <1>3, <1>4

LEMMA RankBounded ==
  ASSUME NEW S \in SUBSET Int, IsFiniteSet(S), NEW x \in S
  PROVE  Cardinality({z \in S : z < x}) \in 0 .. Cardinality(S) - 1
<1> DEFINE A == {z \in S : z < x}
<1>1. A \in SUBSET S /\ x \in S /\ x \notin A
  OBVIOUS
<1>2. IsFiniteSet(A) /\ Cardinality(A) <= Cardinality(S)
      /\ (Cardinality(S) = Cardinality(A) => S = A)
  BY <1>1, FS_Subset
<1>3. Cardinality(A) \in Nat /\ Cardinality(S) \in Nat
  BY <1>2, FS_CardinalityType
<1> QED BY <1>1, <1>2, <1>3

(* Nth(S, n) is where it should be: n elements of S are below it. *)
LEMMA NthExists ==
  ASSUME NEW S \in SUBSET Int, IsFiniteSet(S), NEW n \in 0 .. Cardinality(S) - 1
  PROVE  Nth(S, n) \in S /\ Cardinality({y \in S : y < Nth(S, n)}) = n
<1> DEFINE T == 0 .. Cardinality(S) - 1
           rank == [x \in S |-> Cardinality({y \in S : y < x})]
<1>1. rank \in [S -> T]
  BY RankBounded
<1>2. \A x, y \in S : x # y => rank[x] # rank[y]
  <2> SUFFICES ASSUME NEW x \in S, NEW y \in S, x < y PROVE rank[x] # rank[y]
    OBVIOUS
  <2>1. Cardinality({z \in S : z < x}) < Cardinality({z \in S : z < y})
    BY RankGrows
  <2>2. rank[x] \in T /\ rank[y] \in T
    BY <1>1
  <2>3. Cardinality(S) \in Nat
    BY FS_CardinalityType
  <2> QED BY <2>1, <2>2, <2>3
<1>3. rank \in Injection(S, T)
  BY <1>1, <1>2 DEF Injection, IsInjective
<1>4. Cardinality(S) \in Nat
  BY FS_CardinalityType
<1>5. IsFiniteSet(T) /\ Cardinality(T) = Cardinality(S)
  BY <1>4, FS_Interval
<1>6. rank \in Surjection(S, T)
  BY <1>3, <1>5, FS_Injection
<1>7. PICK x \in S : rank[x] = n
  BY <1>6 DEF Surjection
<1>8. \E z \in S : Cardinality({y \in S : y < z}) = n
  BY <1>7
<1> QED BY <1>8 DEF Nth

(* Each element has its number. *)
LEMMA NthOfRank ==
  ASSUME NEW S \in SUBSET Int, IsFiniteSet(S), NEW x \in S, NEW n,
         n = Cardinality({y \in S : y < x})
  PROVE  n \in 0 .. Cardinality(S) - 1 /\ Nth(S, n) = x
<1>1. n \in 0 .. Cardinality(S) - 1
  BY RankBounded
<1> PICK z : z = Nth(S, n)
  OBVIOUS
<1>2. z \in S /\ Cardinality({y \in S : y < z}) = n
  BY <1>1, NthExists
<1>3. ~(z < x) /\ ~(x < z)
  <2>1. n \in Nat
    BY <1>1, FS_CardinalityType
  <2>2. z < x => n < n
    BY <1>2, RankGrows
  <2>3. x < z => n < n
    BY <1>2, RankGrows
  <2> QED BY <2>1, <2>2, <2>3
<1> QED BY <1>1, <1>2, <1>3

LEMMA NthAscends ==
  ASSUME NEW S \in SUBSET Int, IsFiniteSet(S),
         NEW m \in 0 .. Cardinality(S) - 1, NEW n \in 0 .. Cardinality(S) - 1, m < n
  PROVE  Nth(S, m) < Nth(S, n)
<1> PICK x : x = Nth(S, m)
  OBVIOUS
<1> PICK y : y = Nth(S, n)
  OBVIOUS
<1>1. /\ x \in S /\ Cardinality({z \in S : z < x}) = m
      /\ y \in S /\ Cardinality({z \in S : z < y}) = n
  BY NthExists
<1>2. y < x => n < m
  BY <1>1, RankGrows
<1>3. m \in Nat /\ n \in Nat
  BY FS_CardinalityType
<1> QED BY <1>1, <1>2, <1>3

(* Nothing is between two that follow one another. *)
LEMMA NthAdjacent ==
  ASSUME NEW S \in SUBSET Int, IsFiniteSet(S), NEW n \in 1 .. Cardinality(S) - 1, NEW x \in S
  PROVE  ~(Nth(S, n - 1) < x /\ x < Nth(S, n))
<1>1. Cardinality(S) \in Nat
  BY FS_CardinalityType
<1>2. n \in 0 .. Cardinality(S) - 1 /\ n - 1 \in 0 .. Cardinality(S) - 1
  BY <1>1
<1> PICK m : m = n - 1
  OBVIOUS
<1> PICK a : a = Nth(S, m)
  OBVIOUS
<1> PICK b : b = Nth(S, n)
  OBVIOUS
<1> PICK r : r = Cardinality({z \in S : z < x})
  OBVIOUS
<1>3. /\ a \in S /\ Cardinality({z \in S : z < a}) = m
      /\ b \in S /\ Cardinality({z \in S : z < b}) = n
  BY <1>2, NthExists
<1>4. r \in 0 .. Cardinality(S) - 1
  BY RankBounded
<1>5. a < x => m < r
  BY <1>3, RankGrows
<1>6. x < b => r < n
  BY <1>3, RankGrows
<1> QED BY <1>1, <1>2, <1>4, <1>5, <1>6

LEMMA NthFirst ==
  ASSUME NEW S \in SUBSET Int, IsFiniteSet(S), NEW x \in S, \A y \in S : x <= y
  PROVE  Nth(S, 0) = x
<1>1. {y \in S : y < x} = {}
  <2>1. \A y \in S : ~(y < x)
    <3> SUFFICES ASSUME NEW y \in S PROVE ~(y < x)
      OBVIOUS
    <3>1. x \in Int /\ y \in Int /\ x <= y
      OBVIOUS
    <3> QED BY <3>1
  <2> QED BY <2>1
<1>2. Cardinality({y \in S : y < x}) = 0
  BY <1>1, FS_EmptySet
<1> QED BY <1>2, NthOfRank

LEMMA NthLast ==
  ASSUME NEW S \in SUBSET Int, IsFiniteSet(S), NEW x \in S, \A y \in S : y <= x
  PROVE  Nth(S, Cardinality(S) - 1) = x
<1>1. {y \in S : y < x} = S \ {x}
  <2>1. \A y \in S : y < x <=> y # x
    <3> SUFFICES ASSUME NEW y \in S PROVE y < x <=> y # x
      OBVIOUS
    <3>1. x \in Int /\ y \in Int /\ y <= x
      OBVIOUS
    <3> QED BY <3>1
  <2> QED BY <2>1
<1>2. Cardinality({y \in S : y < x}) = Cardinality(S) - 1
  BY <1>1, FS_RemoveElement
<1> QED BY <1>2, NthOfRank

(* A number from the least element on and below the greatest lies between *)
(* two that follow one another.                                           *)
LEMMA NthAround ==
  ASSUME NEW S \in SUBSET Int, IsFiniteSet(S), NEW a \in S, NEW b \in S, NEW i \in Int,
         a <= i, i < b
  PROVE  \E n \in 1 .. Cardinality(S) - 1 : Nth(S, n - 1) <= i /\ i < Nth(S, n)
<1> DEFINE A == {y \in S : y <= i}
<1> PICK n : n = Cardinality(A)
  OBVIOUS
<1>1. A \in SUBSET S /\ a \in A /\ b \notin A
  <2>1. b \in Int /\ ~(b <= i)
    BY SMT
  <2> QED BY <2>1
<1>2. IsFiniteSet(A) /\ n \in Nat /\ Cardinality(S) \in Nat
      /\ n <= Cardinality(S) /\ n # Cardinality(S)
  BY <1>1, FS_Subset, FS_CardinalityType
<1>3. n # 0
  BY <1>1, <1>2, FS_EmptySet
<1>4. n \in 0 .. Cardinality(S) - 1 /\ n - 1 \in 0 .. Cardinality(S) - 1
      /\ n \in 1 .. Cardinality(S) - 1
  BY <1>2, <1>3
<1> PICK m : m = n - 1
  OBVIOUS
<1> PICK x : x = Nth(S, m)
  OBVIOUS
<1> PICK y : y = Nth(S, n)
  OBVIOUS
<1>5. /\ x \in S /\ Cardinality({z \in S : z < x}) = m
      /\ y \in S /\ Cardinality({z \in S : z < y}) = n
  BY <1>4, NthExists
<1>6. \A z \in S : z \in Int
  OBVIOUS
<1>7. x <= i
  <2> SUFFICES ASSUME i < x PROVE FALSE
    BY <1>5, <1>6
  <2> DEFINE L == {z \in S : z < x}
  <2>1. A \in SUBSET L /\ L \in SUBSET S
    <3>1. \A z \in S : z <= i => z < x
      BY <1>5, <1>6
    <3> QED BY <3>1
  <2>2. IsFiniteSet(L) /\ Cardinality(L) = m
    BY <1>5, <2>1, FS_Subset
  <2>3. n <= m
    BY <2>1, <2>2, FS_Subset
  <2> QED BY <1>2, <2>3
<1>8. i < y
  <2> SUFFICES ASSUME y <= i PROVE FALSE
    BY <1>5, <1>6
  <2> DEFINE L == {z \in S : z < y}
  <2>1. L \in SUBSET A /\ y \in A /\ y \notin L
    <3>1. \A z \in S : z < y => z <= i
      BY <1>5, <1>6
    <3>2. ~(y < y)
      BY <1>5, <1>6
    <3> QED BY <1>5, <3>1, <3>2
  <2>2. A = L
    BY <1>2, <1>5, <2>1, FS_Subset
  <2> QED BY <2>1, <2>2
<1> QED BY <1>4, <1>7, <1>8

(* The blocks between dividers, the first at a and the last at b. *)
Divide(bs, S, a, b) ==
  /\ Len(bs) \in Nat \ {0}
  /\ bs \in [1 .. Len(bs) -> [start : S, end : S]]
  /\ bs[1].start = a
  /\ bs[Len(bs)].end = b
  /\ \A k \in 1 .. Len(bs) - 1 : bs[k].end = bs[k + 1].start
  /\ \A k \in 1 .. Len(bs) : bs[k].start < bs[k].end
  /\ \A j, k \in 1 .. Len(bs) : j < k => bs[j].end <= bs[k].start

LEMMA BetweenDivides ==
  ASSUME NEW S \in SUBSET Int, IsFiniteSet(S), NEW a \in S, NEW b \in S, a < b,
         \A x \in S : a <= x /\ x <= b, NEW bs, bs = BlocksBetween(S)
  PROVE  /\ Divide(bs, S, a, b)
         /\ Len(bs) = Cardinality(S) - 1
         /\ \A k \in 1 .. Len(bs) : bs[k].start = Nth(S, k - 1) /\ bs[k].end = Nth(S, k)
<1> PICK c : c = Cardinality(S)
  OBVIOUS
<1>1. c \in Nat
  BY FS_CardinalityType
<1>2. Nth(S, 0) = a /\ Nth(S, c - 1) = b
  BY NthFirst, NthLast
<1>3. c - 1 \in Nat \ {0}
  <2>1. a \in Int /\ b \in Int /\ a # b
    BY SMT
  <2>2. c # 0
    BY FS_EmptySet
  <2>3. c # 1
    BY <1>2, <2>1
  <2> QED BY <1>1, <2>2, <2>3
<1>4. bs = [k \in 1 .. c - 1 |-> [start |-> Nth(S, k - 1), end |-> Nth(S, k)]]
  BY DEF BlocksBetween
<1>5. Len(bs) = c - 1 /\ DOMAIN bs = 1 .. Len(bs)
  <2>1. bs \in Seq(Range(bs))
    BY <1>3, <1>4 DEF Range
  <2> QED BY <1>3, <1>4, <2>1
<1>6. \A k \in 1 .. c - 1 : /\ bs[k].start = Nth(S, k - 1) /\ bs[k].end = Nth(S, k)
                            /\ bs[k] = [start |-> Nth(S, k - 1), end |-> Nth(S, k)]
  BY <1>4
<1>7. ASSUME NEW k \in 0 .. c - 1 PROVE Nth(S, k) \in S /\ Nth(S, k) \in Int
  BY <1>7, NthExists
<1>8. \A k \in 1 .. c - 1 : k \in 0 .. c - 1 /\ k - 1 \in 0 .. c - 1 /\ k - 1 < k
  BY <1>1
<1>9. bs \in [1 .. Len(bs) -> [start : S, end : S]]
  <2>1. \A k \in 1 .. c - 1 :
          [start |-> Nth(S, k - 1), end |-> Nth(S, k)] \in [start : S, end : S]
    BY <1>7, <1>8
  <2> QED BY <1>4, <1>5, <2>1
<1>10. bs[1].start = a /\ bs[Len(bs)].end = b
  <2>0. c - 1 >= 1
    BY <1>1, <1>3
  <2>1. 1 \in 1 .. c - 1 /\ c - 1 \in 1 .. c - 1 /\ 1 - 1 = 0
    BY <1>1, <2>0
  <2> QED BY <1>2, <1>5, <1>6, <2>1
<1>11. ASSUME NEW k \in 1 .. Len(bs) - 1 PROVE bs[k].end = bs[k + 1].start
  <2> PICK j : j = k + 1
    OBVIOUS
  <2>1. k \in 1 .. c - 1 /\ j \in 1 .. c - 1 /\ j - 1 = k
    BY <1>1, <1>5
  <2>2. bs[j].start = Nth(S, j - 1)
    BY <1>6, <2>1
  <2>3. bs[j].start = Nth(S, k)
    BY <2>1, <2>2
  <2> QED BY <1>6, <2>1, <2>3
<1>12. ASSUME NEW k \in 1 .. Len(bs) PROVE bs[k].start < bs[k].end
  <2>1. k \in 1 .. c - 1
    BY <1>5
  <2> QED BY <1>6, <1>8, <2>1, NthAscends
<1>13. ASSUME NEW j \in 1 .. Len(bs), NEW k \in 1 .. Len(bs), j < k
       PROVE  bs[j].end <= bs[k].start
  <2>1. j \in 1 .. c - 1 /\ k \in 1 .. c - 1 /\ j \in 0 .. c - 1 /\ k - 1 \in 0 .. c - 1
    BY <1>5, <1>8
  <2>2. j < k - 1 \/ j = k - 1
    BY <1>13, <2>1
  <2>3. bs[j].end = Nth(S, j) /\ bs[k].start = Nth(S, k - 1)
    BY <1>6, <2>1
  <2>4. j < k - 1 => Nth(S, j) < Nth(S, k - 1)
    BY <2>1, NthAscends
  <2> QED BY <1>7, <2>1, <2>2, <2>3, <2>4
<1> QED BY <1>3, <1>5, <1>6, <1>9, <1>10, <1>11, <1>12, <1>13 DEF Divide

-----------------------------------------------------------------------------
(* What a function begins and ends with                                     *)

Prologues ==
  [usage : Int, ra : BOOLEAN, fp : BOOLEAN,
   nGpr : 0 .. Len(GprBackups), gprOffset : Int,
   nFpr : 0 .. Len(FprBackups), fprOffset : Int,
   nVars : Int, varOffset : Int, decoded : BOOLEAN, epilogueOk : BOOLEAN]

LEMMA BackupFacts ==
  /\ Len(GprBackups) \in Nat /\ DOMAIN GprBackups = 1 .. Len(GprBackups)
  /\ Len(FprBackups) \in Nat /\ DOMAIN FprBackups = 1 .. Len(FprBackups)
<1>1. GprBackups \in Seq(Range(GprBackups)) /\ FprBackups \in Seq(Range(FprBackups))
  BY BackupsAssumption
<1> QED BY <1>1

Writes == {"ld", "sd", "lwc1", "swc1", "lq", "sq", "jr", "or_t9", "daddiu", "daddu_r0"}

Written ==
  {w \in [op : Writes, imm : Int,
          reg : {"ra", "fp", "sp"} \cup Range(GprBackups) \cup Range(FprBackups)] :
     w.op = "or_t9" => w.imm = 0}

LoadOps == {"ld", "lwc1", "lq", "jr"}

Loads == {w \in Written : w.op \in LoadOps}

Joins(r, s, t) == r = s \o t

InRow(a, b, c, d, e, r) == r = a \o b \o c \o d \o e

Holds(r, i, s) == \A k \in 1 .. Len(s) : r[i + k] = s[k]

(* Every part is found in the whole. *)
RowHolds(T, a, b, c, d, e, r) ==
  /\ r \in Seq(T)
  /\ Len(r) = Len(a) + Len(b) + Len(c) + Len(d) + Len(e)
  /\ Holds(r, 0, a)
  /\ Holds(r, Len(a), b)
  /\ Holds(r, Len(a) + Len(b), c)
  /\ Holds(r, Len(a) + Len(b) + Len(c), d)
  /\ Holds(r, Len(a) + Len(b) + Len(c) + Len(d), e)

LEMMA HoldsJoined ==
  ASSUME NEW T, NEW s \in Seq(T), NEW t \in Seq(T), NEW r, Joins(r, s, t)
  PROVE  /\ r \in Seq(T)
         /\ Len(r) = Len(s) + Len(t)
         /\ Holds(r, 0, s)
         /\ Holds(r, Len(s), t)
<1>1. /\ s \o t \in Seq(T) /\ Len(s \o t) = Len(s) + Len(t)
      /\ \A i \in 1 .. Len(s) : (s \o t)[i] = s[i]
      /\ \A i \in 1 .. Len(t) : (s \o t)[Len(s) + i] = t[i]
  OBVIOUS
<1>2. \A i \in 1 .. Len(s) : 0 + i = i
  OBVIOUS
<1> QED BY <1>1, <1>2 DEF Holds, Joins

LEMMA HoldsOn ==
  ASSUME NEW T, NEW s \in Seq(T), NEW t \in Seq(T), NEW r, Joins(r, s, t),
         NEW u \in Seq(T), NEW i \in Nat, i + Len(u) <= Len(s), Holds(s, i, u)
  PROVE  Holds(r, i, u)
<1>0. Holds(r, 0, s)
  BY HoldsJoined
<1>1. Len(u) \in Nat /\ Len(s) \in Nat
  OBVIOUS
<1>2. ASSUME NEW k \in 1 .. Len(u) PROVE r[i + k] = u[k]
  <2>1. i + k \in 1 .. Len(s) /\ 0 + (i + k) = i + k
    BY <1>1
  <2> QED BY <1>0, <2>1 DEF Holds
<1> QED BY <1>2 DEF Holds

LEMMA FiveJoined ==
  ASSUME NEW T, NEW a \in Seq(T), NEW b \in Seq(T), NEW c \in Seq(T),
         NEW d \in Seq(T), NEW e \in Seq(T),
         NEW r, InRow(a, b, c, d, e, r)
  PROVE  RowHolds(T, a, b, c, d, e, r)
<1>ab. PICK ab : Joins(ab, a, b)
  BY DEF Joins
<1>m. PICK m : Joins(m, ab, c)
  BY DEF Joins
<1>n. PICK n : Joins(n, m, d)
  BY DEF Joins
<1>r. Joins(r, n, e)
  BY <1>ab, <1>m, <1>n DEF InRow, Joins
<1>0. /\ Len(a) \in Nat /\ Len(b) \in Nat /\ Len(c) \in Nat /\ Len(d) \in Nat /\ Len(e) \in Nat
  OBVIOUS
<1>1. /\ ab \in Seq(T) /\ Len(ab) = Len(a) + Len(b)
      /\ Holds(ab, 0, a) /\ Holds(ab, Len(a), b)
  BY <1>ab, HoldsJoined
<1>2. ab \in Seq(T)
  BY <1>1
<1>3. /\ m \in Seq(T) /\ Len(m) = Len(ab) + Len(c) /\ Holds(m, Len(ab), c)
  BY <1>m, <1>2, HoldsJoined
<1>4. m \in Seq(T)
  BY <1>3
<1>5. /\ n \in Seq(T) /\ Len(n) = Len(m) + Len(d) /\ Holds(n, Len(m), d)
  BY <1>n, <1>4, HoldsJoined
<1>6. n \in Seq(T)
  BY <1>5
<1>7. /\ r \in Seq(T) /\ Len(r) = Len(n) + Len(e) /\ Holds(r, Len(n), e)
  BY <1>r, <1>6, HoldsJoined
<1>8. /\ Len(ab) \in Nat /\ Len(m) \in Nat /\ Len(n) \in Nat
      /\ 0 + Len(a) <= Len(ab) /\ Len(a) + Len(b) <= Len(ab)
      /\ 0 + Len(a) <= Len(m) /\ Len(a) + Len(b) <= Len(m) /\ Len(ab) + Len(c) <= Len(m)
      /\ 0 + Len(a) <= Len(n) /\ Len(a) + Len(b) <= Len(n) /\ Len(ab) + Len(c) <= Len(n)
      /\ Len(m) + Len(d) <= Len(n)
  BY <1>0, <1>1, <1>3, <1>5
<1>9. 0 \in Nat
  OBVIOUS
<1>10. Holds(r, 0, a)
  <2>1. Holds(m, 0, a)
    BY <1>m, <1>1, <1>2, <1>8, <1>9, HoldsOn
  <2>2. Holds(n, 0, a)
    BY <1>n, <1>4, <1>8, <1>9, <2>1, HoldsOn
  <2> QED BY <1>r, <1>6, <1>8, <1>9, <2>2, HoldsOn
<1>11. Holds(r, Len(a), b)
  <2>1. Holds(m, Len(a), b)
    BY <1>m, <1>0, <1>1, <1>2, <1>8, HoldsOn
  <2>2. Holds(n, Len(a), b)
    BY <1>n, <1>0, <1>4, <1>8, <2>1, HoldsOn
  <2> QED BY <1>r, <1>0, <1>6, <1>8, <2>2, HoldsOn
<1>12. Holds(r, Len(ab), c)
  <2>1. Holds(n, Len(ab), c)
    BY <1>n, <1>3, <1>4, <1>8, HoldsOn
  <2> QED BY <1>r, <1>6, <1>8, <2>1, HoldsOn
<1>13. Holds(r, Len(m), d)
  BY <1>r, <1>5, <1>6, <1>8, HoldsOn
<1>14. /\ Len(a) + Len(b) = Len(ab) /\ Len(a) + Len(b) + Len(c) = Len(m)
       /\ Len(a) + Len(b) + Len(c) + Len(d) = Len(n)
       /\ Len(r) = Len(a) + Len(b) + Len(c) + Len(d) + Len(e)
  BY <1>1, <1>3, <1>5, <1>7
<1> QED BY <1>7, <1>10, <1>11, <1>12, <1>13, <1>14 DEF RowHolds

LEMMA One ==
  ASSUME NEW x \in Written
  PROVE  <<x>> \in Seq(Written) /\ Len(<<x>>) = 1 /\ <<x>>[1] = x
  OBVIOUS

LEMMA Nothing == << >> \in Seq(Written) /\ Len(<< >>) = 0
  OBVIOUS

LEMMA Some ==
  ASSUME NEW T, NEW n \in Nat, NEW f, f \in [1 .. n -> T]
  PROVE  f \in Seq(T) /\ Len(f) = n
  OBVIOUS

RaSize(p) == IF p.ra THEN 1 ELSE 0

FpSize(p) == IF p.fp THEN 1 ELSE 0

(* The last of the loads of an epilogue frees the stack. *)
Frees(p) == IF p.usage # 0 THEN Instr("daddiu", "sp", p.usage) ELSE Instr("daddu_r0", "sp", 0)

RestoresAre(p, r) ==
  /\ r \in Seq(Written)
  /\ Len(r) = RaSize(p) + FpSize(p) + p.nFpr + p.nGpr + 2
  /\ \A k \in 1 .. p.nFpr : r[RaSize(p) + FpSize(p) + k]
       = Instr("lwc1", FprBackups[k], p.fprOffset + 4 * (p.nFpr - k))
  /\ \A k \in 1 .. p.nGpr : r[RaSize(p) + FpSize(p) + p.nFpr + k]
       = Instr("lq", GprBackups[k], p.gprOffset + 16 * (p.nGpr - k))
  /\ \A k \in 1 .. Len(r) - 1 : r[k] \in Loads
  /\ r[Len(r)] = Frees(p)

LEMMA RestoresShape ==
  ASSUME NEW p \in Prologues
  PROVE  RestoresAre(p, Restores(p))
<1>1. /\ p.ra \in BOOLEAN /\ p.fp \in BOOLEAN /\ p.usage \in Int
      /\ p.nFpr \in Nat /\ p.nFpr <= Len(FprBackups) /\ p.fprOffset \in Int
      /\ p.nGpr \in Nat /\ p.nGpr <= Len(GprBackups) /\ p.gprOffset \in Int
  BY BackupFacts DEF Prologues
<1>va. PICK a : a = If(p.ra, <<Instr("ld", "ra", 0)>>)
  OBVIOUS
<1>vb. PICK b : b = If(p.fp, <<Instr("ld", "fp", 8)>>)
  OBVIOUS
<1>vc. PICK c : c = [k \in 1 .. p.nFpr |-> Instr("lwc1", FprBackups[k], p.fprOffset + 4 * (p.nFpr - k))]
  OBVIOUS
<1>vd. PICK d : d = [k \in 1 .. p.nGpr |-> Instr("lq", GprBackups[k], p.gprOffset + 16 * (p.nGpr - k))]
  OBVIOUS
<1>ve. PICK e : e = <<Instr("jr", "ra", 0)>>
  OBVIOUS
<1>vf. PICK f : f = IF p.usage # 0 THEN <<Instr("daddiu", "sp", p.usage)>>
                                ELSE <<Instr("daddu_r0", "sp", 0)>>
  OBVIOUS
<1>vm. PICK m : InRow(a, b, c, d, e, m)
  BY DEF InRow
<1>r. PICK r : r = Restores(p)
  OBVIOUS
<1>2. Joins(r, m, f)
  BY <1>va, <1>vb, <1>vc, <1>vd, <1>ve, <1>vf, <1>vm, <1>r DEF Restores, InRow, Joins
<1>3. a \in Seq(Loads) /\ Len(a) = RaSize(p)
  <2>1. Instr("ld", "ra", 0) \in Loads
    BY DEF Instr, Loads, LoadOps, Written, Writes
  <2> QED BY <1>1, <2>1, <1>va DEF If, RaSize
<1>4. b \in Seq(Loads) /\ Len(b) = FpSize(p)
  <2>1. Instr("ld", "fp", 8) \in Loads
    BY DEF Instr, Loads, LoadOps, Written, Writes
  <2> QED BY <1>1, <2>1, <1>vb DEF If, FpSize
<1>5. c \in Seq(Loads) /\ Len(c) = p.nFpr
  <2>1. ASSUME NEW k \in 1 .. p.nFpr
        PROVE  Instr("lwc1", FprBackups[k], p.fprOffset + 4 * (p.nFpr - k)) \in Loads
    <3>1. k \in DOMAIN FprBackups /\ p.fprOffset + 4 * (p.nFpr - k) \in Int
      BY <1>1, BackupFacts
    <3>2. FprBackups[k] \in Range(FprBackups)
      BY <3>1 DEF Range
    <3> QED BY <3>1, <3>2 DEF Instr, Loads, LoadOps, Written, Writes
  <2>2. c \in [1 .. p.nFpr -> Loads]
    BY <2>1, <1>vc
  <2> QED BY <1>1, <2>2, Some
<1>6. d \in Seq(Loads) /\ Len(d) = p.nGpr
  <2>1. ASSUME NEW k \in 1 .. p.nGpr
        PROVE  Instr("lq", GprBackups[k], p.gprOffset + 16 * (p.nGpr - k)) \in Loads
    <3>1. k \in DOMAIN GprBackups /\ p.gprOffset + 16 * (p.nGpr - k) \in Int
      BY <1>1, BackupFacts
    <3>2. GprBackups[k] \in Range(GprBackups)
      BY <3>1 DEF Range
    <3> QED BY <3>1, <3>2 DEF Instr, Loads, LoadOps, Written, Writes
  <2>2. d \in [1 .. p.nGpr -> Loads]
    BY <2>1, <1>vd
  <2> QED BY <1>1, <2>2, Some
<1>7. e \in Seq(Loads) /\ Len(e) = 1
  <2>1. Instr("jr", "ra", 0) \in Loads
    BY DEF Instr, Loads, LoadOps, Written, Writes
  <2> QED BY <2>1, <1>ve
<1>8. f \in Seq(Written) /\ Len(f) = 1 /\ f[1] = Frees(p)
  <2>1. Instr("daddiu", "sp", p.usage) \in Written /\ Instr("daddu_r0", "sp", 0) \in Written
    BY <1>1 DEF Instr, Written, Writes
  <2> QED BY <2>1, <1>vf, One DEF Frees
<1>9. RowHolds(Loads, a, b, c, d, e, m)
  <2>1. a \in Seq(Loads)
    BY <1>3
  <2>2. b \in Seq(Loads)
    BY <1>4
  <2>3. c \in Seq(Loads)
    BY <1>5
  <2>4. d \in Seq(Loads)
    BY <1>6
  <2>5. e \in Seq(Loads)
    BY <1>7
  <2> QED BY <1>vm, <2>1, <2>2, <2>3, <2>4, <2>5, FiveJoined
<1>x. PICK x : x = RaSize(p)
  OBVIOUS
<1>y. PICK y : y = FpSize(p)
  OBVIOUS
<1>10. x \in Nat /\ y \in Nat
  BY <1>x, <1>y DEF RaSize, FpSize
<1>11. /\ m \in Seq(Loads) /\ Len(m) = x + y + p.nFpr + p.nGpr + 1
       /\ Holds(m, x + y, c) /\ Holds(m, x + y + p.nFpr, d)
  BY <1>3, <1>4, <1>5, <1>6, <1>7, <1>9, <1>x, <1>y DEF RowHolds
<1>12. /\ r \in Seq(Written) /\ Len(r) = Len(m) + 1
       /\ Holds(r, 0, m) /\ Holds(r, Len(m), f)
  <2>1. m \in Seq(Written)
    BY <1>11 DEF Loads
  <2>2. f \in Seq(Written)
    BY <1>8
  <2>3. r \in Seq(Written) /\ Len(r) = Len(m) + Len(f) /\ Holds(r, 0, m) /\ Holds(r, Len(m), f)
    BY <1>2, <2>1, <2>2, HoldsJoined
  <2> QED BY <1>8, <2>3
<1>13. Len(r) = x + y + p.nFpr + p.nGpr + 2 /\ Len(m) \in Nat
  BY <1>1, <1>10, <1>11, <1>12
<1>14. ASSUME NEW k \in 1 .. Len(m) PROVE r[k] = m[k]
  <2>1. 0 + k = k
    BY <1>13
  <2> QED BY <1>12, <2>1 DEF Holds
<1>15. ASSUME NEW k \in 1 .. p.nFpr
       PROVE  r[x + y + k] = Instr("lwc1", FprBackups[k], p.fprOffset + 4 * (p.nFpr - k))
  <2>1. x + y + k \in 1 .. Len(m)
    BY <1>1, <1>10, <1>11
  <2>2. m[x + y + k] = c[k]
    BY <1>5, <1>11 DEF Holds
  <2> QED BY <1>14, <1>vc, <2>1, <2>2
<1>16. ASSUME NEW k \in 1 .. p.nGpr
       PROVE  r[x + y + p.nFpr + k] = Instr("lq", GprBackups[k], p.gprOffset + 16 * (p.nGpr - k))
  <2>1. x + y + p.nFpr + k \in 1 .. Len(m)
    BY <1>1, <1>10, <1>11
  <2>2. m[x + y + p.nFpr + k] = d[k]
    BY <1>6, <1>11 DEF Holds
  <2> QED BY <1>14, <1>vd, <2>1, <2>2
<1>17. ASSUME NEW k \in 1 .. Len(r) - 1 PROVE r[k] \in Loads
  <2>1. k \in 1 .. Len(m) /\ m[k] \in Loads
    BY <1>11, <1>12, <1>13
  <2> QED BY <1>14, <2>1
<1>18. r[Len(r)] = Frees(p)
  <2>1. 1 \in 1 .. Len(f)
    BY <1>8
  <2> QED BY <1>8, <1>12, <2>1 DEF Holds
<1> QED BY <1>r, <1>12, <1>x, <1>y, <1>13, <1>15, <1>16, <1>17, <1>18 DEF RestoresAre

LEMMA VarsTyped ==
  ASSUME NEW p \in Prologues
  PROVE  VarOffset(p) \in Int /\ VarBytes(p) \in Int
<1>1. /\ p.usage \in Int /\ p.gprOffset \in Int /\ p.fprOffset \in Int
  BY DEF Prologues
<1>2. VarOffset(p) \in Int
  BY DEF VarOffset
<1> QED BY <1>1, <1>2 DEF VarBytes

(* Where the saved registers of each kind begin, and where the frame ends. *)
GprAt(p) == 2 + RaSize(p) + 2 * FpSize(p)

FprAt(p) == GprAt(p) + p.nGpr

FrameEnd(p) == FprAt(p) + p.nFpr

LEMMA Aligned ==
  /\ \A m \in Int : Align(4 * m, 4) = 4 * m
  /\ \A n \in Int : Align(n, 16) \in Int /\ Align(n, 4) \in Int
  /\ \A n \in Int : \E m \in Int : Align(n, 16) = 16 * m
<1>1. \A m \in Int : (4 * m + 4 - 1) \div 4 = m
  OBVIOUS
<1>2. \A n \in Int : (n + 16 - 1) \div 16 \in Int /\ (n + 4 - 1) \div 4 \in Int
  OBVIOUS
<1> QED BY <1>1, <1>2 DEF Align

LEMMA LayoutIsFrame ==
  ASSUME NEW p \in Prologues, StackLinesUp(p), p.nVars = VarBytes(p)
  PROVE  /\ StackOf(p) = p.usage
         /\ p.nGpr > 0 => GprStart(p) = p.gprOffset
         /\ p.nFpr > 0 => FprStart(p) = p.fprOffset
<1>1. /\ p.nGpr \in Nat /\ p.nFpr \in Nat /\ p.usage \in Int
      /\ p.gprOffset \in Int /\ p.fprOffset \in Int
  BY BackupFacts DEF Prologues
<1>2. PICK v : v = VarOffset(p) + VarBytes(p)
  OBVIOUS
<1>3. v \in Int /\ VarOffset(p) + p.nVars = v
  BY <1>2, VarsTyped
<1>4. PICK g : g = IF p.nGpr = 0 THEN v ELSE Align(v, 16) + 16 * p.nGpr
  OBVIOUS
<1>5. PICK f : f = IF p.nFpr = 0 THEN g ELSE Align(g, 4) + 4 * p.nFpr
  OBVIOUS
<1>6. /\ p.nGpr > 0 => p.gprOffset = Align(v, 16)
      /\ p.nFpr > 0 => p.fprOffset = Align(g, 4)
      /\ p.usage = Align(f, 16)
  BY <1>2, <1>4, <1>5 DEF StackLinesUp
<1>7. GprStart(p) = Align(v, 16)
  BY <1>3 DEF GprStart
<1>8. FprStart(p) = Align(g, 4)
  <2>1. CASE p.nGpr = 0
    BY <1>3, <1>4, <2>1 DEF FprStart
  <2>2. CASE p.nGpr # 0
    <3>1. g = Align(v, 16) + 16 * p.nGpr /\ FprStart(p) = g
      BY <1>4, <1>7, <2>2 DEF FprStart
    <3>2. PICK m \in Int : Align(v, 16) = 16 * m
      BY <1>3, Aligned
    <3>3. PICK h : h = 4 * m + 4 * p.nGpr
      OBVIOUS
    <3>4. h \in Int /\ g = 4 * h
      BY <1>1, <3>1, <3>2, <3>3
    <3> QED BY <3>1, <3>4, Aligned
  <2> QED BY <2>1, <2>2
<1>9. StackOf(p) = Align(f, 16)
  <2>1. CASE p.nFpr > 0
    BY <1>1, <1>5, <1>8, <2>1 DEF StackOf
  <2>2. CASE p.nFpr = 0 /\ p.nGpr > 0
    BY <1>1, <1>4, <1>5, <1>7, <2>2 DEF StackOf
  <2>3. CASE p.nFpr = 0 /\ p.nGpr = 0
    BY <1>3, <1>4, <1>5, <2>3 DEF StackOf
  <2> QED BY <1>1, <2>1, <2>2, <2>3
<1> QED BY <1>6, <1>7, <1>8, <1>9

LEMMA IfOne ==
  ASSUME NEW x \in Written, NEW B \in BOOLEAN
  PROVE  If(B, <<x>>) \in Seq(Written) /\ Len(If(B, <<x>>)) = (IF B THEN 1 ELSE 0)
         /\ (B => If(B, <<x>>)[1] = x)
BY One, Nothing DEF If

LEMMA IfTwo ==
  ASSUME NEW x \in Written, NEW y \in Written, NEW B \in BOOLEAN
  PROVE  If(B, <<x, y>>) \in Seq(Written) /\ Len(If(B, <<x, y>>)) = (IF B THEN 2 ELSE 0)
         /\ (B => If(B, <<x, y>>)[1] = x /\ If(B, <<x, y>>)[2] = y)
<1>1. <<x, y>> \in Seq(Written) /\ Len(<<x, y>>) = 2 /\ <<x, y>>[1] = x /\ <<x, y>>[2] = y
  OBVIOUS
<1> QED BY <1>1, Nothing DEF If

(* The stores of a frame, one by one. *)
SavesAre(p, r) ==
  /\ r \in Seq(Written)
  /\ Len(r) = FrameEnd(p) - 1
  /\ r[1] = Instr("daddiu", "sp", -p.usage)
  /\ p.ra => r[2] = Instr("sd", "ra", 0)
  /\ p.fp => /\ r[2 + RaSize(p)] = Instr("sd", "fp", 8)
             /\ r[3 + RaSize(p)] = Instr("or_t9", "fp", 0)
  /\ \A k \in 0 .. p.nGpr - 1 :
       r[GprAt(p) + k] = Instr("sq", GprBackups[p.nGpr - k], p.gprOffset + 16 * k)
  /\ \A k \in 0 .. p.nFpr - 1 :
       r[FprAt(p) + k] = Instr("swc1", FprBackups[p.nFpr - k], p.fprOffset + 4 * k)

LEMMA SizesTyped ==
  ASSUME NEW p \in Prologues
  PROVE  /\ RaSize(p) \in Nat /\ FpSize(p) \in Nat /\ p.nGpr \in Nat /\ p.nFpr \in Nat
         /\ p.nGpr <= Len(GprBackups) /\ p.nFpr <= Len(FprBackups)
         /\ p.gprOffset \in Int /\ p.fprOffset \in Int /\ p.usage \in Int
         /\ p.ra \in BOOLEAN /\ p.fp \in BOOLEAN
BY BackupFacts DEF Prologues, RaSize, FpSize

LEMMA SavesShape ==
  ASSUME NEW p \in Prologues, StackLinesUp(p), p.nVars = VarBytes(p), p.usage # 0
  PROVE  SavesAre(p, Saves(p))
<1>0. /\ RaSize(p) \in Nat /\ FpSize(p) \in Nat /\ p.nGpr \in Nat /\ p.nFpr \in Nat
      /\ p.nGpr <= Len(GprBackups) /\ p.nFpr <= Len(FprBackups)
      /\ p.gprOffset \in Int /\ p.fprOffset \in Int /\ p.usage \in Int
      /\ p.ra \in BOOLEAN /\ p.fp \in BOOLEAN
  BY SizesTyped
<1>1. /\ StackOf(p) = p.usage
      /\ p.nGpr > 0 => GprStart(p) = p.gprOffset
      /\ p.nFpr > 0 => FprStart(p) = p.fprOffset
  BY LayoutIsFrame
<1>va. PICK a : a = If(StackOf(p) # 0, <<Instr("daddiu", "sp", -StackOf(p))>>)
  OBVIOUS
<1>vb. PICK b : b = If(p.ra, <<Instr("sd", "ra", 0)>>)
  OBVIOUS
<1>vc. PICK c : c = If(p.fp, <<Instr("sd", "fp", 8), Instr("or_t9", "fp", 0)>>)
  OBVIOUS
<1>vd. PICK d : d = [k \in 1 .. p.nGpr |-> Instr("sq", GprBackups[p.nGpr + 1 - k],
                                                 GprStart(p) + 16 * (k - 1))]
  OBVIOUS
<1>ve. PICK e : e = [k \in 1 .. p.nFpr |-> Instr("swc1", FprBackups[p.nFpr + 1 - k],
                                                 FprStart(p) + 4 * (k - 1))]
  OBVIOUS
<1>vr. PICK r : r = Saves(p)
  OBVIOUS
<1>2. InRow(a, b, c, d, e, r)
  BY <1>va, <1>vb, <1>vc, <1>vd, <1>ve, <1>vr DEF Saves, InRow
<1>3. a \in Seq(Written) /\ Len(a) = 1 /\ a[1] = Instr("daddiu", "sp", -p.usage)
  <2>1. a = <<Instr("daddiu", "sp", -p.usage)>>
    BY <1>1, <1>va DEF If
  <2>2. Instr("daddiu", "sp", -p.usage) \in Written
    <3>1. -p.usage \in Int
      BY <1>0
    <3> QED BY <3>1 DEF Instr, Written, Writes
  <2> QED BY <2>1, <2>2, One
<1>4. b \in Seq(Written) /\ Len(b) = RaSize(p) /\ (p.ra => b[1] = Instr("sd", "ra", 0))
  <2>1. Instr("sd", "ra", 0) \in Written
    BY DEF Instr, Written, Writes
  <2> QED BY <1>0, <1>vb, <2>1, IfOne DEF RaSize
<1>5. /\ c \in Seq(Written) /\ Len(c) = 2 * FpSize(p)
      /\ p.fp => c[1] = Instr("sd", "fp", 8) /\ c[2] = Instr("or_t9", "fp", 0)
  <2>1. Instr("sd", "fp", 8) \in Written /\ Instr("or_t9", "fp", 0) \in Written
    BY DEF Instr, Written, Writes
  <2> QED BY <1>0, <1>vc, <2>1, IfTwo DEF FpSize
<1>6. /\ d \in Seq(Written) /\ Len(d) = p.nGpr
      /\ \A k \in 1 .. p.nGpr : d[k] = Instr("sq", GprBackups[p.nGpr + 1 - k],
                                             p.gprOffset + 16 * (k - 1))
  <2>1. ASSUME NEW k \in 1 .. p.nGpr
        PROVE  /\ Instr("sq", GprBackups[p.nGpr + 1 - k], GprStart(p) + 16 * (k - 1)) \in Written
               /\ GprStart(p) = p.gprOffset
    <3>1. p.nGpr + 1 - k \in DOMAIN GprBackups /\ p.gprOffset + 16 * (k - 1) \in Int /\ p.nGpr > 0
      BY <1>0, BackupFacts
    <3>2. GprBackups[p.nGpr + 1 - k] \in Range(GprBackups)
      BY <3>1 DEF Range
    <3> QED BY <1>1, <3>1, <3>2 DEF Instr, Written, Writes
  <2>2. d \in [1 .. p.nGpr -> Written]
    BY <1>vd, <2>1
  <2>3. \A k \in 1 .. p.nGpr : d[k] = Instr("sq", GprBackups[p.nGpr + 1 - k],
                                            p.gprOffset + 16 * (k - 1))
    BY <1>vd, <2>1
  <2> QED BY <1>0, <2>2, <2>3, Some
<1>7. /\ e \in Seq(Written) /\ Len(e) = p.nFpr
      /\ \A k \in 1 .. p.nFpr : e[k] = Instr("swc1", FprBackups[p.nFpr + 1 - k],
                                             p.fprOffset + 4 * (k - 1))
  <2>1. ASSUME NEW k \in 1 .. p.nFpr
        PROVE  /\ Instr("swc1", FprBackups[p.nFpr + 1 - k], FprStart(p) + 4 * (k - 1)) \in Written
               /\ FprStart(p) = p.fprOffset
    <3>1. p.nFpr + 1 - k \in DOMAIN FprBackups /\ p.fprOffset + 4 * (k - 1) \in Int /\ p.nFpr > 0
      BY <1>0, BackupFacts
    <3>2. FprBackups[p.nFpr + 1 - k] \in Range(FprBackups)
      BY <3>1 DEF Range
    <3> QED BY <1>1, <3>1, <3>2 DEF Instr, Written, Writes
  <2>2. e \in [1 .. p.nFpr -> Written]
    BY <1>ve, <2>1
  <2>3. \A k \in 1 .. p.nFpr : e[k] = Instr("swc1", FprBackups[p.nFpr + 1 - k],
                                            p.fprOffset + 4 * (k - 1))
    BY <1>ve, <2>1
  <2> QED BY <1>0, <2>2, <2>3, Some
<1>8. RowHolds(Written, a, b, c, d, e, r)
  <2>1. a \in Seq(Written)
    BY <1>3
  <2>2. b \in Seq(Written)
    BY <1>4
  <2>3. c \in Seq(Written)
    BY <1>5
  <2>4. d \in Seq(Written)
    BY <1>6
  <2>5. e \in Seq(Written)
    BY <1>7
  <2> QED BY <1>2, <2>1, <2>2, <2>3, <2>4, <2>5, FiveJoined
<1>x. PICK x : x = RaSize(p)
  OBVIOUS
<1>y. PICK y : y = FpSize(p)
  OBVIOUS
<1>9. /\ r \in Seq(Written) /\ Len(r) = 1 + x + 2 * y + p.nGpr + p.nFpr
      /\ Holds(r, 0, a) /\ Holds(r, 1, b) /\ Holds(r, 1 + x, c)
      /\ Holds(r, 1 + x + 2 * y, d) /\ Holds(r, 1 + x + 2 * y + p.nGpr, e)
  BY <1>3, <1>4, <1>5, <1>6, <1>7, <1>8, <1>x, <1>y DEF RowHolds
<1>10. x \in Nat /\ y \in Nat /\ GprAt(p) = 2 + x + 2 * y /\ FprAt(p) = 2 + x + 2 * y + p.nGpr
       /\ FrameEnd(p) = 2 + x + 2 * y + p.nGpr + p.nFpr
  BY <1>0, <1>x, <1>y DEF GprAt, FprAt, FrameEnd
<1>11. Len(r) = FrameEnd(p) - 1
  BY <1>0, <1>9, <1>10
<1>12. r[1] = Instr("daddiu", "sp", -p.usage)
  <2>1. 1 \in 1 .. Len(a) /\ 0 + 1 = 1
    BY <1>3
  <2>2. r[0 + 1] = a[1]
    BY <1>9, <2>1 DEF Holds
  <2> QED BY <1>3, <2>1, <2>2
<1>13. p.ra => r[2] = Instr("sd", "ra", 0)
  <2> SUFFICES ASSUME p.ra PROVE r[2] = Instr("sd", "ra", 0)
    OBVIOUS
  <2>1. 1 \in 1 .. Len(b) /\ 1 + 1 = 2
    BY <1>4 DEF RaSize
  <2>2. r[1 + 1] = b[1]
    BY <1>9, <2>1 DEF Holds
  <2> QED BY <1>4, <2>1, <2>2
<1>14. p.fp => /\ r[2 + x] = Instr("sd", "fp", 8)
               /\ r[3 + x] = Instr("or_t9", "fp", 0)
  <2> SUFFICES ASSUME p.fp PROVE r[2 + x] = Instr("sd", "fp", 8) /\ r[3 + x] = Instr("or_t9", "fp", 0)
    OBVIOUS
  <2>1. 1 \in 1 .. Len(c) /\ 2 \in 1 .. Len(c) /\ 1 + x + 1 = 2 + x /\ 1 + x + 2 = 3 + x
    BY <1>5, <1>10 DEF FpSize
  <2>2. r[1 + x + 1] = c[1] /\ r[1 + x + 2] = c[2]
    BY <1>9, <2>1 DEF Holds
  <2> QED BY <1>5, <2>1, <2>2
<1>15. ASSUME NEW k \in 0 .. p.nGpr - 1
       PROVE  r[GprAt(p) + k] = Instr("sq", GprBackups[p.nGpr - k], p.gprOffset + 16 * k)
  <2>1. PICK j : j = k + 1
    OBVIOUS
  <2>2. j \in 1 .. p.nGpr /\ 1 + x + 2 * y + j = GprAt(p) + k /\ p.nGpr + 1 - j = p.nGpr - k /\ j - 1 = k
    BY <1>0, <1>10, <2>1
  <2>3. r[1 + x + 2 * y + j] = d[j]
    BY <1>6, <1>9, <2>2 DEF Holds
  <2>4. d[j] = Instr("sq", GprBackups[p.nGpr + 1 - j], p.gprOffset + 16 * (j - 1))
    BY <1>6, <2>2
  <2> QED BY <2>2, <2>3, <2>4
<1>16. ASSUME NEW k \in 0 .. p.nFpr - 1
       PROVE  r[FprAt(p) + k] = Instr("swc1", FprBackups[p.nFpr - k], p.fprOffset + 4 * k)
  <2>1. PICK j : j = k + 1
    OBVIOUS
  <2>2. /\ j \in 1 .. p.nFpr /\ 1 + x + 2 * y + p.nGpr + j = FprAt(p) + k
        /\ p.nFpr + 1 - j = p.nFpr - k /\ j - 1 = k
    BY <1>0, <1>10, <2>1
  <2>3. r[1 + x + 2 * y + p.nGpr + j] = e[j]
    BY <1>7, <1>9, <2>2 DEF Holds
  <2>4. e[j] = Instr("swc1", FprBackups[p.nFpr + 1 - j], p.fprOffset + 4 * (j - 1))
    BY <1>7, <2>2
  <2> QED BY <2>2, <2>3, <2>4
<1> QED BY <1>vr, <1>x, <1>9, <1>11, <1>12, <1>13, <1>14, <1>15, <1>16 DEF SavesAre

-----------------------------------------------------------------------------
(* What is compiled                                                         *)

NoRegisters(p) == p.nGpr = 0 /\ p.nFpr = 0

(* The variables with the padding up to the first saved register. *)
BytesOf(p) ==
  (IF p.nGpr > 0 THEN GprStart(p) ELSE IF p.nFpr > 0 THEN FprStart(p) ELSE StackOf(p))
    - VarOffset(p)

(* The frame as it will be recorded. *)
FrameOf(p) ==
  [usage |-> StackOf(p), ra |-> p.ra, fp |-> p.fp, nGpr |-> p.nGpr, gprOffset |-> GprStart(p),
   nFpr |-> p.nFpr, fprOffset |-> FprStart(p), nVars |-> BytesOf(p),
   varOffset |-> VarOffset(p), decoded |-> FALSE, epilogueOk |-> FALSE]

LEMMA AlignsUp ==
  /\ \A n \in Int : n <= Align(n, 16) /\ n <= Align(n, 4)
  /\ \A m \in Int : Align(16 * m, 16) = 16 * m
  /\ \A n \in Int : \E m \in Int : Align(n, 4) = 4 * m
<1>1. \A n \in Int : n <= ((n + 16 - 1) \div 16) * 16 /\ n <= ((n + 4 - 1) \div 4) * 4
  OBVIOUS
<1>2. \A m \in Int : (16 * m + 16 - 1) \div 16 = m
  OBVIOUS
<1>3. \A n \in Int : (n + 4 - 1) \div 4 \in Int
  OBVIOUS
<1> QED BY <1>1, <1>2, <1>3 DEF Align

(* Where the parts of a frame end, each aligned. *)
LEMMA FrameSizes ==
  ASSUME NEW p, IsFrame(p)
  PROVE  /\ p.nGpr \in Nat /\ p.nFpr \in Nat /\ VarOffset(p) \in {0, 8, 16}
         /\ StackOf(p) \in Int /\ GprStart(p) \in Int /\ FprStart(p) \in Int
         /\ VarOffset(p) + p.nVars <= GprStart(p)
         /\ VarOffset(p) + p.nVars <= FprStart(p)
         /\ VarOffset(p) + p.nVars + p.nGpr + p.nFpr <= StackOf(p)
         /\ \E m \in Int : GprStart(p) = 16 * m
         /\ \E m \in Int : FprStart(p) = 4 * m
         /\ \E m \in Int : StackOf(p) = 16 * m
<1>1. /\ p.nGpr \in Nat /\ p.nFpr \in Nat /\ p.nVars \in Nat
  BY BackupFacts DEF IsFrame
<1>2. VarOffset(p) \in {0, 8, 16}
  BY DEF VarOffset
<1>3. PICK w \in Int : w = VarOffset(p) + p.nVars
  BY <1>1, <1>2
<1>4. PICK g \in Int : g = GprStart(p) /\ w <= g /\ \E m \in Int : g = 16 * m
  BY <1>3, AlignsUp, Aligned DEF GprStart
<1>5. PICK f \in Int : f = FprStart(p) /\ w <= f /\ (p.nGpr > 0 => f = g + 16 * p.nGpr)
                       /\ \E m \in Int : f = 4 * m
  <2>1. CASE p.nGpr = 0
    <3>1. FprStart(p) = Align(w, 4)
      BY <1>3, <2>1 DEF FprStart
    <3>2. Align(w, 4) \in Int /\ w <= Align(w, 4) /\ \E m \in Int : Align(w, 4) = 4 * m
      BY AlignsUp, Aligned
    <3> QED BY <1>1, <2>1, <3>1, <3>2
  <2>2. CASE p.nGpr # 0
    <3>1. PICK m \in Int : g = 16 * m
      BY <1>4
    <3>2. PICK h : h = 4 * m + 4 * p.nGpr
      OBVIOUS
    <3>3. h \in Int /\ g + 16 * p.nGpr = 4 * h
      BY <1>1, <3>1, <3>2
    <3>5. g + 16 * p.nGpr \in Int /\ w <= g + 16 * p.nGpr
      <4>1. w <= g /\ p.nGpr \in Nat
        BY <1>1, <1>4
      <4> QED BY <4>1
    <3>4. FprStart(p) = g + 16 * p.nGpr
      BY <1>4, <2>2 DEF FprStart
    <3> QED BY <3>3, <3>4, <3>5
  <2> QED BY <2>1, <2>2
<1>6. PICK z : z = IF p.nFpr > 0 THEN FprStart(p) + 4 * p.nFpr
                   ELSE IF p.nGpr > 0 THEN GprStart(p) + 16 * p.nGpr
                   ELSE VarOffset(p) + p.nVars
  OBVIOUS
<1>7. z \in Int /\ w + p.nGpr + p.nFpr <= z
  <2>1. CASE p.nFpr > 0 /\ p.nGpr > 0
    <3>1. z = g + 16 * p.nGpr + 4 * p.nFpr
      BY <1>5, <1>6, <2>1
    <3> QED BY <1>1, <1>4, <3>1
  <2>2. CASE p.nFpr > 0 /\ p.nGpr = 0
    <3>1. z = f + 4 * p.nFpr
      BY <1>5, <1>6, <2>2
    <3> QED BY <1>1, <1>5, <2>2, <3>1
  <2>3. CASE p.nFpr = 0 /\ p.nGpr > 0
    <3>1. z = g + 16 * p.nGpr
      BY <1>4, <1>6, <2>3
    <3> QED BY <1>1, <1>4, <2>3, <3>1
  <2>4. CASE p.nFpr = 0 /\ p.nGpr = 0
    BY <1>3, <1>6, <2>4
  <2> QED BY <1>1, <2>1, <2>2, <2>3, <2>4
<1>8. StackOf(p) = Align(z, 16)
  BY <1>6 DEF StackOf
<1>9. /\ StackOf(p) \in Int /\ z <= StackOf(p)
      /\ \E m \in Int : StackOf(p) = 16 * m
  BY <1>7, <1>8, AlignsUp, Aligned
<1>10. w + p.nGpr + p.nFpr <= StackOf(p)
  BY <1>1, <1>7, <1>9
<1> QED BY <1>1, <1>2, <1>3, <1>4, <1>5, <1>9, <1>10

(* The frame of a compiled function passes the check of the layout. *)
LEMMA FrameLinesUp ==
  ASSUME NEW p, IsFrame(p), NEW q, q = FrameOf(p)
  PROVE  /\ q \in Prologues
         /\ StackLinesUp(q) /\ q.nVars = VarBytes(q)
         /\ q.usage = 0 => NoRegisters(q) /\ ~q.ra /\ ~q.fp
         /\ Restores(Laid(p)) = Restores(q)
         /\ q.usage = StackOf(p)
<1>1. /\ p.ra \in BOOLEAN /\ p.fp \in BOOLEAN /\ p.nVars \in Nat
      /\ p.nGpr \in 0 .. Len(GprBackups) /\ p.nFpr \in 0 .. Len(FprBackups)
  BY DEF IsFrame
<1>2. /\ p.nGpr \in Nat /\ p.nFpr \in Nat /\ VarOffset(p) \in {0, 8, 16}
      /\ StackOf(p) \in Int /\ GprStart(p) \in Int /\ FprStart(p) \in Int
      /\ VarOffset(p) + p.nVars <= GprStart(p)
      /\ VarOffset(p) + p.nVars <= FprStart(p)
      /\ VarOffset(p) + p.nVars + p.nGpr + p.nFpr <= StackOf(p)
  BY FrameSizes
<1>3. /\ q.usage = StackOf(p) /\ q.ra = p.ra /\ q.fp = p.fp
      /\ q.nGpr = p.nGpr /\ q.gprOffset = GprStart(p)
      /\ q.nFpr = p.nFpr /\ q.fprOffset = FprStart(p) /\ q.nVars = BytesOf(p)
  BY DEF FrameOf
<1>4. q \in Prologues
  <2>1. BytesOf(p) \in Int /\ VarOffset(p) \in Int
    BY <1>2 DEF BytesOf
  <2> QED BY <1>1, <1>2, <2>1 DEF FrameOf, Prologues
<1>5. VarOffset(q) = VarOffset(p)
  BY <1>3 DEF VarOffset
<1>6. q.nVars = VarBytes(q)
  BY <1>3, <1>5 DEF BytesOf, VarBytes
<1>7. Restores(Laid(p)) = Restores(q)
  BY <1>3 DEF Laid, Restores
<1>8. q.usage = 0 => NoRegisters(q) /\ ~q.ra /\ ~q.fp
  <2> SUFFICES ASSUME q.usage = 0 PROVE NoRegisters(q) /\ ~q.ra /\ ~q.fp
    OBVIOUS
  <2>1. VarOffset(p) = 0 /\ p.nGpr = 0 /\ p.nFpr = 0
    BY <1>1, <1>2, <1>3
  <2>2. ~p.ra /\ ~p.fp
    BY <2>1 DEF VarOffset
  <2> QED BY <1>3, <2>1, <2>2 DEF NoRegisters
<1>9. StackLinesUp(q)
  <2>1. PICK o \in Int : o = VarOffset(q) /\ o = VarOffset(p) /\ 0 <= o
    BY <1>2, <1>5
  <2>2. PICK v : v = o + VarBytes(q)
    OBVIOUS
  <2>3. v = IF p.nGpr > 0 THEN GprStart(p) ELSE IF p.nFpr > 0 THEN FprStart(p) ELSE StackOf(p)
    BY <1>2, <1>3, <1>6, <2>1, <2>2 DEF BytesOf
  <2>4. PICK g : g = IF q.nGpr = 0 THEN v ELSE Align(v, 16) + 16 * q.nGpr
    OBVIOUS
  <2>5. PICK f : f = IF q.nFpr = 0 THEN g ELSE Align(g, 4) + 4 * q.nFpr
    OBVIOUS
  <2>6. o <= v /\ v \in Int
    BY <1>1, <1>2, <2>1, <2>3
  <2>7. VarBytes(q) >= 0
    <3>1. VarBytes(q) \in Int
      BY <1>4, VarsTyped
    <3> QED BY <2>1, <2>2, <2>6, <3>1
  <2>8. q.nGpr > 0 => /\ Align(v, 16) = v /\ v = GprStart(p) /\ g = FprStart(p)
                      /\ g = GprStart(p) + 16 * p.nGpr
    <3> SUFFICES ASSUME q.nGpr > 0
        PROVE  /\ Align(v, 16) = v /\ v = GprStart(p) /\ g = FprStart(p)
               /\ g = GprStart(p) + 16 * p.nGpr
      OBVIOUS
    <3>1. v = GprStart(p) /\ q.nGpr # 0
      BY <1>2, <1>3, <2>3
    <3>2. Align(v, 16) = v
      BY <3>1, FrameSizes, AlignsUp
    <3>3. g = GprStart(p) + 16 * p.nGpr
      BY <1>3, <2>4, <3>1, <3>2
    <3> QED BY <1>3, <3>1, <3>2, <3>3 DEF FprStart
  <2>9. q.nGpr > 0 \/ q.nFpr > 0 => g = FprStart(p)
    BY <1>2, <1>3, <2>3, <2>4, <2>8
  <2>10. q.nFpr > 0 => Align(g, 4) = g
    BY <2>9, FrameSizes, Aligned
  <2>11. q.usage = Align(f, 16)
    <3>1. CASE q.nFpr > 0
      <4>1. f = FprStart(p) + 4 * p.nFpr
        BY <1>3, <2>5, <2>9, <2>10, <3>1
      <4> QED BY <1>3, <3>1, <4>1 DEF StackOf
    <3>2. CASE q.nFpr = 0 /\ q.nGpr > 0
      <4>1. f = GprStart(p) + 16 * p.nGpr
        BY <2>5, <2>8, <3>2
      <4> QED BY <1>3, <3>2, <4>1 DEF StackOf
    <3>3. CASE q.nFpr = 0 /\ q.nGpr = 0
      <4>1. f = StackOf(p)
        BY <1>3, <2>3, <2>4, <2>5, <3>3
      <4> QED BY <1>3, <4>1, FrameSizes, AlignsUp
    <3> QED BY <1>2, <1>3, <3>1, <3>2, <3>3
  <2> QED BY <1>3, <2>1, <2>2, <2>4, <2>5, <2>7, <2>8, <2>9, <2>10, <2>11 DEF StackLinesUp
<1> QED BY <1>3, <1>4, <1>6, <1>7, <1>8, <1>9

LEMMA FrameSaves ==
  ASSUME NEW p, IsFrame(p), NEW q, q = FrameOf(p)
  PROVE  /\ Saves(p) \in Seq(Written)
         /\ q.usage # 0 => SavesAre(q, Saves(p))
         /\ q.usage = 0 => Saves(p) = << >>
<1>1. /\ q \in Prologues /\ StackLinesUp(q) /\ q.nVars = VarBytes(q) /\ q.usage = StackOf(p)
      /\ q.usage = 0 => NoRegisters(q) /\ ~q.ra /\ ~q.fp
  BY FrameLinesUp
<1>2. /\ q.ra = p.ra /\ q.fp = p.fp
      /\ q.nGpr = p.nGpr /\ q.gprOffset = GprStart(p)
      /\ q.nFpr = p.nFpr /\ q.fprOffset = FprStart(p)
  BY DEF FrameOf
<1>3. p.nGpr \in Nat /\ p.nFpr \in Nat
  BY FrameSizes
<1>4. CASE q.usage # 0
  <2>1. SavesAre(q, Saves(q))
    BY <1>1, <1>4, SavesShape
  <2>2. /\ StackOf(q) = StackOf(p)
        /\ q.nGpr > 0 => GprStart(q) = GprStart(p)
        /\ q.nFpr > 0 => FprStart(q) = FprStart(p)
    BY <1>1, <1>2, LayoutIsFrame
  <2>3. [k \in 1 .. q.nGpr |-> Instr("sq", GprBackups[q.nGpr + 1 - k], GprStart(q) + 16 * (k - 1))]
      = [k \in 1 .. p.nGpr |-> Instr("sq", GprBackups[p.nGpr + 1 - k], GprStart(p) + 16 * (k - 1))]
    <3>1. CASE q.nGpr > 0
      BY <1>2, <2>2, <3>1
    <3>2. CASE q.nGpr = 0
      <4>1. \A k \in 1 .. 0 : FALSE
        OBVIOUS
      <4> QED BY <1>2, <3>2, <4>1
    <3> QED BY <1>2, <1>3, <3>1, <3>2
  <2>4. [k \in 1 .. q.nFpr |-> Instr("swc1", FprBackups[q.nFpr + 1 - k], FprStart(q) + 4 * (k - 1))]
      = [k \in 1 .. p.nFpr |-> Instr("swc1", FprBackups[p.nFpr + 1 - k], FprStart(p) + 4 * (k - 1))]
    <3>1. CASE q.nFpr > 0
      BY <1>2, <2>2, <3>1
    <3>2. CASE q.nFpr = 0
      <4>1. \A k \in 1 .. 0 : FALSE
        OBVIOUS
      <4> QED BY <1>2, <3>2, <4>1
    <3> QED BY <1>2, <1>3, <3>1, <3>2
  <2>5. Saves(q) = Saves(p)
    BY <1>2, <2>2, <2>3, <2>4 DEF Saves
  <2>6. SavesAre(q, Saves(p))
    BY <2>1, <2>5
  <2> QED BY <1>4, <2>6 DEF SavesAre
<1>5. CASE q.usage = 0
  <2>1. StackOf(p) = 0 /\ p.nGpr = 0 /\ p.nFpr = 0 /\ ~p.ra /\ ~p.fp
    BY <1>1, <1>2, <1>5 DEF NoRegisters
  <2>2. PICK d : d = [k \in 1 .. p.nGpr |-> Instr("sq", GprBackups[p.nGpr + 1 - k],
                                                  GprStart(p) + 16 * (k - 1))]
    OBVIOUS
  <2>3. PICK e : e = [k \in 1 .. p.nFpr |-> Instr("swc1", FprBackups[p.nFpr + 1 - k],
                                                  FprStart(p) + 4 * (k - 1))]
    OBVIOUS
  <2>4. d \in Seq(Written) /\ Len(d) = 0 /\ e \in Seq(Written) /\ Len(e) = 0
    <3>1. d \in [1 .. 0 -> Written] /\ e \in [1 .. 0 -> Written]
      BY <2>1, <2>2, <2>3
    <3> QED BY <3>1, Some
  <2>5. d = << >> /\ e = << >>
    BY <2>4
  <2>6. Saves(p) = << >> \o << >> \o << >> \o d \o e
    BY <2>1, <2>2, <2>3 DEF Saves, If
  <2>7. Saves(p) = << >>
    BY <2>5, <2>6
  <2> QED BY <1>5, <2>7, Nothing
<1> QED BY <1>4, <1>5

Tag == Instr("tag", "", 0)

Nop == Instr("nop", "", 0)

LEMMA InstrFields ==
  ASSUME NEW op, NEW reg, NEW imm
  PROVE  /\ Instr(op, reg, imm).op = op
         /\ Instr(op, reg, imm).reg = reg
         /\ Instr(op, reg, imm).imm = imm
BY DEF Instr

LEMMA ReadingInstr ==
  \A op, reg, imm : Instr(op, reg, imm).reg = reg
BY InstrFields

LEMMA TagAndNop ==
  /\ Tag.op = "tag" /\ Tag.imm = 0 /\ Tag = Instr(Tag.op, Tag.reg, Tag.imm)
  /\ Nop.op = "nop" /\ Nop.imm = 0 /\ Nop = Instr(Nop.op, Nop.reg, Nop.imm)
  /\ Tag.op # "branch" /\ Nop.op # "branch"
  /\ Tag.op # "or_t9" /\ Nop.op # "or_t9"
<1>1. \E e : Tag = Instr("tag", e, 0) /\ Nop = Instr("nop", e, 0)
  BY Zenon DEF Tag, Nop
<1>2. PICK e : Tag = Instr("tag", e, 0) /\ Nop = Instr("nop", e, 0)
  BY <1>1
<1> QED BY <1>2, InstrFields

Codes(B) == Written \cup Range(B) \cup {Tag, Nop}

(* The parts of a compiled function. *)
RowOf(x, h, B, R, c) ==
  /\ c \in Seq(Codes(B))
  /\ h = 1 + Len(Saves(x.frame))
  /\ B = Placed(x.body, h) /\ Len(B) = Len(x.body)
  /\ R = Restores(FrameOf(x.frame))
  /\ Len(c) = h + Len(B) + Len(R) + x.padding
  /\ c[1] = Tag
  /\ Holds(c, 1, Saves(x.frame))
  /\ Holds(c, h, B)
  /\ Holds(c, h + Len(B), R)
  /\ \A k \in 1 .. x.padding : c[h + Len(B) + Len(R) + k] = Nop

LEMMA BodyIsCode ==
  ASSUME NEW b, IsCode(b), NEW h \in Int, NEW B, B = Placed(b, h)
  PROVE  /\ B \in Seq(Range(B)) /\ Len(B) = Len(b) /\ Len(b) \in Nat
         /\ DOMAIN B = 1 .. Len(b) /\ DOMAIN b = 1 .. Len(b)
         /\ \A k \in 1 .. Len(b) :
              /\ B[k] = Instr(B[k].op, B[k].reg, B[k].imm)
              /\ B[k].op = b[k].op /\ B[k].reg = b[k].reg
              /\ B[k].imm = IF b[k].op = "branch" THEN b[k].imm + h ELSE b[k].imm
              /\ b[k].imm \in Int
              /\ B[k].imm \in Int
              /\ B[k].op = "or_t9" => B[k].imm = 0
<1>1. b \in Seq(Range(b))
  BY DEF IsCode
<1>2. DOMAIN b = 1 .. Len(b) /\ Len(b) \in Nat
  BY <1>1
<1>3. B = [k \in 1 .. Len(b) |-> IF b[k].op = "branch" THEN [b[k] EXCEPT !.imm = @ + h] ELSE b[k]]
  BY <1>2 DEF Placed
<1>4. ASSUME NEW k \in 1 .. Len(b)
      PROVE  /\ B[k] = Instr(B[k].op, B[k].reg, B[k].imm)
             /\ B[k].op = b[k].op /\ B[k].reg = b[k].reg
             /\ B[k].imm = IF b[k].op = "branch" THEN b[k].imm + h ELSE b[k].imm
             /\ b[k].imm \in Int /\ B[k].imm \in Int
             /\ B[k].op = "or_t9" => B[k].imm = 0
  <2>1. /\ b[k] = Instr(b[k].op, b[k].reg, b[k].imm) /\ b[k].imm \in Int
        /\ b[k].op = "or_t9" => b[k].imm = 0
    BY <1>2 DEF IsCode
  <2>2. PICK op, reg, imm : op = b[k].op /\ reg = b[k].reg /\ imm = b[k].imm
    OBVIOUS
  <2>3. b[k] = [op |-> op, reg |-> reg, imm |-> imm]
    BY <2>1, <2>2 DEF Instr
  <2>4. CASE op = "branch"
    <3>1. B[k] = [op |-> op, reg |-> reg, imm |-> imm + h]
      BY <1>3, <2>2, <2>3, <2>4
    <3>2. B[k].op = op /\ B[k].reg = reg /\ B[k].imm = imm + h
      BY <3>1
    <3>3. op # "or_t9"
      BY <2>4
    <3> QED BY <2>1, <2>2, <2>4, <3>1, <3>2, <3>3 DEF Instr
  <2>5. CASE op # "branch"
    <3>1. B[k] = b[k]
      BY <1>3, <2>2, <2>5
    <3> QED BY <2>1, <2>2, <2>5, <3>1
  <2> QED BY <2>4, <2>5
<1>5. B \in [1 .. Len(b) -> Range(B)] /\ DOMAIN B = 1 .. Len(b)
  <2>1. DOMAIN B = 1 .. Len(b) /\ B = [k \in 1 .. Len(b) |-> B[k]]
    BY <1>3
  <2>2. \A k \in 1 .. Len(b) : B[k] \in Range(B)
    BY <2>1 DEF Range
  <2> QED BY <2>1, <2>2
<1>6. B \in Seq(Range(B)) /\ Len(B) = Len(b)
  BY <1>2, <1>5, Some
<1> QED BY <1>2, <1>4, <1>5, <1>6

LEMMA RowCompiled ==
  ASSUME NEW x \in Programs, NEW c, c = Compile(x)
  PROVE  \E h \in Nat : \E B, R : RowOf(x, h, B, R, c)
<1>1. IsFrame(x.frame) /\ IsCode(x.body) /\ x.padding \in Nat
  BY ProgramsAssumption DEF IsProgram
<1>s. PICK S : S = Saves(x.frame)
  OBVIOUS
<1>r. PICK R : R = Restores(FrameOf(x.frame))
  OBVIOUS
<1>2. S \in Seq(Written) /\ R \in Seq(Written) /\ R = Restores(Laid(x.frame))
  <2>1. FrameOf(x.frame) \in Prologues /\ Restores(Laid(x.frame)) = R
    BY <1>1, <1>r, FrameLinesUp
  <2> QED BY <1>1, <1>s, <1>r, <2>1, FrameSaves, RestoresShape DEF RestoresAre
<1>h. PICK h : h = 1 + Len(S)
  OBVIOUS
<1>3. h \in Nat
  BY <1>2, <1>h
<1>b. PICK B : B = Placed(x.body, h)
  OBVIOUS
<1>4. B \in Seq(Range(B)) /\ Len(B) = Len(x.body)
  BY <1>1, <1>3, <1>b, BodyIsCode
<1>t. PICK t : t = <<Tag>>
  OBVIOUS
<1>p. PICK P : P = [k \in 1 .. x.padding |-> Nop]
  OBVIOUS
<1>u. PICK T : T = Codes(B)
  OBVIOUS
<1>5. S \in Seq(T)
  <2>1. \A w \in Written : w \in T
    BY <1>u DEF Codes
  <2> QED BY <1>2, <2>1
<1>6. R \in Seq(T)
  <2>1. \A w \in Written : w \in T
    BY <1>u DEF Codes
  <2> QED BY <1>2, <2>1
<1>7. B \in Seq(T)
  <2>1. \A w \in Range(B) : w \in T
    BY <1>u DEF Codes
  <2> QED BY <1>4, <2>1
<1>8. t \in Seq(T) /\ Len(t) = 1 /\ t[1] = Tag
  <2>1. Tag \in T
    BY <1>u DEF Codes
  <2> QED BY <1>t, <2>1
<1>9. P \in Seq(T) /\ Len(P) = x.padding /\ \A k \in 1 .. x.padding : P[k] = Nop
  <2>1. Nop \in T
    BY <1>u DEF Codes
  <2>2. P \in [1 .. x.padding -> T]
    BY <1>p, <2>1
  <2> QED BY <1>1, <1>p, <2>2, Some
<1>10. InRow(t, S, B, R, P, c)
  <2>1. Len(t \o S) = h
    <3>1. t \in Seq(T) /\ S \in Seq(T)
      BY <1>5, <1>8
    <3>2. Len(t \o S) = Len(t) + Len(S)
      BY <3>1
    <3> QED BY <1>8, <1>h, <3>2
  <2>2. c = (t \o S) \o Placed(x.body, Len(t \o S)) \o R \o P
    BY <1>s, <1>2, <1>t, <1>p DEF Compile, Tag, Nop
  <2> QED BY <1>b, <2>1, <2>2 DEF InRow
<1>11. RowHolds(T, t, S, B, R, P, c)
  BY <1>5, <1>6, <1>7, <1>8, <1>9, <1>10, FiveJoined
<1>12. /\ c \in Seq(T) /\ Len(c) = h + Len(B) + Len(R) + x.padding
       /\ Holds(c, 0, t) /\ Holds(c, 1, S) /\ Holds(c, h, B) /\ Holds(c, h + Len(B), R)
       /\ Holds(c, h + Len(B) + Len(R), P)
  <2>1. h = Len(t) + Len(S) /\ Len(t) = 1 /\ Len(P) = x.padding
    BY <1>8, <1>9, <1>h
  <2> QED BY <1>11, <2>1 DEF RowHolds
<1>13. c[1] = Tag
  <2>1. 1 \in 1 .. Len(t) /\ 0 + 1 = 1
    BY <1>8
  <2> QED BY <1>8, <1>12, <2>1 DEF Holds
<1>14. \A k \in 1 .. x.padding : c[h + Len(B) + Len(R) + k] = Nop
  BY <1>9, <1>12 DEF Holds
<1>15. RowOf(x, h, B, R, c)
  BY <1>s, <1>r, <1>h, <1>b, <1>u, <1>4, <1>12, <1>13, <1>14 DEF RowOf
<1> QED BY <1>3, <1>15

(* What is compiled is a function. *)
LEMMA CompiledAreFunctions == ASSUME NEW c \in Compiled PROVE IsFunction(c)
<1>1. PICK x \in Programs : c = Compile(x)
  BY DEF Compiled
<1>2. PICK h \in Nat : \E B, R : RowOf(x, h, B, R, c)
  BY <1>1, RowCompiled
<1>3. PICK B, R : RowOf(x, h, B, R, c)
  BY <1>2
<1>4. IsFrame(x.frame) /\ IsCode(x.body) /\ x.padding \in Nat
  BY ProgramsAssumption DEF IsProgram
<1>5. /\ c \in Seq(Codes(B)) /\ Len(c) = h + Len(B) + Len(R) + x.padding /\ c[1] = Tag
      /\ B = Placed(x.body, h)
  BY <1>3 DEF RowOf
<1>6. ASSUME NEW u \in Codes(B)
      PROVE  u = Instr(u.op, u.reg, u.imm) /\ u.imm \in Int /\ (u.op = "or_t9" => u.imm = 0)
  <2>1. CASE u \in Written
    BY <2>1 DEF Written, Instr
  <2>2. CASE u \in Range(B)
    <3>1. PICK k \in DOMAIN B : u = B[k]
      BY <2>2 DEF Range
    <3> QED BY <1>4, <1>5, <3>1, BodyIsCode
  <2>3. CASE u \in {Tag, Nop}
    BY <2>3, TagAndNop
  <2> QED BY <2>1, <2>2, <2>3 DEF Codes
<1>7. DOMAIN c = 1 .. Len(c) /\ \A i \in DOMAIN c : c[i] \in Codes(B)
  BY <1>5
<1>8. c \in Seq(Range(c))
  <2>1. \A i \in 1 .. Len(c) : c[i] \in Range(c)
    BY <1>7 DEF Range
  <2>2. c \in [1 .. Len(c) -> Range(c)] /\ Len(c) \in Nat
    BY <1>5, <2>1
  <2> QED BY <2>2, Some
<1>9. IsCode(c)
  BY <1>6, <1>7, <1>8 DEF IsCode
<1>10. c # << >>
  <2>1. /\ h \in Nat /\ h >= 1
    <3>1. Saves(x.frame) \in Seq(Written)
      BY <1>4, FrameSaves
    <3> QED BY <1>3, <3>1 DEF RowOf
  <2>2. Len(B) \in Nat /\ Len(R) \in Nat
    <3>1. FrameOf(x.frame) \in Prologues
      BY <1>4, FrameLinesUp
    <3>2. R \in Seq(Written)
      BY <1>3, <3>1, RestoresShape DEF RowOf, RestoresAre
    <3> QED BY <1>4, <1>5, <3>2, BodyIsCode
  <2>3. Len(c) >= 1
    BY <1>4, <1>5, <2>1, <2>2
  <2> QED BY <2>3
<1>11. c[1].op # "branch"
  BY <1>5, TagAndNop
<1> QED BY <1>9, <1>10, <1>11 DEF IsFunction

(* The function that is analysed. *)
LEMMA CodeIsFunction == ASSUME code \in Compiled \cup Others PROVE IsFunction(code)
BY BackupsAssumption, CompiledAreFunctions

-----------------------------------------------------------------------------
(* The function and its blocks                                              *)

LEMMA CodeFacts ==
  ASSUME code \in Compiled \cup Others
  PROVE  /\ size \in Nat /\ size >= 1
         /\ \A i : InRange(i) => Imm(i) \in Int
         /\ Branches \subseteq 0 .. size - 1
         /\ 0 \notin Branches
         /\ \A i \in 1 .. size : code[i] = Instr(code[i].op, code[i].reg, code[i].imm)
<1>1. IsFunction(code)
  BY CodeIsFunction
<1>2. code \in Seq(Range(code)) /\ code # << >> /\ DOMAIN code = 1 .. Len(code) /\ Len(code) \in Nat
  BY <1>1 DEF IsFunction, IsCode
<1>3. size \in Nat /\ size >= 1
  BY <1>2 DEF size
<1>4. \A i \in DOMAIN code : /\ code[i] = Instr(code[i].op, code[i].reg, code[i].imm)
                             /\ code[i].imm \in Int
  BY <1>1 DEF IsFunction, IsCode
<1>5. code[1].op # "branch"
  BY <1>1 DEF IsFunction, IsCode
<1>6. \A i : InRange(i) => i + 1 \in DOMAIN code
  BY <1>2, <1>3 DEF InRange, size
<1>7. 0 \notin Branches
  <2>1. 0 + 1 = 1
    OBVIOUS
  <2> QED BY <1>5, <2>1 DEF Branches
<1> QED BY <1>2, <1>3, <1>4, <1>6, <1>7 DEF Imm, size, Branches

AllInside == \A i \in Branches : BranchInside(i)

LEMMA DividerFacts ==
  ASSUME code \in Compiled \cup Others, AllInside
  PROVE  /\ Dividers \in SUBSET Int /\ IsFiniteSet(Dividers)
         /\ 0 \in Dividers /\ size \in Dividers /\ 0 < size
         /\ \A x \in Dividers : 0 <= x /\ x <= size
         /\ \A i \in Branches : i \in Int /\ i < size - 1 /\ i + 2 \in Dividers
                                /\ Target(i) \in Dividers /\ 0 < Target(i)
                                /\ Target(i) < size - 1
<1>1. size \in Nat /\ size >= 1
  BY CodeFacts
<1>2. ASSUME NEW i \in Branches
      PROVE  /\ i \in 0 .. size - 1 /\ i < size - 1
             /\ Target(i) \in Int /\ 0 < Target(i) /\ Target(i) < size - 1
             /\ i + 2 \in 0 .. size /\ Target(i) \in 0 .. size
  <2>1. i \in 0 .. size - 1 /\ Imm(i) \in Int
    BY CodeFacts DEF InRange
  <2>2. i < size - 1 /\ 0 < Target(i) /\ Target(i) < size - 1
    BY DEF AllInside, BranchInside
  <2> QED BY <1>1, <2>1, <2>2 DEF Target
<1>3. Dividers \in SUBSET (0 .. size)
  BY <1>1, <1>2 DEF Dividers
<1>4. IsFiniteSet(Dividers)
  <2>1. 0 \in Int /\ size \in Int
    BY <1>1
  <2>2. IsFiniteSet(0 .. size)
    BY <2>1, FS_Interval
  <2> QED BY <1>3, <2>2, FS_Subset
<1>5. \A x \in Dividers : x \in Int /\ 0 <= x /\ x <= size
  BY <1>1, <1>3
<1>6. /\ 0 \in Dividers /\ size \in Dividers
      /\ \A i \in Branches : i + 2 \in Dividers /\ Target(i) \in Dividers
  BY DEF Dividers
<1> QED BY <1>1, <1>2, <1>4, <1>5, <1>6

(* The blocks that find_blocks_in_function makes. *)
Whole == BlocksBetween(Dividers)

LEMMA WholeDivides ==
  ASSUME code \in Compiled \cup Others, AllInside
  PROVE  Divide(Whole, Dividers, 0, size)
<1> PICK bs : bs = Whole
  OBVIOUS
<1>1. Divide(bs, Dividers, 0, size)
  BY DividerFacts, BetweenDivides DEF Whole
<1> QED BY <1>1

(* Every target is the start of a block but the first. *)
LEMMA TargetsAreStarts ==
  ASSUME code \in Compiled \cup Others, AllInside, NEW i \in Branches
  PROVE  \E k \in 1 .. Len(Whole) : k # 1 /\ Whole[k].start = Target(i)
<1> PICK bs : bs = Whole
  OBVIOUS
<1> PICK t : t = Target(i)
  OBVIOUS
<1> PICK n : n = Cardinality({y \in Dividers : y < t})
  OBVIOUS
<1> PICK c : c = Cardinality(Dividers)
  OBVIOUS
<1>1. /\ t \in Dividers /\ t \in Int /\ 0 < t /\ t < size - 1 /\ size \in Nat
      /\ c \in Nat
  BY DividerFacts, CodeFacts, FS_CardinalityType
<1>2. /\ Divide(bs, Dividers, 0, size) /\ Len(bs) = c - 1
      /\ \A k \in 1 .. Len(bs) : bs[k].start = Nth(Dividers, k - 1)
  BY DividerFacts, BetweenDivides DEF Whole
<1>3. n \in 0 .. c - 1 /\ Nth(Dividers, n) = t
  BY <1>1, DividerFacts, NthOfRank
<1>4. Nth(Dividers, c - 1) = size
  BY DividerFacts, NthLast
<1>5. n # c - 1
  BY <1>1, <1>3, <1>4
<1> PICK k : k = n + 1
  OBVIOUS
<1>6. k \in 1 .. Len(bs) /\ k - 1 = n
  BY <1>1, <1>2, <1>3, <1>5
<1>7. bs[k].start = t
  BY <1>2, <1>3, <1>6
<1>8. bs[1].start = 0
  BY <1>2 DEF Divide
<1> QED BY <1>1, <1>6, <1>7, <1>8

-----------------------------------------------------------------------------
(* Steps                                                                    *)

Shape ==
  /\ code \in Compiled \cup Others
  /\ prologue \in Prologues
  /\ prologueEnd \in Int /\ epilogueStart \in Int /\ epilogueEnd \in Int
  /\ idx \in Int

LEMMA InitShape == ASSUME Init PROVE Shape
<1>1. 0 \in 0 .. Len(GprBackups) /\ 0 \in 0 .. Len(FprBackups)
  BY BackupFacts
<1>2. /\ code \in Compiled \cup Others
      /\ prologueEnd = -1 /\ epilogueStart = -1 /\ epilogueEnd = -1 /\ idx = 0
      /\ prologue = [usage |-> -1, ra |-> FALSE, fp |-> FALSE,
                     nGpr |-> 0, gprOffset |-> -1, nFpr |-> 0, fprOffset |-> -1,
                     nVars |-> 0, varOffset |-> -1, decoded |-> FALSE, epilogueOk |-> FALSE]
  BY DEF Init
<1> QED BY <1>1, <1>2 DEF Shape, Prologues

(* The stores of a run are as many as the list of registers has, in order. *)
LEMMA RunFits ==
  ASSUME NEW n \in Nat, NEW width \in Int, NEW backups, Len(backups) \in Nat,
         ~Fails(n, width, backups), ~OutOfOrder(n, width, backups)
  PROVE  /\ n <= Len(backups)
         /\ \A k \in 0 .. n - 1 : ~Misplaced(k, width) /\ ~WrongRegister(k, n, backups)
<1>1. \A k \in 0 .. n - 1 : ~WrongRegister(k, n, backups)
  BY DEF OutOfOrder
<1>2. ASSUME NEW k \in 0 .. n - 1 PROVE ~Misplaced(k, width)
  <2>1. \A j \in 0 .. k - 1 : j \in 0 .. n - 1
    OBVIOUS
  <2> QED BY <1>1, <2>1 DEF Fails
<1>3. n <= Len(backups)
  BY DEF Fails
<1> QED BY <1>1, <1>2, <1>3

Decoding == {"stack", "ra", "fp", "gprs", "fprs", "layout"}

(* The steps of the prologue, by what they do. *)
FindsBlocks ==
  /\ pc = "blocks" /\ AllInside
  /\ blocks' = Whole
  /\ pc' = "stack" /\ idx' = 1
  /\ UNCHANGED <<code, compiled, prologue, asm, prologueEnd, epilogueStart, epilogueEnd>>

FindsStack ==
  /\ pc = "stack" /\ InRange(idx)
  /\ \/ /\ Is(idx, "daddiu", "sp") /\ Imm(idx) # 0
        /\ prologue' = [prologue EXCEPT !.usage = -Imm(idx)]
        /\ pc' = "ra" /\ idx' = idx + 1
     \/ /\ prologue' = [prologue EXCEPT !.usage = 0]
        /\ pc' = "trim" /\ idx' \in {idx, idx + 1}
  /\ prologueEnd' = 1
  /\ UNCHANGED <<code, compiled, blocks, asm, epilogueStart, epilogueEnd>>

FindsRa ==
  /\ pc = "ra" /\ InRange(idx) /\ pc' = "fp"
  /\ \/ /\ Is(idx, "sd", "ra") /\ Imm(idx) = 0
        /\ prologue' = [prologue EXCEPT !.ra = TRUE] /\ idx' = idx + 1
     \/ prologue' = prologue /\ idx' = idx
  /\ UNCHANGED <<code, compiled, blocks, asm, prologueEnd, epilogueStart, epilogueEnd>>

FindsFp ==
  /\ pc = "fp" /\ InRange(idx) /\ pc' = "gprs"
  /\ \/ /\ Is(idx, "sd", "fp") /\ Imm(idx) = 8 /\ Is(idx + 1, "or_t9", "fp")
        /\ prologue' = [prologue EXCEPT !.fp = TRUE] /\ idx' = idx + 2
     \/ prologue' = prologue /\ idx' = idx
  /\ UNCHANGED <<code, compiled, blocks, asm, prologueEnd, epilogueStart, epilogueEnd>>

Ordered(n, width, backups) ==
  /\ n <= Len(backups)
  /\ \A k \in 0 .. n - 1 : ~Misplaced(k, width) /\ ~WrongRegister(k, n, backups)

FindsGprs(n) ==
  /\ pc = "gprs" /\ pc' \in {"fprs", "layout"} /\ idx' = idx + n
  /\ IsRun(n, GprStores) /\ Ordered(n, 16, GprBackups)
  /\ prologue' = [prologue EXCEPT !.nGpr = n, !.gprOffset = IF n = 0 THEN @ ELSE Imm(idx)]
  /\ UNCHANGED <<code, compiled, blocks, asm, prologueEnd, epilogueStart, epilogueEnd>>

FindsFprs(n) ==
  /\ pc = "fprs" /\ pc' = "layout" /\ idx' = idx + n
  /\ IsRun(n, FprStores) /\ Ordered(n, 4, FprBackups)
  /\ prologue' = [prologue EXCEPT !.nFpr = n, !.fprOffset = IF n = 0 THEN @ ELSE Imm(idx)]
  /\ UNCHANGED <<code, compiled, blocks, asm, prologueEnd, epilogueStart, epilogueEnd>>

ChecksLayout ==
  /\ pc = "layout" /\ pc' = "trim" /\ idx' = idx
  /\ StackLinesUp(prologue)
  /\ prologue' = [prologue EXCEPT !.varOffset = VarOffset(prologue),
                                  !.nVars = VarBytes(prologue)]
  /\ prologueEnd' = idx
  /\ UNCHANGED <<code, compiled, blocks, asm, epilogueStart, epilogueEnd>>

Trims ==
  /\ pc = "trim" /\ pc' = "padding" /\ idx' = size - 1
  /\ ~(blocks[1].end < prologueEnd)
  /\ blocks' = [blocks EXCEPT ![1].start = prologueEnd]
  /\ prologue' = [prologue EXCEPT !.decoded = TRUE]
  /\ UNCHANGED <<code, compiled, asm, prologueEnd, epilogueStart, epilogueEnd>>

SkipsNop ==
  /\ pc = "padding" /\ pc' = "padding" /\ idx' = idx - 1
  /\ Is(idx, "nop", "")
  /\ UNCHANGED <<code, compiled, found>>

FindsReturn ==
  /\ pc = "padding" /\ pc' = "epilogue" /\ InRange(idx)
  /\ \/ idx' = idx
     \/ Is(idx, "daddu_r0", "sp") /\ Is(idx - 1, "jr", "ra") /\ idx' = idx - 2
  /\ epilogueEnd' = idx
  /\ UNCHANGED <<code, compiled, blocks, prologue, asm, prologueEnd, epilogueStart>>

Accepts(start) ==
  /\ pc = "epilogue" /\ pc' = "done" /\ idx' = idx
  /\ start = idx + 1 - Len(Restores(prologue))
  /\ start >= 0 /\ Between(start, idx + 1) = Restores(prologue)
  /\ ~(start < blocks[Len(blocks)].start)
  /\ blocks' = [blocks EXCEPT ![Len(blocks)].end = start]
  /\ prologue' = [prologue EXCEPT !.epilogueOk = TRUE]
  /\ epilogueStart' = start
  /\ UNCHANGED <<code, compiled, asm, prologueEnd, epilogueEnd>>

(* A failed assert, or a function that is left alone. *)
Stops ==
  /\ pc \in Decoding \cup {"blocks", "trim", "padding", "epilogue"}
  /\ pc' \in {"aborted", "done"}
  /\ UNCHANGED <<code, compiled, blocks, prologue, prologueEnd, epilogueStart, epilogueEnd, idx>>

Finds == \/ FindsStack \/ FindsRa \/ FindsFp
         \/ (\E n \in Nat : FindsGprs(n)) \/ (\E n \in Nat : FindsFprs(n))
         \/ ChecksLayout

Moves == \/ FindsBlocks \/ Finds \/ Trims \/ SkipsNop \/ FindsReturn
         \/ (\E start \in Int : Accepts(start))
         \/ Stops

RestoresType == Len(Restores(prologue)) \in Nat

LEMMA NextCases ==
  ASSUME Shape, RestoresType, [Next]_vars
  PROVE  Moves \/ UNCHANGED vars
<1>1. size \in Nat /\ idx \in Int
  BY CodeFacts DEF Shape
<1>2. CASE FindBlocks
  BY <1>2 DEF FindBlocks, FindsBlocks, Whole, AllInside, Goto, Abort, Stops, found, Moves
<1>3. CASE ReadsPast \/ StoresSp \/ StoresS7
  BY <1>3 DEF ReadsPast, StoresSp, StoresS7, Suspect, Abort, Stops, found, Decoding, Moves
<1>4. CASE ReadStackUse
  <2>1. InRange(idx) => Imm(idx) \in Int
    BY CodeFacts DEF Shape
  <2>2. FindsStack
    <3>1. CASE Is(idx, "daddiu", "sp") /\ Imm(idx) # 0
      <4>0. InRange(idx)
        BY <1>4 DEF ReadStackUse
      <4>1. -Imm(idx) # 0
        BY <2>1, <3>1, <4>0
      <4>2. /\ pc = "stack" /\ InRange(idx) /\ prologueEnd' = 1
            /\ prologue' = [prologue EXCEPT !.usage = -Imm(idx)]
            /\ pc' = "ra" /\ idx' = idx + 1
            /\ UNCHANGED <<code, compiled, blocks, asm, epilogueStart, epilogueEnd>>
        BY <1>4, <3>1, <4>1 DEF ReadStackUse, Goto
      <4> QED BY <3>1, <4>2 DEF FindsStack
    <3>2. CASE Is(idx, "daddiu", "sp") /\ Imm(idx) = 0
      <4>0. Imm(idx) = 0 /\ \A x \in Int : x = 0 => -x = 0
        BY <3>2
      <4>1. -Imm(idx) = 0
        <5>1. Imm(idx) \in Int
          BY <4>0
        <5> QED BY <4>0, <5>1
      <4>2. /\ pc = "stack" /\ InRange(idx) /\ prologueEnd' = 1
            /\ prologue' = [prologue EXCEPT !.usage = 0]
            /\ pc' = "trim" /\ idx' = idx + 1
            /\ UNCHANGED <<code, compiled, blocks, asm, epilogueStart, epilogueEnd>>
        BY <1>4, <3>2, <4>1 DEF ReadStackUse, Goto
      <4> QED BY <4>2 DEF FindsStack
    <3>3. CASE ~Is(idx, "daddiu", "sp")
      <4>1. /\ pc = "stack" /\ InRange(idx) /\ prologueEnd' = 1
            /\ prologue' = [prologue EXCEPT !.usage = 0]
            /\ pc' = "trim" /\ idx' = idx
            /\ UNCHANGED <<code, compiled, blocks, asm, epilogueStart, epilogueEnd>>
        BY <1>4, <3>3 DEF ReadStackUse, Goto
      <4> QED BY <4>1 DEF FindsStack
    <3> QED BY <3>1, <3>2, <3>3
  <2> QED BY <2>2 DEF Moves, Finds
<1>5. CASE BackupRa \/ NoRaBackup
  BY <1>5 DEF BackupRa, NoRaBackup, Learn, Goto, Abort, FindsRa, Stops, Decoding, found, Is,
     Moves, Finds
<1>6. CASE BackupFp \/ NoFpBackup
  BY <1>6 DEF BackupFp, NoFpBackup, Learn, Goto, Abort, FindsFp, Stops, Decoding, found, Is,
     Moves, Finds
<1>7. ASSUME NEW n \in 0 .. size, BackupGprs(n) PROVE Moves
  <2>1. \/ Suspect /\ pc = "gprs"
        \/ Abort /\ pc = "gprs"
        \/ /\ ~Fails(n, 16, GprBackups) /\ ~OutOfOrder(n, 16, GprBackups)
           /\ pc = "gprs" /\ IsRun(n, GprStores)
           /\ Learn([prologue EXCEPT !.nGpr = n,
                                     !.gprOffset = IF n = 0 THEN @ ELSE Imm(idx)])
           /\ pc' \in {"fprs", "layout"} /\ idx' = idx + n
    BY <1>7 DEF BackupGprs, Goto
  <2>2. n \in Nat
    BY <1>1
  <2>3. CASE /\ ~Fails(n, 16, GprBackups) /\ ~OutOfOrder(n, 16, GprBackups)
             /\ pc = "gprs" /\ IsRun(n, GprStores)
             /\ Learn([prologue EXCEPT !.nGpr = n,
                                       !.gprOffset = IF n = 0 THEN @ ELSE Imm(idx)])
             /\ pc' \in {"fprs", "layout"} /\ idx' = idx + n
    <3>0. Len(GprBackups) \in Nat /\ 16 \in Int
      BY BackupFacts
    <3>1. Ordered(n, 16, GprBackups)
      BY <2>2, <2>3, <3>0, RunFits DEF Ordered
    <3>2. FindsGprs(n)
      BY <2>3, <3>1 DEF FindsGprs, Learn
    <3> QED BY <2>2, <3>2 DEF Moves, Finds
  <2>4. CASE (Suspect \/ Abort) /\ pc = "gprs"
    BY <2>4 DEF Suspect, Abort, found, Stops, Decoding, Moves
  <2> QED BY <2>1, <2>3, <2>4
<1>8. ASSUME NEW n \in 0 .. size, BackupFprs(n) PROVE Moves
  <2>1. \/ Suspect /\ pc = "fprs"
        \/ Abort /\ pc = "fprs"
        \/ /\ ~Fails(n, 4, FprBackups) /\ ~OutOfOrder(n, 4, FprBackups)
           /\ pc = "fprs" /\ IsRun(n, FprStores)
           /\ Learn([prologue EXCEPT !.nFpr = n,
                                     !.fprOffset = IF n = 0 THEN @ ELSE Imm(idx)])
           /\ pc' = "layout" /\ idx' = idx + n
    BY <1>8 DEF BackupFprs, Goto
  <2>2. n \in Nat
    BY <1>1
  <2>3. CASE /\ ~Fails(n, 4, FprBackups) /\ ~OutOfOrder(n, 4, FprBackups)
             /\ pc = "fprs" /\ IsRun(n, FprStores)
             /\ Learn([prologue EXCEPT !.nFpr = n,
                                       !.fprOffset = IF n = 0 THEN @ ELSE Imm(idx)])
             /\ pc' = "layout" /\ idx' = idx + n
    <3>1. Ordered(n, 4, FprBackups)
      BY <2>2, <2>3, RunFits, BackupFacts DEF Ordered
    <3>2. FindsFprs(n)
      BY <2>3, <3>1 DEF FindsFprs, Learn
    <3> QED BY <2>2, <3>2 DEF Moves, Finds
  <2>4. CASE (Suspect \/ Abort) /\ pc = "fprs"
    BY <2>4 DEF Suspect, Abort, found, Stops, Decoding, Moves
  <2> QED BY <2>1, <2>3, <2>4
<1>9. CASE CheckLayout
  BY <1>9 DEF CheckLayout, ChecksLayout, Goto, Abort, found, Stops, Decoding, Moves, Finds
<1>10. CASE TrimFirstBlock
  BY <1>10 DEF TrimFirstBlock, Trims, Goto, Abort, found, Stops, Moves
<1>11. CASE SkipNop
  BY <1>11 DEF SkipNop, SkipsNop, Goto, Moves
<1>12. CASE SkipDoubleReturn
  BY <1>12 DEF SkipDoubleReturn, FindsReturn, Goto, Abort, found, Stops, Moves
<1>13. CASE CheckEpilogue
  <2> PICK start : start = idx + 1 - Len(Restores(prologue))
    OBVIOUS
  <2>1. start \in Int
    BY <1>1 DEF RestoresType
  <2>2. CASE Abort
    BY <1>13, <2>2 DEF CheckEpilogue, Abort, found, Stops, Moves
  <2>3. CASE ~Abort
    <3>1. Accepts(start)
      BY <1>13, <2>1, <2>3 DEF CheckEpilogue, Accepts, Goto
    <3> QED BY <2>1, <3>1 DEF Moves
  <2> QED BY <2>2, <2>3
<1>14. CASE Finished
  BY <1>14 DEF Finished
<1> QED BY <1>2, <1>3, <1>4, <1>5, <1>6, <1>7, <1>8, <1>9, <1>10, <1>11, <1>12, <1>13, <1>14
     DEF Next

-----------------------------------------------------------------------------
(* What a function begins and ends with                                     *)

LEMMA RestoresAreTyped == ASSUME Shape PROVE RestoresType
<1> PICK p : p = prologue
  OBVIOUS
<1>1. p \in Prologues
  BY DEF Shape
<1>2. Restores(p) \in Seq(Written)
  BY <1>1, RestoresShape DEF RestoresAre
<1>3. Len(Restores(p)) \in Nat
  BY <1>2
<1> QED BY <1>3 DEF RestoresType

-----------------------------------------------------------------------------
(* The shape stays                                                          *)

LEMMA ImmTyped ==
  ASSUME Shape, NEW i, InRange(i)
  PROVE  Imm(i) \in Int
BY CodeFacts DEF Shape

(* The fields of a prologue that a step writes. *)
LEMMA ProloguesStay ==
  ASSUME NEW p \in Prologues
  PROVE  /\ \A x \in Int : [p EXCEPT !.usage = x] \in Prologues
         /\ [p EXCEPT !.ra = TRUE] \in Prologues
         /\ [p EXCEPT !.fp = TRUE] \in Prologues
         /\ \A n \in 0 .. Len(GprBackups), x \in Int :
              [p EXCEPT !.nGpr = n, !.gprOffset = x] \in Prologues
         /\ \A n \in 0 .. Len(FprBackups), x \in Int :
              [p EXCEPT !.nFpr = n, !.fprOffset = x] \in Prologues
         /\ \A x, y \in Int : [p EXCEPT !.varOffset = x, !.nVars = y] \in Prologues
         /\ [p EXCEPT !.decoded = TRUE] \in Prologues
         /\ [p EXCEPT !.epilogueOk = TRUE] \in Prologues
BY DEF Prologues

LEMMA RunOffset ==
  ASSUME Shape, NEW n \in Nat, NEW stores, IsRun(n, stores), stores \subseteq 0 .. size - 1,
         NEW offset \in Int
  PROVE  (IF n = 0 THEN offset ELSE Imm(idx)) \in Int
<1>1. CASE n # 0
  <2>1. idx \in idx .. idx + n - 1
    BY <1>1 DEF Shape
  <2>2. InRange(idx)
    BY <2>1 DEF IsRun, InRange
  <2> QED BY <1>1, <2>2, ImmTyped
<1> QED BY <1>1

LEMMA ShapeStays == ASSUME Shape, Moves PROVE Shape'
<1> PICK p : p = prologue
  OBVIOUS
<1> PICK i : i = idx
  OBVIOUS
<1>0. /\ code \in Compiled \cup Others /\ p \in Prologues /\ i \in Int
      /\ prologueEnd \in Int /\ epilogueStart \in Int /\ epilogueEnd \in Int /\ size \in Int
  BY CodeFacts DEF Shape
<1>1. code' = code
  BY DEF Moves, Finds, FindsBlocks, FindsStack, FindsRa, FindsFp, FindsGprs, FindsFprs, ChecksLayout,
     Trims, SkipsNop, FindsReturn, Accepts, Stops
<1>2. /\ prologueEnd' \in Int /\ epilogueStart' \in Int /\ epilogueEnd' \in Int
  <2>1. prologueEnd' \in {prologueEnd, 1, idx}
    BY DEF Moves, Finds, FindsBlocks, FindsStack, FindsRa, FindsFp, FindsGprs, FindsFprs,
       ChecksLayout, Trims, SkipsNop, FindsReturn, Accepts, Stops, found
  <2>2. epilogueStart' = epilogueStart \/ epilogueStart' \in Int
    BY DEF Moves, Finds, FindsBlocks, FindsStack, FindsRa, FindsFp, FindsGprs, FindsFprs,
       ChecksLayout, Trims, SkipsNop, FindsReturn, Accepts, Stops, found
  <2>3. epilogueEnd' \in {epilogueEnd, idx}
    BY DEF Moves, Finds, FindsBlocks, FindsStack, FindsRa, FindsFp, FindsGprs, FindsFprs,
       ChecksLayout, Trims, SkipsNop, FindsReturn, Accepts, Stops, found
  <2>4. 1 \in Int
    OBVIOUS
  <2> QED BY <1>0, <2>1, <2>2, <2>3, <2>4
<1>3. idx' \in Int
  <2>1. \A n \in Nat : i + n \in Int
    BY <1>0
  <2>2. i + 1 \in Int /\ i + 2 \in Int /\ i - 1 \in Int /\ i - 2 \in Int /\ size - 1 \in Int /\ 1 \in Int
    BY <1>0
  <2> QED BY <1>0, <2>1, <2>2 DEF Moves, Finds, FindsBlocks, FindsStack, FindsRa, FindsFp, FindsGprs,
     FindsFprs, ChecksLayout, Trims, SkipsNop, FindsReturn, Accepts, Stops
<1>4. prologue' \in Prologues
  <2>1. CASE FindsBlocks \/ SkipsNop \/ FindsReturn \/ Stops
    BY <1>0, <2>1 DEF FindsBlocks, SkipsNop, FindsReturn, Stops, found
  <2>2. CASE FindsStack
    <3>1. InRange(idx) => -Imm(idx) \in Int
      <4>1. InRange(idx) => Imm(idx) \in Int
        BY ImmTyped
      <4> QED BY <4>1
    <3>2. 0 \in Int
      OBVIOUS
    <3> QED BY <1>0, <2>2, <3>1, <3>2, ProloguesStay DEF FindsStack
  <2>3. CASE FindsRa \/ FindsFp
    BY <1>0, <2>3, ProloguesStay DEF FindsRa, FindsFp
  <2>4. ASSUME NEW n \in Nat, FindsGprs(n) PROVE prologue' \in Prologues
    <3>1. n \in 0 .. Len(GprBackups)
      BY <2>4, BackupFacts DEF FindsGprs, Ordered
    <3>2. PICK x : x = IF n = 0 THEN p.gprOffset ELSE Imm(idx)
      OBVIOUS
    <3>3. x \in Int
      <4>1. IsRun(n, GprStores) /\ GprStores \subseteq 0 .. size - 1 /\ p.gprOffset \in Int
        BY <1>0, <2>4 DEF FindsGprs, GprStores, Prologues
      <4> QED BY <3>2, <4>1, RunOffset
    <3>4. prologue' = [p EXCEPT !.nGpr = n, !.gprOffset = x]
      BY <2>4, <3>2 DEF FindsGprs
    <3> QED BY <1>0, <3>1, <3>3, <3>4, ProloguesStay
  <2>5. ASSUME NEW n \in Nat, FindsFprs(n) PROVE prologue' \in Prologues
    <3>1. n \in 0 .. Len(FprBackups)
      BY <2>5, BackupFacts DEF FindsFprs, Ordered
    <3>2. PICK x : x = IF n = 0 THEN p.fprOffset ELSE Imm(idx)
      OBVIOUS
    <3>3. x \in Int
      <4>1. IsRun(n, FprStores) /\ FprStores \subseteq 0 .. size - 1 /\ p.fprOffset \in Int
        BY <1>0, <2>5 DEF FindsFprs, FprStores, Prologues
      <4> QED BY <3>2, <4>1, RunOffset
    <3>4. prologue' = [p EXCEPT !.nFpr = n, !.fprOffset = x]
      BY <2>5, <3>2 DEF FindsFprs
    <3> QED BY <1>0, <3>1, <3>3, <3>4, ProloguesStay
  <2>6. CASE ChecksLayout
    <3>1. VarOffset(p) \in Int /\ VarBytes(p) \in Int
      BY <1>0, VarsTyped
    <3>2. prologue' = [p EXCEPT !.varOffset = VarOffset(p), !.nVars = VarBytes(p)]
      BY <2>6 DEF ChecksLayout
    <3> QED BY <1>0, <3>1, <3>2, ProloguesStay
  <2>7. CASE Trims
    BY <1>0, <2>7, ProloguesStay DEF Trims
  <2>8. ASSUME NEW start \in Int, Accepts(start) PROVE prologue' \in Prologues
    BY <1>0, <2>8, ProloguesStay DEF Accepts
  <2> QED BY <2>1, <2>2, <2>3, <2>4, <2>5, <2>6, <2>7, <2>8 DEF Moves, Finds
<1> QED BY <1>0, <1>1, <1>2, <1>3, <1>4 DEF Shape

-----------------------------------------------------------------------------
(* What each stage of the analysis has done                                 *)

(* No instruction from i to j is a branch; all from i on are padding. *)
Straight(i, j) == \A k \in i .. j : k \notin Branches

Nops(i) == \A k \in i .. size - 1 : Is(k, "nop", "")

(* The blocks without the prologue. *)
Cut == [Whole EXCEPT ![1].start = prologueEnd]

Divided == AllInside /\ blocks = Whole

PrologueRead == AllInside /\ prologueEnd >= 1 /\ Straight(0, prologueEnd - 1)

PrologueCut == PrologueRead /\ prologueEnd <= Whole[1].end

EpilogueCut ==
  /\ blocks = [Cut EXCEPT ![Len(Whole)].end = epilogueStart]
  /\ Cut[Len(Whole)].start <= epilogueStart
  /\ 0 <= epilogueStart
  /\ epilogueStart <= epilogueEnd
  /\ epilogueEnd <= size - 1
  /\ Nops(epilogueEnd + 1)
  /\ Straight(epilogueStart, size - 1)

AtDecoding == pc \in Decoding => Divided /\ idx >= 1 /\ Straight(0, idx - 1)
AtTrim == pc = "trim" => PrologueRead /\ blocks = Whole
AtPadding == pc = "padding" => /\ PrologueCut /\ blocks = Cut
                               /\ idx <= size - 1 /\ Nops(idx + 1)
AtEpilogue == pc = "epilogue" => /\ PrologueCut /\ blocks = Cut
                                 /\ idx <= epilogueEnd /\ epilogueEnd <= size - 1
                                 /\ Nops(epilogueEnd + 1) /\ Straight(idx + 1, size - 1)
AtEnd == prologue.epilogueOk => pc = "done" /\ PrologueCut /\ EpilogueCut

StageInv == AtDecoding /\ AtTrim /\ AtPadding /\ AtEpilogue /\ AtEnd

(* The stages are told apart by pc. *)
Stages == /\ "blocks" \notin Decoding /\ "trim" \notin Decoding /\ "padding" \notin Decoding
          /\ "epilogue" \notin Decoding /\ "done" \notin Decoding /\ "aborted" \notin Decoding

LEMMA StagesDiffer == Stages
BY DEF Stages, Decoding

LEMMA NotBranch ==
  ASSUME NEW i, NEW op, NEW reg, Is(i, op, reg), op # "branch"
  PROVE  i \notin Branches
BY DEF Is, Branches

LEMMA Further ==
  ASSUME NEW i \in Int, NEW j \in Int, Straight(0, i - 1),
         \A k \in i .. j - 1 : k \notin Branches
  PROVE  Straight(0, j - 1)
<1>1. \A k \in 0 .. j - 1 : k \in 0 .. i - 1 \/ k \in i .. j - 1
  OBVIOUS
<1> QED BY <1>1 DEF Straight

LEMMA NopsAreStraight == ASSUME NEW i \in Int, Nops(i) PROVE Straight(i, size - 1)
<1>1. "nop" # "branch"
  OBVIOUS
<1> QED BY <1>1, NotBranch DEF Nops, Straight

(* What only the function decides. *)
LEMMA CodeStays ==
  ASSUME code' = code
  PROVE  /\ size' = size /\ Branches' = Branches /\ AllInside' = AllInside /\ Whole' = Whole
         /\ \A i, j : Straight(i, j)' <=> Straight(i, j)
         /\ \A i : Nops(i)' <=> Nops(i)
<1>1. size' = size
  BY DEF size
<1>2. Branches' = Branches
  BY <1>1 DEF Branches
<1>3. \A i : Target(i)' = Target(i) /\ Is(i, "nop", "")' = Is(i, "nop", "")
  BY <1>1 DEF Target, Imm, Is, InRange
<1>4. Dividers' = Dividers
  BY <1>1, <1>2, <1>3 DEF Dividers
<1>5. Whole' = Whole
  BY <1>4 DEF Whole
<1>6. AllInside' = AllInside
  BY <1>1, <1>2, <1>3 DEF AllInside, BranchInside
<1>7. \A i, j : Straight(i, j)' <=> Straight(i, j)
  BY <1>2 DEF Straight
<1>8. \A i : Nops(i)' <=> Nops(i)
  BY <1>1, <1>3 DEF Nops
<1> QED BY <1>1, <1>2, <1>5, <1>6, <1>7, <1>8

(* The prologue goes on from instruction i to instruction j. *)
LEMMA PrologueGoesOn ==
  ASSUME Shape, StageInv, pc \in Decoding, pc' \in Decoding,
         code' = code, blocks' = blocks, prologue'.epilogueOk = prologue.epilogueOk,
         idx' \in Int, idx <= idx', \A k \in idx .. idx' - 1 : k \notin Branches
  PROVE  StageInv'
<1> PICK i : i = idx
  OBVIOUS
<1> PICK j : j = idx'
  OBVIOUS
<1>0. i \in Int /\ j \in Int /\ i <= j
  BY DEF Shape
<1>1. Divided /\ i >= 1 /\ Straight(0, i - 1)
  BY DEF StageInv, AtDecoding
<1>2. Straight(0, j - 1)
  BY <1>0, <1>1, Further
<1>3. j >= 1
  BY <1>0, <1>1
<1>4. Divided' /\ Straight(0, j - 1)'
  BY <1>1, <1>2, CodeStays DEF Divided
<1>5. AtDecoding'
  BY <1>3, <1>4 DEF AtDecoding
<1>6. ~prologue.epilogueOk
  BY StagesDiffer DEF StageInv, AtEnd, Stages
<1> QED BY <1>5, <1>6, StagesDiffer DEF StageInv, AtTrim, AtPadding, AtEpilogue, AtEnd, Stages

LEMMA BlocksStage == ASSUME Shape, StageInv, FindsBlocks PROVE StageInv'
<1>1. /\ AllInside /\ blocks' = Whole /\ code' = code /\ idx' = 1 /\ pc' \in Decoding
      /\ prologue' = prologue /\ pc = "blocks"
  BY DEF FindsBlocks, Decoding
<1>2. Straight(0, 1 - 1)
  <2>1. 0 \notin Branches
    BY CodeFacts DEF Shape
  <2>2. \A k \in 0 .. 1 - 1 : k = 0
    OBVIOUS
  <2> QED BY <2>1, <2>2 DEF Straight
<1>3. Divided' /\ Straight(0, 1 - 1)'
  BY <1>1, <1>2, CodeStays DEF Divided
<1>4. AtDecoding'
  BY <1>1, <1>3 DEF AtDecoding
<1>5. ~prologue.epilogueOk
  BY <1>1 DEF StageInv, AtEnd
<1> QED BY <1>1, <1>4, <1>5, StagesDiffer DEF StageInv, AtTrim, AtPadding, AtEpilogue, AtEnd, Stages

(* The prologue ends. *)
LEMMA PrologueIsRead ==
  ASSUME Shape, StageInv, pc \in Decoding, pc' = "trim", NEW e \in Int, prologueEnd' = e,
         1 <= e, e <= idx,
         code' = code, blocks' = blocks, prologue'.epilogueOk = prologue.epilogueOk
  PROVE  StageInv'
<1>1. Divided /\ Straight(0, idx - 1) /\ idx \in Int
  BY DEF StageInv, AtDecoding, Shape
<1>2. Straight(0, e - 1)
  <2>1. \A k \in 0 .. e - 1 : k \in 0 .. idx - 1
    BY <1>1
  <2> QED BY <1>1, <2>1 DEF Straight
<1>3. AllInside' /\ Straight(0, e - 1)' /\ blocks' = Whole'
  BY <1>1, <1>2, CodeStays DEF Divided
<1>4. AtTrim'
  BY <1>3 DEF AtTrim, PrologueRead
<1>5. ~prologue.epilogueOk
  BY StagesDiffer DEF StageInv, AtEnd, Stages
<1> QED BY <1>4, <1>5, StagesDiffer DEF StageInv, AtDecoding, AtPadding, AtEpilogue, AtEnd, Stages

LEMMA StackStage == ASSUME Shape, StageInv, FindsStack PROVE StageInv'
<1> PICK i : i = idx
  OBVIOUS
<1>1. i \in Int /\ i >= 1 /\ pc \in Decoding /\ prologue \in Prologues
  BY DEF FindsStack, Decoding, Shape, StageInv, AtDecoding
<1>2. code' = code /\ blocks' = blocks /\ prologueEnd' = 1
  BY DEF FindsStack
<1>3. prologue'.epilogueOk = prologue.epilogueOk
  BY <1>1 DEF FindsStack, Prologues
<1>4. CASE pc' = "trim"
  <2>1. 1 \in Int /\ 1 <= 1
    OBVIOUS
  <2> QED BY <1>1, <1>2, <1>3, <1>4, <2>1, PrologueIsRead
<1>5. CASE pc' # "trim"
  <2>1. Is(i, "daddiu", "sp") /\ pc' = "ra" /\ idx' = i + 1
    BY <1>5 DEF FindsStack
  <2>2. i \notin Branches
    BY <2>1, NotBranch
  <2>3. i + 1 \in Int /\ i <= i + 1 /\ \A k \in i .. i + 1 - 1 : k = i
    BY <1>1
  <2>4. pc' \in Decoding
    BY <2>1 DEF Decoding
  <2> QED BY <1>1, <1>2, <1>3, <2>1, <2>2, <2>3, <2>4, PrologueGoesOn
<1> QED BY <1>4, <1>5

LEMMA SlotsStage == ASSUME Shape, StageInv, FindsRa \/ FindsFp PROVE StageInv'
<1> PICK i : i = idx
  OBVIOUS
<1>1. i \in Int /\ prologue \in Prologues /\ pc \in Decoding /\ pc' \in Decoding
  BY DEF FindsRa, FindsFp, Decoding, Shape
<1>2. code' = code /\ blocks' = blocks
  BY DEF FindsRa, FindsFp
<1>3. prologue'.epilogueOk = prologue.epilogueOk
  BY <1>1 DEF FindsRa, FindsFp, Prologues
<1>4. \/ idx' = i
      \/ idx' = i + 1 /\ i \notin Branches
      \/ idx' = i + 2 /\ i \notin Branches /\ i + 1 \notin Branches
  <2>1. CASE FindsRa
    BY <2>1, NotBranch DEF FindsRa
  <2>2. CASE FindsFp
    BY <2>2, NotBranch DEF FindsFp
  <2> QED BY <2>1, <2>2
<1>5. idx' \in Int /\ i <= idx' /\ \A k \in i .. idx' - 1 : k \notin Branches
  <2>1. \A k \in i .. i + 1 - 1 : k = i
    BY <1>1
  <2>2. \A k \in i .. i + 2 - 1 : k = i \/ k = i + 1
    BY <1>1
  <2>3. \A k \in i .. i - 1 : FALSE
    BY <1>1
  <2>4. i + 1 \in Int /\ i + 2 \in Int /\ i <= i /\ i <= i + 1 /\ i <= i + 2
    BY <1>1
  <2> QED BY <1>1, <1>4, <2>1, <2>2, <2>3, <2>4
<1> QED BY <1>1, <1>2, <1>3, <1>5, PrologueGoesOn

LEMMA RunStage ==
  ASSUME Shape, StageInv, NEW n \in Nat, FindsGprs(n) \/ FindsFprs(n)
  PROVE  StageInv'
<1> PICK i : i = idx
  OBVIOUS
<1>1. i \in Int /\ prologue \in Prologues /\ pc \in Decoding /\ pc' \in Decoding /\ idx' = i + n
  BY DEF FindsGprs, FindsFprs, Decoding, Shape
<1>2. code' = code /\ blocks' = blocks
  BY DEF FindsGprs, FindsFprs
<1>3. prologue'.epilogueOk = prologue.epilogueOk
  BY <1>1 DEF FindsGprs, FindsFprs, Prologues
<1>4. i + n \in Int /\ i <= i + n
  BY <1>1
<1>5. ASSUME NEW k \in i .. i + n - 1 PROVE k \notin Branches
  <2>1. k \in GprStores \/ k \in FprStores
    BY DEF FindsGprs, FindsFprs, IsRun
  <2> QED BY <2>1 DEF GprStores, FprStores, Branches
<1> QED BY <1>1, <1>2, <1>3, <1>4, <1>5, PrologueGoesOn

LEMMA LayoutStage == ASSUME Shape, StageInv, ChecksLayout PROVE StageInv'
<1> PICK i : i = idx
  OBVIOUS
<1>1. i \in Int /\ i >= 1 /\ prologue \in Prologues /\ pc \in Decoding /\ pc' = "trim"
  BY DEF ChecksLayout, Decoding, Shape, StageInv, AtDecoding
<1>2. code' = code /\ blocks' = blocks /\ prologueEnd' = i
  BY DEF ChecksLayout
<1>3. prologue'.epilogueOk = prologue.epilogueOk
  BY <1>1 DEF ChecksLayout, Prologues
<1>4. 1 <= i /\ i <= i
  BY <1>1
<1> QED BY <1>1, <1>2, <1>3, <1>4, PrologueIsRead

LEMMA TrimStage == ASSUME Shape, StageInv, Trims PROVE StageInv'
<1> PICK i : i = size - 1
  OBVIOUS
<1>1. /\ i \in Int /\ i + 1 = size /\ size \in Int /\ prologueEnd \in Int
      /\ prologue \in Prologues /\ i <= size - 1
  BY CodeFacts DEF Shape
<1>2. PrologueRead /\ blocks = Whole
  BY DEF Trims, StageInv, AtTrim
<1>3. prologueEnd <= Whole[1].end
  <2>1. Divide(Whole, Dividers, 0, size) /\ Dividers \in SUBSET Int
    BY <1>2, WholeDivides, DividerFacts DEF PrologueRead, Shape
  <2>2. 1 \in 1 .. Len(Whole)
    BY <2>1 DEF Divide
  <2>3. Whole[1].end \in Int
    BY <2>1, <2>2 DEF Divide
  <2> QED BY <1>1, <1>2, <2>3 DEF Trims
<1>4. /\ code' = code /\ prologueEnd' = prologueEnd /\ blocks' = Cut
      /\ pc' = "padding" /\ idx' = i /\ pc = "trim"
  BY <1>2 DEF Trims, Cut
<1>5. Nops(i + 1)
  <2>1. \A k \in i + 1 .. size - 1 : FALSE
    BY <1>1
  <2> QED BY <2>1 DEF Nops
<1>6. /\ size' = size /\ Whole' = Whole /\ AllInside' = AllInside
      /\ Straight(0, prologueEnd - 1)' = Straight(0, prologueEnd - 1)
      /\ Nops(i + 1)'
  BY <1>4, <1>5, CodeStays DEF Straight
<1>7. PrologueCut' /\ Cut' = Cut
  BY <1>2, <1>3, <1>4, <1>6 DEF PrologueCut, PrologueRead, Cut
<1>8. AtPadding'
  BY <1>1, <1>4, <1>6, <1>7 DEF AtPadding
<1>9. ~prologue'.epilogueOk
  <2>1. ~prologue.epilogueOk
    BY <1>4 DEF StageInv, AtEnd
  <2> QED BY <1>1, <2>1 DEF Trims, Prologues
<1> QED BY <1>4, <1>8, <1>9, StagesDiffer DEF StageInv, AtDecoding, AtTrim, AtEpilogue, AtEnd, Stages

(* The cut prologue stays as long as what it is read from does. *)
LEMMA CutStays ==
  ASSUME code' = code, prologueEnd' = prologueEnd
  PROVE  PrologueCut' = PrologueCut /\ Cut' = Cut
<1>1. /\ Whole' = Whole /\ AllInside' = AllInside /\ Branches' = Branches
  BY CodeStays
<1> QED BY <1>1 DEF PrologueCut, PrologueRead, Cut, Straight

LEMMA PaddingStage == ASSUME Shape, StageInv, SkipsNop PROVE StageInv'
<1> PICK i : i = idx
  OBVIOUS
<1>1. i \in Int /\ size \in Int /\ prologue \in Prologues
  BY CodeFacts DEF Shape
<1>2. /\ code' = code /\ prologueEnd' = prologueEnd /\ blocks' = blocks /\ prologue' = prologue
      /\ pc' = "padding" /\ idx' = i - 1 /\ pc = "padding" /\ Is(i, "nop", "")
  BY DEF SkipsNop, found
<1>3. PrologueCut /\ blocks = Cut /\ i <= size - 1 /\ Nops(i + 1)
  BY <1>2 DEF StageInv, AtPadding
<1>4. Nops(i - 1 + 1)
  <2>1. \A k \in i - 1 + 1 .. size - 1 : k = i \/ k \in i + 1 .. size - 1
    BY <1>1
  <2> QED BY <1>2, <1>3, <2>1 DEF Nops
<1>5. Nops(i - 1 + 1)' /\ size' = size
  BY <1>2, <1>4, CodeStays
<1>6. i - 1 <= size - 1
  BY <1>1, <1>3
<1>7. AtPadding'
  BY <1>2, <1>3, <1>5, <1>6, CutStays DEF AtPadding
<1>8. ~prologue'.epilogueOk
  BY <1>2 DEF StageInv, AtEnd
<1> QED BY <1>2, <1>7, <1>8, StagesDiffer DEF StageInv, AtDecoding, AtTrim, AtEpilogue, AtEnd, Stages

LEMMA ReturnStage == ASSUME Shape, StageInv, FindsReturn PROVE StageInv'
<1> PICK i : i = idx
  OBVIOUS
<1> PICK j : j = idx'
  OBVIOUS
<1>1. i \in Int /\ size \in Int
  BY CodeFacts DEF Shape
<1>2. /\ code' = code /\ prologueEnd' = prologueEnd /\ blocks' = blocks /\ prologue' = prologue
      /\ pc' = "epilogue" /\ pc = "padding" /\ epilogueEnd' = i
      /\ \/ j = i
         \/ Is(i, "daddu_r0", "sp") /\ Is(i - 1, "jr", "ra") /\ j = i - 2
  BY DEF FindsReturn
<1>3. PrologueCut /\ blocks = Cut /\ i <= size - 1 /\ Nops(i + 1)
  BY <1>2 DEF StageInv, AtPadding
<1>4. i + 1 \in Int /\ Straight(i + 1, size - 1)
  BY <1>1, <1>3, NopsAreStraight
<1>5. j <= i /\ Straight(j + 1, size - 1)
  <2>1. CASE j = i
    BY <1>1, <1>4, <2>1
  <2>2. CASE Is(i, "daddu_r0", "sp") /\ Is(i - 1, "jr", "ra") /\ j = i - 2
    <3>1. i \notin Branches /\ i - 1 \notin Branches
      BY <2>2, NotBranch
    <3>2. \A k \in j + 1 .. size - 1 : k = i - 1 \/ k = i \/ k \in i + 1 .. size - 1
      BY <1>1, <2>2
    <3>3. j <= i
      BY <1>1, <2>2
    <3> QED BY <1>4, <3>1, <3>2, <3>3 DEF Straight
  <2> QED BY <1>2, <2>1, <2>2
<1>6. size' = size /\ Nops(i + 1)' /\ Straight(j + 1, size - 1)' = Straight(j + 1, size - 1)
  BY <1>2, <1>3, CodeStays DEF Straight
<1>7. AtEpilogue'
  BY <1>2, <1>3, <1>5, <1>6, CutStays DEF AtEpilogue
<1>8. ~prologue'.epilogueOk
  BY <1>2 DEF StageInv, AtEnd
<1> QED BY <1>2, <1>7, <1>8, StagesDiffer DEF StageInv, AtDecoding, AtTrim, AtPadding, AtEnd, Stages

LEMMA StopStage == ASSUME Shape, StageInv, Stops PROVE StageInv'
<1>1. pc # "done" /\ prologue' = prologue /\ pc' \in {"done", "aborted"}
  BY StagesDiffer DEF Stops, Stages
<1>2. ~prologue'.epilogueOk
  BY <1>1 DEF StageInv, AtEnd
<1> QED BY <1>1, <1>2, StagesDiffer
     DEF StageInv, AtDecoding, AtTrim, AtPadding, AtEpilogue, AtEnd, Stages

(* Instructions taken together are the code there. *)
LEMMA BetweenReads ==
  ASSUME code \in Compiled \cup Others, NEW i \in Nat, NEW j \in Nat, i <= j, j <= size
  PROVE  /\ Len(Between(i, j)) = j - i
         /\ \A k \in 1 .. j - i : Between(i, j)[k] = code[i + k]
<1>1. code \in Seq(Range(code))
  BY CodeIsFunction DEF IsFunction, IsCode
<1>2. Len(code) = size /\ size \in Nat
  BY CodeFacts DEF size
<1> PICK a : a = i + 1
  OBVIOUS
<1>3. a \in 1 .. j + 1 /\ j <= Len(code) /\ j - a + 1 = j - i
  BY <1>2
<1> PICK T : T = Range(code)
  OBVIOUS
<1>4. code \in Seq(T)
  BY <1>1
<1>5. Len(SubSeq(code, a, j)) = j - i /\ \A k \in 1 .. j - i : SubSeq(code, a, j)[k] = code[a + k - 1]
  BY <1>2, <1>3, <1>4
<1>6. \A k \in 1 .. j - i : a + k - 1 = i + k
  OBVIOUS
<1> QED BY <1>5, <1>6 DEF Between

(* An epilogue is written without branches. *)
LEMMA EpilogueIsStraight ==
  ASSUME code \in Compiled \cup Others, NEW i \in Nat, NEW j \in Nat, i <= j, j <= size,
         Between(i, j) \in Seq(Written)
  PROVE  Straight(i, j - 1)
<1> PICK bs : bs = Between(i, j)
  OBVIOUS
<1>1. Len(bs) = j - i /\ \A k \in 1 .. j - i : bs[k] = code[i + k]
  BY BetweenReads
<1>2. ASSUME NEW k \in i .. j - 1 PROVE k \notin Branches
  <2> PICK m : m = k - i + 1
    OBVIOUS
  <2>1. m \in 1 .. j - i /\ i + m = k + 1
    OBVIOUS
  <2>2. bs \in Seq(Written) /\ m \in 1 .. Len(bs)
    BY <1>1, <2>1
  <2>3. bs[m] \in Written
    BY <2>2
  <2>4. code[k + 1].op # "branch"
    <3>1. code[k + 1] \in Written
      BY <1>1, <2>1, <2>3
    <3> QED BY <3>1 DEF Written, Writes
  <2> QED BY <2>4 DEF Branches
<1> QED BY <1>2 DEF Straight

LEMMA EndStage ==
  ASSUME Shape, StageInv, NEW start \in Int, Accepts(start)
  PROVE  StageInv'
<1> PICK i : i = idx
  OBVIOUS
<1> PICK p : p = prologue
  OBVIOUS
<1> PICK l : l = Len(Restores(p))
  OBVIOUS
<1>1. /\ i \in Int /\ size \in Nat /\ prologueEnd \in Int /\ epilogueEnd \in Int
      /\ p \in Prologues /\ code \in Compiled \cup Others
  BY CodeFacts DEF Shape
<1>2. /\ code' = code /\ prologueEnd' = prologueEnd /\ epilogueEnd' = epilogueEnd
      /\ epilogueStart' = start
      /\ pc' = "done" /\ pc = "epilogue" /\ start = i + 1 - l /\ start >= 0
      /\ Between(start, i + 1) = Restores(p)
      /\ ~(start < blocks[Len(blocks)].start)
      /\ blocks' = [blocks EXCEPT ![Len(blocks)].end = start]
  BY DEF Accepts
<1>3. /\ PrologueCut /\ blocks = Cut /\ i <= epilogueEnd /\ epilogueEnd <= size - 1
      /\ Nops(epilogueEnd + 1) /\ Straight(i + 1, size - 1)
  BY <1>2 DEF StageInv, AtEpilogue
<1>4. Restores(p) \in Seq(Written) /\ l \in Nat /\ l >= 2
  <2>1. Restores(p) \in Seq(Written) /\ l = RaSize(p) + FpSize(p) + p.nFpr + p.nGpr + 2
    BY <1>1, RestoresShape DEF RestoresAre
  <2>2. RaSize(p) \in Nat /\ FpSize(p) \in Nat /\ p.nFpr \in Nat /\ p.nGpr \in Nat
    BY <1>1, BackupFacts DEF RaSize, FpSize, Prologues
  <2> QED BY <2>1, <2>2
<1>5. start \in Nat /\ i + 1 \in Nat /\ start <= i + 1 /\ i + 1 <= size /\ start <= epilogueEnd
  BY <1>1, <1>2, <1>3, <1>4
<1>6. Straight(start, size - 1)
  <2>1. Straight(start, i + 1 - 1)
    BY <1>1, <1>2, <1>4, <1>5, EpilogueIsStraight
  <2>2. \A k \in start .. size - 1 : k \in start .. i + 1 - 1 \/ k \in i + 1 .. size - 1
    BY <1>1, <1>5
  <2> QED BY <1>3, <2>1, <2>2 DEF Straight
<1>7. Divide(Whole, Dividers, 0, size) /\ Dividers \in SUBSET Int
  BY <1>1, <1>3, WholeDivides, DividerFacts DEF PrologueCut, PrologueRead
<1>8. Len(Cut) = Len(Whole)
  BY <1>7 DEF Divide, Cut
<1>9. Cut[Len(Whole)].start <= start
  <2>1. Len(Whole) \in 1 .. Len(Whole)
    BY <1>7 DEF Divide
  <2>2. Whole[Len(Whole)] \in [start : Int, end : Int]
    BY <1>7, <2>1 DEF Divide
  <2>3. Cut[Len(Whole)].start \in Int
    BY <1>1, <1>7, <2>1, <2>2 DEF Cut, Divide
  <2> QED BY <1>2, <1>3, <1>5, <1>8, <2>3
<1>10. EpilogueCut'
  <2>1. Cut' = Cut /\ Whole' = Whole /\ size' = size /\ Branches' = Branches
    BY <1>2, CodeStays, CutStays
  <2>2. blocks' = [Cut EXCEPT ![Len(Whole)].end = start]
    BY <1>2, <1>3, <1>8
  <2>3. Straight(start, size - 1)' /\ Straight(epilogueStart, size - 1)'
    BY <1>2, <1>6, <2>1 DEF Straight
  <2>4. Nops(epilogueEnd + 1)'
    <3>1. Nops(epilogueEnd + 1)' = Nops(epilogueEnd + 1)
      BY <1>2, <2>1 DEF Nops, Is, InRange
    <3> QED BY <1>3, <3>1
  <2>5. 0 <= start
    BY <1>5
  <2> QED BY <1>2, <1>3, <1>5, <1>9, <2>1, <2>2, <2>3, <2>4, <2>5 DEF EpilogueCut
<1>11. AtEnd'
  BY <1>2, <1>3, <1>10, CutStays DEF AtEnd
<1> QED BY <1>2, <1>11, StagesDiffer DEF StageInv, AtDecoding, AtTrim, AtPadding, AtEpilogue, Stages

LEMMA StageStays == ASSUME Shape, StageInv, Moves PROVE StageInv'
<1>1. ASSUME NEW n \in Nat, FindsGprs(n) \/ FindsFprs(n) PROVE StageInv'
  BY <1>1, RunStage
<1>2. ASSUME NEW start \in Int, Accepts(start) PROVE StageInv'
  BY <1>2, EndStage
<1> QED BY <1>1, <1>2, BlocksStage, StackStage, SlotsStage, LayoutStage, TrimStage, PaddingStage,
     ReturnStage, StopStage DEF Moves, Finds

LEMMA StageUnchanged == ASSUME Shape, StageInv, UNCHANGED vars PROVE Shape' /\ StageInv'
<1>1. /\ code' = code /\ prologueEnd' = prologueEnd /\ epilogueStart' = epilogueStart
      /\ epilogueEnd' = epilogueEnd /\ blocks' = blocks /\ prologue' = prologue
      /\ pc' = pc /\ idx' = idx
  BY DEF vars, found
<1>2. Shape'
  BY <1>1 DEF Shape, Prologues
<1>3. /\ size' = size /\ Branches' = Branches /\ AllInside' = AllInside /\ Whole' = Whole
      /\ Cut' = Cut /\ PrologueCut' = PrologueCut
  BY <1>1, CodeStays, CutStays
<1>4. Divided' = Divided /\ PrologueRead' = PrologueRead
  BY <1>1, <1>3 DEF Divided, PrologueRead, Straight
<1>5. /\ Straight(0, idx - 1)' = Straight(0, idx - 1)
      /\ Straight(idx + 1, size - 1)' = Straight(idx + 1, size - 1)
      /\ Nops(idx + 1)' = Nops(idx + 1) /\ Nops(epilogueEnd + 1)' = Nops(epilogueEnd + 1)
  BY <1>1, <1>3 DEF Straight, Nops, Is, InRange
<1>6. EpilogueCut' = EpilogueCut
  BY <1>1, <1>3, <1>5 DEF EpilogueCut, Straight
<1> QED BY <1>1, <1>2, <1>3, <1>4, <1>5, <1>6
     DEF StageInv, AtDecoding, AtTrim, AtPadding, AtEpilogue, AtEnd

LEMMA StagesInvariant == Spec => [](Shape /\ StageInv)
<1>1. Init => Shape /\ StageInv
  <2> SUFFICES ASSUME Init PROVE Shape /\ StageInv
    OBVIOUS
  <2>1. pc = "blocks" /\ prologue.epilogueOk = FALSE
    BY DEF Init
  <2> QED BY <2>1, InitShape, StagesDiffer
       DEF StageInv, AtDecoding, AtTrim, AtPadding, AtEpilogue, AtEnd, Stages
<1>2. Shape /\ StageInv /\ [Next]_vars => (Shape /\ StageInv)'
  <2> SUFFICES ASSUME Shape, StageInv, [Next]_vars PROVE (Shape /\ StageInv)'
    OBVIOUS
  <2>1. Moves \/ UNCHANGED vars
    BY NextCases, RestoresAreTyped
  <2> QED BY <2>1, ShapeStays, StageStays, StageUnchanged
<1> QED BY <1>1, <1>2, PTL DEF Spec

-----------------------------------------------------------------------------
(* Blocks divide the code                                                   *)

(* Blocks bs are those of w, from p on and up to e. *)
IsCut(bs, w, p, e) ==
  /\ Len(bs) = Len(w) /\ DOMAIN bs = 1 .. Len(w) /\ Len(w) \in Nat /\ Len(w) >= 1
  /\ \A k \in 1 .. Len(w) : k # 1 => bs[k].start = w[k].start
  /\ bs[1].start = p /\ bs[Len(bs)].end = e
  /\ \A k \in 1 .. Len(w) - 1 : bs[k].end = bs[k + 1].start
  /\ \A k \in 1 .. Len(w) : bs[k].start <= bs[k].end
  /\ p <= e

LEMMA CutBlocks ==
  ASSUME NEW w, NEW S, S \subseteq Int, Divide(w, S, 0, size), NEW p \in Int, NEW e \in Int,
         NEW c, NEW bs, c = [w EXCEPT ![1].start = p], bs = [c EXCEPT ![Len(w)].end = e],
         p <= w[1].end, c[Len(w)].start <= e
  PROVE  IsCut(bs, w, p, e)
<1>n. PICK n : n = Len(w)
  OBVIOUS
<1>1. /\ n \in Nat \ {0} /\ w \in [1 .. n -> [start : S, end : S]]
      /\ \A k \in 1 .. n - 1 : w[k].end = w[k + 1].start
      /\ \A k \in 1 .. n : w[k].start < w[k].end
      /\ \A j, k \in 1 .. n : j < k => w[j].end <= w[k].start
  BY <1>n DEF Divide
<1>2. \A k \in 1 .. n : w[k].start \in Int /\ w[k].end \in Int
  BY <1>1
<1>3. 1 \in 1 .. n /\ n \in 1 .. n
  BY <1>1
<1>4. /\ DOMAIN c = 1 .. n
      /\ \A k \in 1 .. n : c[k].end = w[k].end /\ (k # 1 => c[k].start = w[k].start)
      /\ c[1].start = p
  <2>1. c = [k \in 1 .. n |-> IF k = 1 THEN [w[1] EXCEPT !.start = p] ELSE w[k]]
    BY <1>1, <1>3
  <2>2. \A k \in 1 .. n : c[k] = IF k = 1 THEN [w[1] EXCEPT !.start = p] ELSE w[k]
    BY <2>1
  <2>3. w[1] \in [start : S, end : S]
    BY <1>1, <1>3
  <2> QED BY <1>3, <2>1, <2>2, <2>3
<1>5. c \in [1 .. n -> [start : Int, end : Int]]
  <2>1. w[1] \in [start : Int, end : Int]
    BY <1>1, <1>3
  <2>2. [w[1] EXCEPT !.start = p] \in [start : Int, end : Int]
    BY <2>1
  <2>3. \A k \in 1 .. n : w[k] \in [start : Int, end : Int]
    BY <1>1
  <2>4. c = [k \in 1 .. n |-> IF k = 1 THEN [w[1] EXCEPT !.start = p] ELSE w[k]]
    BY <1>1, <1>3
  <2> QED BY <2>2, <2>3, <2>4
<1>6. /\ DOMAIN bs = 1 .. n
      /\ \A k \in 1 .. n : bs[k].start = c[k].start /\ (k # n => bs[k].end = c[k].end)
      /\ bs[n].end = e
  <2>1. PICK d : d = [c[n] EXCEPT !.end = e]
    OBVIOUS
  <2>2. bs = [c EXCEPT ![n] = d]
    BY <1>n, <2>1
  <2>3. bs = [k \in 1 .. n |-> IF k = n THEN d ELSE c[k]]
    BY <1>4, <2>2
  <2>4. c[n] \in [start : Int, end : Int]
    BY <1>3, <1>5
  <2>5. d.start = c[n].start /\ d.end = e
    BY <2>1, <2>4
  <2>6. bs[n] = d
    BY <1>3, <2>3
  <2>7. \A k \in 1 .. n : k # n => bs[k] = c[k]
    BY <2>3
  <2>8. DOMAIN bs = 1 .. n
    BY <2>3
  <2> QED BY <2>5, <2>6, <2>7, <2>8
<1>7. Len(bs) = n
  BY <1>1, <1>6
<1>8. ASSUME NEW k \in 1 .. n - 1 PROVE bs[k].end = bs[k + 1].start
  <2> PICK j : j = k + 1
    OBVIOUS
  <2>1. k \in 1 .. n /\ k # n /\ j \in 1 .. n /\ j # 1
    BY <1>1
  <2>2. w[k].end = w[j].start
    BY <1>1
  <2> QED BY <1>4, <1>6, <2>1, <2>2
<1>9. c[n].start <= e /\ p <= w[1].end
  BY <1>n
<1>10. ASSUME NEW k \in 1 .. n PROVE bs[k].start <= bs[k].end
  <2>1. CASE k = n
    BY <1>6, <1>9, <2>1
  <2>2. CASE k # n /\ k = 1
    <3>1. bs[1].start = c[1].start /\ bs[1].end = c[1].end
      BY <1>3, <1>6, <2>2
    <3>2. bs[1].start = p /\ bs[1].end = w[1].end
      BY <1>3, <1>4, <3>1
    <3> QED BY <1>9, <2>2, <3>2
  <2>3. CASE k # n /\ k # 1
    <3>1. w[k].start < w[k].end
      BY <1>1
    <3>2. bs[k].start = c[k].start /\ bs[k].end = c[k].end
      BY <1>6, <2>3
    <3>3. bs[k].start = w[k].start /\ bs[k].end = w[k].end
      BY <1>4, <2>3, <3>2
    <3>4. w[k].start \in Int /\ w[k].end \in Int
      BY <1>2
    <3> QED BY <3>1, <3>3, <3>4
  <2> QED BY <2>1, <2>2, <2>3
<1>11. p <= e
  <2>1. CASE n = 1
    BY <1>4, <1>9, <2>1
  <2>2. CASE n # 1
    <3>1. 1 < n
      BY <1>1, <2>2
    <3>2. w[1].end <= w[n].start
      BY <1>1, <1>3, <3>1
    <3>3. w[n].start <= e
      BY <1>3, <1>4, <1>9, <2>2
    <3>4. p <= w[1].end /\ w[1].end \in Int /\ w[n].start \in Int
      BY <1>2, <1>3, <1>9
    <3> QED BY <3>2, <3>3, <3>4
  <2> QED BY <2>1, <2>2
<1>12. /\ \A k \in 1 .. n : k # 1 => bs[k].start = w[k].start
       /\ bs[1].start = p
  BY <1>3, <1>4, <1>6
<1>13. n \in Nat /\ n >= 1 /\ bs[Len(bs)].end = e
  BY <1>1, <1>6, <1>7
<1> QED BY <1>n, <1>6, <1>7, <1>8, <1>10, <1>11, <1>12, <1>13 DEF IsCut

LEMMA EndDivides ==
  ASSUME Shape, StageInv
  PROVE  BlocksDivideCode
<1> SUFFICES ASSUME prologue.epilogueOk PROVE BlocksDivideCode
  BY DEF BlocksDivideCode, BlocksTile, BranchesEnterBlocks
<1>1. PrologueCut /\ EpilogueCut
  BY DEF StageInv, AtEnd
<1>2. /\ code \in Compiled \cup Others /\ AllInside
      /\ prologueEnd \in Int /\ epilogueStart \in Int /\ epilogueEnd \in Int /\ size \in Nat
  BY <1>1, CodeFacts DEF Shape, PrologueCut, PrologueRead
<1>3. Divide(Whole, Dividers, 0, size) /\ Dividers \subseteq Int
  BY <1>2, WholeDivides, DividerFacts
<1>4. PICK w : w = Whole
  OBVIOUS
<1>5. PICK n : n = Len(w)
  OBVIOUS
<1>6. /\ Len(blocks) = n /\ DOMAIN blocks = 1 .. n /\ n \in Nat /\ n >= 1
      /\ \A k \in 1 .. n : k # 1 => blocks[k].start = w[k].start
      /\ blocks[1].start = prologueEnd /\ blocks[Len(blocks)].end = epilogueStart
      /\ \A k \in 1 .. n - 1 : blocks[k].end = blocks[k + 1].start
      /\ \A k \in 1 .. n : blocks[k].start <= blocks[k].end
      /\ prologueEnd <= epilogueStart
  <2>1. PICK c : c = Cut
    OBVIOUS
  <2>2. PICK bs : bs = blocks
    OBVIOUS
  <2>3. c = [w EXCEPT ![1].start = prologueEnd]
    BY <1>4, <2>1 DEF Cut
  <2>4. bs = [c EXCEPT ![Len(w)].end = epilogueStart] /\ c[Len(w)].start <= epilogueStart
    BY <1>1, <1>4, <2>1, <2>2 DEF EpilogueCut
  <2>5. prologueEnd <= w[1].end
    BY <1>1, <1>4 DEF PrologueCut
  <2>6. Divide(w, Dividers, 0, size)
    BY <1>3, <1>4
  <2>7. IsCut(bs, w, prologueEnd, epilogueStart)
    BY <1>2, <1>3, <2>3, <2>4, <2>5, <2>6, CutBlocks
  <2> QED BY <1>5, <2>2, <2>7 DEF IsCut
<1>7. BlocksTile
  BY <1>1, <1>6 DEF BlocksTile, EpilogueCut, Nops
<1>8. ASSUME NEW i \in Branches
      PROVE  /\ prologueEnd <= i /\ i < epilogueStart
             /\ \E k \in DOMAIN blocks : blocks[k].start = Target(i)
  <2>1. i \in 0 .. size - 1
    BY DEF Branches
  <2>2. i \notin 0 .. prologueEnd - 1 /\ i \notin epilogueStart .. size - 1
    BY <1>1 DEF PrologueCut, PrologueRead, EpilogueCut, Straight
  <2>3. prologueEnd <= i /\ i < epilogueStart
    BY <1>2, <2>1, <2>2
  <2>4. PICK k \in 1 .. Len(Whole) : k # 1 /\ Whole[k].start = Target(i)
    BY <1>2, TargetsAreStarts
  <2>5. k \in DOMAIN blocks /\ blocks[k].start = Target(i)
    BY <1>4, <1>5, <1>6, <2>4
  <2> QED BY <2>3, <2>5
<1> QED BY <1>7, <1>8 DEF BlocksDivideCode, BranchesEnterBlocks

(* The blocks of a decoded function divide it: tag and prologue, the       *)
(* blocks in order and the epilogue make it up, and every branch goes to   *)
(* the start of a block, whatever the function is.                         *)
THEOREM BlocksCorrect == Spec => []BlocksDivideCode
<1>1. Shape /\ StageInv => BlocksDivideCode
  BY EndDivides
<1> QED BY <1>1, StagesInvariant, PTL

-----------------------------------------------------------------------------
(* Delay slots                                                              *)

(* A slot begins a block just when something divides the code there. *)
LEMMA SlotDivides ==
  ASSUME code \in Compiled \cup Others, AllInside, NEW i \in Branches
  PROVE  i + 1 \in Dividers <=> \E j \in Branches : Target(j) = i + 1 \/ j = i - 1
<1>1. /\ i \in Int /\ 0 <= i /\ i < size - 1 /\ size \in Int
      /\ \A j \in Branches : j \in Int
  BY CodeFacts, DividerFacts
<1>2. i + 1 # 0 /\ i + 1 # size
  BY <1>1
<1>3. \A j \in Branches : j + 2 = i + 1 <=> j = i - 1
  BY <1>1
<1> QED BY <1>2, <1>3 DEF Dividers

LEMMA SlotsGrouped == ASSUME Shape, StageInv PROVE DelaySlotsGrouped
<1> SUFFICES ASSUME pc = "stack", NEW i \in Branches
    PROVE  (\E k \in DOMAIN blocks : blocks[k].start <= i /\ i + 1 < blocks[k].end)
             <=> \A j \in Branches : Target(j) # i + 1 /\ j # i - 1
  BY DEF DelaySlotsGrouped
<1>1. blocks = Whole /\ AllInside /\ code \in Compiled \cup Others
  BY DEF StageInv, AtDecoding, Decoding, Divided, Shape
<1>2. PICK S : S = Dividers
  OBVIOUS
<1>3. PICK bs : bs = BlocksBetween(S)
  OBVIOUS
<1>4. PICK n : n = Cardinality(S)
  OBVIOUS
<1>5. /\ S \in SUBSET Int /\ IsFiniteSet(S) /\ 0 \in S /\ size \in S /\ 0 < size
      /\ \A x \in S : 0 <= x /\ x <= size
      /\ i \in Int /\ 0 <= i /\ i < size - 1 /\ size \in Int
  BY <1>1, <1>2, DividerFacts, CodeFacts
<1>6. n \in Nat
  BY <1>4, <1>5, FS_CardinalityType
<1>7. /\ Divide(bs, S, 0, size) /\ Len(bs) = n - 1
      /\ \A k \in 1 .. Len(bs) : bs[k].start = Nth(S, k - 1) /\ bs[k].end = Nth(S, k)
  BY <1>3, <1>4, <1>5, BetweenDivides
<1>8. DOMAIN bs = 1 .. n - 1
  BY <1>7 DEF Divide
<1>9. \A k \in 1 .. n - 1 : Nth(S, k) \in Int /\ Nth(S, k - 1) \in Int
  <2>1. \A k \in 1 .. n - 1 : k \in 0 .. n - 1 /\ k - 1 \in 0 .. n - 1
    BY <1>6
  <2>2. \A k \in 0 .. n - 1 : Nth(S, k) \in S
    BY <1>4, <1>5, NthExists
  <2> QED BY <1>5, <2>1, <2>2
<1>10. (\E k \in 1 .. n - 1 : Nth(S, k - 1) <= i /\ i + 1 < Nth(S, k)) <=> i + 1 \notin S
  <2>1. ASSUME NEW k \in 1 .. n - 1, Nth(S, k - 1) <= i, i + 1 < Nth(S, k), i + 1 \in S
        PROVE  FALSE
    <3>1. ~(Nth(S, k - 1) < i + 1 /\ i + 1 < Nth(S, k))
      BY <1>4, <1>5, <2>1, NthAdjacent
    <3>2. Nth(S, k - 1) < i + 1
      BY <1>5, <1>9, <2>1
    <3> QED BY <2>1, <3>1, <3>2
  <2>2. ASSUME i + 1 \notin S
        PROVE  \E k \in 1 .. n - 1 : Nth(S, k - 1) <= i /\ i + 1 < Nth(S, k)
    <3>1. i < size
      BY <1>5
    <3>2. PICK k \in 1 .. Cardinality(S) - 1 : Nth(S, k - 1) <= i /\ i < Nth(S, k)
      BY <1>5, <3>1, NthAround
    <3>3. k \in 1 .. n - 1 /\ Nth(S, k) \in S /\ Nth(S, k) \in Int
      <4>1. k \in 0 .. Cardinality(S) - 1
        OBVIOUS
      <4> QED BY <1>4, <1>5, <4>1, NthExists
    <3>4. i + 1 < Nth(S, k)
      BY <1>5, <2>2, <3>2, <3>3
    <3> QED BY <3>2, <3>3, <3>4
  <2> QED BY <2>1, <2>2
<1>11. (\E k \in DOMAIN blocks : blocks[k].start <= i /\ i + 1 < blocks[k].end) <=> i + 1 \notin S
  <2>1. blocks = bs
    BY <1>1, <1>2, <1>3 DEF Whole
  <2> QED BY <1>7, <1>8, <1>10, <2>1
<1>12. i + 1 \in S <=> \E j \in Branches : Target(j) = i + 1 \/ j = i - 1
  BY <1>1, <1>2, SlotDivides
<1> QED BY <1>11, <1>12

(* A delay slot is in the block of its branch just when no branch targets  *)
(* it and the branch is not in a slot itself, in every function.           *)
THEOREM DelaySlotsCorrect == Spec => []DelaySlotsGrouped
<1>1. Shape /\ StageInv => DelaySlotsGrouped
  BY SlotsGrouped
<1> QED BY <1>1, StagesInvariant, PTL

-----------------------------------------------------------------------------
(* The frame that is read so far is the code                                *)

StackSaved(p) == code[2] = Instr("daddiu", "sp", -p.usage)

RaSaved(p) == p.ra => code[3] = Instr("sd", "ra", 0)

FpSaved(p) == p.fp => /\ code[3 + RaSize(p)] = Instr("sd", "fp", 8)
                      /\ code[4 + RaSize(p)] = Instr("or_t9", "fp", 0)

GprsSaved(p) ==
  \A k \in 0 .. p.nGpr - 1 :
    code[GprAt(p) + k + 1] = Instr("sq", GprBackups[p.nGpr - k], p.gprOffset + 16 * k)

FprsSaved(p) ==
  \A k \in 0 .. p.nFpr - 1 :
    code[FprAt(p) + k + 1] = Instr("swc1", FprBackups[p.nFpr - k], p.fprOffset + 4 * k)

FrameSaved(p) == StackSaved(p) /\ RaSaved(p) /\ FpSaved(p) /\ GprsSaved(p) /\ FprsSaved(p)

(* What has been read when the step looks at instruction i. *)
BeforeStack(p, i) == ~p.ra /\ ~p.fp /\ NoRegisters(p) /\ i = 1
BeforeRa(p, i) == FrameSaved(p) /\ ~p.ra /\ ~p.fp /\ NoRegisters(p) /\ i = 2
BeforeFp(p, i) == FrameSaved(p) /\ ~p.fp /\ NoRegisters(p) /\ i = 2 + RaSize(p)
BeforeGprs(p, i) == FrameSaved(p) /\ NoRegisters(p) /\ i = GprAt(p)
BeforeFprs(p, i) == FrameSaved(p) /\ p.nFpr = 0 /\ i = FprAt(p)
BeforeLayout(p, i) == FrameSaved(p) /\ i = FrameEnd(p)

FrameRead(p, e) ==
  \/ p.usage = 0 /\ NoRegisters(p)
  \/ FrameSaved(p) /\ e = FrameEnd(p) /\ StackLinesUp(p) /\ p.nVars = VarBytes(p)

Restored(p, i) ==
  /\ 0 <= i /\ i + Len(Restores(p)) <= size
  /\ Between(i, i + Len(Restores(p))) = Restores(p)

Begun == pc = "blocks" => BeforeStack(prologue, 1)

StagesRead ==
  /\ pc = "stack" => BeforeStack(prologue, idx)
  /\ pc = "ra" => BeforeRa(prologue, idx)
  /\ pc = "fp" => BeforeFp(prologue, idx)
  /\ pc = "gprs" => BeforeGprs(prologue, idx)
  /\ pc = "fprs" => BeforeFprs(prologue, idx)
  /\ pc = "layout" => BeforeLayout(prologue, idx)

FrameKept ==
  /\ pc \in {"trim", "padding", "epilogue"} => FrameRead(prologue, prologueEnd)
  /\ prologue.epilogueOk => FrameRead(prologue, prologueEnd) /\ Restored(prologue, epilogueStart)

FrameInv == Begun /\ StagesRead /\ FrameKept

(* All that a stage says of the code is of the code alone. *)
LEMMA FramePrimed ==
  ASSUME code' = code, NEW p, p = prologue', NEW i, i = idx', NEW e, e = prologueEnd',
         NEW s, s = epilogueStart'
  PROVE  /\ BeforeStack(prologue, idx)' <=> BeforeStack(p, i)
         /\ BeforeRa(prologue, idx)' <=> BeforeRa(p, i)
         /\ BeforeFp(prologue, idx)' <=> BeforeFp(p, i)
         /\ BeforeGprs(prologue, idx)' <=> BeforeGprs(p, i)
         /\ BeforeFprs(prologue, idx)' <=> BeforeFprs(p, i)
         /\ BeforeLayout(prologue, idx)' <=> BeforeLayout(p, i)
         /\ BeforeStack(prologue, 1)' <=> BeforeStack(p, 1)
         /\ FrameRead(prologue, prologueEnd)' <=> FrameRead(p, e)
         /\ Restored(prologue, epilogueStart)' <=> Restored(p, s)
<1>1. /\ RaSize(prologue)' = RaSize(p) /\ FpSize(prologue)' = FpSize(p)
  BY DEF RaSize, FpSize
<1>2. /\ GprAt(prologue)' = GprAt(p) /\ FprAt(prologue)' = FprAt(p) /\ FrameEnd(prologue)' = FrameEnd(p)
  BY <1>1 DEF GprAt, FprAt, FrameEnd
<1>3. /\ StackSaved(prologue)' <=> StackSaved(p)
      /\ RaSaved(prologue)' <=> RaSaved(p)
      /\ FpSaved(prologue)' <=> FpSaved(p)
  BY <1>1 DEF StackSaved, RaSaved, FpSaved
<1>4. /\ GprsSaved(prologue)' <=> GprsSaved(p)
      /\ FprsSaved(prologue)' <=> FprsSaved(p)
  BY <1>2 DEF GprsSaved, FprsSaved
<1>5. FrameSaved(prologue)' <=> FrameSaved(p)
  BY <1>3, <1>4 DEF FrameSaved
<1>6. NoRegisters(prologue)' <=> NoRegisters(p)
  BY DEF NoRegisters
<1>7. /\ VarOffset(prologue)' = VarOffset(p) /\ VarBytes(prologue)' = VarBytes(p)
  BY DEF VarOffset, VarBytes
<1>8. StackLinesUp(prologue)' <=> StackLinesUp(p)
  BY <1>7 DEF StackLinesUp
<1>9. Restores(prologue)' = Restores(p)
  BY DEF Restores, If
<1>10. Restored(prologue, epilogueStart)' <=> Restored(p, s)
  BY <1>9 DEF Restored, Between, size
<1>11. FrameRead(prologue, prologueEnd)' <=> FrameRead(p, e)
  BY <1>2, <1>5, <1>6, <1>7, <1>8 DEF FrameRead
<1> QED BY <1>1, <1>2, <1>5, <1>6, <1>10, <1>11
     DEF BeforeStack, BeforeRa, BeforeFp, BeforeGprs, BeforeFprs, BeforeLayout

LEMMA InstrAt ==
  ASSUME Shape, NEW i \in Int, NEW op, NEW reg, Is(i, op, reg)
  PROVE  code[i + 1] = Instr(op, reg, Imm(i))
<1>1. i + 1 \in 1 .. size
  BY CodeFacts DEF Shape, Is, InRange
<1>2. code[i + 1] = Instr(code[i + 1].op, code[i + 1].reg, code[i + 1].imm)
  BY <1>1, CodeFacts DEF Shape
<1> QED BY <1>2 DEF Is, Imm

LEMMA NoneSaved ==
  ASSUME NEW p, NoRegisters(p)
  PROVE  GprsSaved(p) /\ FprsSaved(p)
<1>1. \A k \in 0 .. 0 - 1 : FALSE
  OBVIOUS
<1> QED BY <1>1 DEF NoRegisters, GprsSaved, FprsSaved

LEMMA ReadsStack ==
  ASSUME Shape, NEW p \in Prologues, BeforeStack(p, idx), Is(idx, "daddiu", "sp"),
         NEW q, q = [p EXCEPT !.usage = -Imm(idx)]
  PROVE  BeforeRa(q, idx + 1)
<1>1. idx = 1 /\ ~p.ra /\ ~p.fp /\ NoRegisters(p)
  BY DEF BeforeStack
<1>2. Imm(1) \in Int
  BY <1>1, ImmTyped DEF Is
<1>3. code[1 + 1] = Instr("daddiu", "sp", Imm(1))
  BY <1>1, InstrAt
<1>4. q.usage = -Imm(1) /\ ~q.ra /\ ~q.fp /\ NoRegisters(q)
  BY <1>1 DEF Prologues, NoRegisters
<1>5. -(-Imm(1)) = Imm(1)
  BY <1>2
<1>6. code[2] = Instr("daddiu", "sp", -q.usage)
  <2>1. 1 + 1 = 2
    OBVIOUS
  <2> QED BY <1>3, <1>4, <1>5, <2>1
<1>7. FrameSaved(q)
  BY <1>4, <1>6, NoneSaved DEF FrameSaved, StackSaved, RaSaved, FpSaved
<1>8. idx + 1 = 2
  BY <1>1
<1> QED BY <1>4, <1>7, <1>8 DEF BeforeRa

LEMMA ReadsNoStack ==
  ASSUME NEW p \in Prologues, NEW i, BeforeStack(p, i), NEW e, NEW q, q = [p EXCEPT !.usage = 0]
  PROVE  FrameRead(q, e)
<1>1. q.usage = 0 /\ NoRegisters(q)
  BY DEF Prologues, NoRegisters, BeforeStack
<1> QED BY <1>1 DEF FrameRead

LEMMA ReadsRa ==
  ASSUME Shape, NEW p \in Prologues, BeforeRa(p, idx), NEW q, NEW j,
         \/ /\ Is(idx, "sd", "ra") /\ Imm(idx) = 0
            /\ q = [p EXCEPT !.ra = TRUE] /\ j = idx + 1
         \/ q = p /\ j = idx
  PROVE  BeforeFp(q, j)
<1>1. idx = 2 /\ ~p.ra /\ ~p.fp /\ NoRegisters(p) /\ FrameSaved(p)
  BY DEF BeforeRa
<1>2. CASE Is(idx, "sd", "ra") /\ Imm(idx) = 0 /\ q = [p EXCEPT !.ra = TRUE] /\ j = idx + 1
  <2>1. code[2 + 1] = Instr("sd", "ra", 0)
    BY <1>1, <1>2, InstrAt
  <2>2. q.usage = p.usage /\ q.ra /\ ~q.fp /\ NoRegisters(q)
    BY <1>1, <1>2 DEF Prologues, NoRegisters
  <2>3. code[3] = Instr("sd", "ra", 0)
    <3>1. 2 + 1 = 3
      OBVIOUS
    <3> QED BY <2>1, <3>1
  <2>4. FrameSaved(q)
    BY <1>1, <2>2, <2>3, NoneSaved DEF FrameSaved, StackSaved, RaSaved, FpSaved
  <2>5. j = 2 + RaSize(q)
    BY <1>1, <1>2, <2>2 DEF RaSize
  <2> QED BY <2>2, <2>4, <2>5 DEF BeforeFp
<1>3. CASE q = p /\ j = idx
  BY <1>1, <1>3 DEF BeforeFp, RaSize
<1> QED BY <1>2, <1>3

LEMMA ReadsFp ==
  ASSUME Shape, NEW p \in Prologues, BeforeFp(p, idx), NEW q, NEW j,
         \/ /\ Is(idx, "sd", "fp") /\ Imm(idx) = 8 /\ Is(idx + 1, "or_t9", "fp")
            /\ q = [p EXCEPT !.fp = TRUE] /\ j = idx + 2
         \/ q = p /\ j = idx
  PROVE  BeforeGprs(q, j)
<1> PICK i : i = idx
  OBVIOUS
<1>1. i = 2 + RaSize(p) /\ ~p.fp /\ NoRegisters(p) /\ FrameSaved(p)
  BY DEF BeforeFp
<1>2. RaSize(p) \in Int /\ i \in Int
  BY DEF RaSize, Shape
<1>3. CASE /\ Is(i, "sd", "fp") /\ Imm(i) = 8 /\ Is(i + 1, "or_t9", "fp")
           /\ q = [p EXCEPT !.fp = TRUE] /\ j = i + 2
  <2>1. code[i + 1] = Instr("sd", "fp", 8)
    BY <1>2, <1>3, InstrAt
  <2>2. code[i + 2] = Instr("or_t9", "fp", 0)
    <3>0. PICK h : h = i + 1
      OBVIOUS
    <3>1. code[h + 1] = Instr("or_t9", "fp", Imm(h))
      BY <1>2, <1>3, <3>0, InstrAt
    <3>2. Imm(h) = 0
      <4>1. IsFunction(code) /\ h + 1 \in 1 .. size
        BY <1>2, <1>3, <3>0, CodeIsFunction, CodeFacts DEF Is, InRange, Shape
      <4>2. h + 1 \in DOMAIN code
        <5>1. code \in Seq(Range(code))
          BY <4>1 DEF IsFunction, IsCode
        <5>2. DOMAIN code = 1 .. size
          BY <5>1 DEF size
        <5> QED BY <4>1, <5>2
      <4>3. code[h + 1].op = "or_t9"
        BY <1>3, <3>0 DEF Is
      <4> QED BY <4>1, <4>2, <4>3 DEF IsFunction, IsCode, Imm
    <3>3. h + 1 = i + 2
      BY <1>2, <3>0
    <3> QED BY <3>1, <3>2, <3>3
  <2>3. q.usage = p.usage /\ q.ra = p.ra /\ q.fp /\ NoRegisters(q)
    BY <1>1, <1>3 DEF Prologues, NoRegisters
  <2>4. RaSize(q) = RaSize(p) /\ FpSize(q) = 1
    BY <2>3 DEF RaSize, FpSize
  <2>5. 3 + RaSize(q) = i + 1 /\ 4 + RaSize(q) = i + 2 /\ GprAt(q) = i + 2
    BY <1>1, <1>2, <2>4 DEF GprAt
  <2>6. FpSaved(q)
    BY <2>1, <2>2, <2>5 DEF FpSaved
  <2>7. FrameSaved(q)
    BY <1>1, <2>3, <2>6, NoneSaved DEF FrameSaved, StackSaved, RaSaved
  <2> QED BY <1>3, <2>3, <2>5, <2>7 DEF BeforeGprs
<1>4. CASE q = p /\ j = i
  BY <1>1, <1>2, <1>4 DEF BeforeGprs, GprAt, FpSize
<1> QED BY <1>3, <1>4

AllAre(stores, op) == \A i \in stores : InRange(i) /\ code[i + 1].op = op

(* The run of stores a step finds saves the first n registers in reverse. *)
RunIs(n, width, backups, op) ==
  \A k \in 0 .. n - 1 :
    code[idx + k + 1] = Instr(op, backups[n - k], Imm(idx) + width * k)

LEMMA RunSaves ==
  ASSUME Shape, NEW n \in Nat, NEW width \in Int, NEW backups, NEW stores, NEW op,
         IsRun(n, stores), AllAre(stores, op),
         Ordered(n, width, backups)
  PROVE  RunIs(n, width, backups, op)
<1> SUFFICES ASSUME NEW k \in 0 .. n - 1
    PROVE  code[idx + k + 1] = Instr(op, backups[n - k], Imm(idx) + width * k)
  BY DEF RunIs
<1> PICK i : i = idx
  OBVIOUS
<1> PICK h : h = i + k
  OBVIOUS
<1>1. i \in Int /\ h \in Int /\ h \in i .. i + n - 1
  BY DEF Shape
<1>2. InRange(h) /\ code[h + 1].op = op
  BY <1>1 DEF IsRun, AllAre
<1>3. Is(h, op, code[h + 1].reg)
  BY <1>2 DEF Is
<1>4. code[h + 1] = Instr(op, code[h + 1].reg, Imm(h))
  BY <1>1, <1>3, InstrAt
<1>5. ~Misplaced(k, width) /\ ~WrongRegister(k, n, backups)
  BY DEF Ordered
<1>6. Imm(h) = Imm(i) + width * k /\ code[h + 1].reg = backups[n - k]
  BY <1>5 DEF Misplaced, WrongRegister
<1> QED BY <1>4, <1>6

LEMMA ReadsGprs ==
  ASSUME Shape, NEW p \in Prologues, BeforeGprs(p, idx), NEW n \in Nat,
         IsRun(n, GprStores), Ordered(n, 16, GprBackups),
         NEW q, q = [p EXCEPT !.nGpr = n, !.gprOffset = IF n = 0 THEN @ ELSE Imm(idx)]
  PROVE  BeforeFprs(q, idx + n)
<1>1. idx = GprAt(p) /\ NoRegisters(p) /\ FrameSaved(p)
  BY DEF BeforeGprs
<1>2. /\ q.usage = p.usage /\ q.ra = p.ra /\ q.fp = p.fp /\ q.nGpr = n
      /\ q.nFpr = 0 /\ (n # 0 => q.gprOffset = Imm(idx))
  BY <1>1 DEF Prologues, NoRegisters
<1>3. RaSize(q) = RaSize(p) /\ FpSize(q) = FpSize(p) /\ GprAt(q) = idx /\ FprAt(q) = idx + n
  BY <1>1, <1>2 DEF RaSize, FpSize, GprAt, FprAt
<1>4. StackSaved(q) /\ RaSaved(q) /\ FpSaved(q)
  BY <1>1, <1>2, <1>3 DEF FrameSaved, StackSaved, RaSaved, FpSaved
<1>5. GprsSaved(q)
  <2>1. ASSUME NEW k \in 0 .. n - 1
        PROVE  code[idx + k + 1] = Instr("sq", GprBackups[n - k], q.gprOffset + 16 * k)
    <3>1. n # 0 /\ 16 \in Int
      OBVIOUS
    <3>2. AllAre(GprStores, "sq")
      BY DEF GprStores, AllAre, InRange
    <3>3. RunIs(n, 16, GprBackups, "sq")
      BY <3>1, <3>2, RunSaves
    <3> QED BY <1>2, <3>1, <3>3 DEF RunIs
  <2> QED BY <1>2, <1>3, <2>1 DEF GprsSaved
<1>6. FprsSaved(q)
  <2>1. \A k \in 0 .. 0 - 1 : FALSE
    OBVIOUS
  <2> QED BY <1>2, <2>1 DEF FprsSaved
<1> QED BY <1>2, <1>3, <1>4, <1>5, <1>6 DEF BeforeFprs, FrameSaved

LEMMA ReadsFprs ==
  ASSUME Shape, NEW p \in Prologues, BeforeFprs(p, idx), NEW n \in Nat,
         IsRun(n, FprStores), Ordered(n, 4, FprBackups),
         NEW q, q = [p EXCEPT !.nFpr = n, !.fprOffset = IF n = 0 THEN @ ELSE Imm(idx)]
  PROVE  BeforeLayout(q, idx + n)
<1>1. idx = FprAt(p) /\ FrameSaved(p)
  BY DEF BeforeFprs
<1>2. /\ q.usage = p.usage /\ q.ra = p.ra /\ q.fp = p.fp /\ q.nGpr = p.nGpr
      /\ q.gprOffset = p.gprOffset
      /\ q.nFpr = n /\ (n # 0 => q.fprOffset = Imm(idx))
  BY DEF Prologues
<1>3. RaSize(q) = RaSize(p) /\ FpSize(q) = FpSize(p) /\ GprAt(q) = GprAt(p)
      /\ FprAt(q) = idx /\ FrameEnd(q) = idx + n
  BY <1>1, <1>2 DEF RaSize, FpSize, GprAt, FprAt, FrameEnd
<1>4. StackSaved(q) /\ RaSaved(q) /\ FpSaved(q)
  BY <1>1, <1>2, <1>3 DEF FrameSaved, StackSaved, RaSaved, FpSaved
<1>5. GprsSaved(q)
  BY <1>1, <1>2, <1>3 DEF FrameSaved, GprsSaved
<1>6. FprsSaved(q)
  <2>1. ASSUME NEW k \in 0 .. n - 1
        PROVE  code[idx + k + 1] = Instr("swc1", FprBackups[n - k], q.fprOffset + 4 * k)
    <3>1. n # 0 /\ 4 \in Int
      OBVIOUS
    <3>2. AllAre(FprStores, "swc1")
      BY DEF FprStores, AllAre, InRange
    <3>3. RunIs(n, 4, FprBackups, "swc1")
      BY <3>1, <3>2, RunSaves
    <3> QED BY <1>2, <3>1, <3>3 DEF RunIs
  <2> QED BY <1>2, <1>3, <2>1 DEF FprsSaved
<1> QED BY <1>3, <1>4, <1>5, <1>6 DEF BeforeLayout, FrameSaved

(* A function that saves no register of the second kind has read its frame. *)
LEMMA ReadsNoFprs ==
  ASSUME Shape, NEW p \in Prologues, NEW i, BeforeFprs(p, i)
  PROVE  BeforeLayout(p, i)
<1>1. FprAt(p) \in Int
  BY BackupFacts DEF Prologues, RaSize, FpSize, GprAt, FprAt
<1> QED BY <1>1 DEF BeforeFprs, BeforeLayout, FrameEnd

(* What a frame is does not depend on what else is recorded. *)
SameFrame(p, q) ==
  /\ q.usage = p.usage /\ q.ra = p.ra /\ q.fp = p.fp
  /\ q.nGpr = p.nGpr /\ q.gprOffset = p.gprOffset
  /\ q.nFpr = p.nFpr /\ q.fprOffset = p.fprOffset

LEMMA SameFrameSame ==
  ASSUME NEW p, NEW q, SameFrame(p, q)
  PROVE  /\ RaSize(q) = RaSize(p) /\ FpSize(q) = FpSize(p) /\ FrameEnd(q) = FrameEnd(p)
         /\ FrameSaved(q) <=> FrameSaved(p)
         /\ NoRegisters(q) <=> NoRegisters(p)
         /\ VarOffset(q) = VarOffset(p) /\ VarBytes(q) = VarBytes(p)
         /\ StackLinesUp(q) <=> StackLinesUp(p)
         /\ Restores(q) = Restores(p)
<1>1. RaSize(q) = RaSize(p) /\ FpSize(q) = FpSize(p)
  BY DEF SameFrame, RaSize, FpSize
<1>2. GprAt(q) = GprAt(p) /\ FprAt(q) = FprAt(p) /\ FrameEnd(q) = FrameEnd(p)
  BY <1>1 DEF SameFrame, GprAt, FprAt, FrameEnd
<1>3. /\ StackSaved(q) <=> StackSaved(p)
      /\ RaSaved(q) <=> RaSaved(p)
      /\ FpSaved(q) <=> FpSaved(p)
  BY <1>1 DEF SameFrame, StackSaved, RaSaved, FpSaved
<1>4. /\ GprsSaved(q) <=> GprsSaved(p)
      /\ FprsSaved(q) <=> FprsSaved(p)
  BY <1>2 DEF SameFrame, GprsSaved, FprsSaved
<1>5. VarOffset(q) = VarOffset(p) /\ VarBytes(q) = VarBytes(p)
  BY DEF SameFrame, VarOffset, VarBytes
<1>6. StackLinesUp(q) <=> StackLinesUp(p)
  BY <1>5 DEF SameFrame, StackLinesUp
<1>7. Restores(q) = Restores(p)
  BY DEF SameFrame, Restores, If
<1>8. NoRegisters(q) <=> NoRegisters(p)
  BY DEF SameFrame, NoRegisters
<1> QED BY <1>1, <1>2, <1>3, <1>4, <1>5, <1>6, <1>7, <1>8 DEF FrameSaved

LEMMA ReadsLayout ==
  ASSUME NEW p \in Prologues, NEW i, BeforeLayout(p, i), StackLinesUp(p),
         NEW q, q = [p EXCEPT !.varOffset = VarOffset(p), !.nVars = VarBytes(p)]
  PROVE  FrameRead(q, i)
<1>1. SameFrame(p, q) /\ q.nVars = VarBytes(p)
  BY DEF Prologues, SameFrame
<1>2. FrameSaved(q) /\ StackLinesUp(q) /\ q.nVars = VarBytes(q) /\ i = FrameEnd(q)
  BY <1>1, SameFrameSame DEF BeforeLayout
<1> QED BY <1>2 DEF FrameRead

LEMMA KeepsFrame ==
  ASSUME NEW p \in Prologues, NEW e, FrameRead(p, e), NEW q,
         \/ q = p
         \/ q = [p EXCEPT !.decoded = TRUE]
         \/ q = [p EXCEPT !.epilogueOk = TRUE]
  PROVE  FrameRead(q, e) /\ SameFrame(p, q)
<1>1. SameFrame(p, q) /\ q.nVars = p.nVars
  BY DEF Prologues, SameFrame
<1>2. /\ FrameEnd(q) = FrameEnd(p)
      /\ FrameSaved(q) <=> FrameSaved(p)
      /\ NoRegisters(q) <=> NoRegisters(p)
      /\ VarBytes(q) = VarBytes(p)
      /\ StackLinesUp(q) <=> StackLinesUp(p)
  BY <1>1, SameFrameSame
<1> QED BY <1>1, <1>2 DEF FrameRead, SameFrame

LEMMA FrameStays == ASSUME Shape, StageInv, FrameInv, Moves PROVE FrameInv'
<1>p. PICK p : p = prologue
  OBVIOUS
<1>q. PICK q : q = prologue'
  OBVIOUS
<1>j. PICK j : j = idx'
  OBVIOUS
<1>e. PICK e : e = prologueEnd'
  OBVIOUS
<1>s. PICK s : s = epilogueStart'
  OBVIOUS
<1>0. p \in Prologues /\ StagesRead /\ FrameKept /\ Begun
  BY <1>p DEF Shape, FrameInv
<1>1. code' = code
  BY DEF Moves, Finds, FindsBlocks, FindsStack, FindsRa, FindsFp, FindsGprs, FindsFprs, ChecksLayout,
     Trims, SkipsNop, FindsReturn, Accepts, Stops
<1>2. /\ BeforeStack(prologue, idx)' <=> BeforeStack(q, j)
      /\ BeforeRa(prologue, idx)' <=> BeforeRa(q, j)
      /\ BeforeFp(prologue, idx)' <=> BeforeFp(q, j)
      /\ BeforeGprs(prologue, idx)' <=> BeforeGprs(q, j)
      /\ BeforeFprs(prologue, idx)' <=> BeforeFprs(q, j)
      /\ BeforeLayout(prologue, idx)' <=> BeforeLayout(q, j)
      /\ FrameRead(prologue, prologueEnd)' <=> FrameRead(q, e)
      /\ Restored(prologue, epilogueStart)' <=> Restored(q, s)
  BY <1>1, <1>q, <1>j, <1>e, <1>s, FramePrimed
<1>3. prologue'.epilogueOk => pc' = "done"
  BY StageStays DEF StageInv, AtEnd
<1>4. CASE FindsBlocks
  <2>1. q = p /\ j = 1 /\ pc' = "stack" /\ pc = "blocks"
    BY <1>4, <1>p, <1>q, <1>j DEF FindsBlocks
  <2>2. BeforeStack(q, j)
    BY <1>0, <1>p, <2>1 DEF Begun
  <2> QED BY <1>2, <1>3, <2>1, <2>2 DEF FrameInv, Begun, StagesRead, FrameKept
<1>5. CASE FindsStack
  <2>1. BeforeStack(p, idx)
    BY <1>0, <1>5, <1>p DEF FindsStack, StagesRead
  <2>2. CASE Is(idx, "daddiu", "sp") /\ q = [p EXCEPT !.usage = -Imm(idx)] /\ pc' = "ra" /\ j = idx + 1
    <3>1. BeforeRa(q, j)
      BY <1>0, <2>1, <2>2, ReadsStack
    <3> QED BY <1>2, <1>3, <2>2, <3>1 DEF FrameInv, Begun, StagesRead, FrameKept
  <2>3. CASE q = [p EXCEPT !.usage = 0] /\ pc' = "trim"
    <3>1. FrameRead(q, e)
      BY <1>0, <2>1, <2>3, ReadsNoStack
    <3> QED BY <1>2, <1>3, <2>3, <3>1 DEF FrameInv, Begun, StagesRead, FrameKept
  <2> QED BY <1>5, <1>p, <1>q, <1>j, <2>2, <2>3 DEF FindsStack
<1>6. CASE FindsRa
  <2>1. BeforeRa(p, idx)
    BY <1>0, <1>6, <1>p DEF FindsRa, StagesRead
  <2>2. \/ /\ Is(idx, "sd", "ra") /\ Imm(idx) = 0
           /\ q = [p EXCEPT !.ra = TRUE] /\ j = idx + 1
        \/ q = p /\ j = idx
    BY <1>6, <1>p, <1>q, <1>j DEF FindsRa
  <2>3. BeforeFp(q, j) /\ pc' = "fp"
    BY <1>0, <1>6, <2>1, <2>2, ReadsRa DEF FindsRa
  <2> QED BY <1>2, <1>3, <2>3 DEF FrameInv, Begun, StagesRead, FrameKept
<1>7. CASE FindsFp
  <2>1. BeforeFp(p, idx)
    BY <1>0, <1>7, <1>p DEF FindsFp, StagesRead
  <2>2. \/ /\ Is(idx, "sd", "fp") /\ Imm(idx) = 8 /\ Is(idx + 1, "or_t9", "fp")
           /\ q = [p EXCEPT !.fp = TRUE] /\ j = idx + 2
        \/ q = p /\ j = idx
    BY <1>7, <1>p, <1>q, <1>j DEF FindsFp
  <2>3. BeforeGprs(q, j) /\ pc' = "gprs"
    BY <1>0, <1>7, <2>1, <2>2, ReadsFp DEF FindsFp
  <2> QED BY <1>2, <1>3, <2>3 DEF FrameInv, Begun, StagesRead, FrameKept
<1>8. ASSUME NEW n \in Nat, FindsGprs(n) PROVE FrameInv'
  <2>1. BeforeGprs(p, idx)
    BY <1>0, <1>8, <1>p DEF FindsGprs, StagesRead
  <2>2. /\ IsRun(n, GprStores) /\ Ordered(n, 16, GprBackups)
        /\ q = [p EXCEPT !.nGpr = n, !.gprOffset = IF n = 0 THEN @ ELSE Imm(idx)]
        /\ j = idx + n /\ pc' \in {"fprs", "layout"}
    BY <1>8, <1>p, <1>q, <1>j DEF FindsGprs
  <2>3. BeforeFprs(q, j)
    BY <1>0, <2>1, <2>2, ReadsGprs
  <2>4. Shape' /\ q \in Prologues
    BY <1>q, ShapeStays DEF Shape
  <2>5. BeforeLayout(q, j)
    BY <2>3, <2>4, ReadsNoFprs
  <2> QED BY <1>2, <1>3, <2>2, <2>3, <2>5 DEF FrameInv, Begun, StagesRead, FrameKept
<1>9. ASSUME NEW n \in Nat, FindsFprs(n) PROVE FrameInv'
  <2>1. BeforeFprs(p, idx)
    BY <1>0, <1>9, <1>p DEF FindsFprs, StagesRead
  <2>2. /\ IsRun(n, FprStores) /\ Ordered(n, 4, FprBackups)
        /\ q = [p EXCEPT !.nFpr = n, !.fprOffset = IF n = 0 THEN @ ELSE Imm(idx)]
        /\ j = idx + n /\ pc' = "layout"
    BY <1>9, <1>p, <1>q, <1>j DEF FindsFprs
  <2>3. BeforeLayout(q, j)
    BY <1>0, <2>1, <2>2, ReadsFprs
  <2> QED BY <1>2, <1>3, <2>2, <2>3 DEF FrameInv, Begun, StagesRead, FrameKept
<1>10. CASE ChecksLayout
  <2>1. BeforeLayout(p, idx)
    BY <1>0, <1>10, <1>p DEF ChecksLayout, StagesRead
  <2>2. /\ StackLinesUp(p) /\ e = idx /\ pc' = "trim"
        /\ q = [p EXCEPT !.varOffset = VarOffset(p), !.nVars = VarBytes(p)]
    BY <1>10, <1>p, <1>q, <1>e DEF ChecksLayout
  <2>3. FrameRead(q, e)
    BY <1>0, <2>1, <2>2, ReadsLayout
  <2> QED BY <1>2, <1>3, <2>2, <2>3 DEF FrameInv, Begun, StagesRead, FrameKept
<1>11. CASE Trims \/ SkipsNop \/ FindsReturn
  <2>1. /\ e = prologueEnd /\ pc \in {"trim", "padding", "epilogue"}
        /\ pc' \in {"padding", "epilogue"}
        /\ q = p \/ q = [p EXCEPT !.decoded = TRUE]
    BY <1>11, <1>p, <1>q, <1>e DEF Trims, SkipsNop, FindsReturn, found
  <2>2. FrameRead(p, prologueEnd)
    BY <1>0, <1>p, <2>1 DEF FrameKept
  <2>3. FrameRead(q, e)
    BY <1>0, <2>1, <2>2, KeepsFrame
  <2> QED BY <1>2, <1>3, <2>1, <2>3 DEF FrameInv, Begun, StagesRead, FrameKept
<1>12. ASSUME NEW start \in Int, Accepts(start) PROVE FrameInv'
  <2>1. /\ e = prologueEnd /\ pc = "epilogue" /\ pc' = "done" /\ s = start
        /\ q = [p EXCEPT !.epilogueOk = TRUE]
        /\ start = idx + 1 - Len(Restores(p)) /\ start >= 0
        /\ Between(start, idx + 1) = Restores(p)
    BY <1>12, <1>p, <1>q, <1>e, <1>s DEF Accepts
  <2>2. FrameRead(p, prologueEnd)
    BY <1>0, <1>p, <2>1 DEF FrameKept
  <2>3. FrameRead(q, e) /\ SameFrame(p, q)
    BY <1>0, <2>1, <2>2, KeepsFrame
  <2>4. Restores(q) = Restores(p)
    BY <2>3, SameFrameSame
  <2>5. PICK l : l = Len(Restores(p))
    OBVIOUS
  <2>6. l \in Nat /\ idx \in Int /\ size \in Nat
    BY <1>p, <2>5, RestoresAreTyped, CodeFacts DEF RestoresType, Shape
  <2>7. start + l = idx + 1 /\ 0 <= start
    BY <2>1, <2>5, <2>6
  <2>8. idx + 1 <= size
    <3>1. idx <= epilogueEnd /\ epilogueEnd <= size - 1 /\ epilogueEnd \in Int
      BY <2>1 DEF StageInv, AtEpilogue, Shape
    <3> QED BY <2>6, <3>1
  <2>9. Restored(q, s)
    BY <2>1, <2>4, <2>5, <2>7, <2>8 DEF Restored
  <2> QED BY <1>2, <2>1, <2>3, <2>9 DEF FrameInv, Begun, StagesRead, FrameKept
<1>13. CASE Stops
  <2>1. pc # "done" /\ prologue' = prologue /\ pc' \in {"aborted", "done"}
    BY <1>13, StagesDiffer DEF Stops, Stages
  <2>2. ~prologue'.epilogueOk
    BY <2>1 DEF StageInv, AtEnd
  <2> QED BY <2>1, <2>2 DEF FrameInv, Begun, StagesRead, FrameKept
<1> QED BY <1>4, <1>5, <1>6, <1>7, <1>8, <1>9, <1>10, <1>11, <1>12, <1>13 DEF Moves, Finds

LEMMA FrameUnchanged == ASSUME FrameInv, UNCHANGED vars PROVE FrameInv'
<1>1. /\ code' = code /\ prologueEnd' = prologueEnd /\ epilogueStart' = epilogueStart
      /\ prologue' = prologue /\ pc' = pc /\ idx' = idx
  BY DEF vars, found
<1>p. PICK p : p = prologue
  OBVIOUS
<1>i. PICK i : i = idx
  OBVIOUS
<1>e. PICK e : e = prologueEnd
  OBVIOUS
<1>s. PICK s : s = epilogueStart
  OBVIOUS
<1>2. p = prologue' /\ i = idx' /\ e = prologueEnd' /\ s = epilogueStart'
  BY <1>1, <1>p, <1>i, <1>e, <1>s
<1>3. /\ BeforeStack(prologue, idx)' <=> BeforeStack(p, i)
      /\ BeforeRa(prologue, idx)' <=> BeforeRa(p, i)
      /\ BeforeFp(prologue, idx)' <=> BeforeFp(p, i)
      /\ BeforeGprs(prologue, idx)' <=> BeforeGprs(p, i)
      /\ BeforeFprs(prologue, idx)' <=> BeforeFprs(p, i)
      /\ BeforeLayout(prologue, idx)' <=> BeforeLayout(p, i)
      /\ BeforeStack(prologue, 1)' <=> BeforeStack(p, 1)
      /\ FrameRead(prologue, prologueEnd)' <=> FrameRead(p, e)
      /\ Restored(prologue, epilogueStart)' <=> Restored(p, s)
  BY <1>1, <1>2, FramePrimed
<1> QED BY <1>1, <1>p, <1>i, <1>e, <1>s, <1>3 DEF FrameInv, Begun, StagesRead, FrameKept

LEMMA FrameInvariant == Spec => [](Shape /\ StageInv /\ FrameInv)
<1>1. Init => FrameInv
  <2> SUFFICES ASSUME Init PROVE FrameInv
    OBVIOUS
  <2>1. /\ pc = "blocks" /\ ~prologue.epilogueOk /\ ~prologue.ra /\ ~prologue.fp
        /\ prologue.nGpr = 0 /\ prologue.nFpr = 0
    BY DEF Init
  <2> QED BY <2>1 DEF FrameInv, Begun, StagesRead, FrameKept, BeforeStack, NoRegisters
<1>2. (Shape /\ StageInv) /\ FrameInv /\ [Next]_vars => FrameInv'
  <2> SUFFICES ASSUME Shape, StageInv, FrameInv, [Next]_vars PROVE FrameInv'
    OBVIOUS
  <2>1. Moves \/ UNCHANGED vars
    BY NextCases, RestoresAreTyped
  <2> QED BY <2>1, FrameStays, FrameUnchanged
<1> QED BY <1>1, <1>2, StagesInvariant, PTL DEF Spec

-----------------------------------------------------------------------------
(* A frame written down again                                               *)

LEMMA SameSequence ==
  ASSUME NEW S, NEW T, NEW s \in Seq(S), NEW t \in Seq(T), Len(s) = Len(t),
         \A k \in 1 .. Len(s) : s[k] = t[k]
  PROVE  s = t
<1>1. DOMAIN s = DOMAIN t /\ \A k \in DOMAIN s : s[k] = t[k]
  OBVIOUS
<1>2. s = [k \in 1 .. Len(s) |-> s[k]] /\ t = [k \in 1 .. Len(t) |-> t[k]]
  OBVIOUS
<1> QED BY <1>1, <1>2

-----------------------------------------------------------------------------
(* The layout that is checked is that of a frame                            *)

(* The code between the tag and the end of the prologue is the frame. *)
LEMMA PrologueIsSaves ==
  ASSUME code \in Compiled \cup Others, NEW p \in Prologues, NEW end \in Int, end <= size,
         FrameSaved(p), end = FrameEnd(p), StackLinesUp(p), p.nVars = VarBytes(p), p.usage # 0
  PROVE  Between(1, end) = Saves(p)
<1>r. PICK r : r = Saves(p)
  OBVIOUS
<1>c. PICK c : c = Between(1, end)
  OBVIOUS
<1>x. PICK x : x = RaSize(p)
  OBVIOUS
<1>y. PICK y : y = FpSize(p)
  OBVIOUS
<1>0. /\ x \in Nat /\ y \in Nat /\ p.nGpr \in Nat /\ p.nFpr \in Nat /\ size \in Nat
      /\ GprAt(p) = 2 + x + 2 * y /\ FprAt(p) = 2 + x + 2 * y + p.nGpr
      /\ end = 2 + x + 2 * y + p.nGpr + p.nFpr
      /\ p.ra \in BOOLEAN /\ p.fp \in BOOLEAN
      /\ x = (IF p.ra THEN 1 ELSE 0) /\ y = (IF p.fp THEN 1 ELSE 0)
  BY <1>x, <1>y, SizesTyped, CodeFacts DEF GprAt, FprAt, FrameEnd, RaSize, FpSize
<1>1. SavesAre(p, r)
  BY <1>r, SavesShape
<1>2. r \in Seq(Written) /\ Len(r) = end - 1
  BY <1>1 DEF SavesAre
<1>3. 1 \in Nat /\ end \in Nat /\ 1 <= end
  BY <1>0
<1>4. Len(c) = end - 1 /\ \A k \in 1 .. end - 1 : c[k] = code[1 + k]
  BY <1>c, <1>3, BetweenReads
<1>5. ASSUME NEW k \in 1 .. end - 1 PROVE code[1 + k] = r[k]
  <2>1. CASE k = 1
    <3>1. code[2] = r[1] /\ 1 + 1 = 2
      BY <1>1 DEF SavesAre, FrameSaved, StackSaved
    <3> QED BY <2>1, <3>1
  <2>2. CASE p.ra /\ k = 2
    <3>1. code[3] = r[2] /\ 1 + 2 = 3
      BY <1>1, <2>2 DEF SavesAre, FrameSaved, RaSaved
    <3> QED BY <2>2, <3>1
  <2>3. CASE p.fp /\ k \in {2 + x, 3 + x}
    <3>1. code[3 + x] = r[2 + x] /\ code[4 + x] = r[3 + x]
      BY <1>1, <1>x, <2>3 DEF SavesAre, FrameSaved, FpSaved
    <3>2. 1 + (2 + x) = 3 + x /\ 1 + (3 + x) = 4 + x
      BY <1>0
    <3> QED BY <2>3, <3>1, <3>2
  <2>4. CASE k \in GprAt(p) .. GprAt(p) + p.nGpr - 1
    <3>1. PICK j : j = k - GprAt(p)
      OBVIOUS
    <3>2. j \in 0 .. p.nGpr - 1 /\ GprAt(p) + j = k /\ GprAt(p) + j + 1 = 1 + k
      BY <1>0, <2>4, <3>1
    <3>3. code[GprAt(p) + j + 1] = Instr("sq", GprBackups[p.nGpr - j], p.gprOffset + 16 * j)
      BY <3>2 DEF FrameSaved, GprsSaved
    <3>4. r[GprAt(p) + j] = Instr("sq", GprBackups[p.nGpr - j], p.gprOffset + 16 * j)
      BY <1>1, <3>2 DEF SavesAre
    <3> QED BY <3>2, <3>3, <3>4
  <2>5. CASE k \in FprAt(p) .. FprAt(p) + p.nFpr - 1
    <3>1. PICK j : j = k - FprAt(p)
      OBVIOUS
    <3>2. j \in 0 .. p.nFpr - 1 /\ FprAt(p) + j = k /\ FprAt(p) + j + 1 = 1 + k
      BY <1>0, <2>5, <3>1
    <3>3. code[FprAt(p) + j + 1] = Instr("swc1", FprBackups[p.nFpr - j], p.fprOffset + 4 * j)
      BY <3>2 DEF FrameSaved, FprsSaved
    <3>4. r[FprAt(p) + j] = Instr("swc1", FprBackups[p.nFpr - j], p.fprOffset + 4 * j)
      BY <1>1, <3>2 DEF SavesAre
    <3> QED BY <3>2, <3>3, <3>4
  <2>6. \/ k = 1
        \/ p.ra /\ k = 2
        \/ p.fp /\ k \in {2 + x, 3 + x}
        \/ k \in GprAt(p) .. GprAt(p) + p.nGpr - 1
        \/ k \in FprAt(p) .. FprAt(p) + p.nFpr - 1
    BY <1>0
  <2> QED BY <2>1, <2>2, <2>3, <2>4, <2>5, <2>6
<1>6. c \in Seq(Range(code))
  <2>1. code \in Seq(Range(code))
    BY CodeIsFunction DEF IsFunction, IsCode
  <2>2. \A i \in 1 .. Len(code) : code[i] \in Range(code)
    BY <2>1 DEF Range
  <2>3. PICK T : T = Range(code)
    OBVIOUS
  <2>4. code \in Seq(T) /\ Len(code) = size
    BY <2>1, <2>3 DEF size
  <2>5. SubSeq(code, 2, end) \in Seq(T)
    <3>1. end <= Len(code) /\ Len(code) \in Nat /\ end \in Nat /\ 2 <= end
      BY <1>0, <2>4
    <3> QED BY <2>4, <3>1
  <2>6. 1 + 1 = 2
    OBVIOUS
  <2> QED BY <1>c, <2>3, <2>5, <2>6 DEF Between
<1>7. Len(c) = Len(r) /\ \A k \in 1 .. Len(c) : c[k] = r[k]
  BY <1>2, <1>4, <1>5
<1>8. c = r
  BY <1>2, <1>6, <1>7, SameSequence
<1> QED BY <1>8, <1>r, <1>c

(* The kth register from the end of n saved ones, and where it is restored. *)
LEMMA FromTheEnd ==
  ASSUME NEW x \in Nat, NEW y \in Nat, NEW a \in Nat, NEW b \in Nat, NEW i \in Int,
         NEW k \in 0 .. a + b - 1
  PROVE  /\ x + y + k + 1 \in 1 .. x + y + b + a + 2
         /\ i + (x + y + k) + 1 = i + (x + y + k + 1)
         /\ k < b => /\ k + 1 \in 1 .. b /\ b - 1 - k \in 0 .. b - 1
                     /\ b - (b - 1 - k) = k + 1 /\ b - (k + 1) = b - 1 - k
                     /\ x + y + k + 1 = x + y + (k + 1)
                     /\ 2 + x + 2 * y + a + (b - 1 - k) + 1 = 2 + x + 2 * y + a + b - k
         /\ ~(k < b) => /\ k - b + 1 \in 1 .. a /\ a - (k - b + 1) \in 0 .. a - 1
                        /\ a - (a - (k - b + 1)) = k - b + 1
                        /\ x + y + k + 1 = x + y + b + (k - b + 1)
                        /\ 2 + x + 2 * y + (a - (k - b + 1)) + 1 = 2 + x + 2 * y + a + b - k
  OBVIOUS

(* Each saved register is restored from the place it was saved at. *)
LEMMA LoadsAreSaves ==
  ASSUME code \in Compiled \cup Others, NEW p \in Prologues, NEW i \in Int, NEW end \in Int,
         Restored(p, i), FrameSaved(p), end = FrameEnd(p),
         NEW k \in 0 .. p.nGpr + p.nFpr - 1
  PROVE  /\ code[i + (RaSize(p) + FpSize(p) + k) + 1].reg = code[end - k].reg
         /\ code[i + (RaSize(p) + FpSize(p) + k) + 1].imm = code[end - k].imm
<1>r. PICK r : r = Restores(p)
  OBVIOUS
<1>x. PICK x : x = RaSize(p)
  OBVIOUS
<1>y. PICK y : y = FpSize(p)
  OBVIOUS
<1>0. /\ x \in Nat /\ y \in Nat /\ p.nGpr \in Nat /\ p.nFpr \in Nat
      /\ GprAt(p) = 2 + x + 2 * y /\ FprAt(p) = 2 + x + 2 * y + p.nGpr
      /\ end = 2 + x + 2 * y + p.nGpr + p.nFpr
  BY <1>x, <1>y, SizesTyped DEF GprAt, FprAt, FrameEnd
<1>1. /\ Len(r) = x + y + p.nFpr + p.nGpr + 2
      /\ \A j \in 1 .. p.nFpr : r[x + y + j]
           = Instr("lwc1", FprBackups[j], p.fprOffset + 4 * (p.nFpr - j))
      /\ \A j \in 1 .. p.nGpr : r[x + y + p.nFpr + j]
           = Instr("lq", GprBackups[j], p.gprOffset + 16 * (p.nGpr - j))
  BY <1>r, <1>x, <1>y, RestoresShape DEF RestoresAre
<1>2. PICK m : m = x + y + k + 1
  OBVIOUS
<1>3. /\ m \in 1 .. Len(r) /\ Len(r) \in Nat /\ i + (x + y + k) + 1 = i + m
  <2>1. Len(r) = x + y + p.nFpr + p.nGpr + 2
    BY <1>1
  <2>2. x + y + p.nFpr + p.nGpr + 2 \in Nat
    BY <1>0
  <2> QED BY <1>0, <1>2, <2>1, <2>2, FromTheEnd
<1>4. code[i + m] = r[m]
  <2>1. PICK j : j = i + Len(r)
    OBVIOUS
  <2>2. i \in Nat /\ j \in Nat /\ i <= j /\ j <= size /\ j - i = Len(r)
    BY <1>3, <1>r, <2>1 DEF Restored
  <2>3. Between(i, j)[m] = code[i + m]
    BY <1>3, <2>2, BetweenReads
  <2>4. Between(i, j) = r
    BY <1>r, <2>1 DEF Restored
  <2> QED BY <2>3, <2>4
<1>5. CASE k < p.nFpr
  <2>1. PICK j : j = k + 1
    OBVIOUS
  <2>2. PICK h : h = p.nFpr - 1 - k
    OBVIOUS
  <2>3. /\ j \in 1 .. p.nFpr /\ m = x + y + j /\ h \in 0 .. p.nFpr - 1
        /\ p.nFpr - h = j /\ p.nFpr - j = h /\ FprAt(p) + h + 1 = end - k
    BY <1>0, <1>2, <1>5, <2>1, <2>2, FromTheEnd
  <2>4. r[m] = Instr("lwc1", FprBackups[j], p.fprOffset + 4 * h)
    BY <1>1, <2>3
  <2>5. code[end - k] = Instr("swc1", FprBackups[j], p.fprOffset + 4 * h)
    BY <2>3 DEF FrameSaved, FprsSaved
  <2> QED BY <1>x, <1>y, <1>3, <1>4, <2>4, <2>5 DEF Instr
<1>6. CASE ~(k < p.nFpr)
  <2>1. PICK j : j = k - p.nFpr + 1
    OBVIOUS
  <2>2. PICK h : h = p.nGpr - j
    OBVIOUS
  <2>3. /\ j \in 1 .. p.nGpr /\ m = x + y + p.nFpr + j /\ h \in 0 .. p.nGpr - 1
        /\ p.nGpr - h = j /\ p.nGpr - j = h /\ GprAt(p) + h + 1 = end - k
    BY <1>0, <1>2, <1>6, <2>1, <2>2, FromTheEnd
  <2>4. r[m] = Instr("lq", GprBackups[j], p.gprOffset + 16 * h)
    BY <1>1, <2>3
  <2>5. code[end - k] = Instr("sq", GprBackups[j], p.gprOffset + 16 * h)
    BY <2>3 DEF FrameSaved, GprsSaved
  <2> QED BY <1>x, <1>y, <1>3, <1>4, <2>4, <2>5 DEF Instr
<1> QED BY <1>5, <1>6

LEMMA FrameIsRead ==
  ASSUME Shape, StageInv, FrameInv
  PROVE  FrameReadsBack
<1> SUFFICES ASSUME prologue.epilogueOk PROVE FrameReadsBack
  BY DEF FrameReadsBack
<1>p. PICK p : p = prologue
  OBVIOUS
<1>e. PICK end : end = prologueEnd
  OBVIOUS
<1>i. PICK i : i = epilogueStart
  OBVIOUS
<1>1. /\ code \in Compiled \cup Others /\ p \in Prologues /\ end \in Int /\ i \in Int
      /\ FrameRead(p, end) /\ Restored(p, i)
  BY <1>p, <1>e, <1>i DEF Shape, FrameInv, FrameKept
<1>2. end <= size
  <2>1. BlocksTile
    BY EndDivides DEF BlocksDivideCode
  <2>2. prologueEnd <= epilogueStart /\ epilogueStart <= epilogueEnd /\ epilogueEnd <= size - 1
    BY <2>1 DEF BlocksTile, StageInv, AtEnd, EpilogueCut
  <2> QED BY <1>e, <2>2, CodeFacts DEF Shape
<1>3. p.usage # 0 => Between(1, end) = Saves(p)
  BY <1>1, <1>2, PrologueIsSaves DEF FrameRead
<1>4. ASSUME NEW k \in 0 .. p.nGpr + p.nFpr - 1
      PROVE  /\ code[i + (RaSize(p) + FpSize(p) + k) + 1].reg = code[end - k].reg
             /\ code[i + (RaSize(p) + FpSize(p) + k) + 1].imm = code[end - k].imm
  <2>1. ~NoRegisters(p)
    <3>1. \A j \in 0 .. 0 + 0 - 1 : FALSE
      OBVIOUS
    <3> QED BY <3>1 DEF NoRegisters
  <2>2. FrameSaved(p) /\ end = FrameEnd(p)
    BY <1>1, <2>1 DEF FrameRead
  <2> QED BY <1>1, <2>2, LoadsAreSaves
<1>5. Len(If(p.ra, <<"ra">>) \o If(p.fp, <<"fp">>)) = RaSize(p) + FpSize(p)
  BY DEF If, RaSize, FpSize
<1> QED BY <1>p, <1>e, <1>i, <1>3, <1>4, <1>5 DEF FrameReadsBack

(* What is taken off a decoded function as its prologue and epilogue saves *)
(* and restores just the registers of the recorded frame, each at its      *)
(* place, for every function and every list of registers.                  *)
THEOREM FramesCorrect == Spec => []FrameReadsBack
<1>1. Shape /\ StageInv /\ FrameInv => FrameReadsBack
  BY FrameIsRead
<1> QED BY <1>1, FrameInvariant, PTL

-----------------------------------------------------------------------------
(* What is compiled, instruction by instruction                             *)

(* The frame q is saved before instruction h. *)
Begins(q, h) ==
  /\ q \in Prologues /\ StackLinesUp(q) /\ h \in Nat /\ h >= 1
  /\ q.usage = 0 => NoRegisters(q) /\ ~q.ra /\ ~q.fp /\ h = 1
  /\ q.usage # 0 => FrameSaved(q) /\ h = FrameEnd(q)

(* It is restored from instruction s to e, and only padding follows. *)
Ends(q, s, e) ==
  /\ s \in Nat /\ e \in Nat /\ e <= size - 1 /\ s + 1 <= e
  /\ s = e + 1 - Len(Restores(q))
  /\ Between(s, e + 1) = Restores(q)
  /\ Nops(e + 1)
  /\ code[e + 1].op # "nop"
  /\ q.usage # 0 => code[e + 1].op # "daddu_r0"

(* The first instruction after the saves is no save. *)
NoMoreSaves(q, h) ==
  /\ InRange(h)
  /\ code[h + 1].op \notin {"sq", "swc1"}
  /\ code[h + 1].op = "sd" => code[h + 1].reg \notin {"ra", "fp", "s7"}
  /\ code[h + 1].op = "sw" => code[h + 1].reg # "sp"
  /\ q.usage = 0 => ~Is(h, "daddiu", "sp")

(* Control stays between the saves and the restores. *)
StaysInBody(h, s) ==
  /\ h <= s
  /\ \A i \in Branches : /\ h <= i /\ i + 2 <= s
                         /\ h <= Target(i) /\ Target(i) <= s

Convention(q, h, s, e) ==
  Begins(q, h) /\ Ends(q, s, e) /\ NoMoreSaves(q, h) /\ StaysInBody(h, s)

LEMMA FrameIsSaved ==
  ASSUME NEW q \in Prologues, NEW S, SavesAre(q, S), Holds(code, 1, S)
  PROVE  FrameSaved(q)
<1>x. PICK x : x = RaSize(q)
  OBVIOUS
<1>y. PICK y : y = FpSize(q)
  OBVIOUS
<1>0. /\ x \in Nat /\ y \in Nat /\ q.nGpr \in Nat /\ q.nFpr \in Nat
      /\ GprAt(q) = 2 + x + 2 * y /\ FprAt(q) = 2 + x + 2 * y + q.nGpr
      /\ FrameEnd(q) = 2 + x + 2 * y + q.nGpr + q.nFpr
      /\ q.ra \in BOOLEAN /\ q.fp \in BOOLEAN
      /\ x = (IF q.ra THEN 1 ELSE 0) /\ y = (IF q.fp THEN 1 ELSE 0)
  BY <1>x, <1>y, SizesTyped DEF GprAt, FprAt, FrameEnd, RaSize, FpSize
<1>1. \A k \in 1 .. FrameEnd(q) - 1 : code[1 + k] = S[k]
  BY DEF Holds, SavesAre
<1>2. StackSaved(q)
  <2>1. 1 \in 1 .. FrameEnd(q) - 1 /\ 1 + 1 = 2
    BY <1>0
  <2>2. code[2] = S[1]
    BY <1>1, <2>1
  <2> QED BY <2>2 DEF SavesAre, StackSaved
<1>3. RaSaved(q)
  <2> SUFFICES ASSUME q.ra PROVE code[3] = Instr("sd", "ra", 0)
    BY DEF RaSaved
  <2>1. 2 \in 1 .. FrameEnd(q) - 1 /\ 1 + 2 = 3
    BY <1>0
  <2>2. code[3] = S[2]
    BY <1>1, <2>1
  <2> QED BY <2>2 DEF SavesAre
<1>4. FpSaved(q)
  <2> SUFFICES ASSUME q.fp
      PROVE  code[3 + x] = Instr("sd", "fp", 8) /\ code[4 + x] = Instr("or_t9", "fp", 0)
    BY <1>x DEF FpSaved
  <2>1. /\ 2 + x \in 1 .. FrameEnd(q) - 1 /\ 1 + (2 + x) = 3 + x
        /\ 3 + x \in 1 .. FrameEnd(q) - 1 /\ 1 + (3 + x) = 4 + x
    BY <1>0
  <2>2. code[3 + x] = S[2 + x] /\ code[4 + x] = S[3 + x]
    BY <1>1, <2>1
  <2> QED BY <1>x, <2>2 DEF SavesAre
<1>5. GprsSaved(q)
  <2>1. ASSUME NEW k \in 0 .. q.nGpr - 1
        PROVE  code[GprAt(q) + k + 1] = Instr("sq", GprBackups[q.nGpr - k], q.gprOffset + 16 * k)
    <3>1. GprAt(q) + k \in 1 .. FrameEnd(q) - 1 /\ 1 + (GprAt(q) + k) = GprAt(q) + k + 1
      BY <1>0
    <3>2. code[GprAt(q) + k + 1] = S[GprAt(q) + k]
      BY <1>1, <3>1
    <3> QED BY <3>2 DEF SavesAre
  <2> QED BY <2>1 DEF GprsSaved
<1>6. FprsSaved(q)
  <2>1. ASSUME NEW k \in 0 .. q.nFpr - 1
        PROVE  code[FprAt(q) + k + 1] = Instr("swc1", FprBackups[q.nFpr - k], q.fprOffset + 4 * k)
    <3>1. FprAt(q) + k \in 1 .. FrameEnd(q) - 1 /\ 1 + (FprAt(q) + k) = FprAt(q) + k + 1
      BY <1>0
    <3>2. code[FprAt(q) + k + 1] = S[FprAt(q) + k]
      BY <1>1, <3>1
    <3> QED BY <3>2 DEF SavesAre
  <2> QED BY <2>1 DEF FprsSaved
<1> QED BY <1>2, <1>3, <1>4, <1>5, <1>6 DEF FrameSaved

(* The facts about a row that the convention needs, with their types. *)
RowFacts(x, q, h, b, n, S, B, R) ==
  /\ IsFrame(x.frame) /\ IsCode(x.body) /\ x.padding \in Nat
  /\ q = FrameOf(x.frame) /\ q \in Prologues
  /\ S = Saves(x.frame) /\ S \in Seq(Written) /\ h = 1 + Len(S)
  /\ B = Placed(x.body, h) /\ b = Len(x.body) /\ b \in Nat /\ Len(B) = b
  /\ R = Restores(q) /\ R \in Seq(Written) /\ n = Len(R) /\ n \in Nat /\ n >= 2
  /\ h \in Nat /\ h >= 1
  /\ code \in Compiled /\ size = h + b + n + x.padding
  /\ code[1] = Tag
  /\ Holds(code, 1, S) /\ Holds(code, h, B) /\ Holds(code, h + b, R)
  /\ \A k \in 1 .. x.padding : code[h + b + n + k] = Nop

LEMMA RowIsThere ==
  ASSUME NEW x \in Programs, code = Compile(x)
  PROVE  \E q, h, b, n : \E S, B, R : RowFacts(x, q, h, b, n, S, B, R)
<1>1. PICK h \in Nat : \E B, R : RowOf(x, h, B, R, code)
  BY RowCompiled
<1>2. PICK B, R : RowOf(x, h, B, R, code)
  BY <1>1
<1>3. IsFrame(x.frame) /\ IsCode(x.body) /\ x.padding \in Nat
  BY ProgramsAssumption DEF IsProgram
<1>q. PICK q : q = FrameOf(x.frame)
  OBVIOUS
<1>s. PICK S : S = Saves(x.frame)
  OBVIOUS
<1>b. PICK b : b = Len(x.body)
  OBVIOUS
<1>n. PICK n : n = Len(R)
  OBVIOUS
<1>4. q \in Prologues
  BY <1>3, <1>q, FrameLinesUp
<1>5. S \in Seq(Written) /\ Len(S) \in Nat
  BY <1>3, <1>s, FrameSaves
<1>6. B = Placed(x.body, h) /\ Len(B) = b /\ R = Restores(q) /\ h = 1 + Len(S)
  BY <1>2, <1>q, <1>s, <1>b DEF RowOf
<1>7. b \in Nat
  BY <1>3, <1>6, <1>b, BodyIsCode
<1>8. R \in Seq(Written) /\ n = RaSize(q) + FpSize(q) + q.nFpr + q.nGpr + 2
  BY <1>4, <1>6, <1>n, RestoresShape DEF RestoresAre
<1>9. n \in Nat /\ n >= 2
  BY <1>4, <1>8, SizesTyped
<1>10. /\ size = h + b + n + x.padding /\ code[1] = Tag
       /\ Holds(code, 1, S) /\ Holds(code, h, B) /\ Holds(code, h + b, R)
       /\ \A k \in 1 .. x.padding : code[h + b + n + k] = Nop
  BY <1>2, <1>6, <1>s, <1>n DEF RowOf, size
<1>11. h >= 1
  BY <1>5, <1>6
<1>12. code \in Compiled
  BY DEF Compiled
<1>13. RowFacts(x, q, h, b, n, S, B, R)
  BY <1>q, <1>s, <1>b, <1>n, <1>3, <1>4, <1>5, <1>6, <1>7, <1>8, <1>9, <1>10, <1>11, <1>12
     DEF RowFacts
<1> QED BY <1>13

LEMMA RowBegins ==
  ASSUME NEW x, NEW q, NEW h, NEW b, NEW n, NEW S, NEW B, NEW R,
         RowFacts(x, q, h, b, n, S, B, R)
  PROVE  Begins(q, h)
<1>1. /\ IsFrame(x.frame) /\ q = FrameOf(x.frame) /\ q \in Prologues
      /\ S = Saves(x.frame) /\ h = 1 + Len(S) /\ h \in Nat /\ h >= 1 /\ Holds(code, 1, S)
  BY DEF RowFacts
<1>2. StackLinesUp(q) /\ (q.usage = 0 => NoRegisters(q) /\ ~q.ra /\ ~q.fp)
  BY <1>1, FrameLinesUp
<1>3. CASE q.usage = 0
  <2>1. S = << >>
    BY <1>1, <1>3, FrameSaves
  <2>2. h = 1
    BY <1>1, <2>1
  <2> QED BY <1>1, <1>2, <1>3, <2>2 DEF Begins
<1>4. CASE q.usage # 0
  <2>1. SavesAre(q, S)
    BY <1>1, <1>4, FrameSaves
  <2>2. FrameSaved(q)
    BY <1>1, <2>1, FrameIsSaved
  <2>3. h = FrameEnd(q)
    <3>1. FrameEnd(q) \in Int
      BY <1>1, SizesTyped DEF FrameEnd, FprAt, GprAt
    <3> QED BY <1>1, <2>1, <3>1 DEF SavesAre
  <2> QED BY <1>1, <1>2, <1>4, <2>2, <2>3 DEF Begins
<1> QED BY <1>3, <1>4

LEMMA RowEnds ==
  ASSUME NEW x, NEW q, NEW h, NEW b, NEW n, NEW S, NEW B, NEW R,
         RowFacts(x, q, h, b, n, S, B, R), NEW s, s = h + b, NEW e, e = h + b + n - 1
  PROVE  Ends(q, s, e)
<1>1. /\ q \in Prologues /\ R = Restores(q) /\ R \in Seq(Written) /\ n = Len(R)
      /\ n \in Nat /\ n >= 2 /\ b \in Nat /\ h \in Nat /\ h >= 1 /\ x.padding \in Nat
      /\ code \in Compiled /\ size = h + b + n + x.padding /\ Holds(code, h + b, R)
      /\ \A k \in 1 .. x.padding : code[h + b + n + k] = Nop
  BY DEF RowFacts
<1>a. /\ n \in Nat /\ n >= 2 /\ b \in Nat /\ h \in Nat /\ h >= 1 /\ x.padding \in Nat
      /\ size = h + b + n + x.padding /\ s = h + b /\ e = h + b + n - 1
  BY <1>1
<1>2. /\ s \in Nat /\ e \in Nat /\ e <= size - 1 /\ s + 1 <= e /\ s = e + 1 - n
      /\ e + 1 \in Nat /\ s <= e + 1 /\ e + 1 <= size /\ (e + 1) - s = n /\ e + 1 = s + n
  BY <1>a
<1>3. Between(s, e + 1) = R
  <2>1. /\ Len(Between(s, e + 1)) = n
        /\ \A k \in 1 .. n : Between(s, e + 1)[k] = code[s + k]
    <3>1. PICK j \in Nat : j = e + 1
      BY <1>2
    <3>2. s <= j /\ j <= size /\ j - s = n /\ s \in Nat
      BY <1>2, <3>1
    <3>3. /\ Len(Between(s, j)) = j - s
          /\ \A k \in 1 .. j - s : Between(s, j)[k] = code[s + k]
      BY <1>1, <3>2, BetweenReads
    <3> QED BY <3>1, <3>2, <3>3
  <2>2. \A k \in 1 .. n : code[s + k] = R[k]
    BY <1>1 DEF Holds
  <2>3. Between(s, e + 1) \in Seq(Range(code))
    <3>1. code \in Seq(Range(code))
      BY <1>1, CodeIsFunction DEF IsFunction, IsCode
    <3>2. PICK T : T = Range(code)
      OBVIOUS
    <3>3. code \in Seq(T) /\ Len(code) = size
      BY <3>1, <3>2 DEF size
    <3>4. PICK i : i = s + 1
      OBVIOUS
    <3>5. i \in Nat /\ 1 <= i /\ e + 1 \in Nat /\ e + 1 <= Len(code)
      <4>1. s \in Nat /\ e + 1 \in Nat /\ e + 1 <= size
        BY <1>2
      <4>2. Len(code) = size
        BY <3>3
      <4> QED BY <3>4, <4>1, <4>2
    <3>6. SubSeq(code, i, e + 1) \in Seq(T)
      BY <3>3, <3>5
    <3> QED BY <3>2, <3>4, <3>6 DEF Between
  <2>4. \A k \in 1 .. n : Between(s, e + 1)[k] = R[k]
    BY <2>1, <2>2
  <2> QED BY <1>1, <2>1, <2>3, <2>4, SameSequence
<1>4. Nops(e + 1)
  <2>1. ASSUME NEW k \in e + 1 .. size - 1 PROVE Is(k, "nop", "")
    <3>1. PICK j : j = k - e
      OBVIOUS
    <3>2. j \in 1 .. x.padding /\ h + b + n + j = k + 1 /\ k \in 0 .. size - 1
      BY <1>a, <1>2, <3>1
    <3>3. code[k + 1] = Nop
      BY <1>1, <3>2
    <3>4. Nop.op = "nop"
      BY TagAndNop
    <3>5. Nop.reg = ""
      BY ReadingInstr, Zenon DEF Nop
    <3>6. code[k + 1].op = "nop" /\ code[k + 1].reg = ""
      BY <3>3, <3>4, <3>5, Zenon
    <3> QED BY <3>2, <3>6, Zenon DEF Is, InRange
  <2> QED BY <2>1, Zenon DEF Nops
<1>5. code[e + 1] = Frees(q)
  <2>1. RestoresAre(q, R)
    BY <1>1, RestoresShape
  <2>2. R[n] = Frees(q)
    BY <1>1, <2>1 DEF RestoresAre
  <2>3. n \in 1 .. Len(R) /\ s + n = e + 1
    BY <1>1, <1>2
  <2> QED BY <1>1, <2>2, <2>3 DEF Holds
<1>6. Frees(q).op # "nop" /\ (q.usage # 0 => Frees(q).op # "daddu_r0")
  <2>1. Frees(q).op = IF q.usage # 0 THEN "daddiu" ELSE "daddu_r0"
    BY InstrFields DEF Frees
  <2> QED BY <2>1
<1> QED BY <1>1, <1>2, <1>3, <1>4, <1>5, <1>6 DEF Ends

LEMMA RowHasNoMoreSaves ==
  ASSUME NEW x \in Programs, NEW q, NEW h, NEW b, NEW n, NEW S, NEW B, NEW R,
         RowFacts(x, q, h, b, n, S, B, R)
  PROVE  NoMoreSaves(q, h)
<1>1. /\ q \in Prologues /\ R = Restores(q) /\ n = Len(R) /\ q = FrameOf(x.frame)
      /\ n \in Nat /\ n >= 2 /\ b \in Nat /\ h \in Nat /\ h >= 1 /\ x.padding \in Nat
      /\ size = h + b + n + x.padding /\ Holds(code, h, B) /\ Holds(code, h + b, R)
      /\ IsFrame(x.frame) /\ IsCode(x.body) /\ B = Placed(x.body, h) /\ b = Len(x.body)
      /\ Len(B) = b
  BY DEF RowFacts
<1>2. InRange(h)
  BY <1>1 DEF InRange
<1>3. q.usage = StackOf(x.frame)
  BY <1>1, FrameLinesUp
<1>4. CASE b = 0
  <2>1. 1 \in 1 .. n /\ 1 \in 1 .. n - 1 /\ h + b = h
    BY <1>1, <1>4
  <2>2. code[h + 1] = R[1]
    BY <1>1, <2>1 DEF Holds
  <2>3. R[1] \in Loads
    BY <1>1, <2>1, RestoresShape DEF RestoresAre
  <2>4. code[h + 1].op \in {"ld", "lwc1", "lq", "jr"}
    BY <2>2, <2>3 DEF Loads, LoadOps
  <2> QED BY <1>2, <2>4 DEF NoMoreSaves, Is
<1>5. CASE b # 0
  <2>1. 1 \in 1 .. Len(B) /\ 1 \in 1 .. Len(x.body)
    BY <1>1, <1>5
  <2>2. code[h + 1] = B[1]
    BY <1>1, <2>1 DEF Holds
  <2>3. B[1].op = x.body[1].op /\ B[1].reg = x.body[1].reg
    BY <1>1, <2>1, BodyIsCode
  <2>4. x.body # << >>
    BY <1>1, <1>5
  <2>5. ~LooksLikeSave(x.body[1], x.frame)
    BY <2>4, ProgramsAssumption DEF IsProgram
  <2> QED BY <1>2, <1>3, <2>2, <2>3, <2>5 DEF NoMoreSaves, LooksLikeSave, Is
<1> QED BY <1>4, <1>5

LEMMA RowStaysInBody ==
  ASSUME NEW x \in Programs, NEW q, NEW h, NEW b, NEW n, NEW S, NEW B, NEW R,
         RowFacts(x, q, h, b, n, S, B, R), NEW s, s = h + b
  PROVE  StaysInBody(h, s)
<1>1. /\ R \in Seq(Written) /\ n = Len(R) /\ S \in Seq(Written) /\ h = 1 + Len(S)
      /\ n \in Nat /\ b \in Nat /\ h \in Nat /\ h >= 1 /\ x.padding \in Nat
      /\ size = h + b + n + x.padding /\ code[1] = Tag
      /\ Holds(code, 1, S) /\ Holds(code, h, B) /\ Holds(code, h + b, R)
      /\ IsCode(x.body) /\ B = Placed(x.body, h) /\ b = Len(x.body) /\ Len(B) = b
      /\ \A k \in 1 .. x.padding : code[h + b + n + k] = Nop
  BY DEF RowFacts
<1>a. /\ n \in Nat /\ b \in Nat /\ h \in Nat /\ h >= 1 /\ x.padding \in Nat
      /\ size = h + b + n + x.padding /\ s = h + b /\ h = 1 + Len(S)
      /\ n = Len(R) /\ Len(B) = b
  BY <1>1
<1>2. \A w \in Written : w.op # "branch"
  BY DEF Written, Writes
<1>3. ASSUME NEW i \in Branches
      PROVE  h <= i /\ i + 2 <= s /\ h <= Target(i) /\ Target(i) <= s
  <2>1. i \in 0 .. size - 1 /\ code[i + 1].op = "branch"
    BY DEF Branches
  <2>2. i # 0
    <3>1. 0 + 1 = 1
      OBVIOUS
    <3> QED BY <1>1, <2>1, <3>1, TagAndNop
  <2>3. ~(i + 1 \in 2 .. h)
    <3> SUFFICES ASSUME i + 1 \in 2 .. h PROVE FALSE
      OBVIOUS
    <3>1. i \in 1 .. Len(S) /\ 1 + i = i + 1
      BY <1>a, <2>1
    <3>2. code[i + 1] = S[i] /\ S[i] \in Written
      BY <1>1, <3>1 DEF Holds
    <3> QED BY <1>2, <2>1, <3>2
  <2>4. ~(i + 1 \in s + 1 .. s + n)
    <3> SUFFICES ASSUME i + 1 \in s + 1 .. s + n PROVE FALSE
      OBVIOUS
    <3>1. PICK k : k = i + 1 - s
      OBVIOUS
    <3>2. k \in 1 .. Len(R) /\ h + b + k = i + 1
      BY <1>a, <2>1, <3>1
    <3>3. code[i + 1] = R[k] /\ R[k] \in Written
      <4>1. code[h + b + k] = R[k]
        BY <1>1, <3>2 DEF Holds
      <4>2. R[k] \in Written
        BY <1>1, <3>2
      <4> QED BY <3>2, <4>1, <4>2
    <3> QED BY <1>2, <2>1, <3>3
  <2>5. ~(i + 1 \in s + n + 1 .. size)
    <3> SUFFICES ASSUME i + 1 \in s + n + 1 .. size PROVE FALSE
      OBVIOUS
    <3>1. PICK k : k = i + 1 - (s + n)
      OBVIOUS
    <3>2. k \in 1 .. x.padding /\ h + b + n + k = i + 1
      BY <1>a, <2>1, <3>1
    <3>3. code[i + 1] = Nop
      BY <1>1, <3>2
    <3> QED BY <2>1, <3>3, TagAndNop
  <2>6. i + 1 \in h + 1 .. s
    BY <1>a, <2>1, <2>2, <2>3, <2>4, <2>5
  <2>7. PICK k : k = i + 1 - h
    OBVIOUS
  <2>8. k \in 1 .. b /\ h + k = i + 1
    BY <1>a, <2>1, <2>6, <2>7
  <2>9. code[i + 1] = B[k]
    BY <1>1, <2>8 DEF Holds
  <2>10. /\ k \in DOMAIN x.body /\ x.body[k].op = "branch" /\ B[k].imm = x.body[k].imm + h
         /\ x.body[k].imm \in Int
    BY <1>1, <2>1, <2>8, <2>9, BodyIsCode
  <2>11. k < b /\ x.body[k].imm \in 0 .. b
    BY <1>1, <2>10, ProgramsAssumption DEF IsProgram
  <2>12. Target(i) = x.body[k].imm + h
    BY <2>9, <2>10 DEF Target, Imm
  <2>13. i + 1 = h + k /\ i \in Int
    BY <2>1, <2>8
  <2> QED BY <1>a, <2>8, <2>10, <2>11, <2>12, <2>13
<1>4. h <= s
  BY <1>a
<1> QED BY <1>3, <1>4 DEF StaysInBody

(* What is compiled follows the convention. *)
LEMMA CompiledFollows ==
  ASSUME code \in Compiled
  PROVE  \E q, h, s, e : Convention(q, h, s, e)
<1>1. PICK x \in Programs : code = Compile(x)
  BY DEF Compiled
<1>2. PICK q, h, b, n : \E S, B, R : RowFacts(x, q, h, b, n, S, B, R)
  BY <1>1, RowIsThere
<1>3. PICK S, B, R : RowFacts(x, q, h, b, n, S, B, R)
  BY <1>2
<1>4. PICK s : s = h + b
  OBVIOUS
<1>5. PICK e : e = h + b + n - 1
  OBVIOUS
<1>6. Convention(q, h, s, e)
  BY <1>3, <1>4, <1>5, RowBegins, RowEnds, RowHasNoMoreSaves, RowStaysInBody DEF Convention
<1> QED BY <1>6

-----------------------------------------------------------------------------
(* The analysis of what is compiled                                         *)

(* What is known of the frame q. *)
KnowsStack(p, q) == q.usage # 0 /\ p.usage = q.usage
KnowsRa(p, q) == KnowsStack(p, q) /\ p.ra = q.ra
KnowsFp(p, q) == KnowsRa(p, q) /\ p.fp = q.fp
KnowsGprs(p, q) == KnowsFp(p, q) /\ p.nGpr = q.nGpr /\ (q.nGpr > 0 => p.gprOffset = q.gprOffset)

Agrees(p, q) ==
  /\ p.usage = q.usage /\ p.ra = q.ra /\ p.fp = q.fp
  /\ p.nGpr = q.nGpr /\ (q.nGpr > 0 => p.gprOffset = q.gprOffset)
  /\ p.nFpr = q.nFpr /\ (q.nFpr > 0 => p.fprOffset = q.fprOffset)

(* Nothing has failed, and what was recorded is the frame. *)
GoesWell(q, h, e) ==
  /\ pc # "aborted" /\ ~asm
  /\ pc = "done" => prologue.epilogueOk
  /\ pc = "ra" => KnowsStack(prologue, q)
  /\ pc = "fp" => KnowsRa(prologue, q)
  /\ pc = "gprs" => KnowsFp(prologue, q)
  /\ pc = "fprs" => KnowsGprs(prologue, q)
  /\ pc = "layout" => q.usage # 0 /\ Agrees(prologue, q)
  /\ pc \in {"trim", "padding", "epilogue"} => Agrees(prologue, q) /\ prologueEnd = h
  /\ pc = "padding" => idx >= e
  /\ pc = "epilogue" => idx = e

LEMMA AgreesSame ==
  ASSUME NEW p \in Prologues, NEW q \in Prologues, Agrees(p, q)
  PROVE  /\ FrameEnd(p) = FrameEnd(q)
         /\ StackLinesUp(p) <=> StackLinesUp(q)
         /\ Restores(p) = Restores(q)
<1>0. p.nGpr \in Nat /\ p.nFpr \in Nat /\ p.nGpr = q.nGpr /\ p.nFpr = q.nFpr
  BY SizesTyped DEF Agrees
<1>1. RaSize(p) = RaSize(q) /\ FpSize(p) = FpSize(q)
  BY DEF Agrees, RaSize, FpSize
<1>2. FrameEnd(p) = FrameEnd(q)
  BY <1>0, <1>1 DEF GprAt, FprAt, FrameEnd
<1>3. VarOffset(p) = VarOffset(q) /\ VarBytes(p) = VarBytes(q)
  BY DEF Agrees, VarOffset, VarBytes
<1>4. StackLinesUp(p) <=> StackLinesUp(q)
  BY <1>3 DEF Agrees, StackLinesUp
<1>5. [k \in 1 .. p.nFpr |-> Instr("lwc1", FprBackups[k], p.fprOffset + 4 * (p.nFpr - k))]
    = [k \in 1 .. q.nFpr |-> Instr("lwc1", FprBackups[k], q.fprOffset + 4 * (q.nFpr - k))]
  <2>1. CASE q.nFpr > 0
    BY <1>0, <2>1 DEF Agrees
  <2>2. CASE q.nFpr = 0
    <3>1. \A k \in 1 .. 0 : FALSE
      OBVIOUS
    <3> QED BY <1>0, <2>2, <3>1
  <2> QED BY <1>0, <2>1, <2>2
<1>6. [k \in 1 .. p.nGpr |-> Instr("lq", GprBackups[k], p.gprOffset + 16 * (p.nGpr - k))]
    = [k \in 1 .. q.nGpr |-> Instr("lq", GprBackups[k], q.gprOffset + 16 * (q.nGpr - k))]
  <2>1. CASE q.nGpr > 0
    BY <1>0, <2>1 DEF Agrees
  <2>2. CASE q.nGpr = 0
    <3>1. \A k \in 1 .. 0 : FALSE
      OBVIOUS
    <3> QED BY <1>0, <2>2, <3>1
  <2> QED BY <1>0, <2>1, <2>2
<1>7. Restores(p) = Restores(q)
  BY <1>5, <1>6 DEF Agrees, Restores
<1> QED BY <1>2, <1>4, <1>7

LEMMA NextAt ==
  ASSUME [Next]_vars
  PROVE  \/ UNCHANGED vars
         \/ pc = "blocks" /\ FindBlocks
         \/ pc = "stack" /\ (ReadsPast \/ ReadStackUse)
         \/ pc = "ra" /\ (ReadsPast \/ StoresSp \/ BackupRa \/ NoRaBackup)
         \/ pc = "fp" /\ (ReadsPast \/ StoresS7 \/ BackupFp \/ NoFpBackup)
         \/ pc = "gprs" /\ (ReadsPast \/ \E n \in 0 .. size : BackupGprs(n))
         \/ pc = "fprs" /\ (ReadsPast \/ \E n \in 0 .. size : BackupFprs(n))
         \/ pc = "layout" /\ CheckLayout
         \/ pc = "trim" /\ TrimFirstBlock
         \/ pc = "padding" /\ (SkipNop \/ SkipDoubleReturn)
         \/ pc = "epilogue" /\ CheckEpilogue
<1>1. CASE UNCHANGED vars
  BY <1>1
<1>2. CASE Finished
  BY <1>2 DEF Finished
<1>3. CASE ReadsPast
  BY <1>3 DEF ReadsPast
<1>4. CASE FindBlocks \/ ReadStackUse \/ CheckLayout \/ TrimFirstBlock
  BY <1>4 DEF FindBlocks, ReadStackUse, CheckLayout, TrimFirstBlock
<1>5. CASE StoresSp \/ BackupRa \/ NoRaBackup \/ StoresS7 \/ BackupFp \/ NoFpBackup
  BY <1>5 DEF StoresSp, BackupRa, NoRaBackup, StoresS7, BackupFp, NoFpBackup
<1>6. CASE SkipNop \/ SkipDoubleReturn \/ CheckEpilogue
  BY <1>6 DEF SkipNop, SkipDoubleReturn, CheckEpilogue
<1>7. ASSUME NEW n \in 0 .. size, BackupGprs(n)
      PROVE  pc = "gprs" /\ \E m \in 0 .. size : BackupGprs(m)
  BY <1>7 DEF BackupGprs
<1>8. ASSUME NEW n \in 0 .. size, BackupFprs(n)
      PROVE  pc = "fprs" /\ \E m \in 0 .. size : BackupFprs(m)
  BY <1>8 DEF BackupFprs
<1> QED BY <1>1, <1>2, <1>3, <1>4, <1>5, <1>6, <1>7, <1>8 DEF Next

(* What a function looks like from the slot of ra on. *)
NoSlot(i) == ~Is(i, "sd", "ra") /\ ~Is(i, "sd", "fp") /\ ~Is(i, "sd", "s7") /\ ~Is(i, "sw", "sp")

LEMMA SavesInOrder ==
  ASSUME Shape, NEW q, NEW h, Begins(q, h), NoMoreSaves(q, h), q.usage # 0
  PROVE  /\ GprAt(q) \in Nat /\ FprAt(q) \in Nat /\ h \in Nat
         /\ GprAt(q) + q.nGpr = FprAt(q) /\ FprAt(q) + q.nFpr = h
         /\ GprAt(q) = 2 + RaSize(q) + 2 * FpSize(q)
         /\ \A i \in 1 .. h : InRange(i)
         /\ code[FprAt(q) + 1].op # "sq"
         /\ code[h + 1].op # "swc1"
         /\ NoSlot(GprAt(q))
<1>1. /\ q \in Prologues /\ h \in Nat /\ h = FrameEnd(q) /\ FrameSaved(q)
  BY DEF Begins
<1>2. /\ RaSize(q) \in Nat /\ FpSize(q) \in Nat /\ q.nGpr \in Nat /\ q.nFpr \in Nat
  BY <1>1, SizesTyped
<1>3. /\ GprAt(q) \in Nat /\ FprAt(q) \in Nat
      /\ GprAt(q) + q.nGpr = FprAt(q) /\ FprAt(q) + q.nFpr = h
      /\ GprAt(q) = 2 + RaSize(q) + 2 * FpSize(q)
  BY <1>1, <1>2 DEF GprAt, FprAt, FrameEnd
<1>4. \A i \in 1 .. h : InRange(i)
  <2>1. size \in Nat
    BY CodeFacts DEF Shape
  <2>2. h \in 0 .. size - 1
    BY DEF NoMoreSaves, InRange
  <2> QED BY <1>1, <2>1, <2>2 DEF InRange
<1>5. code[h + 1].op \notin {"sq", "swc1"} /\ NoSlot(h)
  BY DEF NoMoreSaves, NoSlot, Is
<1>6. q.nFpr > 0 => code[FprAt(q) + 1].op = "swc1"
  <2> SUFFICES ASSUME q.nFpr > 0 PROVE code[FprAt(q) + 1].op = "swc1"
    OBVIOUS
  <2>1. 0 \in 0 .. q.nFpr - 1 /\ FprAt(q) + 0 + 1 = FprAt(q) + 1
    BY <1>2, <1>3
  <2>2. code[FprAt(q) + 0 + 1] = Instr("swc1", FprBackups[q.nFpr - 0], q.fprOffset + 4 * 0)
    BY <1>1, <2>1 DEF FrameSaved, FprsSaved
  <2> QED BY <2>1, <2>2, InstrFields
<1>7. q.nGpr > 0 => code[GprAt(q) + 1].op = "sq"
  <2> SUFFICES ASSUME q.nGpr > 0 PROVE code[GprAt(q) + 1].op = "sq"
    OBVIOUS
  <2>1. 0 \in 0 .. q.nGpr - 1 /\ GprAt(q) + 0 + 1 = GprAt(q) + 1
    BY <1>2, <1>3
  <2>2. code[GprAt(q) + 0 + 1] = Instr("sq", GprBackups[q.nGpr - 0], q.gprOffset + 16 * 0)
    BY <1>1, <2>1 DEF FrameSaved, GprsSaved
  <2> QED BY <2>1, <2>2, InstrFields
<1>8. code[FprAt(q) + 1].op # "sq" /\ NoSlot(FprAt(q))
  <2>1. CASE q.nFpr > 0
    BY <1>6, <2>1 DEF NoSlot, Is
  <2>2. CASE q.nFpr = 0
    <3>1. FprAt(q) = h
      BY <1>3, <2>2
    <3> QED BY <1>5, <3>1
  <2> QED BY <1>2, <2>1, <2>2
<1>9. NoSlot(GprAt(q))
  <2>1. CASE q.nGpr > 0
    BY <1>7, <2>1 DEF NoSlot, Is
  <2>2. CASE q.nGpr = 0
    <3>1. GprAt(q) = FprAt(q)
      BY <1>3, <2>2
    <3> QED BY <1>8, <3>1
  <2> QED BY <1>2, <2>1, <2>2
<1> QED BY <1>1, <1>3, <1>4, <1>5, <1>8, <1>9

(* The blocks are found. *)
LEMMA BlocksGoWell ==
  ASSUME Shape, NEW q, NEW h, NEW s, NEW e, Convention(q, h, s, e), GoesWell(q, h, e),
         FindBlocks
  PROVE  GoesWell(q, h, e)'
<1>1. /\ h \in Nat /\ h >= 1 /\ s \in Nat /\ e \in Nat /\ e <= size - 1 /\ s + 1 <= e
  BY DEF Convention, Begins, Ends
<1>2. ASSUME NEW i \in Branches PROVE BranchInside(i)
  <2>1. i \in Int /\ i + 2 <= s /\ h <= Target(i) /\ Target(i) <= s /\ Target(i) \in Int
    <3>1. i \in 0 .. size - 1 /\ InRange(i)
      BY DEF Branches, InRange
    <3>2. Target(i) \in Int
      BY <3>1, ImmTyped DEF Target
    <3> QED BY <3>1, <3>2 DEF Convention, StaysInBody
  <2>2. size \in Nat
    BY CodeFacts DEF Shape
  <2> QED BY <1>1, <2>1, <2>2 DEF BranchInside
<1>3. pc' = "stack" /\ asm' = asm
  BY <1>2 DEF FindBlocks, Goto
<1> QED BY <1>3 DEF GoesWell

(* The use of the stack is found. *)
LEMMA StackGoesWell ==
  ASSUME Shape, FrameInv, NEW q, NEW h, NEW s, NEW e, Convention(q, h, s, e), GoesWell(q, h, e),
         pc = "stack", ReadsPast \/ ReadStackUse
  PROVE  GoesWell(q, h, e)'
<1>1. /\ idx = 1 /\ ~prologue.ra /\ ~prologue.fp /\ prologue.nGpr = 0 /\ prologue.nFpr = 0
  BY DEF FrameInv, StagesRead, BeforeStack, NoRegisters
<1>2. Begins(q, h) /\ NoMoreSaves(q, h) /\ q \in Prologues /\ h \in Nat /\ h >= 1
  BY DEF Convention, Begins
<1>3. InRange(1)
  <2>1. size \in Nat /\ h \in 0 .. size - 1
    BY <1>2, CodeFacts DEF Shape, NoMoreSaves, InRange
  <2> QED BY <1>2, <2>1 DEF InRange
<1>4. ReadStackUse
  BY <1>1, <1>3 DEF ReadsPast
<1>5. prologue \in Prologues /\ q.usage \in Int
  BY <1>2, SizesTyped DEF Shape
<1>6. CASE q.usage # 0
  <2>1. code[2] = Instr("daddiu", "sp", -q.usage)
    BY <1>2, <1>6 DEF Begins, FrameSaved, StackSaved
  <2>2. code[1 + 1].op = "daddiu" /\ code[1 + 1].reg = "sp" /\ code[1 + 1].imm = -q.usage
    <3>1. 1 + 1 = 2
      OBVIOUS
    <3> QED BY <2>1, <3>1, InstrFields
  <2>3. Is(idx, "daddiu", "sp") /\ Imm(idx) = -q.usage
    BY <1>1, <1>3, <2>2 DEF Is, Imm
  <2>4. -(-q.usage) = q.usage
    BY <1>5
  <2>5. prologue' = [prologue EXCEPT !.usage = q.usage] /\ pc' = "ra" /\ asm' = asm
    BY <1>4, <1>6, <2>3, <2>4 DEF ReadStackUse, Goto
  <2>6. prologue'.usage = q.usage
    BY <1>5, <2>5 DEF Prologues
  <2>7. KnowsStack(prologue, q)'
    BY <1>6, <2>6 DEF KnowsStack
  <2> QED BY <2>5, <2>7 DEF GoesWell
<1>7. CASE q.usage = 0
  <2>1. h = 1 /\ ~Is(1, "daddiu", "sp") /\ NoRegisters(q) /\ ~q.ra /\ ~q.fp
    BY <1>2, <1>7 DEF Begins, NoMoreSaves
  <2>2. prologue' = [prologue EXCEPT !.usage = 0] /\ pc' = "trim" /\ asm' = asm /\ prologueEnd' = 1
    BY <1>1, <1>4, <2>1 DEF ReadStackUse, Goto
  <2>3. /\ prologue'.usage = 0 /\ prologue'.ra = prologue.ra /\ prologue'.fp = prologue.fp
        /\ prologue'.nGpr = prologue.nGpr /\ prologue'.nFpr = prologue.nFpr
    BY <1>5, <2>2 DEF Prologues
  <2>4. q.ra \in BOOLEAN /\ q.fp \in BOOLEAN /\ prologue.ra \in BOOLEAN /\ prologue.fp \in BOOLEAN
    BY <1>2, <1>5, SizesTyped
  <2>5. Agrees(prologue, q)'
    BY <1>1, <1>7, <2>1, <2>3, <2>4 DEF Agrees, NoRegisters
  <2> QED BY <2>1, <2>2, <2>5 DEF GoesWell
<1> QED BY <1>6, <1>7

LEMMA RaGoesWell ==
  ASSUME Shape, FrameInv, NEW q, NEW h, NEW s, NEW e, Convention(q, h, s, e), GoesWell(q, h, e),
         pc = "ra", ReadsPast \/ StoresSp \/ BackupRa \/ NoRaBackup
  PROVE  GoesWell(q, h, e)'
<1>1. idx = 2 /\ ~prologue.ra /\ ~prologue.fp
  BY DEF FrameInv, StagesRead, BeforeRa
<1>2. Begins(q, h) /\ NoMoreSaves(q, h) /\ q \in Prologues /\ KnowsStack(prologue, q) /\ q.usage # 0
  BY DEF Convention, Begins, GoesWell, KnowsStack
<1>3. /\ GprAt(q) = 2 + RaSize(q) + 2 * FpSize(q) /\ NoSlot(GprAt(q))
      /\ h \in Nat /\ GprAt(q) \in Nat /\ FprAt(q) \in Nat /\ \A i \in 1 .. h : InRange(i)
      /\ GprAt(q) + q.nGpr = FprAt(q) /\ FprAt(q) + q.nFpr = h
  BY <1>2, SavesInOrder
<1>4. /\ RaSize(q) \in Nat /\ FpSize(q) \in Nat /\ q.nGpr \in Nat /\ q.nFpr \in Nat
      /\ q.ra \in BOOLEAN /\ q.fp \in BOOLEAN
  BY <1>2, SizesTyped
<1>5. InRange(2)
  <2>1. 2 \in 1 .. h
    BY <1>3, <1>4
  <2> QED BY <1>3, <2>1
<1>6. prologue \in Prologues /\ prologue.ra \in BOOLEAN
  BY SizesTyped DEF Shape
<1>7. CASE q.ra
  <2>1. code[3] = Instr("sd", "ra", 0)
    BY <1>2, <1>7 DEF Begins, FrameSaved, RaSaved
  <2>2. code[2 + 1].op = "sd" /\ code[2 + 1].reg = "ra" /\ code[2 + 1].imm = 0
    <3>1. 2 + 1 = 3
      OBVIOUS
    <3> QED BY <2>1, <3>1, InstrFields
  <2>3. Is(idx, "sd", "ra") /\ Imm(idx) = 0 /\ ~Is(idx, "sw", "sp") /\ InRange(idx)
    BY <1>1, <1>5, <2>2 DEF Is, Imm
  <2>4. BackupRa
    BY <2>3 DEF ReadsPast, StoresSp, NoRaBackup
  <2>5. prologue' = [prologue EXCEPT !.ra = TRUE] /\ pc' = "fp" /\ asm' = asm
    BY <2>3, <2>4 DEF BackupRa, Learn, Goto
  <2>6. prologue'.ra = TRUE /\ prologue'.usage = prologue.usage
    BY <1>6, <2>5 DEF Prologues
  <2>7. KnowsRa(prologue, q)'
    BY <1>2, <1>4, <1>7, <2>6 DEF KnowsRa, KnowsStack
  <2> QED BY <2>5, <2>7 DEF GoesWell
<1>8. CASE ~q.ra
  <2>1. ~Is(2, "sd", "ra") /\ ~Is(2, "sw", "sp")
    <3>1. CASE q.fp
      <4>1. 3 + RaSize(q) = 3 /\ 2 + 1 = 3
        BY <1>8 DEF RaSize
      <4>2. code[3] = Instr("sd", "fp", 8)
        BY <1>2, <3>1, <4>1 DEF Begins, FrameSaved, FpSaved
      <4>3. code[2 + 1].op = "sd" /\ code[2 + 1].reg = "fp"
        BY <4>1, <4>2, InstrFields
      <4> QED BY <4>3 DEF Is
    <3>2. CASE ~q.fp
      <4>1. GprAt(q) = 2
        BY <1>3, <1>8, <3>2 DEF RaSize, FpSize
      <4> QED BY <1>3, <4>1 DEF NoSlot
    <3> QED BY <3>1, <3>2
  <2>2. NoRaBackup
    BY <1>1, <1>5, <2>1 DEF ReadsPast, StoresSp, BackupRa
  <2>3. pc' = "fp" /\ prologue' = prologue /\ asm' = asm
    BY <2>2 DEF NoRaBackup, Goto, found
  <2>4. KnowsRa(prologue, q)'
    BY <1>1, <1>2, <1>4, <1>6, <1>8, <2>3 DEF KnowsRa, KnowsStack
  <2> QED BY <2>3, <2>4 DEF GoesWell
<1> QED BY <1>7, <1>8

LEMMA FpGoesWell ==
  ASSUME Shape, FrameInv, NEW q, NEW h, NEW s, NEW e, Convention(q, h, s, e), GoesWell(q, h, e),
         pc = "fp", ReadsPast \/ StoresS7 \/ BackupFp \/ NoFpBackup
  PROVE  GoesWell(q, h, e)'
<1>2. /\ Begins(q, h) /\ NoMoreSaves(q, h) /\ q \in Prologues /\ KnowsRa(prologue, q)
      /\ prologue.ra = q.ra /\ q.usage # 0
  BY DEF Convention, Begins, GoesWell, KnowsRa, KnowsStack
<1>i. PICK i : i = 2 + RaSize(q)
  OBVIOUS
<1>1. idx = i /\ ~prologue.fp
  BY <1>2, <1>i DEF FrameInv, StagesRead, BeforeFp, RaSize
<1>3. /\ GprAt(q) = 2 + RaSize(q) + 2 * FpSize(q) /\ NoSlot(GprAt(q))
      /\ h \in Nat /\ GprAt(q) \in Nat /\ FprAt(q) \in Nat /\ \A k \in 1 .. h : InRange(k)
      /\ GprAt(q) + q.nGpr = FprAt(q) /\ FprAt(q) + q.nFpr = h
  BY <1>2, SavesInOrder
<1>4. /\ RaSize(q) \in Nat /\ FpSize(q) \in Nat /\ q.nGpr \in Nat /\ q.nFpr \in Nat
      /\ q.ra \in BOOLEAN /\ q.fp \in BOOLEAN
  BY <1>2, SizesTyped
<1>5. InRange(i)
  <2>1. i \in 1 .. h
    BY <1>i, <1>3, <1>4
  <2> QED BY <1>3, <2>1
<1>6. prologue \in Prologues /\ prologue.fp \in BOOLEAN
  BY SizesTyped DEF Shape
<1>7. CASE q.fp
  <2>1. 3 + RaSize(q) = i + 1 /\ 4 + RaSize(q) = i + 1 + 1 /\ i + 1 \in 1 .. h
    BY <1>i, <1>3, <1>4, <1>7 DEF FpSize
  <2>2. code[i + 1] = Instr("sd", "fp", 8) /\ code[i + 1 + 1] = Instr("or_t9", "fp", 0)
    BY <1>2, <1>7, <2>1 DEF Begins, FrameSaved, FpSaved
  <2>3. /\ code[i + 1].op = "sd" /\ code[i + 1].reg = "fp" /\ code[i + 1].imm = 8
        /\ code[i + 1 + 1].op = "or_t9" /\ code[i + 1 + 1].reg = "fp"
    BY <2>2, InstrFields
  <2>4. /\ Is(idx, "sd", "fp") /\ Imm(idx) = 8 /\ ~Is(idx, "sd", "s7") /\ InRange(idx)
        /\ Is(idx + 1, "or_t9", "fp")
    BY <1>1, <1>3, <1>5, <2>1, <2>3 DEF Is, Imm
  <2>5. BackupFp
    BY <2>4 DEF ReadsPast, StoresS7, NoFpBackup
  <2>6. prologue' = [prologue EXCEPT !.fp = TRUE] /\ pc' = "gprs" /\ asm' = asm
    BY <2>4, <2>5 DEF BackupFp, Learn, Goto
  <2>7. prologue'.fp = TRUE /\ prologue'.usage = prologue.usage /\ prologue'.ra = prologue.ra
    BY <1>6, <2>6 DEF Prologues
  <2>8. KnowsFp(prologue, q)'
    BY <1>2, <1>4, <1>7, <2>7 DEF KnowsFp, KnowsRa, KnowsStack
  <2> QED BY <2>6, <2>8 DEF GoesWell
<1>8. CASE ~q.fp
  <2>1. GprAt(q) = i
    BY <1>i, <1>3, <1>4, <1>8 DEF FpSize
  <2>2. ~Is(i, "sd", "fp") /\ ~Is(i, "sd", "s7")
    BY <1>3, <2>1 DEF NoSlot
  <2>3. NoFpBackup
    BY <1>1, <1>5, <2>2 DEF ReadsPast, StoresS7, BackupFp
  <2>4. pc' = "gprs" /\ prologue' = prologue /\ asm' = asm
    BY <2>3 DEF NoFpBackup, Goto, found
  <2>5. KnowsFp(prologue, q)'
    BY <1>1, <1>2, <1>4, <1>6, <1>8, <2>4 DEF KnowsFp, KnowsRa, KnowsStack
  <2> QED BY <2>4, <2>5 DEF GoesWell
<1> QED BY <1>7, <1>8

(* The run of the saves of a frame ends where they do. *)
LEMMA RunEndsThere ==
  ASSUME NEW n \in Nat, NEW m \in Nat, NEW stores, idx \in Int, IsRun(n, stores),
         \A k \in 0 .. m - 1 : idx + k \in stores, idx + m \notin stores
  PROVE  n = m
<1>1. CASE n < m
  <2>1. n \in 0 .. m - 1
    BY <1>1
  <2> QED BY <2>1 DEF IsRun
<1>2. CASE m < n
  <2>1. idx + m \in idx .. idx + n - 1
    BY <1>2
  <2> QED BY <2>1 DEF IsRun
<1> QED BY <1>1, <1>2

(* Saves in their places pass the check of a run. *)
LEMMA SavesPass ==
  ASSUME NEW n \in Nat, NEW width \in Int, NEW backups, NEW op, NEW offset \in Int,
         idx \in Int, n <= Len(backups), Len(backups) \in Nat,
         \A k \in 0 .. n - 1 :
           code[idx + k + 1] = Instr(op, backups[n - k], offset + width * k)
  PROVE  /\ ~Fails(n, width, backups) /\ ~OutOfOrder(n, width, backups)
         /\ n > 0 => Imm(idx) = offset
<1>1. ASSUME NEW k \in 0 .. n - 1
      PROVE  Imm(idx + k) = offset + width * k /\ ~WrongRegister(k, n, backups)
  <2>1. /\ code[idx + k + 1].imm = offset + width * k
        /\ code[idx + k + 1].reg = backups[n - k]
    BY InstrFields
  <2> QED BY <2>1 DEF Imm, WrongRegister
<1>2. n > 0 => Imm(idx) = offset
  <2> SUFFICES ASSUME n > 0 PROVE Imm(idx) = offset
    OBVIOUS
  <2>1. 0 \in 0 .. n - 1 /\ idx + 0 = idx /\ offset + width * 0 = offset
    OBVIOUS
  <2>2. Imm(idx + 0) = offset + width * 0
    BY <1>1, <2>1
  <2> QED BY <2>1, <2>2
<1>3. ASSUME NEW k \in 0 .. n - 1 PROVE ~Misplaced(k, width)
  <2>1. n > 0
    OBVIOUS
  <2>2. Imm(idx) = offset
    BY <1>2, <2>1
  <2>3. Imm(idx + k) = offset + width * k
    BY <1>1
  <2>4. Imm(idx + k) = Imm(idx) + width * k
    BY <2>2, <2>3
  <2> QED BY <2>4 DEF Misplaced
<1>4. ~Fails(n, width, backups)
  BY <1>3 DEF Fails
<1>5. ~OutOfOrder(n, width, backups)
  BY <1>1 DEF OutOfOrder
<1> QED BY <1>2, <1>4, <1>5

LEMMA GprsGoWell ==
  ASSUME Shape, FrameInv, NEW q, NEW h, NEW s, NEW e, Convention(q, h, s, e), GoesWell(q, h, e),
         pc = "gprs", ReadsPast \/ \E n \in 0 .. size : BackupGprs(n)
  PROVE  GoesWell(q, h, e)'
<1>2. /\ Begins(q, h) /\ NoMoreSaves(q, h) /\ q \in Prologues /\ KnowsFp(prologue, q)
      /\ prologue.ra = q.ra /\ prologue.fp = q.fp /\ q.usage # 0
  BY DEF Convention, Begins, GoesWell, KnowsFp, KnowsRa, KnowsStack
<1>1. idx = GprAt(q)
  BY <1>2 DEF FrameInv, StagesRead, BeforeGprs, GprAt, RaSize, FpSize
<1>3. /\ h \in Nat /\ GprAt(q) \in Nat /\ FprAt(q) \in Nat /\ \A k \in 1 .. h : InRange(k)
      /\ GprAt(q) + q.nGpr = FprAt(q) /\ FprAt(q) + q.nFpr = h
      /\ code[FprAt(q) + 1].op # "sq" /\ GprAt(q) = 2 + RaSize(q) + 2 * FpSize(q)
  BY <1>2, SavesInOrder
<1>4. /\ q.nGpr \in Nat /\ q.nFpr \in Nat /\ q.gprOffset \in Int /\ q.nGpr <= Len(GprBackups)
      /\ RaSize(q) \in Nat /\ FpSize(q) \in Nat
  BY <1>2, SizesTyped
<1>5. InRange(idx) /\ InRange(idx + q.nGpr) /\ idx \in Nat
  <2>1. GprAt(q) \in 1 .. h /\ FprAt(q) \in 1 .. h
    BY <1>3, <1>4
  <2> QED BY <1>1, <1>3, <2>1
<1>6. PICK n \in 0 .. size : BackupGprs(n)
  BY <1>5 DEF ReadsPast
<1>7. \A k \in 0 .. q.nGpr - 1 :
        code[idx + k + 1] = Instr("sq", GprBackups[q.nGpr - k], q.gprOffset + 16 * k)
  BY <1>1, <1>2 DEF Begins, FrameSaved, GprsSaved
<1>a. \A k \in 0 .. q.nGpr - 1 : idx + k \in 1 .. h
  <2>1. /\ h \in Nat /\ idx \in Nat /\ q.nGpr \in Nat /\ idx + q.nGpr <= h /\ idx >= 1
    BY <1>1, <1>3, <1>4
  <2> QED BY <2>1
<1>8. n = q.nGpr
  <2>1. ASSUME NEW k \in 0 .. q.nGpr - 1 PROVE idx + k \in GprStores
    <3>1. code[idx + k + 1].op = "sq" /\ code[idx + k + 1].reg = GprBackups[q.nGpr - k]
      BY <1>7, InstrFields
    <3>2. q.nGpr - k \in DOMAIN GprBackups
      BY <1>4, BackupFacts
    <3>3. GprBackups[q.nGpr - k] \notin {"a0", "r0"}
      BY <3>2, BackupsAssumption DEF Range
    <3>4. idx + k \in 1 .. h
      BY <1>a
    <3>5. idx + k \in 0 .. size - 1
      BY <1>3, <3>4 DEF InRange
    <3> QED BY <3>1, <3>3, <3>5 DEF GprStores
  <2>2. idx + q.nGpr \notin GprStores
    BY <1>1, <1>3 DEF GprStores
  <2>3. n \in Nat /\ idx \in Int
    BY <1>5, <1>6, CodeFacts DEF Shape
  <2>4. IsRun(n, GprStores)
    BY <1>6, Zenon DEF BackupGprs
  <2> QED BY <1>4, <2>1, <2>2, <2>3, <2>4, RunEndsThere
<1>9. /\ ~Fails(n, 16, GprBackups) /\ ~OutOfOrder(n, 16, GprBackups)
      /\ n > 0 => Imm(idx) = q.gprOffset
  <2>1. 16 \in Int /\ idx \in Int /\ Len(GprBackups) \in Nat
    BY <1>5, BackupFacts
  <2> QED BY <1>4, <1>7, <1>8, <2>1, SavesPass
<1>10. ~Is(idx + n, "sq", "a0") /\ ~Is(idx + n, "sq", "r0") /\ InRange(idx + n)
  BY <1>1, <1>3, <1>5, <1>8 DEF Is
<1>11. /\ prologue' = [prologue EXCEPT !.nGpr = n, !.gprOffset = IF n = 0 THEN @ ELSE Imm(idx)]
       /\ pc' = "fprs" /\ asm' = asm
  BY <1>6, <1>9, <1>10 DEF BackupGprs, Learn, Goto
<1>12. prologue \in Prologues
  BY DEF Shape
<1>13. /\ prologue'.usage = prologue.usage /\ prologue'.ra = prologue.ra
       /\ prologue'.fp = prologue.fp /\ prologue'.nGpr = n
       /\ n # 0 => prologue'.gprOffset = Imm(idx)
  BY <1>11, <1>12 DEF Prologues
<1>14. q.nGpr > 0 => prologue'.gprOffset = q.gprOffset
  BY <1>8, <1>9, <1>13
<1>15. KnowsGprs(prologue, q)'
  BY <1>2, <1>8, <1>13, <1>14 DEF KnowsGprs, KnowsFp, KnowsRa, KnowsStack
<1> QED BY <1>11, <1>15 DEF GoesWell

LEMMA FprsGoWell ==
  ASSUME Shape, FrameInv, NEW q, NEW h, NEW s, NEW e, Convention(q, h, s, e), GoesWell(q, h, e),
         pc = "fprs", ReadsPast \/ \E n \in 0 .. size : BackupFprs(n)
  PROVE  GoesWell(q, h, e)'
<1>2. /\ Begins(q, h) /\ NoMoreSaves(q, h) /\ q \in Prologues /\ KnowsGprs(prologue, q)
      /\ prologue.ra = q.ra /\ prologue.fp = q.fp /\ prologue.nGpr = q.nGpr /\ q.usage # 0
  BY DEF Convention, Begins, GoesWell, KnowsGprs, KnowsFp, KnowsRa, KnowsStack
<1>1. idx = FprAt(q)
  BY <1>2 DEF FrameInv, StagesRead, BeforeFprs, FprAt, GprAt, RaSize, FpSize
<1>3. /\ h \in Nat /\ FprAt(q) \in Nat /\ GprAt(q) \in Nat /\ \A k \in 1 .. h : InRange(k)
      /\ GprAt(q) + q.nGpr = FprAt(q) /\ FprAt(q) + q.nFpr = h /\ code[h + 1].op # "swc1"
      /\ GprAt(q) = 2 + RaSize(q) + 2 * FpSize(q)
  BY <1>2, SavesInOrder
<1>4. /\ q.nGpr \in Nat /\ q.nFpr \in Nat /\ q.fprOffset \in Int /\ q.nFpr <= Len(FprBackups)
      /\ RaSize(q) \in Nat /\ FpSize(q) \in Nat
  BY <1>2, SizesTyped
<1>5. InRange(idx) /\ InRange(idx + q.nFpr) /\ idx \in Nat
  <2>1. FprAt(q) \in 1 .. h /\ h \in 1 .. h
    BY <1>3, <1>4
  <2> QED BY <1>1, <1>3, <2>1
<1>6. PICK n \in 0 .. size : BackupFprs(n)
  BY <1>5 DEF ReadsPast
<1>7. \A k \in 0 .. q.nFpr - 1 :
        code[idx + k + 1] = Instr("swc1", FprBackups[q.nFpr - k], q.fprOffset + 4 * k)
  BY <1>1, <1>2 DEF Begins, FrameSaved, FprsSaved
<1>a. \A k \in 0 .. q.nFpr - 1 : idx + k \in 1 .. h
  <2>1. /\ h \in Nat /\ idx \in Nat /\ q.nFpr \in Nat /\ idx + q.nFpr <= h /\ idx >= 1
    BY <1>1, <1>3, <1>4
  <2> QED BY <2>1
<1>8. n = q.nFpr
  <2>1. ASSUME NEW k \in 0 .. q.nFpr - 1 PROVE idx + k \in FprStores
    <3>1. code[idx + k + 1].op = "swc1"
      BY <1>7, InstrFields
    <3>2. idx + k \in 1 .. h
      BY <1>a
    <3>3. idx + k \in 0 .. size - 1
      BY <1>3, <3>2 DEF InRange
    <3> QED BY <3>1, <3>3 DEF FprStores
  <2>2. idx + q.nFpr \notin FprStores
    BY <1>1, <1>3 DEF FprStores
  <2>3. n \in Nat /\ idx \in Int
    BY <1>5, <1>6, CodeFacts DEF Shape
  <2>4. IsRun(n, FprStores)
    BY <1>6, Zenon DEF BackupFprs
  <2> QED BY <1>4, <2>1, <2>2, <2>3, <2>4, RunEndsThere
<1>9. /\ ~Fails(n, 4, FprBackups) /\ ~OutOfOrder(n, 4, FprBackups)
      /\ n > 0 => Imm(idx) = q.fprOffset
  <2>1. 4 \in Int /\ idx \in Int /\ Len(FprBackups) \in Nat
    BY <1>5, BackupFacts
  <2> QED BY <1>4, <1>7, <1>8, <2>1, SavesPass
<1>10. /\ prologue' = [prologue EXCEPT !.nFpr = n, !.fprOffset = IF n = 0 THEN @ ELSE Imm(idx)]
       /\ pc' = "layout" /\ asm' = asm
  BY <1>5, <1>6, <1>8, <1>9 DEF BackupFprs, Learn, Goto
<1>11. prologue \in Prologues
  BY DEF Shape
<1>12. /\ prologue'.usage = prologue.usage /\ prologue'.ra = prologue.ra
       /\ prologue'.fp = prologue.fp /\ prologue'.nGpr = prologue.nGpr
       /\ prologue'.gprOffset = prologue.gprOffset /\ prologue'.nFpr = n
       /\ n # 0 => prologue'.fprOffset = Imm(idx)
  BY <1>10, <1>11 DEF Prologues
<1>13. q.nFpr > 0 => prologue'.fprOffset = q.fprOffset
  BY <1>8, <1>9, <1>12
<1>14. Agrees(prologue, q)'
  BY <1>2, <1>8, <1>12, <1>13 DEF Agrees, KnowsGprs, KnowsFp, KnowsRa, KnowsStack
<1> QED BY <1>2, <1>10, <1>14 DEF GoesWell

LEMMA LayoutGoesWell ==
  ASSUME Shape, FrameInv, NEW q, NEW h, NEW s, NEW e, Convention(q, h, s, e), GoesWell(q, h, e),
         pc = "layout", CheckLayout
  PROVE  GoesWell(q, h, e)'
<1>1. /\ q \in Prologues /\ StackLinesUp(q) /\ h = FrameEnd(q) /\ Agrees(prologue, q)
  BY DEF Convention, Begins, GoesWell
<1>2. prologue \in Prologues
  BY DEF Shape
<1>p. PICK p : p = prologue
  OBVIOUS
<1>3. FrameEnd(p) = FrameEnd(q) /\ (StackLinesUp(p) <=> StackLinesUp(q))
  BY <1>1, <1>2, <1>p, AgreesSame
<1>4. idx = FrameEnd(p)
  BY <1>p DEF FrameInv, StagesRead, BeforeLayout
<1>5. /\ prologue' = [p EXCEPT !.varOffset = VarOffset(p), !.nVars = VarBytes(p)]
      /\ prologueEnd' = idx /\ pc' = "trim" /\ asm' = asm
  BY <1>1, <1>3, <1>p DEF CheckLayout, Goto
<1>6. SameFrame(p, prologue')
  BY <1>2, <1>5, <1>p DEF Prologues, SameFrame
<1>7. Agrees(prologue, q)'
  BY <1>1, <1>6, <1>p DEF Agrees, SameFrame
<1>8. prologueEnd' = h
  BY <1>1, <1>3, <1>4, <1>5
<1> QED BY <1>5, <1>7, <1>8 DEF GoesWell

(* The dividers of what is compiled are at its ends or in its body. *)
LEMMA DividersInBody ==
  ASSUME Shape, NEW h, NEW s, StaysInBody(h, s), h \in Int, s \in Int, h >= 1,
         NEW d \in Dividers
  PROVE  d \in {0, size} \/ (h <= d /\ d <= s)
<1>1. CASE d \in {0, size}
  BY <1>1
<1>2. ASSUME NEW i \in Branches, d \in {i + 2, Target(i)}
      PROVE  h <= d /\ d <= s
  <2>1. i \in Int
    BY DEF Branches
  <2>2. h <= i /\ i + 2 <= s /\ h <= Target(i) /\ Target(i) <= s
    BY DEF StaysInBody
  <2>3. CASE d = i + 2
    BY <2>1, <2>2, <2>3
  <2>4. CASE d = Target(i)
    BY <2>2, <2>4
  <2> QED BY <1>2, <2>3, <2>4
<1> QED BY <1>1, <1>2 DEF Dividers

LEMMA TrimGoesWell ==
  ASSUME Shape, StageInv, NEW q, NEW h, NEW s, NEW e, Convention(q, h, s, e), GoesWell(q, h, e),
         pc = "trim", TrimFirstBlock
  PROVE  GoesWell(q, h, e)'
<1>1. /\ h \in Nat /\ h >= 1 /\ s \in Nat /\ e \in Nat /\ e <= size - 1 /\ s + 1 <= e
      /\ StaysInBody(h, s) /\ h <= s
  BY DEF Convention, Begins, Ends, StaysInBody
<1>2. AllInside /\ blocks = Whole /\ code \in Compiled \cup Others
  BY DEF StageInv, AtTrim, PrologueRead, Shape
<1>3. Agrees(prologue, q) /\ prologueEnd = h
  BY DEF GoesWell
<1>w. PICK w : w = Whole
  OBVIOUS
<1>4. Divide(w, Dividers, 0, size)
  BY <1>2, <1>w, WholeDivides
<1>5. 1 \in 1 .. Len(w) /\ w[1].end \in Dividers /\ w[1].start = 0 /\ w[1].start < w[1].end
  BY <1>4 DEF Divide
<1>6. size \in Nat
  BY CodeFacts DEF Shape
<1>7. w[1].end \in {0, size} \/ h <= w[1].end
  BY <1>1, <1>5, DividersInBody
<1>8. ~(w[1].end < h)
  <2>1. w[1].end \in Int
    BY <1>2, <1>5, DividerFacts
  <2> QED BY <1>1, <1>5, <1>6, <1>7, <2>1
<1>9. /\ prologue' = [prologue EXCEPT !.decoded = TRUE] /\ pc' = "padding" /\ idx' = size - 1
      /\ asm' = asm /\ prologueEnd' = prologueEnd
  BY <1>2, <1>3, <1>8, <1>w DEF TrimFirstBlock, Goto
<1>10. SameFrame(prologue, prologue')
  BY <1>9 DEF Shape, Prologues, SameFrame
<1>11. Agrees(prologue, q)'
  BY <1>3, <1>10 DEF Agrees, SameFrame
<1>12. idx' >= e
  BY <1>1, <1>6, <1>9
<1> QED BY <1>3, <1>9, <1>11, <1>12 DEF GoesWell

LEMMA PaddingGoesWell ==
  ASSUME Shape, StageInv, NEW q, NEW h, NEW s, NEW e, Convention(q, h, s, e), GoesWell(q, h, e),
         pc = "padding", SkipNop \/ SkipDoubleReturn
  PROVE  GoesWell(q, h, e)'
<1>1. /\ e \in Nat /\ e <= size - 1 /\ Nops(e + 1) /\ code[e + 1].op # "nop"
      /\ q.usage # 0 => code[e + 1].op # "daddu_r0"
  BY DEF Convention, Ends
<1>2. Agrees(prologue, q) /\ prologueEnd = h /\ idx >= e /\ prologue.usage = q.usage
  BY DEF GoesWell, Agrees
<1>3. idx \in Int /\ idx <= size - 1 /\ size \in Nat
  BY CodeFacts DEF Shape, StageInv, AtPadding
<1>4. CASE SkipNop
  <2>1. code[idx + 1].op = "nop" /\ pc' = "padding" /\ idx' = idx - 1
        /\ prologue' = prologue /\ prologueEnd' = prologueEnd /\ asm' = asm
    BY <1>4 DEF SkipNop, Is, Goto, found
  <2>2. idx # e
    BY <1>1, <2>1
  <2>3. idx' >= e
    BY <1>1, <1>2, <1>3, <2>1, <2>2
  <2>4. Agrees(prologue, q)'
    BY <1>2, <2>1 DEF Agrees
  <2> QED BY <1>2, <2>1, <2>3, <2>4 DEF GoesWell
<1>5. CASE SkipDoubleReturn
  <2>1. idx = e
    <3> SUFFICES ASSUME idx # e PROVE FALSE
      OBVIOUS
    <3>1. idx \in e + 1 .. size - 1
      BY <1>1, <1>2, <1>3
    <3>2. \A k \in e + 1 .. size - 1 : Is(k, "nop", "")
      BY <1>1, Zenon DEF Nops
    <3>3. Is(idx, "nop", "")
      BY <3>1, <3>2, Zenon
    <3>4. ~Is(idx, "nop", "")
      BY <1>5, Zenon DEF SkipDoubleReturn
    <3> QED BY <3>3, <3>4, Zenon
  <2>2. InRange(idx)
    BY <1>1, <1>3, <2>1 DEF InRange
  <2>3. ~(prologue.usage # 0 /\ Is(idx, "daddu_r0", "sp"))
    BY <1>1, <1>2, <2>1 DEF Is
  <2>4. pc' = "epilogue" /\ idx' = idx /\ prologue' = prologue /\ prologueEnd' = prologueEnd
        /\ asm' = asm
    BY <1>5, <2>2, <2>3, Zenon DEF SkipDoubleReturn, Goto
  <2>5. Agrees(prologue, q)'
    BY <1>2, <2>4 DEF Agrees
  <2> QED BY <1>2, <2>1, <2>4, <2>5 DEF GoesWell
<1> QED BY <1>4, <1>5

LEMMA EpilogueGoesWell ==
  ASSUME Shape, StageInv, NEW q, NEW h, NEW s, NEW e, Convention(q, h, s, e), GoesWell(q, h, e),
         pc = "epilogue", CheckEpilogue
  PROVE  GoesWell(q, h, e)'
<1>1. /\ q \in Prologues /\ h \in Nat /\ h >= 1 /\ s \in Nat /\ e \in Nat /\ e <= size - 1
      /\ s + 1 <= e /\ StaysInBody(h, s) /\ h <= s
      /\ s = e + 1 - Len(Restores(q)) /\ Between(s, e + 1) = Restores(q)
  BY DEF Convention, Begins, Ends, StaysInBody
<1>2. Agrees(prologue, q) /\ prologueEnd = h /\ idx = e
  BY DEF GoesWell
<1>3. AllInside /\ blocks = Cut /\ code \in Compiled \cup Others /\ prologue \in Prologues
  BY DEF StageInv, AtEpilogue, PrologueCut, PrologueRead, Shape
<1>4. Restores(prologue) = Restores(q)
  BY <1>1, <1>2, <1>3, AgreesSame
<1>w. PICK w : w = Whole
  OBVIOUS
<1>n. PICK n : n = Len(w)
  OBVIOUS
<1>5. Divide(w, Dividers, 0, size)
  BY <1>3, <1>w, WholeDivides
<1>6. /\ n \in Nat \ {0} /\ n \in 1 .. n /\ w \in [1 .. n -> [start : Dividers, end : Dividers]]
      /\ w[n].start < w[n].end /\ w[n].end = size
  BY <1>5, <1>n DEF Divide
<1>7. size \in Nat
  BY CodeFacts DEF Shape
<1>8. w[n].start \in Dividers /\ w[n].start \in Int /\ w[n].start < size
  BY <1>3, <1>6, DividerFacts
<1>9. w[n].start <= s
  <2>1. w[n].start \in {0, size} \/ w[n].start <= s
    BY <1>1, <1>8, DividersInBody
  <2> QED BY <1>1, <1>7, <1>8, <2>1
<1>10. blocks = [w EXCEPT ![1].start = h]
  BY <1>2, <1>3, <1>w DEF Cut
<1>11. Len(blocks) = n /\ blocks[n].start <= s
  <2>1. blocks = [k \in 1 .. n |-> IF k = 1 THEN [w[1] EXCEPT !.start = h] ELSE w[k]]
    BY <1>6, <1>10
  <2>2. Len(blocks) = n
    BY <1>6, <2>1
  <2>3. CASE n = 1
    <3>1. blocks[n] = [w[1] EXCEPT !.start = h] /\ w[1] \in [start : Dividers, end : Dividers]
      BY <1>6, <2>1, <2>3
    <3>2. blocks[n].start = h
      BY <3>1
    <3> QED BY <1>1, <2>2, <3>2
  <2>4. CASE n # 1
    <3>1. blocks[n] = w[n]
      BY <1>6, <2>1, <2>4
    <3> QED BY <1>9, <2>2, <3>1
  <2> QED BY <2>3, <2>4
<1>12. ~(s < blocks[n].start)
  <2>1. blocks[n].start \in Int
    <3>1. blocks[n] \in {[w[1] EXCEPT !.start = h], w[n]}
      BY <1>6, <1>10
    <3>2. [w[1] EXCEPT !.start = h].start = h
      BY <1>6
    <3>3. CASE blocks[n] = w[n]
      BY <1>8, <3>3
    <3>4. CASE blocks[n] = [w[1] EXCEPT !.start = h]
      <4>1. blocks[n].start = h
        BY <3>2, <3>4
      <4> QED BY <1>1, <4>1
    <3> QED BY <3>1, <3>3, <3>4
  <2> QED BY <1>1, <1>11, <2>1
<1>13. /\ pc' = "done" /\ asm' = asm
       /\ prologue' = [prologue EXCEPT !.epilogueOk = TRUE]
  <2>1. s = idx + 1 - Len(Restores(prologue)) /\ Between(s, idx + 1) = Restores(prologue) /\ ~(s < 0)
    BY <1>1, <1>2, <1>4
  <2> QED BY <1>11, <1>12, <2>1 DEF CheckEpilogue, Goto
<1>14. prologue'.epilogueOk
  BY <1>3, <1>13 DEF Prologues
<1> QED BY <1>13, <1>14 DEF GoesWell

(* The function does not change, so its convention does not. *)
LEMMA ConventionStays ==
  ASSUME code' = code, NEW q, NEW h, NEW s, NEW e, Convention(q, h, s, e)
  PROVE  Convention(q, h, s, e)'
<1>1. /\ size' = size /\ Branches' = Branches /\ \A i : Nops(i)' <=> Nops(i)
  BY CodeStays
<1>2. /\ \A i, op, reg : Is(i, op, reg)' <=> Is(i, op, reg)
      /\ \A i : InRange(i)' <=> InRange(i)
      /\ \A i : Target(i)' = Target(i)
      /\ \A i, j : Between(i, j)' = Between(i, j)
  BY <1>1 DEF Is, InRange, Target, Imm, Between
<1>3. FrameSaved(q)' <=> FrameSaved(q)
  BY DEF FrameSaved, StackSaved, RaSaved, FpSaved, GprsSaved, FprsSaved
<1>4. Begins(q, h)' <=> Begins(q, h)
  BY <1>3 DEF Begins
<1>5. Ends(q, s, e)' <=> Ends(q, s, e)
  BY <1>1, <1>2 DEF Ends
<1>6. NoMoreSaves(q, h)' <=> NoMoreSaves(q, h)
  BY <1>2 DEF NoMoreSaves
<1>7. StaysInBody(h, s)' <=> StaysInBody(h, s)
  BY <1>1, <1>2 DEF StaysInBody
<1> QED BY <1>4, <1>5, <1>6, <1>7 DEF Convention

LEMMA GoesOnWell ==
  ASSUME Shape, StageInv, FrameInv, NEW q, NEW h, NEW s, NEW e,
         Convention(q, h, s, e), GoesWell(q, h, e), [Next]_vars
  PROVE  GoesWell(q, h, e)'
<1>1. CASE UNCHANGED vars
  BY <1>1 DEF vars, found, GoesWell, KnowsStack, KnowsRa, KnowsFp, KnowsGprs, Agrees
<1>2. CASE pc = "blocks" /\ FindBlocks
  BY <1>2, BlocksGoWell
<1>3. CASE pc = "stack" /\ (ReadsPast \/ ReadStackUse)
  BY <1>3, StackGoesWell
<1>4. CASE pc = "ra" /\ (ReadsPast \/ StoresSp \/ BackupRa \/ NoRaBackup)
  BY <1>4, RaGoesWell
<1>5. CASE pc = "fp" /\ (ReadsPast \/ StoresS7 \/ BackupFp \/ NoFpBackup)
  BY <1>5, FpGoesWell
<1>6. CASE pc = "gprs" /\ (ReadsPast \/ \E n \in 0 .. size : BackupGprs(n))
  BY <1>6, GprsGoWell
<1>7. CASE pc = "fprs" /\ (ReadsPast \/ \E n \in 0 .. size : BackupFprs(n))
  BY <1>7, FprsGoWell
<1>8. CASE pc = "layout" /\ CheckLayout
  BY <1>8, LayoutGoesWell
<1>9. CASE pc = "trim" /\ TrimFirstBlock
  BY <1>9, TrimGoesWell
<1>10. CASE pc = "padding" /\ (SkipNop \/ SkipDoubleReturn)
  BY <1>10, PaddingGoesWell
<1>11. CASE pc = "epilogue" /\ CheckEpilogue
  BY <1>11, EpilogueGoesWell
<1> QED BY <1>1, <1>2, <1>3, <1>4, <1>5, <1>6, <1>7, <1>8, <1>9, <1>10, <1>11, NextAt

CompiledGoesWell ==
  compiled => \E q, h, s, e : Convention(q, h, s, e) /\ GoesWell(q, h, e)

(* Whatever the frame, the body and the padding: what a compiler writes is *)
(* decoded to its frame, without a failed assert and without being taken   *)
(* for assembly.                                                           *)
THEOREM CompiledCorrect == Spec => []CompiledIsDecoded
<1>1. Init => CompiledGoesWell
  <2> SUFFICES ASSUME Init, compiled
      PROVE  \E q, h, s, e : Convention(q, h, s, e) /\ GoesWell(q, h, e)
    BY DEF CompiledGoesWell
  <2>1. code \in Compiled /\ pc = "blocks" /\ ~asm
    BY DEF Init
  <2>2. PICK q, h, s, e : Convention(q, h, s, e)
    BY <2>1, CompiledFollows
  <2>3. GoesWell(q, h, e)
    BY <2>1 DEF GoesWell
  <2> QED BY <2>2, <2>3
<1>2. (Shape /\ StageInv /\ FrameInv) /\ CompiledGoesWell /\ [Next]_vars => CompiledGoesWell'
  <2> SUFFICES ASSUME Shape, StageInv, FrameInv, CompiledGoesWell, [Next]_vars, compiled'
      PROVE  (\E q, h, s, e : Convention(q, h, s, e) /\ GoesWell(q, h, e))'
    BY DEF CompiledGoesWell
  <2>1. code' = code /\ compiled' = compiled
    <3>1. Moves \/ UNCHANGED vars
      BY NextCases, RestoresAreTyped
    <3> QED BY <3>1 DEF vars, found, Moves, Finds, FindsBlocks, FindsStack, FindsRa, FindsFp,
                        FindsGprs, FindsFprs, ChecksLayout, Trims, SkipsNop, FindsReturn,
                        Accepts, Stops
  <2>2. PICK q, h, s, e : Convention(q, h, s, e) /\ GoesWell(q, h, e)
    BY <2>1 DEF CompiledGoesWell
  <2>3. Convention(q, h, s, e)' /\ GoesWell(q, h, e)'
    BY <2>1, <2>2, ConventionStays, GoesOnWell
  <2> QED BY <2>3
<1>3. CompiledGoesWell => CompiledIsDecoded
  BY DEF CompiledGoesWell, CompiledIsDecoded, GoesWell
<1> QED BY <1>1, <1>2, <1>3, FrameInvariant, PTL DEF Spec

=============================================================================
