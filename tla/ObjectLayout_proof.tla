-------------------------- MODULE ObjectLayout_proof --------------------------
(***************************************************************************)
(* What the linkers do with any file, proved for every set of files: they  *)
(* link words of the segment only, and those of a short table in order;    *)
(* the segments and tables of a file they accept do not overlap unless     *)
(* sums of its header wrap; and a file written in the format is accepted   *)
(* and read back.                                                          *)
(***************************************************************************)
EXTENDS ObjectLayout, SequenceFacts, TLAPS

-----------------------------------------------------------------------------
(* Runs of words                                                           *)

RunFrom(w, n) == [i \in 1 .. n |-> w + i - 1]

(* Consecutive words appended to a sequence of words. *)
LEMMA RunAppended ==
  ASSUME NEW p \in Seq(Int), NEW w \in Int, NEW n \in Nat
  PROVE  /\ p \o RunFrom(w, n) \in Seq(Int)
         /\ DOMAIN (p \o RunFrom(w, n)) = 1 .. Len(p) + n
         /\ \A i \in 1 .. Len(p) : (p \o RunFrom(w, n))[i] = p[i]
         /\ \A i \in Len(p) + 1 .. Len(p) + n : (p \o RunFrom(w, n))[i] = w + (i - Len(p)) - 1
<1>1. RunFrom(w, n) \in Seq(Int) /\ Len(RunFrom(w, n)) = n
  BY DEF RunFrom
<1>2. \A i \in 1 .. n : RunFrom(w, n)[i] = w + i - 1
  BY DEF RunFrom
<1> HIDE DEF RunFrom
<1>a. PICK r \in Seq(Int) : r = RunFrom(w, n) /\ Len(r) = n
  BY <1>1
<1>3. p \o RunFrom(w, n) \in Seq(Int) /\ Len(p \o RunFrom(w, n)) = Len(p) + n
  BY <1>a
<1>4. \A i \in 1 .. Len(p) + n :
        (p \o RunFrom(w, n))[i] = IF i <= Len(p) THEN p[i] ELSE RunFrom(w, n)[i - Len(p)]
  BY <1>a
<1> QED BY <1>1, <1>2, <1>3, <1>4

(* A sequence that ascends below w still ascends, from 0 on, below w + n.   *)
Ascends(p, w) ==
  /\ \A i \in DOMAIN p : 0 <= p[i] /\ p[i] < w
  /\ \A i, j \in DOMAIN p : i < j => p[i] < p[j]

LEMMA RunAscends ==
  ASSUME NEW p \in Seq(Int), NEW w \in Nat, NEW n \in Nat, Ascends(p, w)
  PROVE  Ascends(p \o RunFrom(w, n), w + n)
<1> DEFINE q == p \o RunFrom(w, n)
<1>0. Len(p) \in Nat /\ DOMAIN p = 1 .. Len(p) /\ \A i \in 1 .. Len(p) : p[i] \in Int
  OBVIOUS
<1>a. /\ DOMAIN q = 1 .. Len(p) + n
      /\ \A i \in 1 .. Len(p) : q[i] = p[i]
      /\ \A i \in Len(p) + 1 .. Len(p) + n : q[i] = w + (i - Len(p)) - 1
  <2>1. w \in Int
    OBVIOUS
  <2> QED BY <2>1, RunAppended, Zenon
<1> HIDE DEF q
<1>1. DOMAIN q = 1 .. Len(p) + n /\ DOMAIN p = 1 .. Len(p) /\ Len(p) \in Nat
  BY <1>0, <1>a
<1>2. \A i \in 1 .. Len(p) : q[i] = p[i] /\ p[i] \in Int
  BY <1>0, <1>a
<1>3. \A i \in Len(p) + 1 .. Len(p) + n : q[i] = w + (i - Len(p)) - 1
  BY <1>a
<1>4. \A i \in DOMAIN q : 0 <= q[i] /\ q[i] < w + n
  BY <1>1, <1>2, <1>3 DEF Ascends
<1>5. \A i, j \in DOMAIN q : i < j => q[i] < q[j]
  <2> SUFFICES ASSUME NEW i \in DOMAIN q, NEW j \in DOMAIN q, i < j
               PROVE  q[i] < q[j]
    OBVIOUS
  <2>1. CASE j <= Len(p)
    BY <1>1, <1>2, <2>1 DEF Ascends
  <2>2. CASE j > Len(p) /\ i <= Len(p)
    <3>1. q[i] < w
      BY <1>1, <1>2, <2>2 DEF Ascends
    <3>2. q[j] >= w /\ q[j] \in Int
      BY <1>1, <1>3, <2>2
    <3> QED BY <1>1, <1>2, <2>2, <3>1, <3>2
  <2>3. CASE i > Len(p)
    BY <1>1, <1>3, <2>3
  <2> QED BY <1>1, <2>1, <2>2, <2>3
<1> QED BY <1>4, <1>5 DEF Ascends, q

-----------------------------------------------------------------------------
(* Numbers and seeks as they are written                                   *)

LEMMA TopIs == Top \in Nat /\ Top >= 3 /\ Base \in Nat /\ Base >= 4 /\ Base % 4 = 0 /\ Base = Top + 1
  BY TableAssumption DEF Top

LEMMA TimesNat ==
  ASSUME NEW a \in Nat, NEW b \in Nat
  PROVE  a * b \in Nat
  OBVIOUS

LEMMA TimesPositive ==
  ASSUME NEW d \in Nat \ {0}, NEW a \in Nat \ {0}
  PROVE  d * a > 0
<1>1. PICK k \in Nat : a = k + 1
  <2>1. a - 1 \in Nat /\ a = (a - 1) + 1
    OBVIOUS
  <2> QED BY <2>1
<1>2. d * a = d * k + d
  BY <1>1
<1> QED BY <1>2, TimesNat

LEMMA Divided ==
  ASSUME NEW n \in Nat, NEW d \in Nat \ {0}
  PROVE  n \div d \in Nat /\ n % d \in 0 .. d - 1 /\ n = d * (n \div d) + (n % d)
<1>1. n \div d \in Nat
  OBVIOUS
<1>2. n % d \in 0 .. d - 1
  OBVIOUS
<1>3. PICK q \in Int, r \in Int : q = n \div d /\ r = n % d
  BY <1>1, <1>2
<1>4. n = d * q + r
  BY <1>3
<1>5. n = d * (n \div d) + (n % d)
  BY <1>3, <1>4, Zenon
<1> QED BY <1>1, <1>2, <1>5

(* A byte has two bits or more, so that four of them count lines of words.  *)
LEMMA WrapIs ==
  Wrap \in Nat /\ Words \in Nat /\ Wrap = 4 * Words /\ Wrap % 16 = 0 /\ Wrap >= 256
<1>1. PICK k \in Nat : Base = 4 * k /\ k >= 1
  <2>1. Base \div 4 \in Nat /\ Base = 4 * (Base \div 4)
    BY TopIs
  <2> QED BY <2>1, TopIs
<1>2. PICK a \in Nat : a = k * k /\ a >= 1
  <2>1. PICK i \in Nat : k = i + 1
    <3>1. k - 1 \in Nat /\ k = (k - 1) + 1
      BY <1>1
    <3> QED BY <3>1
  <2>2. k * k = i * i + 2 * i + 1
    BY <2>1
  <2>3. i * i \in Nat
    BY TimesNat
  <2> QED BY <2>2, <2>3
<1>3. Base * Base = 16 * a
  BY <1>1, <1>2
<1>4. PICK b \in Nat : b = Base * a /\ b >= 4
  <2>1. Base * a = 4 * (k * a) /\ k * a \in Nat
    BY <1>1, TimesNat
  <2>2. k * a > 0
    BY <1>1, <1>2, TimesPositive
  <2> QED BY <2>1, <2>2
<1>5. Base * (Base * Base) = 16 * b
  BY <1>3, <1>4, TopIs
<1>6. PICK m \in Nat : m = Base * b /\ m >= 16
  <2>1. PICK c \in Nat : b = 4 + c
    <3>1. b - 4 \in Nat /\ b = 4 + (b - 4)
      BY <1>4
    <3> QED BY <3>1
  <2>2. Base * b = 4 * Base + Base * c /\ Base * c \in Nat
    BY <2>1, TopIs, TimesNat
  <2> QED BY <2>2, TopIs
<1>7. Wrap = 16 * m
  <2>1. Base * (Base * (Base * Base)) = 16 * m
    BY <1>5, <1>6, TopIs
  <2> QED BY <2>1 DEF Wrap
<1>8. Words = 4 * m
  BY <1>7 DEF Words
<1> QED BY <1>6, <1>7, <1>8

(* A sum that is in range does not wrap, and every other is brought there.  *)
LEMMA OnwardIs ==
  ASSUME NEW n \in Int, word \in Int
  PROVE  /\ Onward(n) \in 0 .. Words - 1
         /\ 0 <= word + n /\ word + n < Words => Onward(n) = word + n
<1>1. Words \in Nat \ {0}
  BY WrapIs
<1>2. PICK m \in Int : m = word + n
  OBVIOUS
<1>3. Onward(n) = m % Words
  BY <1>2 DEF Onward
<1>4. m % Words \in 0 .. Words - 1
  BY <1>1
<1>5. 0 <= m /\ m < Words => m % Words = m
  BY <1>1
<1> QED BY <1>2, <1>3, <1>4, <1>5

(* Division is determined by its rest. *)
LEMMA DividedOnce ==
  ASSUME NEW d \in Nat \ {0}, NEW q \in Nat, NEW r \in 0 .. d - 1
  PROVE  (d * q + r) \div d = q /\ (d * q + r) % d = r
<1>1. PICK n \in Nat : n = d * q + r
  BY TimesNat
<1>2. PICK p \in Nat, s \in 0 .. d - 1 : p = n \div d /\ s = n % d /\ n = d * p + s
  BY Divided
<1>3. ~(p < q)
  <2> SUFFICES ASSUME p < q PROVE FALSE
    OBVIOUS
  <2>1. PICK k \in Nat : q = p + k + 1
    <3>1. q - p - 1 \in Nat /\ q = p + (q - p - 1) + 1
      OBVIOUS
    <3> QED BY <3>1
  <2>2. d * q = d * p + d * k + d
    BY <2>1
  <2>3. d * k \in Nat /\ d * p \in Nat
    BY TimesNat
  <2> QED BY <1>1, <1>2, <2>2, <2>3
<1>4. ~(q < p)
  <2> SUFFICES ASSUME q < p PROVE FALSE
    OBVIOUS
  <2>1. PICK k \in Nat : p = q + k + 1
    <3>1. p - q - 1 \in Nat /\ p = q + (p - q - 1) + 1
      OBVIOUS
    <3> QED BY <3>1
  <2>2. d * p = d * q + d * k + d
    BY <2>1
  <2>3. d * k \in Nat /\ d * q \in Nat
    BY TimesNat
  <2> QED BY <1>1, <1>2, <2>2, <2>3
<1>5. p = q
  BY <1>3, <1>4
<1>6. s = r
  <2>1. d * q \in Nat
    BY TimesNat
  <2> QED BY <1>1, <1>2, <1>5, <2>1
<1> QED BY <1>1, <1>2, <1>5, <1>6

(* A number is so many top bytes and one that is not. *)
LEMMA NumberBytes ==
  ASSUME NEW n \in Nat
  PROVE  /\ n \div Top \in Nat /\ n % Top \in 0 .. Top - 1
         /\ n = Top * (n \div Top) + (n % Top)
         /\ Number(n) \in Seq(Int) /\ Len(Number(n)) = n \div Top + 1
         /\ \A i \in 1 .. n \div Top : Number(n)[i] = Top
         /\ Number(n)[n \div Top + 1] = n % Top
<1>1. Top \in Nat \ {0}
  BY TopIs
<1>2. PICK q \in Nat, r \in 0 .. Top - 1 : q = n \div Top /\ r = n % Top /\ n = Top * q + r
  BY <1>1, Divided
<1>3. PICK s : s = Repeat(Top, q)
  OBVIOUS
<1>4. s \in Seq(Int) /\ Len(s) = q /\ \A i \in 1 .. q : s[i] = Top
  BY <1>1, <1>3 DEF Repeat
<1>5. <<r>> \in Seq(Int) /\ Len(<<r>>) = 1 /\ <<r>>[1] = r
  OBVIOUS
<1>6. PICK t : t = <<r>>
  OBVIOUS
<1>7. t \in Seq(Int) /\ Len(t) = 1 /\ t[1] = r
  BY <1>5, <1>6
<1>8. /\ s \o t \in Seq(Int) /\ Len(s \o t) = q + 1
      /\ \A i \in 1 .. q : (s \o t)[i] = s[i]
      /\ (s \o t)[q + 1] = t[1]
  <2>0. s \in Seq(Int) /\ t \in Seq(Int)
    BY <1>4, <1>7
  <2>1. s \o t \in Seq(Int) /\ Len(s \o t) = Len(s) + Len(t)
    BY <2>0
  <2>2. \A i \in 1 .. Len(s) + Len(t) : (s \o t)[i] = IF i <= Len(s) THEN s[i] ELSE t[i - Len(s)]
    BY <2>0
  <2>3. q + 1 \in 1 .. Len(s) + Len(t) /\ ~(q + 1 <= Len(s)) /\ (q + 1) - Len(s) = 1
    BY <1>4, <1>7
  <2> QED BY <1>4, <1>7, <2>1, <2>2, <2>3
<1>9. PICK u : u = s \o t
  OBVIOUS
<1>10. Number(n) = u
  BY <1>2, <1>3, <1>6, <1>9 DEF Number
<1>11. /\ u \in Seq(Int) /\ Len(u) = q + 1
       /\ \A i \in 1 .. q : u[i] = Top
       /\ u[q + 1] = r
  BY <1>4, <1>7, <1>8, <1>9
<1>12. n = Top * (n \div Top) + (n % Top)
  BY <1>1, Divided
<1>13. /\ n \div Top \in Nat /\ n % Top \in 0 .. Top - 1
  BY <1>1, Divided
<1>14. /\ Number(n) \in Seq(Int) /\ Len(Number(n)) = n \div Top + 1
       /\ \A i \in 1 .. n \div Top : Number(n)[i] = Top
       /\ Number(n)[n \div Top + 1] = n % Top
  <2> HIDE DEF Top
  <2> QED BY <1>2, <1>10, <1>11
<1> QED BY <1>12, <1>13, <1>14

(* What follows the top byte of a number is a smaller number. *)
LEMMA NumberParts ==
  ASSUME NEW n \in Nat
  PROVE  /\ n < Top => Len(Number(n)) = 1 /\ Number(n)[1] = n
         /\ n >= Top =>
              /\ n - Top \in Nat
              /\ Number(n)[1] = Top
              /\ Len(Number(n)) = Len(Number(n - Top)) + 1
              /\ \A i \in 1 .. Len(Number(n - Top)) : Number(n)[i + 1] = Number(n - Top)[i]
<1>1. Top \in Nat \ {0}
  BY TopIs
<1>2. ASSUME n < Top PROVE Len(Number(n)) = 1 /\ Number(n)[1] = n
  <2>1. n = Top * 0 + n /\ n \in 0 .. Top - 1
    BY <1>1, <1>2
  <2>2. n \div Top = 0 /\ n % Top = n
    BY <1>1, <2>1, DividedOnce
  <2>3. Len(Number(n)) = 0 + 1 /\ Number(n)[0 + 1] = n
    BY <2>2, NumberBytes
  <2> QED BY <2>3
<1>3. ASSUME n >= Top
      PROVE  /\ n - Top \in Nat
             /\ Number(n)[1] = Top
             /\ Len(Number(n)) = Len(Number(n - Top)) + 1
             /\ \A i \in 1 .. Len(Number(n - Top)) : Number(n)[i + 1] = Number(n - Top)[i]
  <2>1. PICK m \in Nat : m = n - Top
    BY <1>1, <1>3
  <2>2. PICK q \in Nat, r \in 0 .. Top - 1 : q = m \div Top /\ r = m % Top /\ m = Top * q + r
    BY <1>1, Divided
  <2>3. Top * (q + 1) = Top * q + Top /\ Top * q \in Nat
    BY <1>1, TimesNat
  <2>4. n = Top * (q + 1) + r
    BY <1>1, <2>1, <2>2, <2>3
  <2>5. n \div Top = q + 1 /\ n % Top = r
    BY <1>1, <2>4, DividedOnce
  <2>6. /\ Len(Number(m)) = q + 1 /\ Number(m)[q + 1] = r
        /\ \A i \in 1 .. q : Number(m)[i] = Top
    BY <2>2, NumberBytes
  <2>7. /\ Len(Number(n)) = q + 2 /\ Number(n)[q + 2] = r
        /\ \A i \in 1 .. q + 1 : Number(n)[i] = Top
    <3>1. (q + 1) + 1 = q + 2
      OBVIOUS
    <3> QED BY <2>5, <3>1, NumberBytes
  <2>8. \A i \in 1 .. q + 1 : Number(n)[i + 1] = Number(m)[i]
    <3> TAKE i \in 1 .. q + 1
    <3>1. CASE i = q + 1
      BY <2>6, <2>7, <3>1
    <3>2. CASE i # q + 1
      <4>1. i \in 1 .. q /\ i + 1 \in 1 .. q + 1
        BY <3>2
      <4> QED BY <2>6, <2>7, <4>1
    <3> QED BY <3>1, <3>2
  <2>9. 1 \in 1 .. q + 1
    OBVIOUS
  <2> QED BY <2>1, <2>6, <2>7, <2>8, <2>9
<1> QED BY <1>2, <1>3

LEMMA SmallerFactor ==
  ASSUME NEW d \in Nat, NEW a \in Nat, NEW b \in Nat, d * a < d * b
  PROVE  a < b
<1> SUFFICES ASSUME b <= a PROVE FALSE
  OBVIOUS
<1>1. PICK k \in Nat : a = b + k
  <2>1. a - b \in Nat /\ a = b + (a - b)
    OBVIOUS
  <2> QED BY <2>1
<1>2. d * a = d * b + d * k
  BY <1>1
<1> QED BY <1>2, TimesNat

(* The digits of a number of bytes, a multiple of four, that four hold.     *)
Digits(n, b1, b2, b3, d0, d1, d2, d3) ==
  /\ {b1, b2, b3, d0, d1, d2, d3} \subseteq Nat
  /\ 4 * n = Base * b1 + d0 /\ b1 = Base * b2 + d1 /\ b2 = Base * b3 + d2 /\ b3 = d3
  /\ b1 = 0 => b2 = 0
  /\ b2 = 0 => b3 = 0
  /\ d0 % 4 = 0 /\ (b1 = 0 /\ n > 0 => d0 > 0)

LEMMA SeekDigits ==
  ASSUME NEW n \in Nat, 4 * n < Wrap
  PROVE  LET b0 == 4 * n
             b1 == b0 \div Base
             b2 == b1 \div Base
             b3 == b2 \div Base
         IN Digits(n, b1, b2, b3, b0 % Base, b1 % Base, b2 % Base, b3 % Base)
<1> DEFINE b0 == 4 * n
           b1 == b0 \div Base
           b2 == b1 \div Base
           b3 == b2 \div Base
<1>0. Base \in Nat \ {0} /\ b0 \in Nat
  BY TopIs
<1> HIDE DEF b0
<1>1. b1 \in Nat /\ b0 % Base \in 0 .. Base - 1 /\ b0 = Base * b1 + (b0 % Base)
  BY <1>0, Divided
<1> HIDE DEF b1
<1>2. b2 \in Nat /\ b1 % Base \in 0 .. Base - 1 /\ b1 = Base * b2 + (b1 % Base)
  BY <1>0, <1>1, Divided
<1> HIDE DEF b2
<1>3. b3 \in Nat /\ b3 % Base \in 0 .. Base - 1 /\ b2 = Base * b3 + (b2 % Base)
      /\ b2 % Base \in 0 .. Base - 1
  BY <1>0, <1>2, Divided
<1> HIDE DEF b3
<1>4. PICK d0 \in Nat, d1 \in Nat, d2 \in Nat :
        d0 = b0 % Base /\ d1 = b1 % Base /\ d2 = b2 % Base
  BY <1>1, <1>2, <1>3
<1>5. /\ b0 = Base * b1 + d0 /\ b1 = Base * b2 + d1 /\ b2 = Base * b3 + d2
  BY <1>1, <1>2, <1>3, <1>4
<1>6. b3 < Base
  <2>1. /\ Base * Base \in Nat /\ Base * (Base * Base) \in Nat
        /\ Base * b1 \in Nat /\ Base * b2 \in Nat /\ Base * b3 \in Nat
    BY <1>0, <1>1, <1>2, <1>3, TimesNat
  <2>2. Base * b1 < Base * (Base * (Base * Base))
    <3>1. b0 < Base * (Base * (Base * Base)) /\ Base * (Base * (Base * Base)) \in Nat
      BY <1>0, <2>1, TimesNat DEF b0, Wrap
    <3>2. Base * b1 <= b0
      BY <1>0, <1>5, <2>1
    <3> QED BY <1>0, <2>1, <3>1, <3>2
  <2>3. b1 < Base * (Base * Base)
    BY <1>0, <1>1, <2>1, <2>2, SmallerFactor
  <2>4. Base * b2 < Base * (Base * Base)
    BY <1>1, <1>5, <2>1, <2>3
  <2>5. b2 < Base * Base
    BY <1>0, <1>2, <2>1, <2>4, SmallerFactor
  <2>6. Base * b3 < Base * Base
    BY <1>2, <1>5, <2>1, <2>5
  <2> QED BY <1>0, <1>3, <2>6, SmallerFactor
<1>7. b3 % Base = b3
  <2>1. b3 \in 0 .. Base - 1 /\ Base * 0 + b3 = b3 /\ 0 \in Nat
    BY <1>0, <1>3, <1>6
  <2>2. (Base * 0 + b3) % Base = b3
    BY <1>0, <2>1, DividedOnce
  <2> QED BY <2>1, <2>2
<1>8. d0 % 4 = 0
  <2>1. PICK k \in Nat : Base = 4 * k
    <3>1. Base \div 4 \in Nat /\ Base = 4 * (Base \div 4)
      BY TopIs
    <3> QED BY <3>1
  <2>2. Base * b1 = 4 * (k * b1) /\ k * b1 \in Nat
    BY <1>1, <2>1, TimesNat
  <2>3. d0 = 4 * (n - k * b1)
    BY <1>5, <2>2 DEF b0
  <2> QED BY <2>2, <2>3
<1>9. b1 = 0 /\ n > 0 => d0 > 0
  <2> SUFFICES ASSUME b1 = 0, n > 0 PROVE d0 > 0
    OBVIOUS
  <2>1. Base * b1 = 0
    BY <1>0
  <2> QED BY <1>5, <2>1 DEF b0
<1>10. b0 = 4 * n
  BY DEF b0
<1>13. (b1 = 0 => b2 = 0) /\ (b2 = 0 => b3 = 0)
  <2>1. b1 = 0 => ~(Base * b2 > 0)
    BY <1>0, <1>2, <1>5, TimesNat
  <2>2. b2 = 0 => ~(Base * b3 > 0)
    <3>1. Base * b3 \in Nat /\ b2 = Base * b3 + d2
      BY <1>0, <1>3, <1>5, TimesNat
    <3> QED BY <3>1
  <2> QED BY <1>0, <1>2, <1>3, <2>1, <2>2, TimesPositive
<1>11. Digits(n, b1, b2, b3, d0, d1, d2, b3)
  BY <1>1, <1>2, <1>3, <1>5, <1>8, <1>9, <1>10, <1>13 DEF Digits
<1>12. Digits(n, b1, b2, b3, b0 % Base, b1 % Base, b2 % Base, b3 % Base)
  BY <1>4, <1>7, <1>11
<1> QED BY <1>12 DEF b0, b1, b2, b3

(* The bytes of a seek as c_symlink2 puts them together. *)
LittleEndian(s) ==
  LET byte(i) == IF i < Len(s) THEN s[i + 1] ELSE 0
  IN (byte(0) + Base * (byte(1) + Base * (byte(2) + Base * byte(3)))) \div 4

LEMMA SeekBytesRead ==
  ASSUME NEW n \in Nat, 4 * n < Wrap
  PROVE  /\ SeekBytes(n) \in Seq(Int) /\ Len(SeekBytes(n)) \in 1 .. 4
         /\ \A i \in 1 .. Len(SeekBytes(n)) : SeekBytes(n)[i] \in Nat /\ SeekBytes(n)[i] < Base
         /\ Width2(SeekBytes(n)[1]) = Len(SeekBytes(n))
         /\ LittleEndian(SeekBytes(n)) = n
         /\ n > 0 => SeekBytes(n)[1] # 0
<1>1. PICK b1, b2, b3, d0, d1, d2, d3 :
        /\ b1 = (4 * n) \div Base /\ b2 = b1 \div Base /\ b3 = b2 \div Base
        /\ d0 = (4 * n) % Base /\ d1 = b1 % Base /\ d2 = b2 % Base /\ d3 = b3 % Base
  OBVIOUS
<1>2. Digits(n, b1, b2, b3, d0, d1, d2, d3)
  BY <1>1, SeekDigits
<1>3. PICK w \in 1 .. 4 : w = IF b1 = 0 THEN 1 ELSE IF b2 = 0 THEN 2 ELSE IF b3 = 0 THEN 3 ELSE 4
  OBVIOUS
<1>4. {b1, b2, b3, d0, d1, d2, d3} \subseteq Nat
  BY <1>2 DEF Digits
<1>5. PICK s \in Seq(Int) : s = <<d0 + w - 1, d1, d2, d3>>
  <2>1. PICK e \in Int : e = d0 + w - 1
    BY <1>4
  <2>2. d1 \in Int /\ d2 \in Int /\ d3 \in Int
    BY <1>4
  <2>3. <<e, d1, d2, d3>> \in Seq(Int)
    BY <2>2
  <2> QED BY <2>1, <2>3
<1>6. Len(s) = 4 /\ s[1] = d0 + w - 1 /\ s[2] = d1 /\ s[3] = d2 /\ s[4] = d3
  BY <1>5
<1>7. PICK t : t = SubSeq(s, 1, w)
  OBVIOUS
<1>8. t \in Seq(Int) /\ Len(t) = w /\ \A i \in 1 .. w : t[i] = s[i]
  <2>1. 1 \in 1 .. Len(s) + 1 /\ w \in 1 - 1 .. Len(s) /\ w - 1 + 1 = w
    BY <1>6
  <2>2. /\ t \in Seq(Int) /\ Len(t) = w - 1 + 1
        /\ \A i \in 1 .. w - 1 + 1 : t[i] = s[1 + i - 1]
    BY <1>7, <2>1, SubSeqProperties
  <2> QED BY <2>1, <2>2
<1>9. SeekBytes(n) = t
  BY <1>1, <1>3, <1>5, <1>7 DEF SeekBytes
<1>10. t[1] = d0 + w - 1 /\ t[1] \in Nat
  <2>1. 1 \in 1 .. w
    OBVIOUS
  <2> QED BY <1>4, <1>6, <1>8, <2>1
<1>11. Width2(t[1]) = w
  <2>1. d0 \in Nat /\ d0 % 4 = 0
    BY <1>2 DEF Digits
  <2>2. (d0 + w - 1) % 4 = w - 1
    BY <2>1
  <2> QED BY <1>10, <2>2 DEF Width2
<1>12. n > 0 => t[1] # 0
  <2>1. w = 1 => b1 = 0
    BY <1>3
  <2> QED BY <1>2, <1>10, <2>1 DEF Digits
<1>13. \A i \in 1 .. w : t[i] \in Nat
  <2> SUFFICES ASSUME NEW i \in 1 .. w PROVE t[i] \in Nat
    OBVIOUS
  <2>1. i \in {1, 2, 3, 4}
    OBVIOUS
  <2> QED BY <1>4, <1>6, <1>8, <1>10, <2>1
<1>14. LittleEndian(t) = n
  <2>1. /\ 4 * n = Base * b1 + d0 /\ b1 = Base * b2 + d1 /\ b2 = Base * b3 + d2 /\ b3 = d3
        /\ (b1 = 0 => b2 = 0) /\ (b2 = 0 => b3 = 0)
    BY <1>2 DEF Digits
  <2>2. Base \in Nat /\ Base * 0 = 0
    BY TopIs
  <2>3. PICK e1, e2, e3 : /\ e1 = IF 1 < w THEN t[2] ELSE 0
                          /\ e2 = IF 2 < w THEN t[3] ELSE 0
                          /\ e3 = IF 3 < w THEN t[4] ELSE 0
    OBVIOUS
  <2>4. LittleEndian(t) = (t[1] + Base * (e1 + Base * (e2 + Base * e3))) \div 4
    <3>1. 0 < Len(t) /\ 0 + 1 = 1 /\ 1 + 1 = 2 /\ 2 + 1 = 3 /\ 3 + 1 = 4 /\ Len(t) = w
      BY <1>8
    <3> QED BY <2>3, <3>1 DEF LittleEndian
  <2>5. e1 = (IF 1 < w THEN d1 ELSE 0) /\ e2 = (IF 2 < w THEN d2 ELSE 0)
        /\ e3 = (IF 3 < w THEN d3 ELSE 0)
    <3>1. /\ 1 < w => 2 \in 1 .. w
          /\ 2 < w => 3 \in 1 .. w
          /\ 3 < w => 4 \in 1 .. w
      OBVIOUS
    <3> QED BY <1>6, <1>8, <2>3, <3>1
  <2>6. e3 = b3
    <3>1. ~(3 < w) => b3 = 0
      BY <1>3, <2>1
    <3> QED BY <2>1, <2>5, <3>1
  <2>7. e2 + Base * e3 = b2
    <3>1. ~(2 < w) => b2 = 0 /\ b3 = 0
      BY <1>3, <2>1
    <3>2. CASE 2 < w
      <4>1. e2 = d2
        BY <2>5, <3>2
      <4> QED BY <1>4, <2>1, <2>2, <2>6, <4>1, TimesNat
    <3>3. CASE ~(2 < w)
      BY <2>2, <2>5, <2>6, <3>1, <3>3
    <3> QED BY <3>2, <3>3
  <2>8. e1 + Base * (e2 + Base * e3) = b1
    <3>1. ~(1 < w) => b1 = 0 /\ b2 = 0
      BY <1>3, <2>1
    <3>2. CASE 1 < w
      <4>1. e1 = d1
        BY <2>5, <3>2
      <4>2. d1 + Base * b2 = b1
        BY <1>4, <2>1, <2>2, TimesNat
      <4> QED BY <2>7, <4>1, <4>2
    <3>3. CASE ~(1 < w)
      BY <2>2, <2>5, <2>7, <3>1, <3>3
    <3> QED BY <3>2, <3>3
  <2>9. t[1] + Base * (e1 + Base * (e2 + Base * e3)) = 4 * n + (w - 1)
    <3>1. Base * b1 + d0 = 4 * n /\ Base * b1 \in Nat /\ d0 \in Nat
      BY <1>4, <2>1, <2>2, TimesNat
    <3>2. t[1] + Base * b1 = 4 * n + (w - 1)
      BY <1>10, <3>1
    <3> QED BY <2>8, <3>2
  <2>10. (4 * n + (w - 1)) \div 4 = n
    OBVIOUS
  <2> QED BY <2>4, <2>9, <2>10
<1>15. \A i \in 1 .. w : t[i] < Base
  <2>1. Base \in Nat \ {0} /\ Base % 4 = 0
    BY TopIs
  <2>2. d0 < Base /\ d1 < Base /\ d2 < Base /\ d3 < Base
    <3>1. 4 * n \in Nat /\ b1 \in Nat /\ b2 \in Nat /\ b3 \in Nat
      BY <1>4
    <3> QED BY <1>1, <2>1, <3>1, Divided
  <2>3. d0 + w - 1 < Base
    <3>1. d0 \in Nat /\ d0 % 4 = 0
      BY <1>2 DEF Digits
    <3> QED BY <2>1, <2>2, <3>1
  <2> SUFFICES ASSUME NEW i \in 1 .. w PROVE t[i] < Base
    OBVIOUS
  <2>4. i \in {1, 2, 3, 4}
    OBVIOUS
  <2> QED BY <1>6, <1>8, <2>2, <2>3, <2>4
<1> QED BY <1>8, <1>9, <1>11, <1>12, <1>13, <1>14, <1>15

-----------------------------------------------------------------------------
(* Reading a table                                                         *)

(* A reader that has not begun has linked nothing; one that is done is in    *)
(* the table.                                                                *)
ReaderAt ==
  /\ pc = "done" => ptr > 0
  /\ pc \in {"idle", "start"} =>
       pointers = << >> /\ symbols = << >> /\ links = << >> /\ fixing = FALSE
  /\ pc = "start" => ptr = from /\ word = FirstWord(version)

(* What is linked is in the segment. *)
LinkedWithin ==
  /\ \A i \in DOMAIN pointers : pointers[i] < limit
  /\ \A i \in DOMAIN links : links[i][2] < limit

(* No seek is of more words than its bytes allow, so that none wraps in a    *)
(* short table.                                                              *)
Near == ptr > 0 /\ word <= Top * (ptr - 1)

(* Pointers are linked below the word reached.  That is before the segment  *)
(* only until the first seek, which is not of no words.                     *)
PointersInv ==
  pc = "pointers" =>
    /\ symbols = << >> /\ links = << >>
    /\ word < 0 => word = -1 /\ fixing = FALSE /\ pointers = << >> /\ table[ptr] # 0
    /\ IsShort => Near /\ (word >= 0 => Ascends(pointers, word))

(* A reference of the entry being read is not behind the word reached, and   *)
(* another one is in front of it: in V3 a seek of no words would have ended  *)
(* the entry.                                                                *)
Reached(x) == x <= word /\ (x < word \/ table[ptr] # 0)

EntriesBegun == \A i \in DOMAIN links : links[i][1] <= Len(symbols)

LinksReached ==
  pc = "references" =>
    /\ word >= 0
    /\ IsShort /\ version = 3 =>
         /\ Near
         /\ \A i \in DOMAIN links : links[i][1] = Len(symbols) => Reached(links[i][2])

PointersAscend ==
  IsShort => \A i, j \in DOMAIN pointers : i < j => pointers[i] < pointers[j]

LinksAscend ==
  IsShort /\ version = 3 =>
    \A i, j \in DOMAIN links :
      i < j /\ links[i][1] = links[j][1] => links[i][2] < links[j][2]

LEMMA VisitParts ==
  ASSUME TableTypeOK, LinkedWithin, PointersAscend, LinksAscend
  PROVE  VisitsAscend
<1>1. \A i \in DOMAIN pointers : pointers[i] \in Nat
  BY DEF TableTypeOK
<1>2. \A i \in DOMAIN links : links[i] \in Nat \X Nat
  BY DEF TableTypeOK
<1>3. \A i \in DOMAIN links : links[i][2] \in Nat
  BY <1>2
<1>4. /\ \A i \in DOMAIN pointers : 0 <= pointers[i] /\ pointers[i] < limit
      /\ \A i \in DOMAIN links : 0 <= links[i][2] /\ links[i][2] < limit
  BY <1>1, <1>3 DEF LinkedWithin
<1> QED BY <1>4 DEF VisitsAscend, PointersAscend, LinksAscend

VisitInv ==
  /\ TableTypeOK /\ ReaderAt /\ LinkedWithin
  /\ PointersInv /\ PointersAscend
  /\ EntriesBegun /\ LinksReached /\ LinksAscend

LEMMA TableFacts ==
  ASSUME TableTypeOK
  PROVE  /\ Len(table) \in Nat /\ DOMAIN table = 1 .. Len(table)
         /\ \A i \in 1 .. Len(table) : table[i] \in Int
         /\ ptr \in Int /\ from \in Int
         /\ \A n \in Nat : Ahead(n) <=> 1 <= ptr /\ ptr + n - 1 <= Len(table)
  BY DEF TableTypeOK, Ahead

(* The reader is somewhere else, and has linked what it had. *)
LEMMA StandsElsewhere ==
  ASSUME VisitInv, UNCHANGED <<version, table, limit, pointers, symbols, links>>,
         pc' \notin {"idle", "start", "pointers", "references"},
         pc' = "done" => ptr' > 0, TableTypeOK'
  PROVE  VisitInv'
<1>1. ReaderAt' /\ PointersInv' /\ LinksReached'
  BY DEF ReaderAt, PointersInv, LinksReached
<1>2. LinkedWithin' /\ PointersAscend' /\ EntriesBegun'
  BY DEF VisitInv, LinkedWithin, PointersAscend, EntriesBegun, IsShort
<1>3. LinksAscend'
  BY DEF VisitInv, LinksAscend, IsShort
<1> QED BY <1>1, <1>2, <1>3 DEF VisitInv

LEMMA StopVisits ==
  ASSUME VisitInv, NEW at \in {"lost", "refused"},
         at = "refused" => pc \in {"pointers", "references"}, Stop(at)
  PROVE  VisitInv'
<1>1. TableTypeOK'
  <2>1. /\ pc' = at
        /\ UNCHANGED <<version, table, fits, limit, from, ptr, fixing, word, pointers, symbols,
                       links>>
    BY DEF Stop, file
  <2>2. CASE at = "lost"
    BY <2>1, <2>2 DEF VisitInv, TableTypeOK
  <2>3. CASE at = "refused"
    BY <2>1, <2>3 DEF VisitInv, TableTypeOK
  <2> QED BY <2>2, <2>3
<1> QED BY <1>1, StandsElsewhere DEF Stop, file

LEMMA LostVisits ==
  ASSUME VisitInv, Lost
  PROVE  VisitInv'
<1>1. PICK at \in {"lost", "refused"} : at = "lost" /\ Stop(at)
  BY DEF Lost
<1>2. at = "refused" => pc \in {"pointers", "references"}
  BY <1>1
<1> QED BY <1>1, <1>2, StopVisits

LEMMA RefusedVisits ==
  ASSUME VisitInv, NEW visits, Refused(visits), pc \in {"pointers", "references"}
  PROVE  VisitInv'
<1>1. PICK at \in {"lost", "refused"} : at = "refused" /\ Stop(at)
  BY DEF Refused
<1> QED BY <1>1, StopVisits

LEMMA StartVisits ==
  ASSUME VisitInv, Start
  PROVE  VisitInv'
<1>1. CASE ~Ahead(1)
  BY <1>1, LostVisits DEF Start
<1>2. CASE Ahead(1) /\ table[ptr] = 0
  <2>a. /\ pc = "start" /\ pc' = "symbols" /\ ptr' = ptr + 1
        /\ UNCHANGED <<version, table, fits, limit, from, fixing, word, pointers, symbols, links>>
    BY <1>2 DEF Start, file
  <2>b. ptr = from /\ ptr \in 1 .. Len(table)
    BY <1>2, <2>a, TableFacts DEF VisitInv, ReaderAt
  <2>1. TableTypeOK'
    BY <2>a, <2>b, TableFacts DEF VisitInv, TableTypeOK
  <2> QED BY <2>a, <2>1, StandsElsewhere
<1>3. CASE Ahead(1) /\ table[ptr] # 0
  <2>1. /\ pc = "start" /\ pc' = "pointers"
        /\ UNCHANGED <<version, table, fits, limit, from, ptr, fixing, word, pointers, symbols,
                       links>>
    BY <1>3 DEF Start, file
  <2>2. TableTypeOK'
    BY <1>3, <2>1 DEF VisitInv, ReaderAt, TableTypeOK, Ahead
  <2>b. ptr > 0 /\ ptr \in Int /\ word = FirstWord(version) /\ pointers = << >> /\ symbols = << >>
        /\ links = << >> /\ fixing = FALSE
    BY <1>3, <2>1, TableFacts DEF VisitInv, ReaderAt
  <2>c. Near
    <3>1. Top * (ptr - 1) \in Nat
      BY <2>b, TopIs, TimesNat
    <3> QED BY <2>b, <3>1 DEF Near, FirstWord
  <2>d. Ascends(pointers, word)
    BY <2>b DEF Ascends
  <2>3. PointersInv'
    BY <1>3, <2>1, <2>b, <2>c, <2>d DEF PointersInv, Near, Ascends, FirstWord
  <2>4. ReaderAt' /\ LinksReached'
    BY <2>1 DEF ReaderAt, LinksReached
  <2>5. LinkedWithin' /\ PointersAscend' /\ EntriesBegun' /\ LinksAscend'
    BY <2>1 DEF VisitInv, LinkedWithin, PointersAscend, EntriesBegun, LinksAscend, IsShort
  <2> QED BY <2>2, <2>3, <2>4, <2>5 DEF VisitInv
<1> QED BY <1>1, <1>2, <1>3

(* In a short table bytes do not seek past all words. *)
LEMMA NearEnough ==
  ASSUME TableTypeOK, IsShort, NEW p \in 1 .. Len(table), NEW n \in Nat,
         word \in Int, word >= -1, word + n >= 0, word + n <= Top * p
  PROVE  Onward(n) = word + n /\ word + n < Words
<1>1. Len(table) \in Nat /\ Top \in Nat
  BY TableFacts, TopIs
<1>2. PICK d \in Nat : Len(table) = p + d
  <2>1. Len(table) - p \in Nat /\ Len(table) = p + (Len(table) - p)
    BY <1>1
  <2> QED BY <2>1
<1>3. Top * Len(table) = Top * p + Top * d
  BY <1>1, <1>2
<1>4. Top * p \in Nat /\ Top * d \in Nat
  BY <1>1, TimesNat
<1>5. 4 * (Top * Len(table)) < 4 * Words
  BY WrapIs DEF IsShort
<1>6. word + n < Words
  BY <1>3, <1>4, <1>5, WrapIs
<1> QED BY <1>6, OnwardIs

(* Words in a row, when none wraps. *)
LEMMA RunIs ==
  ASSUME NEW n \in Nat, word \in Nat, word + n <= Words
  PROVE  Run(n) = RunFrom(word, n)
<1> SUFFICES ASSUME NEW i \in 1 .. n PROVE Onward(i - 1) = word + i - 1
  BY DEF Run, RunFrom
<1>1. i - 1 \in Int /\ 0 <= word + (i - 1) /\ word + (i - 1) < Words /\ word \in Int
  BY WrapIs
<1>2. Onward(i - 1) = word + (i - 1)
  BY <1>1, OnwardIs
<1> QED BY <1>2

LEMMA RunTyped ==
  ASSUME NEW n \in Nat, word \in Int
  PROVE  Run(n) \in Seq(Nat) /\ Len(Run(n)) = n
<1>1. \A i \in 1 .. n : Onward(i - 1) \in Nat
  BY OnwardIs, WrapIs
<1> QED BY <1>1 DEF Run

LEMMA CountVisits ==
  ASSUME VisitInv, Count
  PROVE  VisitInv'
<1> DEFINE visits == IF fixing THEN Run(table[ptr]) ELSE << >>
<1>1. CASE ~Ahead(2) \/ table[ptr] < 0
  BY <1>1, LostVisits DEF Count
<1>2. CASE Ahead(2) /\ ~(table[ptr] < 0) /\ Refused(visits)
  BY <1>2, RefusedVisits DEF Count
<1>3. CASE Ahead(2) /\ ~(table[ptr] < 0) /\ ~Refused(visits)
  <2> PICK n : n = table[ptr]
    OBVIOUS
  <2>a. n = table[ptr]
    OBVIOUS
  <2>1. n \in Nat /\ ptr \in 1 .. Len(table) /\ ptr + 1 \in 1 .. Len(table) /\ Len(table) \in Nat
        /\ n <= Top
    <3>1. n \in Nat /\ ptr \in 1 .. Len(table) /\ ptr + 1 \in 1 .. Len(table) /\ Len(table) \in Nat
      BY <1>3, TableFacts DEF VisitInv
    <3>2. n < Base
      BY <3>1 DEF VisitInv, TableTypeOK
    <3> QED BY <3>1, <3>2, TopIs
  <2>2. /\ pc = "pointers"
        /\ word' = Onward(n)
        /\ Accepts(visits)
        /\ pointers' = pointers \o visits
        /\ UNCHANGED <<version, table, fits, limit, from, symbols, links>>
    BY <1>3 DEF Count, file
  <2>3. /\ pc' \in {"pointers", "symbols"}
        /\ fixing' \in BOOLEAN
        /\ ptr' = IF table[ptr + 1] = 0 THEN ptr + 2 ELSE ptr + 1
    BY <1>3 DEF Count, VisitInv, TableTypeOK
  <2>4. /\ word \in Int /\ fixing \in BOOLEAN /\ pointers \in Seq(Nat)
        /\ word < 0 => word = -1 /\ fixing = FALSE /\ pointers = << >> /\ n # 0
        /\ IsShort => Near /\ (word >= 0 => Ascends(pointers, word))
    BY <2>2 DEF VisitInv, PointersInv, TableTypeOK
  <2>5. visits \in Seq(Nat) /\ (~fixing => visits = << >>) /\ (fixing => visits = Run(n))
    <3>1. << >> \in Seq(Nat) /\ Run(n) \in Seq(Nat)
      <4>1. << >> \in Seq(Nat)
        OBVIOUS
      <4> QED BY <2>1, <2>4, <4>1, RunTyped, Zenon
    <3> QED BY <2>a, <2>4, <3>1
  <2>6. \A i \in DOMAIN visits : visits[i] < limit
    BY <2>2 DEF Accepts, InSegment
  <2> HIDE DEF visits
  <2>7. pointers' \in Seq(Nat) /\ \A i \in DOMAIN pointers' : pointers'[i] < limit
    <3>1. \A i \in DOMAIN pointers : pointers[i] < limit
      BY DEF VisitInv, LinkedWithin
    <3>2. pointers \o visits \in Seq(Nat)
      BY <2>4, <2>5
    <3>3. \A i \in DOMAIN (pointers \o visits) : (pointers \o visits)[i] < limit
      <4>1. Len(pointers) \in Nat /\ Len(visits) \in Nat
            /\ DOMAIN pointers = 1 .. Len(pointers) /\ DOMAIN visits = 1 .. Len(visits)
            /\ DOMAIN (pointers \o visits) = 1 .. Len(pointers) + Len(visits)
        BY <2>4, <2>5
      <4> SUFFICES ASSUME NEW i \in 1 .. Len(pointers) + Len(visits)
                   PROVE  (pointers \o visits)[i] < limit
        BY <4>1
      <4>2. CASE i <= Len(pointers)
        BY <2>4, <2>5, <3>1, <4>1, <4>2
      <4>3. CASE i > Len(pointers)
        <5>1. (pointers \o visits)[i] = visits[i - Len(pointers)]
          BY <2>4, <2>5, <4>1, <4>3
        <5>2. i - Len(pointers) \in DOMAIN visits
          BY <4>1, <4>3
        <5> QED BY <2>6, <5>1, <5>2
      <4> QED BY <4>1, <4>2, <4>3
    <3> QED BY <2>2, <3>2, <3>3
  <2>8. word' \in Nat
    <3>1. n \in Int /\ word \in Int
      BY <2>1, <2>4
    <3>2. Onward(n) \in 0 .. Words - 1
      BY <3>1, OnwardIs
    <3> QED BY <2>2, <3>2, WrapIs
  <2>9. ASSUME IsShort
        PROVE  Ascends(pointers', word') /\ ptr' > 0 /\ word' <= Top * (ptr' - 1)
    <3>1. word >= -1 /\ word + n >= 0 /\ word <= Top * (ptr - 1)
      BY <2>1, <2>4, <2>9 DEF Near
    <3>2. Top * ptr = Top * (ptr - 1) + Top /\ Top * ptr \in Nat /\ Top * (ptr - 1) \in Nat
      BY <2>1, TopIs, TimesNat
    <3>3. word + n <= Top * ptr
      BY <2>1, <2>4, <3>1, <3>2, TopIs
    <3>4. word' = word + n /\ word + n < Words
      BY <2>1, <2>2, <2>4, <2>9, <3>1, <3>3, NearEnough DEF VisitInv
    <3>5. Ascends(pointers', word')
      <4>1. CASE word < 0
        <5>1. pointers' = << >>
          BY <2>2, <2>4, <2>5, <4>1
        <5> QED BY <5>1 DEF Ascends
      <4>2. CASE word >= 0 /\ fixing
        <5>1. word \in Nat /\ word + n <= Words
          BY <2>1, <2>4, <3>4, <4>2, WrapIs
        <5>2. pointers' = pointers \o RunFrom(word, n)
          BY <2>1, <2>2, <2>5, <4>2, <5>1, RunIs
        <5>3. pointers \in Seq(Int) /\ Ascends(pointers, word)
          BY <2>4, <2>9, <4>2
        <5> QED BY <2>1, <3>4, <5>1, <5>2, <5>3, RunAscends
      <4>3. CASE word >= 0 /\ ~fixing
        <5>1. pointers' = pointers /\ DOMAIN pointers = 1 .. Len(pointers)
              /\ \A i \in DOMAIN pointers : pointers[i] \in Nat
          BY <2>2, <2>4, <2>5, <4>3
        <5>2. Ascends(pointers, word)
          BY <2>4, <2>9, <4>3
        <5> QED BY <2>1, <2>4, <3>4, <5>1, <5>2 DEF Ascends
      <4> QED BY <2>4, <4>1, <4>2, <4>3
    <3>6. Top * ptr <= Top * (ptr' - 1) /\ ptr' > 0
      <4>1. CASE ptr' = ptr + 1
        BY <2>1, <3>2, <4>1, TopIs
      <4>2. CASE ptr' = ptr + 2
        <5>1. Top * (ptr' - 1) = Top * ptr + Top
          BY <2>1, <4>2, TopIs
        <5> QED BY <2>1, <3>2, <4>2, <5>1, TopIs
      <4> QED BY <2>3, <4>1, <4>2
    <3>7. Top * (ptr' - 1) \in Nat
      <4>1. ptr' - 1 \in Nat
        BY <2>1, <2>3
      <4> QED BY <4>1, TopIs, TimesNat
    <3> QED BY <2>1, <2>4, <3>2, <3>3, <3>4, <3>5, <3>6, <3>7
  <2>10. TableTypeOK'
    <3>1. ptr' \in from .. Len(table) + 1 /\ ptr' \in Int
      BY <2>1, <2>2, <2>3 DEF VisitInv, TableTypeOK
    <3> QED BY <2>2, <2>3, <2>7, <2>8, <3>1 DEF VisitInv, TableTypeOK
  <2>11. PointersInv'
    BY <2>2, <2>8, <2>9 DEF VisitInv, PointersInv, Near, IsShort
  <2>12. PointersAscend'
    BY <2>2, <2>9 DEF Ascends, PointersAscend, IsShort
  <2>13. ReaderAt' /\ LinksReached'
    BY <2>3 DEF ReaderAt, LinksReached
  <2>14. LinkedWithin' /\ EntriesBegun' /\ LinksAscend'
    BY <2>2, <2>7 DEF VisitInv, LinkedWithin, EntriesBegun, LinksAscend, IsShort
  <2> QED BY <2>10, <2>11, <2>12, <2>13, <2>14 DEF VisitInv
<1> QED BY <1>1, <1>2, <1>3

LEMMA ReadSymbolVisits ==
  ASSUME VisitInv, ReadSymbol
  PROVE  VisitInv'
<1> PICK s : s = -table[ptr]
  OBVIOUS
<1>a. s = -table[ptr]
  OBVIOUS
<1>1. s \in Nat /\ ptr \in 1 .. Len(table) /\ Len(table) \in Nat
  BY TableFacts DEF VisitInv, ReadSymbol
<1>2. /\ pc = "symbols" /\ pc' = "references" /\ word' = 0 /\ ptr' = ptr + 1
      /\ symbols' = Append(symbols, s)
      /\ UNCHANGED <<version, table, fits, limit, from, fixing, pointers, links>>
  BY <1>a DEF ReadSymbol, file
<1>3. /\ symbols \in Seq(Nat) /\ Len(symbols) \in Nat /\ symbols' \in Seq(Nat)
      /\ Len(symbols') = Len(symbols) + 1
  BY <1>1, <1>2 DEF VisitInv, TableTypeOK
<1>4. links \in Seq(Nat \X Nat) /\ DOMAIN links = 1 .. Len(links)
      /\ \A i \in DOMAIN links : links[i] \in Nat \X Nat
  BY DEF VisitInv, TableTypeOK
<1>5. \A i \in DOMAIN links : links[i][1] \in Nat /\ links[i][1] <= Len(symbols)
  BY <1>4 DEF VisitInv, EntriesBegun
<1>6. TableTypeOK'
  BY <1>1, <1>2, <1>3 DEF VisitInv, TableTypeOK
<1>7. ReaderAt' /\ PointersInv'
  BY <1>2 DEF ReaderAt, PointersInv
<1>b. Near'
  <2>1. Top * (ptr' - 1) \in Nat
    BY <1>1, <1>2, TopIs, TimesNat
  <2> QED BY <1>1, <1>2, <2>1 DEF Near
<1>8. EntriesBegun' /\ LinksReached'
  BY <1>2, <1>3, <1>5, <1>b DEF EntriesBegun, LinksReached
<1>9. LinkedWithin' /\ PointersAscend' /\ LinksAscend'
  BY <1>2 DEF VisitInv, LinkedWithin, PointersAscend, LinksAscend, IsShort
<1> QED BY <1>6, <1>7, <1>8, <1>9 DEF VisitInv

LEMMA NoMoreSymbolsVisits ==
  ASSUME VisitInv, NoMoreSymbols
  PROVE  VisitInv'
<1>1. CASE ~Ahead(1) \/ table[ptr] > 0
  BY <1>1, LostVisits DEF NoMoreSymbols
<1>2. CASE Ahead(1) /\ ~(table[ptr] > 0)
  <2>1. /\ pc = "symbols" /\ pc' = "done"
        /\ UNCHANGED <<version, table, fits, limit, from, ptr, fixing, word, pointers, symbols,
                       links>>
    BY <1>2 DEF NoMoreSymbols, file
  <2>2. TableTypeOK'
    BY <2>1 DEF VisitInv, TableTypeOK
  <2>3. ptr' > 0
    BY <1>2, <2>1, TableFacts DEF VisitInv
  <2> QED BY <2>1, <2>2, <2>3, StandsElsewhere
<1> QED BY <1>1, <1>2

(* In V3 a seek goes forward, by no words only if its first byte is zero,    *)
(* and by no more than its bytes allow.                                      *)
LEMMA ReferVisits ==
  ASSUME VisitInv, NEW seek \in Nat, NEW width \in Nat \ {0},
         pc = "references", Ahead(width + 1), Refer(seek, width),
         version = 3 => seek <= Top * width /\ (table[ptr] # 0 => seek > 0)
  PROVE  VisitInv'
<1> DEFINE w == Onward(seek)
           e == Len(symbols)
<1>a. CASE Refused(<<w>>)
  BY <1>a, RefusedVisits
<1>b. CASE ~Refused(<<w>>)
  <2>1. ptr \in 1 .. Len(table) /\ ptr + width \in 1 .. Len(table) /\ Len(table) \in Nat
    BY TableFacts DEF VisitInv
  <2>2. /\ word' = w /\ links' = Append(links, <<e, w>>) /\ Accepts(<<w>>)
        /\ pc' \in {"symbols", "references"}
        /\ pc' = "references" => ptr' = ptr + width /\ table[ptr + width] # 0
        /\ ptr' \in {ptr + width, ptr + width + 1}
        /\ UNCHANGED <<version, table, fits, limit, from, fixing, pointers, symbols>>
    BY <1>b DEF Refer, file
  <2>3. word \in Int /\ word >= 0 /\ e \in Nat /\ symbols \in Seq(Nat)
    BY DEF VisitInv, LinksReached, TableTypeOK
  <2>4. links \in Seq(Nat \X Nat) /\ DOMAIN links = 1 .. Len(links) /\ Len(links) \in Nat
        /\ \A i \in DOMAIN links : links[i] \in Nat \X Nat
    BY DEF VisitInv, TableTypeOK
  <2>5. w \in Nat /\ <<e, w>> \in Nat \X Nat
    BY <2>3, OnwardIs, WrapIs
  <2>l. w < limit
    <3>1. 1 \in DOMAIN <<w>> /\ <<w>>[1] = w
      OBVIOUS
    <3> QED BY <2>2, <3>1 DEF Accepts, InSegment
  <2>e. symbols' = symbols /\ Len(symbols') = e
    BY <2>2
  <2>6. \A i \in DOMAIN links :
           links[i][1] \in Nat /\ links[i][2] \in Nat /\ links[i][1] <= e /\ links[i][2] < limit
    BY <2>4 DEF VisitInv, EntriesBegun, LinkedWithin
  <2>7. ASSUME IsShort, version = 3
        PROVE  /\ w = word + seek /\ w <= Top * (ptr + width - 1)
               /\ \A i \in DOMAIN links : links[i][1] = e => links[i][2] < w
    <3>1. Near /\ \A i \in DOMAIN links : links[i][1] = e => Reached(links[i][2])
      BY <2>7 DEF VisitInv, LinksReached
    <3>2. seek <= Top * width /\ (table[ptr] # 0 => seek > 0)
      BY <2>7
    <3>3. /\ Top * (ptr + width - 1) = Top * (ptr - 1) + Top * width
          /\ Top * (ptr + width - 1) \in Nat /\ Top * (ptr - 1) \in Nat /\ Top * width \in Nat
      BY <2>1, TopIs, TimesNat
    <3>4. word + seek <= Top * (ptr + width - 1)
      BY <2>3, <3>1, <3>2, <3>3 DEF Near
    <3>5. w = word + seek
      <4>1. PICK p \in 1 .. Len(table) : p = ptr + width - 1
        BY <2>1
      <4>2. word + seek <= Top * p
        BY <3>4, <4>1
      <4> QED BY <2>3, <2>7, <4>1, <4>2, NearEnough DEF VisitInv
    <3>6. ASSUME NEW i \in DOMAIN links, links[i][1] = e
          PROVE  links[i][2] < w
      <4>1. Reached(links[i][2]) /\ links[i][2] \in Nat
        BY <2>6, <3>1, <3>6
      <4> QED BY <2>3, <3>2, <3>5, <4>1 DEF Reached
    <3> QED BY <3>4, <3>5, <3>6
  <2> HIDE DEF e, w
  <2>8. /\ links' \in Seq(Nat \X Nat)
        /\ DOMAIN links' = 1 .. Len(links) + 1
        /\ \A i \in DOMAIN links : links'[i] = links[i]
        /\ links'[Len(links) + 1][1] = e /\ links'[Len(links) + 1][2] = w
    BY <2>2, <2>4, <2>5
  <2>9. TableTypeOK'
    <3>1. from \in Int /\ from <= ptr
      BY DEF VisitInv, TableTypeOK
    <3>2. PICK p \in Int, n \in Nat : /\ p = ptr /\ n = Len(table) /\ from <= p
                                      /\ p + width <= n
      BY <2>1, <3>1
    <3>3. ptr' = p + width \/ ptr' = p + width + 1
      BY <2>2, <3>2
    <3>4. ptr' \in from .. Len(table) + 1 /\ ptr' \in Int /\ word' \in Int
      BY <2>2, <2>5, <3>1, <3>2, <3>3
    <3> QED BY <2>2, <2>8, <3>4 DEF VisitInv, TableTypeOK
  <2>10. EntriesBegun' /\ LinkedWithin'
    <3>1. ASSUME NEW i \in 1 .. Len(links) + 1
          PROVE  links'[i][1] <= Len(symbols') /\ links'[i][2] < limit'
      <4>1. CASE i \in DOMAIN links
        BY <2>2, <2>6, <2>8, <2>e, <4>1
      <4>2. CASE i = Len(links) + 1
        BY <2>2, <2>3, <2>8, <2>e, <2>l, <4>2
      <4> QED BY <2>4, <4>1, <4>2
    <3>2. \A i \in DOMAIN pointers' : pointers'[i] < limit'
      BY <2>2 DEF VisitInv, LinkedWithin
    <3> QED BY <2>8, <3>1, <3>2 DEF EntriesBegun, LinkedWithin
  <2>11. LinksReached'
    <3> SUFFICES ASSUME pc' = "references", IsShort, version = 3
                 PROVE  /\ Near'
                        /\ \A i \in 1 .. Len(links) + 1 :
                             links'[i][1] = e => links'[i][2] <= w /\ table'[ptr'] # 0
      BY <2>2, <2>5, <2>8, <2>e DEF LinksReached, Reached, IsShort
    <3>1. table'[ptr'] # 0 /\ ptr' = ptr + width
      BY <2>2
    <3>2. Near'
      BY <2>1, <2>2, <2>7, <3>1 DEF Near
    <3>3. ASSUME NEW i \in 1 .. Len(links) + 1, links'[i][1] = e
          PROVE  links'[i][2] <= w
      <4>1. CASE i \in DOMAIN links
        <5>1. links[i][2] < w /\ links[i][2] \in Nat
          BY <2>6, <2>7, <2>8, <3>3, <4>1
        <5> QED BY <2>5, <2>8, <4>1, <5>1
      <4>2. CASE i = Len(links) + 1
        BY <2>5, <2>8, <4>2
      <4> QED BY <2>4, <4>1, <4>2
    <3> QED BY <3>1, <3>2, <3>3
  <2>12. LinksAscend'
    <3> SUFFICES ASSUME IsShort, version = 3,
                        NEW i \in 1 .. Len(links) + 1, NEW j \in 1 .. Len(links) + 1, i < j,
                        links'[i][1] = links'[j][1]
                 PROVE  links'[i][2] < links'[j][2]
      BY <2>2, <2>8 DEF LinksAscend, IsShort
    <3>a. i \in 1 .. Len(links)
      BY <2>4
    <3>1. i \in DOMAIN links /\ links'[i] = links[i]
      BY <3>a, <2>4, <2>8
    <3>2. CASE j \in DOMAIN links
      <4>1. links'[j] = links[j]
        BY <2>8, <3>2
      <4>2. links[i][1] = links[j][1] => links[i][2] < links[j][2]
        BY <3>1, <3>2 DEF VisitInv, LinksAscend
      <4> QED BY <3>1, <4>1, <4>2
    <3>3. CASE j = Len(links) + 1
      <4>1. links[i][1] = e
        BY <2>8, <3>1, <3>3
      <4>2. links[i][2] < w
        BY <2>7, <3>1, <4>1
      <4> QED BY <2>8, <3>1, <3>3, <4>2
    <3>b. Len(links) \in Nat /\ DOMAIN links = 1 .. Len(links)
      BY <2>4
    <3>c. j \in 1 .. Len(links) \/ j = Len(links) + 1
      BY <3>b
    <3>4. j \in DOMAIN links \/ j = Len(links) + 1
      BY <3>b, <3>c
    <3> QED BY <3>2, <3>3, <3>4
  <2>13. ReaderAt' /\ PointersInv' /\ PointersAscend'
    BY <2>2 DEF VisitInv, ReaderAt, PointersInv, PointersAscend, IsShort
  <2> QED BY <2>9, <2>10, <2>11, <2>12, <2>13 DEF VisitInv
<1> QED BY <1>a, <1>b

(* A byte of a seek that is there is a natural. *)
LEMMA SeekByte ==
  ASSUME VisitInv, NEW width \in Nat, Seek2Is(width), NEW i \in 0 .. width - 1
  PROVE  table[ptr + i] \in Nat
  BY TableFacts DEF VisitInv, Seek2Is

LEMMA Seek2Nat ==
  ASSUME VisitInv, NEW width \in 1 .. 4, Seek2Is(width)
  PROVE  /\ Seek2(width) \in Nat
         /\ Ahead(width + 1)
<1> DEFINE byte(i) == IF i < width THEN table[ptr + i] ELSE 0
<1>1. \A i \in 0 .. 3 : byte(i) \in Nat
  <2> SUFFICES ASSUME NEW i \in 0 .. 3
               PROVE  byte(i) \in Nat
    OBVIOUS
  <2>1. CASE i < width
    BY <2>1, SeekByte
  <2>2. CASE ~(i < width)
    BY <2>2
  <2> QED BY <2>1, <2>2
<1>2. Seek2(width)
        = (byte(0) + Base * (byte(1) + Base * (byte(2) + Base * byte(3)))) \div 4
  BY DEF Seek2
<1> HIDE DEF byte
<1>3. byte(0) \in Nat /\ byte(1) \in Nat /\ byte(2) \in Nat /\ byte(3) \in Nat
  BY <1>1
<1>4. Base * byte(3) \in Nat
  BY <1>3, TimesNat, TopIs
<1>5. Base * (byte(2) + Base * byte(3)) \in Nat
  <2>1. byte(2) + Base * byte(3) \in Nat
    BY <1>3, <1>4
  <2> QED BY <2>1, TimesNat, TopIs
<1>6. Base * (byte(1) + Base * (byte(2) + Base * byte(3))) \in Nat
  <2>1. byte(1) + Base * (byte(2) + Base * byte(3)) \in Nat
    BY <1>3, <1>5
  <2> QED BY <2>1, TimesNat, TopIs
<1>7. byte(0) + Base * (byte(1) + Base * (byte(2) + Base * byte(3))) \in Nat
  BY <1>3, <1>6
<1>8. Seek2(width) \in Nat
  <2> PICK x \in Nat : x = byte(0) + Base * (byte(1) + Base * (byte(2) + Base * byte(3)))
    BY <1>7
  <2>1. Seek2(width) = x \div 4
    BY <1>2
  <2> QED BY <2>1
<1> QED BY <1>8 DEF Seek2Is

LEMMA Seek3Nat ==
  ASSUME VisitInv, NEW width \in Nat \ {0}, Seek3Is(width)
  PROVE  /\ Top * (width - 1) + table[ptr + width - 1] \in Nat
         /\ table[ptr] # 0 => Top * (width - 1) + table[ptr + width - 1] > 0
         /\ Top * (width - 1) + table[ptr + width - 1] <= Top * width
         /\ Ahead(width + 1)
<1>1. table[ptr + width - 1] \in 0 .. Top - 1 /\ Top \in Nat /\ Top >= 3
  BY TopIs DEF Seek3Is
<1>0. Top * width = Top * (width - 1) + Top /\ Top * width \in Nat /\ Top * (width - 1) \in Nat
  BY <1>1, TimesNat
<1>2. CASE width = 1
  <2>1. Top * (width - 1) = 0
    BY <1>1, <1>2
  <2>2. ptr + width - 1 = ptr
    BY <1>2, TableFacts DEF VisitInv
  <2> QED BY <1>0, <1>1, <2>1, <2>2 DEF Seek3Is
<1>3. CASE width > 1
  <2> PICK k \in Nat : width - 1 = k + 1
    BY <1>3
  <2>1. Top * (width - 1) = Top * k + Top
    BY <1>1
  <2>2. Top * k \in Nat
    BY <1>1, TimesNat
  <2> QED BY <1>0, <1>1, <2>1, <2>2 DEF Seek3Is
<1> QED BY <1>2, <1>3

LEMMA ReferenceVisits ==
  ASSUME VisitInv,
         \/ \E width \in 1 .. Len(table) : Reference3(width)
         \/ \E width \in 1 .. 4 : Reference2(width)
  PROVE  VisitInv'
<1>1. ASSUME NEW width \in 1 .. Len(table), Reference3(width)
      PROVE  VisitInv'
  <2>1. width \in Nat \ {0}
    BY <1>1, TableFacts DEF VisitInv
  <2>2. PICK seek : seek = Top * (width - 1) + table[ptr + width - 1]
    OBVIOUS
  <2>3. pc = "references" /\ version = 3 /\ Seek3Is(width) /\ Refer(seek, width)
    BY <1>1, <2>2 DEF Reference3
  <2>4. seek \in Nat /\ (table[ptr] # 0 => seek > 0) /\ seek <= Top * width /\ Ahead(width + 1)
    BY <2>1, <2>2, <2>3, Seek3Nat
  <2> QED BY <2>1, <2>3, <2>4, ReferVisits
<1>2. ASSUME NEW width \in 1 .. 4, Reference2(width)
      PROVE  VisitInv'
  <2>2. PICK seek : seek = Seek2(width)
    OBVIOUS
  <2>3. pc = "references" /\ version # 3 /\ Seek2Is(width) /\ Refer(seek, width)
    BY <1>2, <2>2 DEF Reference2
  <2>4. seek \in Nat /\ Ahead(width + 1)
    BY <2>2, <2>3, Seek2Nat
  <2> QED BY <2>3, <2>4, ReferVisits
<1> QED BY <1>1, <1>2

LEMMA ReadTableVisits ==
  ASSUME VisitInv, ReadTable
  PROVE  VisitInv'
  BY StartVisits, CountVisits, ReadSymbolVisits, NoMoreSymbolsVisits, ReferenceVisits,
     LostVisits DEF ReadTable, NoReference

(* A table may begin at any byte, even one that is not there. *)
LEMMA BeginVisits ==
  ASSUME VisitInv, NEW i \in Int, NEW n \in Nat, Begin(i, n)
  PROVE  VisitInv'
<1>1. TableTypeOK'
  BY DEF VisitInv, TableTypeOK, Begin, FirstWord, file
<1>2. ReaderAt' /\ PointersInv' /\ LinksReached' /\ LinkedWithin'
  BY DEF VisitInv, ReaderAt, PointersInv, LinksReached, LinkedWithin, Begin, FirstWord, file
<1>3. PointersAscend' /\ EntriesBegun' /\ LinksAscend'
  BY DEF VisitInv, PointersAscend, EntriesBegun, LinksAscend, IsShort, Begin, file
<1> QED BY <1>1, <1>2, <1>3 DEF VisitInv

(* Nothing is kept of a table that has been read. *)
LEMMA NothingRead ==
  ASSUME Idle, version \in Versions, table \in Seq(Int),
         \A i \in DOMAIN table : table[i] < Base, fits \in BOOLEAN
  PROVE  VisitInv
<1>1. TableTypeOK
  <2>1. Len(table) \in Nat /\ 1 \in 1 .. Len(table) + 1
    OBVIOUS
  <2>2. << >> \in Seq(Nat) /\ << >> \in Seq(Nat \X Nat)
    OBVIOUS
  <2>3. ptr \in from .. Len(table) + 1
    BY <2>1 DEF Idle
  <2>4. {from, ptr} \subseteq Int /\ word \in Int /\ limit \in Nat
    BY DEF Idle
  <2>6. fixing \in BOOLEAN /\ pc = "idle"
    BY DEF Idle
  <2>5. pointers \in Seq(Nat) /\ symbols \in Seq(Nat) /\ links \in Seq(Nat \X Nat)
    BY <2>2 DEF Idle
  <2> QED BY <2>3, <2>4, <2>5, <2>6 DEF TableTypeOK
<1>2. ReaderAt /\ PointersInv /\ LinksReached /\ LinkedWithin
  BY DEF Idle, ReaderAt, PointersInv, LinksReached, LinkedWithin
<1>3. PointersAscend /\ EntriesBegun /\ LinksAscend
  BY DEF Idle, PointersAscend, EntriesBegun, LinksAscend
<1> QED BY <1>1, <1>2, <1>3 DEF VisitInv

LEMMA EndVisits ==
  ASSUME VisitInv, End
  PROVE  VisitInv'
<1>1. TableTypeOK'
  <2>1. Len(table) \in Nat /\ 1 \in 1 .. Len(table) + 1
    BY TableFacts DEF VisitInv
  <2>2. << >> \in Seq(Nat) /\ << >> \in Seq(Nat \X Nat)
    OBVIOUS
  <2>3. ptr' \in from' .. Len(table') + 1
    BY <2>1 DEF End, file
  <2>4. {from', ptr'} \subseteq Int /\ word' \in Int /\ pc' = "idle" /\ limit' \in Nat
    BY DEF End
  <2>6. fixing' \in BOOLEAN
    BY DEF End
  <2>5. pointers' \in Seq(Nat) /\ symbols' \in Seq(Nat) /\ links' \in Seq(Nat \X Nat)
    BY <2>2 DEF End
  <2> QED BY <2>3, <2>4, <2>5, <2>6 DEF VisitInv, TableTypeOK, End, file
<1>2. ReaderAt' /\ PointersInv' /\ LinksReached' /\ LinkedWithin'
  BY DEF ReaderAt, PointersInv, LinksReached, LinkedWithin, End
<1>3. PointersAscend' /\ EntriesBegun' /\ LinksAscend'
  BY DEF PointersAscend, EntriesBegun, LinksAscend, End
<1> QED BY <1>1, <1>2, <1>3 DEF VisitInv

LEMMA VisitStays ==
  ASSUME VisitInv, UNCHANGED reading
  PROVE  VisitInv'
  BY DEF VisitInv, reading, file, TableTypeOK, ReaderAt, PointersInv, Ascends, PointersAscend,
         EntriesBegun, LinksReached, Reached, LinksAscend, LinkedWithin, IsShort, Near

-----------------------------------------------------------------------------
(* Tables as they are written                                              *)

(* What is said of a table without the segment it is for. *)
IsWritten(v, t) ==
  /\ t.bounds \in Seq(Nat) /\ Ascending(t.bounds)
  /\ Len(t.bounds) % 2 = 0
  /\ t.bounds # << >> => FirstWord(v) < t.bounds[1]
  /\ t.symbols \in Seq([name : Nat \ {0}, words : Seq(Nat)])
  /\ \A k \in DOMAIN t.symbols :
       LET words == t.symbols[k].words
       IN /\ words # << >> /\ Ascending(words)
          /\ v # 3 => \A j \in DOMAIN words : 4 * Gap(words, j, 0) < Wrap


(* A row in which each number is below the next ascends throughout. *)
LEMMA AscendsThroughout ==
  ASSUME NEW s \in Seq(Nat), Ascending(s)
  PROVE  \A i, j \in 1 .. Len(s) : i < j => s[i] < s[j]
<1>1. PICK n \in Nat : n = Len(s)
  OBVIOUS
<1>2. \A i \in 1 .. n : s[i] \in Nat
  BY <1>1
<1>3. \A i \in 1 .. n - 1 : s[i] < s[i + 1]
  BY <1>1 DEF Ascending
<1> DEFINE S == {d \in Nat : \A i \in 1 .. n : i + d + 1 \in 1 .. n => s[i] < s[i + d + 1]}
<1>4. 0 \in S
  <2>1. \A i \in 1 .. n : i + 0 + 1 = i + 1 /\ (i + 1 \in 1 .. n => i \in 1 .. n - 1)
    BY <1>1
  <2> QED BY <1>3, <2>1
<1>5. ASSUME NEW d \in Nat, d \in S
      PROVE  d + 1 \in S
  <2> SUFFICES ASSUME NEW i \in 1 .. n, i + (d + 1) + 1 \in 1 .. n
               PROVE  s[i] < s[i + (d + 1) + 1]
    OBVIOUS
  <2>1. PICK k \in Nat : k = i + d + 1
    OBVIOUS
  <2>2. k \in 1 .. n - 1 /\ k \in 1 .. n /\ k + 1 \in 1 .. n /\ i + (d + 1) + 1 = k + 1
    BY <1>1, <2>1
  <2>3. s[i] < s[k] /\ s[k] < s[k + 1]
    BY <1>3, <1>5, <2>1, <2>2
  <2>4. s[i] \in Nat /\ s[k] \in Nat /\ s[k + 1] \in Nat
    BY <1>2, <2>2
  <2> QED BY <2>2, <2>3, <2>4
<1>6. Nat \subseteq S
  <2> HIDE DEF S
  <2> QED BY <1>4, <1>5, NatSetInduction
<1> SUFFICES ASSUME NEW i \in 1 .. n, NEW j \in 1 .. n, i < j PROVE s[i] < s[j]
  BY <1>1
<1>7. PICK d \in Nat : d = j - i - 1
  OBVIOUS
<1>8. d \in S
  <2> HIDE DEF S
  <2> QED BY <1>6
<1>9. j = i + d + 1
  BY <1>7
<1> QED BY <1>8, <1>9

(* From one word of a row to the next. *)
LEMMA GapOfRow ==
  ASSUME NEW s \in Seq(Nat), Ascending(s), NEW first \in Int, NEW i \in 1 .. Len(s),
         first <= s[1]
  PROVE  /\ Gap(s, i, first) \in Nat
         /\ s[i] = (IF i = 1 THEN first ELSE s[i - 1]) + Gap(s, i, first)
         /\ i > 1 \/ first < s[1] => Gap(s, i, first) > 0
<1>1. CASE i = 1
  <2>1. PICK a \in Nat : a = s[1]
    BY <1>1
  <2>2. Gap(s, 1, first) = a - first
    BY <2>1 DEF Gap
  <2>3. a - first \in Nat /\ a = first + (a - first) /\ (first < a => a - first > 0)
    BY <2>1
  <2> QED BY <1>1, <2>1, <2>2, <2>3
<1>2. CASE i # 1
  <2>1. PICK k \in 1 .. Len(s) - 1 : i = k + 1
    <3>1. i - 1 \in 1 .. Len(s) - 1 /\ i = (i - 1) + 1
      BY <1>2
    <3> QED BY <3>1
  <2>2. s[k] \in Nat /\ s[k + 1] \in Nat /\ s[k] < s[k + 1]
    BY DEF Ascending
  <2>3. Gap(s, i, first) = s[k + 1] - s[k] /\ i - 1 = k
    BY <1>2, <2>1 DEF Gap
  <2> QED BY <1>2, <2>1, <2>2, <2>3
<1> QED BY <1>1, <1>2

(* A seek of some words does not begin with a zero, which would end a row.  *)
LEMMA NumberBegins ==
  ASSUME NEW n \in Nat
  PROVE  /\ Number(n) \in Seq(Int) /\ Len(Number(n)) \in Nat \ {0}
         /\ Number(n)[1] \in Nat
         /\ n > 0 => Number(n)[1] # 0
<1>1. Number(n) \in Seq(Int) /\ Len(Number(n)) \in Nat \ {0}
  <2>1. PICK q \in Nat : q = n \div Top
    BY NumberBytes
  <2>2. Number(n) \in Seq(Int) /\ Len(Number(n)) = q + 1
    BY <2>1, NumberBytes
  <2> QED BY <2>2
<1>2. Top \in Nat /\ Top > 0
  BY TopIs
<1>3. Number(n)[1] = IF n < Top THEN n ELSE Top
  BY <1>2, NumberParts
<1> QED BY <1>1, <1>2, <1>3

Fits(v, n) == v # 3 => 4 * n < Wrap

LEMMA SeekBegins ==
  ASSUME NEW v, NEW n \in Nat, Fits(v, n)
  PROVE  /\ Seek(v, n) \in Seq(Int) /\ Len(Seek(v, n)) \in Nat \ {0}
         /\ n > 0 => Seek(v, n)[1] # 0
<1>1. CASE v = 3
  BY <1>1, NumberBegins DEF Seek
<1>2. CASE v # 3
  <2>1. /\ SeekBytes(n) \in Seq(Int) /\ Len(SeekBytes(n)) \in 1 .. 4
        /\ n > 0 => SeekBytes(n)[1] # 0
    BY <1>2, SeekBytesRead DEF Fits
  <2> QED BY <1>2, <2>1 DEF Seek
<1> QED BY <1>1, <1>2

-----------------------------------------------------------------------------
(* The parts of a table                                                    *)

LEMMA IsRow ==
  ASSUME NEW n \in Nat, NEW U, NEW f, f = [i \in 1 .. n |-> f[i]],
         \A i \in 1 .. n : f[i] \in U
  PROVE  f \in Seq(U) /\ Len(f) = n /\ DOMAIN f = 1 .. n
<1>1. f \in [1 .. n -> U]
  BY Zenon
<1>2. f \in Seq(U)
  BY <1>1, SeqDef
<1> QED BY <1>1, <1>2

Numbers(v, t) == [i \in DOMAIN t.bounds |-> Number(Gap(t.bounds, i, FirstWord(v)))]

Seeks(v, e) == [j \in DOMAIN e.words |-> Seek(v, Gap(e.words, j, 0))]

Entries(v, t) == [k \in DOMAIN t.symbols |-> Entry(v, t.symbols[k])]

(* The gaps that the numbers of a table are. *)
LEMMA BoundsOfTable ==
  ASSUME NEW v \in Versions, NEW t, IsWritten(v, t)
  PROVE  /\ t.bounds \in Seq(Nat) /\ Len(t.bounds) \in Nat
         /\ DOMAIN t.bounds = 1 .. Len(t.bounds)
         /\ Ascending(t.bounds)
         /\ FirstWord(v) \in Int
         /\ \A i \in 1 .. Len(t.bounds) :
              /\ t.bounds[i] \in Nat
              /\ Gap(t.bounds, i, FirstWord(v)) \in Nat \ {0}
              /\ t.bounds[i] = (IF i = 1 THEN FirstWord(v) ELSE t.bounds[i - 1])
                                 + Gap(t.bounds, i, FirstWord(v))
<1>1. t.bounds \in Seq(Nat) /\ Ascending(t.bounds) /\ FirstWord(v) \in Int
  BY DEF IsWritten, FirstWord
<1>2. PICK b \in Seq(Nat) : b = t.bounds
  BY <1>1
<1>3. PICK first \in Int : first = FirstWord(v)
  BY <1>1
<1>4. b # << >> => first < b[1]
  BY <1>2, <1>3 DEF IsWritten
<1>5. ASSUME NEW i \in 1 .. Len(b)
      PROVE  /\ b[i] \in Nat
             /\ Gap(b, i, first) \in Nat \ {0}
             /\ b[i] = (IF i = 1 THEN first ELSE b[i - 1]) + Gap(b, i, first)
  <2>1. b # << >> /\ b[1] \in Nat /\ b[i] \in Nat
    OBVIOUS
  <2>2. first < b[1] /\ first <= b[1]
    BY <1>4, <2>1
  <2>3. Ascending(b)
    BY <1>1, <1>2
  <2>4. /\ Gap(b, i, first) \in Nat
        /\ b[i] = (IF i = 1 THEN first ELSE b[i - 1]) + Gap(b, i, first)
        /\ Gap(b, i, first) > 0
    BY <2>2, <2>3, GapOfRow
  <2> QED BY <2>1, <2>4
<1> QED BY <1>1, <1>2, <1>3, <1>5

(* The same of the references of a symbol; the first may be to word 0.      *)
IsEntry(v, e) ==
  /\ e.name \in Nat \ {0}
  /\ e.words \in Seq(Nat) /\ Len(e.words) \in Nat \ {0}
  /\ DOMAIN e.words = 1 .. Len(e.words)
  /\ \A j \in 1 .. Len(e.words) :
       /\ e.words[j] \in Nat
       /\ Gap(e.words, j, 0) \in Nat /\ Fits(v, Gap(e.words, j, 0))
       /\ j > 1 => Gap(e.words, j, 0) > 0
       /\ e.words[j] = (IF j = 1 THEN 0 ELSE e.words[j - 1]) + Gap(e.words, j, 0)

LEMMA EntriesOfTable ==
  ASSUME NEW v \in Versions, NEW t, IsWritten(v, t)
  PROVE  /\ Len(t.symbols) \in Nat /\ DOMAIN t.symbols = 1 .. Len(t.symbols)
         /\ \A k \in 1 .. Len(t.symbols) : IsEntry(v, t.symbols[k])
<1> DEFINE E == [name : Nat \ {0}, words : Seq(Nat)]
<1>0. t.symbols \in Seq(E)
  BY DEF IsWritten
<1>1. \A e \in E : e.name \in Nat \ {0} /\ e.words \in Seq(Nat)
  OBVIOUS
<1> HIDE DEF E
<1>2. Len(t.symbols) \in Nat /\ DOMAIN t.symbols = 1 .. Len(t.symbols)
      /\ \A k \in 1 .. Len(t.symbols) : t.symbols[k] \in E
  BY <1>0
<1>3. ASSUME NEW k \in 1 .. Len(t.symbols)
      PROVE  IsEntry(v, t.symbols[k])
  <2>1. PICK w \in Seq(Nat) : w = t.symbols[k].words
    BY <1>1, <1>2
  <2>2. /\ w # << >> /\ Ascending(w)
        /\ v # 3 => \A j \in DOMAIN w : 4 * Gap(w, j, 0) < Wrap
    BY <1>2, <2>1 DEF IsWritten
  <2>3. Len(w) \in Nat \ {0} /\ DOMAIN w = 1 .. Len(w)
    BY <2>2
  <2>4. ASSUME NEW j \in 1 .. Len(w)
        PROVE  /\ w[j] \in Nat
               /\ Gap(w, j, 0) \in Nat /\ Fits(v, Gap(w, j, 0))
               /\ j > 1 => Gap(w, j, 0) > 0
               /\ w[j] = (IF j = 1 THEN 0 ELSE w[j - 1]) + Gap(w, j, 0)
    <3>1. w[1] \in Nat /\ w[j] \in Nat
      BY <2>3
    <3>2. 0 <= w[1]
      BY <3>1
    <3>3. /\ Gap(w, j, 0) \in Nat
          /\ w[j] = (IF j = 1 THEN 0 ELSE w[j - 1]) + Gap(w, j, 0)
          /\ j > 1 => Gap(w, j, 0) > 0
      BY <2>2, <3>2, GapOfRow
    <3>4. Fits(v, Gap(w, j, 0))
      BY <2>2, <2>3 DEF Fits
    <3> QED BY <3>1, <3>3, <3>4
  <2>5. t.symbols[k].name \in Nat \ {0}
    BY <1>1, <1>2
  <2> QED BY <2>1, <2>3, <2>4, <2>5 DEF IsEntry
<1> QED BY <1>2, <1>3

(* The numbers of a table, *)
LEMMA NumbersTyped ==
  ASSUME NEW v \in Versions, NEW t, IsWritten(v, t)
  PROVE  /\ Numbers(v, t) \in Seq(Seq(Int)) /\ Len(Numbers(v, t)) = Len(t.bounds)
         /\ \A i \in 1 .. Len(t.bounds) :
              Numbers(v, t)[i] = Number(Gap(t.bounds, i, FirstWord(v)))
<1> DEFINE U == Seq(Int)
           n == Len(t.bounds)
           f == Numbers(v, t)
<1>1. n \in Nat /\ DOMAIN t.bounds = 1 .. n
      /\ \A i \in 1 .. n : Gap(t.bounds, i, FirstWord(v)) \in Nat
  BY BoundsOfTable
<1>2. \A i \in 1 .. n : f[i] = Number(Gap(t.bounds, i, FirstWord(v)))
  BY <1>1 DEF Numbers
<1>3. \A i \in 1 .. n : f[i] \in U
  BY <1>1, <1>2, NumberBegins
<1>4. f = [i \in 1 .. n |-> f[i]]
  BY <1>1, <1>2 DEF Numbers
<1> HIDE DEF U, f, n
<1>5. f \in Seq(U) /\ Len(f) = n
  BY <1>1, <1>3, <1>4, IsRow
<1> QED BY <1>2, <1>5 DEF U, f, n

(* the seeks of an entry, *)
LEMMA SeeksTyped ==
  ASSUME NEW v \in Versions, NEW e, IsEntry(v, e)
  PROVE  /\ Seeks(v, e) \in Seq(Seq(Int)) /\ Len(Seeks(v, e)) = Len(e.words)
         /\ \A j \in 1 .. Len(e.words) : Seeks(v, e)[j] = Seek(v, Gap(e.words, j, 0))
<1> DEFINE U == Seq(Int)
           n == Len(e.words)
           f == Seeks(v, e)
<1>1. n \in Nat /\ DOMAIN e.words = 1 .. n
      /\ \A j \in 1 .. n : Gap(e.words, j, 0) \in Nat /\ Fits(v, Gap(e.words, j, 0))
  BY DEF IsEntry
<1>2. \A j \in 1 .. n : f[j] = Seek(v, Gap(e.words, j, 0))
  BY <1>1 DEF Seeks
<1>3. \A j \in 1 .. n : f[j] \in U
  BY <1>1, <1>2, SeekBegins
<1>4. f = [j \in 1 .. n |-> f[j]]
  BY <1>1, <1>2 DEF Seeks
<1> HIDE DEF U, f, n
<1>5. f \in Seq(U) /\ Len(f) = n
  BY <1>1, <1>3, <1>4, IsRow
<1> QED BY <1>2, <1>5 DEF U, f, n

LEMMA EntryTyped ==
  ASSUME NEW v \in Versions, NEW e, IsEntry(v, e)
  PROVE  /\ <<-e.name>> \in Seq(Int) /\ Len(<<-e.name>>) = 1 /\ <<-e.name>>[1] = -e.name
         /\ FlattenSeq(Seeks(v, e)) \in Seq(Int)
         /\ <<-e.name>> \o FlattenSeq(Seeks(v, e)) \in Seq(Int)
         /\ Entry(v, e) \in Seq(Int)
         /\ Entry(v, e) = (<<-e.name>> \o FlattenSeq(Seeks(v, e))) \o <<0>>
<1>1. PICK s \in Seq(Int) : s = FlattenSeq(Seeks(v, e))
  BY SeeksTyped, FlattenType
<1>2. PICK m \in Int : m = -e.name
  BY DEF IsEntry
<1>3. PICK h \in Seq(Int) : h = <<m>>
  <2>1. <<m>> \in Seq(Int)
    OBVIOUS
  <2> QED BY <2>1
<1>4. PICK z \in Seq(Int) : z = <<0>>
  <2>1. <<0>> \in Seq(Int)
    OBVIOUS
  <2> QED BY <2>1
<1>5. h \o s \in Seq(Int)
  BY ConcatProperties
<1>6. (h \o s) \o z \in Seq(Int)
  BY <1>5, ConcatProperties
<1>7. Entry(v, e) = (<<-e.name>> \o FlattenSeq(Seeks(v, e))) \o <<0>>
  BY Zenon DEF Entry, Seeks
<1>8. Len(h) = 1 /\ h[1] = m
  BY <1>3
<1> QED BY <1>1, <1>2, <1>3, <1>4, <1>5, <1>6, <1>7, <1>8, Zenon

(* the entries of a table, *)
LEMMA EntriesTyped ==
  ASSUME NEW v \in Versions, NEW t, IsWritten(v, t)
  PROVE  /\ Entries(v, t) \in Seq(Seq(Int)) /\ Len(Entries(v, t)) = Len(t.symbols)
         /\ \A k \in 1 .. Len(t.symbols) : Entries(v, t)[k] = Entry(v, t.symbols[k])
<1> DEFINE U == Seq(Int)
           n == Len(t.symbols)
           f == Entries(v, t)
<1>1. n \in Nat /\ DOMAIN t.symbols = 1 .. n
      /\ \A k \in 1 .. n : IsEntry(v, t.symbols[k])
  BY EntriesOfTable
<1>2. \A k \in 1 .. n : f[k] = Entry(v, t.symbols[k])
  BY <1>1 DEF Entries
<1>3. \A k \in 1 .. n : f[k] \in U
  BY <1>1, <1>2, EntryTyped
<1>4. f = [k \in 1 .. n |-> f[k]]
  BY <1>1, <1>2 DEF Entries
<1> HIDE DEF U, f, n
<1>5. f \in Seq(U) /\ Len(f) = n
  BY <1>1, <1>3, <1>4, IsRow
<1> QED BY <1>2, <1>5 DEF U, f, n

(* and the table. *)
LEMMA TableTyped ==
  ASSUME NEW v \in Versions, NEW t, IsWritten(v, t)
  PROVE  /\ FlattenSeq(Numbers(v, t)) \in Seq(Int) /\ FlattenSeq(Entries(v, t)) \in Seq(Int)
         /\ PointerTable(v, t.bounds) = FlattenSeq(Numbers(v, t)) \o <<0>>
         /\ SymbolTable(v, t.symbols) = FlattenSeq(Entries(v, t)) \o <<0>>
         /\ PointerTable(v, t.bounds) \in Seq(Int) /\ SymbolTable(v, t.symbols) \in Seq(Int)
         /\ Table(v, t) = PointerTable(v, t.bounds) \o SymbolTable(v, t.symbols)
         /\ Table(v, t) \in Seq(Int)
<1>1. PICK a \in Seq(Int), b \in Seq(Int) :
        a = FlattenSeq(Numbers(v, t)) /\ b = FlattenSeq(Entries(v, t))
  BY NumbersTyped, EntriesTyped, FlattenType
<1>2. PICK z \in Seq(Int) : z = <<0>>
  <2>1. <<0>> \in Seq(Int)
    OBVIOUS
  <2> QED BY <2>1
<1>3. PICK p \in Seq(Int), q \in Seq(Int) : p = a \o z /\ q = b \o z
  BY ConcatProperties
<1>4. p \o q \in Seq(Int)
  BY ConcatProperties
<1>5. PointerTable(v, t.bounds) = FlattenSeq(Numbers(v, t)) \o <<0>>
  BY Zenon DEF PointerTable, Numbers
<1>6. SymbolTable(v, t.symbols) = FlattenSeq(Entries(v, t)) \o <<0>>
  BY Zenon DEF SymbolTable, Entries
<1>7. Table(v, t) = PointerTable(v, t.bounds) \o SymbolTable(v, t.symbols)
  BY DEF Table
<1> QED BY <1>1, <1>2, <1>3, <1>4, <1>5, <1>6, <1>7, Zenon

-----------------------------------------------------------------------------
(* The bytes of a table; the heads of entries are below zero.              *)

Cell == {x \in Int : x < Base}

LEMMA CellsTyped ==
  ASSUME NEW s \in Seq(Int), \A i \in 1 .. Len(s) : s[i] < Base
  PROVE  s \in Seq(Cell)
<1>1. PICK n \in Nat : n = Len(s) /\ s = [i \in 1 .. n |-> s[i]]
  OBVIOUS
<1>2. \A i \in 1 .. n : s[i] \in Cell
  BY <1>1 DEF Cell
<1> QED BY <1>1, <1>2, IsRow

LEMMA NumberCells ==
  ASSUME NEW n \in Nat
  PROVE  Number(n) \in Seq(Cell)
<1>1. PICK q \in Nat : /\ q = n \div Top /\ Len(Number(n)) = q + 1 /\ Number(n)[q + 1] = n % Top
                       /\ \A i \in 1 .. q : Number(n)[i] = Top
  BY NumberBytes
<1>2. Number(n) \in Seq(Int)
  BY NumberBegins
<1>3. n % Top < Base /\ Top < Base
  BY TopIs, Divided
<1>4. \A i \in 1 .. q + 1 : i \in 1 .. q \/ i = q + 1
  OBVIOUS
<1> QED BY <1>1, <1>2, <1>3, <1>4, CellsTyped

LEMMA SeekCells ==
  ASSUME NEW v, NEW n \in Nat, Fits(v, n)
  PROVE  Seek(v, n) \in Seq(Cell)
<1>1. CASE v = 3
  BY <1>1, NumberCells DEF Seek
<1>2. CASE v # 3
  <2>1. SeekBytes(n) \in Seq(Int) /\ \A i \in 1 .. Len(SeekBytes(n)) : SeekBytes(n)[i] < Base
    BY <1>2, SeekBytesRead DEF Fits
  <2> QED BY <1>2, <2>1, CellsTyped DEF Seek
<1> QED BY <1>1, <1>2

LEMMA TableCells ==
  ASSUME NEW v \in Versions, NEW t, IsWritten(v, t)
  PROVE  Table(v, t) \in Seq(Cell)
<1> DEFINE U == Seq(Cell)
<1>z. PICK z \in U : z = <<0>>
  <2>1. <<0>> \in Seq(Int) /\ \A i \in 1 .. Len(<<0>>) : <<0>>[i] < Base
    BY TopIs
  <2> QED BY <2>1, CellsTyped
<1>1. FlattenSeq(Numbers(v, t)) \in U
  <2>1. /\ Numbers(v, t) \in Seq(Seq(Int)) /\ Len(Numbers(v, t)) = Len(t.bounds)
        /\ \A i \in 1 .. Len(t.bounds) : Numbers(v, t)[i] = Number(Gap(t.bounds, i, FirstWord(v)))
    BY NumbersTyped
  <2>2. PICK n \in Nat : n = Len(t.bounds) /\ Numbers(v, t) = [i \in 1 .. n |-> Numbers(v, t)[i]]
    BY <2>1
  <2>3. ASSUME NEW i \in 1 .. n
        PROVE  Numbers(v, t)[i] \in U
    <3>1. PICK g \in Nat : g = Gap(t.bounds, i, FirstWord(v))
      BY <2>1, <2>2, BoundsOfTable
    <3> QED BY <2>1, <2>2, <3>1, NumberCells
  <2> HIDE DEF U
  <2>4. Numbers(v, t) \in Seq(U)
    BY <2>2, <2>3, IsRow
  <2> QED BY <2>4, FlattenType DEF U
<1>2. FlattenSeq(Entries(v, t)) \in U
  <2>1. /\ Entries(v, t) \in Seq(Seq(Int)) /\ Len(Entries(v, t)) = Len(t.symbols)
        /\ \A k \in 1 .. Len(t.symbols) : Entries(v, t)[k] = Entry(v, t.symbols[k])
    BY EntriesTyped
  <2>2. PICK n \in Nat : n = Len(t.symbols) /\ Entries(v, t) = [k \in 1 .. n |-> Entries(v, t)[k]]
    BY <2>1
  <2>3. ASSUME NEW k \in 1 .. n
        PROVE  Entries(v, t)[k] \in U
    <3>1. PICK e : e = t.symbols[k] /\ IsEntry(v, e)
      BY <2>2, EntriesOfTable
    <3>2. FlattenSeq(Seeks(v, e)) \in U
      <4>1. /\ Seeks(v, e) \in Seq(Seq(Int)) /\ Len(Seeks(v, e)) = Len(e.words)
            /\ \A j \in 1 .. Len(e.words) : Seeks(v, e)[j] = Seek(v, Gap(e.words, j, 0))
        BY <3>1, SeeksTyped
      <4>2. PICK m \in Nat : m = Len(e.words) /\ Seeks(v, e) = [j \in 1 .. m |-> Seeks(v, e)[j]]
        BY <4>1
      <4>3. \A j \in 1 .. m : Gap(e.words, j, 0) \in Nat /\ Fits(v, Gap(e.words, j, 0))
        BY <3>1, <4>2 DEF IsEntry
      <4>4. \A j \in 1 .. m : Seeks(v, e)[j] \in U
        BY <4>1, <4>2, <4>3, SeekCells
      <4> HIDE DEF U
      <4>5. Seeks(v, e) \in Seq(U)
        BY <4>2, <4>4, IsRow
      <4> QED BY <4>5, FlattenType DEF U
    <3>3. PICK h \in U : h = <<-e.name>>
      <4>1. <<-e.name>> \in Seq(Int) /\ \A i \in 1 .. Len(<<-e.name>>) : <<-e.name>>[i] < Base
        BY <3>1, TopIs DEF IsEntry
      <4> QED BY <4>1, CellsTyped
    <3>4. (h \o FlattenSeq(Seeks(v, e))) \o z \in U
      BY <3>2, <3>3, ConcatProperties
    <3>5. Entry(v, e) = (<<-e.name>> \o FlattenSeq(Seeks(v, e))) \o <<0>>
      BY <3>1, EntryTyped
    <3>6. Entry(v, e) \in U
      BY <1>z, <3>3, <3>4, <3>5, Zenon
    <3> QED BY <2>1, <2>2, <3>1, <3>6
  <2> HIDE DEF U
  <2>4. Entries(v, t) \in Seq(U)
    BY <2>2, <2>3, IsRow
  <2> QED BY <2>4, FlattenType DEF U
<1>3. FlattenSeq(Numbers(v, t)) \o z \in U /\ FlattenSeq(Entries(v, t)) \o z \in U
  BY <1>1, <1>2, ConcatProperties
<1>4. PointerTable(v, t.bounds) \in U /\ SymbolTable(v, t.symbols) \in U
  BY <1>z, <1>3, TableTyped, Zenon
<1>5. PointerTable(v, t.bounds) \o SymbolTable(v, t.symbols) \in U
  BY <1>4, ConcatProperties
<1> QED BY <1>5, TableTyped, Zenon

-----------------------------------------------------------------------------
(* Where the parts of a table are                                          *)

LEMMA OneStands ==
  ASSUME NEW c, Len(c) \in Nat, NEW p \in Int, NEW x \in Int, StandsAt(c, p, <<x>>)
  PROVE  p \in 1 .. Len(c) /\ c[p] = x
<1>1. Len(<<x>>) = 1 /\ <<x>>[1] = x
  OBVIOUS
<1>2. 1 <= p /\ p + 1 - 1 <= Len(c) /\ c[p + 1 - 1] = x
  <2>1. 1 \in 1 .. Len(<<x>>)
    BY <1>1
  <2> QED BY <1>1, <2>1 DEF StandsAt
<1>3. p + 1 - 1 = p
  OBVIOUS
<1> QED BY <1>2, <1>3

SeekAt(v, e, at) == PlacesOf(Seeks(v, e), at + 1)

EntryStands(c, v, e, at, P) ==
  LET n == Len(e.words)
  IN /\ at \in 1 .. Len(c) /\ c[at] = -e.name
     /\ P[1] = at + 1
     /\ \A j \in 1 .. n + 1 : P[j] \in Int
     /\ \A j \in 1 .. n : /\ StandsAt(c, P[j], Seek(v, Gap(e.words, j, 0)))
                          /\ P[j + 1] = P[j] + Len(Seek(v, Gap(e.words, j, 0)))
     /\ P[n + 1] \in 1 .. Len(c) /\ c[P[n + 1]] = 0
     /\ at + Len(Entry(v, e)) = P[n + 1] + 1

LEMMA EntryIsThere ==
  ASSUME NEW v \in Versions, NEW e, IsEntry(v, e), NEW c, Len(c) \in Nat, NEW at \in Int,
         StandsAt(c, at, Entry(v, e))
  PROVE  EntryStands(c, v, e, at, SeekAt(v, e, at))
<1>1. PICK h \in Seq(Int), s \in Seq(Int), z \in Seq(Int) :
        h = <<-e.name>> /\ s = FlattenSeq(Seeks(v, e)) /\ z = <<0>>
  <2>1. <<0>> \in Seq(Int)
    OBVIOUS
  <2> QED BY <2>1, EntryTyped
<1>2. Entry(v, e) = (h \o s) \o z /\ h \o s \in Seq(Int) /\ -e.name \in Int
  <2>1. -e.name \in Int
    BY DEF IsEntry
  <2>2. h \o s \in Seq(Int)
    BY ConcatProperties
  <2> QED BY <1>1, <2>1, <2>2, EntryTyped, Zenon
<1>3. Len(h) = 1 /\ Len(z) = 1 /\ Len(s) \in Nat /\ Len(h \o s) = Len(s) + 1
      /\ Len(Entry(v, e)) = Len(s) + 2
  <2>1. Len(h) = 1 /\ Len(z) = 1
    BY <1>1
  <2>2. Len(h \o s) = Len(h) + Len(s) /\ Len((h \o s) \o z) = Len(h \o s) + Len(z)
        /\ Len(s) \in Nat
    BY <1>2, ConcatProperties
  <2> QED BY <1>2, <2>1, <2>2
<1>4. StandsAt(c, at, h \o s) /\ StandsAt(c, at + Len(h \o s), z)
  BY <1>2, StandParts
<1>5. StandsAt(c, at, h) /\ StandsAt(c, at + Len(h), s)
  BY <1>4, StandParts
<1>6. at \in 1 .. Len(c) /\ c[at] = -e.name
  BY <1>1, <1>2, <1>5, OneStands
<1>7. PICK d \in Int : d = at + (Len(s) + 1)
  BY <1>3
<1>8. d \in 1 .. Len(c) /\ c[d] = 0
  <2>1. StandsAt(c, d, <<0>>)
    BY <1>1, <1>3, <1>4, <1>7
  <2> QED BY <2>1, OneStands
<1> DEFINE ss == Seeks(v, e)
           P == SeekAt(v, e, at)
<1>9. /\ ArePlaces(P, ss, at + 1)
      /\ \A j \in 1 .. Len(ss) + 1 : P[j] \in Int
      /\ \A j \in 1 .. Len(ss) : StandsAt(c, P[j], ss[j])
      /\ P[Len(ss) + 1] = (at + 1) + Len(s)
  <2>1. StandsAt(c, at + 1, FlattenSeq(ss)) /\ at + 1 \in Int /\ ss \in Seq(Seq(Int))
    BY <1>1, <1>3, <1>5, SeeksTyped
  <2>2. s = FlattenSeq(ss)
    BY <1>1
  <2> HIDE DEF ss
  <2> QED BY <2>1, <2>2, PlacesOfParts DEF SeekAt, ss
<1>10. Len(ss) = Len(e.words)
       /\ \A j \in 1 .. Len(e.words) : ss[j] = Seek(v, Gap(e.words, j, 0))
  BY SeeksTyped
<1> HIDE DEF ss, P
<1>11. P[Len(e.words) + 1] = d
  BY <1>3, <1>7, <1>9, <1>10
<1>12. P[1] = at + 1 /\ \A j \in 1 .. Len(ss) : P[j + 1] = P[j] + Len(ss[j])
  BY <1>9 DEF ArePlaces
<1>13. at + Len(Entry(v, e)) = d + 1
  BY <1>3, <1>7
<1> QED BY <1>6, <1>8, <1>9, <1>10, <1>11, <1>12, <1>13 DEF EntryStands, P

NumberAt(v, t, at) == PlacesOf(Numbers(v, t), at)

EntryAt(v, t, at) == PlacesOf(Entries(v, t), at + Len(PointerTable(v, t.bounds)))

TableStands(c, v, t, at, N, E) ==
  LET n == Len(t.bounds)
      m == Len(t.symbols)
  IN /\ N[1] = at
     /\ \A i \in 1 .. n + 1 : N[i] \in Int
     /\ \A i \in 1 .. n : /\ StandsAt(c, N[i], Number(Gap(t.bounds, i, FirstWord(v))))
                          /\ N[i + 1] = N[i] + Len(Number(Gap(t.bounds, i, FirstWord(v))))
     /\ N[n + 1] \in 1 .. Len(c) /\ c[N[n + 1]] = 0
     /\ E[1] = N[n + 1] + 1
     /\ \A k \in 1 .. m + 1 : E[k] \in Int
     /\ \A k \in 1 .. m : /\ StandsAt(c, E[k], Entry(v, t.symbols[k]))
                          /\ E[k + 1] = E[k] + Len(Entry(v, t.symbols[k]))
     /\ E[m + 1] \in 1 .. Len(c) /\ c[E[m + 1]] = 0
     /\ E[m + 1] = at + Len(Table(v, t)) - 1

LEMMA TableIsThere ==
  ASSUME NEW v \in Versions, NEW t, IsWritten(v, t), NEW c, Len(c) \in Nat, NEW at \in Int,
         StandsAt(c, at, Table(v, t))
  PROVE  TableStands(c, v, t, at, NumberAt(v, t, at), EntryAt(v, t, at))
<1> DEFINE ns == Numbers(v, t)
           es == Entries(v, t)
           N == NumberAt(v, t, at)
           E == EntryAt(v, t, at)
<1>1. PICK a \in Seq(Int), b \in Seq(Int), z \in Seq(Int) :
        a = FlattenSeq(ns) /\ b = FlattenSeq(es) /\ z = <<0>>
  <2>1. <<0>> \in Seq(Int)
    OBVIOUS
  <2> QED BY <2>1, TableTyped
<1>2. PICK p \in Seq(Int), q \in Seq(Int) :
        /\ p = PointerTable(v, t.bounds) /\ q = SymbolTable(v, t.symbols)
        /\ p = a \o z /\ q = b \o z /\ Table(v, t) = p \o q
  BY <1>1, TableTyped, Zenon
<1>3. PICK la \in Nat, lb \in Nat : la = Len(a) /\ lb = Len(b)
  OBVIOUS
<1>4. Len(p) = la + 1 /\ Len(q) = lb + 1 /\ Len(Table(v, t)) = (la + 1) + (lb + 1)
  <2>1. Len(z) = 1
    BY <1>1
  <2>2. Len(a \o z) = Len(a) + Len(z) /\ Len(b \o z) = Len(b) + Len(z)
        /\ Len(p \o q) = Len(p) + Len(q)
    BY ConcatProperties
  <2> QED BY <1>2, <1>3, <2>1, <2>2
<1>5. StandsAt(c, at, a \o z) /\ StandsAt(c, at + (la + 1), b \o z)
  <2>1. StandsAt(c, at, p \o q)
    BY <1>2
  <2>2. StandsAt(c, at, p) /\ StandsAt(c, at + Len(p), q)
    BY <2>1, StandParts
  <2> QED BY <1>2, <1>4, <2>2, Zenon
<1>6. StandsAt(c, at, a) /\ StandsAt(c, at + la, <<0>>)
  BY <1>1, <1>3, <1>5, StandParts
<1>7. StandsAt(c, at + (la + 1), b) /\ StandsAt(c, (at + (la + 1)) + lb, <<0>>)
  <2>1. PICK g \in Int : g = at + (la + 1)
    OBVIOUS
  <2>2. StandsAt(c, g, b) /\ StandsAt(c, g + Len(b), z)
    BY <1>5, <2>1, StandParts
  <2> QED BY <1>1, <1>3, <2>1, <2>2
<1>8. at + la \in 1 .. Len(c) /\ c[at + la] = 0
  <2>1. at + la \in Int
    OBVIOUS
  <2> QED BY <1>6, <2>1, OneStands
<1>9. (at + (la + 1)) + lb \in 1 .. Len(c) /\ c[(at + (la + 1)) + lb] = 0
  <2>1. (at + (la + 1)) + lb \in Int
    OBVIOUS
  <2> QED BY <1>7, <2>1, OneStands
<1>10. /\ ArePlaces(N, ns, at)
       /\ \A i \in 1 .. Len(ns) + 1 : N[i] \in Int
       /\ \A i \in 1 .. Len(ns) : StandsAt(c, N[i], ns[i])
       /\ N[Len(ns) + 1] = at + la
  <2>1. ns \in Seq(Seq(Int))
    BY NumbersTyped
  <2>2. StandsAt(c, at, FlattenSeq(ns)) /\ Len(FlattenSeq(ns)) = la
    BY <1>1, <1>3, <1>6
  <2> HIDE DEF ns
  <2> QED BY <2>1, <2>2, PlacesOfParts DEF NumberAt, ns
<1>11. /\ ArePlaces(E, es, at + (la + 1))
       /\ \A k \in 1 .. Len(es) + 1 : E[k] \in Int
       /\ \A k \in 1 .. Len(es) : StandsAt(c, E[k], es[k])
       /\ E[Len(es) + 1] = (at + (la + 1)) + lb
  <2>1. es \in Seq(Seq(Int)) /\ at + (la + 1) \in Int
    BY EntriesTyped
  <2>2. StandsAt(c, at + (la + 1), FlattenSeq(es)) /\ Len(FlattenSeq(es)) = lb
    BY <1>1, <1>3, <1>7
  <2>3. E = PlacesOf(es, at + (la + 1))
    BY <1>2, <1>4 DEF EntryAt
  <2> HIDE DEF es, E
  <2> QED BY <2>1, <2>2, <2>3, PlacesOfParts
<1>12. Len(ns) = Len(t.bounds)
       /\ \A i \in 1 .. Len(t.bounds) : ns[i] = Number(Gap(t.bounds, i, FirstWord(v)))
  BY NumbersTyped
<1>13. Len(es) = Len(t.symbols)
       /\ \A k \in 1 .. Len(t.symbols) : es[k] = Entry(v, t.symbols[k])
  BY EntriesTyped
<1> HIDE DEF ns, es, N, E
<1>14. /\ N[1] = at
       /\ \A i \in 1 .. Len(ns) : N[i + 1] = N[i] + Len(ns[i])
       /\ E[1] = at + (la + 1)
       /\ \A k \in 1 .. Len(es) : E[k + 1] = E[k] + Len(es[k])
  BY <1>10, <1>11 DEF ArePlaces
<1>15. E[1] = N[Len(ns) + 1] + 1
  <2>1. at + (la + 1) = (at + la) + 1
    OBVIOUS
  <2> QED BY <1>10, <1>14, <2>1
<1>16. E[Len(es) + 1] = at + Len(Table(v, t)) - 1
  <2>1. (at + (la + 1)) + lb = at + ((la + 1) + (lb + 1)) - 1
    OBVIOUS
  <2> QED BY <1>4, <1>11, <2>1
<1>17. /\ \A i \in 1 .. Len(t.bounds) :
            /\ StandsAt(c, N[i], Number(Gap(t.bounds, i, FirstWord(v))))
            /\ N[i + 1] = N[i] + Len(Number(Gap(t.bounds, i, FirstWord(v))))
       /\ \A k \in 1 .. Len(t.symbols) :
            /\ StandsAt(c, E[k], Entry(v, t.symbols[k]))
            /\ E[k + 1] = E[k] + Len(Entry(v, t.symbols[k]))
  BY <1>10, <1>11, <1>12, <1>13, <1>14, Zenon
<1>18. /\ N[Len(t.bounds) + 1] \in 1 .. Len(c) /\ c[N[Len(t.bounds) + 1]] = 0
       /\ E[Len(t.symbols) + 1] \in 1 .. Len(c) /\ c[E[Len(t.symbols) + 1]] = 0
  BY <1>8, <1>9, <1>10, <1>11, <1>12, <1>13, Zenon
<1>19. /\ \A i \in 1 .. Len(t.bounds) + 1 : N[i] \in Int
       /\ \A k \in 1 .. Len(t.symbols) + 1 : E[k] \in Int
  BY <1>10, <1>11, <1>12, <1>13, Zenon
<1>20. E[1] = N[Len(t.bounds) + 1] + 1
       /\ E[Len(t.symbols) + 1] = at + Len(Table(v, t)) - 1
  BY <1>12, <1>13, <1>15, <1>16, Zenon
<1> QED BY <1>14, <1>17, <1>18, <1>19, <1>20, Zenon DEF TableStands, N, E

LEMMA StandsFirst ==
  ASSUME NEW c, Len(c) \in Nat, NEW p \in Int, NEW s, Len(s) \in Nat \ {0}, StandsAt(c, p, s)
  PROVE  c[p] = s[1] /\ 1 <= p /\ p + Len(s) - 1 <= Len(c) /\ p \in 1 .. Len(c)
<1>1. 1 \in 1 .. Len(s) /\ p + 1 - 1 = p
  OBVIOUS
<1> QED BY <1>1 DEF StandsAt

-----------------------------------------------------------------------------
(* The words of the runs of a table                                        *)

InRuns(t, w) ==
  \E n \in DOMAIN t.bounds : n % 2 = 1 /\ t.bounds[n] <= w /\ w < t.bounds[n + 1]

LEMMA RunsOfTable ==
  ASSUME NEW v \in Versions, NEW t, IsWritten(v, t), NEW w \in Int, InRuns(t, w)
  PROVE  /\ w >= 0
         /\ Len(t.bounds) > 0 /\ w < t.bounds[Len(t.bounds)]
<1>1. PICK b \in Seq(Nat) : b = t.bounds /\ Ascending(b) /\ Len(b) % 2 = 0
  BY DEF IsWritten
<1>2. PICK l \in Nat : l = Len(b)
  OBVIOUS
<1>3. DOMAIN b = 1 .. l /\ \A i \in 1 .. l : b[i] \in Nat
  BY <1>2
<1>4. PICK n \in 1 .. l : n % 2 = 1 /\ b[n] <= w /\ w < b[n + 1]
  BY <1>1, <1>3 DEF InRuns
<1>5. n + 1 <= l
  <2>1. l % 2 = 0
    BY <1>1, <1>2
  <2>2. n # l
    BY <1>4, <2>1
  <2> QED BY <2>2
<1>6. n + 1 \in 1 .. l /\ l \in 1 .. l
  BY <1>5
<1>7. b[n] \in Nat /\ b[n + 1] \in Nat /\ b[l] \in Nat
  BY <1>3, <1>6
<1>8. b[n + 1] <= b[l]
  <2>1. CASE n + 1 = l
    BY <1>7, <2>1
  <2>2. CASE n + 1 # l
    <3>1. b[n + 1] < b[l]
      BY <1>1, <1>2, <1>5, <1>6, <2>2, AscendsThroughout
    <3> QED BY <1>7, <3>1
  <2> QED BY <2>1, <2>2
<1>9. w >= 0 /\ w < b[l]
  BY <1>4, <1>7, <1>8
<1> QED BY <1>1, <1>2, <1>6, <1>9

(* Between two bounds there is a run if the second ends one. *)
LEMMA RunsBetween ==
  ASSUME NEW v \in Versions, NEW t, IsWritten(v, t), NEW i \in 1 .. Len(t.bounds),
         NEW w \in Int, i > 1 => t.bounds[i - 1] <= w, w < t.bounds[i]
  PROVE  InRuns(t, w) <=> i % 2 = 0
<1>1. PICK b \in Seq(Nat) : b = t.bounds /\ Ascending(b) /\ Len(b) % 2 = 0
  BY DEF IsWritten
<1>2. PICK l \in Nat : l = Len(b)
  OBVIOUS
<1>3. DOMAIN b = 1 .. l /\ \A j \in 1 .. l : b[j] \in Nat
  BY <1>2
<1>4. i \in 1 .. l /\ (i > 1 => b[i - 1] <= w) /\ w < b[i]
  BY <1>1, <1>2
<1>5. \A j, k \in 1 .. l : j < k => b[j] < b[k]
  BY <1>1, <1>2, AscendsThroughout
<1>6. ASSUME i % 2 = 0
      PROVE  InRuns(t, w)
  <2>1. PICK n \in 1 .. l : n = i - 1
    BY <1>4, <1>6
  <2>2. n % 2 = 1 /\ n + 1 = i /\ i > 1
    BY <1>6, <2>1
  <2> QED BY <1>1, <1>3, <1>4, <2>1, <2>2 DEF InRuns
<1>7. ASSUME i % 2 # 0, InRuns(t, w)
      PROVE  FALSE
  <2>1. PICK n \in 1 .. l : n % 2 = 1 /\ b[n] <= w /\ w < b[n + 1]
    BY <1>1, <1>3, <1>7 DEF InRuns
  <2>2. CASE n >= i
    <3>1. b[i] <= b[n]
      <4>1. n = i \/ i < n
        BY <1>4, <2>2
      <4>2. b[i] \in Nat /\ b[n] \in Nat
        BY <1>3, <1>4
      <4> QED BY <1>4, <1>5, <4>1, <4>2
    <3>2. b[i] \in Nat /\ b[n] \in Nat
      BY <1>3, <1>4
    <3> QED BY <1>4, <2>1, <3>1, <3>2
  <2>3. CASE n < i
    <3>1. i # n + 1
      BY <1>7, <2>1
    <3>2. PICK j \in 1 .. l : j = i - 1
      BY <1>4, <2>3
    <3>3. n + 1 \in 1 .. l /\ (n + 1 = j \/ n + 1 < j) /\ i > 1
      BY <1>4, <2>3, <3>1, <3>2
    <3>4. b[n + 1] \in Nat /\ b[j] \in Nat
      BY <1>3, <3>3
    <3>5. b[n + 1] <= b[j]
      BY <1>5, <3>3, <3>4
    <3>6. b[j] <= w
      BY <1>4, <3>2, <3>3
    <3> QED BY <2>1, <3>4, <3>5, <3>6
  <2> QED BY <1>4, <2>2, <2>3
<1> QED BY <1>6, <1>7

(* All words of runs below w are linked as pointers, and no others. *)
PointersAre(t, p, w) ==
  \A x \in Int : (\E y \in DOMAIN p : p[y] = x) <=> InRuns(t, x) /\ x < w

LEMMA RunLinked ==
  ASSUME NEW v \in Versions, NEW t, IsWritten(v, t), NEW i \in 1 .. Len(t.bounds),
         NEW w \in Int, NEW n \in Nat, i > 1 => t.bounds[i - 1] <= w, w + n <= t.bounds[i],
         NEW p \in Seq(Int), PointersAre(t, p, w)
  PROVE  PointersAre(t, IF i % 2 = 0 THEN p \o RunFrom(w, n) ELSE p, w + n)
<1>0. PICK hi \in Nat : hi = t.bounds[i]
  BY BoundsOfTable
<1>1. ASSUME NEW x \in Int, w <= x, x < w + n
      PROVE  InRuns(t, x) <=> i % 2 = 0
  <2>1. x < hi
    BY <1>0, <1>1
  <2>2. i > 1 => t.bounds[i - 1] <= x
    <3> SUFFICES ASSUME i > 1 PROVE t.bounds[i - 1] <= x
      OBVIOUS
    <3>1. i - 1 \in 1 .. Len(t.bounds)
      BY BoundsOfTable
    <3>2. PICK lo \in Nat : lo = t.bounds[i - 1]
      BY <3>1, BoundsOfTable
    <3> QED BY <1>1, <3>2
  <2> QED BY <1>0, <2>1, <2>2, RunsBetween
<1>2. CASE i % 2 # 0
  <2> SUFFICES ASSUME NEW x \in Int
               PROVE  InRuns(t, x) /\ x < w <=> InRuns(t, x) /\ x < w + n
    BY <1>2 DEF PointersAre
  <2>1. CASE w <= x /\ x < w + n
    BY <1>1, <1>2, <2>1
  <2>2. CASE ~(w <= x /\ x < w + n)
    BY <2>2
  <2> QED BY <2>1, <2>2
<1>3. CASE i % 2 = 0
  <2>1. PICK q : q = p \o RunFrom(w, n)
    OBVIOUS
  <2>2. PICK l \in Nat : l = Len(p) /\ DOMAIN p = 1 .. l
    OBVIOUS
  <2>3. /\ DOMAIN q = 1 .. l + n
        /\ \A y \in 1 .. l : q[y] = p[y]
        /\ \A y \in l + 1 .. l + n : q[y] = w + (y - l) - 1
    BY <2>1, <2>2, RunAppended
  <2>4. ASSUME NEW x \in Int
        PROVE  (\E y \in DOMAIN q : q[y] = x) <=> InRuns(t, x) /\ x < w + n
    <3>1. ASSUME NEW y \in 1 .. l, q[y] = x
          PROVE  InRuns(t, x) /\ x < w + n
      <4>1. p[y] = x
        BY <2>3, <3>1
      <4>2. InRuns(t, x) /\ x < w
        BY <2>2, <4>1 DEF PointersAre
      <4> QED BY <4>2
    <3>2. ASSUME NEW y \in l + 1 .. l + n, q[y] = x
          PROVE  InRuns(t, x) /\ x < w + n
      <4>1. x = w + (y - l) - 1
        BY <2>3, <3>2
      <4>2. w <= x /\ x < w + n
        BY <4>1
      <4> QED BY <1>1, <1>3, <4>2
    <3>3. ASSUME InRuns(t, x), x < w
          PROVE  \E y \in DOMAIN q : q[y] = x
      <4>1. PICK y \in 1 .. l : p[y] = x
        BY <2>2, <3>3 DEF PointersAre
      <4>2. y \in DOMAIN q /\ q[y] = x
        BY <2>3, <4>1
      <4> QED BY <4>2
    <3>4. ASSUME w <= x, x < w + n
          PROVE  \E y \in DOMAIN q : q[y] = x
      <4>1. PICK y \in l + 1 .. l + n : y = l + (x - w) + 1
        BY <3>4
      <4>2. y \in DOMAIN q /\ q[y] = x
        BY <2>3, <4>1
      <4> QED BY <4>2
    <3>5. \A y \in DOMAIN q : y \in 1 .. l \/ y \in l + 1 .. l + n
      BY <2>3
    <3> QED BY <3>1, <3>2, <3>3, <3>4, <3>5
  <2> QED BY <1>3, <2>1, <2>4 DEF PointersAre
<1> QED BY <1>2, <1>3

LEMMA RunWords ==
  ASSUME NEW v \in Versions, NEW t, IsWritten(v, t), NEW w \in Int
  PROVE  w \in PointerWords(t) <=> InRuns(t, w)
<1>1. PICK l \in Nat : l = Len(t.bounds) /\ DOMAIN t.bounds = 1 .. l /\ l % 2 = 0
  BY BoundsOfTable DEF IsWritten
<1>2. \A i \in 1 .. l : t.bounds[i] \in Nat
  BY <1>1, BoundsOfTable
<1>3. ASSUME NEW i \in 1 .. l, i % 2 = 1
      PROVE  w \in t.bounds[i] .. t.bounds[i + 1] - 1 <=> t.bounds[i] <= w /\ w < t.bounds[i + 1]
  <2>1. i # l
    <3>1. l % 2 = 0 /\ l \in Nat
      BY <1>1
    <3> QED BY <1>3, <3>1
  <2>2. i + 1 \in 1 .. l
    BY <1>1, <2>1
  <2>3. PICK a \in Nat, b \in Nat : a = t.bounds[i] /\ b = t.bounds[i + 1]
    BY <1>2, <2>2
  <2> QED BY <2>3
<1> QED BY <1>1, <1>3 DEF InRuns, PointerWords

-----------------------------------------------------------------------------
(* A table for a segment                                                   *)

LEMMA TableParts ==
  ASSUME NEW v \in Versions, NEW t, NEW n \in Nat, IsTable(v, t, n)
  PROVE  /\ 8 * n <= Wrap /\ 2 * n <= Words
         /\ t.bounds \in Seq(Nat)
         /\ \A i \in 1 .. Len(t.bounds) : t.bounds[i] <= n
         /\ t.symbols \in Seq([name : Nat \ {0}, words : Seq(Nat)])
         /\ \A k \in DOMAIN t.symbols : /\ t.symbols[k].words \in Seq(Nat)
                                        /\ \A j \in 1 .. Len(t.symbols[k].words) :
                                             t.symbols[k].words[j] < n
<1>1. 8 * n <= Wrap /\ 2 * n <= Words
  BY WrapIs DEF IsTable
<1>2. PICK b \in Seq(0 .. n) : b = t.bounds
  BY DEF IsTable
<1>3. b \in Seq(Nat) /\ \A i \in 1 .. Len(b) : b[i] <= n
  OBVIOUS
<1> DEFINE W == Seq(0 .. n - 1)
           E == [name : Nat \ {0}, words : W]
           F == [name : Nat \ {0}, words : Seq(Nat)]
<1>4. ASSUME NEW w \in W
      PROVE  w \in Seq(Nat) /\ \A j \in 1 .. Len(w) : w[j] < n
  OBVIOUS
<1>5. PICK y \in Seq(E) : y = t.symbols
  BY DEF IsTable
<1> HIDE DEF W
<1>6. \A e \in E : e.words \in W /\ e \in F
  BY <1>4
<1> HIDE DEF E, F
<1>7. y \in Seq(F) /\ \A k \in DOMAIN y : y[k] \in E
  BY <1>6
<1> QED BY <1>1, <1>2, <1>3, <1>4, <1>5, <1>6, <1>7 DEF F

(* What such a table says is in the segment, and no word is linked twice.   *)
LEMMA TableIsWritten ==
  ASSUME NEW v \in Versions, NEW t, NEW n \in Nat, IsTable(v, t, n)
  PROVE  IsWritten(v, t)
<1>1. /\ 8 * n <= Wrap /\ t.bounds \in Seq(Nat)
      /\ t.symbols \in Seq([name : Nat \ {0}, words : Seq(Nat)])
      /\ \A k \in DOMAIN t.symbols : /\ t.symbols[k].words \in Seq(Nat)
                                     /\ \A j \in 1 .. Len(t.symbols[k].words) :
                                          t.symbols[k].words[j] < n
  BY TableParts
<1>2. /\ Ascending(t.bounds) /\ Len(t.bounds) % 2 = 0
      /\ t.bounds # << >> => FirstWord(v) < t.bounds[1]
      /\ \A k \in DOMAIN t.symbols : t.symbols[k].words # << >> /\ Ascending(t.symbols[k].words)
  BY DEF IsTable
<1>3. ASSUME NEW k \in DOMAIN t.symbols, NEW j \in DOMAIN t.symbols[k].words
      PROVE  4 * Gap(t.symbols[k].words, j, 0) < Wrap
  <2>1. PICK w \in Seq(Nat) : w = t.symbols[k].words
    BY <1>1
  <2>2. j \in 1 .. Len(w) /\ w[j] \in Nat /\ w[j] < n
    <3>1. j \in 1 .. Len(w)
      BY <2>1
    <3>2. \A l \in 1 .. Len(w) : w[l] < n
      BY <1>1, <2>1
    <3> QED BY <3>1, <3>2
  <2>3. Gap(w, j, 0) \in Int /\ Gap(w, j, 0) <= w[j]
    <3>1. j # 1 => w[j - 1] \in Nat
      BY <2>2
    <3> QED BY <2>2, <3>1 DEF Gap
  <2>4. 4 * Gap(w, j, 0) < 8 * n
    BY <2>2, <2>3
  <2> QED BY <1>1, <2>1, <2>3, <2>4, WrapIs
<1> QED BY <1>1, <1>2, <1>3 DEF IsWritten

LEMMA TableWithin ==
  ASSUME NEW v \in Versions, NEW t, NEW n \in Nat, IsTable(v, t, n)
  PROVE  /\ 2 * n <= Words
         /\ \A i \in 1 .. Len(t.bounds) : t.bounds[i] <= n
         /\ \A k \in 1 .. Len(t.symbols) : \A j \in 1 .. Len(t.symbols[k].words) :
              /\ t.symbols[k].words[j] < n
              /\ ~InRuns(t, t.symbols[k].words[j])
              /\ \A m \in 1 .. Len(t.symbols) : \A i \in 1 .. Len(t.symbols[m].words) :
                   m # k => t.symbols[k].words[j] # t.symbols[m].words[i]
<1>1. /\ 2 * n <= Words
      /\ \A i \in 1 .. Len(t.bounds) : t.bounds[i] <= n
      /\ t.symbols \in Seq([name : Nat \ {0}, words : Seq(Nat)])
      /\ \A k \in DOMAIN t.symbols : /\ t.symbols[k].words \in Seq(Nat)
                                     /\ \A j \in 1 .. Len(t.symbols[k].words) :
                                          t.symbols[k].words[j] < n
  BY TableParts
<1>2. IsWritten(v, t) /\ DOMAIN t.symbols = 1 .. Len(t.symbols)
  BY TableIsWritten, EntriesOfTable
<1>3. ASSUME NEW k \in DOMAIN t.symbols, NEW j \in 1 .. Len(t.symbols[k].words)
      PROVE  /\ t.symbols[k].words[j] < n
             /\ ~InRuns(t, t.symbols[k].words[j])
             /\ \A m \in DOMAIN t.symbols : \A i \in 1 .. Len(t.symbols[m].words) :
                  m # k => t.symbols[k].words[j] # t.symbols[m].words[i]
  <2>1. \A m \in DOMAIN t.symbols : DOMAIN t.symbols[m].words = 1 .. Len(t.symbols[m].words)
    BY <1>1
  <2>2. /\ t.symbols[k].words[j] \notin PointerWords(t)
        /\ \A m \in DOMAIN t.symbols \ {k} : \A i \in DOMAIN t.symbols[m].words :
             t.symbols[k].words[j] # t.symbols[m].words[i]
    BY <1>3, <2>1 DEF IsTable
  <2>3. t.symbols[k].words[j] \in Int /\ t.symbols[k].words[j] < n
    <3>1. PICK w \in Seq(Nat) : w = t.symbols[k].words
      BY <1>1
    <3>2. w[j] \in Int
      BY <3>1
    <3>3. \A l \in 1 .. Len(t.symbols[k].words) : t.symbols[k].words[l] < n
      BY <1>1
    <3> QED BY <3>1, <3>2, <3>3
  <2> QED BY <1>2, <2>1, <2>2, <2>3, RunWords
<1> QED BY <1>1, <1>2, <1>3

-----------------------------------------------------------------------------
(* Reading a table that has been written                                   *)

(* A table that can be read stands where the reader began. *)
Given(t) ==
  /\ IsTable(version, t, limit) /\ fits /\ ~EndsOnTop(t)
  /\ StandsAt(table, from, Table(version, t))

NumbersAt(t) == NumberAt(version, t, from)

EntriesAt(t) == EntryAt(version, t, from)

SeeksAt(t, k) == SeekAt(version, t.symbols[k], EntriesAt(t)[k])

GapTo(t, i) == Gap(t.bounds, i, FirstWord(version))

(* The reader has m words to go to a bound, and their number before it.     *)
AtNumber(t, i, m) ==
  /\ StandsAt(table, ptr, Number(m)) /\ ptr + Len(Number(m)) = NumbersAt(t)[i + 1]
  /\ word = t.bounds[i] - m
  /\ fixing = (i % 2 = 0)
  /\ PointersAre(t, pointers, word)
  /\ symbols = << >> /\ links = << >>

AllPointers(t) == \A x \in Int : (\E y \in DOMAIN pointers : pointers[y] = x) <=> InRuns(t, x)

NamesAre(t, k) ==
  Len(symbols) = k /\ \A x \in 1 .. k : symbols[x] = t.symbols[x].name

(* The references of entries before the kth, and those before its jth.      *)
IsReference(t, k, j, l) ==
  \E x \in 1 .. Len(t.symbols) : \E y \in 1 .. Len(t.symbols[x].words) :
    l = <<x, t.symbols[x].words[y]>> /\ (x < k \/ (x = k /\ y < j))

LinksAre(t, k, j) ==
  \A l : (\E y \in DOMAIN links : links[y] = l) <=> IsReference(t, k, j, l)

AtEntry(t, k) ==
  /\ ptr = EntriesAt(t)[k]
  /\ AllPointers(t) /\ NamesAre(t, k - 1) /\ LinksAre(t, k, 1)

AtReference(t, k, j) ==
  /\ ptr = SeeksAt(t, k)[j]
  /\ word = IF j = 1 THEN 0 ELSE t.symbols[k].words[j - 1]
  /\ AllPointers(t) /\ NamesAre(t, k) /\ LinksAre(t, k, j)

ReadInv(t) ==
  /\ pc = "pointers" => \E i \in 1 .. Len(t.bounds) : \E m \in 1 .. GapTo(t, i) : AtNumber(t, i, m)
  /\ pc = "symbols" => \E k \in 1 .. Len(t.symbols) + 1 : AtEntry(t, k)
  /\ pc = "references" => \E k \in 1 .. Len(t.symbols) :
                          \E j \in 1 .. Len(t.symbols[k].words) : AtReference(t, k, j)
  /\ pc = "done" => ptr = from + Len(Table(version, t)) - 1 /\ LinkedIs(t)
  /\ pc \notin {"lost", "refused"}

LEMMA GivenStands ==
  ASSUME TableTypeOK, NEW t, Given(t)
  PROVE  /\ version \in Versions /\ IsWritten(version, t) /\ from \in Int /\ Len(table) \in Nat
         /\ TableStands(table, version, t, from, NumbersAt(t), EntriesAt(t))
<1>1. version \in Versions /\ IsWritten(version, t) /\ from \in Int /\ Len(table) \in Nat
      /\ StandsAt(table, from, Table(version, t))
  BY TableFacts, TableIsWritten DEF TableTypeOK, Given
<1> QED BY <1>1, TableIsThere DEF NumbersAt, EntriesAt

(* What it links is in the segment, and is linked once. *)
LEMMA GivenSegment ==
  ASSUME TableTypeOK, NEW t, Given(t)
  PROVE  /\ fits = TRUE /\ limit \in Nat /\ 2 * limit <= Words
         /\ \A i \in 1 .. Len(t.bounds) : t.bounds[i] <= limit
         /\ \A k \in 1 .. Len(t.symbols) : \A j \in 1 .. Len(t.symbols[k].words) :
              /\ t.symbols[k].words[j] < limit
              /\ ~InRuns(t, t.symbols[k].words[j])
              /\ \A m \in 1 .. Len(t.symbols) : \A i \in 1 .. Len(t.symbols[m].words) :
                   m # k => t.symbols[k].words[j] # t.symbols[m].words[i]
<1>1. version \in Versions /\ fits = TRUE /\ limit \in Nat /\ IsTable(version, t, limit)
  BY DEF TableTypeOK, Given
<1> QED BY <1>1, TableWithin

(* The bytes of a number that the reader has to go on with. *)
LEMMA NumberAhead ==
  ASSUME TableTypeOK, NEW p \in Int, NEW m \in Nat \ {0}, StandsAt(table, p, Number(m))
  PROVE  /\ p \in 1 .. Len(table)
         /\ table[p] = IF m < Top THEN m ELSE Top
         /\ m < Top => Len(Number(m)) = 1
         /\ m >= Top => /\ m - Top \in Nat
                        /\ p + 1 \in 1 .. Len(table)
                        /\ StandsAt(table, p + 1, Number(m - Top))
                        /\ Len(Number(m)) = Len(Number(m - Top)) + 1
<1>1. Len(table) \in Nat
  BY TableFacts
<1>2. Len(Number(m)) \in Nat \ {0} /\ Top \in Nat
  BY NumberBegins, TopIs
<1>3. table[p] = Number(m)[1] /\ p \in 1 .. Len(table) /\ 1 <= p
      /\ p + Len(Number(m)) - 1 <= Len(table)
  BY <1>1, <1>2, StandsFirst
<1>4. CASE m < Top
  BY <1>2, <1>3, <1>4, NumberParts
<1>5. CASE ~(m < Top)
  <2>1. m >= Top
    BY <1>2, <1>5
  <2>2. /\ m - Top \in Nat
        /\ Number(m)[1] = Top
        /\ Len(Number(m)) = Len(Number(m - Top)) + 1
        /\ \A i \in 1 .. Len(Number(m - Top)) : Number(m)[i + 1] = Number(m - Top)[i]
    BY <2>1, NumberParts
  <2>3. PICK k \in Nat \ {0} : k = Len(Number(m - Top))
    BY <2>2, NumberBegins
  <2>4. p + 1 \in 1 .. Len(table) /\ 1 <= p + 1 /\ (p + 1) + k - 1 <= Len(table)
    BY <1>1, <1>3, <2>2, <2>3
  <2>5. ASSUME NEW i \in 1 .. k
        PROVE  table[(p + 1) + i - 1] = Number(m - Top)[i]
    <3>1. i + 1 \in 1 .. Len(Number(m)) /\ p + (i + 1) - 1 = (p + 1) + i - 1
      BY <2>2, <2>3
    <3>2. table[p + (i + 1) - 1] = Number(m)[i + 1]
      BY <3>1 DEF StandsAt
    <3> QED BY <2>2, <2>3, <3>1, <3>2
  <2>6. StandsAt(table, p + 1, Number(m - Top))
    BY <2>3, <2>4, <2>5 DEF StandsAt
  <2> QED BY <1>3, <1>5, <2>1, <2>2, <2>4, <2>6
<1> QED BY <1>4, <1>5

(* A reader that has come to a bound, by the number before it: the next one  *)
(* is there, or the zero that ends the pointers.                             *)
LEMMA NextNumber ==
  ASSUME TableTypeOK, NEW t, Given(t), NEW i \in 1 .. Len(t.bounds) + 1
  PROVE  /\ NumbersAt(t)[i] \in 1 .. Len(table)
         /\ i <= Len(t.bounds) =>
              /\ i \in 1 .. Len(t.bounds) /\ GapTo(t, i) \in Nat \ {0}
              /\ table[NumbersAt(t)[i]] # 0
              /\ StandsAt(table, NumbersAt(t)[i], Number(GapTo(t, i)))
              /\ NumbersAt(t)[i] + Len(Number(GapTo(t, i))) = NumbersAt(t)[i + 1]
         /\ i = Len(t.bounds) + 1 => table[NumbersAt(t)[i]] = 0
                                     /\ NumbersAt(t)[i] + 1 = EntriesAt(t)[1]
<1>1. /\ version \in Versions /\ IsWritten(version, t) /\ from \in Int /\ Len(table) \in Nat
      /\ TableStands(table, version, t, from, NumbersAt(t), EntriesAt(t))
  BY GivenStands
<1>2. PICK n \in Nat : n = Len(t.bounds)
  BY <1>1, BoundsOfTable
<1>3. CASE i = n + 1
  <2>1. /\ NumbersAt(t)[n + 1] \in 1 .. Len(table) /\ table[NumbersAt(t)[n + 1]] = 0
        /\ EntriesAt(t)[1] = NumbersAt(t)[n + 1] + 1
    BY <1>1, <1>2 DEF TableStands
  <2> QED BY <1>2, <1>3, <2>1
<1>4. CASE i # n + 1
  <2>1. i \in 1 .. n /\ i \in 1 .. n + 1
    BY <1>2, <1>4
  <2>2. GapTo(t, i) \in Nat \ {0}
    BY <1>1, <1>2, <2>1, BoundsOfTable DEF GapTo
  <2>3. PICK p \in Int : p = NumbersAt(t)[i]
    BY <1>1, <1>2, <2>1 DEF TableStands
  <2>4. /\ StandsAt(table, p, Number(GapTo(t, i)))
        /\ NumbersAt(t)[i + 1] = p + Len(Number(GapTo(t, i)))
    BY <1>1, <1>2, <2>1, <2>3 DEF TableStands, GapTo
  <2>5. p \in 1 .. Len(table) /\ table[p] = IF GapTo(t, i) < Top THEN GapTo(t, i) ELSE Top
    BY <2>2, <2>4, NumberAhead
  <2>6. table[p] # 0
    BY <2>2, <2>5, TopIs
  <2> QED BY <1>2, <1>4, <2>1, <2>2, <2>3, <2>4, <2>5, <2>6
<1> QED BY <1>3, <1>4

SameTable == UNCHANGED <<version, table, fits, limit, from>>

LEMMA PlacesStay ==
  ASSUME SameTable, NEW t
  PROVE  /\ NumbersAt(t)' = NumbersAt(t) /\ EntriesAt(t)' = EntriesAt(t)
         /\ \A i : GapTo(t, i)' = GapTo(t, i)
         /\ \A k : SeeksAt(t, k)' = SeeksAt(t, k)
  BY DEF SameTable, NumbersAt, EntriesAt, GapTo, SeeksAt

LEMMA NumberBegun ==
  ASSUME TableTypeOK, NEW t, Given(t), SameTable, NEW i \in 1 .. Len(t.bounds),
         pc' = "pointers", ptr' = NumbersAt(t)[i],
         word' = IF i = 1 THEN FirstWord(version) ELSE t.bounds[i - 1],
         fixing' = (i % 2 = 0), PointersAre(t, pointers', word'),
         symbols' = << >>, links' = << >>
  PROVE  ReadInv(t)'
<1>1. version \in Versions /\ IsWritten(version, t)
  BY GivenStands
<1>2. PICK g \in Nat \ {0} : g = GapTo(t, i)
  BY <1>1, BoundsOfTable DEF GapTo
<1>3. i \in 1 .. Len(t.bounds) + 1 /\ i <= Len(t.bounds)
  BY <1>1, BoundsOfTable
<1>4. StandsAt(table, NumbersAt(t)[i], Number(g))
      /\ NumbersAt(t)[i] + Len(Number(g)) = NumbersAt(t)[i + 1]
  BY <1>2, <1>3, NextNumber
<1>5. word' = t.bounds[i] - g
  <2>1. PICK b \in Nat : b = t.bounds[i]
    BY <1>1, BoundsOfTable
  <2>2. PICK a \in Int : a = IF i = 1 THEN FirstWord(version) ELSE t.bounds[i - 1]
    <3>1. CASE i = 1
      BY <1>1, <3>1, BoundsOfTable
    <3>2. CASE i # 1
      <4>1. i - 1 \in 1 .. Len(t.bounds)
        BY <1>1, <3>2, BoundsOfTable
      <4> QED BY <1>1, <3>2, <4>1, BoundsOfTable
    <3> QED BY <3>1, <3>2
  <2>3. b = a + g
    BY <1>1, <1>2, <2>1, <2>2, BoundsOfTable DEF GapTo
  <2> QED BY <2>1, <2>2, <2>3
<1>6. AtNumber(t, i, g)'
  <2>1. NumbersAt(t)' = NumbersAt(t) /\ table' = table
    BY PlacesStay DEF SameTable
  <2> QED BY <1>4, <1>5, <2>1 DEF AtNumber
<1>7. g \in 1 .. GapTo(t, i)'
  BY <1>2, PlacesStay
<1> QED BY <1>6, <1>7 DEF ReadInv

LEMMA PointersRead ==
  ASSUME TableTypeOK, NEW t, Given(t), SameTable,
         pc' = "symbols", ptr' = EntriesAt(t)[1], AllPointers(t)', symbols' = << >>, links' = << >>
  PROVE  ReadInv(t)'
<1>1. version \in Versions /\ IsWritten(version, t)
  BY GivenStands
<1>2. 1 \in 1 .. Len(t.symbols) + 1
  BY <1>1, EntriesOfTable
<1>3. NamesAre(t, 1 - 1)'
  <2>1. Len(<< >>) = 0 /\ \A x : x \notin 1 .. 0
    OBVIOUS
  <2>2. 1 - 1 = 0
    OBVIOUS
  <2>3. Len(symbols') = 0
    BY <2>1
  <2> QED BY <2>1, <2>2, <2>3 DEF NamesAre
<1>4. LinksAre(t, 1, 1)'
  <2>1. \A y : y \notin DOMAIN links'
    OBVIOUS
  <2>2. ASSUME NEW l, IsReference(t, 1, 1, l) PROVE FALSE
    BY <1>1, <2>2, EntriesOfTable DEF IsReference
  <2> QED BY <2>1, <2>2 DEF LinksAre
<1>5. AtEntry(t, 1)'
  BY <1>3, <1>4, PlacesStay DEF AtEntry
<1> QED BY <1>2, <1>5 DEF ReadInv

LEMMA StartReads ==
  ASSUME VisitInv, NEW t, Given(t), Start
  PROVE  ReadInv(t)'
<1>1. /\ TableTypeOK
      /\ pc = "start" /\ ptr = from /\ word = FirstWord(version) /\ fixing = FALSE
      /\ pointers = << >> /\ symbols = << >> /\ links = << >>
  BY DEF Start, VisitInv, ReaderAt
<1>2. version \in Versions /\ IsWritten(version, t) /\ from \in Int /\ Len(table) \in Nat
      /\ NumbersAt(t)[1] = from
  BY <1>1, GivenStands DEF TableStands
<1>3. PICK n \in Nat : n = Len(t.bounds)
  BY <1>2, BoundsOfTable
<1>4. from \in 1 .. Len(table) /\ Ahead(1)
  <2>1. 1 \in 1 .. n + 1
    OBVIOUS
  <2>2. from \in 1 .. Len(table)
    BY <1>1, <1>2, <1>3, <2>1, NextNumber
  <2> QED BY <1>1, <1>2, <2>2, TableFacts
<1>5. ASSUME NEW w \in Int, w <= 0
      PROVE  PointersAre(t, << >>, w)
  <2>1. \A x \in Int : ~(InRuns(t, x) /\ x < w)
    BY <1>2, <1>5, RunsOfTable
  <2>2. \A y : y \notin DOMAIN << >>
    OBVIOUS
  <2> QED BY <2>1, <2>2 DEF PointersAre
<1>6. FirstWord(version) \in Int /\ FirstWord(version) <= 0
  BY DEF FirstWord
<1>7. CASE n = 0
  <2>1. 1 \in 1 .. n + 1 /\ 1 = n + 1
    BY <1>7
  <2>2. table[from] = 0 /\ from + 1 = EntriesAt(t)[1]
    BY <1>1, <1>2, <1>3, <2>1, NextNumber
  <2>3. /\ pc' = "symbols" /\ ptr' = EntriesAt(t)[1] /\ SameTable
        /\ pointers' = << >> /\ symbols' = << >> /\ links' = << >>
    BY <1>1, <1>4, <2>2 DEF Start, SameTable, file
  <2>4. AllPointers(t)'
    <3>1. ASSUME NEW x \in Int, InRuns(t, x) PROVE FALSE
      <4>1. Len(t.bounds) > 0
        BY <1>2, <3>1, RunsOfTable
      <4> QED BY <1>3, <1>7, <4>1
    <3>2. \A y : y \notin DOMAIN pointers'
      BY <2>3
    <3> QED BY <3>1, <3>2 DEF AllPointers
  <2> QED BY <1>1, <2>3, <2>4, PointersRead
<1>8. CASE n # 0
  <2>1. 1 \in 1 .. n + 1 /\ 1 <= n /\ 1 \in 1 .. n
    BY <1>8
  <2>2. table[from] # 0
    BY <1>1, <1>2, <1>3, <2>1, NextNumber
  <2>3. /\ pc' = "pointers" /\ ptr' = NumbersAt(t)[1] /\ SameTable
        /\ word' = FirstWord(version) /\ fixing' = FALSE
        /\ pointers' = << >> /\ symbols' = << >> /\ links' = << >>
    BY <1>1, <1>2, <1>4, <2>2 DEF Start, SameTable, file
  <2>4. fixing' = (1 % 2 = 0)
    <3>1. (1 % 2 = 0) = FALSE
      OBVIOUS
    <3> QED BY <2>3, <3>1, Zenon
  <2>5. PointersAre(t, pointers', word')
    BY <1>5, <1>6, <2>3
  <2> QED BY <1>1, <1>3, <2>1, <2>3, <2>4, <2>5, NumberBegun
<1> QED BY <1>7, <1>8

(* Only the last number may end the pointers, and not on the top byte. *)
LEMMA LastNumber ==
  ASSUME TableTypeOK, NEW t, Given(t), NEW i \in 1 .. Len(t.bounds), NEW p \in Int,
         p + 1 = NumbersAt(t)[i + 1], table[p] = 0
  PROVE  i # Len(t.bounds)
<1> SUFFICES ASSUME i = Len(t.bounds) PROVE FALSE
  OBVIOUS
<1>1. /\ version \in Versions /\ IsWritten(version, t) /\ ~EndsOnTop(t)
      /\ TableStands(table, version, t, from, NumbersAt(t), EntriesAt(t))
  BY GivenStands DEF Given
<1>2. PICK g \in Nat \ {0} : g = GapTo(t, i)
  BY <1>1, BoundsOfTable DEF GapTo
<1>3. PICK q \in Nat : q = g \div Top /\ Len(Number(g)) = q + 1 /\ Number(g)[q + 1] = g % Top
  BY NumberBytes
<1>4. PICK at \in Int : at = NumbersAt(t)[i]
  <2>1. i \in 1 .. Len(t.bounds) + 1
    BY <1>1, BoundsOfTable
  <2> QED BY <1>1, <2>1 DEF TableStands
<1>5. StandsAt(table, at, Number(g)) /\ NumbersAt(t)[i + 1] = at + Len(Number(g))
  BY <1>1, <1>2, <1>4 DEF TableStands, GapTo
<1>6. table[at + (q + 1) - 1] = g % Top
  <2>1. q + 1 \in 1 .. Len(Number(g))
    BY <1>3
  <2> QED BY <1>3, <1>5, <2>1 DEF StandsAt
<1>7. at + (q + 1) - 1 = p
  <2>1. p + 1 = at + (q + 1)
    BY <1>3, <1>5
  <2> QED BY <2>1
<1>8. g % Top = 0
  BY <1>6, <1>7
<1>9. i > 1
  <2>1. PICK n \in Nat : n = Len(t.bounds) /\ n % 2 = 0
    BY <1>1, BoundsOfTable DEF IsWritten
  <2>2. n \in 1 .. n /\ i = n
    BY <2>1
  <2>3. n > 1
    <3>1. n # 1
      <4>1. 1 % 2 # 0
        OBVIOUS
      <4> QED BY <2>1, <4>1, Zenon
    <3> QED BY <2>2, <3>1
  <2> QED BY <2>2, <2>3
<1>10. g = t.bounds[i] - t.bounds[i - 1]
  BY <1>2, <1>9 DEF GapTo, Gap
<1> QED BY <1>1, <1>8, <1>9, <1>10 DEF EndsOnTop

LEMMA CountReads ==
  ASSUME VisitInv, NEW t, Given(t), ReadInv(t), Count
  PROVE  ReadInv(t)'
<1>1. TableTypeOK /\ pc = "pointers"
  BY DEF VisitInv, Count
<1>2. PICK i \in 1 .. Len(t.bounds) : \E m \in 1 .. GapTo(t, i) : AtNumber(t, i, m)
  BY <1>1 DEF ReadInv
<1>3. /\ version \in Versions /\ IsWritten(version, t) /\ Len(table) \in Nat
  BY <1>1, GivenStands
<1>4. GapTo(t, i) \in Nat \ {0}
  BY <1>3, BoundsOfTable DEF GapTo
<1>5. PICK m \in Nat \ {0} : m <= GapTo(t, i) /\ AtNumber(t, i, m)
  BY <1>2, <1>4
<1>6. /\ StandsAt(table, ptr, Number(m)) /\ ptr + Len(Number(m)) = NumbersAt(t)[i + 1]
      /\ word = t.bounds[i] - m
      /\ fixing = (i % 2 = 0)
      /\ PointersAre(t, pointers, word)
      /\ symbols = << >> /\ links = << >>
  BY <1>5 DEF AtNumber
<1>7. PICK n \in Nat \ {0} : n = Len(t.bounds)
  BY <1>3, BoundsOfTable
<1>8. i + 1 \in 1 .. Len(t.bounds) + 1 /\ NumbersAt(t)[i + 1] \in 1 .. Len(table)
  <2>1. i + 1 \in 1 .. Len(t.bounds) + 1
    BY <1>7
  <2> QED BY <1>1, <2>1, NextNumber
<1>9. Top \in Nat /\ Top > 0
  BY TopIs
<1>10. PICK hi \in Nat : hi = t.bounds[i]
  BY <1>3, BoundsOfTable
<1>11. ptr \in Int /\ pointers \in Seq(Int)
  BY <1>1 DEF TableTypeOK
<1>12. /\ ptr \in 1 .. Len(table)
       /\ table[ptr] = IF m < Top THEN m ELSE Top
       /\ m < Top => Len(Number(m)) = 1
       /\ m >= Top => /\ m - Top \in Nat
                      /\ StandsAt(table, ptr + 1, Number(m - Top))
                      /\ Len(Number(m)) = Len(Number(m - Top)) + 1
  BY <1>1, <1>6, <1>11, NumberAhead
<1>13. ptr + 1 \in 1 .. Len(table)
  <2>1. CASE m < Top
    BY <1>6, <1>8, <1>12, <2>1
  <2>2. CASE ~(m < Top)
    BY <1>1, <1>6, <1>9, <1>11, <2>2, NumberAhead
  <2> QED BY <2>1, <2>2
<1>14. PICK x \in Nat : x = IF m < Top THEN m ELSE Top
  BY <1>9
<1>15. x = table[ptr] /\ x <= m
  BY <1>12, <1>14, <1>9
<1>16. Ahead(2) /\ ~(x < 0)
  BY <1>1, <1>3, <1>12, <1>13, TableFacts
<1>a. /\ fits = TRUE /\ limit \in Nat /\ 2 * limit <= Words /\ hi <= limit /\ Words \in Nat
      /\ word \in Int /\ word + x <= hi
  <2>1. fits = TRUE /\ limit \in Nat /\ 2 * limit <= Words /\ hi <= limit /\ Words \in Nat
    BY <1>1, <1>10, GivenSegment, WrapIs
  <2>2. word = hi - m
    BY <1>6, <1>10
  <2> QED BY <1>15, <2>1, <2>2
<1>b. /\ 0 <= word + x
      /\ fixing => 0 <= word
  <2>1. /\ word < 0 => word = -1 /\ fixing = FALSE
    BY <1>1 DEF VisitInv, PointersInv
  <2>2. x > 0
    BY <1>9, <1>14
  <2> QED BY <1>a, <2>1, <2>2
<1>c. Onward(x) = word + x
  <2>1. word + x < Words
    BY <1>a, <1>b, WrapIs
  <2> QED BY <1>a, <1>b, <2>1, OnwardIs
<1>d. fixing => Run(x) = RunFrom(word, x) /\ Len(Run(x)) = x
  <2>1. fixing => word \in Nat /\ word + x <= Words
    BY <1>a, <1>b
  <2> QED BY <1>a, <2>1, RunIs, RunTyped
<1> DEFINE visits == IF fixing THEN Run(x) ELSE << >>
<1>e. \A y \in DOMAIN visits : fixing /\ y \in 1 .. x /\ visits[y] = word + y - 1
  <2>1. CASE fixing
    BY <1>d, <2>1 DEF RunFrom
  <2>2. CASE ~fixing
    BY <2>2
  <2> QED BY <2>1, <2>2
<1> HIDE DEF visits
<1>f. ~Refused(visits)
  <2> SUFFICES ASSUME NEW y \in DOMAIN visits, ~fits \/ ~InSegment(visits[y]) \/ LinkedAlready(visits[y])
               PROVE  FALSE
    BY DEF Refused
  <2>1. PICK w \in Nat : w = visits[y] /\ word <= w /\ w < word + x
    BY <1>a, <1>b, <1>e
  <2>2. InSegment(w)
    BY <1>a, <2>1 DEF InSegment
  <2>3. ~LinkedAlready(w)
    <3>1. \A z \in DOMAIN pointers : pointers[z] # w
      <4>1. ~(w < word)
        BY <1>a, <2>1
      <4> QED BY <1>6, <2>1, <4>1 DEF PointersAre
    <3> QED BY <1>6, <3>1 DEF LinkedAlready
  <2> QED BY <1>a, <2>1, <2>2, <2>3
<1>17. /\ word' = word + x
       /\ pointers' = IF fixing THEN pointers \o RunFrom(word, x) ELSE pointers
       /\ SameTable
       /\ symbols' = << >> /\ links' = << >>
  <2>1. /\ word' = Onward(x) /\ pointers' = pointers \o visits
        /\ UNCHANGED <<file, limit, from, symbols, links>>
    BY <1>15, <1>16, <1>f DEF Count, visits
  <2>2. visits = IF fixing THEN RunFrom(word, x) ELSE << >>
    BY <1>d DEF visits
  <2>3. pointers \o << >> = pointers
    BY <1>11
  <2>4. SameTable
    BY <2>1 DEF SameTable, file
  <2> QED BY <1>6, <1>c, <2>1, <2>2, <2>3, <2>4
<1>g. IF x = Top
      THEN /\ pc' = pc
           /\ fixing' = IF table[ptr + 1] = 0 THEN ~fixing ELSE fixing
           /\ ptr' = IF table[ptr + 1] = 0 THEN ptr + 2 ELSE ptr + 1
      ELSE /\ pc' = IF table[ptr + 1] = 0 THEN "symbols" ELSE pc
           /\ fixing' = ~fixing
           /\ ptr' = IF table[ptr + 1] = 0 THEN ptr + 2 ELSE ptr + 1
  BY <1>15, <1>16, <1>f DEF Count, visits
<1>18. PointersAre(t, pointers', word')
  <2>1. word \in Int /\ word + x <= hi
    BY <1>a
  <2>2. i > 1 => t.bounds[i - 1] <= word
    <3> SUFFICES ASSUME i > 1 PROVE t.bounds[i - 1] <= word
      OBVIOUS
    <3>1. i - 1 \in 1 .. Len(t.bounds)
      BY <1>7
    <3>2. PICK lo \in Nat : lo = t.bounds[i - 1]
      BY <1>3, <3>1, BoundsOfTable
    <3>3. hi = lo + GapTo(t, i)
      BY <1>3, <1>10, <3>2, BoundsOfTable DEF GapTo
    <3> QED BY <1>4, <1>5, <1>6, <1>10, <3>2, <3>3
  <2>3. PointersAre(t, IF i % 2 = 0 THEN pointers \o RunFrom(word, x) ELSE pointers, word + x)
    BY <1>3, <1>6, <1>10, <1>11, <2>1, <2>2, RunLinked
  <2> QED BY <1>6, <1>17, <2>3, Zenon
(* The reader comes to a bound. *)
<1>19. ASSUME pc' = "pointers", ptr' = NumbersAt(t)[i + 1], fixing' = ~fixing, word' = hi, i # n
       PROVE  ReadInv(t)'
  <2>1. i + 1 \in 1 .. Len(t.bounds) /\ i + 1 # 1 /\ (i + 1) - 1 = i
    BY <1>7, <1>19
  <2>2. fixing' = ((i + 1) % 2 = 0)
    <3>1. ((i + 1) % 2 = 0) = ~(i % 2 = 0)
      OBVIOUS
    <3> QED BY <1>6, <1>19, <3>1, Zenon
  <2>3. word' = IF i + 1 = 1 THEN FirstWord(version) ELSE t.bounds[(i + 1) - 1]
    BY <1>10, <1>19, <2>1
  <2> QED BY <1>1, <1>17, <1>18, <1>19, <2>1, <2>2, <2>3, NumberBegun
<1>20. ASSUME pc' = "symbols", ptr' = NumbersAt(t)[i + 1] + 1, word' = hi, i = n
       PROVE  ReadInv(t)'
  <2>1. NumbersAt(t)[i + 1] + 1 = EntriesAt(t)[1]
    BY <1>1, <1>7, <1>8, <1>20, NextNumber
  <2>2. AllPointers(t)'
    <3>1. \A y \in Int : InRuns(t, y) => y < hi
      BY <1>3, <1>7, <1>10, <1>20, RunsOfTable
    <3> QED BY <1>18, <1>20, <3>1 DEF PointersAre, AllPointers
  <2> QED BY <1>1, <1>17, <1>20, <2>1, <2>2, PointersRead
<1>21. CASE m < Top
  <2>0. x = m /\ Len(Number(m)) = 1
    BY <1>12, <1>14, <1>21
  <2>1. x # Top /\ ptr + 1 = NumbersAt(t)[i + 1] /\ word' = hi
    <3>1. x # Top
      BY <1>9, <1>21, <2>0
    <3>2. word' = (hi - m) + m
      BY <1>6, <1>10, <1>17, <2>0
    <3> QED BY <1>6, <2>0, <3>1, <3>2
  <2>2. CASE i = n
    <3>1. table[ptr + 1] = 0
      BY <1>1, <1>7, <1>8, <2>1, <2>2, NextNumber
    <3>2. pc' = "symbols" /\ ptr' = ptr + 2
      BY <1>g, <2>1, <3>1
    <3> QED BY <1>11, <1>20, <2>1, <2>2, <3>2
  <2>3. CASE i # n
    <3>1. table[ptr + 1] # 0
      <4>1. i + 1 <= n
        BY <1>7, <2>3
      <4>2. table[NumbersAt(t)[i + 1]] # 0
        BY <1>1, <1>7, <1>8, <4>1, NextNumber
      <4> QED BY <2>1, <4>2
    <3>2. pc' = "pointers" /\ ptr' = ptr + 1 /\ fixing' = ~fixing
      BY <1>1, <1>g, <2>1, <3>1
    <3> QED BY <1>19, <2>1, <2>3, <3>2
  <2> QED BY <2>2, <2>3
<1>22. CASE m = Top
  <2>1. x = Top /\ word' = hi /\ m - Top = 0
    BY <1>6, <1>9, <1>10, <1>14, <1>17, <1>22
  <2>2. Len(Number(0)) = 1 /\ Number(0)[1] = 0 /\ 0 < Top
    BY <1>9, NumberParts
  <2>3. StandsAt(table, ptr + 1, Number(0)) /\ Len(Number(m)) = 2
    <3>1. m >= Top
      BY <1>9, <1>22
    <3>2. StandsAt(table, ptr + 1, Number(m - Top)) /\ Len(Number(m)) = Len(Number(m - Top)) + 1
      BY <1>12, <3>1
    <3>3. StandsAt(table, ptr + 1, Number(0)) /\ Len(Number(m)) = Len(Number(0)) + 1
      BY <2>1, <3>2, Zenon
    <3>4. Len(Number(0)) + 1 = 2
      <4>1. 1 + 1 = 2
        OBVIOUS
      <4> QED BY <2>2, <4>1, Zenon
    <3> QED BY <3>3, <3>4, Zenon
  <2>4. table[ptr + 1] = 0
    <3>1. ptr + 1 \in Int
      BY <1>11
    <3> QED BY <1>3, <2>2, <2>3, <3>1, StandsFirst
  <2>5. NumbersAt(t)[i + 1] = ptr + 2
    BY <1>6, <2>3
  <2>6. i # n
    <3>1. ptr + 1 \in Int /\ (ptr + 1) + 1 = ptr + 2
      BY <1>11
    <3> QED BY <1>1, <1>7, <2>4, <2>5, <3>1, LastNumber
  <2>7. pc' = "pointers" /\ ptr' = ptr + 2 /\ fixing' = ~fixing
    BY <1>1, <1>g, <2>1, <2>4
  <2> QED BY <1>19, <2>1, <2>5, <2>6, <2>7
<1>23. CASE m > Top
  <2>1. PICK r \in Nat \ {0} : r = m - Top
    BY <1>9, <1>23
  <2>2. /\ StandsAt(table, ptr + 1, Number(r)) /\ Len(Number(m)) = Len(Number(r)) + 1
    BY <1>9, <1>12, <1>23, <2>1
  <2>3. table[ptr + 1] # 0
    <3>1. ptr + 1 \in Int
      BY <1>11
    <3>2. table[ptr + 1] = IF r < Top THEN r ELSE Top
      BY <1>1, <2>1, <2>2, <3>1, NumberAhead
    <3> QED BY <1>9, <2>1, <3>2
  <2>4. x = Top /\ word' = hi - r
    BY <1>6, <1>9, <1>10, <1>14, <1>17, <1>23, <2>1
  <2>5. pc' = "pointers" /\ ptr' = ptr + 1 /\ fixing' = fixing
    BY <1>1, <1>g, <2>3, <2>4
  <2>6. (ptr + 1) + Len(Number(r)) = NumbersAt(t)[i + 1]
    <3>1. Len(Number(r)) \in Nat
      BY NumberBegins
    <3> QED BY <1>6, <1>11, <2>2, <3>1
  <2>7. AtNumber(t, i, r)'
    <3>1. NumbersAt(t)' = NumbersAt(t) /\ table' = table
      BY <1>17, PlacesStay DEF SameTable
    <3> QED BY <1>6, <1>10, <1>17, <1>18, <2>2, <2>4, <2>5, <2>6, <3>1 DEF AtNumber
  <2>8. r \in 1 .. GapTo(t, i)'
    <3>1. GapTo(t, i)' = GapTo(t, i)
      BY <1>17, PlacesStay
    <3>2. r <= GapTo(t, i)
      BY <1>4, <1>5, <1>9, <2>1
    <3> QED BY <1>4, <3>1, <3>2
  <2> QED BY <2>5, <2>7, <2>8 DEF ReadInv
<1> QED BY <1>9, <1>21, <1>22, <1>23

-----------------------------------------------------------------------------
(* The symbols of a table                                                  *)

(* A reader that has come to the kth entry of a table, or to its end. *)
LEMMA NextEntry ==
  ASSUME TableTypeOK, NEW t, Given(t), NEW k \in 1 .. Len(t.symbols) + 1
  PROVE  /\ EntriesAt(t)[k] \in 1 .. Len(table)
         /\ k <= Len(t.symbols) =>
              /\ k \in 1 .. Len(t.symbols)
              /\ IsEntry(version, t.symbols[k])
              /\ EntryStands(table, version, t.symbols[k], EntriesAt(t)[k], SeeksAt(t, k))
              /\ EntriesAt(t)[k + 1] = SeeksAt(t, k)[Len(t.symbols[k].words) + 1] + 1
         /\ k = Len(t.symbols) + 1 =>
              table[EntriesAt(t)[k]] = 0 /\ EntriesAt(t)[k] = from + Len(Table(version, t)) - 1
<1>1. /\ version \in Versions /\ IsWritten(version, t) /\ from \in Int /\ Len(table) \in Nat
      /\ TableStands(table, version, t, from, NumbersAt(t), EntriesAt(t))
  BY GivenStands
<1>2. PICK n \in Nat : n = Len(t.symbols)
  BY <1>1, EntriesOfTable
<1>3. CASE k = n + 1
  BY <1>1, <1>2, <1>3 DEF TableStands
<1>4. CASE k # n + 1
  <2>1. k \in 1 .. n /\ k \in 1 .. n + 1 /\ k \in 1 .. Len(t.symbols)
    BY <1>2, <1>4
  <2>a. PICK at \in Int : at = EntriesAt(t)[k]
    BY <1>1, <1>2, <2>1 DEF TableStands
  <2>b. PICK e, P : e = t.symbols[k] /\ P = SeeksAt(t, k)
    OBVIOUS
  <2>2. e = t.symbols[k] /\ at = EntriesAt(t)[k] /\ P = SeeksAt(t, k)
    BY <2>a, <2>b
  <2>3. IsEntry(version, e)
    BY <1>1, <2>1, <2>2, EntriesOfTable
  <2>4. StandsAt(table, at, Entry(version, e)) /\ EntriesAt(t)[k + 1] = at + Len(Entry(version, e))
    BY <1>1, <1>2, <2>1, <2>2 DEF TableStands
  <2>5. P = SeekAt(version, e, at)
    BY <2>2 DEF SeeksAt
  <2>6. EntryStands(table, version, e, at, P)
    BY <1>1, <2>3, <2>4, <2>5, EntryIsThere
  <2>7. at \in 1 .. Len(table) /\ at + Len(Entry(version, e)) = P[Len(e.words) + 1] + 1
    BY <2>6 DEF EntryStands
  <2> QED BY <1>2, <1>4, <2>1, <2>2, <2>3, <2>4, <2>6, <2>7
<1> QED BY <1>3, <1>4

(* The same of the jth reference of an entry. *)
LEMMA NextSeek ==
  ASSUME TableTypeOK, NEW t, Given(t), NEW k \in 1 .. Len(t.symbols),
         NEW j \in 1 .. Len(t.symbols[k].words) + 1
  PROVE  /\ SeeksAt(t, k)[j] \in 1 .. Len(table)
         /\ j <= Len(t.symbols[k].words) =>
              /\ j \in 1 .. Len(t.symbols[k].words)
              /\ Gap(t.symbols[k].words, j, 0) \in Nat
              /\ Fits(version, Gap(t.symbols[k].words, j, 0))
              /\ t.symbols[k].words[j] \in Nat
              /\ t.symbols[k].words[j] = (IF j = 1 THEN 0 ELSE t.symbols[k].words[j - 1])
                                           + Gap(t.symbols[k].words, j, 0)
              /\ StandsAt(table, SeeksAt(t, k)[j], Seek(version, Gap(t.symbols[k].words, j, 0)))
              /\ SeeksAt(t, k)[j + 1]
                   = SeeksAt(t, k)[j] + Len(Seek(version, Gap(t.symbols[k].words, j, 0)))
              /\ j > 1 => table[SeeksAt(t, k)[j]] # 0
         /\ j = Len(t.symbols[k].words) + 1 =>
              /\ table[SeeksAt(t, k)[j]] = 0
              /\ EntriesAt(t)[k + 1] = SeeksAt(t, k)[j] + 1
<1>1. Len(table) \in Nat /\ version \in Versions
  BY GivenStands
<1>2. PICK e, P : e = t.symbols[k] /\ P = SeeksAt(t, k)
  OBVIOUS
<1>3. /\ IsEntry(version, e)
      /\ EntryStands(table, version, e, EntriesAt(t)[k], P)
      /\ EntriesAt(t)[k + 1] = P[Len(e.words) + 1] + 1
  <2>1. Len(t.symbols) \in Nat
    BY GivenStands, EntriesOfTable
  <2>2. k \in 1 .. Len(t.symbols) + 1 /\ k <= Len(t.symbols)
    BY <2>1
  <2> QED BY <1>2, <2>2, NextEntry
<1>4. PICK n \in Nat \ {0} : n = Len(e.words)
  BY <1>3 DEF IsEntry
<1>5. CASE j = n + 1
  <2>1. P[n + 1] \in 1 .. Len(table) /\ table[P[n + 1]] = 0
    BY <1>3, <1>4 DEF EntryStands
  <2> QED BY <1>2, <1>3, <1>4, <1>5, <2>1
<1>6. CASE j # n + 1
  <2>1. j \in 1 .. n /\ j \in 1 .. n + 1
    BY <1>2, <1>4, <1>6
  <2>2. PICK g \in Nat : /\ g = Gap(e.words, j, 0) /\ Fits(version, g) /\ e.words[j] \in Nat
                         /\ e.words[j] = (IF j = 1 THEN 0 ELSE e.words[j - 1]) + g
                         /\ j > 1 => g > 0
    BY <1>3, <1>4, <2>1 DEF IsEntry
  <2>3. PICK p \in Int : p = P[j]
    BY <1>3, <1>4, <2>1 DEF EntryStands
  <2>4. StandsAt(table, p, Seek(version, g)) /\ P[j + 1] = p + Len(Seek(version, g))
    BY <1>3, <1>4, <2>1, <2>2, <2>3 DEF EntryStands
  <2>5. Len(Seek(version, g)) \in Nat \ {0} /\ (g > 0 => Seek(version, g)[1] # 0)
    BY <2>2, SeekBegins
  <2>6. p \in 1 .. Len(table) /\ table[p] = Seek(version, g)[1]
    BY <1>1, <2>4, <2>5, StandsFirst
  <2> QED BY <1>2, <1>4, <1>6, <2>1, <2>2, <2>3, <2>4, <2>5, <2>6
<1> QED BY <1>5, <1>6

LEMMA ReadSymbolReads ==
  ASSUME VisitInv, NEW t, Given(t), ReadInv(t), ReadSymbol
  PROVE  ReadInv(t)'
<1>1. TableTypeOK /\ version \in Versions /\ IsWritten(version, t)
  <2>1. TableTypeOK
    BY DEF VisitInv
  <2> QED BY <2>1, GivenStands
<1>2. PICK k \in 1 .. Len(t.symbols) + 1 : AtEntry(t, k)
  BY DEF ReadInv, ReadSymbol
<1>3. PICK n \in Nat : n = Len(t.symbols)
  BY <1>1, EntriesOfTable
<1>4. ptr = EntriesAt(t)[k] /\ AllPointers(t) /\ NamesAre(t, k - 1) /\ LinksAre(t, k, 1)
  BY <1>2 DEF AtEntry
<1>5. k \in 1 .. n
  <2>1. k # n + 1
    BY <1>1, <1>2, <1>3, <1>4, NextEntry DEF ReadSymbol
  <2> QED BY <1>3, <2>1
<1>6. /\ IsEntry(version, t.symbols[k])
      /\ EntryStands(table, version, t.symbols[k], ptr, SeeksAt(t, k))
  <2>1. k <= Len(t.symbols)
    BY <1>3, <1>5
  <2> QED BY <1>1, <1>2, <1>4, <2>1, NextEntry
<1>7. /\ table[ptr] = -t.symbols[k].name /\ SeeksAt(t, k)[1] = ptr + 1
      /\ t.symbols[k].name \in Nat /\ Len(t.symbols[k].words) \in Nat \ {0}
  BY <1>6 DEF EntryStands, IsEntry
<1>8. PICK x \in Nat : x = t.symbols[k].name
  BY <1>7
<1>9. /\ pc' = "references" /\ word' = 0 /\ ptr' = SeeksAt(t, k)[1] /\ SameTable
      /\ symbols' = Append(symbols, x)
      /\ UNCHANGED <<pointers, links>>
  <2>1. -table[ptr] = x
    BY <1>7, <1>8
  <2> QED BY <1>7, <2>1 DEF ReadSymbol, SameTable, file
<1>10. NamesAre(t, k)'
  <2>1. symbols \in Seq(Nat)
    BY <1>1 DEF TableTypeOK
  <2>2. PICK l \in Nat : l = k - 1
    BY <1>5
  <2>3. Len(symbols) = l /\ \A y \in 1 .. l : symbols[y] = t.symbols[y].name
    BY <1>4, <2>2 DEF NamesAre
  <2>4. /\ Len(symbols') = l + 1 /\ symbols'[l + 1] = x
        /\ \A y \in 1 .. l : symbols'[y] = symbols[y]
    BY <1>9, <2>1, <2>3
  <2>5. k = l + 1 /\ \A y \in 1 .. k : y \in 1 .. l \/ y = k
    BY <2>2
  <2> QED BY <1>8, <2>3, <2>4, <2>5 DEF NamesAre
<1>11. AllPointers(t)' /\ LinksAre(t, k, 1)'
  BY <1>4, <1>9 DEF AllPointers, LinksAre
<1>12. AtReference(t, k, 1)'
  BY <1>9, <1>10, <1>11, PlacesStay DEF AtReference
<1>13. 1 \in 1 .. Len(t.symbols[k].words) /\ k \in 1 .. Len(t.symbols)
  BY <1>3, <1>5, <1>7
<1> QED BY <1>9, <1>12, <1>13 DEF ReadInv

LEMMA NoMoreSymbolsReads ==
  ASSUME VisitInv, NEW t, Given(t), ReadInv(t), NoMoreSymbols
  PROVE  ReadInv(t)'
<1>1. TableTypeOK /\ version \in Versions /\ IsWritten(version, t)
  <2>1. TableTypeOK
    BY DEF VisitInv
  <2> QED BY <2>1, GivenStands
<1>2. PICK k \in 1 .. Len(t.symbols) + 1 : AtEntry(t, k)
  BY DEF ReadInv, NoMoreSymbols
<1>3. PICK n \in Nat : n = Len(t.symbols) /\ DOMAIN t.symbols = 1 .. n
  BY <1>1, EntriesOfTable
<1>4. ptr = EntriesAt(t)[k] /\ AllPointers(t) /\ NamesAre(t, k - 1) /\ LinksAre(t, k, 1)
  BY <1>2 DEF AtEntry
<1>5. Ahead(1)
  <2>1. ptr \in 1 .. Len(table) /\ Len(table) \in Nat
    BY <1>1, <1>2, <1>4, NextEntry, TableFacts
  <2> QED BY <1>1, <2>1, TableFacts
<1>6. CASE k # n + 1
  <2>1. k <= Len(t.symbols)
    BY <1>3, <1>6
  <2>2. /\ IsEntry(version, t.symbols[k])
        /\ EntryStands(table, version, t.symbols[k], ptr, SeeksAt(t, k))
    BY <1>1, <1>2, <1>4, <2>1, NextEntry
  <2>3. PICK m \in Nat \ {0} : table[ptr] = -m
    BY <2>2 DEF EntryStands, IsEntry
  <2>4. ~(table[ptr] > 0) /\ table[ptr] # 0
    BY <2>3
  <2> QED BY <1>5, <2>4 DEF NoMoreSymbols
<1>7. CASE k = n + 1
  <2>1. table[ptr] = 0 /\ ptr = from + Len(Table(version, t)) - 1
    BY <1>1, <1>2, <1>3, <1>4, <1>7, NextEntry
  <2>2. ~(table[ptr] > 0)
    BY <2>1
  <2>3. /\ pc' = "done"
        /\ UNCHANGED <<version, table, from, ptr, pointers, symbols, links>>
    BY <1>5, <2>2 DEF NoMoreSymbols, file
  <2>4. k - 1 = n
    BY <1>3, <1>7
  <2>5. {pointers[i] : i \in DOMAIN pointers} = PointerWords(t)
    <3> DEFINE L == {pointers[i] : i \in DOMAIN pointers}
               R == PointerWords(t)
    <3>4. \A x \in Int : x \in R <=> InRuns(t, x)
      BY <1>1, RunWords
    <3>5. L \subseteq Int /\ R \subseteq Int
      <4>1. \A i \in DOMAIN pointers : pointers[i] \in Int
        BY <1>1 DEF TableTypeOK
      <4>2. R \subseteq Int
        BY DEF PointerWords
      <4> QED BY <4>1, <4>2
    <3>6. \A x \in Int : x \in L <=> InRuns(t, x)
      BY <1>4 DEF AllPointers
    <3> HIDE DEF L, R
    <3>7. L = R
      BY <3>4, <3>5, <3>6
    <3> QED BY <3>7 DEF L, R
  <2>6. symbols = [x \in DOMAIN t.symbols |-> t.symbols[x].name]
    <3>1. Len(symbols) = n /\ \A x \in 1 .. n : symbols[x] = t.symbols[x].name
      BY <1>4, <2>4 DEF NamesAre
    <3>2. symbols = [x \in 1 .. n |-> symbols[x]]
      BY <1>1, <3>1 DEF TableTypeOK
    <3> QED BY <1>3, <3>1, <3>2
  <2>7. {links[i] : i \in DOMAIN links}
          = UNION {{<<x, t.symbols[x].words[j]>> : j \in DOMAIN t.symbols[x].words} :
                     x \in DOMAIN t.symbols}
    <3>1. \A x \in 1 .. n : DOMAIN t.symbols[x].words = 1 .. Len(t.symbols[x].words)
      BY <1>1, <1>3, EntriesOfTable DEF IsEntry
    <3>2. ASSUME NEW l
          PROVE  IsReference(t, k, 1, l) <=>
                   \E x \in 1 .. n : \E y \in 1 .. Len(t.symbols[x].words) :
                     l = <<x, t.symbols[x].words[y]>>
      <4>1. \A x \in 1 .. n : x < k
        BY <1>3, <1>7
      <4> QED BY <1>3, <4>1 DEF IsReference
    <3>3. \A l : l \in {links[i] : i \in DOMAIN links} <=> IsReference(t, k, 1, l)
      BY <1>4 DEF LinksAre
    <3>4. ASSUME NEW l
          PROVE  l \in UNION {{<<x, t.symbols[x].words[j]>> : j \in DOMAIN t.symbols[x].words} :
                                x \in DOMAIN t.symbols}
                   <=> IsReference(t, k, 1, l)
      <4>1. IsReference(t, k, 1, l) <=>
              \E x \in DOMAIN t.symbols : \E y \in DOMAIN t.symbols[x].words :
                l = <<x, t.symbols[x].words[y]>>
        BY <1>3, <3>1, <3>2
      <4> DEFINE Of(x) == {<<x, t.symbols[x].words[j]>> : j \in DOMAIN t.symbols[x].words}
      <4>2. \A x \in DOMAIN t.symbols :
              l \in Of(x) <=> \E y \in DOMAIN t.symbols[x].words : l = <<x, t.symbols[x].words[y]>>
        OBVIOUS
      <4> HIDE DEF Of
      <4>3. l \in UNION {Of(x) : x \in DOMAIN t.symbols}
              <=> \E x \in DOMAIN t.symbols : l \in Of(x)
        OBVIOUS
      <4>4. l \in UNION {Of(x) : x \in DOMAIN t.symbols} <=> IsReference(t, k, 1, l)
        BY <4>1, <4>2, <4>3
      <4> QED BY <4>4 DEF Of
    <3> QED BY <3>3, <3>4
  <2>8. LinkedIs(t)'
    BY <2>3, <2>5, <2>6, <2>7 DEF LinkedIs
  <2> QED BY <2>1, <2>3, <2>8 DEF ReadInv
<1> QED BY <1>6, <1>7

-----------------------------------------------------------------------------
(* The references of a symbol                                              *)

(* A seek that stands where the reader is, as the two readers take it.      *)
LEMMA SeekStands ==
  ASSUME TableTypeOK, pc = "references", NEW n \in Nat, Fits(version, n),
         StandsAt(table, ptr, Seek(version, n)),
         ptr + Len(Seek(version, n)) <= Len(table)
  PROVE  /\ version = 3 => /\ Seek3Is(Len(Number(n)))
                           /\ \A width \in 1 .. Len(table) : Seek3Is(width) =>
                                /\ width = Len(Number(n))
                                /\ Top * (width - 1) + table[ptr + width - 1] = n
         /\ version # 3 => /\ Seek2Is(Len(SeekBytes(n)))
                           /\ \A width \in 1 .. 4 : Seek2Is(width) =>
                                width = Len(SeekBytes(n)) /\ Seek2(width) = n
         /\ Len(Seek(version, n)) \in 1 .. Len(table)
<1>1. Len(table) \in Nat /\ ptr \in Int
      /\ \A i \in Nat : Ahead(i) <=> 1 <= ptr /\ ptr + i - 1 <= Len(table)
  BY TableFacts
<1>2. PICK l \in Nat \ {0} : l = Len(Seek(version, n))
  BY SeekBegins
<1>a. ptr \in Int
  BY <1>1
<1>b. 1 <= ptr /\ \A i \in 1 .. l : table[ptr + i - 1] = Seek(version, n)[i]
  BY <1>2 DEF StandsAt
<1>c. PICK size \in Nat : size = Len(table)
  BY <1>1
<1>d. ptr + l <= size
  BY <1>2, <1>c
<1>e. l \in 1 .. size
  BY <1>a, <1>b, <1>d
<1>3. 1 <= ptr /\ ptr + l <= Len(table) /\ l \in 1 .. Len(table)
      /\ \A i \in 1 .. l : table[ptr + i - 1] = Seek(version, n)[i]
  BY <1>b, <1>c, <1>d, <1>e
<1>4. Ahead(l + 1)
  BY <1>1, <1>3
<1>5. CASE version = 3
  <2>1. PICK q \in Nat, r \in 0 .. Top - 1 :
          /\ q = n \div Top /\ r = n % Top /\ n = Top * q + r
          /\ l = q + 1
          /\ \A i \in 1 .. q : Number(n)[i] = Top
          /\ Number(n)[q + 1] = r
    BY <1>2, <1>5, NumberBytes DEF Seek
  <2>a. l = q + 1
    BY <2>1
  <2>2. \A i \in 1 .. l : table[ptr + i - 1] = Number(n)[i]
    BY <1>3, <1>5 DEF Seek
  <2>3. \A i \in 0 .. q - 1 : table[ptr + i] = Top
    <3> SUFFICES ASSUME NEW i \in 0 .. q - 1 PROVE table[ptr + i] = Top
      OBVIOUS
    <3>1. i + 1 \in 1 .. q /\ i + 1 \in 1 .. l /\ ptr + (i + 1) - 1 = ptr + i
      BY <1>a, <2>a
    <3> QED BY <2>1, <2>2, <3>1
  <2>4. table[ptr + q] = r
    <3>1. q + 1 \in 1 .. l /\ ptr + (q + 1) - 1 = ptr + q
      BY <1>a, <2>a
    <3> QED BY <2>1, <2>2, <3>1
  <2>5. Top \in Nat /\ r # Top /\ r \in 0 .. Top - 1
    BY <2>1, TopIs
  <2>6. Seek3Is(l)
    <3>1. l - 2 = q - 1 /\ ptr + l - 1 = ptr + q
      BY <1>a, <2>a
    <3> QED BY <1>4, <2>3, <2>4, <2>5, <3>1 DEF Seek3Is
  <2>7. ASSUME NEW width \in 1 .. Len(table), Seek3Is(width)
        PROVE  width = l /\ Top * (width - 1) + table[ptr + width - 1] = n
    <3>1. PICK w \in Nat : w = width - 1
      BY <1>1
    <3>2. /\ \A i \in 0 .. w - 1 : table[ptr + i] = Top
          /\ table[ptr + w] \in 0 .. Top - 1
      <4>1. width - 2 = w - 1 /\ ptr + width - 1 = ptr + w
        BY <1>1, <3>1
      <4> QED BY <2>7, <4>1 DEF Seek3Is
    <3>3. ~(w < q)
      <4> SUFFICES ASSUME w < q PROVE FALSE
        OBVIOUS
      <4>1. table[ptr + w] = Top
        BY <2>3
      <4> QED BY <2>5, <3>2, <4>1
    <3>4. ~(q < w)
      <4> SUFFICES ASSUME q < w PROVE FALSE
        OBVIOUS
      <4>1. q \in 0 .. w - 1
        OBVIOUS
      <4>2. table[ptr + q] = Top
        BY <3>2, <4>1
      <4> QED BY <2>4, <2>5, <4>2
    <3>5. w = q
      BY <3>3, <3>4
    <3>6. width = l /\ ptr + width - 1 = ptr + q /\ width - 1 = q
      <4>1. width \in Int
        BY <1>1
      <4> QED BY <1>a, <2>a, <3>1, <3>5, <4>1
    <3> QED BY <2>1, <2>4, <3>6
  <2> QED BY <1>2, <1>3, <1>5, <2>6, <2>7 DEF Seek
<1>6. CASE version # 3
  <2>1. PICK s : s = SeekBytes(n)
    OBVIOUS
  <2>2. /\ l = Len(s) /\ l \in 1 .. 4
        /\ \A i \in 1 .. l : s[i] \in Nat
        /\ Width2(s[1]) = l
        /\ LittleEndian(s) = n
    BY <1>2, <1>6, <2>1, SeekBytesRead DEF Seek, Fits
  <2>3. \A i \in 0 .. l - 1 : table[ptr + i] = s[i + 1]
    <3> SUFFICES ASSUME NEW i \in 0 .. l - 1 PROVE table[ptr + i] = s[i + 1]
      OBVIOUS
    <3>1. i + 1 \in 1 .. l /\ ptr + (i + 1) - 1 = ptr + i
      BY <1>1
    <3> QED BY <1>3, <1>6, <2>1, <3>1 DEF Seek
  <2>4. table[ptr] = s[1]
    <3>1. 1 \in 1 .. l /\ ptr + 1 - 1 = ptr
      BY <1>1
    <3> QED BY <1>3, <1>6, <2>1, <3>1 DEF Seek
  <2>5. Seek2Is(l)
    <3>1. \A i \in 0 .. l - 1 : table[ptr + i] >= 0
      <4> SUFFICES ASSUME NEW i \in 0 .. l - 1 PROVE table[ptr + i] >= 0
        OBVIOUS
      <4>1. i + 1 \in 1 .. l
        OBVIOUS
      <4>2. s[i + 1] \in Nat
        BY <2>2, <4>1
      <4> QED BY <2>3, <4>2
    <3> QED BY <1>4, <2>2, <2>4, <3>1 DEF Seek2Is
  <2>6. ASSUME NEW width \in 1 .. 4, Seek2Is(width)
        PROVE  width = l /\ Seek2(width) = n
    <3>1. width = l
      BY <2>2, <2>4, <2>6 DEF Seek2Is
    <3>2. PICK f, g : /\ f = [i \in 0 .. 3 |-> IF i < l THEN table[ptr + i] ELSE 0]
                      /\ g = [i \in 0 .. 3 |-> IF i < l THEN s[i + 1] ELSE 0]
      OBVIOUS
    <3>3. \A i \in 0 .. 3 : f[i] = g[i]
      <4> SUFFICES ASSUME NEW i \in 0 .. 3 PROVE f[i] = g[i]
        OBVIOUS
      <4>1. i < l => i \in 0 .. l - 1
        BY <2>2
      <4> QED BY <2>3, <3>2, <4>1
    <3>4. Seek2(width) = (f[0] + Base * (f[1] + Base * (f[2] + Base * f[3]))) \div 4
      BY <3>1, <3>2 DEF Seek2
    <3>5. LittleEndian(s) = (g[0] + Base * (g[1] + Base * (g[2] + Base * g[3]))) \div 4
      BY <2>2, <3>2 DEF LittleEndian
    <3>6. f[0] = g[0] /\ f[1] = g[1] /\ f[2] = g[2] /\ f[3] = g[3]
      BY <3>3
    <3> QED BY <2>2, <3>1, <3>4, <3>5, <3>6, Zenon
  <2> QED BY <1>2, <1>3, <1>6, <2>1, <2>2, <2>5, <2>6
<1> QED BY <1>5, <1>6

LEMMA ReferReads ==
  ASSUME VisitInv, NEW t, Given(t),
         NEW k \in 1 .. Len(t.symbols), NEW j \in 1 .. Len(t.symbols[k].words),
         AtReference(t, k, j), pc = "references",
         NEW seek, seek = Gap(t.symbols[k].words, j, 0),
         NEW width, width = Len(Seek(version, seek)), Refer(seek, width)
  PROVE  ReadInv(t)'
<1>1. TableTypeOK /\ version \in Versions /\ IsWritten(version, t) /\ Len(table) \in Nat
  <2>1. TableTypeOK
    BY DEF VisitInv
  <2> QED BY <2>1, GivenStands
<1>a. PICK words : words = t.symbols[k].words
  OBVIOUS
<1>b. PICK n \in Nat \ {0} : n = Len(words)
  BY <1>1, <1>a, EntriesOfTable DEF IsEntry
<1>2. words = t.symbols[k].words /\ n = Len(words)
  BY <1>a, <1>b
<1>3. j \in 1 .. n + 1 /\ j + 1 \in 1 .. n + 1 /\ j \in 1 .. n
  BY <1>2
<1>4. /\ ptr = SeeksAt(t, k)[j]
      /\ word = IF j = 1 THEN 0 ELSE words[j - 1]
      /\ AllPointers(t) /\ NamesAre(t, k) /\ LinksAre(t, k, j)
  BY <1>2 DEF AtReference
<1>5. /\ words[j] \in Nat
      /\ word + seek = words[j]
      /\ SeeksAt(t, k)[j + 1] = ptr + width
  <2>1. j \in 1 .. Len(t.symbols[k].words) + 1 /\ j <= Len(t.symbols[k].words)
    BY <1>2, <1>3
  <2>2. /\ t.symbols[k].words[j] \in Nat
        /\ t.symbols[k].words[j] = (IF j = 1 THEN 0 ELSE t.symbols[k].words[j - 1]) + seek
        /\ SeeksAt(t, k)[j + 1] = SeeksAt(t, k)[j] + width
    BY <1>1, <2>1, NextSeek
  <2> QED BY <1>2, <1>4, <2>2, Zenon
<1>6. PICK x \in Nat : x = words[j]
  BY <1>5
<1>c. /\ fits = TRUE /\ limit \in Nat /\ 2 * limit <= Words /\ Words \in Nat
      /\ x < limit /\ ~InRuns(t, x)
      /\ \A m \in 1 .. Len(t.symbols) : \A i \in 1 .. Len(t.symbols[m].words) :
           m # k => x # t.symbols[m].words[i]
  <2>1. Words \in Nat
    BY WrapIs
  <2>2. /\ fits = TRUE /\ limit \in Nat /\ 2 * limit <= Words
        /\ \A h \in 1 .. Len(t.symbols) : \A l \in 1 .. Len(t.symbols[h].words) :
             /\ t.symbols[h].words[l] < limit
             /\ ~InRuns(t, t.symbols[h].words[l])
             /\ \A m \in 1 .. Len(t.symbols) : \A i \in 1 .. Len(t.symbols[m].words) :
                  m # h => t.symbols[h].words[l] # t.symbols[m].words[i]
    BY <1>1, GivenSegment
  <2> QED BY <1>2, <1>6, <2>1, <2>2
<1>d. Onward(seek) = x /\ InSegment(x)
  <2>1. word \in Int /\ seek \in Int
    <3>1. word \in Int
      BY <1>1 DEF TableTypeOK
    <3>2. IsEntry(version, t.symbols[k])
      BY <1>1, EntriesOfTable
    <3>3. seek \in Nat
      BY <3>2 DEF IsEntry
    <3> QED BY <3>1, <3>3
  <2>2. 0 <= word + seek /\ word + seek < Words
    BY <1>5, <1>6, <1>c
  <2>3. Onward(seek) = word + seek
    BY <2>1, <2>2, OnwardIs
  <2> QED BY <1>5, <1>6, <1>c, <2>3 DEF InSegment
(* No pointer and no reference before it is at this word. *)
<1>e. ~LinkedAlready(x)
  <2>1. \A i \in DOMAIN pointers : pointers[i] # x
    BY <1>4, <1>6, <1>c DEF AllPointers
  <2>2. ASSUME NEW i \in DOMAIN links, links[i][2] = x
        PROVE  FALSE
    <3>1. IsReference(t, k, j, links[i])
      BY <1>4, <2>2 DEF LinksAre
    <3>a. PICK m \in 1 .. Len(t.symbols) :
            \E y \in 1 .. Len(t.symbols[m].words) :
              links[i] = <<m, t.symbols[m].words[y]>> /\ (m < k \/ (m = k /\ y < j))
      BY <3>1 DEF IsReference
    <3>2. PICK y \in 1 .. Len(t.symbols[m].words) :
            links[i] = <<m, t.symbols[m].words[y]>> /\ (m < k \/ (m = k /\ y < j))
      BY <3>a
    <3>3. x = t.symbols[m].words[y]
      BY <2>2, <3>2
    <3>4. m = k
      BY <1>c, <3>3
    <3>5. y < j /\ y \in 1 .. n
      <4>1. k \in Nat
        BY <1>1, EntriesOfTable
      <4> QED BY <1>2, <3>2, <3>4, <4>1
    <3>6. words \in Seq(Nat) /\ Ascending(words)
      <4>1. IsEntry(version, t.symbols[k]) /\ k \in DOMAIN t.symbols
        BY <1>1, EntriesOfTable
      <4> QED BY <1>1, <1>2, <4>1 DEF IsEntry, IsWritten
    <3>7. words[y] < words[j]
      BY <1>2, <1>3, <3>5, <3>6, AscendsThroughout
    <3> QED BY <1>2, <1>6, <3>3, <3>4, <3>7
  <2> QED BY <2>1, <2>2 DEF LinkedAlready
<1>f. ~Refused(<<x>>)
  <2>1. \A i \in DOMAIN <<x>> : <<x>>[i] = x
    OBVIOUS
  <2> QED BY <1>c, <1>d, <1>e, <2>1 DEF Refused
<1>7. /\ word' = x /\ links' = Append(links, <<k, x>>) /\ SameTable
      /\ UNCHANGED <<pointers, symbols>>
  <2>1. Len(symbols) = k
    BY <1>4 DEF NamesAre
  <2>2. /\ word' = x /\ links' = Append(links, <<k, x>>)
        /\ UNCHANGED <<file, limit, from, pointers, symbols>>
    BY <1>d, <1>f, <2>1, Zenon DEF Refer
  <2> QED BY <2>2 DEF SameTable, file
<1>g. IF table[ptr + width] = 0
      THEN pc' = "symbols" /\ ptr' = ptr + width + 1
      ELSE pc' = pc /\ ptr' = ptr + width
  BY <1>d, <1>f DEF Refer
<1>8. AllPointers(t)' /\ NamesAre(t, k)'
  BY <1>4, <1>7 DEF AllPointers, NamesAre
<1>9. LinksAre(t, k, j + 1)'
  <2>1. PICK u : u = <<k, x>>
    OBVIOUS
  <2>2. PICK l \in Nat : l = Len(links) /\ DOMAIN links = 1 .. l
    BY <1>1 DEF TableTypeOK
  <2>3. /\ DOMAIN links' = 1 .. l + 1 /\ links'[l + 1] = u
        /\ \A y \in 1 .. l : links'[y] = links[y]
    <3>1. links \in Seq(Nat \X Nat) /\ u \in Nat \X Nat
      <4>1. k \in Nat
        BY <1>1, EntriesOfTable
      <4> QED BY <1>1, <2>1, <4>1 DEF TableTypeOK
    <3>2. links' = Append(links, u)
      BY <1>7, <2>1
    <3> QED BY <2>2, <3>1, <3>2, AppendProperties
  <2>4. ASSUME NEW r
        PROVE  (\E y \in DOMAIN links' : links'[y] = r)
                 <=> (\E y \in DOMAIN links : links[y] = r) \/ r = u
    <3>1. \A y \in 1 .. l + 1 : y \in 1 .. l \/ y = l + 1
      OBVIOUS
    <3>2. \A y \in 1 .. l : y \in 1 .. l + 1
      OBVIOUS
    <3>3. l + 1 \in 1 .. l + 1
      OBVIOUS
    <3> QED BY <2>2, <2>3, <3>1, <3>2, <3>3, Zenon
  <2>5. ASSUME NEW r
        PROVE  IsReference(t, k, j + 1, r) <=> IsReference(t, k, j, r) \/ r = u
    <3>1. \A m \in 1 .. Len(t.symbols) :
            \A y \in 1 .. Len(t.symbols[m].words) : y < j + 1 <=> y < j \/ y = j
      <4>1. \A m \in 1 .. Len(t.symbols) : Len(t.symbols[m].words) \in Nat
        BY <1>1, EntriesOfTable DEF IsEntry
      <4> QED BY <1>2, <4>1
    <3>2. u = <<k, t.symbols[k].words[j]>> /\ ~(k < k)
      <4>1. k \in Nat
        BY <1>1, EntriesOfTable
      <4>2. ~(k < k)
        BY <4>1
      <4> QED BY <1>2, <1>6, <2>1, <4>2
    <3> QED BY <3>1, <3>2, Zenon DEF IsReference
  <2> QED BY <1>4, <2>4, <2>5 DEF LinksAre, IsReference
<1>10. CASE j # n
  <2>1. j + 1 <= Len(t.symbols[k].words) /\ j + 1 > 1
        /\ j + 1 \in 1 .. Len(t.symbols[k].words) + 1 /\ j + 1 \in 1 .. Len(t.symbols[k].words)
    BY <1>2, <1>3, <1>10
  <2>2. table[ptr + width] # 0
    <3>1. table[SeeksAt(t, k)[j + 1]] # 0
      BY <1>1, <2>1, NextSeek
    <3> QED BY <1>5, <3>1
  <2>3. pc' = "references" /\ ptr' = SeeksAt(t, k)[j + 1]
    BY <1>5, <1>g, <2>2
  <2>4. word' = IF j + 1 = 1 THEN 0 ELSE t.symbols[k].words[(j + 1) - 1]
    <3>1. j + 1 # 1 /\ (j + 1) - 1 = j
      BY <1>3
    <3> QED BY <1>2, <1>6, <1>7, <3>1
  <2>5. AtReference(t, k, j + 1)'
    BY <1>7, <1>8, <1>9, <2>3, <2>4, PlacesStay DEF AtReference
  <2> QED BY <2>1, <2>3, <2>5 DEF ReadInv
<1>11. CASE j = n
  <2>1. j + 1 = Len(t.symbols[k].words) + 1 /\ j + 1 \in 1 .. Len(t.symbols[k].words) + 1
    BY <1>2, <1>3, <1>11
  <2>2. table[SeeksAt(t, k)[j + 1]] = 0 /\ EntriesAt(t)[k + 1] = SeeksAt(t, k)[j + 1] + 1
    BY <1>1, <2>1, NextSeek
  <2>3. pc' = "symbols" /\ ptr' = EntriesAt(t)[k + 1]
    BY <1>5, <1>g, <2>2
  <2>4. k + 1 \in 1 .. Len(t.symbols) + 1 /\ (k + 1) - 1 = k
    BY <1>1, EntriesOfTable
  <2>5. LinksAre(t, k + 1, 1)'
    <3>1. ASSUME NEW m \in 1 .. Len(t.symbols), NEW y \in 1 .. Len(t.symbols[m].words)
          PROVE  (m < k \/ (m = k /\ y < j + 1)) <=> (m < k + 1 \/ (m = k + 1 /\ y < 1))
      <4>1. m \in Nat /\ k \in Nat /\ j \in Nat /\ Len(t.symbols[m].words) \in Nat
        BY <1>1, EntriesOfTable DEF IsEntry
      <4>2. m = k => y < j + 1
        BY <1>2, <1>11, <4>1
      <4>3. ~(y < 1)
        BY <4>1
      <4>4. m < k + 1 <=> m < k \/ m = k
        BY <4>1
      <4> QED BY <4>2, <4>3, <4>4
    <3>2. \A r : IsReference(t, k, j + 1, r) <=> IsReference(t, k + 1, 1, r)
      BY <3>1 DEF IsReference
    <3> QED BY <1>9, <3>2 DEF LinksAre, IsReference
  <2>6. AtEntry(t, k + 1)'
    BY <1>7, <1>8, <2>3, <2>4, <2>5, PlacesStay DEF AtEntry
  <2> QED BY <2>3, <2>4, <2>6 DEF ReadInv
<1> QED BY <1>3, <1>10, <1>11

LEMMA ReferenceReads ==
  ASSUME VisitInv, NEW t, Given(t), ReadInv(t),
         \/ \E width \in 1 .. Len(table) : Reference3(width)
         \/ \E width \in 1 .. 4 : Reference2(width)
         \/ NoReference
  PROVE  ReadInv(t)'
<1>1. TableTypeOK /\ version \in Versions /\ pc = "references"
  <2>1. TableTypeOK /\ pc = "references"
    BY DEF VisitInv, Reference3, Reference2, NoReference
  <2> QED BY <2>1, GivenStands
<1>a. PICK k \in 1 .. Len(t.symbols) :
        \E j \in 1 .. Len(t.symbols[k].words) : AtReference(t, k, j)
  BY <1>1 DEF ReadInv
<1>2. PICK j \in 1 .. Len(t.symbols[k].words) : AtReference(t, k, j)
  BY <1>a
<1>3. Len(t.symbols[k].words) \in Nat
  BY GivenStands, <1>1, EntriesOfTable DEF IsEntry
<1>4. PICK g : g = Gap(t.symbols[k].words, j, 0)
  OBVIOUS
<1>5. /\ g \in Nat /\ Fits(version, g) /\ StandsAt(table, ptr, Seek(version, g))
      /\ ptr + Len(Seek(version, g)) \in 1 .. Len(table)
  <2>1. j \in 1 .. Len(t.symbols[k].words) + 1 /\ j <= Len(t.symbols[k].words)
        /\ j + 1 \in 1 .. Len(t.symbols[k].words) + 1
    BY <1>3
  <2>2. /\ g \in Nat /\ Fits(version, g) /\ StandsAt(table, SeeksAt(t, k)[j], Seek(version, g))
        /\ SeeksAt(t, k)[j + 1] = SeeksAt(t, k)[j] + Len(Seek(version, g))
    BY <1>1, <1>4, <2>1, NextSeek
  <2>3. SeeksAt(t, k)[j + 1] \in 1 .. Len(table)
    BY <1>1, <2>1, NextSeek
  <2> QED BY <1>2, <2>2, <2>3 DEF AtReference
<1>6. ptr + Len(Seek(version, g)) <= Len(table)
  BY <1>5
<1>7. /\ version = 3 => /\ Seek3Is(Len(Number(g)))
                        /\ \A width \in 1 .. Len(table) : Seek3Is(width) =>
                             /\ width = Len(Number(g))
                             /\ Top * (width - 1) + table[ptr + width - 1] = g
      /\ version # 3 => /\ Seek2Is(Len(SeekBytes(g)))
                        /\ \A width \in 1 .. 4 : Seek2Is(width) =>
                             width = Len(SeekBytes(g)) /\ Seek2(width) = g
      /\ Len(Seek(version, g)) \in 1 .. Len(table)
  BY <1>1, <1>5, <1>6, SeekStands
<1>8. ASSUME NEW width \in 1 .. Len(table), Reference3(width)
      PROVE  ReadInv(t)'
  <2>1. version = 3 /\ Seek3Is(width)
        /\ Refer(Top * (width - 1) + table[ptr + width - 1], width)
    BY <1>8 DEF Reference3
  <2>2. width = Len(Seek(version, g)) /\ Refer(g, width)
    BY <1>7, <2>1 DEF Seek
  <2> QED BY <1>1, <1>2, <1>4, <2>2, ReferReads
<1>9. ASSUME NEW width \in 1 .. 4, Reference2(width)
      PROVE  ReadInv(t)'
  <2>1. version # 3 /\ Seek2Is(width) /\ Refer(Seek2(width), width)
    BY <1>9 DEF Reference2
  <2>2. width = Len(Seek(version, g)) /\ Refer(g, width)
    BY <1>7, <2>1 DEF Seek
  <2> QED BY <1>1, <1>2, <1>4, <2>2, ReferReads
<1>10. ~NoReference
  BY <1>7 DEF NoReference, Seek
<1> QED BY <1>8, <1>9, <1>10

LEMMA ReadTableReads ==
  ASSUME VisitInv, NEW t, Given(t), ReadInv(t), ReadTable
  PROVE  ReadInv(t)'
  BY StartReads, CountReads, ReadSymbolReads, NoMoreSymbolsReads, ReferenceReads DEF ReadTable

-----------------------------------------------------------------------------
(* Sizes and offsets                                                       *)

ThreeSegments == version # 4

LayoutType ==
  /\ header \in SegmentHeaders \cup SingleHeaders
  /\ version = header.version
  /\ step \in {"header", "segments", "accepted", "rejected", "abandoned"}
  /\ seg \in -1 .. 2
  /\ ends \in [Segs -> Int]
  /\ pushed \in [Segs -> Nat]
  /\ ThreeSegments => HeaderSize + Len(table) <= header.size

LEMMA InUInt32 == \A n \in UInt32 : n \in Nat /\ n < Wrap
  BY WrapIs DEF UInt32

LEMMA HeaderTypes ==
  ASSUME LayoutType
  PROVE  /\ ThreeSegments =>
              /\ header.length \in UInt32 /\ header.size \in UInt32
              /\ header.length \in Nat /\ header.size \in Nat
              /\ \A s \in Segs : /\ Info(s).relocs \in Nat /\ Info(s).data \in Nat
                                 /\ Info(s).size \in Nat /\ Info(s).size \in UInt32
         /\ ~ThreeSegments => header.code_size \in Nat
<1>1. CASE header \in SegmentHeaders
  <2>1. version # 4
    BY <1>1 DEF LayoutType, SegmentHeaders
  <2>2. /\ header.length \in UInt32 /\ header.size \in UInt32
        /\ \A s \in Segs : /\ Info(s).relocs \in UInt32 /\ Info(s).data \in UInt32
                           /\ Info(s).size \in UInt32
    BY <1>1 DEF SegmentHeaders, Info
  <2> QED BY <2>1, <2>2, InUInt32 DEF ThreeSegments
<1>2. CASE header \in SingleHeaders
  <2>1. version = 4 /\ header.code_size \in UInt32
    BY <1>2 DEF LayoutType, SingleHeaders
  <2> QED BY <2>1, InUInt32 DEF ThreeSegments
<1> QED BY <1>1, <1>2 DEF LayoutType

(* What wraps is in range, and what is in range does not wrap.              *)
LEMMA PlusIs ==
  ASSUME NEW a \in Int, NEW b \in Int
  PROVE  /\ Plus(a, b) \in UInt32
         /\ a + b \in UInt32 => Plus(a, b) = a + b
<1>1. PICK m \in Int : m = a + b
  OBVIOUS
<1>2. Plus(a, b) = m % Wrap
  BY <1>1 DEF Plus
<1>3. Wrap \in Nat \ {0}
  BY WrapIs
<1>4. m % Wrap \in 0 .. Wrap - 1
  BY <1>3
<1>5. m \in 0 .. Wrap - 1 => m % Wrap = m
  BY <1>3
<1> QED BY <1>1, <1>2, <1>4, <1>5 DEF UInt32

(* Numbers that are rounded up, and do not leave the range by that. *)
LEMMA LineIs ==
  ASSUME NEW n \in Nat
  PROVE  /\ Line(n) \in Nat /\ n <= Line(n) /\ Line(n) <= n + 15 /\ Line(n) % 16 = 0
         /\ align16(n) \in UInt32 /\ align16(n) % 16 = 0
         /\ Line(n) < Wrap => align16(n) = Line(n)
<1>1. PICK l \in Nat : l = Line(n) /\ n <= l /\ l <= n + 15 /\ l % 16 = 0
  BY DEF Line, AlignUp
<1>2. align16(n) = l % Wrap
  BY <1>1 DEF align16, Line
<1>3. PICK k \in Nat : Wrap = 16 * k /\ k > 0
  <2>1. Wrap \div 16 \in Nat /\ Wrap = 16 * (Wrap \div 16) /\ Wrap > 0
    BY WrapIs
  <2> QED BY <2>1
<1>4. PICK r \in 0 .. Wrap - 1, q \in Nat : r = l % Wrap /\ l = Wrap * q + r
  <2>1. Wrap \in Nat \ {0}
    BY WrapIs
  <2> QED BY <2>1, Divided
<1>5. r % 16 = 0
  <2>1. PICK m \in Nat : m = k * q
    BY TimesNat
  <2>2. Wrap * q = 16 * m
    BY <1>3, <2>1
  <2> QED BY <1>1, <1>4, <2>2
<1>6. l < Wrap => l % Wrap = l
  <2>1. Wrap \in Nat \ {0}
    BY WrapIs
  <2> QED BY <2>1
<1> QED BY <1>1, <1>2, <1>4, <1>5, <1>6 DEF UInt32

LEMMA WordsUp ==
  ASSUME NEW n \in Nat
  PROVE  /\ AlignUp(n, 4) \in Nat /\ n <= AlignUp(n, 4) /\ AlignUp(n, 4) <= n + 3
         /\ AlignUp(n, 4) % 4 = 0
         /\ AlignUp(n, 4) % Wrap \in UInt32
         /\ AlignUp(n, 4) < Wrap => AlignUp(n, 4) % Wrap = AlignUp(n, 4)
<1>1. PICK l \in Nat : l = AlignUp(n, 4) /\ n <= l /\ l <= n + 3 /\ l % 4 = 0
  BY DEF AlignUp
<1>2. Wrap \in Nat \ {0}
  BY WrapIs
<1>3. l % Wrap \in 0 .. Wrap - 1 /\ (l < Wrap => l % Wrap = l)
  BY <1>2
<1> QED BY <1>1, <1>3 DEF UInt32

LEMMA OffsetsTyped ==
  ASSUME LayoutType, ThreeSegments
  PROVE  \A s \in Segs : /\ DataOffset(s) \in UInt32 /\ LinkOffset(s) \in UInt32
                         /\ SegmentSize(s) \in UInt32 /\ LastWord(s) \in UInt32
                         /\ Info(s).size \in UInt32
<1> SUFFICES ASSUME NEW s \in Segs
             PROVE  /\ DataOffset(s) \in UInt32 /\ LinkOffset(s) \in UInt32
                    /\ SegmentSize(s) \in UInt32 /\ LastWord(s) \in UInt32
                    /\ Info(s).size \in UInt32
  OBVIOUS
<1>1. /\ header.length \in Nat /\ Info(s).relocs \in Nat /\ Info(s).data \in Nat
      /\ Info(s).size \in UInt32 /\ Info(s).size \in Nat
  BY HeaderTypes, InUInt32
<1>2. DataOffset(s) \in UInt32 /\ LinkOffset(s) \in UInt32
  BY <1>1, PlusIs DEF DataOffset, LinkOffset
<1>3. SegmentSize(s) \in UInt32
  <2>1. AlignUp(Info(s).size, 4) % Wrap \in UInt32
    BY <1>1, WordsUp
  <2>2. Plus(Info(s).size, 1) \in UInt32
    BY <1>1, PlusIs
  <2> QED BY <1>1, <2>1, <2>2, Zenon DEF SegmentSize
<1>4. LastWord(s) \in UInt32
  <2>1. DataOffset(s) - 4 \in Int /\ SegmentSize(s) \in Int
    BY <1>2, <1>3, InUInt32
  <2> QED BY <2>1, PlusIs DEF LastWord
<1> QED BY <1>1, <1>2, <1>3, <1>4

(* The words that are copied end where the last of them does, on a word.    *)
LEMMA CopyIs ==
  ASSUME LayoutType, ThreeSegments, NEW s \in Segs,
         DataOffset(s) % 4 = 0, SegmentSize(s) % 4 = 0
  PROVE  /\ WordsCopied(s) \in Nat
         /\ WordsCopied(s) # 0 => DataOffset(s) + 4 * WordsCopied(s) = LastWord(s) + 4
         /\ LastWord(s) % 4 = 0
<1>1. PICK a \in Nat, z \in Nat : a = DataOffset(s) /\ z = SegmentSize(s)
  BY OffsetsTyped, InUInt32
<1>2. LastWord(s) = (a - 4 + z) % Wrap
  BY <1>1 DEF LastWord, Plus
<1>3. PICK m \in Int : m = a - 4 + z /\ m >= -4 /\ m % 4 = 0
  BY <1>1
<1>4. PICK l \in Nat : l = LastWord(s) /\ l = m % Wrap
  BY <1>2, <1>3, OffsetsTyped, InUInt32
<1>5. l % 4 = 0
  <2>1. PICK w \in Nat \ {0}, u \in Nat : w = Wrap /\ u = Words /\ w = 4 * u
    BY WrapIs
  <2>2. PICK q \in Int : m = w * q + l
    <3>1. PICK q \in Int, r \in Int : q = m \div w /\ r = m % w
      BY <1>3, <2>1
    <3>2. m = w * q + r
      BY <1>3, <2>1, <3>1
    <3> QED BY <1>4, <2>1, <3>1, <3>2
  <2>3. PICK k \in Int : k = u * q
    BY <2>1, <2>2
  <2>4. w * q = 4 * k
    BY <2>1, <2>2, <2>3
  <2> QED BY <1>3, <1>4, <2>2, <2>4
<1>6. CASE l < a
  BY <1>1, <1>4, <1>5, <1>6 DEF WordsCopied
<1>7. CASE ~(l < a)
  <2>1. WordsCopied(s) = (l + 4 - a) \div 4
    BY <1>1, <1>4, <1>7 DEF WordsCopied
  <2>2. (l + 4 - a) % 4 = 0 /\ l + 4 - a \in Nat
    BY <1>1, <1>5, <1>7
  <2> QED BY <1>1, <1>4, <1>5, <1>7, <2>1, <2>2
<1> QED BY <1>6, <1>7

(* A segment whose sums do not wrap is at most three bytes longer than was  *)
(* said, and all of its words are copied.                                   *)
LEMMA CopyFits ==
  ASSUME LayoutType, ThreeSegments, NEW s \in Segs,
         header.length + Info(s).data + Info(s).size + 32 <= Wrap
  PROVE  /\ DataOffset(s) = header.length + Info(s).data
         /\ align16(Plus(DataOffset(s), Info(s).size)) = Line(DataOffset(s) + Info(s).size)
         /\ Line(DataOffset(s) + Info(s).size) + 32 <= Wrap
         /\ SegmentSize(s) % 4 = 0 =>
              Info(s).size <= SegmentSize(s) /\ SegmentSize(s) <= Info(s).size + 3
         /\ Info(s).size # 0 /\ DataOffset(s) % 4 = 0 /\ SegmentSize(s) % 4 = 0 =>
              /\ 4 * WordsCopied(s) = SegmentSize(s)
              /\ DataOffset(s) + SegmentSize(s) <= Line(DataOffset(s) + Info(s).size)
<1>1. PICK h \in Nat, d \in Nat, n \in Nat :
        h = header.length /\ d = Info(s).data /\ n = Info(s).size
  BY HeaderTypes
<1>2. PICK w \in Nat : w = Wrap /\ w % 16 = 0 /\ h + d + n + 32 <= w
  BY <1>1, WrapIs
<1>3. \A i \in Nat : i < w => i \in UInt32
  BY <1>2 DEF UInt32
<1>4. DataOffset(s) = h + d /\ Plus(h + d, n) = h + d + n
  BY <1>1, <1>2, <1>3, PlusIs DEF DataOffset
<1>5. PICK l \in Nat : l = Line(h + d + n) /\ h + d + n <= l /\ l <= h + d + n + 15 /\ l % 16 = 0
  BY LineIs
<1>6. l + 32 <= w
  BY <1>2, <1>5
<1>7. align16(h + d + n) = l
  <2>1. PICK m \in Nat : m = h + d + n
    OBVIOUS
  <2>2. l = Line(m) /\ l < Wrap
    BY <1>2, <1>5, <1>6, <2>1
  <2> QED BY <2>1, <2>2, LineIs
<1>8. PICK z \in Nat : z = SegmentSize(s)
  BY OffsetsTyped, InUInt32
<1>9. z % 4 = 0 => n <= z /\ z <= n + 3
  <2>1. AlignUp(n, 4) % Wrap = AlignUp(n, 4) /\ n <= AlignUp(n, 4) /\ AlignUp(n, 4) <= n + 3
    <3>1. PICK a \in Nat : a = AlignUp(n, 4) /\ n <= a /\ a <= n + 3 /\ (a < Wrap => a % Wrap = a)
      BY WordsUp
    <3> QED BY <1>2, <3>1
  <2>2. Plus(n, 1) = n + 1
    BY <1>2, <1>3, PlusIs
  <2> QED BY <1>1, <1>8, <2>1, <2>2 DEF SegmentSize
<1>10. ASSUME n # 0, (h + d) % 4 = 0, z % 4 = 0
       PROVE  4 * WordsCopied(s) = z /\ h + d + z <= l
  <2>1. h + d + z <= l /\ z >= 4
    BY <1>5, <1>9, <1>10
  <2>2. h + d - 4 + z \in Nat /\ h + d - 4 + z < w
    BY <1>6, <2>1
  <2>3. LastWord(s) = h + d - 4 + z
    <3>1. h + d - 4 \in Int /\ (h + d - 4) + z \in UInt32
      BY <1>3, <2>2
    <3> QED BY <1>4, <1>8, <3>1, PlusIs DEF LastWord
  <2>4. WordsCopied(s) = z \div 4
    BY <1>4, <2>1, <2>3 DEF WordsCopied
  <2> QED BY <1>10, <2>1, <2>4
<1> QED BY <1>1, <1>2, <1>4, <1>5, <1>6, <1>7, <1>8, <1>9, <1>10

-----------------------------------------------------------------------------
(* Files as they are written                                               *)

LEMMA SourceIs ==
  ASSUME NEW x \in Sources
  PROVE  /\ x.version = 4 => IsSingle(x) /\ FileOf(x) = InOne(x)
         /\ x.version # 4 => IsSegmented(x) /\ FileOf(x) = InSegments(x)
  BY SourcesAssumption DEF IsSingle, IsSegmented, FileOf

LEMMA ZerosTyped ==
  ASSUME NEW n \in Nat
  PROVE  Zeros(n) \in Seq(Int) /\ Len(Zeros(n)) = n /\ \A i \in 1 .. n : Zeros(n)[i] = 0
  BY DEF Zeros

LEMMA Aligned ==
  ASSUME NEW n \in Nat, NEW a \in Nat \ {0}
  PROVE  AlignUp(n, a) \in Nat /\ AlignUp(n, a) >= n /\ AlignUp(n, a) < n + a
<1>1. PICK r \in 0 .. a - 1 : r = n % a
  BY Divided
<1>2. a - r \in Nat
  BY <1>1
<1>3. PICK s \in 0 .. a - 1 : s = (a - r) % a
  BY <1>2, Divided
<1>4. AlignUp(n, a) = n + s
  BY <1>1, <1>3, Zenon DEF AlignUp
<1> QED BY <1>4

(* The words of a segment, and that its table is one for them.              *)
LEMMA SegmentIsTable ==
  ASSUME NEW x, IsSegmented(x), NEW s \in Segs
  PROVE  /\ x.version \in Versions /\ x.sizes[s] \in Nat
         /\ WordsOf(x, s) \in Nat /\ 4 * WordsOf(x, s) = AlignUp(x.sizes[s], 4)
         /\ IsTable(x.version, x.tables[s], WordsOf(x, s))
         /\ IsWritten(x.version, x.tables[s])
<1>1. x.version \in Versions /\ x.sizes[s] \in Nat
  BY DEF IsSegmented, Versions
<1>2. PICK l \in Nat : l = AlignUp(x.sizes[s], 4) /\ l % 4 = 0
  BY <1>1, WordsUp
<1>3. WordsOf(x, s) \in Nat /\ 4 * WordsOf(x, s) = l
  BY <1>2 DEF WordsOf
<1>4. IsTable(x.version, x.tables[s], WordsOf(x, s))
  BY DEF IsSegmented
<1> QED BY <1>1, <1>2, <1>3, <1>4, TableIsWritten

LEMMA TablesTyped ==
  ASSUME NEW x, IsSegmented(x)
  PROVE  /\ x.version \in Versions
         /\ \A s \in Segs : /\ IsWritten(x.version, x.tables[s])
                            /\ TableOf(x, s) \in Seq(Int) /\ Len(TableOf(x, s)) \in Nat
                            /\ BytesBefore(x, s) \in Nat
         /\ Region(x) \in Seq(Int) /\ Region(x) = (TableOf(x, 0) \o TableOf(x, 1)) \o TableOf(x, 2)
         /\ TableOf(x, 0) \o TableOf(x, 1) \in Seq(Int)
         /\ Len(TableOf(x, 0) \o TableOf(x, 1)) = BytesBefore(x, 2)
         /\ Len(Region(x)) = BytesBefore(x, 2) + Len(TableOf(x, 2))
         /\ BytesBefore(x, 0) = 0
         /\ \A s \in 0 .. 1 : BytesBefore(x, s + 1) = BytesBefore(x, s) + Len(TableOf(x, s))
<1>1. x.version \in Versions /\ \A s \in Segs : IsWritten(x.version, x.tables[s])
  BY SegmentIsTable DEF Segs
<1>2. \A s \in Segs : TableOf(x, s) \in Seq(Int)
  BY <1>1, TableTyped DEF TableOf
<1>3. PICK a \in Seq(Int), b \in Seq(Int), c \in Seq(Int) :
        a = TableOf(x, 0) /\ b = TableOf(x, 1) /\ c = TableOf(x, 2)
  BY <1>2 DEF Segs
<1>4. PICK la \in Nat, lb \in Nat, lc \in Nat : la = Len(a) /\ lb = Len(b) /\ lc = Len(c)
  OBVIOUS
<1>5. a \o b \in Seq(Int) /\ Len(a \o b) = la + lb
  BY <1>4, ConcatProperties
<1>6. (a \o b) \o c \in Seq(Int) /\ Len((a \o b) \o c) = (la + lb) + lc
  BY <1>4, <1>5, ConcatProperties
<1>7. BytesBefore(x, 0) = 0 /\ BytesBefore(x, 1) = la /\ BytesBefore(x, 2) = la + lb
  BY <1>3, <1>4 DEF BytesBefore
<1>8. \A s \in Segs : s = 0 \/ s = 1 \/ s = 2
  BY DEF Segs
<1>9. \A s \in Segs : Len(TableOf(x, s)) \in Nat /\ BytesBefore(x, s) \in Nat
  <2>1. la + lb \in Nat /\ 0 \in Nat
    OBVIOUS
  <2>2. Len(TableOf(x, 0)) \in Nat /\ Len(TableOf(x, 1)) \in Nat /\ Len(TableOf(x, 2)) \in Nat
    BY <1>3, <1>4, Zenon
  <2>3. BytesBefore(x, 0) \in Nat /\ BytesBefore(x, 1) \in Nat /\ BytesBefore(x, 2) \in Nat
    BY <1>7, <2>1, Zenon
  <2> QED BY <1>8, <2>2, <2>3, Zenon
<1>10. \A s \in 0 .. 1 : BytesBefore(x, s + 1) = BytesBefore(x, s) + Len(TableOf(x, s))
  <2>1. BytesBefore(x, 0 + 1) = BytesBefore(x, 0) + Len(TableOf(x, 0))
    BY <1>3, <1>4, <1>7
  <2>2. BytesBefore(x, 1 + 1) = BytesBefore(x, 1) + Len(TableOf(x, 1))
    BY <1>3, <1>4, <1>7
  <2>3. \A s \in 0 .. 1 : s = 0 \/ s = 1
    OBVIOUS
  <2> QED BY <2>1, <2>2, <2>3, Zenon
<1>11. Region(x) = (a \o b) \o c
  BY <1>3, Zenon DEF Region
<1> QED BY <1>1, <1>2, <1>3, <1>4, <1>5, <1>6, <1>7, <1>9, <1>10, <1>11, Zenon

LEMMA RegionCells ==
  ASSUME NEW x, IsSegmented(x)
  PROVE  Region(x) \in Seq(Cell)
<1>1. \A s \in Segs : TableOf(x, s) \in Seq(Cell)
  BY SegmentIsTable, TableCells DEF TableOf
<1>2. TableOf(x, 0) \in Seq(Cell) /\ TableOf(x, 1) \in Seq(Cell) /\ TableOf(x, 2) \in Seq(Cell)
  BY <1>1 DEF Segs
<1>3. (TableOf(x, 0) \o TableOf(x, 1)) \o TableOf(x, 2) \in Seq(Cell)
  BY <1>2, ConcatProperties
<1> QED BY <1>3, TablesTyped, Zenon

LEMMA InCells ==
  ASSUME NEW s \in Seq(Cell)
  PROVE  s \in Seq(Int) /\ \A i \in DOMAIN s : s[i] < Base
<1>1. \A c \in Cell : c \in Int /\ c < Base
  BY DEF Cell
<1> QED BY <1>1

LEMMA ZerosCells ==
  ASSUME NEW n \in Nat
  PROVE  Zeros(n) \in Seq(Cell)
<1>1. PICK z \in Seq(Int) : z = Zeros(n) /\ Len(z) = n /\ \A i \in 1 .. n : z[i] = 0
  BY ZerosTyped
<1>2. \A i \in 1 .. Len(z) : z[i] < Base
  BY <1>1, TopIs
<1> QED BY <1>1, <1>2, CellsTyped

LEMMA LineUp ==
  ASSUME NEW n \in Nat
  PROVE  Line(n) \in Nat /\ Line(n) >= n /\ Line(n) % 4 = 0
<1>1. PICK l \in Nat : l = Line(n) /\ n <= l /\ l % 16 = 0
  BY LineIs
<1> QED BY <1>1

(* Where the segments of a file are written. *)
LEMMA StartsTyped ==
  ASSUME NEW x, IsSegmented(x)
  PROVE  /\ DataStart(x) \in Nat /\ DataStart(x) >= HeaderSize + Len(Region(x)) + 1
         /\ \A s \in Segs : /\ x.sizes[s] \in Nat
                            /\ SegmentStart(x, s) \in Nat /\ SegmentStart(x, s) >= DataStart(x)
                            /\ SegmentStart(x, s) % 4 = 0
         /\ SegmentStart(x, 0) = DataStart(x)
         /\ \A s \in 0 .. 1 : SegmentStart(x, s + 1) = Line(SegmentStart(x, s) + x.sizes[s])
         /\ FileEnd(x) = Line(SegmentStart(x, 2) + x.sizes[2])
         /\ FileEnd(x) \in Nat /\ 2 * FileEnd(x) <= Wrap
         /\ \A s \in Segs : SegmentStart(x, s) + x.sizes[s] <= FileEnd(x)
         /\ DataStart(x) <= FileEnd(x) /\ FileEnd(x) < Wrap
<1>1. PICK l \in Nat : l = Len(Region(x))
  <2>1. Region(x) \in Seq(Int)
    BY TablesTyped
  <2> QED BY <2>1
<1>2. PICK z0 \in Nat, z1 \in Nat, z2 \in Nat :
        z0 = x.sizes[0] /\ z1 = x.sizes[1] /\ z2 = x.sizes[2]
  BY DEF IsSegmented, Segs
<1>3. DataStart(x) \in Nat /\ DataStart(x) >= HeaderSize + l + 1 /\ DataStart(x) % 4 = 0
  <2>1. PICK m \in Nat : m = HeaderSize + l + 1
    BY DEF HeaderSize
  <2>2. DataStart(x) = Line(m)
    BY <1>1, <2>1 DEF DataStart
  <2>3. Line(m) \in Nat /\ Line(m) >= m /\ Line(m) % 4 = 0
    BY LineUp
  <2> QED BY <2>1, <2>2, <2>3
<1>4. PICK d0 \in Nat : d0 = DataStart(x) /\ d0 % 4 = 0
  BY <1>3
<1>5. PICK d1 \in Nat : d1 = Line(d0 + z0) /\ d1 >= d0 + z0 /\ d1 % 4 = 0
  BY LineUp
<1>6. PICK d2 \in Nat : d2 = Line(d1 + z1) /\ d2 >= d1 + z1 /\ d2 % 4 = 0
  BY LineUp
<1>7. PICK d3 \in Nat : d3 = Line(d2 + z2) /\ d3 >= d2 + z2
  BY LineIs
<1>8. SegmentStart(x, 0) = d0 /\ SegmentStart(x, 1) = d1 /\ SegmentStart(x, 2) = d2
  BY <1>2, <1>4, <1>5, <1>6 DEF SegmentStart
<1>9. d1 >= d0 /\ d2 >= d0 /\ d0 >= d0
  BY <1>5, <1>6
<1>10. \A s \in Segs : s = 0 \/ s = 1 \/ s = 2
  BY DEF Segs
<1>11. \A s \in Segs : /\ x.sizes[s] \in Nat
                       /\ SegmentStart(x, s) \in Nat /\ SegmentStart(x, s) >= DataStart(x)
                       /\ SegmentStart(x, s) % 4 = 0
  BY <1>2, <1>4, <1>5, <1>6, <1>8, <1>9, <1>10, Zenon
<1>12. \A s \in 0 .. 1 : SegmentStart(x, s + 1) = Line(SegmentStart(x, s) + x.sizes[s])
  <2>1. SegmentStart(x, 0 + 1) = Line(SegmentStart(x, 0) + x.sizes[0])
    BY <1>2, <1>5, <1>8
  <2>2. SegmentStart(x, 1 + 1) = Line(SegmentStart(x, 1) + x.sizes[1])
    BY <1>2, <1>6, <1>8
  <2>3. \A s \in 0 .. 1 : s = 0 \/ s = 1
    OBVIOUS
  <2> QED BY <2>1, <2>2, <2>3, Zenon
<1>13. FileEnd(x) = d3 /\ d3 = Line(SegmentStart(x, 2) + x.sizes[2])
  BY <1>2, <1>7, <1>8 DEF FileEnd
<1>14. 2 * d3 <= Wrap /\ d3 < Wrap
  <2>1. 2 * d3 <= Wrap
    BY <1>13 DEF IsSegmented
  <2> QED BY <2>1, WrapIs
<1>15. /\ d0 + z0 <= d3 /\ d1 + z1 <= d3 /\ d2 + z2 <= d3 /\ d0 <= d3
  BY <1>5, <1>6, <1>7
<1>16. \A s \in Segs : SegmentStart(x, s) + x.sizes[s] <= d3
  BY <1>2, <1>8, <1>10, <1>15, Zenon
<1> QED BY <1>1, <1>2, <1>3, <1>4, <1>7, <1>8, <1>11, <1>12, <1>13, <1>14, <1>15, <1>16, Zenon

(* The header and the region of a file in segments. *)
RelocsOf(x, s) == BytesBefore(x, s) + (IF x.version = 5 THEN 48 ELSE HeaderSize)

HeaderOf(x, h) ==
  /\ h.version = x.version /\ h.valid = TRUE /\ h.n_segments = 3
  /\ h.game = x.game /\ h.level_h = x.level_h
  /\ h.length = DataStart(x)
  /\ \A s \in Segs : /\ h.info[s].relocs = RelocsOf(x, s)
                     /\ h.info[s].data = SegmentStart(x, s) - DataStart(x)
                     /\ h.info[s].size = x.sizes[s]
  /\ h.size = FileEnd(x)
  /\ h.source = <<x>>

LEMMA BeforeInRegion ==
  ASSUME NEW x, IsSegmented(x), NEW s \in Segs
  PROVE  /\ BytesBefore(x, s) \in Nat /\ Len(TableOf(x, s)) \in Nat /\ Len(Region(x)) \in Nat
         /\ BytesBefore(x, s) + Len(TableOf(x, s)) <= Len(Region(x))
         /\ BytesBefore(x, s) <= Len(Region(x))
<1>1. PICK a \in Nat, b \in Nat, c \in Nat :
        a = Len(TableOf(x, 0)) /\ b = Len(TableOf(x, 1)) /\ c = Len(TableOf(x, 2))
  BY TablesTyped DEF Segs
<1>2. /\ BytesBefore(x, 0) = 0 /\ BytesBefore(x, 1) = a /\ BytesBefore(x, 2) = a + b
  BY <1>1 DEF BytesBefore
<1>3. Len(Region(x)) = a + b + c
  <2>1. Len(Region(x)) = BytesBefore(x, 2) + Len(TableOf(x, 2))
    BY TablesTyped
  <2> QED BY <1>1, <1>2, <2>1
<1>4. s = 0 \/ s = 1 \/ s = 2
  BY DEF Segs
<1>5. PICK m \in Nat, l \in Nat : m = BytesBefore(x, s) /\ l = Len(TableOf(x, s))
  BY TablesTyped
<1>6. CASE s = 0
  BY <1>1, <1>2, <1>3, <1>5, <1>6
<1>7. CASE s = 1
  BY <1>1, <1>2, <1>3, <1>5, <1>7
<1>8. CASE s = 2
  BY <1>1, <1>2, <1>3, <1>5, <1>8
<1> QED BY <1>4, <1>6, <1>7, <1>8

LEMMA SegmentsWritten ==
  ASSUME NEW x \in Sources, x.version # 4
  PROVE  /\ FileOf(x).header \in SegmentHeaders
         /\ HeaderOf(x, FileOf(x).header)
         /\ FileOf(x).table = Region(x) \o Zeros(DataStart(x) - HeaderSize - Len(Region(x)))
         /\ DataStart(x) - HeaderSize - Len(Region(x)) \in Nat
         /\ FileOf(x).table \in Seq(Cell) /\ FileOf(x).fits = TRUE
         /\ HeaderSize + Len(FileOf(x).table) <= FileOf(x).header.size
<1>1. IsSegmented(x) /\ FileOf(x) = InSegments(x)
  BY SourceIs
<1>2. PICK start \in Nat : start = DataStart(x)
  BY <1>1, StartsTyped
<1>3. PICK info : info = [s \in Segs |->
                            [relocs |-> RelocsOf(x, s), data |-> SegmentStart(x, s) - start,
                             size |-> x.sizes[s]]]
  OBVIOUS
<1>4. PICK z \in Nat : z = start - HeaderSize - Len(Region(x))
  <2>1. PICK l \in Nat : l = Len(Region(x))
    <3>1. Region(x) \in Seq(Int)
      BY <1>1, TablesTyped
    <3> QED BY <3>1
  <2>2. start >= HeaderSize + l + 1 /\ HeaderSize = 128
    BY <1>1, <1>2, <2>1, StartsTyped DEF HeaderSize
  <2>3. start - HeaderSize - l \in Nat
    BY <2>2
  <2> QED BY <2>1, <2>3
<1>5. PICK size \in Nat : size = FileEnd(x) /\ size < Wrap /\ start <= size
  BY <1>1, <1>2, StartsTyped
<1>a. \A i \in Nat : i <= size => i \in UInt32
  BY <1>5, WrapIs DEF UInt32
<1>6. PICK o : o = <<x>>
  OBVIOUS
<1>7. PICK h : h = [version |-> x.version, valid |-> TRUE, n_segments |-> 3, game |-> x.game,
                    level_h |-> x.level_h, length |-> start, info |-> info, size |-> size,
                    source |-> o]
  OBVIOUS
<1>8. InSegments(x) = [header |-> h, table |-> Region(x) \o Zeros(z), fits |-> TRUE]
  BY <1>2, <1>3, <1>4, <1>5, <1>6, <1>7, Zenon DEF InSegments, RelocsOf
<1>9. FileOf(x).header = h /\ FileOf(x).table = Region(x) \o Zeros(z) /\ FileOf(x).fits = TRUE
  BY <1>1, <1>8
<1>10. \A s \in Segs : info[s].relocs = RelocsOf(x, s) /\ info[s].size = x.sizes[s]
                       /\ info[s].data = SegmentStart(x, s) - start
  BY <1>3
<1>11. info \in [Segs -> [relocs : UInt32, data : UInt32, size : UInt32]]
  <2>1. ASSUME NEW s \in Segs
        PROVE  /\ RelocsOf(x, s) \in UInt32 /\ SegmentStart(x, s) - start \in UInt32
               /\ x.sizes[s] \in UInt32
    <3>1. RelocsOf(x, s) \in UInt32
      <4>1. PICK b \in Nat, l \in Nat : b = BytesBefore(x, s) /\ l = Len(Region(x)) /\ b <= l
        BY <1>1, BeforeInRegion
      <4>2. HeaderSize + l + 1 <= start
        BY <1>1, <1>2, <4>1, StartsTyped
      <4>3. PICK r \in Nat : r = RelocsOf(x, s) /\ r <= start
        BY <1>2, <4>1, <4>2 DEF RelocsOf, HeaderSize
      <4> QED BY <1>5, <1>a, <4>3
    <3>2. SegmentStart(x, s) - start \in UInt32 /\ x.sizes[s] \in UInt32
      <4>1. PICK a \in Nat, n \in Nat : /\ a = SegmentStart(x, s) /\ n = x.sizes[s]
                                        /\ a >= start /\ a + n <= size
        BY <1>1, <1>2, <1>5, StartsTyped
      <4>2. a - start \in Nat /\ a - start <= size /\ n <= size
        BY <4>1
      <4> QED BY <1>a, <4>1, <4>2
    <3> QED BY <3>1, <3>2
  <2> QED BY <1>3, <2>1
<1>12. o \in Origins
  BY <1>6 DEF Origins
<1>13. x.version \in {3, 5} /\ x.game \in {1, 2} /\ x.level_h \in BOOLEAN
  BY <1>1 DEF IsSegmented
<1>14. h \in SegmentHeaders
  <2>1. start \in UInt32 /\ size \in UInt32
    BY <1>5, <1>a
  <2> QED BY <1>7, <1>11, <1>12, <1>13, <2>1 DEF SegmentHeaders
<1>15. HeaderOf(x, h)
  BY <1>2, <1>5, <1>6, <1>7, <1>10 DEF HeaderOf
<1>16. Region(x) \o Zeros(z) \in Seq(Cell)
  <2>1. Region(x) \in Seq(Cell) /\ Zeros(z) \in Seq(Cell)
    BY <1>1, RegionCells, ZerosCells
  <2> QED BY <2>1, ConcatProperties
<1>17. HeaderSize + Len(Region(x) \o Zeros(z)) <= h.size
  <2>1. PICK r \in Seq(Int), o2 \in Seq(Int) : r = Region(x) /\ o2 = Zeros(z) /\ Len(o2) = z
    BY <1>1, TablesTyped, ZerosTyped
  <2>2. Len(r \o o2) = Len(r) + z
    BY <2>1
  <2>3. Len(r) \in Nat /\ z = start - HeaderSize - Len(r)
    BY <1>4, <2>1
  <2>4. HeaderSize + Len(r \o o2) = start
    BY <2>2, <2>3 DEF HeaderSize
  <2>5. h.size = size
    BY <1>7
  <2> QED BY <1>5, <2>1, <2>4, <2>5
<1> QED BY <1>2, <1>4, <1>9, <1>14, <1>15, <1>16, <1>17, Zenon

(* and of a V4 file. *)
LEMMA SingleWritten ==
  ASSUME NEW x \in Sources, x.version = 4
  PROVE  LET tbl == TableOf(x, 0)
             h == FileOf(x).header
         IN /\ IsWritten(4, x.tables[0]) /\ DOMAIN x.tables = {0} /\ tbl = Table(4, x.tables[0])
            /\ tbl \in Seq(Int)
            /\ h \in SingleHeaders
            /\ h.version = 4 /\ h.valid = TRUE /\ h.code_size = 4 * x.words /\ h.code_size % 4 = 0
            /\ x.words \in Nat /\ IsTable(4, x.tables[0], x.words)
            /\ h.length = LinkLength(12 + Len(tbl)) /\ h.length2 = LinkLength(12 + Len(tbl))
            /\ h.source = <<x>>
            /\ FileOf(x).table \in Seq(Cell) /\ FileOf(x).fits = TRUE
            /\ \E z \in Nat : FileOf(x).table = tbl \o Zeros(z)
<1>1. IsSingle(x) /\ FileOf(x) = InOne(x)
  BY SourceIs
<1>2. IsWritten(4, x.tables[0]) /\ DOMAIN x.tables = {0} /\ x.words \in Nat /\ x.zeros \in Nat
      /\ IsTable(4, x.tables[0], x.words)
  BY <1>1, TableIsWritten DEF IsSingle, Versions
<1>3. PICK tbl \in Seq(Int) : tbl = TableOf(x, 0) /\ tbl = Table(4, x.tables[0])
  <2>1. Table(4, x.tables[0]) \in Seq(Int) /\ TableOf(x, 0) = Table(4, x.tables[0])
    BY <1>2, TableTyped DEF TableOf, Versions
  <2> QED BY <2>1
<1>4. PICK n \in Nat : n = Len(tbl)
  OBVIOUS
<1>5. PICK l \in Nat : l = LinkLength(12 + n) /\ l >= 12 + n /\ l < 12 + n + align4
  <2>1. 12 + n \in Nat /\ align4 \in Nat \ {0}
    BY FilesAssumption
  <2> QED BY <2>1, Aligned DEF LinkLength
<1>a. 4 * x.words \in UInt32 /\ l \in UInt32
  <2>1. ASSUME NEW w \in Nat, NEW z \in Nat, NEW a \in Nat, NEW u \in Nat,
               2 * (4 * w + 28 + n + a + z) <= u, l < 12 + n + a
        PROVE  4 * w \in 0 .. u - 1 /\ l \in 0 .. u - 1
    BY <2>1
  <2>2. x.words \in Nat /\ x.zeros \in Nat /\ align4 \in Nat /\ Wrap \in Nat
    BY <1>2, WrapIs, FilesAssumption
  <2>3. 2 * (4 * x.words + 28 + n + align4 + x.zeros) <= Wrap
    BY <1>1, <1>3, <1>4 DEF IsSingle
  <2>4. 4 * x.words \in 0 .. Wrap - 1 /\ l \in 0 .. Wrap - 1
    BY <1>5, <2>1, <2>2, <2>3
  <2> QED BY <2>4 DEF UInt32
<1>6. PICK z \in Nat : z = l - 12 - n + x.zeros
  BY <1>2, <1>5
<1>7. PICK o : o = <<x>>
  OBVIOUS
<1>8. PICK size \in Nat : size = 4 * x.words /\ size % 4 = 0
  BY <1>2
<1>9. PICK h : h = [version |-> 4, valid |-> TRUE, code_size |-> size, length |-> l, length2 |-> l,
                    source |-> o]
  OBVIOUS
<1>10. InOne(x) = [header |-> h, table |-> tbl \o Zeros(z), fits |-> TRUE]
  BY <1>3, <1>4, <1>5, <1>6, <1>7, <1>8, <1>9, Zenon DEF InOne
<1>11. FileOf(x).header = h /\ FileOf(x).table = tbl \o Zeros(z) /\ FileOf(x).fits = TRUE
  BY <1>1, <1>10
<1>12. o \in Origins
  BY <1>7 DEF Origins
<1>13. h \in SingleHeaders
  BY <1>8, <1>9, <1>a, <1>12 DEF SingleHeaders
<1>14. /\ h.version = 4 /\ h.valid = TRUE /\ h.code_size = size /\ h.length = l /\ h.length2 = l
       /\ h.source = o
  BY <1>9
<1>15. tbl \o Zeros(z) \in Seq(Cell)
  <2>1. Zeros(z) \in Seq(Cell) /\ tbl \in Seq(Cell)
    BY <1>2, <1>3, ZerosCells, TableCells DEF Versions
  <2> QED BY <2>1, ConcatProperties
<1> QED BY <1>2, <1>3, <1>4, <1>5, <1>7, <1>8, <1>11, <1>13, <1>14, <1>15, Zenon

LEMMA FilesTyped ==
  ASSUME NEW x \in Sources
  PROVE  /\ FileOf(x).header \in SegmentHeaders \cup SingleHeaders
         /\ FileOf(x).table \in Seq(Int) /\ \A i \in DOMAIN FileOf(x).table : FileOf(x).table[i] < Base
         /\ FileOf(x).fits \in BOOLEAN
         /\ FileOf(x).header.version # 4 =>
              HeaderSize + Len(FileOf(x).table) <= FileOf(x).header.size
<1>1. /\ FileOf(x).table \in Seq(Cell) /\ FileOf(x).fits = TRUE
      /\ FileOf(x).header \in SegmentHeaders \cup SingleHeaders
      /\ x.version # 4 => HeaderSize + Len(FileOf(x).table) <= FileOf(x).header.size
      /\ x.version = 4 => FileOf(x).header.version = 4
  BY SegmentsWritten, SingleWritten
<1> QED BY <1>1, InCells

(* A table of nothing has two bytes, and each table is where it was put.    *)
LEMMA EmptyTable ==
  ASSUME NEW v \in Versions, NEW t, IsWritten(v, t), t.bounds = << >>, t.symbols = << >>
  PROVE  Len(Table(v, t)) = 2
<1>1. PICK c \in Seq(Int) : c = Table(v, t)
  BY TableTyped
<1>2. PICK l \in Nat : l = Len(c)
  OBVIOUS
<1>3. StandsAt(c, 1, c)
  BY <1>2 DEF StandsAt
<1>4. StandsAt(c, 1, Table(v, t))
  BY <1>1, <1>3
<1>5. PICK N, E : N = NumberAt(v, t, 1) /\ E = EntryAt(v, t, 1)
  OBVIOUS
<1>6. TableStands(c, v, t, 1, N, E)
  BY <1>2, <1>4, <1>5, TableIsThere
<1>7. Len(t.bounds) = 0 /\ Len(t.symbols) = 0
  OBVIOUS
<1>8. N[1] = 1 /\ E[1] = N[1] + 1 /\ E[1] = 1 + l - 1
  <2>1. 0 + 1 = 1
    OBVIOUS
  <2> QED BY <1>1, <1>2, <1>6, <1>7, <2>1, Zenon DEF TableStands
<1>9. l = 2
  BY <1>8
<1> QED BY <1>1, <1>2, <1>9

LEMMA SegmentTables ==
  ASSUME NEW x \in Sources, x.version # 4, NEW s \in Segs
  PROVE  StandsAt(FileOf(x).table, 1 + BytesBefore(x, s), TableOf(x, s))
<1>1. IsSegmented(x)
  BY SourceIs
<1>2. PICK a \in Seq(Int), b \in Seq(Int), c \in Seq(Int) :
        a = TableOf(x, 0) /\ b = TableOf(x, 1) /\ c = TableOf(x, 2)
  BY <1>1, TablesTyped DEF Segs
<1>3. PICK ab \in Seq(Int) : ab = a \o b
  BY ConcatProperties
<1>4. PICK abc \in Seq(Int) : abc = ab \o c
  BY ConcatProperties
<1>5. PICK z \in Seq(Int) : FileOf(x).table = Region(x) \o z
  BY SegmentsWritten, ZerosTyped
<1>6. Region(x) = abc
  BY <1>1, <1>2, <1>3, <1>4, TablesTyped
<1>7. PICK f \in Seq(Int) : f = FileOf(x).table /\ f = abc \o z
  BY <1>5, <1>6, ConcatProperties
<1>8. PICK l \in Nat : l = Len(f)
  OBVIOUS
<1>p. PICK p \in Int : p = 1
  OBVIOUS
<1>9. StandsAt(f, p, f) /\ Len(f) \in Nat
  BY <1>8, <1>p DEF StandsAt
<1>10. StandsAt(f, p, abc \o z)
  BY <1>7, <1>9, Zenon
<1>a. StandsAt(f, p, abc)
  BY <1>9, <1>10, StandParts
<1>11. StandsAt(f, p, ab \o c)
  BY <1>4, <1>a, Zenon
<1>12. StandsAt(f, p, ab) /\ StandsAt(f, p + Len(ab), c)
  BY <1>9, <1>11, StandParts
<1>b. StandsAt(f, p, a \o b)
  BY <1>3, <1>12, Zenon
<1>13. StandsAt(f, p, a) /\ StandsAt(f, p + Len(a), b)
  BY <1>9, <1>b, StandParts
<1>14. /\ BytesBefore(x, 0) = 0 /\ BytesBefore(x, 1) = Len(a) /\ BytesBefore(x, 2) = Len(ab)
  BY <1>1, <1>2, <1>3, TablesTyped DEF BytesBefore
<1>15. 1 + BytesBefore(x, 0) = 1
  BY <1>14
<1>16. s = 0 \/ s = 1 \/ s = 2
  BY DEF Segs
<1> QED BY <1>2, <1>7, <1>p, <1>12, <1>13, <1>14, <1>15, <1>16, Zenon

LEMMA SingleTable ==
  ASSUME NEW x \in Sources, x.version = 4
  PROVE  LET f == FileOf(x).table
             n == Len(TableOf(x, 0))
         IN /\ StandsAt(f, 1 + BytesBefore(x, 0), TableOf(x, 0))
            /\ n \in Nat /\ Len(f) \in Nat
            /\ \A i \in n + 1 .. Len(f) : f[i] = 0
<1>1. PICK a \in Seq(Int) : a = TableOf(x, 0)
  BY SingleWritten
<1>2. PICK z \in Nat : FileOf(x).table = a \o Zeros(z)
  BY <1>1, SingleWritten
<1>3. PICK o \in Seq(Int) : o = Zeros(z) /\ Len(o) = z /\ \A i \in 1 .. z : o[i] = 0
  BY ZerosTyped
<1>4. PICK f \in Seq(Int) : f = FileOf(x).table /\ f = a \o o
  BY <1>2, <1>3, ConcatProperties
<1>5. PICK n \in Nat : n = Len(a)
  OBVIOUS
<1>6. Len(f) = n + z /\ \A i \in 1 .. z : f[n + i] = o[i]
  <2>1. Len(a \o o) = Len(a) + Len(o)
    BY ConcatProperties
  <2>2. \A i \in 1 .. Len(o) : (a \o o)[Len(a) + i] = o[i]
    OBVIOUS
  <2> QED BY <1>3, <1>4, <1>5, <2>1, <2>2, Zenon
<1>7. ASSUME NEW i \in n + 1 .. n + z
      PROVE  f[i] = 0
  <2>1. PICK j \in 1 .. z : i = n + j
    <3>1. i - n \in 1 .. z /\ i = n + (i - n)
      OBVIOUS
    <3> QED BY <3>1
  <2> QED BY <1>3, <1>6, <2>1
<1>8. StandsAt(f, 1, f)
  BY <1>6 DEF StandsAt
<1>9. StandsAt(f, 1, a)
  <2>1. StandsAt(f, 1, a \o o) /\ Len(f) \in Nat
    BY <1>4, <1>6, <1>8
  <2> QED BY <2>1, StandParts
<1>10. 1 + BytesBefore(x, 0) = 1
  BY DEF BytesBefore
<1>11. Len(f) \in Nat
  BY <1>6
<1> QED BY <1>1, <1>4, <1>5, <1>6, <1>7, <1>9, <1>10, <1>11, Zenon

-----------------------------------------------------------------------------
(* Linking the segments                                                    *)

Copied(s) ==
  /\ pushed[s] = WordsCopied(s)
  /\ SegmentSize(s) % 4 = 0 /\ DataOffset(s) % 4 = 0
  /\ DataOffset(s) < header.size /\ LastWord(s) < header.size

CopiedWithin ==
  ThreeSegments =>
    \A s \in Segs : pushed[s] # 0 => DataOffset(s) + 4 * pushed[s] <= header.size

(* The segment is done, whether it exists or not, *)
IsLinked(s) ==
  IF Info(s).size = 0 THEN ends[s] = -1 /\ pushed[s] = 0
  ELSE /\ ends[s] >= LinkOffset(s) /\ ends[s] >= HeaderSize /\ ends[s] <= header.size
       /\ Copied(s)

(* or its turn is to come. *)
IsUntouched(s) == ends[s] = -1 /\ pushed[s] = 0

Underway == ThreeSegments /\ step \in {"segments", "accepted"}

NothingDone == step = "header" => pc = "idle" /\ seg = 2 /\ \A s \in Segs : IsUntouched(s)

TableOfSegment ==
  ThreeSegments /\ step = "segments" /\ pc # "idle" =>
    /\ seg \in Segs
    /\ Info(seg).size # 0
    /\ from = AtOffset(LinkOffset(seg))
    /\ Copied(seg)
    /\ ends[seg] = -1

SegmentsInOrder ==
  Underway =>
    /\ DataFilled
    /\ \A s \in Segs : s > seg => IsLinked(s)
    /\ \A s \in Segs : s < seg \/ (s = seg /\ pc = "idle") => IsUntouched(s)

EndsChecked ==
  ThreeSegments /\ step = "accepted" =>
    /\ seg = -1
    /\ LinkOffset(0) = HeaderSize
    /\ LinkFilled(0) /\ LinkFilled(1)
    /\ Info(2).size # 0 => LastTableFilled

LayoutInv == /\ LayoutType /\ NothingDone /\ CopiedWithin
             /\ TableOfSegment /\ SegmentsInOrder /\ EndsChecked

Inv == VisitInv /\ LayoutInv

(* What a header says of a segment does not change. *)
SameHeader == header' = header /\ version' = version /\ table' = table

LEMMA HeaderStays ==
  ASSUME SameHeader
  PROVE  /\ ThreeSegments' <=> ThreeSegments
         /\ DataFilled' <=> DataFilled
         /\ \A s \in Segs : /\ Info(s)' = Info(s) /\ LinkOffset(s)' = LinkOffset(s)
                            /\ DataOffset(s)' = DataOffset(s)
                            /\ SegmentSize(s)' = SegmentSize(s)
                            /\ LastWord(s)' = LastWord(s)
                            /\ WordsCopied(s)' = WordsCopied(s)
  BY DEF SameHeader, ThreeSegments, DataFilled, Info, LinkOffset, DataOffset, SegmentSize,
         LastWord, WordsCopied

LEMMA SegmentStays ==
  ASSUME SameHeader, NEW s \in Segs, ends'[s] = ends[s], pushed'[s] = pushed[s]
  PROVE  /\ IsLinked(s)' <=> IsLinked(s)
         /\ IsUntouched(s)' <=> IsUntouched(s)
         /\ Copied(s)' <=> Copied(s)
<1>1. Copied(s)' <=> Copied(s)
  BY HeaderStays DEF SameHeader, Copied
<1> QED BY <1>1, HeaderStays DEF SameHeader, IsLinked, IsUntouched

LEMMA CopiedStays ==
  ASSUME SameHeader, CopiedWithin, UNCHANGED pushed
  PROVE  CopiedWithin'
  BY HeaderStays DEF SameHeader, CopiedWithin

LEMMA LayoutStays ==
  ASSUME SameHeader, LayoutType, UNCHANGED <<ends, pushed>>, seg' \in -1 .. 2,
         step' \in {"header", "segments", "accepted", "rejected", "abandoned"}
  PROVE  LayoutType'
  BY HeaderStays DEF SameHeader, LayoutType

(* The data region is whole lines. *)
LEMMA SizeIsLines ==
  ASSUME LayoutType, ThreeSegments, DataFilled
  PROVE  header.size \in Nat /\ header.size < Wrap /\ header.size % 16 = 0
<1>1. PICK n \in Nat : n = Plus(DataOffset(2), Info(2).size)
  <2>1. DataOffset(2) \in Int /\ Info(2).size \in Int
    BY OffsetsTyped, InUInt32 DEF Segs
  <2> QED BY <2>1, PlusIs, InUInt32
<1>2. header.size = align16(n)
  BY <1>1 DEF DataFilled
<1> QED BY <1>2, LineIs, InUInt32

(* A linker that stops there is done with this file. *)
LEMMA Stops ==
  ASSUME Inv, UNCHANGED <<reading, header, seg, ends, pushed>>,
         step' \in {"rejected", "abandoned"}
  PROVE  Inv'
<1>1. VisitInv'
  BY VisitStays DEF Inv
<1>2. LayoutType' /\ CopiedWithin'
  <2>1. SameHeader /\ seg' \in -1 .. 2
    BY DEF Inv, LayoutInv, LayoutType, SameHeader, reading, file
  <2> QED BY <2>1, LayoutStays, CopiedStays DEF Inv, LayoutInv
<1>3. NothingDone' /\ TableOfSegment' /\ SegmentsInOrder' /\ EndsChecked'
  BY DEF NothingDone, TableOfSegment, SegmentsInOrder, Underway, EndsChecked
<1> QED BY <1>1, <1>2, <1>3 DEF Inv, LayoutInv

LEMMA InitInv ==
  ASSUME Init
  PROVE  Inv
<1>1. PICK f \in {FileOf(x) : x \in Sources} \cup Others :
        header = f.header /\ table = f.table /\ version = f.header.version /\ fits = f.fits
  BY DEF Init
<1>2. /\ f.header \in SegmentHeaders \cup SingleHeaders
      /\ f.table \in Seq(Int) /\ \A i \in DOMAIN f.table : f.table[i] < Base
      /\ f.fits \in BOOLEAN
      /\ f.header.version # 4 => HeaderSize + Len(f.table) <= f.header.size
  <2>1. CASE f \in Others
    <3>1. f.header \in SingleHeaders => f.header.version = 4
      BY DEF SingleHeaders
    <3> QED BY <2>1, <3>1, FilesAssumption
  <2>2. CASE f \in {FileOf(x) : x \in Sources}
    BY <2>2, FilesTyped
  <2> QED BY <2>1, <2>2
<1>3. version \in Versions
  BY <1>1, <1>2 DEF Versions, SegmentHeaders, SingleHeaders
<1>4. VisitInv
  BY <1>1, <1>2, <1>3, NothingRead DEF Init
<1>5. LayoutType /\ CopiedWithin
  BY <1>1, <1>2 DEF Init, LayoutType, Segs, ThreeSegments, CopiedWithin
<1>6. NothingDone
  BY DEF Init, Idle, NothingDone, IsUntouched
<1>7. TableOfSegment /\ SegmentsInOrder /\ EndsChecked
  BY DEF Init, Idle, TableOfSegment, SegmentsInOrder, Underway, EndsChecked
<1> QED BY <1>4, <1>5, <1>6, <1>7 DEF Inv, LayoutInv

LEMMA AbandonKeeps ==
  ASSUME Inv, Abandon
  PROVE  Inv'
  BY Stops DEF Abandon, Go

LEMMA ReadHeaderKeeps ==
  ASSUME Inv, ReadHeader
  PROVE  Inv'
<1>1. CASE ~(header.valid /\ header.n_segments = 3 /\ DataFilled)
  BY <1>1, Stops DEF ReadHeader, Reject, Go
<1>2. CASE header.valid /\ header.n_segments = 3 /\ DataFilled
  <2>1. /\ step = "header" /\ step' = "segments"
        /\ UNCHANGED <<reading, header, seg, ends, pushed>>
    BY <1>2 DEF ReadHeader, Go
  <2>2. SameHeader /\ pc' = pc
    BY <2>1 DEF SameHeader, reading, file
  <2>3. VisitInv'
    BY <2>1, VisitStays DEF Inv
  <2>4. LayoutType' /\ CopiedWithin'
    <3>1. seg' \in -1 .. 2
      BY <2>1 DEF Inv, LayoutInv, LayoutType
    <3> QED BY <2>1, <2>2, <3>1, LayoutStays, CopiedStays DEF Inv, LayoutInv
  <2>5. NothingDone' /\ TableOfSegment' /\ EndsChecked'
    BY <2>1, <2>2 DEF Inv, LayoutInv, NothingDone, TableOfSegment, EndsChecked
  <2>6. SegmentsInOrder'
    <3>1. seg = 2 /\ \A s \in Segs : IsUntouched(s)
      BY <2>1 DEF Inv, LayoutInv, NothingDone
    <3>2. \A s \in Segs : IsUntouched(s)' /\ ~(s > seg')
      BY <2>1, <2>2, <3>1, SegmentStays DEF Segs
    <3> QED BY <1>2, <2>2, <3>2, HeaderStays DEF SegmentsInOrder
  <2> QED BY <2>3, <2>4, <2>5, <2>6 DEF Inv, LayoutInv
<1> QED BY <1>1, <1>2

LEMMA SkipSegmentKeeps ==
  ASSUME Inv, SkipSegment
  PROVE  Inv'
<1>1. /\ step = "segments" /\ ThreeSegments /\ seg >= 0 /\ Info(seg).size = 0
      /\ seg' = seg - 1
      /\ UNCHANGED <<reading, header, step, ends, pushed>>
  BY DEF SkipSegment, ThreeSegments
<1>2. SameHeader /\ pc' = pc
  BY <1>1 DEF SameHeader, reading, file
<1>3. VisitInv'
  BY <1>1, VisitStays DEF Inv
<1>4. LayoutType' /\ CopiedWithin' /\ seg \in Segs
  <2>1. seg \in Segs /\ seg' \in -1 .. 2
    BY <1>1 DEF Inv, LayoutInv, LayoutType, Segs
  <2>2. step' \in {"header", "segments", "accepted", "rejected", "abandoned"}
    BY <1>1
  <2> QED BY <1>1, <1>2, <2>1, <2>2, LayoutStays, CopiedStays DEF Inv, LayoutInv
<1>5. pc = "idle"
  BY <1>1 DEF Inv, LayoutInv, TableOfSegment
<1>6. NothingDone' /\ TableOfSegment' /\ EndsChecked'
  BY <1>1, <1>2, <1>5 DEF NothingDone, TableOfSegment, EndsChecked
<1>7. SegmentsInOrder'
  <2>1. /\ DataFilled
        /\ \A s \in Segs : s > seg => IsLinked(s)
        /\ \A s \in Segs : s <= seg => IsUntouched(s)
    BY <1>1, <1>4, <1>5 DEF Inv, LayoutInv, SegmentsInOrder, Underway, Segs
  <2>2. IsLinked(seg)
    BY <1>1, <1>4, <2>1 DEF IsLinked, IsUntouched, Segs
  <2>3. \A s \in Segs : (IsLinked(s)' <=> IsLinked(s)) /\ (IsUntouched(s)' <=> IsUntouched(s))
    BY <1>1, <1>2, SegmentStays
  <2>4. \A s \in Segs : s > seg - 1 => IsLinked(s)
    BY <1>4, <2>1, <2>2 DEF Segs
  <2>5. \A s \in Segs : s <= seg - 1 => IsUntouched(s)
    BY <1>4, <2>1 DEF Segs
  <2>6. DataFilled'
    BY <1>2, <2>1, HeaderStays
  <2>7. \A s \in Segs : s > seg' => IsLinked(s)'
    BY <1>1, <2>3, <2>4
  <2>8. \A s \in Segs : s < seg' \/ (s = seg' /\ pc' = "idle") => IsUntouched(s)'
    BY <1>1, <1>4, <2>3, <2>5 DEF Segs
  <2> QED BY <2>6, <2>7, <2>8 DEF SegmentsInOrder
<1> QED BY <1>3, <1>4, <1>6, <1>7 DEF Inv, LayoutInv

LEMMA BeginSegmentKeeps ==
  ASSUME Inv, BeginSegment
  PROVE  Inv'
<1> DEFINE refused == \/ DataOffset(seg) % 4 # 0 \/ SegmentSize(seg) % 4 # 0
                      \/ DataOffset(seg) >= header.size \/ LastWord(seg) >= header.size
<1>1. CASE refused
  BY <1>1, Stops DEF BeginSegment, Reject, Go
<1>2. CASE ~refused
  <2>1. /\ step = "segments" /\ ThreeSegments /\ seg >= 0 /\ Info(seg).size # 0 /\ pc = "idle"
        /\ pushed' = [pushed EXCEPT ![seg] = WordsCopied(seg)]
        /\ Begin(AtOffset(LinkOffset(seg)), WordsCopied(seg))
        /\ UNCHANGED <<header, step, seg, ends>>
    BY <1>2 DEF BeginSegment, ThreeSegments
  <2>2. SameHeader /\ pc' = "start" /\ from' = AtOffset(LinkOffset(seg))
    BY <2>1 DEF SameHeader, Begin, file
  <2>3. seg \in Segs /\ LayoutType /\ CopiedWithin
    BY <2>1 DEF Inv, LayoutInv, LayoutType, Segs
  <2>4. PICK g \in Segs : g = seg
    BY <2>3
  <2>5. PICK n \in Nat : /\ n = WordsCopied(g)
                         /\ n # 0 => DataOffset(g) + 4 * n = LastWord(g) + 4
                         /\ LastWord(g) % 4 = 0
    BY <1>2, <2>1, <2>3, <2>4, CopyIs
  <2>6. /\ DataOffset(g) \in Nat /\ LinkOffset(g) \in Nat /\ LastWord(g) \in Nat
        /\ header.size \in Nat /\ DataOffset(g) < header.size /\ LastWord(g) < header.size
    BY <1>2, <2>1, <2>3, <2>4, OffsetsTyped, InUInt32, HeaderTypes
  <2>c. pushed' = [pushed EXCEPT ![g] = n] /\ Begin(AtOffset(LinkOffset(g)), n)
    BY <2>1, <2>4, <2>5, Zenon
  <2>a. VisitInv'
    <3>1. AtOffset(LinkOffset(g)) \in Int
      BY <2>6 DEF AtOffset, HeaderSize
    <3> QED BY <2>c, <2>5, <3>1, BeginVisits DEF Inv
  <2>7. LayoutType'
    <3>1. pushed' \in [Segs -> Nat]
      BY <2>c, <2>3 DEF LayoutType
    <3> QED BY <2>1, <2>2, <2>3, <3>1, HeaderStays DEF LayoutType, SameHeader
  <2>8. pushed'[g] = n /\ \A s \in Segs : s # g => pushed'[s] = pushed[s]
    BY <2>c, <2>3 DEF LayoutType
  <2>9. /\ DataFilled
        /\ \A s \in Segs : s > seg => IsLinked(s)
        /\ \A s \in Segs : s <= seg => IsUntouched(s)
    BY <2>1, <2>3 DEF Inv, LayoutInv, SegmentsInOrder, Underway, Segs
  <2>10. TableOfSegment'
    <3>1. seg' = g
      BY <2>1, <2>4
    <3>2. /\ Info(g)' = Info(g) /\ LinkOffset(g)' = LinkOffset(g)
          /\ SegmentSize(g)' = SegmentSize(g) /\ DataOffset(g)' = DataOffset(g)
          /\ LastWord(g)' = LastWord(g) /\ WordsCopied(g)' = WordsCopied(g)
      BY <2>2, HeaderStays
    <3>3. Copied(g)'
      <4>1. header' = header /\ DataOffset(g) % 4 = 0 /\ SegmentSize(g) % 4 = 0
        BY <1>2, <2>1, <2>4
      <4> QED BY <2>5, <2>6, <2>8, <3>2, <4>1 DEF Copied
    <3>4. ends'[g] = -1
      BY <2>1, <2>3, <2>4, <2>9 DEF IsUntouched, Segs
    <3> QED BY <2>1, <2>2, <2>4, <3>1, <3>2, <3>3, <3>4 DEF TableOfSegment, AtOffset
  <2>b. CopiedWithin'
    <3>1. n # 0 => DataOffset(g) + 4 * n <= header.size
      <4>1. PICK z \in Nat, l \in Nat : /\ z = header.size /\ z % 16 = 0
                                        /\ l = LastWord(g) /\ l < z /\ l % 4 = 0
        BY <2>1, <2>3, <2>5, <2>6, <2>9, SizeIsLines
      <4>2. l + 4 <= z
        BY <4>1
      <4> QED BY <2>5, <4>1, <4>2
    <3>2. ASSUME NEW s \in Segs, pushed'[s] # 0
          PROVE  DataOffset(s) + 4 * pushed'[s] <= header.size
      BY <2>1, <2>3, <2>8, <3>1, <3>2 DEF CopiedWithin
    <3> QED BY <2>1, <2>2, <3>2, HeaderStays DEF CopiedWithin
  <2>11. SegmentsInOrder'
    <3>1. \A s \in Segs : s # seg => /\ IsLinked(s)' <=> IsLinked(s)
                                     /\ IsUntouched(s)' <=> IsUntouched(s)
      BY <2>1, <2>2, <2>4, <2>8, SegmentStays
    <3>2. DataFilled'
      BY <2>2, <2>9, HeaderStays
    <3>3. \A s \in Segs : s > seg' => IsLinked(s)'
      BY <2>1, <2>3, <2>9, <3>1 DEF Segs
    <3>4. \A s \in Segs : s < seg' \/ (s = seg' /\ pc' = "idle") => IsUntouched(s)'
      BY <2>1, <2>2, <2>3, <2>9, <3>1 DEF Segs
    <3> QED BY <3>2, <3>3, <3>4 DEF SegmentsInOrder
  <2>12. NothingDone' /\ EndsChecked'
    BY <2>1 DEF NothingDone, EndsChecked
  <2> QED BY <2>7, <2>a, <2>b, <2>10, <2>11, <2>12 DEF Inv, LayoutInv
<1> QED BY <1>1, <1>2

LEMMA SegmentLinkedKeeps ==
  ASSUME Inv, SegmentLinked
  PROVE  Inv'
<1>1. /\ step = "segments" /\ ThreeSegments /\ End /\ pc = "done"
      /\ ends' = [ends EXCEPT ![seg] = OffsetOf(ptr)]
      /\ seg' = seg - 1
      /\ UNCHANGED <<header, step, pushed>>
  BY DEF SegmentLinked, ThreeSegments, End
<1>2. SameHeader /\ pc' = "idle"
  BY <1>1 DEF SameHeader, End, file
<1>3. LayoutType /\ VisitInv /\ CopiedWithin
  BY DEF Inv, LayoutInv
<1>4. /\ seg \in Segs /\ Info(seg).size # 0 /\ from = AtOffset(LinkOffset(seg))
      /\ Copied(seg)
  BY <1>1 DEF Inv, LayoutInv, TableOfSegment
<1>5. ptr \in Int /\ ptr \in from .. Len(table) + 1 /\ ptr > 0
  <2>1. ptr \in Int /\ ptr > 0
    BY <1>1, <1>3, TableFacts DEF VisitInv, ReaderAt
  <2>2. ptr \in from .. Len(table) + 1
    BY <1>1, <1>3 DEF VisitInv, TableTypeOK
  <2> QED BY <2>1, <2>2
<1>6. LinkOffset(seg) \in Nat
  BY <1>1, <1>3, <1>4, OffsetsTyped, InUInt32
<1>7. /\ OffsetOf(ptr) \in Int /\ OffsetOf(ptr) >= LinkOffset(seg)
      /\ OffsetOf(ptr) >= HeaderSize /\ OffsetOf(ptr) <= header.size
  <2>1. PICK l \in Nat, z \in Nat : l = Len(table) /\ z = header.size /\ HeaderSize + l <= z
    BY <1>1, <1>3, HeaderTypes, TableFacts DEF LayoutType, VisitInv
  <2> QED BY <1>4, <1>5, <1>6, <2>1 DEF OffsetOf, AtOffset, HeaderSize
<1>8. VisitInv'
  BY <1>1, <1>3, EndVisits
<1>9. LayoutType' /\ CopiedWithin'
  <2>1. LayoutType'
    BY <1>1, <1>2, <1>3, <1>4, <1>7, HeaderStays DEF LayoutType, SameHeader, Segs
  <2> QED BY <1>1, <1>2, <1>3, <2>1, CopiedStays
<1>10. ends'[seg] = OffsetOf(ptr) /\ \A s \in Segs : s # seg => ends'[s] = ends[s]
  BY <1>1, <1>3, <1>4 DEF LayoutType
<1>11. SegmentsInOrder'
  <2>1. /\ DataFilled
        /\ \A s \in Segs : s > seg => IsLinked(s)
        /\ \A s \in Segs : s < seg => IsUntouched(s)
    BY <1>1, <1>4 DEF Inv, LayoutInv, SegmentsInOrder, Underway
  <2>2. \A s \in Segs : s # seg => /\ IsLinked(s)' <=> IsLinked(s)
                                   /\ IsUntouched(s)' <=> IsUntouched(s)
    BY <1>1, <1>2, <1>10, SegmentStays
  <2>3. \A s \in Segs : s = seg => IsLinked(s)'
    <3> SUFFICES ASSUME NEW s \in Segs, s = seg
                 PROVE  IsLinked(s)'
      OBVIOUS
    <3>1. /\ Info(s)' = Info(s) /\ LinkOffset(s)' = LinkOffset(s)
          /\ SegmentSize(s)' = SegmentSize(s) /\ DataOffset(s)' = DataOffset(s)
          /\ LastWord(s)' = LastWord(s) /\ WordsCopied(s)' = WordsCopied(s)
      BY <1>2, HeaderStays
    <3>2. Copied(s)'
      BY <1>1, <1>4, <3>1 DEF Copied
    <3> QED BY <1>1, <1>4, <1>7, <1>10, <3>1, <3>2 DEF IsLinked, HeaderSize
  <2>4. DataFilled'
    BY <1>2, <2>1, HeaderStays
  <2>5. \A s \in Segs : s > seg' => IsLinked(s)'
    BY <1>1, <1>4, <2>1, <2>2, <2>3 DEF Segs
  <2>6. \A s \in Segs : s < seg' \/ (s = seg' /\ pc' = "idle") => IsUntouched(s)'
    BY <1>1, <1>4, <2>1, <2>2 DEF Segs
  <2> QED BY <2>4, <2>5, <2>6 DEF SegmentsInOrder
<1>12. NothingDone' /\ TableOfSegment' /\ EndsChecked'
  BY <1>1, <1>2 DEF NothingDone, TableOfSegment, EndsChecked
<1> QED BY <1>8, <1>9, <1>11, <1>12 DEF Inv, LayoutInv

LEMMA CheckEndsKeeps ==
  ASSUME Inv, CheckEnds
  PROVE  Inv'
<1>1. CASE step' = "rejected"
  BY <1>1, Stops DEF CheckEnds, Reject, Go
<1>2. CASE step' # "rejected"
  <2>1. /\ step = "segments" /\ step' = "accepted" /\ ThreeSegments /\ seg < 0
        /\ LinkOffset(0) = HeaderSize /\ LinkFilled(0) /\ LinkFilled(1)
        /\ Info(2).size # 0 => LastTableFilled
        /\ UNCHANGED <<reading, header, seg, ends, pushed>>
    BY <1>2 DEF CheckEnds, Reject, Go, ThreeSegments
  <2>2. SameHeader /\ pc' = pc
    BY <2>1 DEF SameHeader, reading, file
  <2>3. LayoutType /\ seg = -1
    BY <2>1 DEF Inv, LayoutInv, LayoutType
  <2>4. VisitInv'
    BY <2>1, VisitStays DEF Inv
  <2>5. LayoutType' /\ CopiedWithin'
    <3>1. seg' \in -1 .. 2
      BY <2>1, <2>3
    <3> QED BY <2>1, <2>2, <2>3, <3>1, LayoutStays, CopiedStays DEF Inv, LayoutInv
  <2>6. EndsChecked'
    <3>1. LinkOffset(0)' = LinkOffset(0) /\ LinkOffset(1)' = LinkOffset(1)
          /\ LinkOffset(2)' = LinkOffset(2) /\ DataOffset(0)' = DataOffset(0)
          /\ Info(0)' = Info(0) /\ Info(1)' = Info(1) /\ Info(2)' = Info(2)
      BY <2>2, HeaderStays DEF Segs
    <3>2. LinkFilled(0)' /\ LinkFilled(1)'
      BY <2>1, <3>1 DEF LinkFilled
    <3>3. Info(2)'.size # 0 => LastTableFilled'
      BY <2>1, <3>1 DEF LastTableFilled
    <3> QED BY <2>1, <2>3, <3>1, <3>2, <3>3 DEF EndsChecked, HeaderSize
  <2>7. SegmentsInOrder'
    <3>1. \A s \in Segs : (IsLinked(s)' <=> IsLinked(s)) /\ (IsUntouched(s)' <=> IsUntouched(s))
      BY <2>1, <2>2, SegmentStays
    <3>2. /\ DataFilled
          /\ \A s \in Segs : s > seg => IsLinked(s)
          /\ \A s \in Segs : ~(s <= seg)
      BY <2>1, <2>3 DEF Inv, LayoutInv, SegmentsInOrder, Underway, Segs
    <3>3. DataFilled'
      BY <2>2, <3>2, HeaderStays
    <3> QED BY <2>1, <2>3, <3>1, <3>2, <3>3 DEF SegmentsInOrder, Segs
  <2>8. NothingDone' /\ TableOfSegment'
    BY <2>1 DEF NothingDone, TableOfSegment
  <2> QED BY <2>4, <2>5, <2>6, <2>7, <2>8 DEF Inv, LayoutInv
<1> QED BY <1>1, <1>2

(* A V4 file has no segments to be told apart. *)
LEMMA SingleKeeps ==
  ASSUME LayoutInv, ~ThreeSegments, UNCHANGED <<version, header>>,
         step' # "header", LayoutType'
  PROVE  LayoutInv'
<1>1. ~ThreeSegments'
  BY DEF ThreeSegments
<1> QED BY <1>1 DEF LayoutInv, NothingDone, CopiedWithin, TableOfSegment, SegmentsInOrder,
                    Underway, EndsChecked

LEMMA ReadHeader4Keeps ==
  ASSUME Inv, ReadHeader4
  PROVE  Inv'
<1>1. CASE ~header.valid \/ header.code_size % 4 # 0 \/ header.length2 # header.length
  BY <1>1, Stops DEF ReadHeader4, Reject, Go
<1>2. CASE ~(~header.valid \/ header.code_size % 4 # 0 \/ header.length2 # header.length)
  <2>1. /\ ~ThreeSegments /\ step' = "segments" /\ seg' = 0
        /\ pushed' = [pushed EXCEPT ![0] = header.code_size \div 4]
        /\ Begin(1, header.code_size \div 4)
        /\ UNCHANGED <<header, ends>>
    BY <1>2 DEF ReadHeader4, ThreeSegments
  <2>2. header.code_size \div 4 \in Nat
    BY <2>1, HeaderTypes DEF Inv, LayoutInv
  <2>3. UNCHANGED <<version, header>>
    BY <2>1 DEF Begin, file
  <2>4. LayoutType'
    BY <2>1, <2>2, <2>3 DEF Inv, LayoutInv, LayoutType, Segs, ThreeSegments
  <2>5. VisitInv'
    BY <2>1, <2>2, BeginVisits DEF Inv
  <2> QED BY <2>1, <2>3, <2>4, <2>5, SingleKeeps DEF Inv
<1> QED BY <1>1, <1>2

LEMMA Linked4Keeps ==
  ASSUME Inv, Linked4
  PROVE  Inv'
<1>1. /\ ~ThreeSegments /\ step' \in {"accepted", "rejected"} /\ End
      /\ UNCHANGED <<version, header, seg, ends, pushed>>
  BY DEF Linked4, ThreeSegments, End, file
<1>2. LayoutType'
  BY <1>1 DEF Inv, LayoutInv, LayoutType, ThreeSegments
<1>3. VisitInv'
  BY <1>1, EndVisits DEF Inv
<1> QED BY <1>1, <1>2, <1>3, SingleKeeps DEF Inv

LEMMA ReadTableKeeps ==
  ASSUME Inv, ReadTable, UNCHANGED layout
  PROVE  Inv'
<1>1. pc # "idle" /\ pc' # "idle" /\ UNCHANGED <<version, table, from>>
  BY DEF ReadTable, Start, Count, ReadSymbol, NoMoreSymbols, Reference3, Reference2, Refer,
         Refused, NoReference, Lost, Stop, file
<1>2. UNCHANGED <<header, step, seg, ends, pushed>> /\ SameHeader
  BY <1>1 DEF layout, SameHeader
<1>3. VisitInv'
  BY ReadTableVisits DEF Inv
<1>4. LayoutType' /\ CopiedWithin'
  <2>1. seg' \in -1 .. 2 /\ step' \in {"header", "segments", "accepted", "rejected", "abandoned"}
    BY <1>2 DEF Inv, LayoutInv, LayoutType
  <2> QED BY <1>2, <2>1, LayoutStays, CopiedStays DEF Inv, LayoutInv
<1>5. NothingDone'
  BY <1>1, <1>2 DEF Inv, LayoutInv, NothingDone
<1>6. \A s \in Segs : /\ IsLinked(s)' <=> IsLinked(s)
                      /\ IsUntouched(s)' <=> IsUntouched(s)
                      /\ Copied(s)' <=> Copied(s)
  BY <1>2, SegmentStays
<1>7. SegmentsInOrder'
  BY <1>1, <1>2, <1>6, HeaderStays DEF Inv, LayoutInv, SegmentsInOrder, Underway
<1>8. TableOfSegment'
  <2> SUFFICES ASSUME ThreeSegments, step = "segments"
               PROVE  /\ seg' \in Segs /\ Info(seg)'.size # 0
                      /\ from' = AtOffset(LinkOffset(seg))' /\ Copied(seg)' /\ ends'[seg'] = -1
    BY <1>2, HeaderStays DEF TableOfSegment
  <2>1. PICK g \in Segs : g = seg
    BY <1>1 DEF Inv, LayoutInv, TableOfSegment
  <2>2. /\ Info(g).size # 0 /\ from = AtOffset(LinkOffset(g)) /\ Copied(g) /\ ends[g] = -1
    BY <1>1, <2>1 DEF Inv, LayoutInv, TableOfSegment
  <2>3. Info(g)' = Info(g) /\ LinkOffset(g)' = LinkOffset(g) /\ seg' = g
    BY <1>2, <2>1, HeaderStays
  <2> QED BY <1>1, <1>2, <1>6, <2>1, <2>2, <2>3 DEF AtOffset
<1>9. EndsChecked'
  <2>1. LinkOffset(0)' = LinkOffset(0) /\ LinkOffset(1)' = LinkOffset(1)
        /\ LinkOffset(2)' = LinkOffset(2) /\ DataOffset(0)' = DataOffset(0)
        /\ Info(0)' = Info(0) /\ Info(1)' = Info(1) /\ Info(2)' = Info(2)
    BY <1>2, HeaderStays DEF Segs
  <2> QED BY <1>2, <2>1, HeaderStays
          DEF Inv, LayoutInv, EndsChecked, LinkFilled, LastTableFilled, HeaderSize
<1> QED BY <1>3, <1>4, <1>5, <1>7, <1>8, <1>9 DEF Inv, LayoutInv

LEMMA InvStutters ==
  ASSUME Inv, UNCHANGED vars
  PROVE  Inv'
<1>1. UNCHANGED reading /\ UNCHANGED <<header, step, seg, ends, pushed>>
  BY DEF vars, layout
<1>2. VisitInv'
  BY <1>1, VisitStays DEF Inv
<1>3. LayoutInv'
  BY <1>1 DEF Inv, LayoutInv, LayoutType, NothingDone, CopiedWithin, TableOfSegment,
              SegmentsInOrder, EndsChecked, Underway, ThreeSegments, IsLinked, IsUntouched,
              Copied, DataFilled, Info, LinkOffset, DataOffset, SegmentSize, LastWord,
              WordsCopied, LinkFilled, LastTableFilled, reading, file
<1> QED BY <1>2, <1>3 DEF Inv

LEMMA NextKeeps ==
  ASSUME Inv, [Next]_vars
  PROVE  Inv'
  BY AbandonKeeps, ReadHeaderKeeps, SkipSegmentKeeps, BeginSegmentKeeps, SegmentLinkedKeeps,
     CheckEndsKeeps, ReadHeader4Keeps, Linked4Keeps, ReadTableKeeps, InvStutters DEF Next

LEMMA InvHolds == Spec => []Inv
<1>1. Init => Inv
  BY InitInv
<1>2. Inv /\ [Next]_vars => Inv'
  BY NextKeeps
<1> QED BY <1>1, <1>2, PTL DEF Spec

-----------------------------------------------------------------------------
(* The words and tables of an accepted file                                *)

(* The words of a segment contain its bytes and end before the next line.   *)
LEMMA WordsOfSegment ==
  ASSUME LayoutInv, ThreeSegments, NEW s \in Segs, IsLinked(s),
         header.length + Info(s).data + Info(s).size + 32 <= Wrap
  PROVE  /\ 4 * pushed[s] >= Info(s).size
         /\ DataOffset(s) + 4 * pushed[s] <= align16(Plus(DataOffset(s), Info(s).size))
<1>1. LayoutType /\ pushed[s] \in Nat
  BY DEF LayoutInv, LayoutType
<1>2. PICK d \in Nat, n \in Nat, z \in Nat, p \in Nat :
        d = DataOffset(s) /\ n = Info(s).size /\ z = SegmentSize(s) /\ p = pushed[s]
  BY <1>1, OffsetsTyped, InUInt32
<1>3. PICK l \in Nat : l = Line(d + n) /\ d + n <= l /\ align16(Plus(d, n)) = l
  <2>1. align16(Plus(d, n)) = Line(d + n)
    BY <1>1, <1>2, CopyFits
  <2> QED BY <2>1, LineIs
<1>4. CASE n = 0
  <2>1. p = 0
    BY <1>2, <1>4 DEF IsLinked
  <2> QED BY <1>2, <1>3, <1>4, <2>1
<1>5. CASE n # 0
  <2>1. p = WordsCopied(s) /\ z % 4 = 0 /\ d % 4 = 0
    BY <1>2, <1>5 DEF IsLinked, Copied
  <2>2. n <= z /\ 4 * p = z /\ d + z <= l
    BY <1>1, <1>2, <1>3, <1>5, <2>1, CopyFits
  <2> QED BY <1>2, <1>3, <2>2
<1> QED BY <1>4, <1>5

(* The tables are in the order of the segments.  Their ends are in the file, *)
(* so that no sum of them wraps.                                             *)
LEMMA TablesInOrder ==
  ASSUME LayoutInv, ThreeSegments, step = "accepted", DataFilled,
         \A s \in Segs : IsLinked(s)
  PROVE  \A s \in Segs : ends[s] # -1 =>
           /\ HeaderSize <= LinkOffset(s) /\ LinkOffset(s) <= ends[s]
           /\ \A t \in s + 1 .. 2 : ends[s] < LinkOffset(t)
<1>1. \A s \in Segs : LinkOffset(s) \in Nat /\ Info(s).size \in Nat /\ ends[s] \in Int
  BY OffsetsTyped, InUInt32 DEF LayoutInv, LayoutType
<1>2. LinkOffset(0) = HeaderSize /\ LinkFilled(0) /\ LinkFilled(1)
  BY DEF LayoutInv, EndsChecked
<1>3. \A s \in Segs : IF Info(s).size = 0 THEN ends[s] = -1
                      ELSE ends[s] >= LinkOffset(s) /\ ends[s] <= header.size
  BY DEF IsLinked
<1>4. \A n \in Nat : n < header.size + 16 => n \in UInt32
  BY SizeIsLines, WrapIs DEF LayoutInv, UInt32
<1>5. header.size \in Nat /\ 130 < Wrap
  BY SizeIsLines, WrapIs DEF LayoutInv
<1>6. /\ Info(0).size = 0 => LinkOffset(1) = 130
      /\ Info(0).size # 0 => LinkOffset(1) = ends[0] + 1
  <2>1. Info(0).size = 0 => LinkOffset(1) = Plus(128, 2)
    BY <1>2 DEF LinkFilled, HeaderSize
  <2>2. Plus(128, 2) = 130
    <3>1. 128 + 2 = 130 /\ 130 \in UInt32
      BY <1>5, WrapIs DEF UInt32
    <3> QED BY <3>1, PlusIs
  <2>3. Info(0).size # 0 => LinkOffset(1) = Plus(ends[0], 1)
    BY <1>2 DEF LinkFilled
  <2>4. Info(0).size # 0 => ends[0] + 1 \in UInt32 /\ ends[0] \in Int
    BY <1>1, <1>3, <1>4, <1>5 DEF Segs
  <2> QED BY <2>1, <2>2, <2>3, <2>4, PlusIs
<1>7. /\ Info(1).size = 0 => LinkOffset(2) = LinkOffset(1) + 2
      /\ Info(1).size # 0 => LinkOffset(2) = ends[1] + 1
  <2>1. Info(1).size = 0 => LinkOffset(2) = Plus(LinkOffset(1), 2)
    BY <1>2 DEF LinkFilled
  <2>2. LinkOffset(1) \in Int /\ LinkOffset(1) + 2 \in UInt32
    <3>1. CASE Info(0).size = 0
      <4>1. 132 \in UInt32
        BY WrapIs DEF UInt32
      <4> QED BY <1>6, <3>1, <4>1
    <3>2. CASE Info(0).size # 0
      BY <1>1, <1>3, <1>4, <1>5, <1>6, <3>2 DEF Segs
    <3> QED BY <3>1, <3>2
  <2>3. Info(1).size # 0 => LinkOffset(2) = Plus(ends[1], 1)
    BY <1>2 DEF LinkFilled
  <2>4. Info(1).size # 0 => ends[1] + 1 \in UInt32 /\ ends[1] \in Int
    BY <1>1, <1>3, <1>4, <1>5 DEF Segs
  <2> QED BY <2>1, <2>2, <2>3, <2>4, PlusIs
<1>8. LinkOffset(0) = 128
  BY <1>2 DEF HeaderSize
<1>9. LinkOffset(0) < LinkOffset(1) /\ LinkOffset(1) < LinkOffset(2)
  BY <1>1, <1>3, <1>6, <1>7, <1>8 DEF Segs
<1>10. ends[0] # -1 => ends[0] < LinkOffset(1)
  BY <1>1, <1>3, <1>6 DEF Segs
<1>11. ends[1] # -1 => ends[1] < LinkOffset(2)
  BY <1>1, <1>3, <1>7 DEF Segs
<1>12. \A s \in Segs : ends[s] # -1 => HeaderSize <= LinkOffset(s) /\ LinkOffset(s) <= ends[s]
  BY <1>1, <1>3, <1>8, <1>9 DEF Segs, HeaderSize
<1>13. \A s \in Segs : ends[s] # -1 => \A t \in s + 1 .. 2 : ends[s] < LinkOffset(t)
  BY <1>1, <1>9, <1>10, <1>11 DEF Segs
<1> QED BY <1>12, <1>13

(* and before the data, if the end of the last one was compared with it.    *)
LEMMA TablesBeforeData ==
  ASSUME LayoutInv, ThreeSegments, step = "accepted", DataFilled, ~UnsetEnd,
         header.size + 32 <= Wrap, \A s \in Segs : IsLinked(s)
  PROVE  \A s \in Segs : ends[s] # -1 => ends[s] < DataOffset(0)
<1>1. \A s \in Segs : LinkOffset(s) \in Nat /\ DataOffset(s) \in Nat /\ ends[s] \in Int
  BY OffsetsTyped, InUInt32 DEF LayoutInv, LayoutType
<1>2. Info(2).size # 0
  BY DEF UnsetEnd, ThreeSegments, Info
<1>3. /\ align16(Plus(ends[2], 2)) = DataOffset(0) /\ ends[2] >= LinkOffset(2)
      /\ ends[2] <= header.size
  BY <1>2 DEF LayoutInv, EndsChecked, LastTableFilled, IsLinked, Segs
<1>4. PICK e \in Nat, w \in Nat : e = ends[2] /\ w = Wrap /\ e + 32 <= w
  <2>1. header.size \in Nat /\ Wrap \in Nat
    BY SizeIsLines, WrapIs DEF LayoutInv
  <2>2. ends[2] \in Nat
    BY <1>1, <1>3 DEF Segs
  <2> QED BY <1>3, <2>1, <2>2
<1>5. PICK n \in Nat : n = e + 2 /\ n = Plus(ends[2], 2)
  <2>1. e + 2 \in UInt32
    BY <1>4 DEF UInt32
  <2> QED BY <1>4, <2>1, PlusIs
<1>6. e < DataOffset(0)
  <2>1. PICK l \in Nat : l = Line(n) /\ n <= l /\ l <= n + 15
    BY LineIs
  <2>2. l < Wrap
    BY <1>4, <1>5, <2>1
  <2>3. align16(n) = l
    BY <2>1, <2>2, LineIs
  <2> QED BY <1>3, <1>5, <2>1, <2>3
<1>7. \A s \in 0 .. 1 : ends[s] # -1 => ends[s] < LinkOffset(2)
  BY TablesInOrder DEF Segs
<1> QED BY <1>1, <1>3, <1>4, <1>6, <1>7 DEF Segs

LEMMA InvDisjoint ==
  ASSUME Inv
  PROVE  SegmentsDisjoint
<1> SUFFICES ASSUME version # 4
             PROVE  SegmentsDisjoint
  BY DEF SegmentsDisjoint
<1>1. LayoutInv /\ LayoutType /\ ThreeSegments /\ CopiedWithin
  BY DEF Inv, LayoutInv, ThreeSegments
<1>2. \A s \in Segs : pushed[s] # 0 => DataOffset(s) + 4 * pushed[s] <= header.size
  BY <1>1 DEF CopiedWithin
<1>3. ASSUME step = "accepted"
      PROVE  DataFilled /\ \A s \in Segs : IsLinked(s)
  BY <1>1, <1>3 DEF LayoutInv, SegmentsInOrder, Underway, EndsChecked, Segs
<1>4. ASSUME step = "accepted"
      PROVE  \A s \in Segs : ends[s] # -1 =>
               /\ HeaderSize <= LinkOffset(s) /\ LinkOffset(s) <= ends[s]
               /\ \A t \in s + 1 .. 2 : ends[s] < LinkOffset(t)
  BY <1>1, <1>3, <1>4, TablesInOrder
<1>5. ASSUME step = "accepted", SumsFit, NEW s \in Segs
      PROVE  /\ 4 * pushed[s] >= Info(s).size
             /\ s # 2 => DataOffset(s) + 4 * pushed[s] <= DataOffset(s + 1)
             /\ ends[s] # -1 => ends[s] < DataOffset(0) \/ UnsetEnd
  <2>1. \A q \in Segs : header.length + Info(q).data + Info(q).size + 32 <= Wrap
    BY <1>5 DEF SumsFit
  <2>2. /\ 4 * pushed[s] >= Info(s).size
        /\ DataOffset(s) + 4 * pushed[s] <= align16(Plus(DataOffset(s), Info(s).size))
    BY <1>1, <1>3, <1>5, <2>1, WordsOfSegment
  <2>3. s # 2 => align16(Plus(DataOffset(s), Info(s).size)) = DataOffset(s + 1)
    BY <1>3, <1>5 DEF DataFilled, Segs
  <2>4. header.size + 32 <= Wrap
    <3>1. PICK g \in Segs : g = 2
      BY DEF Segs
    <3>2. header.size = align16(Plus(DataOffset(g), Info(g).size))
      BY <1>3, <1>5, <3>1 DEF DataFilled
    <3> QED BY <1>1, <2>1, <3>2, CopyFits
  <2>5. ends[s] # -1 => ends[s] < DataOffset(0) \/ UnsetEnd
    BY <1>1, <1>3, <1>5, <2>4, TablesBeforeData
  <2> QED BY <2>2, <2>3, <2>5
<1> QED BY <1>2, <1>4, <1>5 DEF SegmentsDisjoint

-----------------------------------------------------------------------------
(* Linking a file that has been written                                    *)

IsOf(x) ==
  header = FileOf(x).header /\ table = FileOf(x).table /\ version = x.version /\ fits = TRUE

Readable(x) == \A s \in DOMAIN x.tables : ~EndsOnTop(x.tables[s])

WordsIn(x, s) == IF x.version = 4 THEN x.words ELSE WordsOf(x, s)

(* The byte after the table of a segment. *)
EndOf(x, s) == BytesBefore(x, s) + Len(TableOf(x, s))

(* The table that is being read is that of the segment, and those that have *)
(* been read ended where they were written to end; the file is not rejected *)
(* but by the end that was not set.                                         *)
LinkInv(x) ==
  /\ pc # "idle" => /\ step = "segments" /\ seg \in DOMAIN x.tables
                    /\ from = 1 + BytesBefore(x, seg) /\ limit = WordsIn(x, seg)
                    /\ ReadInv(x.tables[seg])
  /\ version # 4 /\ step = "segments" =>
       \A s \in Segs : s > seg /\ x.sizes[s] # 0 => ends[s] = OffsetOf(EndOf(x, s))
  /\ version # 4 => step # "abandoned" /\ (step = "rejected" => UnsetEnd)
  /\ version = 4 => step \notin {"abandoned", "rejected"}

WrittenInv ==
  Written => \E x \in Sources : IsOf(x) /\ (Readable(x) => LinkInv(x))

(* What the header of such a file says. *)
LEMMA SegmentsOf ==
  ASSUME NEW x \in Sources, IsOf(x), version # 4
  PROVE  /\ IsSegmented(x) /\ x.version # 4 /\ DOMAIN x.tables = Segs
         /\ header.valid = TRUE /\ header.n_segments = 3
         /\ header.game = x.game /\ header.level_h = x.level_h
         /\ header.size = FileEnd(x)
         /\ header.source = <<x>>
         /\ \A s \in Segs : /\ LinkOffset(s) = HeaderSize + BytesBefore(x, s)
                            /\ DataOffset(s) = SegmentStart(x, s)
                            /\ Info(s).size = x.sizes[s]
                            /\ header.length + Info(s).data + Info(s).size + 32 <= Wrap
<1>1. x.version # 4 /\ HeaderOf(x, header)
  BY SegmentsWritten DEF IsOf
<1>2. IsSegmented(x)
  BY <1>1, SourceIs
<1>3. PICK d \in Nat, z \in Nat : /\ d = DataStart(x) /\ z = FileEnd(x)
                                  /\ d <= z /\ 2 * z <= Wrap /\ z < Wrap
  BY <1>2, StartsTyped
<1>4. PICK l \in Nat : l = Len(Region(x)) /\ HeaderSize + l < d
  <2>1. PICK l \in Nat : l = Len(Region(x))
    <3>1. Region(x) \in Seq(Int)
      BY <1>2, TablesTyped
    <3> QED BY <3>1
  <2>2. d >= HeaderSize + l + 1
    BY <1>2, <1>3, <2>1, StartsTyped
  <2> QED BY <1>3, <2>1, <2>2 DEF HeaderSize
<1>5. \A n \in Nat : n <= z => n \in UInt32
  BY <1>3, WrapIs DEF UInt32
<1>6. ASSUME NEW s \in Segs
      PROVE  LinkOffset(s) = HeaderSize + BytesBefore(x, s)
  <2>1. PICK b \in Nat : b = BytesBefore(x, s) /\ b <= l
    BY <1>2, <1>4, BeforeInRegion
  <2>2. Info(s).relocs = b + (IF version = 5 THEN 48 ELSE 128)
    BY <1>1, <2>1 DEF HeaderOf, RelocsOf, Info, IsOf, HeaderSize
  <2>3. PICK r \in Nat, v \in Nat : /\ r = Info(s).relocs /\ v = (IF version = 5 THEN 80 ELSE 0)
                                    /\ r + v = 128 + b
    <3>1. CASE version = 5
      BY <2>1, <2>2, <3>1
    <3>2. CASE version # 5
      BY <2>1, <2>2, <3>2
    <3> QED BY <3>1, <3>2
  <2>4. r + v \in UInt32
    BY <1>3, <1>4, <1>5, <2>1, <2>3 DEF HeaderSize
  <2>5. Plus(r, v) = 128 + b
    BY <2>3, <2>4, PlusIs
  <2> QED BY <2>1, <2>3, <2>5 DEF LinkOffset, HeaderSize
<1>7. ASSUME NEW s \in Segs
      PROVE  /\ DataOffset(s) = SegmentStart(x, s) /\ Info(s).size = x.sizes[s]
             /\ header.length + Info(s).data + Info(s).size + 32 <= Wrap
  <2>1. PICK a \in Nat, n \in Nat : a = SegmentStart(x, s) /\ n = x.sizes[s] /\ a >= d /\ a + n <= z
    BY <1>2, <1>3, StartsTyped
  <2>2. Info(s).data = a - d /\ header.length = d /\ Info(s).size = n
    BY <1>1, <1>3, <2>1 DEF HeaderOf, Info
  <2>3. PICK e \in Nat : e = a - d /\ d + e = a /\ a <= z
    BY <1>3, <2>1
  <2>4. Plus(d, e) = a
    BY <1>3, <1>5, <2>1, <2>3, PlusIs
  <2>5. d + e + n + 32 <= Wrap
    <3>1. a + n + 32 <= 2 * z
      BY <1>3, <1>4, <2>1 DEF HeaderSize
    <3> QED BY <1>3, <2>1, <2>3, <3>1, WrapIs
  <2> QED BY <2>1, <2>2, <2>3, <2>4, <2>5 DEF DataOffset
<1>8. DOMAIN x.tables = Segs
  BY <1>2 DEF IsSegmented
<1> QED BY <1>1, <1>2, <1>6, <1>7, <1>8 DEF HeaderOf

LEMMA SingleOf ==
  ASSUME NEW x \in Sources, IsOf(x), version = 4
  PROVE  /\ x.version = 4 /\ DOMAIN x.tables = {0}
         /\ header.valid = TRUE /\ header.code_size % 4 = 0 /\ header.length2 = header.length
         /\ header.code_size = 4 * x.words /\ x.words \in Nat
         /\ header.length2 = LinkLength(12 + Len(TableOf(x, 0)))
         /\ header.source = <<x>>
  BY SingleWritten DEF IsOf

LEMMA OriginOf ==
  ASSUME NEW x \in Sources, IsOf(x)
  PROVE  Source = x /\ Written
<1>1. header.source = <<x>>
  BY SegmentsOf, SingleOf
<1>2. <<x>>[1] = x /\ <<x>> # << >>
  OBVIOUS
<1> QED BY <1>1, <1>2 DEF Source, Written

LEMMA GivenInFile ==
  ASSUME NEW x \in Sources, IsOf(x), Readable(x), seg \in DOMAIN x.tables,
         from = 1 + BytesBefore(x, seg), limit = WordsIn(x, seg)
  PROVE  Given(x.tables[seg])
<1>0. fits = TRUE /\ version = x.version /\ ~EndsOnTop(x.tables[seg])
  BY DEF IsOf, Readable
<1>1. CASE version # 4
  <2>1. IsSegmented(x) /\ x.version # 4 /\ seg \in Segs
    BY <1>1, SegmentsOf
  <2>2. IsTable(version, x.tables[seg], limit)
    <3>1. IsTable(x.version, x.tables[seg], WordsOf(x, seg))
      BY <2>1 DEF IsSegmented
    <3>2. limit = WordsOf(x, seg)
      BY <2>1 DEF WordsIn
    <3> QED BY <1>0, <3>1, <3>2
  <2>3. StandsAt(table, from, TableOf(x, seg))
    BY <2>1, SegmentTables DEF IsOf
  <2> QED BY <1>0, <2>2, <2>3 DEF Given, TableOf
<1>2. CASE version = 4
  <2>1. x.version = 4 /\ seg = 0
    <3>1. x.version = 4 /\ DOMAIN x.tables = {0}
      BY <1>2, SingleOf
    <3> QED BY <3>1
  <2>2. IsTable(version, x.tables[seg], limit)
    <3>1. IsTable(4, x.tables[0], x.words)
      BY <2>1, SingleWritten
    <3>2. limit = x.words
      BY <2>1 DEF WordsIn
    <3> QED BY <1>2, <2>1, <3>1, <3>2
  <2>3. StandsAt(table, from, TableOf(x, seg))
    BY <2>1, SingleTable DEF IsOf
  <2> QED BY <1>0, <2>2, <2>3 DEF Given, TableOf
<1> QED BY <1>1, <1>2

LEMMA ReadHeaderLinks ==
  ASSUME Inv, NEW x \in Sources, IsOf(x), Readable(x), LinkInv(x), ReadHeader
  PROVE  LinkInv(x)'
<1>1. step = "header" /\ version # 4 /\ ThreeSegments /\ LayoutType
  BY DEF ReadHeader, ThreeSegments, Inv, LayoutInv
<1>2. pc = "idle" /\ seg = 2
  BY <1>1 DEF Inv, LayoutInv, NothingDone
<1>3. IsSegmented(x)
  BY <1>1, SegmentsOf
<1>4. DataFilled
  <2>1. \A s \in Segs : DataOffset(s) = SegmentStart(x, s) /\ Info(s).size = x.sizes[s]
    BY <1>1, SegmentsOf
  <2>2. header.size = FileEnd(x)
    BY <1>1, SegmentsOf
  <2>3. \A s \in 0 .. 1 : s \in Segs /\ s + 1 \in Segs
    BY DEF Segs
  <2>4. 2 \in Segs
    BY DEF Segs
  <2>5. /\ \A s \in 0 .. 1 : SegmentStart(x, s + 1) = Line(SegmentStart(x, s) + x.sizes[s])
        /\ FileEnd(x) = Line(SegmentStart(x, 2) + x.sizes[2])
    BY <1>3, StartsTyped
  <2>6. \A s \in Segs : align16(Plus(DataOffset(s), Info(s).size))
                          = Line(DataOffset(s) + Info(s).size)
    BY <1>1, SegmentsOf, CopyFits
  <2> QED BY <2>1, <2>2, <2>3, <2>4, <2>5, <2>6, Zenon DEF DataFilled
<1>5. header.valid /\ header.n_segments = 3
  BY <1>1, SegmentsOf
<1>6. step' = "segments" /\ UNCHANGED <<reading, header, seg, ends, pushed>>
  BY <1>4, <1>5 DEF ReadHeader, Go
<1>7. pc' = "idle" /\ version' = version /\ seg' = 2
  BY <1>2, <1>6 DEF reading, file
<1>8. \A s \in Segs : ~(s > seg')
  BY <1>7 DEF Segs
<1> QED BY <1>1, <1>6, <1>7, <1>8 DEF LinkInv

LEMMA SkipSegmentLinks ==
  ASSUME Inv, NEW x \in Sources, IsOf(x), Readable(x), LinkInv(x), SkipSegment
  PROVE  LinkInv(x)'
<1>1. /\ step = "segments" /\ version # 4 /\ seg \in Segs /\ Info(seg).size = 0
      /\ seg' = seg - 1 /\ UNCHANGED <<reading, header, step, ends, pushed>>
  BY DEF SkipSegment, Inv, LayoutInv, LayoutType, Segs
<1>2. pc = "idle"
  BY <1>1 DEF Inv, LayoutInv, TableOfSegment, ThreeSegments
<1>3. pc' = "idle" /\ version' = version
  BY <1>1, <1>2 DEF reading, file
<1>4. x.sizes[seg] = 0
  BY <1>1, SegmentsOf
<1>5. \A s \in Segs : s > seg' => s > seg \/ s = seg
  BY <1>1 DEF Segs
<1>6. \A s \in Segs : s > seg' /\ x.sizes[s] # 0 => ends'[s] = OffsetOf(EndOf(x, s))
  BY <1>1, <1>4, <1>5 DEF LinkInv
<1> QED BY <1>1, <1>3, <1>6 DEF LinkInv

(* Each segment is of whole words, where words are, and all are copied. *)
LEMMA WholeWords ==
  ASSUME LayoutType, NEW x \in Sources, IsOf(x), version # 4, NEW s \in Segs, x.sizes[s] # 0
  PROVE  /\ DataOffset(s) % 4 = 0 /\ SegmentSize(s) % 4 = 0
         /\ DataOffset(s) < header.size /\ LastWord(s) < header.size
         /\ WordsCopied(s) = WordsOf(x, s)
<1>1. /\ IsSegmented(x) /\ DataOffset(s) = SegmentStart(x, s) /\ Info(s).size = x.sizes[s]
      /\ header.game = x.game /\ header.level_h = x.level_h /\ version = x.version
      /\ header.size = FileEnd(x) /\ ThreeSegments
      /\ header.length + Info(s).data + Info(s).size + 32 <= Wrap
  BY SegmentsOf DEF IsOf, ThreeSegments
<1>2. PICK a \in Nat : a = DataOffset(s) /\ a % 4 = 0
  BY <1>1, StartsTyped
<1>3. PICK n \in Nat : n = x.sizes[s] /\ n # 0
  BY <1>1 DEF IsSegmented
<1>4. PICK z \in Nat : z = FileEnd(x) /\ a + n <= z /\ Line(a + n) <= z /\ 2 * z <= Wrap
  <2>1. PICK z \in Nat : z = FileEnd(x) /\ a + n <= z /\ 2 * z <= Wrap
    BY <1>1, <1>2, <1>3, StartsTyped
  <2>2. CASE s = 2
    <3>1. FileEnd(x) = Line(a + n)
      BY <1>1, <1>2, <1>3, <2>2, StartsTyped
    <3> QED BY <2>1, <3>1
  <2>3. CASE s # 2
    <3>1. s \in 0 .. 1 /\ s + 1 \in Segs
      BY <2>3 DEF Segs
    <3>2. SegmentStart(x, s + 1) = Line(a + n)
      BY <1>1, <1>2, <1>3, <3>1, StartsTyped
    <3>3. PICK b \in Nat, m \in Nat : b = SegmentStart(x, s + 1) /\ m = x.sizes[s + 1] /\ b + m <= z
      BY <1>1, <2>1, <3>1, StartsTyped
    <3> QED BY <2>1, <3>2, <3>3
  <2> QED BY <2>2, <2>3
<1>5. PICK w \in Nat : w = Wrap /\ n + 32 <= w
  <2>1. PICK h \in Nat, d \in Nat : h = header.length /\ d = Info(s).data
    BY <1>1, HeaderTypes
  <2>2. h + d + n + 32 <= Wrap
    BY <1>1, <1>3, <2>1
  <2> QED BY <2>1, <2>2, WrapIs
<1>6. PICK u \in Nat : u = AlignUp(n, 4) /\ u % 4 = 0 /\ n <= u /\ u <= n + 3 /\ u % Wrap = u
  <2>1. PICK u \in Nat : /\ u = AlignUp(n, 4) /\ u % 4 = 0 /\ n <= u /\ u <= n + 3
                         /\ u < Wrap => u % Wrap = u
    BY WordsUp
  <2> QED BY <1>5, <2>1
<1>7. SegmentSize(s) = u
  <2>1. CASE version = 5 \/ header.game = 2
    BY <1>1, <1>3, <1>6, <2>1 DEF SegmentSize
  <2>2. CASE ~(version = 5 \/ header.game = 2)
    <3>1. n % 4 = IF x.level_h /\ s = 0 THEN 3 ELSE 0
      BY <1>1, <1>3, <2>2 DEF IsSegmented
    <3>2. Plus(n, 1) = n + 1
      <4>1. n + 1 \in UInt32
        BY <1>5 DEF UInt32
      <4> QED BY <4>1, PlusIs
    <3>3. SegmentSize(s) = IF x.level_h /\ s = 0 THEN n + 1 ELSE n
      BY <1>1, <1>3, <2>2, <3>2 DEF SegmentSize
    <3> QED BY <1>6, <3>1, <3>3
  <2> QED BY <2>1, <2>2
<1>8. 4 * WordsOf(x, s) = u /\ WordsOf(x, s) \in Nat
  BY <1>1, <1>3, <1>6, SegmentIsTable
<1>9. PICK c \in Nat : /\ c = WordsCopied(s) /\ 4 * c = u
                       /\ c # 0 => a + 4 * c = LastWord(s) + 4
  <2>1. 4 * WordsCopied(s) = u
    BY <1>1, <1>2, <1>3, <1>6, <1>7, CopyFits
  <2>2. WordsCopied(s) \in Nat /\ (WordsCopied(s) # 0 => a + 4 * WordsCopied(s) = LastWord(s) + 4)
    BY <1>1, <1>2, <1>6, <1>7, CopyIs
  <2> QED BY <2>1, <2>2
<1>10. a < z
  BY <1>2, <1>3, <1>4
<1>11. LastWord(s) < z
  <2>1. a + u <= Line(a + n)
    BY <1>1, <1>2, <1>3, <1>6, <1>7, CopyFits
  <2>2. PICK l \in Nat : l = LastWord(s)
    BY <1>1, OffsetsTyped, InUInt32
  <2>3. a + u <= z
    <3>1. Line(a + n) \in Nat
      BY LineIs
    <3> QED BY <1>2, <1>4, <1>6, <2>1, <3>1
  <2>4. l + 4 = a + u
    <3>1. c # 0 /\ a + 4 * c = LastWord(s) + 4
      BY <1>3, <1>6, <1>9
    <3> QED BY <1>9, <2>2, <3>1
  <2> QED BY <1>2, <1>4, <2>2, <2>3, <2>4
<1>12. WordsCopied(s) = WordsOf(x, s)
  BY <1>8, <1>9
<1>13. DataOffset(s) % 4 = 0 /\ SegmentSize(s) % 4 = 0
  BY <1>2, <1>6, <1>7
<1> QED BY <1>1, <1>2, <1>4, <1>10, <1>11, <1>12, <1>13

LEMMA BeginSegmentLinks ==
  ASSUME Inv, NEW x \in Sources, IsOf(x), Readable(x), LinkInv(x), BeginSegment
  PROVE  LinkInv(x)'
<1>1. step = "segments" /\ version # 4 /\ seg \in Segs /\ Info(seg).size # 0 /\ LayoutType
  BY DEF BeginSegment, Inv, LayoutInv, LayoutType, Segs
<1>2. /\ x.sizes[seg] # 0 /\ LinkOffset(seg) = HeaderSize + BytesBefore(x, seg)
      /\ IsSegmented(x) /\ DOMAIN x.tables = Segs /\ x.version # 4
  BY <1>1, SegmentsOf
<1>3. /\ DataOffset(seg) % 4 = 0 /\ SegmentSize(seg) % 4 = 0
      /\ DataOffset(seg) < header.size /\ LastWord(seg) < header.size
      /\ WordsCopied(seg) = WordsOf(x, seg)
  BY <1>1, <1>2, WholeWords
<1>a. /\ DataOffset(seg) \in Nat /\ LastWord(seg) \in Nat /\ header.size \in Nat
  BY <1>1, OffsetsTyped, InUInt32, HeaderTypes DEF ThreeSegments
<1>4. Begin(AtOffset(LinkOffset(seg)), WordsCopied(seg)) /\ UNCHANGED <<header, step, seg, ends>>
  BY <1>3, <1>a DEF BeginSegment
<1>5. /\ from' = AtOffset(LinkOffset(seg)) /\ pc' = "start" /\ version' = version
      /\ limit' = WordsCopied(seg)
  BY <1>4 DEF Begin, file
<1>6. from' = 1 + BytesBefore(x, seg)
  <2>1. PICK b \in Nat : b = BytesBefore(x, seg)
    BY <1>1, <1>2, TablesTyped
  <2>2. AtOffset(LinkOffset(seg)) = 1 + b
    BY <1>2, <2>1 DEF AtOffset, HeaderSize
  <2> QED BY <1>5, <2>1, <2>2
<1>7. ReadInv(x.tables[seg])'
  BY <1>5 DEF ReadInv
<1>8. from' = 1 + BytesBefore(x, seg') /\ limit' = WordsIn(x, seg')
  BY <1>2, <1>3, <1>4, <1>5, <1>6 DEF WordsIn
<1> QED BY <1>1, <1>2, <1>4, <1>5, <1>7, <1>8 DEF LinkInv

LEMMA SegmentLinkedLinks ==
  ASSUME Inv, NEW x \in Sources, IsOf(x), Readable(x), LinkInv(x), SegmentLinked
  PROVE  LinkInv(x)'
<1>1. /\ step = "segments" /\ version # 4 /\ pc = "done" /\ pc' = "idle"
      /\ ends' = [ends EXCEPT ![seg] = OffsetOf(ptr)]
      /\ seg' = seg - 1 /\ UNCHANGED <<version, header, step, pushed>>
  BY DEF SegmentLinked, End, file
<1>2. IsSegmented(x) /\ DOMAIN x.tables = Segs
  BY <1>1, SegmentsOf
<1>3. /\ seg \in Segs /\ from = 1 + BytesBefore(x, seg)
      /\ ptr = from + Len(Table(version, x.tables[seg])) - 1
  BY <1>1, <1>2 DEF LinkInv, ReadInv
<1>4. OffsetOf(ptr) = OffsetOf(EndOf(x, seg))
  <2>1. PICK b \in Nat, l \in Nat : b = BytesBefore(x, seg) /\ l = Len(TableOf(x, seg))
    BY <1>2, <1>3, TablesTyped
  <2>2. ptr = (1 + b) + l - 1
    BY <1>3, <2>1 DEF IsOf, TableOf
  <2>3. ptr = b + l
    BY <2>2
  <2> QED BY <2>1, <2>3 DEF EndOf
<1>5. ends \in [Segs -> Int]
  BY DEF Inv, LayoutInv, LayoutType
<1>6. ends'[seg] = OffsetOf(EndOf(x, seg)) /\ \A s \in Segs : s # seg => ends'[s] = ends[s]
  BY <1>1, <1>3, <1>4, <1>5
<1>7. \A s \in Segs : s > seg' => s > seg \/ s = seg
  BY <1>1, <1>3 DEF Segs
<1>8. \A s \in Segs : s > seg' /\ x.sizes[s] # 0 => ends'[s] = OffsetOf(EndOf(x, s))
  BY <1>1, <1>6, <1>7 DEF LinkInv
<1> QED BY <1>1, <1>8 DEF LinkInv

(* The ends of the tables are where the header says. *)
LEMMA CheckEndsLinks ==
  ASSUME Inv, NEW x \in Sources, IsOf(x), Readable(x), LinkInv(x), CheckEnds
  PROVE  LinkInv(x)'
<1>1. step = "segments" /\ version # 4 /\ seg < 0
  BY DEF CheckEnds
<1>2. /\ IsSegmented(x)
      /\ \A s \in Segs : /\ LinkOffset(s) = HeaderSize + BytesBefore(x, s)
                         /\ DataOffset(s) = SegmentStart(x, s)
                         /\ Info(s).size = x.sizes[s]
  BY <1>1, SegmentsOf
<1>a. LayoutType /\ ThreeSegments
  BY <1>1 DEF Inv, LayoutInv, ThreeSegments
<1>3. \A s \in Segs : x.sizes[s] # 0 => ends[s] = OffsetOf(EndOf(x, s))
  <2>1. \A s \in Segs : s > seg
    BY <1>1 DEF Inv, LayoutInv, LayoutType, Segs
  <2> QED BY <1>1, <2>1 DEF LinkInv
<1>4. LinkOffset(0) = HeaderSize
  <2>1. BytesBefore(x, 0) = 0 /\ 0 \in Segs
    BY DEF BytesBefore, Segs
  <2> QED BY <1>2, <2>1 DEF HeaderSize
<1>5. ASSUME NEW s \in 0 .. 1
      PROVE  LinkFilled(s)
  <2>1. s \in Segs /\ s + 1 \in Segs
    BY DEF Segs
  <2>2. PICK b \in Nat, l \in Nat : b = BytesBefore(x, s) /\ l = Len(TableOf(x, s))
    BY <1>2, <2>1, TablesTyped
  <2>3. BytesBefore(x, s + 1) = b + l
    BY <1>2, <2>2, TablesTyped
  <2>4. LinkOffset(s + 1) = 128 + (b + l) /\ LinkOffset(s) = 128 + b
    BY <1>2, <2>1, <2>2, <2>3 DEF HeaderSize
  <2>a. 128 + (b + l) \in UInt32
    <3>1. LinkOffset(s + 1) \in UInt32
      BY <1>a, <2>1, OffsetsTyped
    <3> QED BY <2>4, <3>1
  <2>5. CASE Info(s).size # 0
    <3>1. ends[s] = OffsetOf(b + l)
      BY <1>2, <1>3, <2>1, <2>2, <2>5 DEF EndOf
    <3>2. ends[s] + 1 = 128 + (b + l) /\ ends[s] \in Int
      BY <2>2, <3>1 DEF OffsetOf, HeaderSize
    <3>3. Plus(ends[s], 1) = 128 + (b + l)
      BY <2>a, <3>2, PlusIs
    <3> QED BY <2>4, <2>5, <3>3 DEF LinkFilled
  <2>6. CASE Info(s).size = 0
    <3>1. /\ x.tables[s].bounds = << >> /\ x.tables[s].symbols = << >>
          /\ IsWritten(x.version, x.tables[s]) /\ x.version \in Versions
      BY <1>2, <2>1, <2>6, SegmentIsTable DEF IsSegmented
    <3>2. l = 2
      BY <2>2, <3>1, EmptyTable DEF TableOf
    <3>3. (128 + b) + 2 = 128 + (b + l) /\ 128 + b \in Int
      BY <2>2, <3>2
    <3>4. Plus(128 + b, 2) = 128 + (b + l)
      BY <2>a, <3>3, PlusIs
    <3> QED BY <2>4, <2>6, <3>4 DEF LinkFilled
  <2> QED BY <2>5, <2>6
<1>6. ASSUME Info(2).size # 0
      PROVE  LastTableFilled
  <2>1. 2 \in Segs /\ 0 \in Segs
    BY DEF Segs
  <2>2. PICK b \in Nat, l \in Nat : b = BytesBefore(x, 2) /\ l = Len(TableOf(x, 2))
    BY <1>2, <2>1, TablesTyped
  <2>3. Len(Region(x)) = b + l
    BY <1>2, <2>2, TablesTyped
  <2>4. ends[2] = OffsetOf(b + l)
    BY <1>2, <1>3, <1>6, <2>1, <2>2 DEF EndOf
  <2>5. PICK n \in Nat : n = HeaderSize + (b + l) + 1 /\ ends[2] + 2 = n /\ ends[2] \in Int
    BY <2>2, <2>4 DEF OffsetOf, HeaderSize
  <2>8. PICK d \in Nat : d = DataStart(x) /\ d = Line(n) /\ n <= d /\ d < Wrap
    <3>1. DataStart(x) = Line(n)
      BY <2>3, <2>5, Zenon DEF DataStart
    <3>2. PICK z \in Nat, w \in Nat, d \in Nat :
            z = FileEnd(x) /\ w = Wrap /\ d = DataStart(x) /\ d <= z /\ z < w
      BY <1>2, StartsTyped, WrapIs
    <3>3. d < Wrap
      BY <3>2
    <3> QED BY <3>1, <3>2, <3>3, LineIs
  <2>9. Plus(ends[2], 2) = n
    <3>1. n \in UInt32
      BY <2>5, <2>8, WrapIs DEF UInt32
    <3> QED BY <2>5, <3>1, PlusIs
  <2>6. align16(Plus(ends[2], 2)) = DataStart(x)
    BY <2>8, <2>9, LineIs
  <2>7. DataOffset(0) = DataStart(x)
    BY <1>2, <2>1, StartsTyped
  <2> QED BY <2>6, <2>7 DEF LastTableFilled
<1>7. LinkFilled(0) /\ LinkFilled(1)
  BY <1>5
<1>8. /\ step' = "accepted" \/ (step' = "rejected" /\ Info(2).size = 0)
      /\ UNCHANGED <<reading, header, seg, ends, pushed>>
  BY <1>4, <1>6, <1>7 DEF CheckEnds, Reject, Go
<1>9. pc = "idle"
  <2>1. seg \notin Segs
    BY <1>1 DEF Segs
  <2> QED BY <1>1, <2>1 DEF Inv, LayoutInv, TableOfSegment, ThreeSegments
<1>10. pc' = "idle" /\ version' = version
  BY <1>8, <1>9 DEF reading, file
<1>11. step' = "rejected" => UnsetEnd'
  BY <1>1, <1>8, <1>10 DEF UnsetEnd, Info
<1> QED BY <1>1, <1>8, <1>10, <1>11 DEF LinkInv

LEMMA ReadHeader4Links ==
  ASSUME Inv, NEW x \in Sources, IsOf(x), Readable(x), LinkInv(x), ReadHeader4
  PROVE  LinkInv(x)'
<1>1. version = 4
  BY DEF ReadHeader4
<1>2. /\ header.valid = TRUE /\ header.code_size % 4 = 0 /\ header.length2 = header.length
      /\ DOMAIN x.tables = {0} /\ x.version = 4
      /\ header.code_size = 4 * x.words /\ x.words \in Nat
  BY <1>1, SingleOf
<1>3. step' = "segments" /\ seg' = 0 /\ Begin(1, header.code_size \div 4)
  BY <1>2 DEF ReadHeader4
<1>4. pc' = "start" /\ from' = 1 /\ version' = version /\ limit' = header.code_size \div 4
  BY <1>3 DEF Begin, file
<1>7. limit' = WordsIn(x, seg')
  <2>1. header.code_size \div 4 = x.words
    BY <1>2
  <2> QED BY <1>2, <1>4, <2>1 DEF WordsIn
<1>5. ReadInv(x.tables[seg])'
  BY <1>4 DEF ReadInv
<1>6. from' = 1 + BytesBefore(x, seg')
  <2>1. BytesBefore(x, 0) = 0
    BY DEF BytesBefore
  <2> QED BY <1>3, <1>4, <2>1
<1> QED BY <1>1, <1>2, <1>3, <1>4, <1>5, <1>6, <1>7 DEF LinkInv

(* A table that has been read ends with a zero. *)
LEMMA LastByte ==
  ASSUME TableTypeOK, NEW t, Given(t), ptr = from + Len(Table(version, t)) - 1
  PROVE  table[ptr] = 0
<1>1. IsWritten(version, t) /\ version \in Versions
      /\ TableStands(table, version, t, from, NumbersAt(t), EntriesAt(t))
  BY GivenStands
<1>2. EntriesAt(t)[Len(t.symbols) + 1] = ptr
  BY <1>1 DEF TableStands
<1> QED BY <1>1, <1>2 DEF TableStands

LEMMA Linked4Links ==
  ASSUME Inv, NEW x \in Sources, IsOf(x), Readable(x), LinkInv(x), Linked4
  PROVE  LinkInv(x)'
<1>1. step = "segments" /\ version = 4 /\ pc = "done" /\ pc' = "idle"
      /\ UNCHANGED <<version, header, seg, ends, pushed>>
  BY DEF Linked4, End, file
<1>2. DOMAIN x.tables = {0} /\ x.version = 4
      /\ header.length2 = LinkLength(12 + Len(TableOf(x, 0)))
  BY <1>1, SingleOf
<1>3. PICK t : t = x.tables[seg]
  OBVIOUS
<1>4. /\ seg \in DOMAIN x.tables /\ from = 1 + BytesBefore(x, seg) /\ limit = WordsIn(x, seg)
      /\ ptr = from + Len(Table(version, t)) - 1
  BY <1>1, <1>3 DEF LinkInv, ReadInv
<1>5. Given(t)
  BY <1>3, <1>4, GivenInFile
<1>6. seg = 0 /\ BytesBefore(x, seg) = 0
  BY <1>2, <1>4 DEF BytesBefore
<1>7. PICK n \in Nat : n = Len(TableOf(x, 0))
  BY <1>2, SingleTable
<1>8. TableOf(x, 0) = Table(version, t)
  BY <1>1, <1>2, <1>3, <1>6 DEF TableOf
<1>9. ptr = n
  <2>1. ptr = (1 + 0) + n - 1
    BY <1>4, <1>6, <1>7, <1>8, Zenon
  <2> QED BY <2>1
<1>10. table[ptr] = 0
  <2>1. TableTypeOK
    BY DEF Inv, VisitInv
  <2> QED BY <1>4, <1>5, <2>1, LastByte
<1>11. \A i \in n + 1 .. Len(table) : table[i] = 0
  BY <1>2, <1>7, SingleTable DEF IsOf
<1>12. \A i \in ptr .. Len(table) : table[i] = 0
  <2>1. Len(table) \in Nat
    BY <1>2, SingleTable DEF IsOf
  <2>2. \A i \in ptr .. Len(table) : i = ptr \/ i \in n + 1 .. Len(table)
    BY <1>9, <2>1
  <2> QED BY <1>10, <1>11, <2>2
<1>13. header.length2 = LinkLength(12 + ptr)
  BY <1>2, <1>7, <1>9
<1>14. step' = "accepted"
  BY <1>12, <1>13 DEF Linked4
<1> QED BY <1>1, <1>14 DEF LinkInv

LEMMA ReadTableLinks ==
  ASSUME Inv, NEW x \in Sources, IsOf(x), Readable(x), LinkInv(x), ReadTable, UNCHANGED layout
  PROVE  LinkInv(x)'
<1>1. pc # "idle" /\ UNCHANGED <<version, from, limit>>
  BY DEF ReadTable, Start, Count, ReadSymbol, NoMoreSymbols, Reference3, Reference2, Refer,
         Refused, NoReference, Lost, Stop, file
<1>2. UNCHANGED <<header, step, seg, ends, pushed>>
  BY DEF layout
<1>3. PICK t : t = x.tables[seg]
  OBVIOUS
<1>4. /\ step = "segments" /\ seg \in DOMAIN x.tables /\ from = 1 + BytesBefore(x, seg)
      /\ limit = WordsIn(x, seg) /\ ReadInv(t)
  BY <1>1, <1>3 DEF LinkInv
<1>5. ReadInv(t)'
  <2>1. Given(t) /\ VisitInv
    BY <1>3, <1>4, GivenInFile DEF Inv
  <2> QED BY <1>4, <2>1, ReadTableReads
<1>6. ReadInv(x.tables[seg])'
  <2>1. x.tables[seg'] = t
    BY <1>2, <1>3
  <2> QED BY <1>5, <2>1
<1>7. UnsetEnd' <=> UnsetEnd
  BY <1>1, <1>2 DEF UnsetEnd
<1> QED BY <1>1, <1>2, <1>4, <1>6, <1>7 DEF LinkInv

LEMMA LinkStutters ==
  ASSUME NEW x \in Sources, LinkInv(x), UNCHANGED vars
  PROVE  LinkInv(x)'
<1>1. UNCHANGED reading /\ UNCHANGED <<header, step, seg, ends, pushed>>
  BY DEF vars, layout
<1>2. UNCHANGED <<version, table, limit, from, ptr, pc, fixing, word, pointers, symbols, links>>
  BY <1>1 DEF reading, file
<1>3. ReadInv(x.tables[seg])' <=> ReadInv(x.tables[seg])
  BY <1>1, <1>2 DEF ReadInv, AtNumber, AtEntry, AtReference, AllPointers, NamesAre, LinksAre,
     IsReference, NumbersAt, EntriesAt, SeeksAt, GapTo, PointersAre, LinkedIs
<1>4. UnsetEnd' <=> UnsetEnd
  BY <1>1, <1>2 DEF UnsetEnd
<1> QED BY <1>1, <1>2, <1>3, <1>4 DEF LinkInv

LEMMA AbandonLinks ==
  ASSUME NEW x \in Sources, IsOf(x)
  PROVE  ~Abandon
<1> SUFFICES ASSUME Abandon
             PROVE  FALSE
  OBVIOUS
<1>1. version # 4 /\ header.n_segments = 1
  BY DEF Abandon
<1>2. header.n_segments = 3
  BY <1>1, SegmentsOf
<1> QED BY <1>1, <1>2

LEMMA FileStays ==
  ASSUME [Next]_vars
  PROVE  UNCHANGED <<header, table, version, fits>>
<1>1. CASE UNCHANGED vars
  BY <1>1 DEF vars, reading, file, layout
<1>2. CASE Next
  BY <1>2 DEF Next, Abandon, ReadHeader, SkipSegment, BeginSegment, SegmentLinked, CheckEnds,
     ReadHeader4, Linked4, Reject, Go, Begin, End, reading, file, layout, vars,
     ReadTable, Start, Count, ReadSymbol, NoMoreSymbols, Reference3, Reference2, Refer,
     Refused, NoReference, Lost, Stop
<1> QED BY <1>1, <1>2

LEMMA NextLinks ==
  ASSUME Inv, WrittenInv, [Next]_vars
  PROVE  WrittenInv'
<1> SUFFICES ASSUME Written'
             PROVE  \E x \in Sources : IsOf(x)' /\ (Readable(x) => LinkInv(x)')
  BY DEF WrittenInv, Readable
<1>1. UNCHANGED <<header, table, version, fits>>
  BY FileStays
<1>2. PICK x \in Sources : IsOf(x) /\ (Readable(x) => LinkInv(x))
  BY <1>1 DEF WrittenInv, Written
<1>3. IsOf(x)'
  BY <1>1, <1>2 DEF IsOf
<1>4. ASSUME Readable(x)
      PROVE  LinkInv(x)'
  BY <1>2, <1>4, AbandonLinks, ReadHeaderLinks, SkipSegmentLinks, BeginSegmentLinks,
     SegmentLinkedLinks, CheckEndsLinks, ReadHeader4Links, Linked4Links, ReadTableLinks,
     LinkStutters DEF Next
<1> QED BY <1>3, <1>4

LEMMA InitLinks ==
  ASSUME Init
  PROVE  WrittenInv
<1> SUFFICES ASSUME Written
             PROVE  \E x \in Sources : IsOf(x) /\ LinkInv(x)
  BY DEF WrittenInv
<1>1. PICK f \in {FileOf(x) : x \in Sources} \cup Others :
        header = f.header /\ table = f.table /\ version = f.header.version /\ fits = f.fits
  BY DEF Init
<1>2. f \notin Others
  BY <1>1, FilesAssumption DEF Written
<1>3. PICK x \in Sources : f = FileOf(x)
  BY <1>1, <1>2
<1>4. f.header.version = x.version /\ f.fits = TRUE
  BY <1>3, SegmentsWritten, SingleWritten DEF HeaderOf
<1>5. IsOf(x)
  BY <1>1, <1>3, <1>4 DEF IsOf
<1>6. LinkInv(x)
  BY DEF Init, Idle, LinkInv
<1> QED BY <1>5, <1>6

LEMMA WrittenRead ==
  ASSUME Inv, WrittenInv
  PROVE  WrittenIsRead
<1> SUFFICES ASSUME Written, \A s \in DOMAIN Source.tables : ~EndsOnTop(Source.tables[s])
             PROVE  ReadsBack /\ WrittenIsAccepted
  BY DEF WrittenIsRead, ReadsBack, WrittenIsAccepted
<1>1. PICK x \in Sources : IsOf(x) /\ (Readable(x) => LinkInv(x))
  BY DEF WrittenInv
<1>2. Source = x
  BY <1>1, OriginOf
<1>3. LinkInv(x)
  BY <1>1, <1>2 DEF Readable
<1>4. pc \notin {"lost", "refused"}
  BY <1>3 DEF LinkInv, ReadInv
<1>5. ASSUME pc = "done"
      PROVE  ptr = from + Len(TableOf(x, seg)) - 1 /\ LinkedIs(x.tables[seg])
  BY <1>1, <1>3, <1>5 DEF LinkInv, ReadInv, TableOf, IsOf
<1>6. ReadsBack
  BY <1>2, <1>4, <1>5 DEF ReadsBack
<1>7. WrittenIsAccepted
  BY <1>3, <1>4 DEF WrittenIsAccepted, Finished, LinkInv
<1> QED BY <1>6, <1>7

-----------------------------------------------------------------------------
(* Theorems                                                                *)

(* Whatever a file holds, the cursors into link table and segments, and     *)
(* what is recorded of them, stay within their types: no word of a negative *)
(* offset is referred to, and only the segments of the file are filled.     *)
THEOREM LayoutTypeCorrect == Spec => []TypeOK
<1>1. Inv => TypeOK
  BY DEF Inv, VisitInv, LayoutInv, LayoutType, TypeOK
<1> QED BY <1>1, InvHolds, PTL

(* Whatever the bytes of a link table are, the linkers link words of its     *)
(* segment only.  In a table of less than 4 MB they link a word as a pointer *)
(* once, the pointers in order, and in V3 the references of each entry in    *)
(* order; the seeks of c_symlink2 can wrap, and go back (link_v4, link_v3,   *)
(* link_v5).                                                                 *)
THEOREM VisitsCorrect == Spec => []VisitsAscend
<1>1. Inv => VisitsAscend
  BY VisitParts DEF Inv, VisitInv
<1> QED BY <1>1, InvHolds, PTL

(* Whatever a header says, the linkers of V3 and V5 copy no word from        *)
(* outside the file, and in a file they accept, tables are read from places  *)
(* in the order of their segments.  If the sums of the header do not wrap,   *)
(* the segments and link tables of an accepted file do not overlap.          *)
THEOREM SegmentsCorrect == Spec => []SegmentsDisjoint
<1>1. Inv => SegmentsDisjoint
  BY InvDisjoint
<1> QED BY <1>1, InvHolds, PTL

(* A file of V3, V4 or V5 that was written in the format of the comments is *)
(* read to the last byte of each link table and accepted, with every        *)
(* pointer and reference of words of its segments linked and no other,      *)
(* whichever segments and tables it has; but for tables that end on the     *)
(* top byte, and for a V3 or V5 file without a last segment, whose end is   *)
(* never set.                                                               *)
THEOREM WrittenCorrect == Spec => []WrittenIsRead
<1>1. Init => Inv /\ WrittenInv
  BY InitInv, InitLinks
<1>2. Inv /\ WrittenInv /\ [Next]_vars => (Inv /\ WrittenInv)'
  BY NextKeeps, NextLinks
<1>3. Inv /\ WrittenInv => WrittenIsRead
  BY WrittenRead
<1> QED BY <1>1, <1>2, <1>3, PTL DEF Spec
=============================================================================
