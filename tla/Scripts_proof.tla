--------------------------- MODULE Scripts_proof ---------------------------
(***************************************************************************)
(* Proofs about print_scripts, for segments of every size and content,     *)
(* also those whose pairs are in cycles.                                   *)
(***************************************************************************)
EXTENDS ScriptPrinter, SequenceFacts

(* A pair that something refers to. *)
Labelled(w) == 4 * w + 2 \in segment.labels /\ IsPair(4 * w + 2)

(* A call that has not marked its pair yet. *)
AtPair(i, p) == stack[i].pair = p /\ stack[i].step \in {"car", "mark"}

-----------------------------------------------------------------------------
(* The inductive invariant.                                                *)

Calls == [pair : Int, step : {"car", "mark", "cdr"}]

StateType ==
  /\ segment \in Segments
  /\ at \in Nat
  /\ stack \in Seq(Calls)
  /\ heads \in Seq(Int)

(* The search ends behind the last word. *)
SearchEnds == pc = "done" => stack = << >> /\ at \notin Words

(***************************************************************************)
(* What the search has passed is printed, or the script it started is at   *)
(* its very first pair.                                                    *)
(***************************************************************************)
PassedIsPrinted ==
  \A w \in Words : w < at /\ Labelled(w) => w \in seen \/ (stack # << >> /\ AtPair(1, w))

(***************************************************************************)
(* A call that is about to mark its pair has had the list in the car       *)
(* printed, or waits for the call above it to do so.                       *)
(***************************************************************************)
CarsFirst ==
  \A i \in DOMAIN stack :
    /\ stack[i].step \in {"mark", "cdr"} => stack[i].pair \in Words
    /\ stack[i].step = "mark" /\ PointsToPair(stack[i].pair) =>
         \/ Target(stack[i].pair) \in seen
         \/ i + 1 \in DOMAIN stack /\ AtPair(i + 1, Target(stack[i].pair))

(***************************************************************************)
(* With a pair the pairs it refers to are printed, or a call is still      *)
(* between its car and its cdr or on its way to mark what the cdr is.      *)
(***************************************************************************)
Waits(p) ==
  \E i \in DOMAIN stack :
    \/ stack[i] = [pair |-> p, step |-> "cdr"]
    \/ AtPair(i, Target(p + 1))

PrintedIsClosed ==
  \A p \in seen :
    /\ p \in Words
    /\ PointsToPair(p) => Target(p) \in seen
    /\ p + 1 \in Words /\ PointsToPair(p + 1) => Target(p + 1) \in seen \/ Waits(p)

Inv ==
  /\ StateType
  /\ SearchEnds
  /\ PassedIsPrinted
  /\ CarsFirst
  /\ PrintedIsClosed
  /\ HeadsOnly

-----------------------------------------------------------------------------
(* Words and calls                                                         *)

LEMMA SegmentFacts ==
  ASSUME segment \in Segments
  PROVE  /\ \E n \in Int : Words = 0 .. n
         /\ \A w \in Words : words[w].kind = "PTR" => words[w].value \in Int
         /\ \A w \in Words : PointsToPair(w) =>
              /\ Target(w) \in Int
              /\ Labelled(Target(w))
<1>1. /\ IsFiniteSet(Words)
      /\ Words = 0 .. Cardinality(Words) - 1
      /\ segment.labels \subseteq Int
      /\ \A w \in Words : words[w].kind = "PTR" => words[w].value \in segment.labels
  BY SegmentsAssumption DEF Words, words
<1>2. Cardinality(Words) \in Nat
  BY <1>1, FS_CardinalityType
<1>3. \E n \in Int : Words = 0 .. n
  BY <1>1, <1>2
<1>4. ASSUME NEW w \in Words, PointsToPair(w)
      PROVE  Target(w) \in Int /\ Labelled(Target(w))
  <2>1. PICK v \in Int : v = words[w].value
    BY <1>1, <1>4 DEF PointsToPair
  <2>2. v \in segment.labels /\ v % 8 = 2
    BY <1>1, <1>4, <2>1 DEF PointsToPair, IsPair
  <2>3. v \div 4 \in Int /\ 4 * (v \div 4) + 2 = v
    BY <2>2
  <2> QED
    BY <2>1, <2>2, <2>3 DEF Target, WordOf, Labelled, IsPair
<1> QED
  BY <1>1, <1>3, <1>4

LEMMA SegmentStays ==
  ASSUME segment' = segment
  PROVE  /\ words' = words /\ Words' = Words
         /\ \A w : Labelled(w)' <=> Labelled(w)
         /\ \A w : PointsToPair(w)' <=> PointsToPair(w)
         /\ \A w : Target(w)' = Target(w)
BY DEF words, Words, Labelled, PointsToPair, Target

LEMMA StackFacts ==
  ASSUME stack \in Seq(Calls)
  PROVE  /\ Len(stack) \in Nat
         /\ DOMAIN stack = 1 .. Len(stack)
         /\ \A i \in DOMAIN stack : stack[i] \in Calls
         /\ stack # << >> <=> Len(stack) \in DOMAIN stack
<1>1. Len(stack) \in Nat /\ DOMAIN stack = 1 .. Len(stack)
  OBVIOUS
<1>2. \A i \in DOMAIN stack : stack[i] \in Calls
  OBVIOUS
<1>3. stack # << >> <=> Len(stack) # 0
  OBVIOUS
<1> QED
  BY <1>1, <1>2, <1>3

LEMMA CallFacts ==
  ASSUME NEW c \in Calls
  PROVE  /\ c.pair \in Int /\ c.step \in {"car", "mark", "cdr"}
         /\ c = [pair |-> c.pair, step |-> c.step]
BY DEF Calls

(* What is at the top when a step runs. *)
LEMMA TopFacts ==
  ASSUME stack \in Seq(Calls), NEW s, Running(s)
  PROVE  /\ Len(stack) \in DOMAIN stack
         /\ Top = stack[Len(stack)]
         /\ Top.pair \in Int
         /\ stack[Len(stack)].step = s
         /\ stack # << >>
BY StackFacts, CallFacts DEF Running, Top

(* A step that only replaces the call at the top. *)
LEMMA ContinueFacts ==
  ASSUME stack \in Seq(Calls), stack # << >>,
         NEW p \in Int, NEW s \in {"car", "mark", "cdr"}, Continue(p, s)
  PROVE  /\ stack' \in Seq(Calls) /\ DOMAIN stack' = DOMAIN stack /\ Len(stack') = Len(stack)
         /\ stack'[Len(stack)] = [pair |-> p, step |-> s]
         /\ \A i \in DOMAIN stack : i # Len(stack) => stack'[i] = stack[i]
         /\ stack' # << >>
<1> DEFINE c == [pair |-> p, step |-> s]
<1>1. c \in Calls
  BY DEF Calls
<1>2. stack' = [stack EXCEPT ![Len(stack)] = c]
  BY DEF Continue
<1> HIDE DEF c
<1>3. stack' \in Seq(Calls) /\ DOMAIN stack' = DOMAIN stack /\ Len(stack') = Len(stack)
  BY <1>1, <1>2
<1>4. Len(stack) \in DOMAIN stack
  BY StackFacts
<1> QED
  BY <1>2, <1>3, <1>4 DEF c

LEMMA PopFacts ==
  ASSUME stack \in Seq(Calls), stack # << >>, stack' = Pop
  PROVE  /\ stack' \in Seq(Calls)
         /\ DOMAIN stack' = 1 .. Len(stack) - 1
         /\ \A i \in DOMAIN stack' : i \in DOMAIN stack /\ stack'[i] = stack[i]
BY StackFacts DEF Pop

LEMMA DescendFacts ==
  ASSUME stack \in Seq(Calls), stack # << >>, NEW p \in Int, Descend(p)
  PROVE  /\ stack' \in Seq(Calls)
         /\ DOMAIN stack' = 1 .. Len(stack) + 1
         /\ stack'[Len(stack) + 1] = [pair |-> p, step |-> "car"]
         /\ stack'[Len(stack)] = [pair |-> stack[Len(stack)].pair, step |-> "mark"]
         /\ \A i \in DOMAIN stack : i # Len(stack) => stack'[i] = stack[i]
<1> DEFINE c == [pair |-> p, step |-> "car"]
<1> DEFINE t == [stack EXCEPT ![Len(stack)].step = "mark"]
<1>1. c \in Calls
  BY DEF Calls
<1>2. Len(stack) \in DOMAIN stack /\ stack[Len(stack)] \in Calls
  BY StackFacts
<1>3. PICK m : m = [stack[Len(stack)] EXCEPT !.step = "mark"]
  OBVIOUS
<1>4. m \in Calls /\ m = [pair |-> stack[Len(stack)].pair, step |-> "mark"]
  BY <1>2, <1>3 DEF Calls
<1>5. t = [stack EXCEPT ![Len(stack)] = m]
  BY <1>3
<1>6. stack' = Append(t, c)
  BY DEF Descend, Call
<1> HIDE DEF c, t
<1>7. t \in Seq(Calls) /\ DOMAIN t = DOMAIN stack /\ Len(t) = Len(stack)
  BY <1>4, <1>5
<1>8. t[Len(stack)] = m /\ \A i \in DOMAIN stack : i # Len(stack) => t[i] = stack[i]
  BY <1>2, <1>5
<1>9. stack' \in Seq(Calls) /\ DOMAIN stack' = 1 .. Len(stack) + 1 /\ stack'[Len(stack) + 1] = c
  BY <1>1, <1>6, <1>7
<1>10. \A i \in DOMAIN stack : stack'[i] = t[i]
  BY <1>1, <1>6, <1>7
<1> QED
  BY <1>2, <1>4, <1>8, <1>9, <1>10 DEF c

-----------------------------------------------------------------------------
(* The search                                                              *)

LEMMA HeadsStay ==
  ASSUME HeadsOnly, segment' = segment, heads' = heads
  PROVE  HeadsOnly'
<1>1. words' = words /\ Words' = Words /\ PairWords' = PairWords
  BY DEF words, Words, PairWords
<1>2. LaidOutForward' <=> LaidOutForward
  BY <1>1, SegmentStays DEF LaidOutForward
<1> QED
  BY <1>1, <1>2, SegmentStays DEF HeadsOnly

(* The pair that a word of a pair belongs to. *)
LEMMA PairOfWord ==
  ASSUME StateType, NEW w \in PairWords \cap Words
  PROVE  \E p \in Words : Labelled(p) /\ p <= w /\ w \in {p, p + 1}
<1>1. segment \in Segments
  BY DEF StateType
<1>2. PICK n \in Int : Words = 0 .. n
  BY <1>1, SegmentFacts
<1>3. PICK o \in segment.labels : IsPair(o) /\ w \in {o \div 4, o \div 4 + 1}
  BY DEF PairWords
<1>4. o \in Int /\ o % 8 = 2
  BY <1>1, <1>3, SegmentsAssumption DEF IsPair
<1>5. PICK p \in Int : p = o \div 4
  BY <1>4
<1>6. 4 * p + 2 = o /\ p # -1
  BY <1>4, <1>5
<1>7. Labelled(p)
  BY <1>3, <1>6 DEF Labelled
<1>8. w \in {p, p + 1} /\ w \in Words
  BY <1>3, <1>5
<1>9. p \in Words /\ p <= w
  BY <1>2, <1>6, <1>8
<1> QED
  BY <1>7, <1>8, <1>9

(***************************************************************************)
(* No pair before a new head refers to it: it would be printed, and the    *)
(* head with it.                                                           *)
(***************************************************************************)
LEMMA NewHeadIsNoMiddle ==
  ASSUME Inv, StartScript, LaidOutForward, NEW w \in PairWords \cap Words, PointsToPair(w)
  PROVE  Target(w) # at
<1> SUFFICES ASSUME Target(w) = at PROVE FALSE
  OBVIOUS
<1>0. StateType /\ PassedIsPrinted /\ PrintedIsClosed
  BY DEF Inv
<1>1. PICK p \in Words : Labelled(p) /\ p <= w /\ w \in {p, p + 1}
  BY <1>0, PairOfWord
<1>2. PICK n \in Int : Words = 0 .. n
  BY <1>0, SegmentFacts DEF StateType
<1>3. at > w
  BY DEF LaidOutForward, Target
<1>4. stack = << >> /\ at \notin seen
  BY DEF StartScript, IsHead
<1>5. p < at
  BY <1>0, <1>1, <1>2, <1>3 DEF StateType
<1>6. p \in seen
  BY <1>0, <1>1, <1>4, <1>5 DEF PassedIsPrinted
<1>7. ~Waits(p)
  BY <1>4 DEF Waits
<1>8. Target(w) \in seen
  BY <1>0, <1>1, <1>6, <1>7 DEF PrintedIsClosed
<1> QED
  BY <1>4, <1>8

LEMMA StartScriptKeepsInv ==
  ASSUME Inv, StartScript
  PROVE  Inv'
<1>0. StateType /\ PassedIsPrinted /\ CarsFirst /\ PrintedIsClosed /\ HeadsOnly
  BY DEF Inv
<1>a. segment \in Segments /\ at \in Nat /\ stack = << >> /\ at \in Words /\ heads \in Seq(Int)
  BY <1>0 DEF StateType, StartScript
<1>b. /\ segment' = segment /\ seen' = seen /\ pc' = pc /\ at' = at + 1 /\ pc = "printing"
      /\ heads' = Append(heads, at)
  BY DEF StartScript
<1>c. PICK n \in Int : Words = 0 .. n
  BY <1>a, SegmentFacts
<1> DEFINE c == [pair |-> at, step |-> "car"]
<1>1. c \in Calls
  BY <1>a DEF Calls
<1>2. stack' = <<c>>
  BY DEF StartScript, Call
<1>3. c.pair = at /\ c.step = "car"
  OBVIOUS
<1> HIDE DEF c
<1>4. stack' \in Seq(Calls) /\ DOMAIN stack' = {1} /\ stack'[1] = c /\ stack' # << >>
  BY <1>1, <1>2
<1>5. /\ words' = words /\ Words' = Words
      /\ \A w : Labelled(w)' <=> Labelled(w)
      /\ \A w : PointsToPair(w)' <=> PointsToPair(w)
      /\ \A w : Target(w)' = Target(w)
  BY <1>b, SegmentStays
<1>6. StateType'
  BY <1>a, <1>b, <1>4 DEF StateType
<1>7. SearchEnds'
  BY <1>b DEF SearchEnds
<1>8. PassedIsPrinted'
  <2> SUFFICES ASSUME NEW w \in Words, w < at + 1, Labelled(w)
               PROVE  w \in seen \/ AtPair(1, w)'
    BY <1>b, <1>4, <1>5 DEF PassedIsPrinted
  <2>1. CASE w < at
    BY <1>0, <1>a, <2>1 DEF PassedIsPrinted
  <2>2. CASE w = at
    BY <1>3, <1>4, <2>2 DEF AtPair
  <2> QED
    BY <1>a, <1>c, <2>1, <2>2
<1>9. CarsFirst'
  <2>1. \A i \in DOMAIN stack' : stack'[i].step = "car"
    BY <1>3, <1>4
  <2> QED
    BY <2>1 DEF CarsFirst
<1>10. PrintedIsClosed'
  <2>1. \A p : ~Waits(p)
    BY <1>a DEF Waits
  <2> QED
    BY <1>0, <1>b, <1>5, <2>1 DEF PrintedIsClosed
<1>11. HeadsOnly'
  <2>1. PairWords' = PairWords /\ (LaidOutForward' <=> LaidOutForward)
    BY <1>b, <1>5 DEF PairWords, LaidOutForward
  <2> SUFFICES ASSUME LaidOutForward, NEW i \in DOMAIN heads', NEW w \in PairWords \cap Words,
                      PointsToPair(w)
               PROVE  Target(w) # heads'[i]
    BY <1>5, <2>1 DEF HeadsOnly, Target
  <2>2. i \in DOMAIN heads \/ i = Len(heads) + 1
    BY <1>a, <1>b
  <2>3. CASE i \in DOMAIN heads
    <3>1. heads'[i] = heads[i]
      BY <1>a, <1>b, <2>3
    <3> QED
      BY <1>0, <2>3, <3>1 DEF HeadsOnly, Target
  <2>4. CASE i = Len(heads) + 1
    <3>1. heads'[i] = at
      BY <1>a, <1>b, <2>4
    <3> QED
      BY <3>1, NewHeadIsNoMiddle
  <2> QED
    BY <2>2, <2>3, <2>4
<1> QED
  BY <1>6, <1>7, <1>8, <1>9, <1>10, <1>11 DEF Inv

LEMMA NoScriptKeepsInv ==
  ASSUME Inv, NoScript
  PROVE  Inv'
<1>0. StateType /\ PassedIsPrinted /\ CarsFirst /\ PrintedIsClosed /\ HeadsOnly
  BY DEF Inv
<1>a. segment \in Segments /\ at \in Nat /\ at \in Words
  BY <1>0 DEF StateType, NoScript
<1>b. /\ segment' = segment /\ seen' = seen /\ pc' = pc /\ at' = at + 1 /\ pc = "printing"
      /\ heads' = heads /\ stack' = stack
  BY DEF NoScript
<1>c. PICK n \in Int : Words = 0 .. n
  BY <1>a, SegmentFacts
<1>5. /\ words' = words /\ Words' = Words
      /\ \A w : Labelled(w)' <=> Labelled(w)
      /\ \A w : PointsToPair(w)' <=> PointsToPair(w)
      /\ \A w : Target(w)' = Target(w)
  BY <1>b, SegmentStays
<1>6. StateType'
  BY <1>0, <1>b DEF StateType
<1>7. SearchEnds'
  BY <1>b DEF SearchEnds
<1>8. PassedIsPrinted'
  <2> SUFFICES ASSUME NEW w \in Words, w < at + 1, Labelled(w)
               PROVE  w \in seen \/ (stack # << >> /\ AtPair(1, w))
    BY <1>b, <1>5 DEF PassedIsPrinted, AtPair
  <2>1. CASE w < at
    BY <1>0, <2>1 DEF PassedIsPrinted
  <2>2. CASE w = at
    BY <2>2 DEF NoScript, IsHead, Labelled
  <2> QED
    BY <1>a, <1>c, <2>1, <2>2
<1>9. CarsFirst'
  BY <1>0, <1>b, <1>5 DEF CarsFirst, AtPair
<1>10. PrintedIsClosed'
  BY <1>0, <1>b, <1>5 DEF PrintedIsClosed, Waits, AtPair
<1>11. HeadsOnly'
  BY <1>0, <1>b, HeadsStay
<1> QED
  BY <1>6, <1>7, <1>8, <1>9, <1>10, <1>11 DEF Inv

-----------------------------------------------------------------------------
(* The calls.  A step of a call leaves the search and its segment alone,   *)
(* and of the calls below the one at the top it changes none.              *)

CallStep == pc = "printing" /\ pc' = pc /\ UNCHANGED <<segment, at, heads>>

LEMMA CallStepFacts ==
  ASSUME Inv, CallStep, stack' \in Seq(Calls)
  PROVE  /\ StateType' /\ SearchEnds' /\ HeadsOnly'
         /\ words' = words /\ Words' = Words
         /\ \A w : Labelled(w)' <=> Labelled(w)
         /\ \A w : PointsToPair(w)' <=> PointsToPair(w)
         /\ \A w : Target(w)' = Target(w)
<1>1. segment' = segment /\ at' = at /\ heads' = heads /\ pc' = "printing"
  BY DEF CallStep
<1>2. StateType'
  BY <1>1 DEF Inv, StateType
<1>3. SearchEnds'
  BY <1>1 DEF SearchEnds
<1>4. HeadsOnly'
  BY <1>1, HeadsStay DEF Inv
<1> QED
  BY <1>1, <1>2, <1>3, <1>4, SegmentStays

(* An atom is no pointer to a pair. *)
LEMMA AtomIsNoPair ==
  ASSUME NEW w, IsAtom(w)
  PROVE  w \in Words /\ ~PointsToPair(w)
BY DEF IsAtom, PointsToPair

LEMMA CarsFirstNext ==
  ASSUME \A i \in DOMAIN stack' : \A q :
           q = stack'[i].pair /\ stack'[i].step \in {"mark", "cdr"} =>
             /\ q \in Words'
             /\ stack'[i].step = "mark" /\ PointsToPair(q)' =>
                  \/ Target(q)' \in seen'
                  \/ i + 1 \in DOMAIN stack' /\ AtPair(i + 1, Target(q))'
  PROVE  CarsFirst'
BY DEF CarsFirst, AtPair, PointsToPair, Target

LEMMA PrintCarKeepsInv ==
  ASSUME Inv, PrintCar
  PROVE  Inv'
<1>0. /\ stack \in Seq(Calls) /\ PassedIsPrinted /\ CarsFirst /\ PrintedIsClosed
  BY DEF Inv, StateType
<1>1. Running("car") /\ IsAtom(Top.pair) /\ Continue(Top.pair, "mark") /\ seen' = seen
  BY DEF PrintCar
<1>2. CallStep
  BY <1>1 DEF PrintCar, CallStep, Running
<1>3. PICK n : n = Len(stack)
  OBVIOUS
<1>4. PICK p \in Int : p = Top.pair
  BY <1>0, <1>1, TopFacts
<1>5. /\ n \in DOMAIN stack /\ stack # << >>
      /\ stack[n].pair = p /\ stack[n].step = "car"
  BY <1>0, <1>1, <1>3, <1>4, TopFacts
<1>6. /\ stack' \in Seq(Calls) /\ DOMAIN stack' = DOMAIN stack
      /\ stack'[n] = [pair |-> p, step |-> "mark"]
      /\ \A i \in DOMAIN stack : i # n => stack'[i] = stack[i]
      /\ stack' # << >>
  <2>1. Continue(p, "mark")
    BY <1>1, <1>4
  <2> QED
    BY <1>0, <1>3, <1>5, <2>1, ContinueFacts
<1>7. stack'[n].pair = p /\ stack'[n].step = "mark"
  BY <1>6
<1>8. /\ StateType' /\ SearchEnds' /\ HeadsOnly'
      /\ words' = words /\ Words' = Words
      /\ \A w : Labelled(w)' <=> Labelled(w)
      /\ \A w : PointsToPair(w)' <=> PointsToPair(w)
      /\ \A w : Target(w)' = Target(w)
  BY <1>2, <1>6, CallStepFacts
<1>9. \A i \in DOMAIN stack : \A q : AtPair(i, q) => AtPair(i, q)'
  BY <1>5, <1>6, <1>7 DEF AtPair
<1>10. \A i \in DOMAIN stack : stack[i].step = "cdr" => i # n
  BY <1>5
<1>11. PassedIsPrinted'
  <2>1. 1 \in DOMAIN stack /\ at' = at
    BY <1>0, <1>2, <1>5, StackFacts DEF CallStep
  <2> QED
    BY <1>0, <1>1, <1>6, <1>8, <1>9, <2>1 DEF PassedIsPrinted
<1>12. CarsFirst'
  <2> SUFFICES ASSUME NEW i \in DOMAIN stack, NEW q, q = stack'[i].pair,
                      stack'[i].step \in {"mark", "cdr"}
               PROVE  /\ q \in Words
                      /\ stack'[i].step = "mark" /\ PointsToPair(q) =>
                           \/ Target(q) \in seen
                           \/ i + 1 \in DOMAIN stack /\ AtPair(i + 1, Target(q))'
    BY <1>1, <1>6, <1>8, CarsFirstNext
  <2>1. CASE i = n
    <3>1. p \in Words /\ ~PointsToPair(p)
      BY <1>1, <1>4, AtomIsNoPair
    <3> QED
      BY <1>7, <2>1, <3>1
  <2>2. CASE i # n
    <3>1. stack'[i] = stack[i]
      BY <1>6, <2>2
    <3> QED
      BY <1>0, <1>8, <1>9, <3>1 DEF CarsFirst
  <2> QED
    BY <2>1, <2>2
<1>13. PrintedIsClosed'
  <2>1. ASSUME NEW q, Waits(q) PROVE Waits(q)'
    <3>1. PICK i \in DOMAIN stack : stack[i] = [pair |-> q, step |-> "cdr"] \/ AtPair(i, Target(q + 1))
      BY <2>1 DEF Waits
    <3>2. CASE AtPair(i, Target(q + 1))
      <4>1. AtPair(i, Target(q + 1))'
        BY <1>8, <1>9, <3>2
      <4> QED
        BY <1>6, <4>1 DEF Waits
    <3>3. CASE stack[i] = [pair |-> q, step |-> "cdr"]
      <4>1. stack[i].step = "cdr"
        BY <3>3
      <4>2. stack'[i] = stack[i]
        BY <1>6, <1>10, <4>1
      <4> QED
        BY <1>6, <3>3, <4>2 DEF Waits
    <3> QED
      BY <3>1, <3>2, <3>3
  <2> QED
    BY <1>0, <1>1, <1>8, <2>1 DEF PrintedIsClosed
<1> QED
  BY <1>8, <1>11, <1>12, <1>13 DEF Inv

LEMMA PrintSublistKeepsInv ==
  ASSUME Inv, PrintSublist
  PROVE  Inv'
<1>0. /\ segment \in Segments /\ stack \in Seq(Calls)
      /\ PassedIsPrinted /\ CarsFirst /\ PrintedIsClosed
  BY DEF Inv, StateType
<1>1. /\ Running("car") /\ Top.pair \in Words /\ PointsToPair(Top.pair)
      /\ Descend(Target(Top.pair)) /\ seen' = seen
  BY DEF PrintSublist, Target
<1>2. CallStep
  BY <1>1 DEF PrintSublist, CallStep, Running
<1>3. PICK n : n = Len(stack)
  OBVIOUS
<1>4. PICK p \in Words : p = Top.pair
  BY <1>1
<1>5. /\ n \in DOMAIN stack /\ stack # << >> /\ n \in Nat /\ DOMAIN stack = 1 .. n
      /\ stack[n].pair = p /\ stack[n].step = "car"
  BY <1>0, <1>1, <1>3, <1>4, TopFacts, StackFacts
<1>a. PICK t \in Int : t = Target(p)
  BY <1>0, <1>1, <1>4, SegmentFacts
<1>6. /\ stack' \in Seq(Calls) /\ DOMAIN stack' = 1 .. n + 1
      /\ stack'[n + 1] = [pair |-> t, step |-> "car"]
      /\ stack'[n] = [pair |-> p, step |-> "mark"]
      /\ \A i \in DOMAIN stack : i # n => stack'[i] = stack[i]
  <2>1. Descend(t)
    BY <1>1, <1>4, <1>a
  <2> QED
    BY <1>0, <1>3, <1>5, <2>1, DescendFacts
<1>7. /\ stack'[n].pair = p /\ stack'[n].step = "mark"
      /\ stack'[n + 1].pair = t /\ stack'[n + 1].step = "car"
  BY <1>6
<1>8. /\ StateType' /\ SearchEnds' /\ HeadsOnly'
      /\ words' = words /\ Words' = Words
      /\ \A w : Labelled(w)' <=> Labelled(w)
      /\ \A w : PointsToPair(w)' <=> PointsToPair(w)
      /\ \A w : Target(w)' = Target(w)
  BY <1>2, <1>6, CallStepFacts
<1>9. \A i \in DOMAIN stack : \A q : AtPair(i, q) => AtPair(i, q)'
  BY <1>5, <1>6, <1>7 DEF AtPair
<1>10. \A i \in DOMAIN stack : i \in DOMAIN stack' /\ (stack[i].step = "cdr" => i # n)
  BY <1>5, <1>6
<1>11. PassedIsPrinted'
  <2>1. 1 \in DOMAIN stack /\ at' = at
    BY <1>2, <1>5 DEF CallStep
  <2>2. stack' # << >>
    BY <1>5, <1>6
  <2> QED
    BY <1>0, <1>1, <1>6, <1>8, <1>9, <2>1, <2>2 DEF PassedIsPrinted
<1>12. CarsFirst'
  <2> SUFFICES ASSUME NEW i \in DOMAIN stack', NEW q, q = stack'[i].pair,
                      stack'[i].step \in {"mark", "cdr"}
               PROVE  /\ q \in Words
                      /\ stack'[i].step = "mark" /\ PointsToPair(q) =>
                           \/ Target(q) \in seen
                           \/ i + 1 \in DOMAIN stack' /\ AtPair(i + 1, Target(q))'
    BY <1>1, <1>8, CarsFirstNext
  <2>1. CASE i = n
    <3>1. q = p
      BY <1>7, <2>1
    <3>2. i + 1 \in DOMAIN stack'
      BY <1>5, <1>6, <2>1
    <3>3. AtPair(i + 1, t)'
      BY <1>7, <2>1 DEF AtPair
    <3>4. AtPair(i + 1, Target(q))'
      BY <1>8, <1>a, <3>1, <3>3
    <3> QED
      BY <3>1, <3>2, <3>4
  <2>2. CASE i # n
    <3>1. i \in DOMAIN stack
      BY <1>5, <1>6, <1>7, <2>2
    <3>2. stack'[i] = stack[i]
      BY <1>6, <2>2, <3>1
    <3>3. i + 1 \in DOMAIN stack => i + 1 \in DOMAIN stack'
      BY <1>10
    <3> QED
      BY <1>0, <1>8, <1>9, <3>1, <3>2, <3>3 DEF CarsFirst
  <2> QED
    BY <2>1, <2>2
<1>13. PrintedIsClosed'
  <2>1. ASSUME NEW q, Waits(q) PROVE Waits(q)'
    <3>1. PICK i \in DOMAIN stack : stack[i] = [pair |-> q, step |-> "cdr"] \/ AtPair(i, Target(q + 1))
      BY <2>1 DEF Waits
    <3>2. CASE AtPair(i, Target(q + 1))
      <4>1. AtPair(i, Target(q + 1))'
        BY <1>8, <1>9, <3>2
      <4> QED
        BY <1>10, <4>1 DEF Waits
    <3>3. CASE stack[i] = [pair |-> q, step |-> "cdr"]
      <4>1. stack[i].step = "cdr"
        BY <3>3
      <4>2. stack'[i] = stack[i]
        BY <1>6, <1>10, <4>1
      <4> QED
        BY <1>10, <3>3, <4>2 DEF Waits
    <3> QED
      BY <3>1, <3>2, <3>3
  <2> QED
    BY <1>0, <1>1, <1>8, <2>1 DEF PrintedIsClosed
<1> QED
  BY <1>8, <1>11, <1>12, <1>13 DEF Inv

LEMMA MarkKeepsInv ==
  ASSUME Inv, Mark
  PROVE  Inv'
<1>0. /\ stack \in Seq(Calls) /\ PassedIsPrinted /\ CarsFirst /\ PrintedIsClosed
  BY DEF Inv, StateType
<1>1. Running("mark") /\ Continue(Top.pair, "cdr") /\ seen' = seen \cup {Top.pair}
  BY DEF Mark
<1>2. CallStep
  BY <1>1 DEF Mark, CallStep, Running
<1>3. PICK n : n = Len(stack)
  OBVIOUS
<1>4. PICK p \in Int : p = Top.pair
  BY <1>0, <1>1, TopFacts
<1>5. /\ n \in DOMAIN stack /\ stack # << >> /\ n \in Nat /\ DOMAIN stack = 1 .. n
      /\ stack[n].pair = p /\ stack[n].step = "mark"
  BY <1>0, <1>1, <1>3, <1>4, TopFacts, StackFacts
<1>6. /\ stack' \in Seq(Calls) /\ DOMAIN stack' = DOMAIN stack
      /\ stack'[n] = [pair |-> p, step |-> "cdr"]
      /\ \A i \in DOMAIN stack : i # n => stack'[i] = stack[i]
      /\ stack' # << >>
  <2>1. Continue(p, "cdr")
    BY <1>1, <1>4
  <2> QED
    BY <1>0, <1>3, <1>5, <2>1, ContinueFacts
<1>7. stack'[n].pair = p /\ stack'[n].step = "cdr"
  BY <1>6
<1>8. /\ StateType' /\ SearchEnds' /\ HeadsOnly'
      /\ words' = words /\ Words' = Words
      /\ \A w : Labelled(w)' <=> Labelled(w)
      /\ \A w : PointsToPair(w)' <=> PointsToPair(w)
      /\ \A w : Target(w)' = Target(w)
  BY <1>2, <1>6, CallStepFacts
<1>a. seen' = seen \cup {p} /\ p \in seen'
  BY <1>1, <1>4
<1>9. \A i \in DOMAIN stack : \A q : AtPair(i, q) => AtPair(i, q)' \/ q \in seen'
  BY <1>5, <1>6, <1>a DEF AtPair
<1>10. \A i \in DOMAIN stack : stack[i].step = "cdr" => i # n
  BY <1>5
<1>b. p \in Words /\ (PointsToPair(p) => Target(p) \in seen)
  <2>1. n + 1 \notin DOMAIN stack
    BY <1>5
  <2> QED
    BY <1>0, <1>5, <2>1 DEF CarsFirst
<1>11. PassedIsPrinted'
  <2>1. 1 \in DOMAIN stack /\ at' = at
    BY <1>2, <1>5 DEF CallStep
  <2> QED
    BY <1>0, <1>6, <1>8, <1>9, <1>a, <2>1 DEF PassedIsPrinted
<1>12. CarsFirst'
  <2> SUFFICES ASSUME NEW i \in DOMAIN stack, NEW q, q = stack'[i].pair,
                      stack'[i].step \in {"mark", "cdr"}
               PROVE  /\ q \in Words
                      /\ stack'[i].step = "mark" /\ PointsToPair(q) =>
                           \/ Target(q) \in seen'
                           \/ i + 1 \in DOMAIN stack /\ AtPair(i + 1, Target(q))'
    BY <1>6, <1>8, CarsFirstNext
  <2>1. CASE i = n
    BY <1>7, <1>b, <2>1
  <2>2. CASE i # n
    <3>1. stack'[i] = stack[i]
      BY <1>6, <2>2
    <3> QED
      BY <1>0, <1>8, <1>9, <1>a, <3>1 DEF CarsFirst
  <2> QED
    BY <2>1, <2>2
<1>13. PrintedIsClosed'
  <2>1. ASSUME NEW q, Waits(q) PROVE Waits(q)' \/ Target(q + 1) \in seen'
    <3>1. PICK i \in DOMAIN stack : stack[i] = [pair |-> q, step |-> "cdr"] \/ AtPair(i, Target(q + 1))
      BY <2>1 DEF Waits
    <3>2. CASE AtPair(i, Target(q + 1))
      <4>1. AtPair(i, Target(q + 1))' \/ Target(q + 1) \in seen'
        BY <1>8, <1>9, <3>2
      <4> QED
        BY <1>6, <4>1 DEF Waits
    <3>3. CASE stack[i] = [pair |-> q, step |-> "cdr"]
      <4>1. stack[i].step = "cdr"
        BY <3>3
      <4>2. stack'[i] = stack[i]
        BY <1>6, <1>10, <4>1
      <4> QED
        BY <1>6, <3>3, <4>2 DEF Waits
    <3> QED
      BY <3>1, <3>2, <3>3
  <2>2. Waits(p)'
    BY <1>5, <1>6 DEF Waits
  <2> QED
    BY <1>0, <1>8, <1>a, <1>b, <2>1, <2>2 DEF PrintedIsClosed
<1> QED
  BY <1>8, <1>11, <1>12, <1>13 DEF Inv

LEMMA NextPairKeepsInv ==
  ASSUME Inv, NextPair
  PROVE  Inv'
<1>0. /\ segment \in Segments /\ stack \in Seq(Calls)
      /\ PassedIsPrinted /\ CarsFirst /\ PrintedIsClosed
  BY DEF Inv, StateType
<1>1. /\ Running("cdr") /\ Cdr \in Words /\ PointsToPair(Cdr)
      /\ Continue(Target(Cdr), "car") /\ seen' = seen
  BY DEF NextPair, Target
<1>2. CallStep
  BY <1>1 DEF NextPair, CallStep, Running
<1>3. PICK n : n = Len(stack)
  OBVIOUS
<1>4. PICK p \in Int : p = Top.pair
  BY <1>0, <1>1, TopFacts
<1>5. /\ n \in DOMAIN stack /\ stack # << >> /\ n \in Nat /\ DOMAIN stack = 1 .. n
      /\ stack[n].pair = p /\ stack[n].step = "cdr"
  BY <1>0, <1>1, <1>3, <1>4, TopFacts, StackFacts
<1>a. PICK t \in Int : t = Target(p + 1)
  BY <1>0, <1>1, <1>4, SegmentFacts DEF Cdr
<1>6. /\ stack' \in Seq(Calls) /\ DOMAIN stack' = DOMAIN stack
      /\ stack'[n] = [pair |-> t, step |-> "car"]
      /\ \A i \in DOMAIN stack : i # n => stack'[i] = stack[i]
      /\ stack' # << >>
  <2>1. Continue(t, "car")
    BY <1>1, <1>4, <1>a DEF Cdr
  <2> QED
    BY <1>0, <1>3, <1>5, <2>1, ContinueFacts
<1>7. stack'[n].pair = t /\ stack'[n].step = "car"
  BY <1>6
<1>8. /\ StateType' /\ SearchEnds' /\ HeadsOnly'
      /\ words' = words /\ Words' = Words
      /\ \A w : Labelled(w)' <=> Labelled(w)
      /\ \A w : PointsToPair(w)' <=> PointsToPair(w)
      /\ \A w : Target(w)' = Target(w)
  BY <1>2, <1>6, CallStepFacts
<1>9. \A i \in DOMAIN stack : \A q : AtPair(i, q) => AtPair(i, q)'
  <2>1. ASSUME NEW i \in DOMAIN stack, NEW q, AtPair(i, q) PROVE i # n
    BY <1>5, <2>1 DEF AtPair
  <2> QED
    BY <1>6, <2>1 DEF AtPair
<1>11. PassedIsPrinted'
  <2>1. 1 \in DOMAIN stack /\ at' = at
    BY <1>2, <1>5 DEF CallStep
  <2> QED
    BY <1>0, <1>1, <1>6, <1>8, <1>9, <2>1 DEF PassedIsPrinted
<1>12. CarsFirst'
  <2> SUFFICES ASSUME NEW i \in DOMAIN stack, NEW q, q = stack'[i].pair,
                      stack'[i].step \in {"mark", "cdr"}
               PROVE  /\ q \in Words
                      /\ stack'[i].step = "mark" /\ PointsToPair(q) =>
                           \/ Target(q) \in seen
                           \/ i + 1 \in DOMAIN stack /\ AtPair(i + 1, Target(q))'
    BY <1>1, <1>6, <1>8, CarsFirstNext
  <2>1. i # n
    BY <1>7
  <2>2. stack'[i] = stack[i]
    BY <1>6, <2>1
  <2> QED
    BY <1>0, <1>8, <1>9, <2>2 DEF CarsFirst
<1>13. PrintedIsClosed'
  <2>1. ASSUME NEW q, Waits(q) PROVE Waits(q)'
    <3>1. PICK i \in DOMAIN stack : stack[i] = [pair |-> q, step |-> "cdr"] \/ AtPair(i, Target(q + 1))
      BY <2>1 DEF Waits
    <3>2. CASE AtPair(i, Target(q + 1))
      <4>1. AtPair(i, Target(q + 1))'
        BY <1>8, <1>9, <3>2
      <4> QED
        BY <1>6, <4>1 DEF Waits
    <3>3. CASE stack[i] = [pair |-> q, step |-> "cdr"] /\ i # n
      <4>1. stack'[i] = stack[i]
        BY <1>6, <3>3
      <4> QED
        BY <1>6, <3>3, <4>1 DEF Waits
    <3>4. CASE stack[i] = [pair |-> q, step |-> "cdr"] /\ i = n
      <4>1. q = p
        BY <1>5, <3>4
      <4>2. AtPair(n, t)'
        BY <1>7 DEF AtPair
      <4>3. AtPair(n, Target(q + 1))'
        BY <1>8, <1>a, <4>1, <4>2
      <4> QED
        BY <1>5, <1>6, <4>3 DEF Waits
    <3> QED
      BY <3>1, <3>2, <3>3, <3>4
  <2> QED
    BY <1>0, <1>1, <1>8, <2>1 DEF PrintedIsClosed
<1> QED
  BY <1>8, <1>11, <1>12, <1>13 DEF Inv

(* The end of a list: the cdr refers to no pair. *)
LEMMA PopKeepsInv ==
  ASSUME Inv, CallStep, Running("cdr"), ~(Cdr \in Words /\ PointsToPair(Cdr)),
         stack' = Pop, seen' = seen
  PROVE  Inv'
<1>0. /\ stack \in Seq(Calls) /\ PassedIsPrinted /\ CarsFirst /\ PrintedIsClosed
  BY DEF Inv, StateType
<1>3. PICK n : n = Len(stack)
  OBVIOUS
<1>4. PICK p \in Int : p = Top.pair
  BY <1>0, TopFacts
<1>5. /\ n \in DOMAIN stack /\ stack # << >> /\ n \in Nat /\ DOMAIN stack = 1 .. n
      /\ stack[n].pair = p /\ stack[n].step = "cdr"
  BY <1>0, <1>3, <1>4, TopFacts, StackFacts
<1>6. /\ stack' \in Seq(Calls) /\ DOMAIN stack' = 1 .. n - 1
      /\ \A i \in DOMAIN stack' : i \in DOMAIN stack /\ stack'[i] = stack[i]
  BY <1>0, <1>3, <1>5, PopFacts
<1>8. /\ StateType' /\ SearchEnds' /\ HeadsOnly'
      /\ words' = words /\ Words' = Words
      /\ \A w : Labelled(w)' <=> Labelled(w)
      /\ \A w : PointsToPair(w)' <=> PointsToPair(w)
      /\ \A w : Target(w)' = Target(w)
  BY <1>6, CallStepFacts
<1>9. \A i \in DOMAIN stack : \A q : AtPair(i, q) => i \in DOMAIN stack' /\ AtPair(i, q)'
  <2>1. ASSUME NEW i \in DOMAIN stack, NEW q, AtPair(i, q) PROVE i # n
    BY <1>5, <2>1 DEF AtPair
  <2>2. ASSUME NEW i \in DOMAIN stack, i # n PROVE i \in DOMAIN stack'
    BY <1>5, <1>6, <2>2
  <2> QED
    BY <1>6, <2>1, <2>2 DEF AtPair
<1>11. PassedIsPrinted'
  <2>1. 1 \in DOMAIN stack /\ at' = at
    BY <1>5 DEF CallStep
  <2>2. 1 \in DOMAIN stack' => stack' # << >>
    OBVIOUS
  <2> QED
    BY <1>0, <1>8, <1>9, <2>1, <2>2 DEF PassedIsPrinted
<1>12. CarsFirst'
  <2> SUFFICES ASSUME NEW i \in DOMAIN stack', NEW q, q = stack'[i].pair,
                      stack'[i].step \in {"mark", "cdr"}
               PROVE  /\ q \in Words
                      /\ stack'[i].step = "mark" /\ PointsToPair(q) =>
                           \/ Target(q) \in seen
                           \/ i + 1 \in DOMAIN stack' /\ AtPair(i + 1, Target(q))'
    BY <1>8, CarsFirstNext
  <2>2. i \in DOMAIN stack /\ stack'[i] = stack[i]
    BY <1>6
  <2> QED
    BY <1>0, <1>8, <1>9, <2>2 DEF CarsFirst
<1>13. PrintedIsClosed'
  <2>1. ASSUME NEW q, Waits(q), q + 1 \in Words, PointsToPair(q + 1) PROVE Waits(q)'
    <3>1. PICK i \in DOMAIN stack : stack[i] = [pair |-> q, step |-> "cdr"] \/ AtPair(i, Target(q + 1))
      BY <2>1 DEF Waits
    <3>2. CASE AtPair(i, Target(q + 1))
      <4>1. i \in DOMAIN stack' /\ AtPair(i, Target(q + 1))'
        BY <1>8, <1>9, <3>2
      <4> QED
        BY <4>1 DEF Waits
    <3>3. CASE stack[i] = [pair |-> q, step |-> "cdr"]
      <4>1. i # n
        <5>1. q # p
          BY <1>4, <2>1 DEF Cdr
        <5> QED
          BY <1>5, <3>3, <5>1
      <4>2. i \in DOMAIN stack' /\ stack'[i] = stack[i]
        BY <1>5, <1>6, <4>1
      <4> QED
        BY <3>3, <4>2 DEF Waits
    <3> QED
      BY <3>1, <3>2, <3>3
  <2> QED
    BY <1>0, <1>8, <2>1 DEF PrintedIsClosed
<1> QED
  BY <1>8, <1>11, <1>12, <1>13 DEF Inv

LEMMA EndListKeepsInv ==
  ASSUME Inv, EndList
  PROVE  Inv'
<1>1. Running("cdr") /\ ~PointsToPair(Cdr) /\ stack' = Pop /\ seen' = seen
  BY DEF EndList, PointsToPair
<1>2. CallStep
  BY <1>1 DEF EndList, CallStep, Running
<1> QED
  BY <1>1, <1>2, PopKeepsInv

LEMMA EndImproperKeepsInv ==
  ASSUME Inv, EndImproper
  PROVE  Inv'
<1>1. Running("cdr") /\ IsAtom(Cdr) /\ stack' = Pop /\ seen' = seen
  BY DEF EndImproper
<1>2. CallStep
  BY <1>1 DEF EndImproper, CallStep, Running
<1> QED
  BY <1>1, <1>2, PopKeepsInv, AtomIsNoPair

-----------------------------------------------------------------------------

(* A step that leaves all but pc alone. *)
LEMMA OnlyPcKeepsInv ==
  ASSUME Inv, UNCHANGED <<segment, at, seen, stack, heads>>,
         pc' = "done" => stack = << >> /\ at \notin Words
  PROVE  Inv'
<1>1. /\ words' = words /\ Words' = Words
      /\ \A w : Labelled(w)' <=> Labelled(w)
      /\ \A w : PointsToPair(w)' <=> PointsToPair(w)
      /\ \A w : Target(w)' = Target(w)
  BY SegmentStays
<1>2. StateType'
  BY DEF Inv, StateType
<1>3. SearchEnds'
  BY <1>1 DEF SearchEnds
<1>4. PassedIsPrinted'
  BY <1>1 DEF Inv, PassedIsPrinted, AtPair
<1>5. CarsFirst'
  BY <1>1 DEF Inv, CarsFirst, AtPair
<1>6. PrintedIsClosed'
  BY <1>1 DEF Inv, PrintedIsClosed, Waits, AtPair
<1>7. HeadsOnly'
  BY HeadsStay DEF Inv
<1> QED
  BY <1>2, <1>3, <1>4, <1>5, <1>6, <1>7 DEF Inv

LEMMA InitGivesInv ==
  ASSUME Init
  PROVE  Inv
<1>1. stack = << >> /\ DOMAIN stack = {} /\ seen = {} /\ heads = << >> /\ at = 0
  BY DEF Init
<1>2. StateType
  BY <1>1 DEF Init, StateType
<1>3. SearchEnds
  BY DEF Init, SearchEnds
<1>4. PassedIsPrinted
  <2>1. \E n \in Int : Words = 0 .. n
    BY SegmentFacts DEF Init
  <2> QED
    BY <1>1, <2>1 DEF PassedIsPrinted
<1>5. CarsFirst
  BY <1>1 DEF CarsFirst
<1>6. PrintedIsClosed
  BY <1>1 DEF PrintedIsClosed
<1>7. HeadsOnly
  BY <1>1 DEF HeadsOnly
<1> QED
  BY <1>2, <1>3, <1>4, <1>5, <1>6, <1>7 DEF Inv

LEMMA PrintScriptsKeepsInv ==
  ASSUME Inv, PrintScripts
  PROVE  Inv'
<1>1. CASE StartScript
  BY <1>1, StartScriptKeepsInv
<1>2. CASE NoScript
  BY <1>2, NoScriptKeepsInv
<1>3. CASE PrintCar
  BY <1>3, PrintCarKeepsInv
<1>4. CASE PrintSublist
  BY <1>4, PrintSublistKeepsInv
<1>5. CASE Mark
  BY <1>5, MarkKeepsInv
<1>6. CASE EndList
  BY <1>6, EndListKeepsInv
<1>7. CASE NextPair
  BY <1>7, NextPairKeepsInv
<1>8. CASE EndImproper
  BY <1>8, EndImproperKeepsInv
<1>9. CASE Unprintable
  BY <1>9, OnlyPcKeepsInv DEF Unprintable, Abort
<1>10. CASE Done
  BY <1>10, OnlyPcKeepsInv DEF Done
<1> QED
  BY <1>1, <1>2, <1>3, <1>4, <1>5, <1>6, <1>7, <1>8, <1>9, <1>10 DEF PrintScripts

LEMMA ScriptStepKeepsInv ==
  ASSUME Inv, [ScriptNext]_allVars
  PROVE  Inv'
<1>1. CASE ReadScripts
  BY <1>1, PrintScriptsKeepsInv DEF ReadScripts
<1>2. CASE UNCHANGED vars
  <2>1. UNCHANGED <<segment, at, seen, stack, heads>> /\ pc' = pc
    BY <1>2 DEF vars
  <2> QED
    BY <2>1, OnlyPcKeepsInv DEF Inv, SearchEnds
<1>3. CASE Crash
  BY <1>3, OnlyPcKeepsInv DEF Crash, Abort
<1>4. PrintForm \/ LayOutForm \/ FormPrinted \/ ScriptsFinished \/ UNCHANGED allVars => UNCHANGED vars
  BY DEF PrintForm, LayOutForm, FormPrinted, ScriptsFinished, allVars
<1> QED
  BY <1>1, <1>2, <1>3, <1>4 DEF ScriptNext

(***************************************************************************)
(* print_scripts, whatever the segment holds: in the end every pair that   *)
(* something refers to has been printed; and if pairs lie before those     *)
(* they refer to, a script is started only where a list begins, never in   *)
(* its middle.                                                             *)
(***************************************************************************)
THEOREM ListsAreFromTheirHeads == ScriptSpec => []ListsFromTheirHeads
<1>1. ScriptInit => Inv
  BY InitGivesInv DEF ScriptInit
<1>2. Inv /\ [ScriptNext]_allVars => Inv'
  BY ScriptStepKeepsInv
<1>3. Inv => ListsFromTheirHeads
  <2> SUFFICES ASSUME Inv, pc = "done", NEW w \in Words, Labelled(w)
               PROVE  w \in seen
    BY DEF Inv, ListsFromTheirHeads, AllPairsPrinted, Labelled
  <2>1. stack = << >> /\ at \notin Words /\ at \in Nat /\ segment \in Segments
    BY DEF Inv, SearchEnds, StateType
  <2>2. PICK n \in Int : Words = 0 .. n
    BY <2>1, SegmentFacts
  <2>3. w < at
    BY <2>1, <2>2
  <2> QED
    BY <2>1, <2>3 DEF Inv, PassedIsPrinted
<1> QED
  BY <1>1, <1>2, <1>3, PTL DEF ScriptSpec

-----------------------------------------------------------------------------
(* What lists read as                                                      *)

(***************************************************************************)
(* No pair refers to itself, through others or not: the pairs have ranks   *)
(* that go down along the pointers.                                        *)
(***************************************************************************)
RefersTo(s, p, q) ==
  \E w \in {p, p + 1} \cap DOMAIN s.words :
    s.words[w].kind = "PTR" /\ IsPair(s.words[w].value) /\ q = WordOf(s.words[w].value)

Ranks(s, rank, n) ==
  \A p \in DOMAIN s.words : \A q \in DOMAIN s.words : RefersTo(s, p, q) => rank[q] < rank[p]

Acyclic(s) ==
  \E n \in Nat : \E rank \in [DOMAIN s.words -> 0 .. n] : Ranks(s, rank, n)

(* The car and the rest of a list, given what lists read as. *)
CarReading(f, p) ==
  IF Refers(p) THEN <<<<"(", Target(p)>>>> \o f[Target(p)] ELSE <<<<"atom", p>>>>

CdrReading(f, p) ==
  IF Refers(p + 1) THEN f[Target(p + 1)]
  ELSE IF words[p + 1].kind = "EMPTY_PTR" THEN <<<<")", p + 1>>>>
  ELSE <<<<".", p + 1>>, <<"atom", p + 1>>, <<")", p + 1>>>>

ListReading(f, p) == CarReading(f, p) \o CdrReading(f, p)

LEMMA RankFacts ==
  ASSUME NEW n, NEW rank, Ranks(segment, rank, n), NEW p \in Words
  PROVE  /\ Refers(p) => Target(p) \in Words /\ rank[Target(p)] < rank[p]
         /\ Refers(p + 1) => Target(p + 1) \in Words /\ rank[Target(p + 1)] < rank[p]
BY DEF Ranks, RefersTo, Refers, PointsToPair, Target, Words, words

LEMMA ReadingAgrees ==
  ASSUME NEW n, NEW rank, Ranks(segment, rank, n), NEW p \in Words, NEW f, NEW g,
         \A q \in Words : rank[q] < rank[p] => f[q] = g[q]
  PROVE  ListReading(f, p) = ListReading(g, p)
<1>1. CarReading(f, p) = CarReading(g, p)
  BY RankFacts DEF CarReading
<1>2. CdrReading(f, p) = CdrReading(g, p)
  BY RankFacts DEF CdrReading
<1> QED
  BY <1>1, <1>2 DEF ListReading

LEMMA ReadingExists ==
  ASSUME Acyclic(segment)
  PROVE  \E f : f = [p \in Words |-> ListReading(f, p)]
<1>a. PICK n \in Nat : \E rank \in [Words -> 0 .. n] : Ranks(segment, rank, n)
  BY DEF Acyclic, Words, words
<1>1. PICK rank \in [Words -> 0 .. n] : Ranks(segment, rank, n)
  BY <1>a
<1> DEFINE Below(k) == {p \in Words : rank[p] < k}
<1> DEFINE IsReading(f, k) == f = [p \in Below(k) |-> ListReading(f, p)]
<1> DEFINE S == {k \in Nat : \E f : IsReading(f, k)}
<1>2. 0 \in S
  <2>1. Below(0) = {}
    OBVIOUS
  <2>2. PICK f : f = [p \in {} |-> 0]
    OBVIOUS
  <2>3. IsReading(f, 0)
    BY <2>1, <2>2
  <2> QED
    BY <2>3
<1>3. ASSUME NEW k \in Nat, k \in S
      PROVE  k + 1 \in S
  <2>1. PICK f : IsReading(f, k)
    BY <1>3
  <2>2. PICK g : g = [p \in Below(k + 1) |-> ListReading(f, p)]
    OBVIOUS
  <2>3. \A p \in Below(k) : p \in Below(k + 1) /\ f[p] = g[p]
    BY <2>1, <2>2
  <2>4. ASSUME NEW p \in Below(k + 1)
        PROVE  ListReading(f, p) = ListReading(g, p)
    <3>1. \A q \in Words : rank[q] < rank[p] => q \in Below(k)
      BY <2>4
    <3>2. p \in Words /\ \A q \in Words : rank[q] < rank[p] => f[q] = g[q]
      BY <2>3, <2>4, <3>1
    <3> QED
      BY <1>1, <3>2, ReadingAgrees
  <2>5. IsReading(g, k + 1)
    BY <2>2, <2>4
  <2> QED
    BY <2>5
<1>4. n + 1 \in S
  <2> HIDE DEF S
  <2> QED
    BY <1>2, <1>3, NatSetInduction
<1>5. Below(n + 1) = Words
  OBVIOUS
<1> QED
  BY <1>4, <1>5

LEMMA ReadingEquation ==
  ASSUME Acyclic(segment)
  PROVE  Reading = [p \in Words |-> ListReading(Reading, p)]
<1>1. Reading = CHOOSE f : f = [p \in Words |-> ListReading(f, p)]
  BY DEF Reading, ListReading, CarReading, CdrReading
<1> QED
  BY <1>1, ReadingExists

-----------------------------------------------------------------------------
(* What is printed and read: sequences of entries                          *)

Entry == {"(", ")", ".", "atom"} \X Int

Row == Seq(Entry)

LEMMA EntryFacts ==
  ASSUME NEW w \in Int
  PROVE  /\ <<"(", w>> \in Entry /\ <<")", w>> \in Entry
         /\ <<".", w>> \in Entry /\ <<"atom", w>> \in Entry
BY DEF Entry

LEMMA RowFacts ==
  /\ << >> \in Row
  /\ \A x \in Entry : <<x>> \in Row
  /\ \A x, y, z \in Entry : <<x, y, z>> \in Row
  /\ \A s, t \in Row : s \o t \in Row
  /\ \A s \in Row : \A x \in Entry : Append(s, x) = s \o <<x>> /\ Append(s, x) \in Row
  /\ \A s \in Row : s \o << >> = s
<1> DEFINE T == Entry
<1> HIDE DEF T
<1>1. << >> \in Seq(T) /\ \A x \in T : <<x>> \in Seq(T)
  OBVIOUS
<1>2. \A x, y, z \in T : <<x, y, z>> \in Seq(T)
  OBVIOUS
<1>3. \A s, t \in Seq(T) : s \o t \in Seq(T)
  BY ConcatFacts
<1>4. \A s \in Seq(T) : \A x \in T : Append(s, x) = s \o <<x>>
  BY ConcatFacts
<1>5. \A s \in Seq(T) : s \o << >> = s
  BY ConcatFacts
<1>6. \A s \in Seq(T) : \A x \in T : Append(s, x) \in Seq(T)
  OBVIOUS
<1> QED
  BY <1>1, <1>2, <1>3, <1>4, <1>5, <1>6 DEF T, Row

(* Concatenation is associative; with names for the rows. *)
Joins(s, t, u) == u = s \o t

LEMMA JoinsAssoc ==
  ASSUME NEW s \in Row, NEW t \in Row, NEW u \in Row,
         NEW st, Joins(s, t, st), NEW tu, Joins(t, u, tu)
  PROVE  \A v : Joins(st, u, v) <=> Joins(s, tu, v)
<1> DEFINE T == Entry
<1> HIDE DEF T
<1>1. s \in Seq(T) /\ t \in Seq(T) /\ u \in Seq(T)
  BY DEF Row, T
<1>2. (s \o t) \o u = s \o (t \o u)
  BY <1>1, ConcatFacts
<1> QED
  BY <1>2 DEF Joins

LEMMA CarReadingType ==
  ASSUME segment \in Segments, NEW p \in Words, NEW f, Refers(p) => f[Target(p)] \in Row
  PROVE  CarReading(f, p) \in Row
<1>1. \A w \in Words : w \in Int
  BY SegmentFacts
<1>2. CASE Refers(p)
  <2>1. PICK t \in Int : t = Target(p)
    BY <1>1, <1>2 DEF Refers
  <2>2. <<<<"(", t>>>> \in Row
    BY EntryFacts, RowFacts
  <2>3. <<<<"(", t>>>> \o f[t] \in Row
    BY <1>2, <2>1, <2>2, RowFacts
  <2> QED
    BY <1>2, <2>1, <2>3 DEF CarReading
<1>3. CASE ~Refers(p)
  <2>1. <<<<"atom", p>>>> \in Row
    BY <1>1, EntryFacts, RowFacts
  <2> QED
    BY <1>3, <2>1 DEF CarReading
<1> QED
  BY <1>2, <1>3

LEMMA CdrReadingType ==
  ASSUME segment \in Segments, NEW p \in Words, NEW f, Refers(p + 1) => f[Target(p + 1)] \in Row
  PROVE  CdrReading(f, p) \in Row
<1>1. PICK w \in Int : w = p + 1
  BY SegmentFacts
<1>2. <<<<")", w>>>> \in Row
  BY EntryFacts, RowFacts
<1>3. <<<<".", w>>, <<"atom", w>>, <<")", w>>>> \in Row
  BY EntryFacts, RowFacts
<1> QED
  BY <1>1, <1>2, <1>3 DEF CdrReading

LEMMA ReadingType ==
  ASSUME segment \in Segments, Acyclic(segment)
  PROVE  \A p \in Words : Reading[p] \in Row
<1>a. PICK n \in Nat : \E rank \in [Words -> 0 .. n] : Ranks(segment, rank, n)
  BY DEF Acyclic, Words, words
<1>1. PICK rank \in [Words -> 0 .. n] : Ranks(segment, rank, n)
  BY <1>a
<1> DEFINE S == {k \in Nat : \A p \in Words : rank[p] < k => Reading[p] \in Row}
<1>2. 0 \in S
  OBVIOUS
<1>3. ASSUME NEW k \in Nat, k \in S
      PROVE  k + 1 \in S
  <2> SUFFICES ASSUME NEW p \in Words, rank[p] < k + 1
               PROVE  Reading[p] \in Row
    OBVIOUS
  <2>1. \A q \in Words : rank[q] < rank[p] => Reading[q] \in Row
    <3>1. \A q \in Words : rank[q] < rank[p] => rank[q] < k
      OBVIOUS
    <3> QED
      BY <1>3, <3>1
  <2>2. Refers(p) => Reading[Target(p)] \in Row
    BY <1>1, <2>1, RankFacts
  <2>3. Refers(p + 1) => Reading[Target(p + 1)] \in Row
    BY <1>1, <2>1, RankFacts
  <2>4. CarReading(Reading, p) \in Row /\ CdrReading(Reading, p) \in Row
    BY <2>2, <2>3, CarReadingType, CdrReadingType
  <2>5. ListReading(Reading, p) \in Row
    BY <2>4, RowFacts DEF ListReading
  <2>6. Reading[p] = ListReading(Reading, p)
    <3> DEFINE e(q) == ListReading(Reading, q)
    <3>1. Reading = [q \in Words |-> e(q)]
      BY ReadingEquation
    <3> HIDE DEF e
    <3>2. Reading[p] = e(p)
      BY <3>1
    <3> QED
      BY <3>2 DEF e
  <2> QED
    BY <2>5, <2>6
<1>4. n + 1 \in S
  <2> HIDE DEF S
  <2> QED
    BY <1>2, <1>3, NatSetInduction
<1>5. \A p \in Words : rank[p] < n + 1
  BY <1>1
<1> QED
  BY <1>4, <1>5

(* The parts of a list's reading, by what its car and its cdr are. *)
LEMMA ReadingParts ==
  ASSUME segment \in Segments, Acyclic(segment), NEW p \in Words
  PROVE  /\ Reading[p] = CarReading(Reading, p) \o CdrReading(Reading, p)
         /\ CarReading(Reading, p) \in Row /\ CdrReading(Reading, p) \in Row
         /\ Refers(p) => Target(p) \in Words
                         /\ CarReading(Reading, p) = <<<<"(", Target(p)>>>> \o Reading[Target(p)]
         /\ ~Refers(p) => CarReading(Reading, p) = <<<<"atom", p>>>>
<1> DEFINE e(q) == ListReading(Reading, q)
<1>1. Reading = [q \in Words |-> e(q)]
  BY ReadingEquation
<1> HIDE DEF e
<1>2. Reading[p] = e(p)
  BY <1>1
<1>3. Reading[p] = CarReading(Reading, p) \o CdrReading(Reading, p)
  BY <1>2 DEF e, ListReading
<1>4. Refers(p) => Target(p) \in Words
  BY DEF Refers
<1>5. Refers(p + 1) => Target(p + 1) \in Words
  BY DEF Refers
<1>6. CarReading(Reading, p) \in Row /\ CdrReading(Reading, p) \in Row
  BY <1>4, <1>5, ReadingType, CarReadingType, CdrReadingType
<1> QED
  BY <1>3, <1>4, <1>6 DEF CarReading

LEMMA ReadingStays ==
  ASSUME segment' = segment
  PROVE  Reading' = Reading
BY DEF Reading, Refers, PointsToPair, Target, Words, words

-----------------------------------------------------------------------------
(***************************************************************************)
(* What is printed already, and what the calls have yet to print, from the *)
(* one at the top to the first, is what the scripts so far read as.        *)
(***************************************************************************)

(* What a call has yet to print. *)
Part(c) == IF c.step = "car" THEN Reading[c.pair] ELSE CdrReading(Reading, c.pair)

(* rest[i] is what the calls up to the i-th have yet to print. *)
IsRest(rest) ==
  /\ rest[0] = << >>
  /\ \A i \in 1 .. Len(stack) : rest[i] = Part(stack[i]) \o rest[i - 1]
  /\ \A i \in 0 .. Len(stack) : rest[i] \in Row

(* A call was made, or goes on, at a word that is none: the program will end. *)
Doomed == stack # << >> /\ Top.step = "car" /\ Top.pair \notin Words

TextAndRest ==
  pc = "printing" =>
    Doomed \/ \E rest : IsRest(rest) /\ text \o rest[Len(stack)] = Scripts

TextInv ==
  /\ text \in Row
  /\ heads \in Seq(Words)
  /\ Acyclic(segment) => TextAndRest

LEMMA PartStays ==
  ASSUME segment' = segment
  PROVE  /\ Reading' = Reading
         /\ \A p : CdrReading(Reading, p)' = CdrReading(Reading, p)
         /\ \A c : Part(c)' = Part(c)
         /\ heads' = heads => Scripts' = Scripts
<1>1. Reading' = Reading /\ words' = words
  BY ReadingStays DEF words
<1>2. \A p : CdrReading(Reading, p)' = CdrReading(Reading, p)
  BY <1>1, SegmentStays DEF CdrReading, Refers
<1>3. \A c : Part(c)' = Part(c)
  BY <1>1, <1>2 DEF Part
<1>4. heads' = heads => Scripts' = Scripts
  BY <1>1 DEF Scripts
<1> QED
  BY <1>1, <1>2, <1>3, <1>4

LEMMA RestNext ==
  ASSUME segment' = segment, NEW rest, rest[0] = << >>,
         \A i \in 1 .. Len(stack') : \A c : c = stack'[i] => rest[i] = Part(c) \o rest[i - 1],
         \A i \in 0 .. Len(stack') : rest[i] \in Row
  PROVE  IsRest(rest)'
<1>1. \A c : Part(c)' = Part(c)
  BY PartStays
<1>2. ASSUME NEW i \in 1 .. Len(stack'), NEW c, c = stack'[i]
      PROVE  Part(stack[i])' = Part(c)
  <2>1. Part(c)' = Part(c)
    BY <1>1
  <2>2. Part(stack[i])' = Part(c)'
    BY <1>2 DEF Part, CdrReading, Refers, PointsToPair, Target, words, Words
  <2> QED
    BY <2>1, <2>2
<1> QED
  BY <1>2 DEF IsRest

(* A step of a call: scripts are as before. *)
LEMMA TextAndRestNext ==
  ASSUME CallStep, NEW rest, IsRest(rest)', text' \o rest[Len(stack')] = Scripts
  PROVE  TextAndRest'
<1>1. Scripts' = Scripts
  BY PartStays DEF CallStep
<1> QED
  BY <1>1 DEF TextAndRest

(* What the call at the top has yet to print, and the others after it. *)
LEMMA TopRest ==
  ASSUME stack \in Seq(Calls), stack # << >>, NEW rest, IsRest(rest)
  PROVE  /\ rest[Len(stack)] = Part(Top) \o rest[Len(stack) - 1]
         /\ rest[Len(stack)] \in Row /\ rest[Len(stack) - 1] \in Row
         /\ Len(stack) \in Nat \ {0}
<1>1. Len(stack) \in Nat /\ Len(stack) # 0
  BY StackFacts
<1>2. Len(stack) \in 1 .. Len(stack) /\ Len(stack) \in 0 .. Len(stack)
      /\ Len(stack) - 1 \in 0 .. Len(stack)
  BY <1>1
<1> QED
  BY <1>1, <1>2 DEF IsRest, Top

(***************************************************************************)
(* A step that has the call at the top go on: what it prints and what it   *)
(* has then yet to print is what it had yet to print.                      *)
(***************************************************************************)
LEMMA GoOn ==
  ASSUME stack \in Seq(Calls), CallStep, stack # << >>, text \in Row,
         NEW p \in Int, NEW s \in {"car", "mark", "cdr"}, Continue(p, s),
         NEW rest, IsRest(rest), Joins(text, rest[Len(stack)], Scripts),
         NEW x \in Row, NEW y \in Row, y = Part([pair |-> p, step |-> s]),
         Joins(x, y, Part(Top)), Joins(text, x, text')
  PROVE  TextAndRest'
<1>1. PICK n \in Nat \ {0} : n = Len(stack)
  BY TopRest
<1>2. rest[n] = Part(Top) \o rest[n - 1] /\ rest[n - 1] \in Row
  BY <1>1, TopRest
<1>3. PICK z : z = y \o rest[n - 1]
  OBVIOUS
<1>4. z \in Row
  BY <1>2, <1>3, RowFacts
<1>5. PICK r : r = [i \in 0 .. n |-> IF i = n THEN z ELSE rest[i]]
  OBVIOUS
<1>6. r[n] = z /\ \A i \in 0 .. n - 1 : r[i] = rest[i]
  BY <1>1, <1>5
<1>7. /\ DOMAIN stack' = DOMAIN stack /\ Len(stack') = n
      /\ stack'[n] = [pair |-> p, step |-> s]
      /\ \A i \in DOMAIN stack : i # n => stack'[i] = stack[i]
  BY <1>1, ContinueFacts
<1>8. DOMAIN stack = 1 .. n
  BY <1>1, StackFacts
<1>9. rest[0] = << >> /\ (\A i \in 0 .. n : rest[i] \in Row)
      /\ \A i \in 1 .. n : rest[i] = Part(stack[i]) \o rest[i - 1]
  BY <1>1 DEF IsRest
<1>10. IsRest(r)'
  <2>1. r[0] = << >>
    <3>1. 0 \in 0 .. n - 1
      BY <1>1
    <3> QED
      BY <1>6, <1>9, <3>1
  <2>2. ASSUME NEW i \in 1 .. Len(stack'), NEW c, c = stack'[i]
        PROVE  r[i] = Part(c) \o r[i - 1]
    <3>1. i \in 1 .. n /\ i - 1 \in 0 .. n - 1
      BY <1>1, <1>7
    <3>2. CASE i = n
      <4>1. Part(c) = y
        BY <1>7, <2>2, <3>2
      <4>2. r[i] = y \o rest[n - 1]
        BY <1>3, <1>6, <3>2
      <4>3. r[i - 1] = rest[n - 1]
        BY <1>6, <3>1, <3>2
      <4> QED
        BY <4>1, <4>2, <4>3
    <3>3. CASE i # n
      <4>1. i \in 0 .. n - 1
        BY <1>1, <3>1, <3>3
      <4>2. r[i] = rest[i] /\ r[i - 1] = rest[i - 1]
        BY <1>6, <3>1, <4>1
      <4>3. c = stack[i]
        BY <1>7, <1>8, <2>2, <3>1, <3>3
      <4> QED
        BY <1>9, <3>1, <4>2, <4>3
    <3> QED
      BY <3>2, <3>3
  <2>3. \A i \in 0 .. Len(stack') : r[i] \in Row
    <3> SUFFICES ASSUME NEW i \in 0 .. n PROVE r[i] \in Row
      BY <1>7
    <3>1. CASE i = n
      BY <1>4, <1>6, <3>1
    <3>2. CASE i # n
      <4>1. i \in 0 .. n - 1
        BY <1>1, <3>2
      <4> QED
        BY <1>6, <1>9, <4>1
    <3> QED
      BY <3>1, <3>2
  <2>4. segment' = segment
    BY DEF CallStep
  <2> QED
    BY <2>1, <2>2, <2>3, <2>4, RestNext
<1>11. Joins(text', z, Scripts)
  <2>1. PICK t \in Row : t = text
    OBVIOUS
  <2>2. PICK w \in Row : w = rest[n - 1]
    BY <1>2
  <2>3. Joins(Part(Top), w, rest[n]) /\ Joins(y, w, z) /\ Joins(t, x, text')
    BY <1>2, <1>3, <2>1, <2>2 DEF Joins
  <2>4. Joins(x, z, rest[n])
    BY <2>3, JoinsAssoc
  <2>5. Joins(t, rest[n], Scripts)
    BY <1>1, <2>1
  <2> QED
    BY <1>4, <2>3, <2>4, <2>5, JoinsAssoc
<1>12. text' \o r[Len(stack')] = Scripts
  BY <1>1, <1>6, <1>7, <1>11 DEF Joins
<1> QED
  BY <1>10, <1>12, TextAndRestNext

(* A step that ends the call at the top: it prints all it had yet to print. *)
LEMMA Return ==
  ASSUME stack \in Seq(Calls), CallStep, stack # << >>, text \in Row, stack' = Pop,
         NEW rest, IsRest(rest), Joins(text, rest[Len(stack)], Scripts),
         NEW x \in Row, Part(Top) = x, Joins(text, x, text')
  PROVE  TextAndRest'
<1>1. PICK n \in Nat \ {0} : n = Len(stack)
  BY TopRest
<1>2. rest[n] = x \o rest[n - 1] /\ rest[n - 1] \in Row
  BY <1>1, TopRest
<1>3. /\ stack' \in Seq(Calls) /\ DOMAIN stack' = 1 .. n - 1
      /\ \A i \in DOMAIN stack' : i \in DOMAIN stack /\ stack'[i] = stack[i]
  BY <1>1, PopFacts
<1>4. Len(stack') = n - 1
  <2>1. Len(stack') \in Nat /\ DOMAIN stack' = 1 .. Len(stack')
    BY <1>3
  <2> QED
    BY <1>1, <1>3, <2>1
<1>5. rest[0] = << >> /\ (\A i \in 0 .. n : rest[i] \in Row)
      /\ \A i \in 1 .. n : rest[i] = Part(stack[i]) \o rest[i - 1]
  BY <1>1 DEF IsRest
<1>6. IsRest(rest)'
  <2>1. ASSUME NEW i \in 1 .. Len(stack'), NEW c, c = stack'[i]
        PROVE  rest[i] = Part(c) \o rest[i - 1]
    <3>1. i \in 1 .. n /\ i \in DOMAIN stack'
      BY <1>1, <1>3, <1>4
    <3>2. c = stack[i]
      BY <1>3, <2>1, <3>1
    <3> QED
      BY <1>5, <3>1, <3>2
  <2>2. \A i \in 0 .. Len(stack') : rest[i] \in Row
    BY <1>1, <1>4, <1>5
  <2>3. segment' = segment
    BY DEF CallStep
  <2> QED
    BY <1>5, <2>1, <2>2, <2>3, RestNext
<1>7. Joins(text', rest[n - 1], Scripts)
  <2>1. PICK t \in Row : t = text
    OBVIOUS
  <2>2. PICK w \in Row : w = rest[n - 1]
    BY <1>2
  <2>3. Joins(x, w, rest[n]) /\ Joins(t, x, text')
    BY <1>2, <2>1, <2>2 DEF Joins
  <2>4. Joins(t, rest[n], Scripts)
    BY <1>1, <2>1
  <2> QED
    BY <2>2, <2>3, <2>4, JoinsAssoc
<1> QED
  BY <1>1, <1>4, <1>6, <1>7, TextAndRestNext DEF Joins

(***************************************************************************)
(* A step that has the call at the top call another, for the list in the   *)
(* car of its pair.                                                        *)
(***************************************************************************)
LEMMA CallOn ==
  ASSUME stack \in Seq(Calls), CallStep, stack # << >>, text \in Row,
         NEW p \in Int, p = Top.pair, NEW t \in Int, Descend(t),
         NEW rest, IsRest(rest), Joins(text, rest[Len(stack)], Scripts),
         NEW x \in Row, NEW y \in Row, NEW z \in Row, NEW xy,
         y = Part([pair |-> t, step |-> "car"]), z = Part([pair |-> p, step |-> "mark"]),
         Joins(x, y, xy), Joins(xy, z, Part(Top)), Joins(text, x, text')
  PROVE  TextAndRest'
<1>1. PICK n \in Nat \ {0} : n = Len(stack)
  BY TopRest
<1>2. rest[n] = Part(Top) \o rest[n - 1] /\ rest[n - 1] \in Row
  BY <1>1, TopRest
<1>3. PICK v \in Row : v = z \o rest[n - 1]
  BY <1>2, RowFacts
<1>4. PICK u \in Row : u = y \o v
  BY RowFacts
<1>5. PICK r : r = [i \in 0 .. n + 1 |-> IF i = n + 1 THEN u ELSE IF i = n THEN v ELSE rest[i]]
  OBVIOUS
<1>6. r[n + 1] = u /\ r[n] = v /\ \A i \in 0 .. n - 1 : r[i] = rest[i]
  BY <1>1, <1>5
<1>7. /\ stack' \in Seq(Calls) /\ DOMAIN stack' = 1 .. n + 1
      /\ stack'[n + 1] = [pair |-> t, step |-> "car"]
      /\ stack'[n] = [pair |-> p, step |-> "mark"]
      /\ \A i \in DOMAIN stack : i # n => stack'[i] = stack[i]
  BY <1>1, DescendFacts DEF Top
<1>8. DOMAIN stack = 1 .. n
  BY <1>1, StackFacts
<1>a. Len(stack') = n + 1
  <2>1. Len(stack') \in Nat /\ DOMAIN stack' = 1 .. Len(stack')
    BY <1>7
  <2> QED
    BY <1>1, <1>7, <2>1
<1>9. rest[0] = << >> /\ (\A i \in 0 .. n : rest[i] \in Row)
      /\ \A i \in 1 .. n : rest[i] = Part(stack[i]) \o rest[i - 1]
  BY <1>1 DEF IsRest
<1>10. IsRest(r)'
  <2>1. r[0] = << >>
    <3>1. 0 \in 0 .. n - 1
      BY <1>1
    <3> QED
      BY <1>6, <1>9, <3>1
  <2>2. ASSUME NEW i \in 1 .. Len(stack'), NEW c, c = stack'[i]
        PROVE  r[i] = Part(c) \o r[i - 1]
    <3>1. i \in 1 .. n + 1 /\ i - 1 \in 0 .. n
      BY <1>1, <1>a
    <3>2. CASE i = n + 1
      <4>1. Part(c) = y
        BY <1>7, <2>2, <3>2
      <4>2. r[i] = y \o v
        BY <1>4, <1>6, <3>2
      <4>3. i - 1 = n
        BY <3>2
      <4> QED
        BY <1>6, <4>1, <4>2, <4>3
    <3>3. CASE i = n
      <4>1. Part(c) = z
        BY <1>7, <2>2, <3>3
      <4>2. r[i] = z \o rest[n - 1]
        BY <1>3, <1>6, <3>3
      <4>3. n - 1 \in 0 .. n - 1
        BY <1>1
      <4>4. r[i - 1] = rest[n - 1]
        BY <1>6, <3>3, <4>3
      <4> QED
        BY <4>1, <4>2, <4>4
    <3>4. CASE i # n /\ i # n + 1
      <4>1. i \in 1 .. n /\ i \in 0 .. n - 1 /\ i - 1 \in 0 .. n - 1
        BY <1>1, <3>1, <3>4
      <4>2. r[i] = rest[i] /\ r[i - 1] = rest[i - 1]
        BY <1>6, <4>1
      <4>3. c = stack[i]
        BY <1>7, <1>8, <2>2, <3>4, <4>1
      <4> QED
        BY <1>9, <4>1, <4>2, <4>3
    <3> QED
      BY <3>2, <3>3, <3>4
  <2>3. \A i \in 0 .. Len(stack') : r[i] \in Row
    <3> SUFFICES ASSUME NEW i \in 0 .. n + 1 PROVE r[i] \in Row
      BY <1>a
    <3>1. CASE i = n + 1
      BY <1>6, <3>1
    <3>2. CASE i = n
      BY <1>6, <3>2
    <3>3. CASE i # n /\ i # n + 1
      <4>1. i \in 0 .. n - 1 /\ i \in 0 .. n
        BY <1>1, <3>3
      <4> QED
        BY <1>6, <1>9, <4>1
    <3> QED
      BY <3>1, <3>2, <3>3
  <2>4. segment' = segment
    BY DEF CallStep
  <2> QED
    BY <2>1, <2>2, <2>3, <2>4, RestNext
<1>11. Joins(text', u, Scripts)
  <2>1. PICK s \in Row : s = text
    OBVIOUS
  <2>2. PICK w \in Row : w = rest[n - 1]
    BY <1>2
  <2>3. Joins(Part(Top), w, rest[n]) /\ Joins(z, w, v) /\ Joins(y, v, u) /\ Joins(s, x, text')
    BY <1>2, <1>3, <1>4, <2>1, <2>2 DEF Joins
  <2>4. xy \in Row
    BY RowFacts DEF Joins
  <2>5. Joins(xy, v, rest[n])
    BY <2>3, <2>4, JoinsAssoc
  <2>6. Joins(x, u, rest[n])
    BY <2>3, <2>5, JoinsAssoc
  <2>7. Joins(s, rest[n], Scripts)
    BY <1>1, <2>1
  <2> QED
    BY <2>3, <2>6, <2>7, JoinsAssoc
<1>12. text' \o r[Len(stack')] = Scripts
  BY <1>1, <1>6, <1>a, <1>11 DEF Joins
<1> QED
  BY <1>10, <1>12, TextAndRestNext

(* A call at a word that is none stays at the top until the program ends. *)
LEMMA NotDoomed ==
  ASSUME Inv, stack # << >>, ~Doomed
  PROVE  Top.pair \in Words
BY StackFacts, CallFacts DEF Inv, StateType, CarsFirst, Doomed, Top

LEMMA PrintCarKeepsText ==
  ASSUME Inv, TextInv, Acyclic(segment), PrintCar
  PROVE  TextAndRest'
<1>1. /\ segment \in Segments /\ stack \in Seq(Calls) /\ text \in Row /\ TextAndRest
  BY DEF Inv, StateType, TextInv
<1>2. Running("car") /\ IsAtom(Top.pair) /\ text' = Append(text, <<"atom", Top.pair>>)
      /\ Continue(Top.pair, "mark")
  BY DEF PrintCar
<1>3. CallStep /\ pc = "printing" /\ stack # << >> /\ Top.step = "car"
  BY <1>2 DEF PrintCar, CallStep, Running
<1>4. PICK p \in Words : p = Top.pair
  BY <1>2, AtomIsNoPair
<1>5. p \in Int /\ ~Refers(p)
  <2>1. p \in Int
    BY <1>1, SegmentFacts
  <2> QED
    BY <1>2, <1>4, <2>1, AtomIsNoPair DEF Refers
<1>6. PICK rest : IsRest(rest) /\ Joins(text, rest[Len(stack)], Scripts)
  BY <1>1, <1>3, <1>4 DEF TextAndRest, Doomed, Joins
<1>7. PICK x \in Row : x = <<<<"atom", p>>>>
  BY <1>5, EntryFacts, RowFacts
<1>8. PICK y \in Row : y = CdrReading(Reading, p)
  BY <1>1, ReadingParts
<1>9. Joins(x, y, Part(Top))
  BY <1>1, <1>3, <1>4, <1>5, <1>7, <1>8, ReadingParts DEF Part, Joins
<1>10. y = Part([pair |-> p, step |-> "mark"])
  BY <1>8 DEF Part
<1>11. Joins(text, x, text')
  BY <1>1, <1>2, <1>4, <1>5, <1>7, EntryFacts, RowFacts DEF Joins
<1>12. Continue(p, "mark")
  BY <1>2, <1>4
<1> QED
  BY <1>1, <1>3, <1>5, <1>6, <1>9, <1>10, <1>11, <1>12, GoOn

LEMMA MarkKeepsText ==
  ASSUME Inv, TextInv, Acyclic(segment), Mark
  PROVE  TextAndRest'
<1>1. /\ segment \in Segments /\ stack \in Seq(Calls) /\ text \in Row /\ TextAndRest
  BY DEF Inv, StateType, TextInv
<1>2. Running("mark") /\ text' = text /\ Continue(Top.pair, "cdr")
  BY DEF Mark
<1>3. CallStep /\ pc = "printing" /\ stack # << >> /\ Top.step = "mark"
  BY <1>2 DEF Mark, CallStep, Running
<1>4. ~Doomed
  BY <1>3 DEF Doomed
<1>5. PICK p \in Words : p = Top.pair
  BY <1>3, <1>4, NotDoomed
<1>6. p \in Int
  BY <1>1, SegmentFacts
<1>7. PICK rest : IsRest(rest) /\ Joins(text, rest[Len(stack)], Scripts)
  BY <1>1, <1>3, <1>4 DEF TextAndRest, Joins
<1>8. PICK x \in Row : x = << >>
  BY RowFacts
<1>9. PICK y \in Row : y = CdrReading(Reading, p)
  BY <1>1, ReadingParts
<1>10. Joins(x, y, Part(Top))
  <2>1. x \o y = y
    <3> DEFINE T == Entry
    <3>1. y \in Seq(T)
      BY DEF Row
    <3> HIDE DEF T
    <3> QED
      BY <1>8, <3>1, ConcatFacts
  <2> QED
    BY <1>3, <1>5, <1>9, <2>1 DEF Part, Joins
<1>11. y = Part([pair |-> p, step |-> "cdr"])
  BY <1>9 DEF Part
<1>12. Joins(text, x, text')
  BY <1>1, <1>2, <1>8, RowFacts DEF Joins
<1>13. Continue(p, "cdr")
  BY <1>2, <1>5
<1> QED
  BY <1>1, <1>3, <1>6, <1>7, <1>10, <1>11, <1>12, <1>13, GoOn

LEMMA PrintSublistKeepsText ==
  ASSUME Inv, TextInv, Acyclic(segment), PrintSublist
  PROVE  TextAndRest'
<1>1. /\ segment \in Segments /\ stack \in Seq(Calls) /\ text \in Row /\ TextAndRest
  BY DEF Inv, StateType, TextInv
<1>2. /\ Running("car") /\ Top.pair \in Words /\ PointsToPair(Top.pair)
      /\ Descend(Target(Top.pair)) /\ text' = Append(text, <<"(", Target(Top.pair)>>)
  BY DEF PrintSublist
<1>3. CallStep /\ pc = "printing" /\ stack # << >> /\ Top.step = "car"
  BY <1>2 DEF PrintSublist, CallStep, Running
<1>4. PICK p \in Words : p = Top.pair
  BY <1>2
<1>5. p \in Int
  BY <1>1, SegmentFacts
<1>6. PICK t \in Int : t = Target(p)
  BY <1>1, <1>2, <1>4, SegmentFacts
<1>7. PICK rest : IsRest(rest) /\ Joins(text, rest[Len(stack)], Scripts)
  BY <1>1, <1>3, <1>4 DEF TextAndRest, Doomed, Joins
<1>8. Descend(t)
  BY <1>2, <1>4, <1>6
<1>9. CASE t \in Words
  <2>1. Refers(p)
    BY <1>2, <1>4, <1>6, <1>9 DEF Refers
  <2>2. PICK x \in Row : x = <<<<"(", t>>>>
    BY EntryFacts, RowFacts
  <2>3. PICK y \in Row : y = Reading[t]
    BY <1>1, <1>9, ReadingType
  <2>4. PICK z \in Row : z = CdrReading(Reading, p)
    BY <1>1, ReadingParts
  <2>5. PICK xy : Joins(x, y, xy)
    BY DEF Joins
  <2>6. CarReading(Reading, p) = xy
    BY <1>1, <1>6, <2>1, <2>2, <2>3, <2>5, ReadingParts DEF Joins
  <2>7. Joins(xy, z, Part(Top))
    BY <1>1, <1>3, <1>4, <2>4, <2>6, ReadingParts DEF Part, Joins
  <2>8. y = Part([pair |-> t, step |-> "car"])
    BY <2>3 DEF Part
  <2>9. z = Part([pair |-> p, step |-> "mark"])
    BY <2>4 DEF Part
  <2>10. Joins(text, x, text')
    BY <1>1, <1>2, <1>4, <1>6, <2>2, EntryFacts, RowFacts DEF Joins
  <2> QED
    BY <1>1, <1>3, <1>4, <1>5, <1>7, <1>8, <2>5, <2>7, <2>8, <2>9, <2>10, CallOn
<1>10. CASE t \notin Words
  <2>1. /\ stack' \in Seq(Calls) /\ DOMAIN stack' = 1 .. Len(stack) + 1
        /\ stack'[Len(stack) + 1] = [pair |-> t, step |-> "car"]
    BY <1>1, <1>3, <1>8, DescendFacts
  <2>2. Len(stack') = Len(stack) + 1
    <3>1. Len(stack') \in Nat /\ DOMAIN stack' = 1 .. Len(stack') /\ Len(stack) \in Nat
      BY <1>1, <2>1
    <3> QED
      BY <2>1, <3>1
  <2>3. Top' = [pair |-> t, step |-> "car"]
    BY <2>1, <2>2 DEF Top
  <2>4. Len(stack) \in Nat
    BY <1>1
  <2>5. stack' # << >>
    BY <2>1, <2>2, <2>4
  <2>6. Words' = Words
    BY <1>3, SegmentStays DEF CallStep
  <2> QED
    BY <1>10, <2>3, <2>5, <2>6 DEF TextAndRest, Doomed
<1> QED
  BY <1>9, <1>10

LEMMA NextPairKeepsText ==
  ASSUME Inv, TextInv, Acyclic(segment), NextPair
  PROVE  TextAndRest'
<1>1. /\ segment \in Segments /\ stack \in Seq(Calls) /\ text \in Row /\ TextAndRest
  BY DEF Inv, StateType, TextInv
<1>2. /\ Running("cdr") /\ Cdr \in Words /\ PointsToPair(Cdr)
      /\ Continue(Target(Cdr), "car") /\ text' = text
  BY DEF NextPair
<1>3. CallStep /\ pc = "printing" /\ stack # << >> /\ Top.step = "cdr"
  BY <1>2 DEF NextPair, CallStep, Running
<1>4. ~Doomed
  BY <1>3 DEF Doomed
<1>5. PICK p \in Words : p = Top.pair
  BY <1>3, <1>4, NotDoomed
<1>6. PICK t \in Int : t = Target(p + 1)
  BY <1>1, <1>2, <1>5, SegmentFacts DEF Cdr
<1>7. PICK rest : IsRest(rest) /\ Joins(text, rest[Len(stack)], Scripts)
  BY <1>1, <1>3, <1>4 DEF TextAndRest, Joins
<1>8. Continue(t, "car")
  BY <1>2, <1>5, <1>6 DEF Cdr
<1>9. CASE t \in Words
  <2>1. Refers(p + 1)
    BY <1>2, <1>5, <1>6, <1>9 DEF Refers, Cdr
  <2>2. PICK x \in Row : x = << >>
    BY RowFacts
  <2>3. PICK y \in Row : y = Reading[t]
    BY <1>1, <1>9, ReadingType
  <2>4. Part(Top) = y
    BY <1>3, <1>5, <1>6, <2>1, <2>3 DEF Part, CdrReading
  <2>5. Joins(x, y, Part(Top))
    <3> DEFINE T == Entry
    <3>1. y \in Seq(T)
      BY DEF Row
    <3> HIDE DEF T
    <3>2. x \o y = y
      BY <2>2, <3>1, ConcatFacts
    <3> QED
      BY <2>4, <3>2 DEF Joins
  <2>6. y = Part([pair |-> t, step |-> "car"])
    BY <2>3 DEF Part
  <2>7. Joins(text, x, text')
    BY <1>1, <1>2, <2>2, RowFacts DEF Joins
  <2> QED
    BY <1>1, <1>3, <1>7, <1>8, <2>5, <2>6, <2>7, GoOn
<1>10. CASE t \notin Words
  <2>1. /\ Len(stack') = Len(stack) /\ stack' # << >>
        /\ stack'[Len(stack)] = [pair |-> t, step |-> "car"]
    BY <1>1, <1>3, <1>8, ContinueFacts
  <2>2. Top' = [pair |-> t, step |-> "car"]
    BY <2>1 DEF Top
  <2>3. Words' = Words
    BY <1>3, SegmentStays DEF CallStep
  <2> QED
    BY <1>10, <2>1, <2>2, <2>3 DEF TextAndRest, Doomed
<1> QED
  BY <1>9, <1>10

LEMMA EndListKeepsText ==
  ASSUME Inv, TextInv, Acyclic(segment), EndList
  PROVE  TextAndRest'
<1>1. /\ segment \in Segments /\ stack \in Seq(Calls) /\ text \in Row /\ TextAndRest
  BY DEF Inv, StateType, TextInv
<1>2. /\ Running("cdr") /\ Cdr \in Words /\ words[Cdr].kind = "EMPTY_PTR"
      /\ stack' = Pop /\ text' = Append(text, <<")", Cdr>>)
  BY DEF EndList
<1>3. CallStep /\ pc = "printing" /\ stack # << >> /\ Top.step = "cdr"
  BY <1>2 DEF EndList, CallStep, Running
<1>4. ~Doomed
  BY <1>3 DEF Doomed
<1>5. PICK p \in Words : p = Top.pair
  BY <1>3, <1>4, NotDoomed
<1>6. PICK w \in Int : w = p + 1 /\ w = Cdr
  BY <1>1, <1>5, SegmentFacts DEF Cdr
<1>7. PICK rest : IsRest(rest) /\ Joins(text, rest[Len(stack)], Scripts)
  BY <1>1, <1>3, <1>4 DEF TextAndRest, Joins
<1>8. PICK x \in Row : x = <<<<")", w>>>>
  BY EntryFacts, RowFacts
<1>9. Part(Top) = x
  BY <1>2, <1>3, <1>5, <1>6, <1>8 DEF Part, CdrReading, Refers, PointsToPair
<1>10. Joins(text, x, text')
  BY <1>1, <1>2, <1>6, <1>8, EntryFacts, RowFacts DEF Joins
<1> QED
  BY <1>1, <1>2, <1>3, <1>7, <1>9, <1>10, Return DEF Joins

LEMMA EndImproperKeepsText ==
  ASSUME Inv, TextInv, Acyclic(segment), EndImproper
  PROVE  TextAndRest'
<1>1. /\ segment \in Segments /\ stack \in Seq(Calls) /\ text \in Row /\ TextAndRest
  BY DEF Inv, StateType, TextInv
<1>2. /\ Running("cdr") /\ IsAtom(Cdr) /\ words[Cdr].kind # "EMPTY_PTR" /\ stack' = Pop
      /\ text' = text \o <<<<".", Cdr>>, <<"atom", Cdr>>, <<")", Cdr>>>>
  BY DEF EndImproper
<1>3. CallStep /\ pc = "printing" /\ stack # << >> /\ Top.step = "cdr"
  BY <1>2 DEF EndImproper, CallStep, Running
<1>4. ~Doomed
  BY <1>3 DEF Doomed
<1>5. PICK p \in Words : p = Top.pair
  BY <1>3, <1>4, NotDoomed
<1>6. PICK w \in Int : w = p + 1 /\ w = Cdr
  BY <1>1, <1>5, SegmentFacts DEF Cdr
<1>7. PICK rest : IsRest(rest) /\ Joins(text, rest[Len(stack)], Scripts)
  BY <1>1, <1>3, <1>4 DEF TextAndRest, Joins
<1>8. PICK x \in Row : x = <<<<".", w>>, <<"atom", w>>, <<")", w>>>>
  BY EntryFacts, RowFacts
<1>9. ~Refers(w)
  BY <1>2, <1>6, AtomIsNoPair DEF Refers
<1>10. Part(Top) = x
  BY <1>2, <1>3, <1>5, <1>6, <1>8, <1>9 DEF Part, CdrReading
<1>11. Joins(text, x, text')
  BY <1>2, <1>6, <1>8 DEF Joins
<1> QED
  BY <1>1, <1>2, <1>3, <1>7, <1>10, <1>11, Return

(* What a script at p reads as. *)
ScriptOf(p) == <<<<"(", p>>>> \o Reading[p]

LEMMA ScriptsOfHeads ==
  ASSUME segment \in Segments, Acyclic(segment), heads \in Seq(Words)
  PROVE  /\ \A p \in Words : ScriptOf(p) \in Row
         /\ [i \in DOMAIN heads |-> ScriptOf(heads[i])] \in Seq(Row)
         /\ Scripts = FlattenSeq([i \in DOMAIN heads |-> ScriptOf(heads[i])])
<1>1. ASSUME NEW p \in Words PROVE ScriptOf(p) \in Row
  <2>1. p \in Int
    BY SegmentFacts
  <2>2. <<<<"(", p>>>> \in Row
    BY <2>1, EntryFacts, RowFacts
  <2>3. Reading[p] \in Row
    BY ReadingType
  <2> QED
    BY <2>2, <2>3, RowFacts DEF ScriptOf
<1>2. DOMAIN heads = 1 .. Len(heads) /\ Len(heads) \in Nat /\ \A i \in DOMAIN heads : heads[i] \in Words
  OBVIOUS
<1>3. PICK ss : ss = [i \in 1 .. Len(heads) |-> ScriptOf(heads[i])]
  OBVIOUS
<1>4. ss \in [1 .. Len(heads) -> Row]
  BY <1>1, <1>2, <1>3
<1>5. ss \in Seq(Row)
  <2> DEFINE R == Row
  <2> HIDE DEF R
  <2>1. ss \in [1 .. Len(heads) -> R]
    BY <1>4 DEF R
  <2>2. ss \in Seq(R)
    BY <1>2, <2>1
  <2> QED
    BY <2>2 DEF R
<1>6. Scripts = FlattenSeq([i \in DOMAIN heads |-> ScriptOf(heads[i])])
  BY DEF Scripts, ScriptOf
<1> QED
  BY <1>1, <1>2, <1>3, <1>5, <1>6

LEMMA NewScript ==
  ASSUME Inv, TextInv, Acyclic(segment), StartScript
  PROVE  /\ heads' \in Seq(Words)
         /\ Joins(Scripts, ScriptOf(at), Scripts')
         /\ Scripts \in Row
<1>1. /\ segment \in Segments /\ heads \in Seq(Words) /\ at \in Words
      /\ heads' = Append(heads, at) /\ segment' = segment
  BY DEF Inv, StateType, TextInv, StartScript
<1>2. PICK ss \in Seq(Row) : ss = [i \in DOMAIN heads |-> ScriptOf(heads[i])]
  BY <1>1, ScriptsOfHeads
<1>3. PICK s \in Row : s = ScriptOf(at)
  BY <1>1, ScriptsOfHeads
<1>4. PICK h : h = heads'
  OBVIOUS
<1>5. heads \in Seq(Words) /\ h = Append(heads, at)
  BY <1>1, <1>4
<1>6. h \in Seq(Words)
  <2> DEFINE W == Words
  <2> HIDE DEF W
  <2>1. heads \in Seq(W) /\ at \in W
    BY <1>1 DEF W
  <2>2. h \in Seq(W)
    BY <1>5, <2>1
  <2> QED
    BY <2>2 DEF W
<1>7. /\ Len(heads) \in Nat /\ DOMAIN heads = 1 .. Len(heads)
      /\ DOMAIN h = 1 .. Len(heads) + 1
      /\ h[Len(heads) + 1] = at /\ \A i \in 1 .. Len(heads) : h[i] = heads[i]
  <2> DEFINE W == Words
  <2> HIDE DEF W
  <2>1. heads \in Seq(W) /\ at \in W
    BY <1>1 DEF W
  <2> QED
    BY <1>5, <2>1
<1>8. [i \in DOMAIN h |-> ScriptOf(h[i])] = Append(ss, s)
  <2> DEFINE R == Row
  <2> HIDE DEF R
  <2>1. ss \in Seq(R) /\ s \in R
    BY <1>2, <1>3 DEF R
  <2>2. PICK n \in Nat : n = Len(heads)
    BY <1>7
  <2>3. PICK tt : tt = [i \in 1 .. n + 1 |-> ScriptOf(h[i])]
    OBVIOUS
  <2>4. DOMAIN ss = 1 .. n /\ \A i \in 1 .. n : ss[i] = ScriptOf(heads[i])
    BY <1>2, <1>7, <2>2
  <2>5. Len(ss) = n
    BY <2>1, <2>2, <2>4
  <2>6. Append(ss, s) \in Seq(R) /\ Len(Append(ss, s)) = n + 1
        /\ Append(ss, s)[n + 1] = s /\ \A i \in 1 .. n : Append(ss, s)[i] = ss[i]
    BY <2>1, <2>2, <2>5
  <2>7. DOMAIN Append(ss, s) = 1 .. n + 1
    BY <2>2, <2>6
  <2>8. \A i \in 1 .. n + 1 : tt[i] = Append(ss, s)[i]
    <3> TAKE i \in 1 .. n + 1
    <3>1. tt[i] = ScriptOf(h[i])
      BY <2>3
    <3>2. CASE i = n + 1
      BY <1>3, <1>7, <2>2, <2>6, <3>1, <3>2
    <3>3. CASE i # n + 1
      <4>1. i \in 1 .. n
        BY <2>2, <3>3
      <4> QED
        BY <1>7, <2>2, <2>4, <2>6, <3>1, <4>1
    <3> QED
      BY <3>2, <3>3
  <2>9. PICK uu : uu = Append(ss, s)
    OBVIOUS
  <2>10. uu = [i \in 1 .. n + 1 |-> uu[i]]
    <3>1. uu \in Seq(R) /\ Len(uu) = n + 1
      BY <2>6, <2>9
    <3>2. uu \in [1 .. n + 1 -> R]
      BY <3>1
    <3> QED
      BY <3>2
  <2>11. uu = tt
    BY <2>3, <2>8, <2>9, <2>10
  <2> QED
    BY <1>7, <2>2, <2>3, <2>9, <2>11
<1>9. Scripts' = FlattenSeq([i \in DOMAIN h |-> ScriptOf(h[i])])
  <2>1. Reading' = Reading
    BY <1>1, ReadingStays
  <2> QED
    BY <1>4, <2>1 DEF Scripts, ScriptOf
<1>10. FlattenSeq(Append(ss, s)) = FlattenSeq(ss) \o s /\ FlattenSeq(ss) \in Row
  <2>1. ss \in Seq(Seq(Entry)) /\ s \in Seq(Entry)
    BY <1>2, <1>3 DEF Row
  <2>2. FlattenSeq(Append(ss, s)) = FlattenSeq(ss) \o s
    BY <2>1, FlattenAppend
  <2>3. FlattenSeq(ss) \in Seq(Entry)
    BY <2>1, FlattenType
  <2> QED
    BY <2>2, <2>3 DEF Row
<1>11. Scripts = FlattenSeq(ss)
  BY <1>1, <1>2, ScriptsOfHeads
<1> QED
  BY <1>3, <1>4, <1>6, <1>8, <1>9, <1>10, <1>11 DEF Joins

LEMMA StartScriptKeepsText ==
  ASSUME Inv, TextInv, Acyclic(segment), StartScript
  PROVE  TextAndRest'
<1>1. /\ segment \in Segments /\ text \in Row /\ TextAndRest /\ at \in Words
  BY DEF Inv, StateType, TextInv, StartScript
<1>2. /\ stack = << >> /\ pc = "printing" /\ segment' = segment
      /\ stack' = <<[pair |-> at, step |-> "car"]>>
      /\ text' = Append(text, <<"(", at>>)
  BY DEF StartScript, Call
<1>3. text = Scripts
  <2>1. PICK rest : IsRest(rest) /\ text \o rest[Len(stack)] = Scripts
    BY <1>1, <1>2 DEF TextAndRest, Doomed
  <2>2. rest[Len(stack)] = << >>
    BY <1>2, <2>1 DEF IsRest
  <2> QED
    BY <1>1, <2>1, <2>2, RowFacts
<1>4. PICK y \in Row : y = Reading[at]
  BY <1>1, ReadingType
<1>5. PICK x \in Row : x = <<<<"(", at>>>>
  <2>1. at \in Int
    BY <1>1, SegmentFacts
  <2> QED
    BY <2>1, EntryFacts, RowFacts
<1>6. PICK e \in Row : e = << >>
  BY RowFacts
<1>7. PICK rest : rest = [i \in 0 .. 1 |-> IF i = 0 THEN e ELSE y]
  OBVIOUS
<1>8. rest[0] = << >> /\ rest[1] = y
  BY <1>6, <1>7
<1>9. IsRest(rest)'
  <2>1. PICK c : c = [pair |-> at, step |-> "car"]
    OBVIOUS
  <2>2. Len(stack') = 1 /\ stack'[1] = c
    BY <1>2, <2>1
  <2>3. Part(c) = y
    BY <1>4, <2>1 DEF Part
  <2>4. y = y \o rest[0]
    BY <1>8, RowFacts
  <2>5. \A i \in 1 .. Len(stack') : \A d : d = stack'[i] => rest[i] = Part(d) \o rest[i - 1]
    <3> SUFFICES ASSUME NEW i \in 1 .. 1, NEW d, d = stack'[i]
                 PROVE  rest[i] = Part(d) \o rest[i - 1]
      BY <2>2
    <3>1. i = 1 /\ i - 1 = 0 /\ d = c
      BY <2>2
    <3> QED
      BY <1>8, <2>3, <2>4, <3>1
  <2>6. \A i \in 0 .. Len(stack') : rest[i] \in Row
    <3> SUFFICES ASSUME NEW i \in 0 .. 1 PROVE rest[i] \in Row
      BY <2>2
    <3>1. i = 0 \/ i = 1
      OBVIOUS
    <3> QED
      BY <1>6, <1>8, <3>1
  <2> QED
    BY <1>2, <1>8, <2>5, <2>6, RestNext
<1>10. Joins(text', y, Scripts')
  <2>1. PICK t \in Row : t = text
    BY <1>1
  <2>2. PICK s : s = ScriptOf(at)
    OBVIOUS
  <2>3. Joins(x, y, s)
    BY <1>4, <1>5, <2>2 DEF ScriptOf, Joins
  <2>4. Joins(t, x, text')
    <3>1. at \in Int
      BY <1>1, SegmentFacts
    <3> QED
      BY <1>2, <1>5, <2>1, <3>1, EntryFacts, RowFacts DEF Joins
  <2>5. Joins(t, s, Scripts')
    BY <1>3, <2>1, <2>2, NewScript
  <2> QED
    BY <2>3, <2>4, <2>5, JoinsAssoc
<1>11. text' \o rest[Len(stack')] = Scripts'
  <2>1. Len(stack') = 1
    BY <1>2
  <2> QED
    BY <1>8, <1>10, <2>1 DEF Joins
<1> QED
  BY <1>9, <1>11 DEF TextAndRest

-----------------------------------------------------------------------------

(* What is printed is a row; scripts are started at words. *)
LEMMA CallsKeepRow ==
  ASSUME Inv, TextInv, PrintScripts, ~StartScript
  PROVE  text' \in Row
<1>1. /\ segment \in Segments /\ stack \in Seq(Calls) /\ text \in Row
      /\ \A w \in Words : w \in Int
  BY SegmentFacts DEF Inv, StateType, TextInv
<1>2. CASE PrintCar
  <2>1. PICK w \in Int : w = Top.pair
    BY <1>1, <1>2, TopFacts DEF PrintCar
  <2> QED
    BY <1>1, <1>2, <2>1, EntryFacts, RowFacts DEF PrintCar
<1>3. CASE PrintSublist
  <2>1. PICK t \in Int : t = Target(Top.pair)
    BY <1>1, <1>3, SegmentFacts DEF PrintSublist
  <2> QED
    BY <1>1, <1>3, <2>1, EntryFacts, RowFacts DEF PrintSublist
<1>4. CASE EndList
  <2>1. PICK w \in Int : w = Cdr
    BY <1>1, <1>4 DEF EndList
  <2> QED
    BY <1>1, <1>4, <2>1, EntryFacts, RowFacts DEF EndList
<1>5. CASE EndImproper
  <2>1. IsAtom(Cdr) /\ text' = text \o <<<<".", Cdr>>, <<"atom", Cdr>>, <<")", Cdr>>>>
    BY <1>5 DEF EndImproper
  <2>2. PICK w \in Int : w = Cdr
    BY <1>1, <2>1, AtomIsNoPair
  <2>3. <<<<".", w>>, <<"atom", w>>, <<")", w>>>> \in Row
    BY EntryFacts, RowFacts
  <2> QED
    BY <1>1, <2>1, <2>2, <2>3, RowFacts
<1>6. CASE NoScript \/ Mark \/ NextPair \/ Unprintable \/ Done
  <2>1. text' = text
    BY <1>6 DEF NoScript, Mark, NextPair, Unprintable, Done, Abort
  <2> QED
    BY <1>1, <2>1
<1> QED
  BY <1>2, <1>3, <1>4, <1>5, <1>6 DEF PrintScripts

(* A step that leaves the calls and what is printed alone. *)
LEMMA SameText ==
  ASSUME TextInv, UNCHANGED <<segment, stack, heads, text>>, pc' = "printing" => pc = "printing"
  PROVE  TextInv'
<1>1. /\ words' = words /\ Words' = Words /\ Scripts' = Scripts
      /\ \A c : Part(c)' = Part(c)
  BY SegmentStays, PartStays
<1>2. Acyclic(segment)' <=> Acyclic(segment)
  BY DEF Acyclic, Ranks, RefersTo
<1>3. Doomed' <=> Doomed
  BY <1>1 DEF Doomed, Top
<1>4. ASSUME NEW rest, IsRest(rest) PROVE IsRest(rest)'
  <2>1. \A i \in 1 .. Len(stack') : \A c : c = stack'[i] => rest[i] = Part(c) \o rest[i - 1]
    BY <1>4 DEF IsRest
  <2>2. rest[0] = << >> /\ \A i \in 0 .. Len(stack') : rest[i] \in Row
    BY <1>4 DEF IsRest
  <2> QED
    BY <2>1, <2>2, RestNext
<1>5. TextAndRest => TextAndRest'
  BY <1>1, <1>3, <1>4 DEF TextAndRest
<1> QED
  BY <1>1, <1>2, <1>5 DEF TextInv

LEMMA PrintScriptsKeepsText ==
  ASSUME Inv, TextInv, PrintScripts
  PROVE  TextInv'
<1>1. segment' = segment /\ Words' = Words /\ (Acyclic(segment)' <=> Acyclic(segment))
  <2>1. segment' = segment
    BY DEF PrintScripts, StartScript, NoScript, PrintCar, PrintSublist, Mark, EndList,
           NextPair, EndImproper, Unprintable, Done, Abort
  <2> QED
    BY <2>1, SegmentStays
<1>2. CASE StartScript
  <2>1. text' \in Row
    <3>1. text \in Row /\ at \in Words /\ segment \in Segments
      BY <1>2 DEF Inv, StateType, TextInv, StartScript
    <3>2. at \in Int
      BY <3>1, SegmentFacts
    <3> QED
      BY <1>2, <3>1, <3>2, EntryFacts, RowFacts DEF StartScript
  <2>2. heads' \in Seq(Words)
    <3> DEFINE W == Words
    <3>1. heads \in Seq(W) /\ at \in W /\ heads' = Append(heads, at)
      BY <1>2 DEF TextInv, StartScript
    <3> HIDE DEF W
    <3>2. heads' \in Seq(W)
      BY <3>1
    <3> QED
      BY <3>2 DEF W
  <2>3. Acyclic(segment) => TextAndRest'
    BY <1>2, StartScriptKeepsText
  <2> QED
    BY <1>1, <2>1, <2>2, <2>3 DEF TextInv
<1>3. CASE PrintCar \/ PrintSublist \/ Mark \/ EndList \/ NextPair \/ EndImproper
  <2>1. text' \in Row
    <3>1. ~StartScript
      BY <1>3 DEF StartScript, PrintCar, PrintSublist, Mark, EndList, NextPair, EndImproper,
                  Running
    <3> QED
      BY <3>1, CallsKeepRow
  <2>2. heads' = heads
    BY <1>3 DEF PrintCar, PrintSublist, Mark, EndList, NextPair, EndImproper
  <2>3. Acyclic(segment) => TextAndRest'
    BY <1>3, PrintCarKeepsText, PrintSublistKeepsText, MarkKeepsText, EndListKeepsText,
       NextPairKeepsText, EndImproperKeepsText
  <2> QED
    BY <1>1, <2>1, <2>2, <2>3 DEF TextInv
<1>4. CASE NoScript \/ Unprintable \/ Done
  BY <1>4, SameText DEF NoScript, Unprintable, Done, Abort
<1> QED
  BY <1>2, <1>3, <1>4 DEF PrintScripts

LEMMA ScriptStepKeepsText ==
  ASSUME Inv, TextInv, [ScriptNext]_allVars
  PROVE  TextInv'
<1>1. CASE ReadScripts
  BY <1>1, PrintScriptsKeepsText DEF ReadScripts
<1>2. CASE UNCHANGED vars
  <2>1. UNCHANGED <<segment, stack, heads, text>> /\ pc' = pc
    BY <1>2 DEF vars
  <2> QED
    BY <2>1, SameText
<1>3. CASE Crash
  BY <1>3, SameText DEF Crash, Abort
<1>4. PrintForm \/ LayOutForm \/ FormPrinted \/ ScriptsFinished \/ UNCHANGED allVars => UNCHANGED vars
  BY DEF PrintForm, LayOutForm, FormPrinted, ScriptsFinished, allVars
<1> QED
  BY <1>1, <1>2, <1>3, <1>4 DEF ScriptNext

LEMMA InitGivesText ==
  ASSUME Init
  PROVE  TextInv
<1>1. stack = << >> /\ heads = << >> /\ text = << >>
  BY DEF Init
<1>2. heads \in Seq(Words) /\ text \in Row
  BY <1>1, RowFacts
<1>3. Scripts = << >>
  <2>1. [i \in DOMAIN heads |-> <<<<"(", heads[i]>>>> \o Reading[heads[i]]] = << >>
    BY <1>1
  <2> QED
    BY <2>1, FlattenEmpty DEF Scripts
<1>4. PICK rest : rest = [i \in 0 .. 0 |-> << >>]
  OBVIOUS
<1>5. rest[0] = << >> /\ Len(stack) = 0
  BY <1>1, <1>4
<1>6. IsRest(rest)
  <2>1. \A i \in 1 .. Len(stack) : FALSE
    BY <1>5
  <2>2. \A i \in 0 .. Len(stack) : rest[i] \in Row
    BY <1>5, RowFacts
  <2> QED
    BY <1>5, <2>1, <2>2 DEF IsRest
<1>7. text \o rest[Len(stack)] = Scripts
  BY <1>1, <1>3, <1>5, RowFacts
<1> QED
  BY <1>2, <1>6, <1>7 DEF TextInv, TextAndRest

(***************************************************************************)
(* print_scripts between two scripts, on every segment whose pairs are not *)
(* in a cycle: it has printed what the lists read as by their structure,   *)
(* whatever tails or sublists they share.                                  *)
(***************************************************************************)
THEOREM ScriptsAreReadings == ScriptSpec => [](Acyclic(segment) => TextIsReading)
<1>1. ScriptInit => Inv /\ TextInv
  BY InitGivesInv, InitGivesText DEF ScriptInit
<1>2. (Inv /\ TextInv) /\ [ScriptNext]_allVars => (Inv /\ TextInv)'
  BY ScriptStepKeepsInv, ScriptStepKeepsText
<1>3. Inv /\ TextInv => (Acyclic(segment) => TextIsReading)
  <2> SUFFICES ASSUME TextInv, Acyclic(segment), pc = "printing", stack = << >>
               PROVE  text = Scripts
    BY DEF TextIsReading
  <2>1. PICK rest : IsRest(rest) /\ text \o rest[Len(stack)] = Scripts
    BY DEF TextInv, TextAndRest, Doomed
  <2>2. rest[Len(stack)] = << >>
    BY <2>1 DEF IsRest
  <2> QED
    BY <2>1, <2>2, RowFacts DEF TextInv
<1> QED
  BY <1>1, <1>2, <1>3, PTL DEF ScriptSpec
=============================================================================
