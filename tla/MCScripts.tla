----------------------------- MODULE MCScripts -----------------------------
(* Segments of three pairs and a string of one word; lists of symbols of up *)
(* to three levels, with a limit they exceed; a deftype.                    *)
EXTENDS ScriptPrinter

MCSpelling == [deftype |-> 1, a |-> 1, abcd |-> 4]

Word(kind, value) == [kind |-> kind, value |-> value]
Ptr(to) == Word("PTR", to)
Symbol(s) == Word("SYM_PTR", s)
Empty == Word("EMPTY_PTR", 0)
Pair(w) == 4 * w + 2

(* Labels come from the words, and some may be referred to by code. *)
Segment(ws, others) ==
  [words |-> ws,
   labels |-> others \cup {ws[w].value : w \in {v \in DOMAIN ws : ws[v].kind = "PTR"}}]

-----------------------------------------------------------------------------
(* Any pairs *)

String == (6 :> Word("STRING_TYPE", 0)) @@ (7 :> Word("PLAIN_DATA", 4)) @@
          (8 :> Word("PLAIN_DATA", 65))

(* A string whose length goes past the segment, and an array of strings. *)
LongString == (6 :> Word("STRING_TYPE", 0)) @@ (7 :> Word("PLAIN_DATA", 5)) @@
              (8 :> Word("PLAIN_DATA", 65))
NoString == (6 :> Word("STRING_TYPE", 0)) @@ (7 :> Ptr(28)) @@ (8 :> Word("PLAIN_DATA", 0))

Objects == {Empty, Symbol("a"), Ptr(Pair(0)), Ptr(Pair(2)), Ptr(Pair(4))}

RefersTo(ws, p, q) == \E w \in {p, p + 1} : ws[w] = Ptr(Pair(q))

Acyclic(ws) ==
  /\ \A p \in {0, 2, 4} : ~RefersTo(ws, p, p)
  /\ \A p, q \in {0, 2, 4} : RefersTo(ws, p, q) => ~RefersTo(ws, q, p)
  /\ ~(RefersTo(ws, 0, 2) /\ RefersTo(ws, 2, 4) /\ RefersTo(ws, 4, 0))
  /\ ~(RefersTo(ws, 0, 4) /\ RefersTo(ws, 4, 2) /\ RefersTo(ws, 2, 0))

Pairs == {ws \in [0 .. 5 -> Objects] : Acyclic(ws)}

(* Pointers to the string, to data and past the segment, and words that     *)
(* cannot be printed.                                                       *)
Odd == {Ptr(28), Word("TYPE_PTR", 0), Word("PLAIN_DATA", 3), Ptr(42), Ptr(24), Ptr(100)}

FewPairs == {ws \in Pairs : ws[1] = Empty /\ ws[3] = Empty}

PairSegments ==
  {Segment(ws @@ String, others) : ws \in Pairs, others \in {{}, {Pair(0)}}}
    \cup {Segment([ws EXCEPT ![i] = x] @@ s, {Pair(0), Pair(1)}) :
            ws \in FewPairs, i \in 0 .. 5, x \in Odd, s \in {String, LongString, NoString}}

-----------------------------------------------------------------------------
(* Lists, in lists *)

Join(a, b) == [kind |-> "PAIR", car |-> a, cdr |-> b]
Atoms == {Symbol("a"), Symbol("abcd")}

(* Lists of one to three elements. *)
One(S) == {Join(a, Empty) : a \in S}
Two(S) == {Join(a, b) : a \in S, b \in One(S)}
Three(S) == {Join(a, b) : a \in S, b \in Two(S)}

A == Symbol("a")
Flat == One(Atoms) \cup Two(Atoms) \cup {Join(A, Symbol("abcd"))}
Items == Atoms \cup {Empty, Join(A, Empty), Join(A, Symbol("abcd"))} \cup Two(Atoms)
Nested == One(Items) \cup Two(Items) \cup Three(Atoms \cup {Empty})
            \cup {Join(a, b) : a \in Flat, b \in Atoms}
Deep == One(Nested) \cup {Join(a, b) : a \in Nested, b \in One(Atoms)}
                    \cup {Join(a, b) : a \in Atoms, b \in One(Nested)}

(* (deftype name (parent) ...), and other lists with the symbol. *)
Fields == {Empty} \cup One(Items) \cup Two(Items) \cup Three(Atoms)
Rest == {Join(A, Join(Join(A, Empty), t)) : t \in Fields}
Types == {Join(Symbol("deftype"), t) : t \in Rest \cup {Empty} \cup One(Items) \cup Two(Items)}

(* Lists in lists, deeper than the limit. *)
Nest[k \in 0 .. 9] == IF k = 0 THEN A ELSE Join(Nest[k - 1], Empty)
NestFirst[k \in 0 .. 9] == IF k = 0 THEN A ELSE Join(NestFirst[k - 1], Join(A, Empty))
NestSecond[k \in 0 .. 9] == IF k = 0 THEN A ELSE Join(A, Join(NestSecond[k - 1], Empty))
Towers == UNION {{Nest[k], NestFirst[k], NestSecond[k]} : k \in 1 .. 9}

(* The words of a list laid out from word w on, each pair before what it    *)
(* refers to.                                                               *)
RECURSIVE Layout(_, _)
Layout(f, w) ==
  LET car == IF f.car.kind = "PAIR" THEN Layout(f.car, w + 2) ELSE << >>
      next == w + 2 + Len(car)
      cdr == IF f.cdr.kind = "PAIR" THEN Layout(f.cdr, next) ELSE << >>
  IN <<IF f.car.kind = "PAIR" THEN Ptr(Pair(w + 2)) ELSE f.car,
       IF f.cdr.kind = "PAIR" THEN Ptr(Pair(next)) ELSE f.cdr>> \o car \o cdr

ListSegments ==
  {LET ws == Layout(f, 0) IN Segment([w \in 0 .. Len(ws) - 1 |-> ws[w + 1]], {Pair(0)}) :
     f \in Nested \cup Deep \cup Towers \cup Types}

MCSegments == PairSegments \cup ListSegments
=============================================================================
