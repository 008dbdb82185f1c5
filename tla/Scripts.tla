------------------------------ MODULE Scripts ------------------------------
(***************************************************************************)
(* print_scripts of LinkedObjectFile.cpp over one segment: it looks for    *)
(* words that something refers to as a pair and prints the list that       *)
(* starts there, with the lists in it, unless it was printed as part of    *)
(* another before.  to_form_script calls itself through                    *)
(* to_form_script_object; here its calls are a stack.                      *)
(*                                                                         *)
(* A pair is two words, its car and its cdr; a pointer to it is the        *)
(* address of the car plus 2, which is 2 modulo 8.  Pointers stay in the   *)
(* segment (pointer_link_word labels no other).  An atom is printed as the *)
(* word that holds it.  A word outside the segment, or of a kind that      *)
(* cannot be printed, ends the program.                                    *)
(***************************************************************************)
EXTENDS Integers, Sequences, FiniteSets, SequencesExt

CONSTANTS
  Segments   \* the segments to print: [words, labels]; a word is [kind, value],
             \* where the value of a PTR is the offset of its label and that of a
             \* SYM_PTR the symbol

ASSUME SegmentsAssumption ==
  \A s \in Segments :
    /\ IsFiniteSet(DOMAIN s.words)
    /\ DOMAIN s.words = 0 .. Cardinality(DOMAIN s.words) - 1
    /\ s.labels \subseteq Int
    /\ \A w \in DOMAIN s.words : s.words[w].kind = "PTR" => s.words[w].value \in s.labels

VARIABLES
  segment,
  at,       \* print_scripts: the next word to look at
  seen,     \* already_printed
  stack,    \* to_form_script: the calls, each at a pair, with the step it is at
  heads,    \* the pairs scripts were started at
  text,     \* what is printed: sequence of <<"(" or ")" or "." or "atom", word>>
  pc

vars == <<segment, at, seen, stack, heads, text, pc>>

words == segment.words
Words == DOMAIN words

Init ==
  /\ segment \in Segments
  /\ at = 0
  /\ seen = {}
  /\ stack = << >>
  /\ heads = << >>
  /\ text = << >>
  /\ pc = "printing"

-----------------------------------------------------------------------------
(* Reading words *)

IsPair(offset) == offset % 8 = 2

WordOf(offset) == offset \div 4

PointsToPair(w) == words[w].kind = "PTR" /\ IsPair(words[w].value)

Target(w) == WordOf(words[w].value)

(***************************************************************************)
(* A string is a type tag, a length in bytes and the characters.  Printing *)
(* one stops at the first word of it that is not plain data; the length    *)
(* may go past the end of the segment.                                     *)
(***************************************************************************)
IsString(offset) ==
  /\ offset % 4 = 0
  /\ WordOf(offset) - 1 \in Words
  /\ words[WordOf(offset) - 1].kind = "STRING_TYPE"

StringOverruns(w) ==
  /\ w \in Words
  /\ words[w].kind = "PLAIN_DATA"
  /\ \E i \in 1 .. (words[w].value + 3) \div 4 :
       /\ w + i \notin Words
       /\ \A j \in 1 .. i - 1 : words[w + j].kind = "PLAIN_DATA"

(* What to_form_script_object prints without calling to_form_script. *)
IsAtom(w) ==
  /\ w \in Words
  /\ \/ words[w].kind \in {"SYM_PTR", "PLAIN_DATA", "EMPTY_PTR"}
     \/ /\ words[w].kind = "PTR"
        /\ ~IsPair(words[w].value)
        /\ IsString(words[w].value) => ~StringOverruns(WordOf(words[w].value))

-----------------------------------------------------------------------------

Abort == pc' = "aborted" /\ UNCHANGED <<segment, at, seen, stack, heads, text>>

Top == stack[Len(stack)]

Pop == SubSeq(stack, 1, Len(stack) - 1)

Call(pair) == [pair |-> pair, step |-> "car"]

(* The running call goes on with another step, or another pair. *)
Continue(pair, step) == stack' = [stack EXCEPT ![Len(stack)] = [pair |-> pair, step |-> step]]

(* Mutant: a pair is a head whether it was printed or not. *)
IsHeadAgain(w) == 4 * w + 2 \in segment.labels /\ IsPair(4 * w + 2)

(* A label makes a word the head of a list, if it was not printed before. *)
IsHead(w) == 4 * w + 2 \in segment.labels /\ IsPair(4 * w + 2) /\ w \notin seen

StartScript ==
  /\ pc = "printing"
  /\ stack = << >>
  /\ at \in Words
  /\ IsHead(at)
  /\ stack' = <<Call(at)>>
  /\ heads' = Append(heads, at)
  /\ text' = Append(text, <<"(", at>>)
  /\ at' = at + 1
  /\ UNCHANGED <<segment, seen, pc>>

NoScript ==
  /\ pc = "printing"
  /\ stack = << >>
  /\ at \in Words
  /\ ~IsHead(at)
  /\ at' = at + 1
  /\ UNCHANGED <<segment, seen, stack, heads, text, pc>>

Running(step) == pc = "printing" /\ stack # << >> /\ Top.step = step

(* The car is an atom, or a list for another call to print. *)
PrintCar ==
  LET w == Top.pair
  IN /\ Running("car")
     /\ IsAtom(w)
     /\ text' = Append(text, <<"atom", w>>)
     /\ Continue(w, "mark")
     /\ UNCHANGED <<segment, at, seen, heads, pc>>

(* Mutant: the outer list is not gone back to. *)
DescendForGood(pair) == stack' = [stack EXCEPT ![Len(stack)] = Call(pair)]

Descend(pair) == stack' = Append([stack EXCEPT ![Len(stack)].step = "mark"], Call(pair))

PrintSublist ==
  LET w == Top.pair
  IN /\ Running("car")
     /\ w \in Words
     /\ PointsToPair(w)
     /\ text' = Append(text, <<"(", Target(w)>>)
     /\ Descend(Target(w))
     /\ UNCHANGED <<segment, at, seen, heads, pc>>

Mark == /\ Running("mark")
        /\ seen' = seen \cup {Top.pair}
        /\ Continue(Top.pair, "cdr")
        /\ UNCHANGED <<segment, at, heads, text, pc>>

Cdr == Top.pair + 1

EndList ==
  /\ Running("cdr")
  /\ Cdr \in Words
  /\ words[Cdr].kind = "EMPTY_PTR"
  /\ text' = Append(text, <<")", Cdr>>)
  /\ stack' = Pop
  /\ UNCHANGED <<segment, at, seen, heads, pc>>

NextPair ==
  /\ Running("cdr")
  /\ Cdr \in Words
  /\ PointsToPair(Cdr)
  /\ Continue(Target(Cdr), "car")
  /\ UNCHANGED <<segment, at, seen, heads, text, pc>>

(* An improper list ends with an object. *)
EndImproper ==
  /\ Running("cdr")
  /\ IsAtom(Cdr)
  /\ words[Cdr].kind # "EMPTY_PTR"
  /\ text' = text \o <<<<".", Cdr>>, <<"atom", Cdr>>, <<")", Cdr>>>>
  /\ stack' = Pop
  /\ UNCHANGED <<segment, at, seen, heads, pc>>

Unprintable ==
  /\ \/ Running("car") /\ ~IsAtom(Top.pair)
                       /\ ~(Top.pair \in Words /\ PointsToPair(Top.pair))
     \/ Running("cdr") /\ ~IsAtom(Cdr) /\ ~(Cdr \in Words /\ PointsToPair(Cdr))
  /\ Abort

Done == /\ pc = "printing"
        /\ stack = << >>
        /\ at \notin Words
        /\ pc' = "done"
        /\ UNCHANGED <<segment, at, seen, stack, heads, text>>

PrintScripts ==
  \/ StartScript \/ NoScript \/ PrintCar \/ PrintSublist \/ Mark
  \/ EndList \/ NextPair \/ EndImproper \/ Unprintable
  \/ Done

-----------------------------------------------------------------------------
(* Properties *)

(* A word of the segment that refers to a pair of it. *)
Refers(w) == w \in Words /\ PointsToPair(w) /\ Target(w) \in Words

(***************************************************************************)
(* What a list reads as, by its structure: after its "(" its car, an atom  *)
(* or a list, and then the rest of it.  For segments whose pairs are not   *)
(* in a cycle.                                                             *)
(***************************************************************************)
Reading[p \in Words] ==
  (IF Refers(p) THEN <<<<"(", Target(p)>>>> \o Reading[Target(p)] ELSE <<<<"atom", p>>>>)
    \o (IF Refers(p + 1) THEN Reading[Target(p + 1)]
        ELSE IF words[p + 1].kind = "EMPTY_PTR" THEN <<<<")", p + 1>>>>
        ELSE <<<<".", p + 1>>, <<"atom", p + 1>>, <<")", p + 1>>>>)

Scripts ==
  FlattenSeq([i \in DOMAIN heads |-> <<<<"(", heads[i]>>>> \o Reading[heads[i]]])

(***************************************************************************)
(* Between scripts, what is printed is what the lists read as, whatever    *)
(* parts they share.                                                       *)
(***************************************************************************)
TextIsReading == (pc = "printing" /\ stack = << >>) => text = Scripts

(***************************************************************************)
(* Nothing is left out: in the end every pair that something refers to has *)
(* been printed, as the head of a script or in one.                        *)
(***************************************************************************)
AllPairsPrinted ==
  pc = "done" =>
    \A w \in Words : (4 * w + 2 \in segment.labels /\ IsPair(4 * w + 2)) => w \in seen

(***************************************************************************)
(* In a segment laid out as the compiler does it, a pair before those it   *)
(* refers to, a script is started only at a pair that no pair refers to:   *)
(* no list is printed from its middle.                                     *)
(***************************************************************************)
PairWords == UNION {{i \div 4, i \div 4 + 1} : i \in {o \in segment.labels : IsPair(o)}}

LaidOutForward ==
  \A w \in Words : PointsToPair(w) => Target(w) > w

HeadsOnly ==
  LaidOutForward =>
    \A i \in DOMAIN heads : \A w \in PairWords \cap Words :
      PointsToPair(w) => Target(w) # heads[i]

(* Every list is printed, and starts a script only where it begins.        *)
ListsFromTheirHeads == AllPairsPrinted /\ HeadsOnly
=============================================================================
