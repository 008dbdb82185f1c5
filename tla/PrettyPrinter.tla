--------------------------- MODULE PrettyPrinter ---------------------------
(***************************************************************************)
(* The layout of a form (LispPrint.cpp).  A form is a row of tokens; line  *)
(* breaks are put between tokens until every line that can be made to fit  *)
(* does.  Breaks are only ever added.  ScriptPrinter says which forms are  *)
(* printed.                                                                *)
(*                                                                         *)
(* The linked list of nodes is the sequence of the tokens, numbered from   *)
(* 1, and the set of the tokens that a line break follows; 0 is nullptr.   *)
(* specialIndentDelta is 0 in all calls and is left out.  A token is its   *)
(* kind and its length.                                                    *)
(***************************************************************************)
EXTENDS Integers, Sequences, FiniteSets, FiniteSetsExt

CONSTANTS
  line_length  \* 100 in the only call

ASSUME LengthAssumption == line_length \in Nat

VARIABLES
  tokens,     \* the tokens
  paren,      \* of "(" and ")": each other; of other tokens: the "(" around
  breaks,     \* the tokens that a line separator follows
  line,       \* of each token, as it was last computed
  offset,     \* of each token, as it was last computed
  layout,     \* what is done next
  start,      \* line_to_start_line_search
  complete,   \* last_line_complete
  candidate,  \* candidate_line
  list        \* form_to_start

nodes == <<tokens, paren, breaks, line, offset>>
printer == <<nodes, layout, start, complete, candidate, list>>

-----------------------------------------------------------------------------
(* Tokens *)

Token(kind, length) == [kind |-> kind, length |-> length]
Space == Token("WHITESPACE", 1)
Open == Token("OPEN_PAREN", 1)
Close == Token("CLOSE_PAREN", 1)

(* Parentheses are attached: "(" to its ")", other tokens to the "(" around. *)
Parens(t) ==
  LET Count(token, i) == Cardinality({k \in 1 .. i : t[k] = token})
      Depth(i) == Count(Open, i) - Count(Close, i)
  IN [i \in DOMAIN t |->
        IF t[i] = Open
        THEN Min({j \in i .. Len(t) : Depth(j) = Depth(i - 1)})
        ELSE Max({0} \cup {p \in 1 .. i - 1 : t[p] = Open /\ Depth(p) = Depth(i - 1)})]

(* The length of tokens i to j. *)
Width(t, i, j) ==
  LET Sum[k \in i - 1 .. j] == IF k < i THEN 0 ELSE Sum[k - 1] + t[k].length
  IN Sum[j]

(* Nothing is being printed. *)
Idle ==
  /\ tokens = << >>
  /\ paren = << >>
  /\ breaks = {}
  /\ line = << >>
  /\ offset = << >>
  /\ layout = "idle"
  /\ start = 1
  /\ complete = 0
  /\ candidate = 0
  /\ list = 0

(* toStringPretty of a form with tokens t. *)
Begin(t) ==
  /\ layout = "idle"
  /\ tokens' = t
  /\ paren' = Parens(tokens')
  /\ breaks' = {}
  /\ line' = [i \in DOMAIN tokens' |-> 0]
  /\ offset' = [i \in DOMAIN tokens' |-> Width(tokens', 1, i - 1)]
  /\ layout' = "special"
  /\ UNCHANGED <<start, complete, candidate, list>>

(* The text is returned. *)
End ==
  /\ layout = "done"
  /\ tokens' = << >>
  /\ paren' = << >>
  /\ breaks' = {}
  /\ line' = << >>
  /\ offset' = << >>
  /\ layout' = "idle"
  /\ start' = 1
  /\ complete' = 0
  /\ candidate' = 0
  /\ list' = 0

-----------------------------------------------------------------------------
(* Walking over the nodes *)

LastNode == Len(tokens)

IsOpen(i) == tokens[i] = Open
IsClose(i) == tokens[i] = Close

(* insertNewlineAfter; nothing follows the last node. *)
BreakAfter(b, S) == b \cup (S \cap 1 .. LastNode - 1)

(* No separator and no new line number between node i and a later one. *)
SameLine(b, i, j) == \A k \in i .. j - 1 : k \notin b /\ line[k + 1] = line[i]

FirstOf(S) == IF S = {} THEN 0 ELSE Min(S)

(* getFirstListOnLine and getNextListOnLine. *)
FirstListOnLine(i) == FirstOf({j \in i .. LastNode : IsOpen(j) /\ SameLine(breaks, i, j)})
NextListOnLine(b, i) == FirstOf({j \in i + 1 .. LastNode : IsOpen(j) /\ SameLine(b, i, j)})

NextLine(i) == FirstOf({j \in i .. LastNode : line[j] # line[i]})

(* Mutant: the token that is past the limit, not its line. *)
FirstBadToken(i) == FirstOf({j \in i .. LastNode : offset[j] > line_length})

(* getFirstBadLine: the start of the line of the first token that starts    *)
(* past the limit, searching from node i.                                   *)
FirstBadLine(i) ==
  LET bad == FirstOf({j \in i .. LastNode : offset[j] > line_length})
  IN IF bad = 0 THEN 0
     ELSE Max({j \in i .. bad : j = i \/ line[j] # line[j - 1]})

-----------------------------------------------------------------------------
(* Breaks, line numbers and offsets *)

IsBroken(b, p) == \E k \in p .. paren[p] - 1 : k \in b

(* A ")" that is not on the line of its "(" gets a line of its own. *)
WithCloses(b) ==
  BreakAfter(b, UNION {{i - 1, i} : i \in {j \in DOMAIN tokens :
                                             IsClose(j) /\ IsBroken(b, paren[j])}})

(***************************************************************************)
(* The line of a token, before breaks b are completed: a ")" that has just *)
(* got a break before it keeps the number of the line it was taken from.   *)
(***************************************************************************)
LineNumbers(b, completed) ==
  LET Moved(i) == /\ IsClose(i) /\ IsBroken(b, paren[i])
                  /\ i - 1 \notin b
                  /\ ~(IsClose(i - 1) /\ IsBroken(b, paren[i - 1]))
  IN [i \in DOMAIN tokens |->
        Cardinality(completed \cap 1 .. i - 1) - (IF Moved(i) THEN 1 ELSE 0)]

(* The "(" whose list a token is in; a ")" is in its own list. *)
Enclosing(i) ==
  IF IsOpen(i) THEN Max({0} \cup {p \in 1 .. i - 1 : IsOpen(p) /\ paren[p] > i})
  ELSE paren[i]

(* The first token of the line that token i is on, with breaks b. *)
LineStart(b, i) == Max({j \in 1 .. i : j = 1 \/ j - 1 \in b})

(* Mutant: the indentation is that of the first token of the line. *)
OffsetsFromLineStart(b) ==
  LET Offset[i \in DOMAIN tokens] ==
        LET first == LineStart(b, i)
            p == Enclosing(first)
        IN Width(tokens, first, i - 1) +
             IF p = 0 THEN 0
             ELSE Offset[LineStart(b, p)] + (IF LineStart(b, p) = p THEN 2 ELSE 0)
  IN [i \in DOMAIN tokens |-> Offset[i]]

(***************************************************************************)
(* indentStack: the elements of a list are indented to its "(", and by two *)
(* if the "(" is the first token of its line.                              *)
(***************************************************************************)
Offsets(b) ==
  LET Offset[i \in DOMAIN tokens] ==
        LET first == LineStart(b, i)
            p == Enclosing(first)
        IN Width(tokens, first, i - 1) +
             IF p = 0 THEN 0 ELSE Offset[p] + (IF LineStart(b, p) = p THEN 2 ELSE 0)
  IN [i \in DOMAIN tokens |-> Offset[i]]

(* propagatePretty, after breaks; what it returns is not used. *)
PropagatePretty(newBreaks) ==
  \E b \in {newBreaks} :
    /\ breaks' = WithCloses(b)
    /\ line' = LineNumbers(b, breaks')
    /\ offset' = Offsets(breaks')
    /\ UNCHANGED <<tokens, paren>>

-----------------------------------------------------------------------------

(* The breaks of insertSpecialBreaks: after the parent list of a deftype. *)
SpecialBreaks ==
  LET Upto[i \in 0 .. LastNode] ==
        IF i = 0 THEN breaks
        ELSE LET b == Upto[i - 1]
                 parent == NextListOnLine(b, i)
             IN IF tokens[i].kind = "DEFTYPE" /\ parent # 0
                THEN BreakAfter(b, {paren[parent]})
                ELSE b
  IN Upto[LastNode]

InsertSpecialBreaks ==
  /\ layout = "special"
  /\ PropagatePretty(SpecialBreaks)
  /\ layout' = "propagate"
  /\ UNCHANGED <<start, complete, candidate, list>>

Propagate ==
  /\ layout = "propagate"
  /\ PropagatePretty(breaks)
  /\ layout' = "search"
  /\ UNCHANGED <<start, complete, candidate, list>>

(* Mutant: a line that could not be fixed is tried again. *)
CandidateAgain == FirstBadLine(start)

(* The next line to fix; not the one just treated, if it is still too long. *)
Candidate ==
  LET bad == FirstBadLine(start)
      next == NextLine(start)
  IN IF bad # complete THEN bad
     ELSE IF next = 0 THEN 0 ELSE FirstBadLine(next)

PickLine ==
  /\ layout = "search"
  /\ Candidate # 0
  /\ candidate' = Candidate
  /\ list' = FirstListOnLine(Candidate)
  /\ layout' = "break"
  /\ UNCHANGED <<nodes, start, complete>>

NoLineToFix ==
  /\ layout = "search"
  /\ Candidate = 0
  /\ layout' = "done"
  /\ UNCHANGED <<nodes, start, complete, candidate, list>>

(* The last tokens of the elements of a list. *)
ElementEnds(p) ==
  {i \in p + 1 .. paren[p] - 1 :
     /\ tokens[i] # Space
     /\ \A q \in p + 1 .. i : IsOpen(q) => paren[q] <= i}

BreakList ==
  /\ layout = "break"
  /\ list # 0
  /\ PropagatePretty(BreakAfter(breaks, ElementEnds(list)))
  /\ layout' = "check"
  /\ UNCHANGED <<start, complete, candidate, list>>

(* A line without a list: breakList is given nullptr. *)
BreakNothing ==
  /\ layout = "break"
  /\ list = 0
  /\ layout' = "crashed"
  /\ UNCHANGED <<nodes, start, complete, candidate, list>>

(* Mutant: one list of a line is broken, not the lists in it. *)
NoOtherList == 0

(* The next list to break on a line that is still too long. *)
OtherList == IF FirstBadLine(candidate) = candidate THEN NextListOnLine(breaks, list) ELSE 0

BreakOther ==
  /\ layout = "check"
  /\ OtherList # 0
  /\ list' = OtherList
  /\ layout' = "break"
  /\ UNCHANGED <<nodes, start, complete, candidate>>

LineTreated ==
  /\ layout = "check"
  /\ OtherList = 0
  /\ complete' = candidate
  /\ start' = candidate
  /\ layout' = "propagate"
  /\ UNCHANGED <<nodes, candidate, list>>

LayOut ==
  \/ InsertSpecialBreaks \/ Propagate \/ PickLine \/ NoLineToFix
  \/ BreakList \/ BreakNothing \/ BreakOther \/ LineTreated

-----------------------------------------------------------------------------
(* Properties *)

(* Nodes and the pointers to them. *)
TypeOK ==
  /\ tokens \in Seq([kind : STRING, length : Nat])
  /\ paren \in [DOMAIN tokens -> 0 .. LastNode]
  /\ breaks \subseteq 1 .. LastNode - 1
  /\ line \in [DOMAIN tokens -> Nat]
  /\ offset \in [DOMAIN tokens -> Nat]
  /\ layout = "idle" \/ start \in DOMAIN tokens
  /\ {complete, candidate, list} \subseteq 0 .. LastNode

(* Where a token is printed: the space that begins a line is not. *)
Column(i) ==
  IF tokens[LineStart(breaks, i)] = Space THEN offset[i] - 1 ELSE offset[i]

(* The first tokens that are printed on the lines after the first. *)
LineStarts == {IF tokens[i + 1] = Space THEN i + 2 ELSE i + 1 : i \in breaks}

Lists == {p \in DOMAIN tokens : IsOpen(p)}

(***************************************************************************)
(* Indentation shows nesting: what begins a line of a list, and the ")" of *)
(* a list that is on several lines, are all in one column, not to the left *)
(* of its "("; that ")" is alone on its line.                              *)
(***************************************************************************)
IndentationShowsNesting ==
  layout = "done" =>
    \A p \in Lists :
      LET begins == {i \in LineStarts : Enclosing(i) = p}
      IN /\ \A i, j \in begins : Column(i) = Column(j)
         /\ \A i \in begins : Column(i) >= Column(p)
         /\ IsBroken(breaks, p) =>
              /\ paren[p] \in begins
              /\ paren[p] = LastNode \/ paren[p] \in breaks

(* Printed on one line from where it is, list p has a token past the limit. *)
TooLong(p) == \E i \in p .. paren[p] : offset[p] + Width(tokens, p, i - 1) > line_length

(***************************************************************************)
(* A list is broken just when it does not fit on one line where it is, and *)
(* then between all its elements.                                          *)
(***************************************************************************)
BrokenIfTooLong ==
  layout = "done" /\ (\A i \in DOMAIN tokens : tokens[i].kind # "DEFTYPE") =>
    \A p \in Lists :
      /\ IsBroken(breaks, p) <=> TooLong(p)
      /\ IsBroken(breaks, p) => ElementEnds(p) \subseteq breaks

(***************************************************************************)
(* A line that is too long in the end could not be made shorter: every     *)
(* list on it is broken.  Also after a deftype, whose own breaks leave     *)
(* several elements on a line.                                             *)
(***************************************************************************)
OverfullLinesAreBroken ==
  layout = "done" =>
    \A i \in DOMAIN tokens : offset[i] > line_length =>
      \A p \in Lists :
        (\A k \in (IF p < i THEN p .. i - 1 ELSE i .. p - 1) : k \notin breaks)
          => ElementEnds(p) \subseteq breaks

(* Lists are broken if they have to be, and all that can help are.         *)
BrokenAsNeeded == BrokenIfTooLong /\ OverfullLinesAreBroken

(***************************************************************************)
(* Lines are told apart by their numbers, which are not always up to date: *)
(* still, the line to fix begins a line of the text, and it is found too   *)
(* long again just when a token past the limit is on it.                   *)
(***************************************************************************)
BeginsLine(i) == i = 1 \/ i - 1 \in breaks
FirstPastLimit(i) == FirstOf({j \in i .. LastNode : offset[j] > line_length})

LineNumbersServe ==
  /\ candidate # 0 => BeginsLine(candidate)
  /\ layout = "check" =>
       LET bad == FirstPastLimit(candidate)
       IN FirstBadLine(candidate) = candidate <=>
            bad # 0 /\ \A k \in candidate .. bad - 1 : k \notin breaks

(* breakList asserts that what it is given is an open paren. *)
BreaksLists == layout = "break" => list # 0 /\ IsOpen(list)
=============================================================================
