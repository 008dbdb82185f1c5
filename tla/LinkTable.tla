----------------------------- MODULE LinkTable -----------------------------
(***************************************************************************)
(* The bytes of one link table (LinkedObjectFileCreation.cpp): where the   *)
(* pointers of a segment are, then for each symbol where it is referred    *)
(* to.  The linkers of V3, V4 and V5 read the first part alike; V3 reads   *)
(* symbol references with c_symlink3, V4 and V5 with c_symlink2.           *)
(*                                                                         *)
(* A byte is a number below Base, 256 in the code.  The head of a symbol's *)
(* entry, its flag byte and name, is one number, minus that of the name.   *)
(* A reader that takes the head of an entry for a number, a number for a   *)
(* head, or leaves the bytes where link tables are, is lost: the model     *)
(* ends there.  ObjectLayout says where in the file tables begin.          *)
(*                                                                         *)
(* A word is linked where it is visited: outside the segment that throws,  *)
(* and an assertion may stop the program when the word does not hold what  *)
(* its place in the table calls for.  Of the contents of the words there   *)
(* is only whether all of them do; LinkedObjectFile has what linking does. *)
(***************************************************************************)
EXTENDS Integers, Sequences, SequencesExt

CONSTANTS
  Base       \* number of values of a byte

Versions == {3, 4, 5}

ASSUME TableAssumption == Base \in Nat /\ Base % 4 = 0 /\ Base > 0

(* The byte that does not end a number, 0xff. *)
Top == Base - 1

(* Where the numbers of four bytes wrap, 2^32, and the words they address. *)
Wrap == Base * (Base * (Base * Base))
Words == Wrap \div 4

(***************************************************************************)
(* Pointers are sought from one word before the segment in V3 and V5, from *)
(* its first word in V4.  A table that starts with a zero has no pointers, *)
(* so a V4 segment cannot have one in its first word.                      *)
(***************************************************************************)
FirstWord(v) == IF v = 4 THEN 0 ELSE -1

VARIABLES
  version,   \* link format
  table,     \* the bytes of all link tables
  fits,      \* each word holds what its place in the tables calls for
  limit,     \* the number of words of the segment
  from,      \* where the table being read begins
  ptr,       \* link_ptr: the next byte to read
  pc,
  fixing,    \* the current number counts pointers; otherwise words to skip
  word,      \* the word reached: data_ptr, or the code_ptr of a symbol, both
             \* uint32_t; -1 before the first seek from there
  pointers,  \* the words linked as pointers, in the order visited
  symbols,   \* the names of the entries begun, in their order
  links      \* the references linked: sequence of <<entry, word>>

file == <<version, table, fits>>
reading == <<file, limit, from, ptr, pc, fixing, word, pointers, symbols, links>>

(* Nothing is being read. *)
Idle ==
  /\ limit = 0
  /\ from = 1
  /\ ptr = 1
  /\ pc = "idle"
  /\ fixing = FALSE
  /\ word = 0
  /\ pointers = << >>
  /\ symbols = << >>
  /\ links = << >>

(* The table at byte i is read, that of a segment of n words. *)
Begin(i, n) ==
  /\ pc = "idle"
  /\ limit' = n
  /\ from' = i
  /\ ptr' = i
  /\ pc' = "start"
  /\ word' = FirstWord(version)
  /\ UNCHANGED <<file, fixing, pointers, symbols, links>>

(* The table has been read to its last byte, where the next begins. *)
End ==
  /\ pc = "done"
  /\ limit' = 0
  /\ from' = 1
  /\ ptr' = 1
  /\ pc' = "idle"
  /\ fixing' = FALSE
  /\ word' = 0
  /\ pointers' = << >>
  /\ symbols' = << >>
  /\ links' = << >>
  /\ UNCHANGED file

-----------------------------------------------------------------------------

(* The next n bytes are there to read. *)
Ahead(n) == ptr > 0 /\ ptr + n - 1 <= Len(table)

Stop(at) ==
  /\ pc' = at
  /\ UNCHANGED <<file, limit, from, ptr, fixing, word, pointers, symbols, links>>

Lost == Stop("lost")

(***************************************************************************)
(* Linking a word outside the segment throws (std::vector::at, which gets  *)
(* the offset as an int).  A word that does not hold what it should, or is *)
(* linked already, may be refused by an assertion.                         *)
(***************************************************************************)
InSegment(w) == w < limit /\ w < Words \div 2

LinkedAlready(w) ==
  \/ \E i \in DOMAIN pointers : pointers[i] = w
  \/ \E i \in DOMAIN links : links[i][2] = w

Refused(visits) ==
  /\ \E i \in DOMAIN visits : ~fits \/ ~InSegment(visits[i]) \/ LinkedAlready(visits[i])
  /\ Stop("refused")

Accepts(visits) == \A i \in DOMAIN visits : InSegment(visits[i])

(* The word n words on, and the next n words. *)
Onward(n) == (word + n) % Words

Run(n) == [i \in 1 .. n |-> Onward(i - 1)]

Start ==
  /\ pc = "start"
  /\ IF ~Ahead(1) THEN Lost
     ELSE /\ IF table[ptr] = 0
             THEN pc' = "symbols" /\ ptr' = ptr + 1
             ELSE pc' = "pointers" /\ UNCHANGED ptr
          /\ UNCHANGED <<file, limit, from, fixing, word, pointers, symbols, links>>

(* Mutant: the words of a run are not counted in the next seek. *)
CountFromRunStart ==
  LET count == table[ptr]
      visits == IF fixing THEN Run(count) ELSE << >>
      ends == count # Top \/ table[ptr + 1] = 0
  IN /\ pc = "pointers"
     /\ IF ~Ahead(2) \/ count < 0 THEN Lost
        ELSE \/ Refused(visits)
             \/ /\ Accepts(visits)
                /\ word' = IF fixing THEN word ELSE Onward(count)
                /\ pointers' = pointers \o visits
                /\ pc' = IF count # Top /\ table[ptr + 1] = 0 THEN "symbols" ELSE pc
                /\ fixing' = IF ends THEN ~fixing ELSE fixing
                /\ ptr' = IF table[ptr + 1] = 0 THEN ptr + 2 ELSE ptr + 1
                /\ UNCHANGED <<file, limit, from, symbols, links>>

(***************************************************************************)
(* One byte of the pointer part: words to skip, or a run of words that are *)
(* linked.  The top byte goes on with the number, unless a zero follows    *)
(* and ends it; after any other byte the mode changes, and a zero that     *)
(* follows ends the part.                                                  *)
(***************************************************************************)
Count ==
  LET count == table[ptr]
      visits == IF fixing THEN Run(count) ELSE << >>
  IN /\ pc = "pointers"
     /\ IF ~Ahead(2) \/ count < 0 THEN Lost
        ELSE \/ Refused(visits)
             \/ /\ Accepts(visits)
                /\ word' = Onward(count)
                /\ pointers' = pointers \o visits
                /\ IF count = Top
                   THEN /\ pc' = pc
                        /\ fixing' = IF table[ptr + 1] = 0 THEN ~fixing ELSE fixing
                        /\ ptr' = IF table[ptr + 1] = 0 THEN ptr + 2 ELSE ptr + 1
                   ELSE /\ pc' = IF table[ptr + 1] = 0 THEN "symbols" ELSE pc
                        /\ fixing' = ~fixing
                        /\ ptr' = IF table[ptr + 1] = 0 THEN ptr + 2 ELSE ptr + 1
                /\ UNCHANGED <<file, limit, from, symbols, links>>

(* The head of a symbol's entry; its references are sought from word 0. *)
ReadSymbol ==
  /\ pc = "symbols"
  /\ Ahead(1)
  /\ table[ptr] < 0
  /\ symbols' = Append(symbols, -table[ptr])
  /\ word' = 0
  /\ ptr' = ptr + 1
  /\ pc' = "references"
  /\ UNCHANGED <<file, limit, from, fixing, pointers, links>>

NoMoreSymbols ==
  /\ pc = "symbols"
  /\ IF ~Ahead(1) \/ table[ptr] > 0 THEN Lost
     ELSE /\ table[ptr] = 0
          /\ pc' = "done"
          /\ UNCHANGED <<file, limit, from, ptr, fixing, word, pointers, symbols, links>>

(* One reference, after a seek of some words encoded in width bytes.  A zero *)
(* ends the references of the symbol.                                        *)
Refer(seek, width) ==
  LET w == Onward(seek)
  IN \/ Refused(<<w>>)
     \/ /\ Accepts(<<w>>)
        /\ word' = w
        /\ links' = Append(links, <<Len(symbols), w>>)
        /\ IF table[ptr + width] = 0
           THEN pc' = "symbols" /\ ptr' = ptr + width + 1
           ELSE pc' = pc /\ ptr' = ptr + width
        /\ UNCHANGED <<file, limit, from, fixing, pointers, symbols>>

(* c_symlink3: the seek is a sum of top bytes and of one that is not. *)
Seek3Is(width) ==
  /\ Ahead(width + 1)
  /\ \A i \in 0 .. width - 2 : table[ptr + i] = Top
  /\ table[ptr + width - 1] \in 0 .. Top - 1

Reference3(width) ==
  /\ pc = "references"
  /\ version = 3
  /\ Seek3Is(width)
  /\ Refer(Top * (width - 1) + table[ptr + width - 1], width)

(* Mutant: the longest seek is cut short. *)
Width2Short(byte) == IF byte % 4 = 3 THEN 3 ELSE 1 + (byte % 4)

(***************************************************************************)
(* c_symlink2: the seek is a little-endian number of bytes, a multiple of  *)
(* four; the two low bits of its first byte say how many bytes it takes.   *)
(* One of four bytes that is nearly Wrap goes back, to an earlier word.    *)
(***************************************************************************)
Width2(byte) == CASE byte % 4 = 0 -> 1
                  [] byte % 4 = 1 -> 2
                  [] byte % 4 = 2 -> 3
                  [] byte % 4 = 3 -> 4

Seek2Is(width) ==
  /\ Ahead(width + 1)
  /\ \A i \in 0 .. width - 1 : table[ptr + i] >= 0
  /\ width = Width2(table[ptr])

Seek2(width) ==
  LET byte(i) == IF i < width THEN table[ptr + i] ELSE 0
  IN (byte(0) + Base * (byte(1) + Base * (byte(2) + Base * byte(3)))) \div 4

Reference2(width) ==
  /\ pc = "references"
  /\ version # 3
  /\ Seek2Is(width)
  /\ Refer(Seek2(width), width)

(* Mutant: the reader does not notice. *)
NoReferenceWaits ==
  /\ pc = "references"
  /\ ~\E width \in 1 .. Len(table) :
       IF version = 3 THEN Seek3Is(width) ELSE Seek2Is(width)
  /\ UNCHANGED reading

NoReference ==
  /\ pc = "references"
  /\ ~\E width \in 1 .. Len(table) :
       IF version = 3 THEN Seek3Is(width) ELSE Seek2Is(width)
  /\ Lost

ReadTable ==
  \/ Start \/ Count \/ ReadSymbol \/ NoMoreSymbols
  \/ \E width \in 1 .. Len(table) : Reference3(width)
  \/ \E width \in 1 .. 4 : Reference2(width)
  \/ NoReference

-----------------------------------------------------------------------------
(***************************************************************************)
(* The format as the comments describe it.  A table says at which words    *)
(* runs of pointers begin and end, in turn (bounds), and by which words    *)
(* each symbol is referred to, all in order.                               *)
(***************************************************************************)

Repeat(x, n) == [i \in 1 .. n |-> x]

(* A number; one that would end on the top byte gets an explicit zero. *)
Number(n) == Repeat(Top, n \div Top) \o <<n % Top>>

(* A seek of c_symlink2 in as few bytes as hold it. *)
SeekBytes(n) ==
  LET b0 == 4 * n
      b1 == b0 \div Base
      b2 == b1 \div Base
      b3 == b2 \div Base
      width == IF b1 = 0 THEN 1 ELSE IF b2 = 0 THEN 2 ELSE IF b3 = 0 THEN 3 ELSE 4
  IN SubSeq(<<(b0 % Base) + width - 1, b1 % Base, b2 % Base, b3 % Base>>, 1, width)

(* From each word to the next of a row, starting at the word first. *)
Gap(words, i, first) == words[i] - (IF i = 1 THEN first ELSE words[i - 1])

(* "seek_amount, number_of_consecutive_pointers, ... , 0" *)
PointerTable(v, bounds) ==
  FlattenSeq([i \in DOMAIN bounds |-> Number(Gap(bounds, i, FirstWord(v)))]) \o <<0>>

Seek(v, n) == IF v = 3 THEN Number(n) ELSE SeekBytes(n)

Entry(v, e) ==
  <<-e.name>>
    \o FlattenSeq([j \in DOMAIN e.words |-> Seek(v, Gap(e.words, j, 0))])
    \o <<0>>

SymbolTable(v, entries) ==
  FlattenSeq([k \in DOMAIN entries |-> Entry(v, entries[k])]) \o <<0>>

Table(v, t) == PointerTable(v, t.bounds) \o SymbolTable(v, t.symbols)

Ascending(words) == \A i \in 1 .. Len(words) - 1 : words[i] < words[i + 1]

(* The words of its runs. *)
PointerWords(t) ==
  UNION {t.bounds[i] .. t.bounds[i + 1] - 1 : i \in {n \in DOMAIN t.bounds : n % 2 = 1}}

(***************************************************************************)
(* A table that can be written for a segment of n words.  It links words   *)
(* of the segment, each of them once.  No seek to a run is of zero words,  *)
(* and an entry has a reference.  Segments have less than 2 GB, so that an *)
(* offset is a positive int.                                               *)
(***************************************************************************)
IsTable(v, t, n) ==
  /\ 8 * n <= Wrap
  /\ t.bounds \in Seq(0 .. n) /\ Ascending(t.bounds)
  /\ Len(t.bounds) % 2 = 0
  /\ t.bounds # << >> => FirstWord(v) < t.bounds[1]
  /\ t.symbols \in Seq([name : Nat \ {0}, words : Seq(0 .. n - 1)])
  /\ \A k \in DOMAIN t.symbols :
       LET words == t.symbols[k].words
       IN /\ words # << >> /\ Ascending(words)
          /\ \A j \in DOMAIN words :
               /\ words[j] \notin PointerWords(t)
               /\ \A m \in DOMAIN t.symbols \ {k} : \A i \in DOMAIN t.symbols[m].words :
                    words[j] # t.symbols[m].words[i]

(* The last run of pointers is a multiple of Top long, so that its count is  *)
(* followed by one zero that belongs to it and one that ends the pointers.   *)
EndsOnTop(t) ==
  LET n == Len(t.bounds) IN n > 0 /\ (t.bounds[n] - t.bounds[n - 1]) % Top = 0

-----------------------------------------------------------------------------
(* Properties *)

(* Where the reader is, and what it has linked. *)
TableTypeOK ==
  /\ version \in Versions
  /\ table \in Seq(Int) /\ \A i \in DOMAIN table : table[i] < Base
  /\ fits \in BOOLEAN
  /\ limit \in Nat
  /\ {from, ptr} \subseteq Int
  /\ ptr \in from .. Len(table) + 1 \/ pc \in {"start", "lost"}
  /\ pc \in {"idle", "start", "pointers", "symbols", "references", "done", "lost", "refused"}
  /\ fixing \in BOOLEAN
  /\ word \in Int
  /\ pointers \in Seq(Nat)
  /\ symbols \in Seq(Nat)
  /\ links \in Seq(Nat \X Nat)

(* The table is too short to seek around all words: less than 4 MB.         *)
IsShort == 4 * (Top * Len(table)) < Wrap

(***************************************************************************)
(* Whatever the bytes are, only words of the segment are linked; and in    *)
(* a short table none is linked as a pointer twice, pointers go forward,   *)
(* and so do the references of an entry in V3.  Those of V4 and V5 may go  *)
(* back: a seek of c_symlink2 can wrap.                                    *)
(***************************************************************************)
VisitsAscend ==
  /\ \A i \in DOMAIN pointers : 0 <= pointers[i] /\ pointers[i] < limit
  /\ \A i \in DOMAIN links : 0 <= links[i][2] /\ links[i][2] < limit
  /\ IsShort =>
       /\ \A i, j \in DOMAIN pointers : i < j => pointers[i] < pointers[j]
       /\ version = 3 =>
            \A i, j \in DOMAIN links :
              i < j /\ links[i][1] = links[j][1] => links[i][2] < links[j][2]

(***************************************************************************)
(* All that a table says was linked, and nothing else: the words of its    *)
(* runs as pointers, and the references of each of its symbols.            *)
(***************************************************************************)
LinkedIs(t) ==
  /\ {pointers[i] : i \in DOMAIN pointers} = PointerWords(t)
  /\ symbols = [k \in DOMAIN t.symbols |-> t.symbols[k].name]
  /\ {links[i] : i \in DOMAIN links}
       = UNION {{<<k, t.symbols[k].words[j]>> : j \in DOMAIN t.symbols[k].words} :
                   k \in DOMAIN t.symbols}
=============================================================================
