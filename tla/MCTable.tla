------------------------------ MODULE MCTable ------------------------------
(* Object files with link tables whose bytes have three bits: a number of 7 *)
(* needs two bytes.                                                         *)
EXTENDS ObjectLayout, TLC

(* Every set of pointers among nine words; a few symbols, with references   *)
(* that take one to four bytes.                                             *)
SomeSymbols == {<< >>, <<{0}>>, <<{11}, {9, 10}>>, <<{2, 9}, {14, 21}>>, <<{0, 16, 130}>>,
                <<{9}, {10, 18}, {128, 143}>>}

Sets == SUBSET (0 .. 8)

Sorted(S) ==
  [i \in 1 .. Cardinality(S) |-> CHOOSE x \in S : Cardinality({y \in S : y < x}) = i - 1]

(* The runs of the set moved to the words the version can link. *)
Bounds(v, P) ==
  LET Q == {FirstWord(v) + 1 + i : i \in P}
  IN Sorted({w \in Q : w - 1 \notin Q} \cup {w + 1 : w \in {q \in Q : q + 1 \notin Q}})

TableFrom(v, P, S) ==
  [bounds |-> Bounds(v, P),
   symbols |-> [k \in DOMAIN S |-> [name |-> k, words |-> Sorted(S[k])]]]

Nothing(v) == TableFrom(v, {}, << >>)

One(words, t, zeros) == [version |-> 4, words |-> words, zeros |-> zeros, tables |-> (0 :> t)]

Three(v, game, level_h, sizes, tables) ==
  [version |-> v, game |-> game, level_h |-> level_h, sizes |-> [s \in Segs |-> sizes[s + 1]],
   tables |-> [s \in Segs |-> tables[s + 1]]]

(* The table in the one segment of a V4 file, or in the last one of others. *)
With(v, n, t) ==
  IF v = 4 THEN One(n, t, 0)
  ELSE Three(v, 1, FALSE, <<0, 0, 4 * n>>, <<Nothing(v), Nothing(v), t>>)

(* The tables that can be written for a segment of 144 words. *)
Tables(v) ==
  {t \in {TableFrom(v, P, S) : P \in Sets, S \in SomeSymbols} : IsTable(v, t, 144)}

TableSources ==
  UNION {{With(v, 144, t) : t \in {u \in Tables(v) : ~EndsOnTop(u)}} : v \in Versions}

(* A last run of seven pointers, between symbols or none. *)
EndSources ==
  UNION {{With(v, 144, t) : t \in {u \in Tables(v) : EndsOnTop(u)}} : v \in Versions}

(* Any bytes at all, up to five, of a name and four values; a name that has  *)
(* two entries, of which the second refers to an earlier word; and a second  *)
(* reference that is 1023 words on, which is one back.                       *)
AnyBytes ==
  UNION {[1 .. n -> {-1, 0, 1, 6, 7}] : n \in 1 .. 5}
    \cup {<<0, -1, 4, 0, -1, 1, 0, 0>>, <<0, -1, 1, 1, 7, 7, 7, 7, 0, 0>>}

Unknown(f) == [f EXCEPT !.header.source = << >>]

(* Such bytes in the place of a table of nothing, for ten words that hold   *)
(* what the table calls for or do not.                                      *)
Holding(v, bytes, fit) ==
  LET f == FileOf(With(v, 10, Nothing(v)))
      at == IF v = 4 THEN 0 ELSE 4
  IN [f EXCEPT !.table = SubSeq(@, 1, at) \o bytes \o SubSeq(@, at + 3, Len(@)), !.fits = fit]

AnyFiles ==
  {Unknown(Holding(v, bytes, TRUE)) : v \in Versions, bytes \in AnyBytes}
    \cup {Unknown(Holding(v, bytes, FALSE)) :
             v \in Versions, bytes \in {b \in AnyBytes : Len(b) \in {4, 8}}}

(* Segments that do or do not exist, of sizes around a word and a line, with *)
(* tables of several lengths.                                                *)
Shape(v, size, P, S) == [size |-> size, tbl |-> TableFrom(v, P, S)]
Missing(v) == Shape(v, 0, {}, << >>)

Shapes(v, sizes) ==
  {Missing(v)} \cup {Shape(v, n, {}, << >>) : n \in sizes}
    \cup {Shape(v, n, {0, 2}, <<{1}>>) : n \in {m \in sizes : m > 8}}

Assemble(v, game, level_h, x) ==
  Three(v, game, level_h, [k \in 1 .. 3 |-> x[k].size], [k \in 1 .. 3 |-> x[k].tbl])

SegmentSources ==
  {Assemble(3, 1, FALSE, x) : x \in [1 .. 3 -> Shapes(3, {4, 16})]}
    \cup {Assemble(3, 1, TRUE, [x EXCEPT ![1] = Shape(3, n, {0}, << >>)]) :
             x \in [1 .. 3 -> Shapes(3, {16})], n \in {15, 19}}
    \cup {Assemble(3, 2, FALSE, x) : x \in [1 .. 3 -> Shapes(3, {4, 30})]}
    \cup {Assemble(5, 2, FALSE, x) : x \in [1 .. 3 -> Shapes(5, {4, 16, 30})]}
    \cup {One(n, TableFrom(4, {0}, <<{2}>>), z) : n \in 3 .. 5, z \in {0, 5}}
    \cup {One(n, Nothing(4), z) : n \in 0 .. 1, z \in {0, 5}}

(* Files whose header does not fit them.                                    *)
Few == {FileOf(Assemble(v, 2, FALSE, x)) : v \in {3, 5},
          x \in [1 .. 3 -> {Missing(3), Shape(3, 16, {}, <<{1}>>), Shape(3, 30, {0, 2}, << >>)}]}

Altered(f) ==
  {[f EXCEPT !.header.info[s].relocs = @ + d] : s \in Segs, d \in {-2, -1, 1, 2, 4}}
    \cup {[f EXCEPT !.header.info[s].relocs = f.header.info[t].relocs] : s, t \in Segs}
    \cup {[f EXCEPT !.header.info[s].size = n] : s \in Segs, n \in {0, 1, 14, 20, 33}}
    \cup {[f EXCEPT !.header.info[s].data = @ + d] : s \in Segs, d \in {2, 16}}
    \cup {[f EXCEPT !.header.length = @ + d] : d \in {-16, 4, 16}}
    \cup {[f EXCEPT !.header.length = @ + d, !.header.size = @ + d] : d \in {-16, 4, 16}}
    \cup {[f EXCEPT !.header.valid = FALSE], [f EXCEPT !.header.n_segments = 1]}

(* Sizes so near Wrap that segment 1 begins before segment 0, in the bytes  *)
(* of the link tables, and segment 0 has no words; or that sizes wrap when   *)
(* they are made whole words.                                                *)
Wrapping(v) ==
  LET none == Shape(v, 16, {}, << >>)
      f == FileOf(Assemble(v, 2, FALSE, <<none, Shape(v, 16, {}, <<{1}>>), none>>))
  IN {[f EXCEPT !.header.info[0].size = Wrap - 16, !.header.info[1].data = Wrap - 16,
                !.header.info[2].data = 0, !.header.size = @ - 32],
      [f EXCEPT !.header.info[0].size = Wrap - 1, !.header.info[1].data = 0,
                !.header.info[2].data = 16, !.header.size = @ - 16],
      [f EXCEPT !.header.info[0].data = Wrap - f.header.length]}

Few4 == {FileOf(One(2, TableFrom(4, P, <<{0}>>), 0)) : P \in {{}, {1}}}

Altered4(f) ==
  {[f EXCEPT !.header.valid = FALSE], [f EXCEPT !.header.code_size = @ + 2],
   [f EXCEPT !.header.length2 = @ + 16], [f EXCEPT !.header.length = @ + 16, !.header.length2 = @ + 16],
   [f EXCEPT !.table = @ \o <<1>>]}

AlteredFiles ==
  {Unknown(f) :
     f \in {g \in UNION {Altered(h) : h \in Few} : HeaderSize + Len(g.table) <= g.header.size}
             \cup UNION {Altered4(g) : g \in Few4} \cup Wrapping(3) \cup Wrapping(5)}

MCSources == TableSources \cup SegmentSources

MCOthers == AnyFiles \cup AlteredFiles
=============================================================================
