------------------------------ MODULE MCNames ------------------------------
(* Two files with a few link table entries or a few instructions.           *)
EXTENDS GlobalNames

MCNames == {"type", "f", "g"}
MCFunctions == {"fun"}

Symbol(n) == [kind |-> "SYMBOL", name |-> n, methods |-> -1]
Type(n, m) == [kind |-> "TYPE", name |-> n, methods |-> m]

Lui(dst, arg) == [op |-> "lui", dst |-> dst, src |-> "", arg |-> arg]
Ori(dst, src, arg) == [op |-> "ori", dst |-> dst, src |-> src, arg |-> arg]
Sw(src, arg) == [op |-> "sw", dst |-> "", src |-> src, arg |-> arg]
Other == [op |-> "other", dst |-> "", src |-> "", arg |-> ""]

File(entries, segments, tops, blocks) ==
  [entries |-> entries, segments |-> segments, tops |-> tops, blocks |-> blocks]

UpTo(n, S) == UNION {[1 .. k -> S] : k \in 0 .. n}

(* Files of data, and files of code without or with two top-level functions. *)
Linked ==
  {File(es, s, n, << >>) :
     es \in UpTo(2, {Symbol("f"), Type("f", 3), Type("f", 9), Type("g", -1), Type("type", 7)}),
     s \in {1, 3}, n \in 0 .. 2}

(* Any block of up to five of these, and two blocks that split a store. *)
Instrs == {Lui("v1", "fun"), Lui("v1", "data"), Ori("a0", "v1", "fun"),
           Ori("a0", "v1", "imm"), Sw("a0", "f"), Sw("a0", "imm"), Other}

Others == {<<Lui("v1", l), Ori("v1", "v1", l), Sw("v1", n), x>> :
             l \in {"fun", "top", "inside", "data"}, n \in {"f", "g", "type"},
             x \in {Sw("v1", "g"), Sw("a0", "g"), Other, Lui("v1", "fun")}}

Defining ==
  {File(es, 3, 1, <<b>>) : es \in {<< >>, <<Symbol("f")>>, <<Type("g", 3)>>},
                           b \in UpTo(4, Instrs) \cup Others}
    \cup {File(<< >>, 3, 1, <<SubSeq(b, 1, 2), SubSeq(b, 3, 4)>>) : b \in Others}

FewDefining == {File(<< >>, 3, 1, <<b>>) : b \in Others}

Nothing == File(<< >>, 1, 0, << >>)

(* Two files that are linked or define a function; or one with longer code. *)
MCInputs == [1 .. 2 -> Linked \cup FewDefining] \cup {<<x, Nothing>> : x \in Defining}
=============================================================================
