------------------------ MODULE InstructionDecode_proof ------------------------
(***************************************************************************)
(* Proofs about decode_instruction and Instruction::to_string, for every   *)
(* word and every place it may be at.                                      *)
(***************************************************************************)
EXTENDS InstructionDecode, SequenceFacts

-----------------------------------------------------------------------------
(* What a step of an opcode does: it sets a property of the instruction,   *)
(* or adds a destination, a register as a source, an immediate or the      *)
(* target of a branch.                                                     *)

Class(s) ==
  IF s.decode \in {"il", "bc", "dest"} THEN "set"
  ELSE IF ~s.is_src THEN "dst"
  ELSE IF s.decode = "branch_target" THEN "target"
  ELSE IF s.decode \in {"imm", "vcallms_target"} THEN "imm"
  ELSE "src"

(* What the steps of one opcode do, in order. *)
Shapes ==
  {<< >>, <<"dst">>, <<"src">>, <<"imm">>, <<"target">>,
   <<"dst", "src">>, <<"src", "dst">>, <<"src", "src">>, <<"src", "imm">>, <<"dst", "imm">>,
   <<"src", "target">>, <<"set", "src">>, <<"set", "dst">>,
   <<"dst", "src", "src">>, <<"dst", "src", "imm">>, <<"dst", "imm", "src">>,
   <<"src", "imm", "src">>, <<"src", "src", "target">>,
   <<"set", "dst", "src">>, <<"set", "src", "dst">>, <<"set", "src", "src">>,
   <<"dst", "src", "set">>, <<"set", "dst", "src", "src">>, <<"dst", "src", "src", "set">>,
   <<"set", "set", "dst", "src">>, <<"set", "set", "dst", "src", "src">>}

(* The steps of branches, stores and loads. *)
BranchShapes == {<<"target">>, <<"src", "target">>, <<"src", "src", "target">>}
StoreShape == <<"src", "imm", "src">>
LoadShape == <<"dst", "imm", "src">>

(* The fields a step reads, and how it decodes them. *)
Decodings ==
  ({"rs", "rt", "rd"} \X {"gpr"}) \cup ({"fs", "ft", "fd"} \X {"fpr", "vf", "vi"})
  \cup {<<"rd", "cop0">>, <<"rd", "vi">>, <<"rt", "vi">>,
        <<"sa", "imm">>, <<"imm5", "imm">>, <<"simm16", "imm">>, <<"zimm16", "imm">>,
        <<"syscall", "imm">>, <<"simm16", "branch_target">>, <<"imm15", "vcallms_target">>,
        <<"zero", "vu_q">>, <<"zero", "vu_acc">>,
        <<"il", "il">>, <<"bc", "bc">>, <<"dest", "dest">>}

CounterKinds == {"mtpc", "mfpc"}

Decodes(s, kind) ==
  /\ s.is_src \in BOOLEAN
  /\ \/ <<s.field, s.decode>> \in Decodings
     \/ kind \in CounterKinds /\ s.field = "pcr" /\ s.decode = "pcr"
  /\ s.is_src \/ s.decode \notin {"imm", "vcallms_target", "branch_target"}

HasShape(all, row, kind) ==
  /\ Len(all) = Len(row)
  /\ \A i \in 1 .. Len(row) : Decodes(all[i], kind) /\ Class(all[i]) = row[i]

-----------------------------------------------------------------------------
(* Counting the steps of some classes among the first k steps.             *)

One(b) == IF b THEN 1 ELSE 0

Sources == {"src", "imm", "target"}
Destinations == {"dst"}

Added(row, k, classes) ==
  LET c(i) == One(i <= k /\ i <= Len(row) /\ row[i] \in classes)
  IN c(1) + c(2) + c(3) + c(4) + c(5)

LEMMA AddedFacts ==
  ASSUME NEW row, Len(row) \in 0 .. 5, NEW classes
  PROVE  /\ Added(row, 0, classes) = 0
         /\ \A k \in 0 .. Len(row) : Added(row, k, classes) \in 0 .. 5
         /\ \A k \in Nat : k + 1 \in 1 .. Len(row) =>
              /\ Added(row, k + 1, classes) = Added(row, k, classes) + One(row[k + 1] \in classes)
              /\ Added(row, k + 1, classes) <= Added(row, Len(row), classes)
<1> DEFINE c(i, k) == One(i <= k /\ i <= Len(row) /\ row[i] \in classes)
<1>1. \A k : Added(row, k, classes) = c(1, k) + c(2, k) + c(3, k) + c(4, k) + c(5, k)
  BY DEF Added
<1>2. Added(row, 0, classes) = 0
  BY <1>1 DEF One
<1>3. \A i, k : c(i, k) \in {0, 1}
  BY DEF One
<1>4. \A k \in 0 .. Len(row) : Added(row, k, classes) \in 0 .. 5
  <2> HIDE DEF c
  <2> QED
    BY <1>1, <1>3
<1>5. ASSUME NEW k \in Nat, k + 1 \in 1 .. Len(row)
      PROVE  /\ Added(row, k + 1, classes) = Added(row, k, classes) + One(row[k + 1] \in classes)
             /\ Added(row, k + 1, classes) <= Added(row, Len(row), classes)
  <2>1. PICK n \in 0 .. 5 : n = Len(row)
    OBVIOUS
  <2>2. \A i \in 1 .. 5 : i # k + 1 => c(i, k + 1) = c(i, k)
    BY <1>5
  <2>3. c(k + 1, k) = 0 /\ c(k + 1, k + 1) = One(row[k + 1] \in classes)
    BY <1>5 DEF One
  <2>4. \A i \in 1 .. 5 : c(i, k + 1) <= c(i, n)
    BY <1>5, <2>1 DEF One
  <2>5. k + 1 \in {1, 2, 3, 4, 5} /\ n \in 0 .. Len(row) /\ k \in 0 .. Len(row)
    BY <1>5, <2>1
  <2> HIDE DEF c
  <2>6. Added(row, k + 1, classes) = Added(row, k, classes) + One(row[k + 1] \in classes)
    BY <1>1, <1>3, <2>2, <2>3, <2>5
  <2>7. Added(row, k + 1, classes) <= Added(row, n, classes)
    BY <1>1, <1>3, <2>4
  <2> QED
    BY <2>1, <2>6, <2>7
<1> QED
  BY <1>2, <1>4, <1>5

(* What all the steps of an opcode add fits the instruction. *)
AddsUp(row) ==
  /\ Len(row) \in 0 .. 5
  /\ Added(row, Len(row), Sources) <= 3 /\ Added(row, Len(row), Destinations) <= 1
  /\ row = StoreShape => Added(row, Len(row), Sources) = 3 /\ Added(row, Len(row), Destinations) = 0
  /\ row = LoadShape => Added(row, Len(row), Sources) = 2 /\ Added(row, Len(row), Destinations) = 1

RefersOnce(row) ==
  /\ \A i, j \in 1 .. Len(row) : row[i] = "imm" /\ row[j] = "imm" => i = j
  /\ \A i, j \in 1 .. Len(row) : row[i] = "target" /\ row[j] = "target" => i = j
  /\ (\E i \in 1 .. Len(row) : row[i] = "target") <=> row \in BranchShapes
  /\ row \in BranchShapes => \A i \in 1 .. Len(row) : row[i] # "imm"

LEMMA ShapeAddsUp ==
  ASSUME NEW row \in Shapes
  PROVE  AddsUp(row)
BY DEF AddsUp, Shapes, StoreShape, LoadShape, Added, One, Sources, Destinations

LEMMA ShapeRefersOnce ==
  ASSUME NEW row \in Shapes
  PROVE  RefersOnce(row)
<1>1. \A i, j \in 1 .. Len(row) : row[i] = "imm" /\ row[j] = "imm" => i = j
  BY DEF Shapes
<1>3. row \in BranchShapes => \E i \in 1 .. Len(row) : row[i] = "target"
  BY DEF BranchShapes
<1>4. row \notin BranchShapes => \A i \in 1 .. Len(row) : row[i] # "target"
  BY DEF Shapes, BranchShapes
<1>2. row \in BranchShapes =>
        \A i, j \in 1 .. Len(row) : row[i] = "target" /\ row[j] = "target" => i = j
  BY DEF BranchShapes
<1>5. row \in BranchShapes => \A i \in 1 .. Len(row) : row[i] # "imm"
  BY DEF BranchShapes
<1> QED
  BY <1>1, <1>2, <1>3, <1>4, <1>5 DEF RefersOnce

-----------------------------------------------------------------------------
(* Rows of steps written as concatenations.                                *)

LEMMA Join11 ==
  ASSUME NEW a, NEW b
  PROVE  <<a>> \o <<b>> = <<a, b>>
<1> DEFINE T == {a, b}
<1>1. a \in T /\ b \in T
  OBVIOUS
<1> HIDE DEF T
<1>2. <<a>> \in Seq(T) /\ <<b>> \in Seq(T) /\ <<a, b>> \in Seq(T)
  BY <1>1
<1>3. PICK s : s = <<a>> \o <<b>>
  OBVIOUS
<1>4. PICK t : t = <<a, b>>
  OBVIOUS
<1>5. s \in Seq(T) /\ Len(s) = 2 /\ s[1] = a /\ s[2] = b
  BY <1>2, <1>3
<1>6. t \in Seq(T) /\ Len(t) = 2 /\ t[1] = a /\ t[2] = b
  BY <1>2, <1>4
<1>7. \A i \in 1 .. Len(s) : s[i] = t[i]
  BY <1>5, <1>6
<1> QED
  BY <1>3, <1>4, <1>5, <1>6, <1>7, SeqEqual

LEMMA Join12 ==
  ASSUME NEW a, NEW b, NEW c
  PROVE  <<a>> \o <<b, c>> = <<a, b, c>>
<1> DEFINE T == {a, b, c}
<1>1. a \in T /\ b \in T /\ c \in T
  OBVIOUS
<1> HIDE DEF T
<1>2. <<a>> \in Seq(T) /\ <<b, c>> \in Seq(T) /\ <<a, b, c>> \in Seq(T)
  BY <1>1
<1>3. PICK s : s = <<a>> \o <<b, c>>
  OBVIOUS
<1>4. PICK t : t = <<a, b, c>>
  OBVIOUS
<1>5. s \in Seq(T) /\ Len(s) = 3 /\ s[1] = a /\ s[2] = b /\ s[3] = c
  BY <1>2, <1>3
<1>6. t \in Seq(T) /\ Len(t) = 3 /\ t[1] = a /\ t[2] = b /\ t[3] = c
  BY <1>2, <1>4
<1>7. \A i \in 1 .. Len(s) : s[i] = t[i]
  BY <1>5, <1>6
<1> QED
  BY <1>3, <1>4, <1>5, <1>6, <1>7, SeqEqual

LEMMA Join21 ==
  ASSUME NEW a, NEW b, NEW c
  PROVE  <<a, b>> \o <<c>> = <<a, b, c>>
<1> DEFINE T == {a, b, c}
<1>1. a \in T /\ b \in T /\ c \in T
  OBVIOUS
<1> HIDE DEF T
<1>2. <<a, b>> \in Seq(T) /\ <<c>> \in Seq(T) /\ <<a, b, c>> \in Seq(T)
  BY <1>1
<1>3. PICK s : s = <<a, b>> \o <<c>>
  OBVIOUS
<1>4. PICK t : t = <<a, b, c>>
  OBVIOUS
<1>5. s \in Seq(T) /\ Len(s) = 3 /\ s[1] = a /\ s[2] = b /\ s[3] = c
  BY <1>2, <1>3
<1>6. t \in Seq(T) /\ Len(t) = 3 /\ t[1] = a /\ t[2] = b /\ t[3] = c
  BY <1>2, <1>4
<1>7. \A i \in 1 .. Len(s) : s[i] = t[i]
  BY <1>5, <1>6
<1> QED
  BY <1>3, <1>4, <1>5, <1>6, <1>7, SeqEqual

LEMMA Join22 ==
  ASSUME NEW a, NEW b, NEW c, NEW d
  PROVE  <<a, b>> \o <<c, d>> = <<a, b, c, d>>
<1> DEFINE T == {a, b, c, d}
<1>1. a \in T /\ b \in T /\ c \in T /\ d \in T
  OBVIOUS
<1> HIDE DEF T
<1>2. <<a, b>> \in Seq(T) /\ <<c, d>> \in Seq(T) /\ <<a, b, c, d>> \in Seq(T)
  BY <1>1
<1>3. PICK s : s = <<a, b>> \o <<c, d>>
  OBVIOUS
<1>4. PICK t : t = <<a, b, c, d>>
  OBVIOUS
<1>5. s \in Seq(T) /\ Len(s) = 4 /\ s[1] = a /\ s[2] = b /\ s[3] = c /\ s[4] = d
  BY <1>2, <1>3
<1>6. t \in Seq(T) /\ Len(t) = 4 /\ t[1] = a /\ t[2] = b /\ t[3] = c /\ t[4] = d
  BY <1>2, <1>4
<1>7. \A i \in 1 .. Len(s) : s[i] = t[i]
  BY <1>5, <1>6
<1> QED
  BY <1>3, <1>4, <1>5, <1>6, <1>7, SeqEqual

LEMMA Join31 ==
  ASSUME NEW a, NEW b, NEW c, NEW d
  PROVE  <<a, b, c>> \o <<d>> = <<a, b, c, d>>
<1> DEFINE T == {a, b, c, d}
<1>1. a \in T /\ b \in T /\ c \in T /\ d \in T
  OBVIOUS
<1> HIDE DEF T
<1>2. <<a, b, c>> \in Seq(T) /\ <<d>> \in Seq(T) /\ <<a, b, c, d>> \in Seq(T)
  BY <1>1
<1>3. PICK s : s = <<a, b, c>> \o <<d>>
  OBVIOUS
<1>4. PICK t : t = <<a, b, c, d>>
  OBVIOUS
<1>5. s \in Seq(T) /\ Len(s) = 4 /\ s[1] = a /\ s[2] = b /\ s[3] = c /\ s[4] = d
  BY <1>2, <1>3
<1>6. t \in Seq(T) /\ Len(t) = 4 /\ t[1] = a /\ t[2] = b /\ t[3] = c /\ t[4] = d
  BY <1>2, <1>4
<1>7. \A i \in 1 .. Len(s) : s[i] = t[i]
  BY <1>5, <1>6
<1> QED
  BY <1>3, <1>4, <1>5, <1>6, <1>7, SeqEqual

LEMMA Join14 ==
  ASSUME NEW a, NEW b, NEW c, NEW d, NEW e
  PROVE  <<a>> \o <<b, c, d, e>> = <<a, b, c, d, e>>
<1> DEFINE T == {a, b, c, d, e}
<1>1. a \in T /\ b \in T /\ c \in T /\ d \in T /\ e \in T
  OBVIOUS
<1> HIDE DEF T
<1>2. <<a>> \in Seq(T) /\ <<b, c, d, e>> \in Seq(T) /\ <<a, b, c, d, e>> \in Seq(T)
  BY <1>1
<1>3. PICK s : s = <<a>> \o <<b, c, d, e>>
  OBVIOUS
<1>4. PICK t : t = <<a, b, c, d, e>>
  OBVIOUS
<1>5. s \in Seq(T) /\ Len(s) = 5 /\ s[1] = a /\ s[2] = b /\ s[3] = c /\ s[4] = d /\ s[5] = e
  BY <1>2, <1>3
<1>6. t \in Seq(T) /\ Len(t) = 5 /\ t[1] = a /\ t[2] = b /\ t[3] = c /\ t[4] = d /\ t[5] = e
  BY <1>2, <1>4
<1>7. \A i \in 1 .. Len(s) : s[i] = t[i]
  BY <1>5, <1>6
<1> QED
  BY <1>3, <1>4, <1>5, <1>6, <1>7, SeqEqual



-----------------------------------------------------------------------------
(* The formats of gOpcodeInfo.                                             *)

Does(s, class) == Class(s) = class /\ \A kind : Decodes(s, kind)

LEMMA SettingSteps ==
  /\ Does(src("bc", "bc"), "set")
  /\ Does(src("dest", "dest"), "set")
  /\ Does(src("il", "il"), "set")
BY DEF Does, Class, Decodes, Decodings, src, dst

LEMMA DestinationSteps ==
  /\ Does(dst("fd", "fpr"), "dst")
  /\ Does(dst("fd", "vf"), "dst")
  /\ Does(dst("fd", "vi"), "dst")
  /\ Does(dst("fs", "fpr"), "dst")
  /\ Does(dst("fs", "vf"), "dst")
  /\ Does(dst("ft", "fpr"), "dst")
  /\ Does(dst("ft", "vf"), "dst")
  /\ Does(dst("ft", "vi"), "dst")
  /\ Does(dst("rd", "cop0"), "dst")
  /\ Does(dst("rd", "gpr"), "dst")
  /\ Does(dst("rd", "vi"), "dst")
  /\ Does(dst("rt", "gpr"), "dst")
  /\ Does(dst("rt", "vi"), "dst")
  /\ Does(dst("zero", "vu_acc"), "dst")
  /\ Does(dst("zero", "vu_q"), "dst")
BY DEF Does, Class, Decodes, Decodings, src, dst

LEMMA SourceSteps ==
  /\ Does(src("fs", "fpr"), "src")
  /\ Does(src("fs", "vf"), "src")
  /\ Does(src("fs", "vi"), "src")
  /\ Does(src("ft", "fpr"), "src")
  /\ Does(src("ft", "vf"), "src")
  /\ Does(src("ft", "vi"), "src")
  /\ Does(src("rd", "cop0"), "src")
  /\ Does(src("rd", "vi"), "src")
  /\ Does(src("rs", "gpr"), "src")
  /\ Does(src("rt", "gpr"), "src")
  /\ Does(src("zero", "vu_q"), "src")
BY DEF Does, Class, Decodes, Decodings, src, dst

LEMMA ImmediateSteps ==
  /\ Does(src("imm15", "vcallms_target"), "imm")
  /\ Does(src("imm5", "imm"), "imm")
  /\ Does(src("sa", "imm"), "imm")
  /\ Does(src("simm16", "imm"), "imm")
  /\ Does(src("syscall", "imm"), "imm")
  /\ Does(src("zimm16", "imm"), "imm")
BY DEF Does, Class, Decodes, Decodings, src, dst

LEMMA TargetSteps ==
  /\ Does(src("simm16", "branch_target"), "target")
BY DEF Does, Class, Decodes, Decodings, src, dst

LEMMA ShapeOf1 ==
  ASSUME NEW a, NEW x,
         Does(a, x), NEW kind
  PROVE  HasShape(<<a>>, <<x>>, kind)
BY DEF HasShape, Does

LEMMA ShapeOfPair ==
  ASSUME NEW a, NEW b, NEW x, NEW y, NEW kind,
         Class(a) = x, Class(b) = y, Decodes(a, kind), Decodes(b, kind)
  PROVE  HasShape(<<a, b>>, <<x, y>>, kind)
<1>1. PICK all : all = <<a, b>>
  OBVIOUS
<1>2. PICK row : row = <<x, y>>
  OBVIOUS
<1>3. Len(all) = 2 /\ all[1] = a /\ all[2] = b
  BY <1>1
<1>4. Len(row) = 2 /\ row[1] = x /\ row[2] = y
  BY <1>2
<1>5. \A i \in 1 .. 2 : i = 1 \/ i = 2
  OBVIOUS
<1>6. \A i \in 1 .. 2 : Decodes(all[i], kind) /\ Class(all[i]) = row[i]
  BY <1>3, <1>4, <1>5
<1> QED
  BY <1>1, <1>2, <1>3, <1>4, <1>6 DEF HasShape

LEMMA ShapeOf2 ==
  ASSUME NEW a, NEW b, NEW x, NEW y,
         Does(a, x), Does(b, y), NEW kind
  PROVE  HasShape(<<a, b>>, <<x, y>>, kind)
BY ShapeOfPair DEF Does

LEMMA ShapeOf3 ==
  ASSUME NEW a, NEW b, NEW c, NEW x, NEW y, NEW z,
         Does(a, x), Does(b, y), Does(c, z), NEW kind
  PROVE  HasShape(<<a, b, c>>, <<x, y, z>>, kind)
<1>1. PICK all : all = <<a, b, c>>
  OBVIOUS
<1>2. PICK row : row = <<x, y, z>>
  OBVIOUS
<1>3. Len(all) = 3 /\ all[1] = a /\ all[2] = b /\ all[3] = c
  BY <1>1
<1>4. Len(row) = 3 /\ row[1] = x /\ row[2] = y /\ row[3] = z
  BY <1>2
<1>5. \A i \in 1 .. 3 : i = 1 \/ i = 2 \/ i = 3
  OBVIOUS
<1>6. \A i \in 1 .. 3 : Decodes(all[i], kind) /\ Class(all[i]) = row[i]
  BY <1>3, <1>4, <1>5 DEF Does
<1> QED
  BY <1>1, <1>2, <1>3, <1>4, <1>6 DEF HasShape

LEMMA ShapeOf4 ==
  ASSUME NEW a, NEW b, NEW c, NEW d, NEW x, NEW y, NEW z, NEW u,
         Does(a, x), Does(b, y), Does(c, z), Does(d, u), NEW kind
  PROVE  HasShape(<<a, b, c, d>>, <<x, y, z, u>>, kind)
<1>1. PICK all : all = <<a, b, c, d>>
  OBVIOUS
<1>2. PICK row : row = <<x, y, z, u>>
  OBVIOUS
<1>3. Len(all) = 4 /\ all[1] = a /\ all[2] = b /\ all[3] = c /\ all[4] = d
  BY <1>1
<1>4. Len(row) = 4 /\ row[1] = x /\ row[2] = y /\ row[3] = z /\ row[4] = u
  BY <1>2
<1>5. \A i \in 1 .. 4 : i = 1 \/ i = 2 \/ i = 3 \/ i = 4
  OBVIOUS
<1>6. \A i \in 1 .. 4 : Decodes(all[i], kind) /\ Class(all[i]) = row[i]
  BY <1>3, <1>4, <1>5 DEF Does
<1> QED
  BY <1>1, <1>2, <1>3, <1>4, <1>6 DEF HasShape

LEMMA ShapeOf5 ==
  ASSUME NEW a, NEW b, NEW c, NEW d, NEW e, NEW x, NEW y, NEW z, NEW u, NEW v,
         Does(a, x), Does(b, y), Does(c, z), Does(d, u), Does(e, v), NEW kind
  PROVE  HasShape(<<a, b, c, d, e>>, <<x, y, z, u, v>>, kind)
<1>1. PICK all : all = <<a, b, c, d, e>>
  OBVIOUS
<1>2. PICK row : row = <<x, y, z, u, v>>
  OBVIOUS
<1>3. Len(all) = 5 /\ all[1] = a /\ all[2] = b /\ all[3] = c /\ all[4] = d /\ all[5] = e
  BY <1>1
<1>4. Len(row) = 5 /\ row[1] = x /\ row[2] = y /\ row[3] = z /\ row[4] = u /\ row[5] = v
  BY <1>2
<1>5. \A i \in 1 .. 5 : i = 1 \/ i = 2 \/ i = 3 \/ i = 4 \/ i = 5
  OBVIOUS
<1>6. \A i \in 1 .. 5 : Decodes(all[i], kind) /\ Class(all[i]) = row[i]
  BY <1>3, <1>4, <1>5 DEF Does
<1> QED
  BY <1>1, <1>2, <1>3, <1>4, <1>6 DEF HasShape



(* A format that adds no target of a branch, whatever the opcode. *)
IsPlain(all) == \E row \in Shapes \ BranchShapes : \A kind : HasShape(all, row, kind)

LEMMA PlainShapes ==
  /\ <<"dst", "src", "imm">> \in Shapes \ BranchShapes
  /\ <<"dst", "src", "src">> \in Shapes \ BranchShapes
  /\ <<"src", "src">> \in Shapes \ BranchShapes
  /\ <<"dst", "imm">> \in Shapes \ BranchShapes
  /\ <<"dst", "src">> \in Shapes \ BranchShapes
  /\ <<"src">> \in Shapes \ BranchShapes
  /\ <<"src", "dst">> \in Shapes \ BranchShapes
  /\ <<"dst">> \in Shapes \ BranchShapes
  /\ <<"imm">> \in Shapes \ BranchShapes
  /\ <<"src", "imm">> \in Shapes \ BranchShapes
  /\ << >> \in Shapes \ BranchShapes
  /\ <<"set", "dst", "src">> \in Shapes \ BranchShapes
  /\ <<"set", "set", "dst", "src", "src">> \in Shapes \ BranchShapes
  /\ <<"set", "dst", "src", "src">> \in Shapes \ BranchShapes
  /\ <<"dst", "src", "src", "set">> \in Shapes \ BranchShapes
  /\ <<"set", "src", "src">> \in Shapes \ BranchShapes
  /\ <<"set", "dst">> \in Shapes \ BranchShapes
  /\ <<"dst", "src", "set">> \in Shapes \ BranchShapes
  /\ <<"set", "src", "dst">> \in Shapes \ BranchShapes
  /\ <<"set", "src">> \in Shapes \ BranchShapes
BY DEF Shapes, BranchShapes

LEMMA PlainOf0 == IsPlain(<< >>)
<1>1. \A kind : HasShape(<< >>, << >>, kind)
  BY DEF HasShape
<1>2. << >> \in Shapes \ BranchShapes
  BY PlainShapes
<1> QED
  BY <1>1, <1>2 DEF IsPlain

LEMMA PlainOf1 ==
  ASSUME NEW a, NEW x,
         Does(a, x),
         <<x>> \in Shapes \ BranchShapes
  PROVE  IsPlain(<<a>>)
<1>1. \A kind : HasShape(<<a>>, <<x>>, kind)
  BY ShapeOf1
<1> QED
  BY <1>1 DEF IsPlain

LEMMA PlainOf2 ==
  ASSUME NEW a, NEW b, NEW x, NEW y,
         Does(a, x), Does(b, y),
         <<x, y>> \in Shapes \ BranchShapes
  PROVE  IsPlain(<<a, b>>)
<1>1. \A kind : HasShape(<<a, b>>, <<x, y>>, kind)
  BY ShapeOf2
<1> QED
  BY <1>1 DEF IsPlain

LEMMA PlainOf3 ==
  ASSUME NEW a, NEW b, NEW c, NEW x, NEW y, NEW z,
         Does(a, x), Does(b, y), Does(c, z),
         <<x, y, z>> \in Shapes \ BranchShapes
  PROVE  IsPlain(<<a, b, c>>)
<1>1. \A kind : HasShape(<<a, b, c>>, <<x, y, z>>, kind)
  BY ShapeOf3
<1> QED
  BY <1>1 DEF IsPlain

LEMMA PlainOf4 ==
  ASSUME NEW a, NEW b, NEW c, NEW d, NEW x, NEW y, NEW z, NEW u,
         Does(a, x), Does(b, y), Does(c, z), Does(d, u),
         <<x, y, z, u>> \in Shapes \ BranchShapes
  PROVE  IsPlain(<<a, b, c, d>>)
<1>1. \A kind : HasShape(<<a, b, c, d>>, <<x, y, z, u>>, kind)
  BY ShapeOf4
<1> QED
  BY <1>1 DEF IsPlain

LEMMA PlainOf5 ==
  ASSUME NEW a, NEW b, NEW c, NEW d, NEW e, NEW x, NEW y, NEW z, NEW u, NEW v,
         Does(a, x), Does(b, y), Does(c, z), Does(d, u), Does(e, v),
         <<x, y, z, u, v>> \in Shapes \ BranchShapes
  PROVE  IsPlain(<<a, b, c, d, e>>)
<1>1. \A kind : HasShape(<<a, b, c, d, e>>, <<x, y, z, u, v>>, kind)
  BY ShapeOf5
<1> QED
  BY <1>1 DEF IsPlain

(* The formats of integer opcodes. *)
LEMMA IntegerFormats ==
  /\ IsPlain(drt_srs_ssimm16)
  /\ IsPlain(drt_srs_szimm16)
  /\ IsPlain(drd_srs_srt)
  /\ IsPlain(drd_srt_srs)
  /\ IsPlain(drd_srt_ssa)
  /\ IsPlain(<<src("rs", "gpr"), src("rt", "gpr")>>)
  /\ IsPlain(<<dst("rt", "gpr"), src("simm16", "imm")>>)
  /\ IsPlain(<<dst("rd", "gpr"), src("rs", "gpr")>>)
  /\ IsPlain(<<src("rs", "gpr")>>)
  /\ IsPlain(<<src("rt", "gpr")>>)
  /\ IsPlain(<<src("rt", "gpr"), dst("rd", "cop0")>>)
  /\ IsPlain(<<dst("rt", "gpr"), src("rd", "cop0")>>)
  /\ IsPlain(<<dst("rd", "gpr")>>)
  /\ IsPlain(<<src("syscall", "imm")>>)
  /\ IsPlain(<<src("rs", "gpr"), src("simm16", "imm")>>)
  /\ IsPlain(<< >>)
  /\ IsPlain(<<dst("rd", "gpr"), src("rt", "gpr")>>)
<1>1. IsPlain(drt_srs_ssimm16)
  BY DestinationSteps, SourceSteps, ImmediateSteps, PlainShapes, PlainOf3 DEF drt_srs_ssimm16
<1>2. IsPlain(drt_srs_szimm16)
  BY DestinationSteps, SourceSteps, ImmediateSteps, PlainShapes, PlainOf3 DEF drt_srs_szimm16
<1>3. IsPlain(drd_srs_srt)
  BY DestinationSteps, SourceSteps, PlainShapes, PlainOf3 DEF drd_srs_srt
<1>4. IsPlain(drd_srt_srs)
  BY DestinationSteps, SourceSteps, PlainShapes, PlainOf3 DEF drd_srt_srs
<1>5. IsPlain(drd_srt_ssa)
  BY DestinationSteps, SourceSteps, ImmediateSteps, PlainShapes, PlainOf3 DEF drd_srt_ssa
<1>6. IsPlain(<<src("rs", "gpr"), src("rt", "gpr")>>)
  BY SourceSteps, PlainShapes, PlainOf2
<1>7. IsPlain(<<dst("rt", "gpr"), src("simm16", "imm")>>)
  BY DestinationSteps, ImmediateSteps, PlainShapes, PlainOf2
<1>8. IsPlain(<<dst("rd", "gpr"), src("rs", "gpr")>>)
  BY DestinationSteps, SourceSteps, PlainShapes, PlainOf2
<1>9. IsPlain(<<src("rs", "gpr")>>)
  BY SourceSteps, PlainShapes, PlainOf1
<1>10. IsPlain(<<src("rt", "gpr")>>)
  BY SourceSteps, PlainShapes, PlainOf1
<1>11. IsPlain(<<src("rt", "gpr"), dst("rd", "cop0")>>)
  BY DestinationSteps, SourceSteps, PlainShapes, PlainOf2
<1>12. IsPlain(<<dst("rt", "gpr"), src("rd", "cop0")>>)
  BY DestinationSteps, SourceSteps, PlainShapes, PlainOf2
<1>13. IsPlain(<<dst("rd", "gpr")>>)
  BY DestinationSteps, PlainShapes, PlainOf1
<1>14. IsPlain(<<src("syscall", "imm")>>)
  BY ImmediateSteps, PlainShapes, PlainOf1
<1>15. IsPlain(<<src("rs", "gpr"), src("simm16", "imm")>>)
  BY SourceSteps, ImmediateSteps, PlainShapes, PlainOf2
<1>16. IsPlain(<< >>)
  BY PlainOf0
<1>17. IsPlain(<<dst("rd", "gpr"), src("rt", "gpr")>>)
  BY DestinationSteps, SourceSteps, PlainShapes, PlainOf2
<1> QED
  BY <1>1, <1>2, <1>3, <1>4, <1>5, <1>6, <1>7, <1>8, <1>9, <1>10, <1>11, <1>12, <1>13, <1>14, <1>15, <1>16, <1>17

(* The formats of the FPU's opcodes. *)
LEMMA FloatFormats ==
  /\ IsPlain(<<dst("rt", "gpr"), src("fs", "fpr")>>)
  /\ IsPlain(<<src("rt", "gpr"), dst("fs", "fpr")>>)
  /\ IsPlain(dfd_sfs)
  /\ IsPlain(sfs_sft)
  /\ IsPlain(dfd_sfs_sft)
<1>1. IsPlain(<<dst("rt", "gpr"), src("fs", "fpr")>>)
  BY DestinationSteps, SourceSteps, PlainShapes, PlainOf2
<1>2. IsPlain(<<src("rt", "gpr"), dst("fs", "fpr")>>)
  BY DestinationSteps, SourceSteps, PlainShapes, PlainOf2
<1>3. IsPlain(dfd_sfs)
  BY DestinationSteps, SourceSteps, PlainShapes, PlainOf2 DEF dfd_sfs
<1>4. IsPlain(sfs_sft)
  BY SourceSteps, PlainShapes, PlainOf2 DEF sfs_sft
<1>5. IsPlain(dfd_sfs_sft)
  <2>1. dfd_sfs_sft
          = <<dst("fd", "fpr"), src("fs", "fpr"), src("ft", "fpr")>>
    BY Join12 DEF dfd_sfs_sft, sfs_sft
  <2> QED
    BY <2>1, DestinationSteps, SourceSteps, PlainShapes, PlainOf3
<1> QED
  BY <1>1, <1>2, <1>3, <1>4, <1>5

(* Formats put together from more than two parts. *)
LEMMA RowsOfFour ==
  /\ cd_dvfd_svfs_svft = <<src("dest", "dest"), dst("fd", "vf"), src("fs", "vf"), src("ft", "vf")>>
  /\ cd_dacc_svfs_svft
       = <<src("dest", "dest"), dst("zero", "vu_acc"), src("fs", "vf"), src("ft", "vf")>>
  /\ cd \o dacc \o <<src("fs", "vf")>> \o sq
       = <<src("dest", "dest"), dst("zero", "vu_acc"), src("fs", "vf"), src("zero", "vu_q")>>
<1>1. PICK e : e = src("dest", "dest")
  OBVIOUS
<1>2. PICK d : d = dst("fd", "vf")
  OBVIOUS
<1>3. PICK a : a = dst("zero", "vu_acc")
  OBVIOUS
<1>4. PICK s : s = src("fs", "vf")
  OBVIOUS
<1>5. PICK t : t = src("ft", "vf")
  OBVIOUS
<1>6. PICK q : q = src("zero", "vu_q")
  OBVIOUS
<1>7. cd_dvfd_svfs_svft = (<<e>> \o <<d>>) \o <<s, t>>
  BY <1>1, <1>2, <1>4, <1>5 DEF cd_dvfd_svfs_svft, cd, svfs_svft
<1>8. cd_dacc_svfs_svft = (<<e>> \o <<a>>) \o <<s, t>>
  BY <1>1, <1>3, <1>4, <1>5 DEF cd_dacc_svfs_svft, cd, dacc, svfs_svft
<1>9. cd \o dacc \o <<src("fs", "vf")>> \o sq = ((<<e>> \o <<a>>) \o <<s>>) \o <<q>>
  BY <1>1, <1>3, <1>4, <1>6 DEF cd, dacc, sq
<1>10. <<e>> \o <<d>> = <<e, d>> /\ <<e>> \o <<a>> = <<e, a>>
  BY Join11
<1>11. <<e, d>> \o <<s, t>> = <<e, d, s, t>>
  BY Join22
<1>12. <<e, a>> \o <<s, t>> = <<e, a, s, t>>
  BY Join22
<1>13. <<e, a>> \o <<s>> = <<e, a, s>>
  BY Join21
<1>14. <<e, a, s>> \o <<q>> = <<e, a, s, q>>
  BY Join31
<1>15. cd_dvfd_svfs_svft = <<e, d, s, t>>
  BY <1>7, <1>10, <1>11
<1>16. cd_dacc_svfs_svft = <<e, a, s, t>>
  BY <1>8, <1>10, <1>12
<1>17. cd \o dacc \o <<src("fs", "vf")>> \o sq = <<e, a, s, q>>
  BY <1>9, <1>10, <1>13, <1>14
<1> QED
  BY <1>1, <1>2, <1>3, <1>4, <1>5, <1>6, <1>15, <1>16, <1>17

(* The formats of the vector unit's opcodes. *)
LEMMA VuFormats ==
  /\ IsPlain(cd_dvft_svfs)
  /\ IsPlain(cb \o cd_dvfd_svfs_svft)
  /\ IsPlain(cb \o cd_dacc_svfs_svft)
  /\ IsPlain(cd_dvfd_svfs_sq)
  /\ IsPlain(cd_dacc_svfs_svft)
  /\ IsPlain(cd_dvfd_svfs_svft)
  /\ IsPlain(dq \o svfs_svft \o cb)
  /\ IsPlain(cd \o svfs_svft)
  /\ IsPlain(cd \o dacc \o <<src("fs", "vf")>> \o sq)
  /\ IsPlain(cd \o <<dst("ft", "vf")>>)
  /\ IsPlain(<<dst("rt", "vi"), src("fs", "vf")>> \o cb)
  /\ IsPlain(<<dst("fd", "vi"), src("fs", "vi"), src("ft", "vi")>>)
  /\ IsPlain(cd \o <<dst("ft", "vf"), src("fs", "vi")>>)
  /\ IsPlain(cd \o <<src("fs", "vf"), src("ft", "vi")>>)
  /\ IsPlain(<<dst("ft", "vi"), src("fs", "vi"), src("imm5", "imm")>>)
  /\ IsPlain(il \o <<dst("rt", "gpr"), src("fs", "vf")>>)
  /\ IsPlain(il \o <<src("rt", "gpr"), dst("fs", "vf")>>)
  /\ IsPlain(il \o <<src("rt", "gpr"), dst("rd", "vi")>>)
  /\ IsPlain(il \o <<dst("rt", "gpr"), src("rd", "vi")>>)
  /\ IsPlain(cb \o dq \o <<src("ft", "vf")>>)
  /\ IsPlain(cb \o <<src("fs", "vf")>>)
  /\ IsPlain(<<src("imm15", "vcallms_target")>>)
  /\ IsPlain(<< >>)
<1>1. IsPlain(cd_dvft_svfs)
  <2>1. cd_dvft_svfs
          = <<src("dest", "dest"), dst("ft", "vf"), src("fs", "vf")>>
    BY Join12 DEF cd_dvft_svfs, cd
  <2> QED
    BY <2>1, DestinationSteps, SourceSteps, SettingSteps, PlainShapes, PlainOf3
<1>2. IsPlain(cb \o cd_dvfd_svfs_svft)
  <2>1. cb \o cd_dvfd_svfs_svft
          = <<src("bc", "bc"), src("dest", "dest"), dst("fd", "vf"), src("fs", "vf"), src("ft", "vf")>>
    BY RowsOfFour, Join14 DEF cb
  <2> QED
    BY <2>1, DestinationSteps, SourceSteps, SettingSteps, PlainShapes, PlainOf5
<1>3. IsPlain(cb \o cd_dacc_svfs_svft)
  <2>1. cb \o cd_dacc_svfs_svft
          = <<src("bc", "bc"), src("dest", "dest"), dst("zero", "vu_acc"), src("fs", "vf"), src("ft", "vf")>>
    BY RowsOfFour, Join14 DEF cb
  <2> QED
    BY <2>1, DestinationSteps, SourceSteps, SettingSteps, PlainShapes, PlainOf5
<1>4. IsPlain(cd_dvfd_svfs_sq)
  <2>1. cd_dvfd_svfs_sq
          = <<src("dest", "dest"), dst("fd", "vf"), src("fs", "vf"), src("zero", "vu_q")>>
    BY Join12, Join31 DEF cd_dvfd_svfs_sq, cd, sq
  <2> QED
    BY <2>1, DestinationSteps, SourceSteps, SettingSteps, PlainShapes, PlainOf4
<1>5. IsPlain(cd_dacc_svfs_svft)
  <2>1. cd_dacc_svfs_svft
          = <<src("dest", "dest"), dst("zero", "vu_acc"), src("fs", "vf"), src("ft", "vf")>>
    BY RowsOfFour
  <2> QED
    BY <2>1, DestinationSteps, SourceSteps, SettingSteps, PlainShapes, PlainOf4
<1>6. IsPlain(cd_dvfd_svfs_svft)
  <2>1. cd_dvfd_svfs_svft
          = <<src("dest", "dest"), dst("fd", "vf"), src("fs", "vf"), src("ft", "vf")>>
    BY RowsOfFour
  <2> QED
    BY <2>1, DestinationSteps, SourceSteps, SettingSteps, PlainShapes, PlainOf4
<1>7. IsPlain(dq \o svfs_svft \o cb)
  <2>1. dq \o svfs_svft \o cb
          = <<dst("zero", "vu_q"), src("fs", "vf"), src("ft", "vf"), src("bc", "bc")>>
    BY Join12, Join31 DEF dq, svfs_svft, cb
  <2> QED
    BY <2>1, DestinationSteps, SourceSteps, SettingSteps, PlainShapes, PlainOf4
<1>8. IsPlain(cd \o svfs_svft)
  <2>1. cd \o svfs_svft
          = <<src("dest", "dest"), src("fs", "vf"), src("ft", "vf")>>
    BY Join12 DEF cd, svfs_svft
  <2> QED
    BY <2>1, SourceSteps, SettingSteps, PlainShapes, PlainOf3
<1>9. IsPlain(cd \o dacc \o <<src("fs", "vf")>> \o sq)
  <2>1. cd \o dacc \o <<src("fs", "vf")>> \o sq
          = <<src("dest", "dest"), dst("zero", "vu_acc"), src("fs", "vf"), src("zero", "vu_q")>>
    BY RowsOfFour
  <2> QED
    BY <2>1, DestinationSteps, SourceSteps, SettingSteps, PlainShapes, PlainOf4
<1>10. IsPlain(cd \o <<dst("ft", "vf")>>)
  <2>1. cd \o <<dst("ft", "vf")>>
          = <<src("dest", "dest"), dst("ft", "vf")>>
    BY Join11 DEF cd
  <2> QED
    BY <2>1, DestinationSteps, SettingSteps, PlainShapes, PlainOf2
<1>11. IsPlain(<<dst("rt", "vi"), src("fs", "vf")>> \o cb)
  <2>1. <<dst("rt", "vi"), src("fs", "vf")>> \o cb
          = <<dst("rt", "vi"), src("fs", "vf"), src("bc", "bc")>>
    BY Join21 DEF cb
  <2> QED
    BY <2>1, DestinationSteps, SourceSteps, SettingSteps, PlainShapes, PlainOf3
<1>12. IsPlain(<<dst("fd", "vi"), src("fs", "vi"), src("ft", "vi")>>)
  BY DestinationSteps, SourceSteps, PlainShapes, PlainOf3
<1>13. IsPlain(cd \o <<dst("ft", "vf"), src("fs", "vi")>>)
  <2>1. cd \o <<dst("ft", "vf"), src("fs", "vi")>>
          = <<src("dest", "dest"), dst("ft", "vf"), src("fs", "vi")>>
    BY Join12 DEF cd
  <2> QED
    BY <2>1, DestinationSteps, SourceSteps, SettingSteps, PlainShapes, PlainOf3
<1>14. IsPlain(cd \o <<src("fs", "vf"), src("ft", "vi")>>)
  <2>1. cd \o <<src("fs", "vf"), src("ft", "vi")>>
          = <<src("dest", "dest"), src("fs", "vf"), src("ft", "vi")>>
    BY Join12 DEF cd
  <2> QED
    BY <2>1, SourceSteps, SettingSteps, PlainShapes, PlainOf3
<1>15. IsPlain(<<dst("ft", "vi"), src("fs", "vi"), src("imm5", "imm")>>)
  BY DestinationSteps, SourceSteps, ImmediateSteps, PlainShapes, PlainOf3
<1>16. IsPlain(il \o <<dst("rt", "gpr"), src("fs", "vf")>>)
  <2>1. il \o <<dst("rt", "gpr"), src("fs", "vf")>>
          = <<src("il", "il"), dst("rt", "gpr"), src("fs", "vf")>>
    BY Join12 DEF il
  <2> QED
    BY <2>1, DestinationSteps, SourceSteps, SettingSteps, PlainShapes, PlainOf3
<1>17. IsPlain(il \o <<src("rt", "gpr"), dst("fs", "vf")>>)
  <2>1. il \o <<src("rt", "gpr"), dst("fs", "vf")>>
          = <<src("il", "il"), src("rt", "gpr"), dst("fs", "vf")>>
    BY Join12 DEF il
  <2> QED
    BY <2>1, DestinationSteps, SourceSteps, SettingSteps, PlainShapes, PlainOf3
<1>18. IsPlain(il \o <<src("rt", "gpr"), dst("rd", "vi")>>)
  <2>1. il \o <<src("rt", "gpr"), dst("rd", "vi")>>
          = <<src("il", "il"), src("rt", "gpr"), dst("rd", "vi")>>
    BY Join12 DEF il
  <2> QED
    BY <2>1, DestinationSteps, SourceSteps, SettingSteps, PlainShapes, PlainOf3
<1>19. IsPlain(il \o <<dst("rt", "gpr"), src("rd", "vi")>>)
  <2>1. il \o <<dst("rt", "gpr"), src("rd", "vi")>>
          = <<src("il", "il"), dst("rt", "gpr"), src("rd", "vi")>>
    BY Join12 DEF il
  <2> QED
    BY <2>1, DestinationSteps, SourceSteps, SettingSteps, PlainShapes, PlainOf3
<1>20. IsPlain(cb \o dq \o <<src("ft", "vf")>>)
  <2>1. cb \o dq \o <<src("ft", "vf")>>
          = <<src("bc", "bc"), dst("zero", "vu_q"), src("ft", "vf")>>
    BY Join11, Join21 DEF cb, dq
  <2> QED
    BY <2>1, DestinationSteps, SourceSteps, SettingSteps, PlainShapes, PlainOf3
<1>21. IsPlain(cb \o <<src("fs", "vf")>>)
  <2>1. cb \o <<src("fs", "vf")>>
          = <<src("bc", "bc"), src("fs", "vf")>>
    BY Join11 DEF cb
  <2> QED
    BY <2>1, SourceSteps, SettingSteps, PlainShapes, PlainOf2
<1>22. IsPlain(<<src("imm15", "vcallms_target")>>)
  BY ImmediateSteps, PlainShapes, PlainOf1
<1>23. IsPlain(<< >>)
  BY PlainOf0
<1> QED
  BY <1>1, <1>2, <1>3, <1>4, <1>5, <1>6, <1>7, <1>8, <1>9, <1>10, <1>11, <1>12, <1>13, <1>14, <1>15, <1>16, <1>17, <1>18, <1>19, <1>20, <1>21, <1>22, <1>23


-----------------------------------------------------------------------------
(* The shape of every opcode's steps.                                      *)

Distinguished == is_branch \cup is_store \cup is_load

(* The row is that of the opcode's steps, and branches, stores and loads   *)
(* have the rows of their own.                                             *)
ShapeFits(all, row, kind) ==
  /\ row \in Shapes
  /\ HasShape(all, row, kind)
  /\ kind \in is_branch <=> row \in BranchShapes
  /\ kind \in is_store => row = StoreShape
  /\ kind \in is_load => row = LoadShape

Shaped(all, kind) == \E row : ShapeFits(all, row, kind)

LEMMA PlainIsShaped ==
  ASSUME NEW all, IsPlain(all), NEW kind, kind \notin Distinguished
  PROVE  Shaped(all, kind)
BY DEF IsPlain, Shaped, ShapeFits, Distinguished

LEMMA SpecialKinds ==
  /\ \A kind \in is_branch : kind \notin is_store /\ kind \notin is_load
  /\ \A kind \in is_store : kind \notin is_load
<1>1. \A kind \in is_branch : kind \notin is_store
  BY DEF is_branch, is_store
<1>2. \A kind \in is_branch : kind \notin is_load
  BY DEF is_branch, is_load
<1>3. \A kind \in is_store : kind \notin is_load
  BY DEF is_store, is_load
<1> QED
  BY <1>1, <1>2, <1>3

LEMMA SpecialShapes ==
  /\ BranchShapes \subseteq Shapes
  /\ StoreShape \in Shapes \ BranchShapes
  /\ LoadShape \in Shapes \ BranchShapes
<1>1. <<"target">> \in Shapes /\ <<"src", "target">> \in Shapes
      /\ <<"src", "src", "target">> \in Shapes
  BY DEF Shapes
<1>2. StoreShape \in Shapes \ BranchShapes
  BY DEF Shapes, BranchShapes, StoreShape
<1>3. LoadShape \in Shapes \ BranchShapes
  BY DEF Shapes, BranchShapes, LoadShape
<1> QED
  BY <1>1, <1>2, <1>3 DEF BranchShapes

LEMMA BranchIsShaped ==
  ASSUME NEW all, NEW kind \in is_branch,
         NEW row \in BranchShapes, HasShape(all, row, kind)
  PROVE  Shaped(all, kind)
BY SpecialKinds, SpecialShapes DEF Shaped, ShapeFits

LEMMA StoreIsShaped ==
  ASSUME NEW all, NEW kind, kind \notin is_branch, kind \notin is_load,
         HasShape(all, StoreShape, kind)
  PROVE  Shaped(all, kind)
BY SpecialKinds, SpecialShapes DEF Shaped, ShapeFits

LEMMA LoadIsShaped ==
  ASSUME NEW all, NEW kind, kind \notin is_branch, kind \notin is_store,
         HasShape(all, LoadShape, kind)
  PROVE  Shaped(all, kind)
BY SpecialKinds, SpecialShapes DEF Shaped, ShapeFits

LEMMA BranchFormats ==
  ASSUME NEW kind
  PROVE  /\ HasShape(bt, <<"target">>, kind)
         /\ HasShape(srs_bt, <<"src", "target">>, kind)
         /\ HasShape(srs_srt_bt, <<"src", "src", "target">>, kind)
<1>1. HasShape(bt, <<"target">>, kind)
  BY TargetSteps, ShapeOf1 DEF bt
<1>2. HasShape(srs_bt, <<"src", "target">>, kind)
  <2>1. srs_bt = <<src("rs", "gpr"), src("simm16", "branch_target")>>
    BY Join11 DEF srs_bt, bt
  <2> QED
    BY <2>1, TargetSteps, SourceSteps, ShapeOf2
<1>3. HasShape(srs_srt_bt, <<"src", "src", "target">>, kind)
  <2>1. srs_srt_bt = <<src("rs", "gpr"), src("rt", "gpr"), src("simm16", "branch_target")>>
    BY Join21 DEF srs_srt_bt, bt
  <2> QED
    BY <2>1, TargetSteps, SourceSteps, ShapeOf3
<1> QED
  BY <1>1, <1>2, <1>3

LEMMA MemoryFormats ==
  ASSUME NEW kind
  PROVE  /\ HasShape(srt_ssimm16_srs, StoreShape, kind)
         /\ HasShape(<<src("ft", "fpr"), src("simm16", "imm"), src("rs", "gpr")>>, StoreShape, kind)
         /\ HasShape(<<src("ft", "vf"), src("simm16", "imm"), src("rs", "gpr")>>, StoreShape, kind)
         /\ HasShape(drt_ssimm16_srs, LoadShape, kind)
         /\ HasShape(<<dst("ft", "fpr"), src("simm16", "imm"), src("rs", "gpr")>>, LoadShape, kind)
         /\ HasShape(<<dst("ft", "vf"), src("simm16", "imm"), src("rs", "gpr")>>, LoadShape, kind)
<1>1. HasShape(srt_ssimm16_srs, StoreShape, kind)
  BY SourceSteps, ImmediateSteps, ShapeOf3 DEF srt_ssimm16_srs, StoreShape
<1>2. HasShape(<<src("ft", "fpr"), src("simm16", "imm"), src("rs", "gpr")>>, StoreShape, kind)
  BY SourceSteps, ImmediateSteps, ShapeOf3 DEF StoreShape
<1>3. HasShape(<<src("ft", "vf"), src("simm16", "imm"), src("rs", "gpr")>>, StoreShape, kind)
  BY SourceSteps, ImmediateSteps, ShapeOf3 DEF StoreShape
<1>4. HasShape(drt_ssimm16_srs, LoadShape, kind)
  BY DestinationSteps, SourceSteps, ImmediateSteps, ShapeOf3 DEF drt_ssimm16_srs, LoadShape
<1>5. HasShape(<<dst("ft", "fpr"), src("simm16", "imm"), src("rs", "gpr")>>, LoadShape, kind)
  BY DestinationSteps, SourceSteps, ImmediateSteps, ShapeOf3 DEF LoadShape
<1>6. HasShape(<<dst("ft", "vf"), src("simm16", "imm"), src("rs", "gpr")>>, LoadShape, kind)
  BY DestinationSteps, SourceSteps, ImmediateSteps, ShapeOf3 DEF LoadShape
<1> QED
  BY <1>1, <1>2, <1>3, <1>4, <1>5, <1>6

(* The moves to and from performance counters. *)
LEMMA CounterFormats ==
  /\ Shaped(<<src("rt", "gpr"), dst("pcr", "pcr")>>, "mtpc")
  /\ Shaped(<<dst("rt", "gpr"), src("pcr", "pcr")>>, "mfpc")
<1>1. <<"src", "dst">> \in Shapes \ BranchShapes /\ <<"dst", "src">> \in Shapes \ BranchShapes
  BY PlainShapes
<1>2. \A kind \in CounterKinds : kind \notin is_branch /\ kind \notin is_store /\ kind \notin is_load
  BY DEF CounterKinds, is_branch, is_store, is_load
<1>3. /\ Class(src("rt", "gpr")) = "src" /\ Decodes(src("rt", "gpr"), "mtpc")
      /\ Class(dst("pcr", "pcr")) = "dst" /\ Decodes(dst("pcr", "pcr"), "mtpc")
      /\ Class(dst("rt", "gpr")) = "dst" /\ Decodes(dst("rt", "gpr"), "mfpc")
      /\ Class(src("pcr", "pcr")) = "src" /\ Decodes(src("pcr", "pcr"), "mfpc")
  BY DEF Decodes, Decodings, CounterKinds, Class, src, dst
<1>4. HasShape(<<src("rt", "gpr"), dst("pcr", "pcr")>>, <<"src", "dst">>, "mtpc")
  BY <1>3, ShapeOfPair
<1>5. HasShape(<<dst("rt", "gpr"), src("pcr", "pcr")>>, <<"dst", "src">>, "mfpc")
  BY <1>3, ShapeOfPair
<1>6. "mtpc" \in CounterKinds /\ "mfpc" \in CounterKinds
  BY DEF CounterKinds
<1> QED
  BY <1>1, <1>2, <1>4, <1>5, <1>6 DEF Shaped, ShapeFits

-----------------------------------------------------------------------------
(* The names in the tables of the FPU's and the vector unit's opcodes are  *)
(* none of those of branches, stores and loads.                            *)

(* What the tables say of opcodes that there are not. *)
Unknown == ""

FloatNames ==
  {"add.s", "sub.s", "mul.s", "div.s", "sqrt.s", "abs.s", "mov.s", "neg.s", "rsqrt.s",
   "adda.s", "mula.s", "madd.s", "msub.s", "madda.s", "msuba.s", "cvt.w.s", "max.s", "min.s",
   "c.eq.s", "c.lt.s", "c.le.s"}

VuNames ==
  {"vadd_bc", "vsub_bc", "vmadd_bc", "vmsub_bc", "vmax_bc", "vmini_bc", "vmul_bc",
   "vmulq", "vaddq", "vsubq", "vmsubq", "vadd", "vmadd", "vmul", "vmax", "vsub", "vmsub",
   "vopmsub", "vmini", "viaddi", "viand", "vcallms",
   "vadda_bc", "vmadda_bc", "vmsuba_bc", "vitof0", "vitof12", "vitof15",
   "vftoi0", "vftoi4", "vftoi12", "vmula_bc", "vmulaq", "vabs", "vclip", "vadda", "vmadda",
   "vmula", "vopmula", "vnop", "vmove", "vlqi", "vsqi", "vdiv", "vsqrt", "vrsqrt", "vwaitq",
   "vmtir", "vrnext", "vrget", "vrxor"}

LEMMA FloatTable == Range(S_table) \subseteq FloatNames \cup {Unknown}
<1>1. S_table \in Seq(FloatNames \cup {Unknown})
  BY SMTT(60) DEF S_table, FloatNames, Unknown
<1>2. PICK t : t = S_table
  OBVIOUS
<1>3. t \in Seq(FloatNames \cup {Unknown})
  BY <1>1, <1>2
<1> QED
  BY <1>2, <1>3 DEF Range

LEMMA VuTables == VuKinds \subseteq VuNames
<1>1. vu_sa_table \in Seq(VuNames \cup {Unknown})
  BY SMTT(60) DEF vu_sa_table, VuNames, Unknown
<1>2. Range(vu_sa_table) \subseteq VuNames \cup {Unknown}
  <2>1. PICK t : t = vu_sa_table
    OBVIOUS
  <2>2. t \in Seq(VuNames \cup {Unknown})
    BY <1>1, <2>1
  <2> QED
    BY <2>1, <2>2 DEF Range
<1>3. \A i \in 1 .. 7 : vu_rows[i] \in VuNames
  <2>1. /\ vu_rows[1] \in VuNames /\ vu_rows[2] \in VuNames /\ vu_rows[3] \in VuNames
        /\ vu_rows[4] \in VuNames /\ vu_rows[5] \in VuNames /\ vu_rows[6] \in VuNames
        /\ vu_rows[7] \in VuNames
    BY DEF vu_rows, VuNames
  <2>2. \A i \in 1 .. 7 : i = 1 \/ i = 2 \/ i = 3 \/ i = 4 \/ i = 5 \/ i = 6 \/ i = 7
    OBVIOUS
  <2> QED
    BY <2>1, <2>2
<1>4. \A n \in 0 .. 27 : n \div 4 + 1 \in 1 .. 7
  OBVIOUS
<1>5. \A n \in 0 .. 59 : vu_table[n] \in VuNames \cup {Unknown}
  <2> DEFINE low(n) == vu_rows[n \div 4 + 1]
             row(n, none) ==
               CASE n < 28 -> low(n)
                 [] n = 28 -> "vmulq" [] n = 32 -> "vaddq"   [] n = 36 -> "vsubq"
                 [] n = 37 -> "vmsubq" [] n = 40 -> "vadd"   [] n = 41 -> "vmadd"
                 [] n = 42 -> "vmul"  [] n = 43 -> "vmax"    [] n = 44 -> "vsub"
                 [] n = 45 -> "vmsub" [] n = 46 -> "vopmsub" [] n = 47 -> "vmini"
                 [] n = 50 -> "viaddi" [] n = 52 -> "viand"  [] n = 56 -> "vcallms"
                 [] OTHER -> none
             high(none) ==
               {"vmulq", "vaddq", "vsubq", "vmsubq", "vadd", "vmadd", "vmul", "vmax",
                "vsub", "vmsub", "vopmsub", "vmini", "viaddi", "viand", "vcallms", none}
  <2>1. vu_table = [n \in 0 .. 59 |-> row(n, Unknown)]
    BY Zenon DEF vu_table, Unknown
  <2>2. \A n \in 0 .. 27 : low(n) \in VuNames
    BY <1>3, <1>4
  <2>3. \A none : high(none) \subseteq VuNames \cup {none}
    BY DEF VuNames
  <2> HIDE DEF low
  <2>4. \A n \in 0 .. 59 : \A none : IF n < 28 THEN row(n, none) = low(n)
                                ELSE row(n, none) \in high(none)
    OBVIOUS
  <2> HIDE DEF row, high
  <2> QED
    BY <2>1, <2>2, <2>3, <2>4
<1>6. DOMAIN vu_table = 0 .. 59
  BY DEF vu_table
<1> QED
  BY <1>2, <1>5, <1>6 DEF VuKinds, Unknown

LEMMA NamesAreNotSpecial ==
  /\ FloatNames \cap Distinguished = {}
  /\ VuNames \cap Distinguished = {}
<1>1. \A kind \in FloatNames : kind \notin is_branch
  BY DEF FloatNames, is_branch
<1>2. \A kind \in FloatNames : kind \notin is_store
  BY DEF FloatNames, is_store
<1>3. \A kind \in FloatNames : kind \notin is_load
  BY DEF FloatNames, is_load
<1>4. \A kind \in VuNames : kind \notin is_branch
  BY DEF VuNames, is_branch
<1>5. \A kind \in VuNames : kind \notin is_store
  BY DEF VuNames, is_store
<1>6. \A kind \in VuNames : kind \notin is_load
  BY DEF VuNames, is_load
<1> QED
  BY <1>1, <1>2, <1>3, <1>4, <1>5, <1>6 DEF Distinguished

-----------------------------------------------------------------------------
(* The steps of every opcode have a shape.                                 *)

FloatSpecials == {"swc1", "lwc1", "bc1f", "bc1t", "bc1fl", "bc1tl"}

VuMoves == {"qmfc2", "qmtc2", "ctc2", "cfc2"}

IntegerBranches == {"beq", "bne", "beql", "bnel"}
RegisterBranches == {"bltz", "bgez", "blez", "bgtz", "bgezal", "bltzl", "bgtzl", "bgezl"}
IntegerStores == {"sb", "sh", "sw", "sd", "sq"}
IntegerLoads == {"lb", "lbu", "lh", "lhu", "lw", "lwu", "ld", "lq", "ldr", "ldl", "lwl", "lwr"}

LEMMA SpecialsByUnit ==
  Distinguished \subseteq IntegerBranches \cup RegisterBranches \cup IntegerStores \cup IntegerLoads
                    \cup FloatSpecials \cup {"sqc2", "lqc2"}
<1>1. is_branch \subseteq IntegerBranches \cup RegisterBranches \cup FloatSpecials
  BY DEF is_branch, IntegerBranches, RegisterBranches, FloatSpecials
<1>2. is_store \subseteq IntegerStores \cup FloatSpecials \cup {"sqc2"}
  BY DEF is_store, IntegerStores, FloatSpecials
<1>3. is_load \subseteq IntegerLoads \cup FloatSpecials \cup {"lqc2"}
  BY DEF is_load, IntegerLoads, FloatSpecials
<1> QED
  BY <1>1, <1>2, <1>3 DEF Distinguished

LEMMA IntegerIsShaped ==
  ASSUME NEW kind, kind \notin FloatSpecials, kind # "sqc2", kind # "lqc2"
  PROVE  Shaped(IntegerSteps(kind), kind)
<1>1. CASE kind \in IntegerBranches
  <2>1. kind \in is_branch
    BY <1>1 DEF IntegerBranches, is_branch
  <2>2. IntegerSteps(kind) = srs_srt_bt
    BY <1>1 DEF IntegerSteps, IntegerBranches
  <2>3. <<"src", "src", "target">> \in BranchShapes
    BY DEF BranchShapes
  <2> QED
    BY <2>1, <2>2, <2>3, BranchFormats, BranchIsShaped
<1>2. CASE kind \in RegisterBranches
  <2>1. kind \in is_branch
    BY <1>2 DEF RegisterBranches, is_branch
  <2>2. IntegerSteps(kind) = srs_bt
    BY <1>2 DEF IntegerSteps, RegisterBranches
  <2>3. <<"src", "target">> \in BranchShapes
    BY DEF BranchShapes
  <2> QED
    BY <2>1, <2>2, <2>3, BranchFormats, BranchIsShaped
<1>3. CASE kind \in IntegerStores \cup {"pref"}
  <2>1. kind \notin is_branch
    BY <1>3 DEF IntegerStores, is_branch
  <2>2. kind \notin is_load
    BY <1>3 DEF IntegerStores, is_load
  <2>3. IntegerSteps(kind) = srt_ssimm16_srs
    BY <1>3 DEF IntegerSteps, IntegerStores
  <2> QED
    BY <2>1, <2>2, <2>3, MemoryFormats, StoreIsShaped
<1>4. CASE kind \in IntegerLoads
  <2>1. kind \notin is_branch
    BY <1>4 DEF IntegerLoads, is_branch
  <2>2. kind \notin is_store
    BY <1>4 DEF IntegerLoads, is_store
  <2>3. IntegerSteps(kind) = drt_ssimm16_srs
    BY <1>4 DEF IntegerSteps, IntegerLoads
  <2> QED
    BY <2>1, <2>2, <2>3, MemoryFormats, LoadIsShaped
<1>5. CASE kind = "mtpc"
  <2>1. IntegerSteps(kind) = <<src("rt", "gpr"), dst("pcr", "pcr")>>
    BY <1>5 DEF IntegerSteps
  <2> QED
    BY <1>5, <2>1, CounterFormats
<1>6. CASE kind = "mfpc"
  <2>1. IntegerSteps(kind) = <<dst("rt", "gpr"), src("pcr", "pcr")>>
    BY <1>6 DEF IntegerSteps
  <2> QED
    BY <1>6, <2>1, CounterFormats
<1>7. CASE /\ kind \notin IntegerBranches /\ kind \notin RegisterBranches
           /\ kind \notin IntegerStores \cup {"pref"} /\ kind \notin IntegerLoads
           /\ kind # "mtpc" /\ kind # "mfpc"
  <2>1. kind \notin Distinguished
    BY <1>7, SpecialsByUnit
  <2>2. IntegerSteps(kind) \in
          {drt_srs_ssimm16, drt_srs_szimm16, drd_srs_srt, drd_srt_srs, drd_srt_ssa,
           <<src("rs", "gpr"), src("rt", "gpr")>>, <<dst("rt", "gpr"), src("simm16", "imm")>>,
           <<dst("rd", "gpr"), src("rs", "gpr")>>, <<src("rs", "gpr")>>, <<src("rt", "gpr")>>,
           <<src("rt", "gpr"), dst("rd", "cop0")>>, <<dst("rt", "gpr"), src("rd", "cop0")>>,
           <<dst("rd", "gpr")>>, <<src("syscall", "imm")>>,
           <<src("rs", "gpr"), src("simm16", "imm")>>, << >>,
           <<dst("rd", "gpr"), src("rt", "gpr")>>}
    BY <1>7 DEF IntegerSteps, IntegerBranches, RegisterBranches, IntegerStores, IntegerLoads
  <2>3. IsPlain(IntegerSteps(kind))
    BY <2>2, IntegerFormats
  <2> QED
    BY <2>1, <2>3, PlainIsShaped
<1> QED
  BY <1>1, <1>2, <1>3, <1>4, <1>5, <1>6, <1>7

LEMMA FloatIsShaped ==
  ASSUME NEW kind \in FloatKinds
  PROVE  Shaped(FloatSteps(kind), kind)
<1>1. CASE kind \in {"bc1f", "bc1t", "bc1fl", "bc1tl"}
  <2>1. kind \in is_branch
    BY <1>1 DEF is_branch
  <2>2. FloatSteps(kind) = bt
    BY <1>1 DEF FloatSteps
  <2>3. <<"target">> \in BranchShapes
    BY DEF BranchShapes
  <2> QED
    BY <2>1, <2>2, <2>3, BranchFormats, BranchIsShaped
<1>2. CASE kind = "swc1"
  <2>1. kind \notin is_branch /\ kind \notin is_load
    BY <1>2 DEF is_branch, is_load
  <2>2. FloatSteps(kind) = <<src("ft", "fpr"), src("simm16", "imm"), src("rs", "gpr")>>
    BY <1>2 DEF FloatSteps
  <2> QED
    BY <2>1, <2>2, MemoryFormats, StoreIsShaped
<1>3. CASE kind = "lwc1"
  <2>1. kind \notin is_branch /\ kind \notin is_store
    BY <1>3 DEF is_branch, is_store
  <2>2. FloatSteps(kind) = <<dst("ft", "fpr"), src("simm16", "imm"), src("rs", "gpr")>>
    BY <1>3 DEF FloatSteps
  <2> QED
    BY <2>1, <2>2, MemoryFormats, LoadIsShaped
<1>4. CASE kind \notin FloatSpecials
  <2>1. kind \in FloatNames \cup {"mfc1", "mtc1", "cvt.s.w"}
    BY <1>4, FloatTable DEF FloatKinds, FloatSpecials, Unknown
  <2>2. "mfc1" \notin Distinguished /\ "mtc1" \notin Distinguished /\ "cvt.s.w" \notin Distinguished
    BY DEF Distinguished, is_branch, is_store, is_load
  <2>3. kind \notin Distinguished
    BY <2>1, <2>2, NamesAreNotSpecial
  <2>4. FloatSteps(kind) \in
          {<<dst("rt", "gpr"), src("fs", "fpr")>>, <<src("rt", "gpr"), dst("fs", "fpr")>>,
           dfd_sfs, sfs_sft, dfd_sfs_sft}
    BY <1>4 DEF FloatSteps, FloatSpecials
  <2>5. IsPlain(FloatSteps(kind))
    BY <2>4, FloatFormats
  <2> QED
    BY <2>3, <2>5, PlainIsShaped
<1> QED
  BY <1>1, <1>2, <1>3, <1>4 DEF FloatSpecials

LEMMA VuIsShaped ==
  ASSUME NEW kind \in VuKinds \cup {"sqc2", "lqc2"} \cup VuMoves
  PROVE  Shaped(VuSteps(kind), kind)
<1>4. "sqc2" \notin Range(vu_rows) /\ "lqc2" \notin Range(vu_rows)
  <2>1. PICK t : t = vu_rows
    OBVIOUS
  <2>2. t \in Seq(VuNames)
    BY <2>1 DEF vu_rows, VuNames
  <2>3. "sqc2" \notin VuNames /\ "lqc2" \notin VuNames
    BY DEF VuNames
  <2> QED
    BY <2>1, <2>2, <2>3 DEF Range
<1>1. CASE kind = "sqc2"
  <2>1. kind \notin is_branch /\ kind \notin is_load
    BY <1>1 DEF is_branch, is_load
  <2>2. VuSteps(kind) = <<src("ft", "vf"), src("simm16", "imm"), src("rs", "gpr")>>
    BY <1>1, <1>4 DEF VuSteps
  <2> QED
    BY <2>1, <2>2, MemoryFormats, StoreIsShaped
<1>2. CASE kind = "lqc2"
  <2>1. kind \notin is_branch /\ kind \notin is_store
    BY <1>2 DEF is_branch, is_store
  <2>2. VuSteps(kind) = <<dst("ft", "vf"), src("simm16", "imm"), src("rs", "gpr")>>
    BY <1>2, <1>4 DEF VuSteps
  <2> QED
    BY <2>1, <2>2, MemoryFormats, LoadIsShaped
<1>3. CASE kind # "sqc2" /\ kind # "lqc2"
  <2>1. kind \in VuNames \cup VuMoves
    BY <1>3, VuTables
  <2>2. VuMoves \cap Distinguished = {}
    BY DEF VuMoves, Distinguished, is_branch, is_store, is_load
  <2>3. kind \notin Distinguished
    BY <2>1, <2>2, NamesAreNotSpecial
  <2>4. VuSteps(kind) \in
          {cd_dvft_svfs, cb \o cd_dvfd_svfs_svft, cb \o cd_dacc_svfs_svft, cd_dvfd_svfs_sq,
           cd_dacc_svfs_svft, cd_dvfd_svfs_svft, dq \o svfs_svft \o cb, cd \o svfs_svft,
           cd \o dacc \o <<src("fs", "vf")>> \o sq, cd \o <<dst("ft", "vf")>>,
           <<dst("rt", "vi"), src("fs", "vf")>> \o cb,
           <<dst("fd", "vi"), src("fs", "vi"), src("ft", "vi")>>,
           cd \o <<dst("ft", "vf"), src("fs", "vi")>>, cd \o <<src("fs", "vf"), src("ft", "vi")>>,
           <<dst("ft", "vi"), src("fs", "vi"), src("imm5", "imm")>>,
           il \o <<dst("rt", "gpr"), src("fs", "vf")>>, il \o <<src("rt", "gpr"), dst("fs", "vf")>>,
           il \o <<src("rt", "gpr"), dst("rd", "vi")>>, il \o <<dst("rt", "gpr"), src("rd", "vi")>>,
           cb \o dq \o <<src("ft", "vf")>>, cb \o <<src("fs", "vf")>>,
           <<src("imm15", "vcallms_target")>>, << >>}
    BY <1>3 DEF VuSteps
  <2>5. IsPlain(VuSteps(kind))
    BY <2>4, VuFormats
  <2> QED
    BY <2>3, <2>5, PlainIsShaped
<1> QED
  BY <1>1, <1>2, <1>3

LEMMA KindIsShaped ==
  ASSUME NEW kind
  PROVE  Shaped(steps(kind), kind)
<1> DEFINE Vector == VuKinds \cup {"sqc2", "lqc2"} \cup VuMoves
<1>1. VuKinds \cup {"sqc2", "lqc2", "qmfc2", "qmtc2", "ctc2", "cfc2"} = Vector
  BY DEF VuMoves
<1>2. steps(kind) = CASE kind \in Vector -> VuSteps(kind)
                      [] kind \in FloatKinds -> FloatSteps(kind)
                      [] OTHER -> IntegerSteps(kind)
  BY <1>1 DEF steps
<1>3. kind \notin Vector => kind # "sqc2" /\ kind # "lqc2"
  OBVIOUS
<1>4. FloatSpecials \subseteq FloatKinds
  BY DEF FloatSpecials, FloatKinds
<1>5. kind \in Vector => Shaped(VuSteps(kind), kind)
  BY VuIsShaped
<1>6. kind \in FloatKinds => Shaped(FloatSteps(kind), kind)
  BY FloatIsShaped
<1>7. kind \notin Vector /\ kind \notin FloatKinds => Shaped(IntegerSteps(kind), kind)
  BY <1>3, <1>4, IntegerIsShaped
<1> HIDE DEF Vector
<1> QED
  BY <1>2, <1>5, <1>6, <1>7

-----------------------------------------------------------------------------
(* What the steps read of a word, and the atoms they make of it.           *)

LEMMA FieldTypes ==
  ASSUME NEW w \in Words
  PROVE  /\ w.op \in 0 .. 63 /\ w.rs \in 0 .. 31 /\ w.rt \in 0 .. 31
         /\ w.rd \in 0 .. 31 /\ w.sa \in 0 .. 31 /\ w.fn \in 0 .. 63
<1>1. 0 .. 2^6 - 1 = 0 .. 63 /\ 0 .. 2^5 - 1 = 0 .. 31
  BY SMT
<1> DEFINE Range_(n) == 0 .. 2^n - 1
<1>2. \A f \in DOMAIN Width : w[f] \in Range_(Width[f])
  BY WordsAssumption
<1>3. /\ "op" \in DOMAIN Width /\ Width["op"] = 6 /\ "fn" \in DOMAIN Width /\ Width["fn"] = 6
      /\ \A f \in {"rs", "rt", "rd", "sa"} : f \in DOMAIN Width /\ Width[f] = 5
  BY DEF Width
<1>4. Range_(6) = 0 .. 63 /\ Range_(5) = 0 .. 31
  BY <1>1
<1> HIDE DEF Range_
<1>5. w["op"] \in 0 .. 63 /\ w["fn"] \in 0 .. 63
  BY <1>2, <1>3, <1>4
<1>6. \A f \in {"rs", "rt", "rd", "sa"} : w[f] \in 0 .. 31
  BY <1>2, <1>3, <1>4
<1> QED
  BY <1>5, <1>6

Numbers == {"rs", "rt", "rd", "fs", "ft", "fd", "sa", "imm5"}

LEMMA NumberTypes ==
  ASSUME NEW w \in Words, NEW f \in Numbers
  PROVE  value(w, f) \in 0 .. 31
<1>1. value(w, f) \in {w.rs, w.rt, w.rd, w.sa}
  BY SMT DEF Numbers, value
<1> QED
  BY <1>1, FieldTypes

(* The numbers that take more than one field, and their ranges. *)
Half(rd, sa, fn) == 2048 * rd + 64 * sa + fn
Signed(rd, half) == IF rd >= 16 THEN half - 65536 ELSE half
Code(rs, rt, rd, sa) == 32768 * rs + 1024 * rt + 32 * rd + sa
Call(rt, rd, sa) == 1024 * rt + 32 * rd + sa

Bits5 == 0 .. 31
Bits6 == 0 .. 63
Bits15 == {v \in Int : 0 <= v /\ v <= 32767}
Bits16 == {v \in Int : 0 <= v /\ v <= 65535}
Signed16 == {v \in Int : -32768 <= v /\ v <= 32767}
ImmediateRange == -32768 .. 2^20 - 1

LEMMA HalfWord ==
  ASSUME NEW rd \in Bits5, NEW sa \in Bits5, NEW fn \in Bits6
  PROVE  Half(rd, sa, fn) \in Bits16
BY SMT DEF Half, Bits5, Bits6, Bits16

LEMMA SignedHalfWord ==
  ASSUME NEW rd \in Bits5, NEW sa \in Bits5, NEW fn \in Bits6
  PROVE  Signed(rd, Half(rd, sa, fn)) \in Signed16
<1>1. CASE rd >= 16
  BY <1>1, SMT DEF Half, Signed, Bits5, Bits6, Signed16
<1>2. CASE ~(rd >= 16)
  BY <1>2, SMT DEF Half, Signed, Bits5, Bits6, Signed16
<1> QED
  BY <1>1, <1>2

LEMMA LongField ==
  ASSUME NEW rs \in Bits5, NEW rt \in Bits5, NEW rd \in Bits5, NEW sa \in Bits5
  PROVE  Code(rs, rt, rd, sa) \in ImmediateRange
BY SMT DEF Code, Bits5, ImmediateRange

LEMMA CallField ==
  ASSUME NEW rt \in Bits5, NEW rd \in Bits5, NEW sa \in Bits5
  PROVE  Call(rt, rd, sa) \in Bits15
BY SMT DEF Call, Bits5, Bits15

LEMMA Ranges ==
  /\ Bits5 \subseteq ImmediateRange
  /\ Bits16 \subseteq ImmediateRange
  /\ Signed16 \subseteq ImmediateRange
  /\ \A v \in Bits15 : 8 * v \in ImmediateRange
<1>1. \A v \in Bits5 : v \in ImmediateRange
  BY SMT DEF Bits5, ImmediateRange
<1>2. \A v \in Bits16 : v \in ImmediateRange
  BY SMT DEF Bits16, ImmediateRange
<1>3. \A v \in Signed16 : v \in ImmediateRange
  BY SMT DEF Signed16, ImmediateRange
<1>4. \A v \in Bits15 : 8 * v \in ImmediateRange
  BY SMT DEF Bits15, ImmediateRange
<1> QED
  BY <1>1, <1>2, <1>3, <1>4

LEMMA FieldBits ==
  ASSUME NEW w \in Words
  PROVE  /\ w.rs \in Bits5 /\ w.rt \in Bits5 /\ w.rd \in Bits5 /\ w.sa \in Bits5
         /\ w.fn \in Bits6
BY FieldTypes DEF Bits5, Bits6

LEMMA HalfWordTypes ==
  ASSUME NEW w \in Words
  PROVE  value(w, "simm16") \in Signed16 /\ value(w, "zimm16") \in Bits16
<1>1. imm16(w) = Half(w.rd, w.sa, w.fn)
  BY SMT DEF imm16, Half
<1>2. value(w, "simm16") = Signed(w.rd, imm16(w))
  BY SMT DEF value, Signed
<1>3. value(w, "zimm16") = imm16(w)
  BY SMT DEF value
<1> QED
  BY <1>1, <1>2, <1>3, FieldBits, HalfWord, SignedHalfWord

LEMMA LongFieldTypes ==
  ASSUME NEW w \in Words
  PROVE  value(w, "syscall") \in ImmediateRange /\ value(w, "imm15") \in Bits15
<1>1. value(w, "syscall") = Code(w.rs, w.rt, w.rd, w.sa)
  BY SMT DEF value, Code
<1>2. value(w, "imm15") = Call(w.rt, w.rd, w.sa)
  BY SMT DEF value, Call
<1> QED
  BY <1>1, <1>2, FieldBits, LongField, CallField

LEMMA PropertyTypes ==
  ASSUME NEW w \in Words
  PROVE  /\ value(w, "il") \in 0 .. 1
         /\ value(w, "bc") \in 0 .. 3
         /\ value(w, "dest") \in 0 .. 15
<1>1. value(w, "il") = w.fn % 2
  BY SMT DEF value
<1>2. value(w, "bc") = w.fn % 4
  BY SMT DEF value
<1>3. value(w, "dest") = w.rs % 16
  BY SMT DEF value, dest
<1>4. w.fn \in 0 .. 63 /\ w.rs \in 0 .. 31
  BY FieldTypes
<1> QED
  BY <1>1, <1>2, <1>3, <1>4, SMT

LEMMA OtherValues ==
  ASSUME NEW w \in Words
  PROVE  /\ value(w, "zero") = 0
         /\ value(w, "pcr") = w.fn \div 2
         /\ w.fn \div 2 \in 0 .. 31
<1>1. value(w, "zero") = 0
  BY SMT DEF value
<1>2. value(w, "pcr") = w.fn \div 2
  BY SMT DEF value
<1>3. w.fn \in 0 .. 63
  BY FieldTypes
<1>4. w.fn \div 2 \in 0 .. 31
  BY <1>3, SMT
<1> QED
  BY <1>1, <1>2, <1>4

(* A step that adds an atom adds one of Atoms, and one that is an immediate *)
(* or a label exactly when the step is.                                     *)
AtomFits(w, s) ==
  /\ atom(w, s) \in Atoms
  /\ atom(w, s)[1] = "imm" <=> Class(s) = "imm"
  /\ atom(w, s)[1] = "label" <=> Class(s) = "target"
  /\ atom(w, s)[1] # "sym"

LEMMA PcrFits ==
  ASSUME NEW w \in Words, NEW s, s.is_src \in BOOLEAN, s.field = "pcr", s.decode = "pcr",
         value(w, s.field) < 2
  PROVE  AtomFits(w, s)
<1>1. atom(w, s) = <<"pcr", value(w, s.field)>>
  BY DEF atom
<1>2. value(w, s.field) \in 0 .. 1
  BY OtherValues, SMT
<1>3. atom(w, s) \in Atoms
  BY <1>1, <1>2 DEF Atoms, Registers
<1>4. Class(s) # "imm" /\ Class(s) # "target"
  BY DEF Class
<1> QED
  BY <1>1, <1>3, <1>4 DEF AtomFits

LEMMA RegisterFits ==
  ASSUME NEW w \in Words, NEW s, s.is_src \in BOOLEAN, s.field \in Numbers,
         s.decode \in {"gpr", "fpr", "vf", "vi", "cop0"}
  PROVE  AtomFits(w, s)
<1>1. atom(w, s) = <<s.decode, value(w, s.field)>>
  BY DEF atom
<1>2. value(w, s.field) \in 0 .. 31
  BY NumberTypes
<1>3. atom(w, s) \in Atoms
  BY <1>1, <1>2 DEF Atoms, Registers
<1>4. Class(s) # "imm" /\ Class(s) # "target"
  BY DEF Class
<1> QED
  BY <1>1, <1>3, <1>4 DEF AtomFits

LEMMA ZeroFits ==
  ASSUME NEW w \in Words, NEW s, s.is_src \in BOOLEAN, s.field = "zero",
         s.decode \in {"vu_q", "vu_acc"}
  PROVE  AtomFits(w, s)
<1>1. atom(w, s) = <<s.decode, 0>>
  BY OtherValues, SMT DEF atom
<1>3. atom(w, s) \in Atoms
  BY <1>1 DEF Atoms
<1>4. Class(s) # "imm" /\ Class(s) # "target"
  BY DEF Class
<1> QED
  BY <1>1, <1>3, <1>4 DEF AtomFits

LEMMA ImmediateIsAtom ==
  ASSUME NEW v \in ImmediateRange
  PROVE  <<"imm", v>> \in Atoms
<1>1. Immediates = {"imm"} \X ImmediateRange
  BY DEF Immediates, ImmediateRange
<1> QED
  BY <1>1 DEF Atoms

LEMMA ImmediateFits ==
  ASSUME NEW w \in Words, NEW s, s.is_src = TRUE,
         s.field \in {"sa", "imm5", "simm16", "zimm16", "syscall"}, s.decode = "imm"
  PROVE  AtomFits(w, s)
<1>1. atom(w, s) = <<"imm", value(w, s.field)>>
  BY DEF atom
<1>2. value(w, s.field) \in ImmediateRange
  <2>1. CASE s.field = "sa" \/ s.field = "imm5"
    <3>1. s.field \in Numbers
      BY <2>1 DEF Numbers
    <3> QED
      BY <3>1, NumberTypes, Ranges DEF Bits5
  <2>2. CASE s.field = "simm16"
    BY <2>2, HalfWordTypes, Ranges
  <2>3. CASE s.field = "zimm16"
    BY <2>3, HalfWordTypes, Ranges
  <2>4. CASE s.field = "syscall"
    BY <2>4, LongFieldTypes, Ranges
  <2> QED
    BY <2>1, <2>2, <2>3, <2>4
<1>3. atom(w, s) \in Atoms
  BY <1>1, <1>2, ImmediateIsAtom
<1>4. Class(s) = "imm"
  BY DEF Class
<1> QED
  BY <1>1, <1>3, <1>4 DEF AtomFits

LEMMA CallFits ==
  ASSUME NEW w \in Words, NEW s, s.is_src = TRUE,
         s.field = "imm15", s.decode = "vcallms_target"
  PROVE  AtomFits(w, s)
<1>1. atom(w, s) = <<"imm", 8 * value(w, "imm15")>>
  BY DEF atom
<1>2. 8 * value(w, "imm15") \in ImmediateRange
  BY LongFieldTypes, Ranges
<1>3. atom(w, s) \in Atoms
  BY <1>1, <1>2, ImmediateIsAtom
<1>4. Class(s) = "imm"
  BY DEF Class
<1> QED
  BY <1>1, <1>3, <1>4 DEF AtomFits

LEMMA TargetPlace ==
  ASSUME NEW v \in Signed16, NEW place \in Nat
  PROVE  4 * (place + v + 1) \in 4 * (place - 32767) .. 4 * (place + 32768)
BY SMT DEF Signed16

LEMMA TargetFits ==
  ASSUME NEW w \in Words, NEW s, s.is_src = TRUE,
         s.field = "simm16", s.decode = "branch_target"
  PROVE  AtomFits(w, s)
<1> DEFINE Place(v) == 4 * (WordId + v + 1)
           Places == 4 * (WordId - 32767) .. 4 * (WordId + 32768)
<1>1. \A v \in Signed16 : Place(v) \in Places
  BY WordsAssumption, TargetPlace
<1>2. atom(w, s) = <<"label", Place(value(w, "simm16"))>>
  BY DEF atom
<1>3. Labels = {"label"} \X Places
  BY DEF Labels
<1> HIDE DEF Place, Places
<1>4. Place(value(w, "simm16")) \in Places
  BY <1>1, HalfWordTypes
<1>5. atom(w, s) \in Atoms
  BY <1>2, <1>3, <1>4 DEF Atoms
<1>6. Class(s) = "target"
  BY DEF Class
<1> QED
  BY <1>2, <1>5, <1>6 DEF AtomFits

LEMMA StepFits ==
  ASSUME NEW w \in Words, NEW s, NEW kind, Decodes(s, kind), Class(s) # "set",
         s.decode = "pcr" => value(w, s.field) < 2
  PROVE  AtomFits(w, s)
<1>1. s.is_src \in BOOLEAN
  BY DEF Decodes
<1>2. s.decode \notin {"il", "bc", "dest"}
  BY DEF Class
<1>3. CASE s.decode = "pcr"
  <2>1. s.field = "pcr"
    BY <1>3 DEF Decodes, Decodings
  <2> QED
    BY <1>1, <1>3, <2>1, PcrFits
<1>4. CASE s.decode \in {"gpr", "fpr", "vf", "vi", "cop0"}
  <2>1. s.field \in Numbers
    BY <1>4 DEF Decodes, Decodings, Numbers
  <2> QED
    BY <1>1, <1>4, <2>1, RegisterFits
<1>5. CASE s.decode \in {"vu_q", "vu_acc"}
  <2>1. s.field = "zero"
    BY <1>5 DEF Decodes, Decodings
  <2> QED
    BY <1>1, <1>5, <2>1, ZeroFits
<1>6. CASE s.decode = "imm"
  <2>1. s.is_src = TRUE /\ s.field \in {"sa", "imm5", "simm16", "zimm16", "syscall"}
    BY <1>6 DEF Decodes, Decodings
  <2> QED
    BY <1>6, <2>1, ImmediateFits
<1>7. CASE s.decode = "vcallms_target"
  <2>1. s.is_src = TRUE /\ s.field = "imm15"
    BY <1>7 DEF Decodes, Decodings
  <2> QED
    BY <1>7, <2>1, CallFits
<1>8. CASE s.decode = "branch_target"
  <2>1. s.is_src = TRUE /\ s.field = "simm16"
    BY <1>8 DEF Decodes, Decodings
  <2> QED
    BY <1>8, <2>1, TargetFits
<1>9. s.decode \in {"pcr", "gpr", "fpr", "vf", "vi", "cop0", "vu_q", "vu_acc", "imm",
                    "vcallms_target", "branch_target"}
  BY <1>2 DEF Decodes, Decodings
<1> QED
  BY <1>3, <1>4, <1>5, <1>6, <1>7, <1>8, <1>9

LEMMA SettingFits ==
  ASSUME NEW w \in Words, NEW s, NEW kind, Decodes(s, kind), Class(s) = "set"
  PROVE  \/ s.decode = "il" /\ value(w, s.field) \in 0 .. 1
         \/ s.decode = "bc" /\ value(w, s.field) \in 0 .. 3
         \/ s.decode = "dest" /\ value(w, s.field) \in 0 .. 15
<1>1. s.decode \in {"il", "bc", "dest"}
  BY DEF Class
<1>2. s.field = s.decode
  BY <1>1 DEF Decodes, Decodings
<1>3. CASE s.decode = "il"
  BY <1>2, <1>3, PropertyTypes
<1>4. CASE s.decode = "bc"
  BY <1>2, <1>4, PropertyTypes
<1>5. CASE s.decode = "dest"
  BY <1>2, <1>5, PropertyTypes
<1> QED
  BY <1>1, <1>3, <1>4, <1>5

-----------------------------------------------------------------------------
(* The invariant.                                                          *)

Shape(kind) == CHOOSE row \in Shapes : ShapeFits(steps(kind), row, kind)

LEMMA ShapeOfKind ==
  ASSUME NEW kind
  PROVE  ShapeFits(steps(kind), Shape(kind), kind)
<1>1. \E row \in Shapes : ShapeFits(steps(kind), row, kind)
  BY KindIsShaped DEF Shaped, ShapeFits
<1> QED
  BY <1>1 DEF Shape

Fields == {"kind", "src", "dst", "il", "bc", "dest"}

SrcAtoms == Atoms \cup {Linked["hi_ptr"]}

InsnOK(i) ==
  /\ DOMAIN i = Fields
  /\ i.src \in Seq(SrcAtoms) /\ i.dst \in Seq(Atoms)
  /\ i.il \in -1 .. 1 /\ i.bc \in -1 .. 3 /\ i.dest \in -1 .. 15

(* The atoms that the first k steps have added: one for every step that    *)
(* adds one, in their order.                                               *)
AddedSoFar(i, k) ==
  LET row == Shape(i.kind)
  IN /\ k \in 0 .. Len(row)
     /\ Len(i.src) = Added(row, k, Sources)
     /\ Len(i.dst) = Added(row, k, Destinations)

(* The sources are those of the first k steps. *)
Traced(w, all, row, k, atoms) ==
  /\ \A i \in 1 .. k : row[i] \in Sources =>
       /\ Added(row, i, Sources) \in 1 .. Len(atoms)
       /\ atoms[Added(row, i, Sources)] = atom(w, all[i])
       /\ AtomFits(w, all[i])
  /\ \A j \in 1 .. Len(atoms) :
       \E i \in 1 .. k : row[i] \in Sources /\ Added(row, i, Sources) = j

(* The parts of ReferencesAreOperands, for an instruction that is decoded. *)
HasTarget(i, l) ==
  /\ Cardinality(LabelsOf(i.src)) <= 1
  /\ LabelsOf(i.src) # {} <=>
       i.kind \in is_branch \/ (l \in {"hi_ptr", "lo_ptr"} /\ i.kind # Unknown)

ImmsOf(atoms) == {i \in DOMAIN atoms : atoms[i][1] = "imm"}

ShowsLink(i, l) ==
  i.kind # Unknown /\ l # "plain" =>
    /\ Cardinality({j \in DOMAIN i.src : i.src[j] = Linked[l]}) = 1
    /\ ImmsOf(i.src) = {}

DecodeInv ==
  /\ word \in Words /\ link \in Links
  /\ pc \in {"opcode", "steps", "print", "done", "aborted"}
  /\ InsnOK(insn)
  /\ pc = "opcode" => insn.kind = Unknown
  /\ insn.kind = Unknown => step = 0 /\ insn.src = << >> /\ insn.dst = << >>
  /\ insn.kind # Unknown => AddedSoFar(insn, step)
  /\ pc = "steps" =>
       /\ insn.kind # Unknown
       /\ Traced(word, steps(insn.kind), Shape(insn.kind), step, insn.src)
  /\ pc \in {"print", "done"} =>
       /\ insn.kind # Unknown => step = Len(Shape(insn.kind))
       /\ HasTarget(insn, link)
       /\ ShowsLink(insn, link)
  /\ AcceptedIsPrinted
  /\ pc = "done" => text # << >>

LEMMA HeadIsFirst ==
  ASSUME NEW S, NEW s \in Seq(S), Len(s) > 0
  PROVE  s # << >> /\ Head(s) = s[1]
OBVIOUS

LEMMA RestFacts ==
  ASSUME NEW all, Len(all) \in Nat, NEW k \in 0 .. Len(all),
         NEW rest, rest = SubSeq(all, k + 1, Len(all))
  PROVE  /\ rest # << >> => k + 1 \in 1 .. Len(all) /\ Head(rest) = all[k + 1]
         /\ rest = << >> => k = Len(all)
<1> DEFINE S == {all[i] : i \in k + 1 .. Len(all)}
<1>1. k + 1 \in Int /\ Len(all) \in Int /\ \A i \in k + 1 .. Len(all) : all[i] \in S
  OBVIOUS
<1>2. CASE k = Len(all)
  BY <1>1, <1>2, SubSeqEmpty
<1>3. CASE k < Len(all)
  <2>1. /\ rest \in Seq(S) /\ Len(rest) = Len(all) - k
        /\ \A i \in 1 .. Len(all) - k : rest[i] = all[k + i]
    <3> HIDE DEF S
    <3>1. /\ rest \in Seq(S) /\ Len(rest) = (IF k + 1 <= Len(all) THEN Len(all) - (k + 1) + 1 ELSE 0)
          /\ \A i \in 1 .. Len(all) - (k + 1) + 1 : rest[i] = all[k + 1 + i - 1]
      BY <1>1, SubSeqProperties
    <3> QED
      BY <1>3, <3>1
  <2> HIDE DEF S
  <2>2. rest # << >> /\ Head(rest) = rest[1]
    <3>1. Len(rest) > 0
      BY <1>3, <2>1
    <3> QED
      BY <2>1, <3>1, HeadIsFirst
  <2>3. rest[1] = all[k + 1]
    BY <1>3, <2>1
  <2> QED
    BY <1>3, <2>2, <2>3
<1> QED
  BY <1>2, <1>3

(* Step k + 1 adds the source a to the atoms of the first k. *)
Grows(w, all, row, k, atoms, a, grown) ==
  /\ Len(row) \in 0 .. 5 /\ k \in Nat /\ k + 1 \in 1 .. Len(row)
  /\ atoms \in Seq(SrcAtoms) /\ a \in SrcAtoms /\ grown = Append(atoms, a)
  /\ a = atom(w, all[k + 1]) /\ AtomFits(w, all[k + 1])
  /\ Len(atoms) = Added(row, k, Sources) /\ Traced(w, all, row, k, atoms)
  /\ row[k + 1] \in Sources

LEMMA TracedGrows ==
  ASSUME NEW w, NEW all, NEW row, NEW k, NEW atoms, NEW a, NEW grown,
         Grows(w, all, row, k, atoms, a, grown)
  PROVE  Traced(w, all, row, k + 1, grown) /\ Len(grown) = Added(row, k + 1, Sources)
<1>0. /\ Len(row) \in 0 .. 5 /\ k \in Nat /\ k + 1 \in 1 .. Len(row)
      /\ atoms \in Seq(SrcAtoms) /\ a \in SrcAtoms /\ grown = Append(atoms, a)
      /\ a = atom(w, all[k + 1]) /\ AtomFits(w, all[k + 1])
      /\ Len(atoms) = Added(row, k, Sources) /\ Traced(w, all, row, k, atoms)
      /\ row[k + 1] \in Sources
  BY DEF Grows
<1>1. Added(row, k + 1, Sources) = Len(atoms) + 1
  BY <1>0, AddedFacts DEF One
<1>2. /\ Len(grown) = Len(atoms) + 1 /\ grown[Len(atoms) + 1] = a
      /\ \A j \in 1 .. Len(atoms) : grown[j] = atoms[j]
  BY <1>0
<1>3. /\ \A i \in 1 .. k : row[i] \in Sources =>
           /\ Added(row, i, Sources) \in 1 .. Len(atoms)
           /\ atoms[Added(row, i, Sources)] = atom(w, all[i])
           /\ AtomFits(w, all[i])
      /\ \A j \in 1 .. Len(atoms) :
           \E i \in 1 .. k : row[i] \in Sources /\ Added(row, i, Sources) = j
  BY <1>0 DEF Traced
<1>4. Len(atoms) \in Nat
  BY <1>0
<1>5. ASSUME NEW i \in 1 .. k + 1, row[i] \in Sources
      PROVE  /\ Added(row, i, Sources) \in 1 .. Len(grown)
             /\ grown[Added(row, i, Sources)] = atom(w, all[i])
             /\ AtomFits(w, all[i])
  <2>1. CASE i = k + 1
    BY <1>0, <1>1, <1>2, <1>4, <2>1
  <2>2. CASE i \in 1 .. k
    BY <1>0, <1>2, <1>3, <1>4, <1>5, <2>2
  <2> QED
    BY <1>0, <2>1, <2>2
<1>6. ASSUME NEW j \in 1 .. Len(grown)
      PROVE  \E i \in 1 .. k + 1 : row[i] \in Sources /\ Added(row, i, Sources) = j
  <2>1. CASE j = Len(atoms) + 1
    BY <1>0, <1>1, <2>1
  <2>2. CASE j \in 1 .. Len(atoms)
    <3>1. PICK i \in 1 .. k : row[i] \in Sources /\ Added(row, i, Sources) = j
      BY <1>0, <1>3, <2>2
    <3> QED
      BY <1>0, <3>1
  <2> QED
    BY <1>2, <1>4, <2>1, <2>2
<1> QED
  BY <1>0, <1>1, <1>2, <1>5, <1>6 DEF Traced

LEMMA TracedStays ==
  ASSUME NEW w, NEW all, NEW row, Len(row) \in 0 .. 5, NEW k \in Nat, k + 1 \in 1 .. Len(row),
         NEW atoms, Len(atoms) = Added(row, k, Sources), Traced(w, all, row, k, atoms),
         row[k + 1] \notin Sources
  PROVE  Traced(w, all, row, k + 1, atoms) /\ Len(atoms) = Added(row, k + 1, Sources)
<1>1. Added(row, k + 1, Sources) = Added(row, k, Sources)
  <2>1. k \in 0 .. Len(row)
    OBVIOUS
  <2>2. Added(row, k, Sources) \in 0 .. 5
    BY <2>1, AddedFacts
  <2>3. Added(row, k + 1, Sources) = Added(row, k, Sources) + One(row[k + 1] \in Sources)
    BY AddedFacts
  <2>4. One(row[k + 1] \in Sources) = 0
    BY DEF One
  <2> QED
    BY <2>2, <2>3, <2>4
<1>2. \A i \in 1 .. k + 1 : row[i] \in Sources => i \in 1 .. k
  OBVIOUS
<1>3. 1 .. k \subseteq 1 .. k + 1
  OBVIOUS
<1> QED
  BY <1>1, <1>2, <1>3 DEF Traced

-----------------------------------------------------------------------------
(* The sources of a decoded instruction, before and after linking.         *)

(* At most one immediate and one label, and a label for branches only. *)
OneOfEach(kind, atoms) ==
  /\ \A i, j \in ImmsOf(atoms) : i = j
  /\ \A i, j \in LabelsOf(atoms) : i = j
  /\ LabelsOf(atoms) # {} <=> kind \in is_branch
  /\ kind \in is_branch => ImmsOf(atoms) = {}
  /\ \A i \in DOMAIN atoms : atoms[i][1] # "sym"

LEMMA TracedIsOneOfEach ==
  ASSUME NEW w, NEW all, NEW row, NEW kind, ShapeFits(all, row, kind),
         NEW S, NEW atoms \in Seq(S), Traced(w, all, row, Len(row), atoms)
  PROVE  OneOfEach(kind, atoms)
<1> DEFINE A(i) == Added(row, i, Sources)
           Steps == {i \in 1 .. Len(row) : row[i] \in Sources}
<1>1. \A i \in 1 .. Len(row) : Class(all[i]) = row[i]
  BY DEF ShapeFits, HasShape
<1>2. \A i \in Steps : /\ A(i) \in 1 .. Len(atoms)
                       /\ atoms[A(i)] = atom(w, all[i]) /\ AtomFits(w, all[i])
  BY DEF Traced
<1>3. \A j \in 1 .. Len(atoms) : \E i \in Steps : A(i) = j
  BY DEF Traced
<1>4. \A i \in Steps : /\ atoms[A(i)][1] = "imm" <=> row[i] = "imm"
                       /\ atoms[A(i)][1] = "label" <=> row[i] = "target"
                       /\ atoms[A(i)][1] # "sym"
  BY <1>1, <1>2 DEF AtomFits
<1>5. DOMAIN atoms = 1 .. Len(atoms)
  OBVIOUS
<1>6. \A i \in 1 .. Len(row) : row[i] = "imm" \/ row[i] = "target" => i \in Steps
  BY DEF Sources
<1>7. RefersOnce(row) /\ (kind \in is_branch <=> row \in BranchShapes)
  BY ShapeRefersOnce DEF ShapeFits
<1>8. Steps \subseteq 1 .. Len(row)
  OBVIOUS
<1> HIDE DEF A, Steps
<1>9. ASSUME NEW i \in ImmsOf(atoms), NEW j \in ImmsOf(atoms)
      PROVE  i = j
  <2>1. PICK m \in Steps : A(m) = i
    BY <1>3, <1>5 DEF ImmsOf
  <2>2. PICK n \in Steps : A(n) = j
    BY <1>3, <1>5 DEF ImmsOf
  <2>3. row[m] = "imm" /\ row[n] = "imm"
    BY <1>4, <2>1, <2>2 DEF ImmsOf
  <2>4. m = n
    BY <1>7, <1>8, <2>3 DEF RefersOnce
  <2> QED
    BY <2>1, <2>2, <2>4
<1>10. ASSUME NEW i \in LabelsOf(atoms), NEW j \in LabelsOf(atoms)
       PROVE  i = j
  <2>1. PICK m \in Steps : A(m) = i
    BY <1>3, <1>5 DEF LabelsOf
  <2>2. PICK n \in Steps : A(n) = j
    BY <1>3, <1>5 DEF LabelsOf
  <2>3. row[m] = "target" /\ row[n] = "target"
    BY <1>4, <2>1, <2>2 DEF LabelsOf
  <2>4. m = n
    BY <1>7, <1>8, <2>3 DEF RefersOnce
  <2> QED
    BY <2>1, <2>2, <2>4
<1>11. ASSUME LabelsOf(atoms) # {}
       PROVE  kind \in is_branch
  <2>1. PICK j \in LabelsOf(atoms) : TRUE
    BY <1>11
  <2>2. PICK m \in Steps : A(m) = j
    BY <1>3, <1>5 DEF LabelsOf
  <2>3. row[m] = "target"
    BY <1>4, <2>1, <2>2 DEF LabelsOf
  <2> QED
    BY <1>7, <1>8, <2>3 DEF RefersOnce
<1>12. ASSUME kind \in is_branch
       PROVE  LabelsOf(atoms) # {} /\ ImmsOf(atoms) = {}
  <2>1. PICK i \in 1 .. Len(row) : row[i] = "target"
    BY <1>7, <1>12 DEF RefersOnce
  <2>2. i \in Steps
    BY <1>6, <2>1
  <2>3. A(i) \in LabelsOf(atoms)
    BY <1>2, <1>4, <1>5, <2>1, <2>2 DEF LabelsOf
  <2>4. ASSUME NEW j \in ImmsOf(atoms)
        PROVE  FALSE
    <3>1. PICK m \in Steps : A(m) = j
      BY <1>3, <1>5 DEF ImmsOf
    <3>2. row[m] = "imm"
      BY <1>4, <3>1 DEF ImmsOf
    <3> QED
      BY <1>7, <1>8, <1>12, <3>2 DEF RefersOnce
  <2> QED
    BY <2>3, <2>4
<1>13. \A i \in DOMAIN atoms : atoms[i][1] # "sym"
  BY <1>3, <1>4, <1>5
<1> QED
  BY <1>9, <1>10, <1>11, <1>12, <1>13 DEF OneOfEach

LEMMA AtMostOne ==
  ASSUME NEW S, \A x, y \in S : x = y
  PROVE  Cardinality(S) <= 1
<1>1. CASE S = {}
  BY <1>1, FS_EmptySet
<1>2. CASE S # {}
  <2>1. PICK x \in S : TRUE
    BY <1>2
  <2>2. S = {x}
    BY <2>1
  <2> QED
    BY <2>2, FS_Singleton
<1> QED
  BY <1>1, <1>2

LEMMA ExactlyOne ==
  ASSUME NEW S, \A x, y \in S : x = y, S # {}
  PROVE  Cardinality(S) = 1
<1>1. PICK x \in S : TRUE
  OBVIOUS
<1>2. S = {x}
  BY <1>1
<1> QED
  BY <1>2, FS_Singleton

LinkedAtoms(atoms, l) ==
  [i \in DOMAIN atoms |-> IF i \in ImmsOf(atoms) THEN Linked[l] ELSE atoms[i]]

LEMMA LinkedFacts ==
  ASSUME NEW l \in Links, l # "plain"
  PROVE  /\ Linked[l][1] # "imm"
         /\ Linked[l][1] = "label" <=> l \in {"hi_ptr", "lo_ptr"}
         /\ Linked[l][1] = "label" \/ Linked[l][1] = "sym"
         /\ Linked[l] \in SrcAtoms
<1>1. l = "sym_offset" \/ l = "hi_ptr" \/ l = "lo_ptr"
  BY DEF Links
<1>2. /\ Linked["sym_offset"] = <<"sym", 0>> /\ Linked["hi_ptr"] = <<"label", 0>>
      /\ Linked["lo_ptr"] = <<"label", 0>>
  BY DEF Linked
<1>3. Linked["hi_ptr"] \in SrcAtoms /\ Linked["lo_ptr"] \in SrcAtoms
  BY <1>2 DEF SrcAtoms
<1>4. Linked["sym_offset"] \in SrcAtoms
  BY <1>2 DEF SrcAtoms, Atoms
<1> QED
  BY <1>1, <1>2, <1>3, <1>4

LEMMA NoImms ==
  ASSUME NEW new, \A i \in DOMAIN new : new[i][1] # "imm"
  PROVE  ImmsOf(new) = {}
BY DEF ImmsOf

LEMMA NoLabels ==
  ASSUME NEW new, \A i \in DOMAIN new : new[i][1] # "label"
  PROVE  LabelsOf(new) = {}
BY DEF LabelsOf

LEMMA SameLabels ==
  ASSUME NEW new, NEW I, I \subseteq DOMAIN new,
         \A i \in DOMAIN new : new[i][1] = "label" <=> i \in I
  PROVE  LabelsOf(new) = I
BY DEF LabelsOf

LEMMA Occurrences ==
  ASSUME NEW new, NEW L, NEW I, I \subseteq DOMAIN new,
         \A i \in DOMAIN new : new[i] = L <=> i \in I
  PROVE  {j \in DOMAIN new : new[j] = L} = I
OBVIOUS

LEMMA LinkedIsShown ==
  ASSUME NEW kind, NEW S, NEW atoms \in Seq(S), OneOfEach(kind, atoms),
         NEW l \in Links, l # "plain", ImmsOf(atoms) # {},
         NEW new, new = LinkedAtoms(atoms, l)
  PROVE  /\ Cardinality(LabelsOf(new)) <= 1
         /\ LabelsOf(new) # {} <=> kind \in is_branch \/ l \in {"hi_ptr", "lo_ptr"}
         /\ Cardinality({j \in DOMAIN new : new[j] = Linked[l]}) = 1
         /\ ImmsOf(new) = {}
<1> DEFINE L == Linked[l]
           D == DOMAIN atoms
           I == ImmsOf(atoms)
<1>1. L[1] # "imm" /\ (L[1] = "label" <=> l \in {"hi_ptr", "lo_ptr"})
      /\ (L[1] = "label" \/ L[1] = "sym")
  BY LinkedFacts
<1>2. new = [i \in D |-> IF i \in I THEN L ELSE atoms[i]]
  BY DEF LinkedAtoms
<1>3. kind \notin is_branch /\ LabelsOf(atoms) = {}
  BY DEF OneOfEach
<1>4. \A i \in D : atoms[i][1] # "label" /\ atoms[i][1] # "sym"
  BY <1>3 DEF LabelsOf, OneOfEach
<1>5. \A i \in D : i \in I <=> atoms[i][1] = "imm"
  BY DEF ImmsOf
<1>6. I \subseteq D
  BY DEF ImmsOf
<1> HIDE DEF L, D, I
<1>7. DOMAIN new = D /\ \A i \in D : new[i] = IF i \in I THEN L ELSE atoms[i]
  BY <1>2
<1>8. \A i \in D : atoms[i] # L
  BY <1>1, <1>4
<1>9. ASSUME NEW i \in DOMAIN new
      PROVE  /\ new[i] = L <=> i \in I
             /\ new[i][1] # "imm"
             /\ new[i][1] = "label" <=> i \in I /\ L[1] = "label"
  <2>1. CASE i \in I
    <3>1. new[i] = L
      BY <1>7, <2>1
    <3> QED
      BY <1>1, <2>1, <3>1
  <2>2. CASE i \notin I
    <3>1. new[i] = atoms[i]
      BY <1>7, <2>2
    <3> QED
      BY <1>4, <1>5, <1>7, <1>8, <2>2, <3>1
  <2> QED
    BY <2>1, <2>2
<1>10. ImmsOf(new) = {}
  BY <1>9, NoImms
<1>11. {j \in DOMAIN new : new[j] = L} = I
  BY <1>6, <1>7, <1>9, Occurrences
<1>12. LabelsOf(new) = IF L[1] = "label" THEN I ELSE {}
  <2>1. CASE L[1] = "label"
    BY <1>6, <1>7, <1>9, <2>1, SameLabels
  <2>2. CASE L[1] # "label"
    BY <1>9, <2>2, NoLabels
  <2> QED
    BY <2>1, <2>2
<1>13. \A i, j \in I : i = j
  BY DEF OneOfEach, I
<1>14. I # {}
  BY DEF I
<1>15. Cardinality(I) = 1
  BY <1>13, <1>14, ExactlyOne
<1>16. \A x, y \in LabelsOf(new) : x = y
  BY <1>12, <1>13
<1>17. Cardinality(LabelsOf(new)) <= 1
  BY <1>16, AtMostOne
<1>18. {j \in DOMAIN new : new[j] = Linked[l]} = I
  BY <1>11 DEF L
<1> QED
  BY <1>1, <1>3, <1>10, <1>12, <1>14, <1>15, <1>17, <1>18

-----------------------------------------------------------------------------
(* What the actions do to an instruction.                                  *)

LEMMA WithKind ==
  ASSUME NEW i, InsnOK(i), NEW kind, NEW j, j = [i EXCEPT !.kind = kind]
  PROVE  InsnOK(j) /\ j.kind = kind /\ j.src = i.src /\ j.dst = i.dst
<1>1. /\ DOMAIN j = Fields /\ j.kind = kind /\ j.src = i.src /\ j.dst = i.dst
      /\ j.il = i.il /\ j.bc = i.bc /\ j.dest = i.dest
  BY DEF InsnOK, Fields
<1> QED
  BY <1>1 DEF InsnOK

LEMMA WithSrc ==
  ASSUME NEW i, InsnOK(i), NEW atoms \in Seq(SrcAtoms), NEW j, j = [i EXCEPT !.src = atoms]
  PROVE  InsnOK(j) /\ j.kind = i.kind /\ j.src = atoms /\ j.dst = i.dst
<1>1. /\ DOMAIN j = Fields /\ j.kind = i.kind /\ j.src = atoms /\ j.dst = i.dst
      /\ j.il = i.il /\ j.bc = i.bc /\ j.dest = i.dest
  BY DEF InsnOK, Fields
<1> QED
  BY <1>1 DEF InsnOK

LEMMA WithDst ==
  ASSUME NEW i, InsnOK(i), NEW atoms \in Seq(Atoms), NEW j, j = [i EXCEPT !.dst = atoms]
  PROVE  InsnOK(j) /\ j.kind = i.kind /\ j.src = i.src /\ j.dst = atoms
<1>1. /\ DOMAIN j = Fields /\ j.kind = i.kind /\ j.src = i.src /\ j.dst = atoms
      /\ j.il = i.il /\ j.bc = i.bc /\ j.dest = i.dest
  BY DEF InsnOK, Fields
<1> QED
  BY <1>1 DEF InsnOK

(* What the steps add to an instruction, and what they set. *)
AddsSrc(j, i, a) == j = [i EXCEPT !.src = Append(i.src, a)]
AddsDst(j, i, a) == j = [i EXCEPT !.dst = Append(i.dst, a)]
Sets(j, i, d, v) == j = [i EXCEPT ![d] = v]

LEMMA WithSource ==
  ASSUME NEW i, InsnOK(i), NEW a \in SrcAtoms, NEW j, AddsSrc(j, i, a)
  PROVE  InsnOK(j) /\ j.kind = i.kind /\ j.src = Append(i.src, a) /\ j.dst = i.dst
<1>1. PICK grown : grown = Append(i.src, a)
  OBVIOUS
<1>2. i.src \in Seq(SrcAtoms)
  BY DEF InsnOK
<1>3. grown \in Seq(SrcAtoms)
  BY <1>1, <1>2
<1>4. j = [i EXCEPT !.src = grown]
  BY <1>1 DEF AddsSrc
<1>5. InsnOK(j) /\ j.kind = i.kind /\ j.src = grown /\ j.dst = i.dst
  BY <1>3, <1>4, WithSrc
<1> QED
  BY <1>1, <1>5

LEMMA WithDestination ==
  ASSUME NEW i, InsnOK(i), NEW a \in Atoms, NEW j, AddsDst(j, i, a)
  PROVE  InsnOK(j) /\ j.kind = i.kind /\ j.src = i.src /\ j.dst = Append(i.dst, a)
<1>1. PICK grown : grown = Append(i.dst, a)
  OBVIOUS
<1>2. i.dst \in Seq(Atoms)
  BY DEF InsnOK
<1>3. grown \in Seq(Atoms)
  BY <1>1, <1>2
<1>4. j = [i EXCEPT !.dst = grown]
  BY <1>1 DEF AddsDst
<1>5. InsnOK(j) /\ j.kind = i.kind /\ j.src = i.src /\ j.dst = grown
  BY <1>3, <1>4, WithDst
<1> QED
  BY <1>1, <1>5

LEMMA WithProperty ==
  ASSUME NEW i, InsnOK(i), NEW d, NEW v, NEW j, Sets(j, i, d, v),
         \/ d = "il" /\ v \in 0 .. 1
         \/ d = "bc" /\ v \in 0 .. 3
         \/ d = "dest" /\ v \in 0 .. 15
  PROVE  InsnOK(j) /\ j.kind = i.kind /\ j.src = i.src /\ j.dst = i.dst
<1>1. CASE d = "il"
  <2>1. /\ DOMAIN j = Fields /\ j.kind = i.kind /\ j.src = i.src /\ j.dst = i.dst
        /\ j.il = v /\ j.bc = i.bc /\ j.dest = i.dest
    BY <1>1 DEF InsnOK, Fields, Sets
  <2>2. v \in -1 .. 1
    BY <1>1
  <2> QED
    BY <2>1, <2>2 DEF InsnOK
<1>2. CASE d = "bc"
  <2>1. /\ DOMAIN j = Fields /\ j.kind = i.kind /\ j.src = i.src /\ j.dst = i.dst
        /\ j.il = i.il /\ j.bc = v /\ j.dest = i.dest
    BY <1>2 DEF InsnOK, Fields, Sets
  <2>2. v \in -1 .. 3
    BY <1>2
  <2> QED
    BY <2>1, <2>2 DEF InsnOK
<1>3. CASE d = "dest"
  <2>1. /\ DOMAIN j = Fields /\ j.kind = i.kind /\ j.src = i.src /\ j.dst = i.dst
        /\ j.il = i.il /\ j.bc = i.bc /\ j.dest = v
    BY <1>3 DEF InsnOK, Fields, Sets
  <2>2. v \in -1 .. 15
    BY <1>3
  <2> QED
    BY <2>1, <2>2 DEF InsnOK
<1> QED
  BY <1>1, <1>2, <1>3

LEMMA LinkedAtomsType ==
  ASSUME NEW atoms \in Seq(SrcAtoms), NEW l \in Links, l # "plain"
  PROVE  LinkedAtoms(atoms, l) \in Seq(SrcAtoms)
BY LinkedFacts DEF LinkedAtoms

LEMMA Nothing ==
  /\ LabelsOf(<< >>) = {} /\ Cardinality(LabelsOf(<< >>)) = 0
  /\ Unknown \notin is_branch /\ Unknown \notin is_store /\ Unknown \notin is_load
<1>1. LabelsOf(<< >>) = {}
  BY DEF LabelsOf
<1>2. Unknown \notin is_branch
  BY DEF Unknown, is_branch
<1>3. Unknown \notin is_store
  BY DEF Unknown, is_store
<1>4. Unknown \notin is_load
  BY DEF Unknown, is_load
<1> QED
  BY <1>1, <1>2, <1>3, <1>4, FS_EmptySet

(* Where decode_instruction stands before its next step. *)
LEMMA NextStep ==
  ASSUME NEW i, NEW k, AddedSoFar(i, k),
         NEW rest, rest = SubSeq(steps(i.kind), k + 1, Len(steps(i.kind)))
  PROVE  LET all == steps(i.kind)
             row == Shape(i.kind)
         IN /\ ShapeFits(all, row, i.kind)
            /\ k \in Nat /\ k \in 0 .. Len(row) /\ Len(row) \in 0 .. 5 /\ Len(all) = Len(row)
            /\ AddsUp(row)
            /\ rest # << >> =>
                 /\ k + 1 \in 1 .. Len(row)
                 /\ Head(rest) = all[k + 1]
                 /\ Decodes(all[k + 1], i.kind)
                 /\ Class(all[k + 1]) = row[k + 1]
            /\ rest = << >> => k = Len(row)
<1> DEFINE all == steps(i.kind)
           row == Shape(i.kind)
<1>1. ShapeFits(all, row, i.kind)
  BY ShapeOfKind
<1>2. k \in 0 .. Len(row)
  BY DEF AddedSoFar
<1> HIDE DEF all, row
<1>3. AddsUp(row) /\ HasShape(all, row, i.kind)
  BY <1>1, ShapeAddsUp DEF ShapeFits
<1>4. Len(row) \in 0 .. 5 /\ Len(all) = Len(row)
  BY <1>3 DEF AddsUp, HasShape
<1>5. k \in Nat /\ Len(all) \in Nat /\ k \in 0 .. Len(all)
  BY <1>2, <1>4
<1>6. rest = SubSeq(all, k + 1, Len(all))
  BY DEF all
<1>7. /\ rest # << >> => k + 1 \in 1 .. Len(all) /\ Head(rest) = all[k + 1]
      /\ rest = << >> => k = Len(all)
  BY <1>5, <1>6, RestFacts
<1>8. rest # << >> => Decodes(all[k + 1], i.kind) /\ Class(all[k + 1]) = row[k + 1]
  BY <1>3, <1>4, <1>7 DEF HasShape
<1>9. /\ ShapeFits(all, row, i.kind)
      /\ k \in Nat /\ k \in 0 .. Len(row) /\ Len(row) \in 0 .. 5 /\ Len(all) = Len(row)
      /\ AddsUp(row)
      /\ rest # << >> =>
           /\ k + 1 \in 1 .. Len(row)
           /\ Head(rest) = all[k + 1]
           /\ Decodes(all[k + 1], i.kind)
           /\ Class(all[k + 1]) = row[k + 1]
      /\ rest = << >> => k = Len(row)
  BY <1>1, <1>2, <1>3, <1>4, <1>5, <1>7, <1>8
<1> QED
  BY <1>9 DEF all, row

(* The steps left of an instruction at its k-th step. *)
Rest(i, k) == SubSeq(steps(i.kind), k + 1, Len(steps(i.kind)))

(* The instruction is at its k-th step. *)
AtStep(w, i, k) ==
  /\ InsnOK(i)
  /\ AddedSoFar(i, k)
  /\ Traced(w, steps(i.kind), Shape(i.kind), k, i.src)

LEMMA AddsSource ==
  ASSUME NEW w \in Words, NEW i, NEW k, AtStep(w, i, k), Rest(i, k) # << >>,
         NEW s, s = Head(Rest(i, k)), Class(s) # "set", s.is_src,
         s.decode = "pcr" => value(w, s.field) < 2,
         NEW j, AddsSrc(j, i, atom(w, s))
  PROVE  AtStep(w, j, k + 1) /\ j.kind = i.kind
<1> DEFINE all == steps(i.kind)
           row == Shape(i.kind)
           a == atom(w, s)
<1>1. /\ k \in Nat /\ k \in 0 .. Len(row) /\ Len(row) \in 0 .. 5
      /\ k + 1 \in 1 .. Len(row) /\ s = all[k + 1]
      /\ Decodes(s, i.kind) /\ Class(s) = row[k + 1]
  BY NextStep DEF AtStep, Rest
<1>2. /\ InsnOK(i) /\ Len(i.src) = Added(row, k, Sources) /\ Len(i.dst) = Added(row, k, Destinations)
      /\ Traced(w, all, row, k, i.src)
  BY DEF AtStep, AddedSoFar
<1>3. AtomFits(w, s)
  BY <1>1, StepFits
<1>4. i.src \in Seq(SrcAtoms) /\ a \in SrcAtoms
  BY <1>2, <1>3 DEF InsnOK, AtomFits, SrcAtoms
<1>5. row[k + 1] \in Sources /\ row[k + 1] \notin Destinations
  BY <1>1 DEF Class, Sources, Destinations
<1>6. a = atom(w, s)
  OBVIOUS
<1> HIDE DEF all, row, a
<1>7. InsnOK(j) /\ j.kind = i.kind /\ j.src = Append(i.src, a) /\ j.dst = i.dst
  BY <1>2, <1>4, <1>6, WithSource
<1>8. a = atom(w, all[k + 1]) /\ AtomFits(w, all[k + 1])
  BY <1>1, <1>3 DEF a
<1>9. Traced(w, all, row, k + 1, j.src) /\ Len(j.src) = Added(row, k + 1, Sources)
  <2> DEFINE atoms == i.src
             grown == j.src
  <2>1. Len(row) \in 0 .. 5 /\ k \in Nat /\ k + 1 \in 1 .. Len(row)
    BY <1>1
  <2>2. atoms \in Seq(SrcAtoms) /\ a \in SrcAtoms
    BY <1>4
  <2>3. a = atom(w, all[k + 1]) /\ AtomFits(w, all[k + 1])
    BY <1>8
  <2>4. Len(atoms) = Added(row, k, Sources) /\ Traced(w, all, row, k, atoms)
    BY <1>2
  <2>5. row[k + 1] \in Sources
    BY <1>5
  <2>6. grown = Append(atoms, a)
    BY <1>7
  <2> HIDE DEF atoms, grown
  <2>7. Grows(w, all, row, k, atoms, a, grown)
    BY <2>1, <2>2, <2>3, <2>4, <2>5, <2>6 DEF Grows
  <2>8. Traced(w, all, row, k + 1, grown) /\ Len(grown) = Added(row, k + 1, Sources)
    BY <2>7, TracedGrows
  <2> QED
    BY <2>8 DEF grown
<1>10. Added(row, k + 1, Destinations) = Added(row, k, Destinations)
  <2>1. Added(row, k, Destinations) \in 0 .. 5
    BY <1>1, AddedFacts
  <2>2. Added(row, k + 1, Destinations)
          = Added(row, k, Destinations) + One(row[k + 1] \in Destinations)
    BY <1>1, AddedFacts
  <2>3. One(row[k + 1] \in Destinations) = 0
    BY <1>5 DEF One
  <2> QED
    BY <2>1, <2>2, <2>3
<1>11. k + 1 \in 0 .. Len(row)
  BY <1>1
<1>12. Shape(j.kind) = row /\ steps(j.kind) = all
  BY <1>7 DEF row, all
<1>13. AddedSoFar(j, k + 1)
  BY <1>2, <1>7, <1>9, <1>10, <1>11, <1>12 DEF AddedSoFar
<1> QED
  BY <1>7, <1>9, <1>12, <1>13 DEF AtStep

LEMMA AddsDestination ==
  ASSUME NEW w \in Words, NEW i, NEW k, AtStep(w, i, k), Rest(i, k) # << >>,
         NEW s, s = Head(Rest(i, k)), Class(s) # "set", ~s.is_src,
         s.decode = "pcr" => value(w, s.field) < 2,
         NEW j, AddsDst(j, i, atom(w, s))
  PROVE  AtStep(w, j, k + 1) /\ j.kind = i.kind
<1> DEFINE all == steps(i.kind)
           row == Shape(i.kind)
           a == atom(w, s)
<1>1. /\ k \in Nat /\ k \in 0 .. Len(row) /\ Len(row) \in 0 .. 5
      /\ k + 1 \in 1 .. Len(row) /\ s = all[k + 1]
      /\ Decodes(s, i.kind) /\ Class(s) = row[k + 1]
  BY NextStep DEF AtStep, Rest
<1>2. /\ InsnOK(i) /\ Len(i.src) = Added(row, k, Sources) /\ Len(i.dst) = Added(row, k, Destinations)
      /\ Traced(w, all, row, k, i.src)
  BY DEF AtStep, AddedSoFar
<1>3. AtomFits(w, s)
  BY <1>1, StepFits
<1>4. i.dst \in Seq(Atoms) /\ a \in Atoms
  BY <1>2, <1>3 DEF InsnOK, AtomFits
<1>5. row[k + 1] \notin Sources /\ row[k + 1] \in Destinations
  BY <1>1 DEF Class, Sources, Destinations
<1>6. a = atom(w, s)
  OBVIOUS
<1> HIDE DEF all, row, a
<1>7. InsnOK(j) /\ j.kind = i.kind /\ j.src = i.src /\ j.dst = Append(i.dst, a)
  BY <1>2, <1>4, <1>6, WithDestination
<1>8. Len(j.dst) = Len(i.dst) + 1
  BY <1>4, <1>7
<1>9. Traced(w, all, row, k + 1, i.src) /\ Len(i.src) = Added(row, k + 1, Sources)
  BY <1>1, <1>2, <1>5, TracedStays
<1>10. Added(row, k + 1, Destinations) = Added(row, k, Destinations) + 1
  <2>2. Added(row, k + 1, Destinations)
          = Added(row, k, Destinations) + One(row[k + 1] \in Destinations)
    BY <1>1, AddedFacts
  <2>3. One(row[k + 1] \in Destinations) = 1
    BY <1>5 DEF One
  <2> QED
    BY <2>2, <2>3
<1>11. k + 1 \in 0 .. Len(row)
  BY <1>1
<1>12. Shape(j.kind) = row /\ steps(j.kind) = all
  BY <1>7 DEF row, all
<1>13. AddedSoFar(j, k + 1)
  BY <1>2, <1>7, <1>8, <1>9, <1>10, <1>11, <1>12 DEF AddedSoFar
<1> QED
  BY <1>7, <1>9, <1>12, <1>13 DEF AtStep

LEMMA SetsProperty ==
  ASSUME NEW w \in Words, NEW i, NEW k, AtStep(w, i, k), Rest(i, k) # << >>,
         NEW s, s = Head(Rest(i, k)), Class(s) = "set",
         NEW j, Sets(j, i, s.decode, value(w, s.field))
  PROVE  AtStep(w, j, k + 1) /\ j.kind = i.kind
<1> DEFINE all == steps(i.kind)
           row == Shape(i.kind)
<1>1. /\ k \in Nat /\ k \in 0 .. Len(row) /\ Len(row) \in 0 .. 5
      /\ k + 1 \in 1 .. Len(row) /\ s = all[k + 1]
      /\ Decodes(s, i.kind) /\ Class(s) = row[k + 1]
  BY NextStep DEF AtStep, Rest
<1>2. /\ InsnOK(i) /\ Len(i.src) = Added(row, k, Sources) /\ Len(i.dst) = Added(row, k, Destinations)
      /\ Traced(w, all, row, k, i.src)
  BY DEF AtStep, AddedSoFar
<1>5. row[k + 1] \notin Sources /\ row[k + 1] \notin Destinations
  BY <1>1 DEF Class, Sources, Destinations
<1>6. \/ s.decode = "il" /\ value(w, s.field) \in 0 .. 1
      \/ s.decode = "bc" /\ value(w, s.field) \in 0 .. 3
      \/ s.decode = "dest" /\ value(w, s.field) \in 0 .. 15
  BY <1>1, SettingFits
<1> DEFINE d == s.decode
           v == value(w, s.field)
<1>8. \/ d = "il" /\ v \in 0 .. 1
      \/ d = "bc" /\ v \in 0 .. 3
      \/ d = "dest" /\ v \in 0 .. 15
  BY <1>6
<1>14. Sets(j, i, d, v)
  OBVIOUS
<1> HIDE DEF all, row, d, v
<1>7. InsnOK(j) /\ j.kind = i.kind /\ j.src = i.src /\ j.dst = i.dst
  BY <1>2, <1>8, <1>14, WithProperty
<1>9. Traced(w, all, row, k + 1, i.src) /\ Len(i.src) = Added(row, k + 1, Sources)
  BY <1>1, <1>2, <1>5, TracedStays
<1>10. Added(row, k + 1, Destinations) = Added(row, k, Destinations)
  <2>1. Added(row, k, Destinations) \in 0 .. 5
    BY <1>1, AddedFacts
  <2>2. Added(row, k + 1, Destinations)
          = Added(row, k, Destinations) + One(row[k + 1] \in Destinations)
    BY <1>1, AddedFacts
  <2>3. One(row[k + 1] \in Destinations) = 0
    BY <1>5 DEF One
  <2> QED
    BY <2>1, <2>2, <2>3
<1>11. k + 1 \in 0 .. Len(row)
  BY <1>1
<1>12. Shape(j.kind) = row /\ steps(j.kind) = all
  BY <1>7 DEF row, all
<1>13. AddedSoFar(j, k + 1)
  BY <1>2, <1>7, <1>9, <1>10, <1>11, <1>12 DEF AddedSoFar
<1> QED
  BY <1>7, <1>9, <1>12, <1>13 DEF AtStep

(* There is room for what the next step adds. *)
LEMMA RoomForNext ==
  ASSUME NEW w \in Words, NEW i, NEW k, AtStep(w, i, k), Rest(i, k) # << >>,
         NEW s, s = Head(Rest(i, k)), Class(s) # "set"
  PROVE  /\ IF s.is_src THEN Len(i.src) < 3 ELSE Len(i.dst) < 1
         /\ s.decode = "pcr" => i.kind \in CounterKinds /\ s.field = "pcr"
<1> DEFINE all == steps(i.kind)
           row == Shape(i.kind)
<1>1. /\ k \in Nat /\ k \in 0 .. Len(row) /\ Len(row) \in 0 .. 5
      /\ k + 1 \in 1 .. Len(row) /\ s = all[k + 1]
      /\ Decodes(s, i.kind) /\ Class(s) = row[k + 1]
      /\ AddsUp(row)
  BY NextStep DEF AtStep, Rest
<1>2. Len(i.src) = Added(row, k, Sources) /\ Len(i.dst) = Added(row, k, Destinations)
  BY DEF AtStep, AddedSoFar
<1>3. s.decode = "pcr" => i.kind \in CounterKinds /\ s.field = "pcr"
  BY <1>1 DEF Decodes, Decodings
<1>4. IF s.is_src THEN row[k + 1] \in Sources ELSE row[k + 1] \in Destinations
  BY <1>1 DEF Class, Sources, Destinations, Decodes
<1> HIDE DEF all, row
<1>5. ASSUME NEW classes, row[k + 1] \in classes
      PROVE  Added(row, k, classes) < Added(row, Len(row), classes)
  <2>1. Added(row, k + 1, classes) = Added(row, k, classes) + One(row[k + 1] \in classes)
    BY <1>1, AddedFacts
  <2>2. One(row[k + 1] \in classes) = 1
    BY <1>5 DEF One
  <2>3. Added(row, k + 1, classes) <= Added(row, Len(row), classes)
    BY <1>1, AddedFacts
  <2>4. Added(row, k, classes) \in 0 .. 5
    BY <1>1, AddedFacts
  <2>5. Len(row) \in 0 .. Len(row)
    BY <1>1
  <2>6. Added(row, Len(row), classes) \in 0 .. 5
    BY <1>1, <2>5, AddedFacts
  <2> QED
    BY <2>1, <2>2, <2>3, <2>4, <2>6
<1>6. Added(row, Len(row), Sources) <= 3 /\ Added(row, Len(row), Destinations) <= 1
  BY <1>1 DEF AddsUp
<1>7. /\ Added(row, k, Sources) \in 0 .. 5 /\ Added(row, k, Destinations) \in 0 .. 5
      /\ Added(row, Len(row), Sources) \in 0 .. 5 /\ Added(row, Len(row), Destinations) \in 0 .. 5
  <2>1. Len(row) \in 0 .. Len(row)
    BY <1>1
  <2> QED
    BY <1>1, <2>1, AddedFacts
<1>8. CASE s.is_src
  BY <1>2, <1>3, <1>4, <1>5, <1>6, <1>7, <1>8
<1>9. CASE ~s.is_src
  BY <1>2, <1>3, <1>4, <1>5, <1>6, <1>7, <1>9
<1> QED
  BY <1>8, <1>9

-----------------------------------------------------------------------------
(* The actions.                                                            *)

LEMMA InitInv == Init => DecodeInv
<1> SUFFICES ASSUME Init PROVE DecodeInv
  OBVIOUS
<1>1. word \in Words /\ link \in Links /\ pc = "opcode" /\ step = 0
  BY DEF Init
<1>2. /\ DOMAIN insn = Fields /\ insn.src = << >> /\ insn.dst = << >>
      /\ insn.il = -1 /\ insn.bc = -1 /\ insn.dest = -1
  BY DEF Init, Fields
<1>3. insn.kind = Unknown
  BY DEF Init, Unknown
<1>4. InsnOK(insn)
  BY <1>2 DEF InsnOK
<1>5. AcceptedIsPrinted
  BY <1>1 DEF AcceptedIsPrinted
<1> QED
  BY <1>1, <1>2, <1>3, <1>4, <1>5 DEF DecodeInv

(* A failed assert leaves everything but pc as it was. *)
LEMMA AbortKeeps ==
  ASSUME DecodeInv, Abort, AcceptedIsPrinted'
  PROVE  DecodeInv'
<1>1. pc' = "aborted" /\ word' = word /\ link' = link /\ step' = step /\ insn' = insn
  BY DEF Abort
<1>2. /\ word \in Words /\ link \in Links /\ InsnOK(insn)
      /\ insn.kind = Unknown => step = 0 /\ insn.src = << >> /\ insn.dst = << >>
      /\ insn.kind # Unknown => AddedSoFar(insn, step)
  BY DEF DecodeInv
<1> QED
  BY <1>1, <1>2 DEF DecodeInv

LEMMA DecodeOpcodeKeeps == DecodeInv /\ DecodeOpcode => DecodeInv'
<1> SUFFICES ASSUME DecodeInv, DecodeOpcode PROVE DecodeInv'
  OBVIOUS
<1> DEFINE kind == decode_opcode(word)
<1>1. /\ pc = "opcode" /\ word' = word /\ link' = link /\ step' = step
      /\ insn' = [insn EXCEPT !.kind = kind]
  BY DEF DecodeOpcode
<1>2. pc' = IF kind = Unknown THEN "print" ELSE "steps"
  BY DEF DecodeOpcode, Unknown
<1>3. /\ word \in Words /\ link \in Links /\ InsnOK(insn)
      /\ step = 0 /\ insn.src = << >> /\ insn.dst = << >>
  BY <1>1 DEF DecodeInv
<1> HIDE DEF kind
<1>4. InsnOK(insn') /\ insn'.kind = kind /\ insn'.src = << >> /\ insn'.dst = << >>
  BY <1>1, <1>3, WithKind
<1>5. pc' # "opcode" /\ pc' # "aborted" /\ pc' # "done" /\ pc' \in {"print", "steps"}
  BY <1>2
<1>6. AcceptedIsPrinted'
  BY <1>5 DEF AcceptedIsPrinted
<1>7. CASE kind = Unknown
  <2>1. pc' = "print"
    BY <1>2, <1>7
  <2>2. HasTarget(insn', link') /\ ShowsLink(insn', link')
    BY <1>4, <1>7, Nothing DEF HasTarget, ShowsLink
  <2> QED
    BY <1>1, <1>3, <1>4, <1>6, <1>7, <2>1, <2>2 DEF DecodeInv
<1>8. CASE kind # Unknown
  <2>1. pc' = "steps"
    BY <1>2, <1>8
  <2>2. PICK row : row = Shape(kind)
    OBVIOUS
  <2>3. AddsUp(row)
    BY <2>2, ShapeOfKind, ShapeAddsUp DEF ShapeFits
  <2>4. Len(row) \in 0 .. 5
    BY <2>3 DEF AddsUp
  <2>5. Added(row, 0, Sources) = 0 /\ Added(row, 0, Destinations) = 0
    BY <2>4, AddedFacts
  <2>6. AddedSoFar(insn', step')
    BY <1>1, <1>3, <1>4, <2>2, <2>4, <2>5 DEF AddedSoFar
  <2>7. Traced(word', steps(insn'.kind), Shape(insn'.kind), step', insn'.src)
    BY <1>1, <1>3, <1>4 DEF Traced
  <2> QED
    BY <1>1, <1>3, <1>4, <1>6, <1>8, <2>1, <2>6, <2>7 DEF DecodeInv
<1> QED
  BY <1>7, <1>8

LEMMA OpcodeAbortsKeeps == DecodeInv /\ OpcodeAborts => DecodeInv'
<1> SUFFICES ASSUME DecodeInv, OpcodeAborts PROVE DecodeInv'
  OBVIOUS
<1>1. Abort /\ ~OpcodeAsserts(word)
  BY DEF OpcodeAborts
<1>2. word' = word
  BY <1>1 DEF Abort
<1>3. AcceptedIsPrinted'
  BY <1>1, <1>2 DEF AcceptedIsPrinted
<1> QED
  BY <1>1, <1>3, AbortKeeps

(* Before a step the instruction is at it, and Todo starts with it. *)
LEMMA BeforeStep ==
  ASSUME DecodeInv, pc = "steps"
  PROVE  /\ word \in Words /\ link \in Links /\ insn.kind # Unknown
         /\ AtStep(word, insn, step)
         /\ Todo = Rest(insn, step)
<1>1. Todo = Rest(insn, step)
  BY DEF Todo, Rest
<1>2. /\ word \in Words /\ link \in Links /\ insn.kind # Unknown
      /\ AtStep(word, insn, step)
  BY DEF DecodeInv, AtStep
<1> QED
  BY <1>1, <1>2

(* After a step that did not abort the instruction is at the next. *)
LEMMA AfterStep ==
  ASSUME DecodeInv, pc = "steps", AtStep(word, insn', step + 1), insn'.kind = insn.kind,
         step' = step + 1, UNCHANGED <<word, link, pc>>
  PROVE  DecodeInv'
<1>1. /\ word \in Words /\ link \in Links /\ insn.kind # Unknown
  BY DEF DecodeInv
<1>2. /\ InsnOK(insn') /\ AddedSoFar(insn', step')
      /\ Traced(word', steps(insn'.kind), Shape(insn'.kind), step', insn'.src)
  BY DEF AtStep
<1>3. AcceptedIsPrinted'
  BY DEF AcceptedIsPrinted
<1> QED
  BY <1>1, <1>2, <1>3 DEF DecodeInv

LEMMA SetPropertyKeeps == DecodeInv /\ SetProperty => DecodeInv'
<1> SUFFICES ASSUME DecodeInv, SetProperty PROVE DecodeInv'
  OBVIOUS
<1>1. pc = "steps" /\ Todo # << >> /\ step' = step + 1 /\ UNCHANGED <<word, link, pc>>
  BY DEF SetProperty
<1>2. PICK s : s = Head(Todo)
  OBVIOUS
<1>3. s.decode \in {"il", "bc", "dest"} /\ insn' = [insn EXCEPT ![s.decode] = value(word, s.field)]
  BY <1>2 DEF SetProperty
<1>4. Class(s) = "set"
  BY <1>3 DEF Class
<1>5. Sets(insn', insn, s.decode, value(word, s.field))
  BY <1>3 DEF Sets
<1>6. /\ word \in Words /\ AtStep(word, insn, step)
      /\ Rest(insn, step) # << >> /\ s = Head(Rest(insn, step))
  BY <1>1, <1>2, BeforeStep
<1>7. AtStep(word, insn', step + 1) /\ insn'.kind = insn.kind
  BY <1>4, <1>5, <1>6, SetsProperty
<1> QED
  BY <1>1, <1>7, AfterStep

LEMMA AddAtomKeeps == DecodeInv /\ AddAtom => DecodeInv'
<1> SUFFICES ASSUME DecodeInv, AddAtom PROVE DecodeInv'
  OBVIOUS
<1>1. pc = "steps" /\ Todo # << >> /\ step' = step + 1 /\ UNCHANGED <<word, link, pc>>
  BY DEF AddAtom
<1>2. PICK s : s = Head(Todo)
  OBVIOUS
<1>3. /\ s.decode \notin {"il", "bc", "dest"}
      /\ CanAdd(s)
      /\ insn' = IF s.is_src THEN [insn EXCEPT !.src = Append(@, atom(word, s))]
                 ELSE [insn EXCEPT !.dst = Append(@, atom(word, s))]
  BY <1>2 DEF AddAtom
<1>4. s.decode = "pcr" => value(word, s.field) < 2
  BY <1>3 DEF CanAdd
<1>5. Class(s) # "set"
  BY <1>3 DEF Class
<1>6. /\ word \in Words /\ AtStep(word, insn, step)
      /\ Rest(insn, step) # << >> /\ s = Head(Rest(insn, step))
  BY <1>1, <1>2, BeforeStep
<1>7. CASE s.is_src
  <2>1. AddsSrc(insn', insn, atom(word, s))
    BY <1>3, <1>7 DEF AddsSrc
  <2>2. AtStep(word, insn', step + 1) /\ insn'.kind = insn.kind
    BY <1>4, <1>5, <1>6, <1>7, <2>1, AddsSource
  <2> QED
    BY <1>1, <2>2, AfterStep
<1>8. CASE ~s.is_src
  <2>1. AddsDst(insn', insn, atom(word, s))
    BY <1>3, <1>8 DEF AddsDst
  <2>2. AtStep(word, insn', step + 1) /\ insn'.kind = insn.kind
    BY <1>4, <1>5, <1>6, <1>8, <2>1, AddsDestination
  <2> QED
    BY <1>1, <2>2, AfterStep
<1> QED
  BY <1>7, <1>8

LEMMA AtomAbortsKeeps == DecodeInv /\ AtomAborts => DecodeInv'
<1> SUFFICES ASSUME DecodeInv, AtomAborts PROVE DecodeInv'
  OBVIOUS
<1>1. pc = "steps" /\ Todo # << >> /\ Abort
  BY DEF AtomAborts
<1>2. PICK s : s = Head(Todo)
  OBVIOUS
<1>3. s.decode \notin {"il", "bc", "dest"} /\ ~CanAdd(s)
  BY <1>2 DEF AtomAborts
<1>4. Class(s) # "set"
  BY <1>3 DEF Class
<1>5. /\ word \in Words /\ AtStep(word, insn, step)
      /\ Rest(insn, step) # << >> /\ s = Head(Rest(insn, step))
  BY <1>1, <1>2, BeforeStep
<1>6. /\ IF s.is_src THEN Len(insn.src) < 3 ELSE Len(insn.dst) < 1
      /\ s.decode = "pcr" => insn.kind \in CounterKinds /\ s.field = "pcr"
  BY <1>4, <1>5, RoomForNext
<1>7. s.decode = "pcr" /\ ~(value(word, s.field) < 2)
  BY <1>3, <1>6 DEF CanAdd
<1>8. word.fn \div 2 >= 2 /\ insn.kind \in CounterKinds
  <2>1. value(word, "pcr") = word.fn \div 2 /\ word.fn \div 2 \in 0 .. 31
    BY <1>5, OtherValues
  <2>2. ~(word.fn \div 2 < 2)
    BY <1>6, <1>7, <2>1
  <2>3. word.fn \div 2 >= 2
    BY <2>1, <2>2
  <2> QED
    BY <1>6, <1>7, <2>3
<1>9. word' = word /\ insn' = insn
  BY <1>1 DEF Abort
<1>10. AcceptedIsPrinted'
  BY <1>8, <1>9 DEF AcceptedIsPrinted, CounterKinds
<1> QED
  BY <1>1, <1>10, AbortKeeps

(* When the steps are done, the sources are those of the whole opcode. *)
LEMMA AfterAllSteps ==
  ASSUME DecodeInv, pc = "steps", Todo = << >>
  PROVE  /\ step = Len(Shape(insn.kind))
         /\ OneOfEach(insn.kind, insn.src)
         /\ insn.src \in Seq(SrcAtoms)
<1>1. /\ AtStep(word, insn, step) /\ Rest(insn, step) = << >>
  BY BeforeStep
<1> DEFINE all == steps(insn.kind)
           row == Shape(insn.kind)
<1>2. /\ InsnOK(insn) /\ AddedSoFar(insn, step)
      /\ Traced(word, all, row, step, insn.src)
  BY <1>1 DEF AtStep
<1>3. ShapeFits(all, row, insn.kind) /\ step = Len(row)
  BY <1>1, <1>2, NextStep DEF Rest
<1>4. insn.src \in Seq(SrcAtoms)
  BY <1>2 DEF InsnOK
<1> HIDE DEF all, row
<1>5. Traced(word, all, row, Len(row), insn.src)
  BY <1>2, <1>3
<1>6. OneOfEach(insn.kind, insn.src)
  BY <1>3, <1>4, <1>5, TracedIsOneOfEach
<1> QED
  BY <1>3, <1>4, <1>6 DEF row

LEMMA LinkImmediatesKeeps == DecodeInv /\ LinkImmediates => DecodeInv'
<1> SUFFICES ASSUME DecodeInv, LinkImmediates PROVE DecodeInv'
  OBVIOUS
<1>1. /\ pc = "steps" /\ Todo = << >> /\ LinkFits /\ pc' = "print"
      /\ word' = word /\ link' = link /\ step' = step
  BY DEF LinkImmediates
<1>2. /\ word \in Words /\ link \in Links /\ insn.kind # Unknown
      /\ InsnOK(insn) /\ AddedSoFar(insn, step)
  BY <1>1 DEF DecodeInv
<1>3. /\ step = Len(Shape(insn.kind)) /\ OneOfEach(insn.kind, insn.src)
      /\ insn.src \in Seq(SrcAtoms)
  BY <1>1, AfterAllSteps
<1>4. AcceptedIsPrinted'
  BY <1>1 DEF AcceptedIsPrinted
<1>5. CASE link = "plain"
  <2>1. insn' = insn
    BY <1>5 DEF LinkImmediates
  <2>2. ShowsLink(insn', link')
    BY <1>1, <1>5 DEF ShowsLink
  <2>3. /\ \A i, j \in LabelsOf(insn.src) : i = j
        /\ LabelsOf(insn.src) # {} <=> insn.kind \in is_branch
    BY <1>3 DEF OneOfEach
  <2>4. Cardinality(LabelsOf(insn.src)) <= 1
    BY <2>3, AtMostOne
  <2>5. HasTarget(insn', link')
    BY <1>1, <1>5, <2>1, <2>3, <2>4 DEF HasTarget
  <2> QED
    BY <1>1, <1>2, <1>3, <1>4, <2>1, <2>2, <2>5 DEF DecodeInv
<1>6. CASE link # "plain"
  <2>1. Imms # {} /\ Imms = ImmsOf(insn.src)
    BY <1>1, <1>6 DEF LinkFits, Imms, ImmsOf
  <2>2. PICK new : new = LinkedAtoms(insn.src, link)
    OBVIOUS
  <2>3. insn' = [insn EXCEPT !.src = new]
    BY <1>6, <2>1, <2>2 DEF LinkImmediates, LinkedAtoms
  <2>4. new \in Seq(SrcAtoms)
    BY <1>2, <1>3, <1>6, <2>2, LinkedAtomsType
  <2>5. InsnOK(insn') /\ insn'.kind = insn.kind /\ insn'.src = new /\ insn'.dst = insn.dst
    BY <1>2, <2>3, <2>4, WithSrc
  <2>6. /\ Cardinality(LabelsOf(new)) <= 1
        /\ LabelsOf(new) # {} <=> insn.kind \in is_branch \/ link \in {"hi_ptr", "lo_ptr"}
        /\ Cardinality({j \in DOMAIN new : new[j] = Linked[link]}) = 1
        /\ ImmsOf(new) = {}
    <3> DEFINE kind == insn.kind
               atoms == insn.src
    <3>1. OneOfEach(kind, atoms) /\ atoms \in Seq(SrcAtoms) /\ ImmsOf(atoms) # {}
          /\ new = LinkedAtoms(atoms, link) /\ link \in Links /\ link # "plain"
      BY <1>2, <1>3, <1>6, <2>1, <2>2
    <3> HIDE DEF kind, atoms
    <3>2. /\ Cardinality(LabelsOf(new)) <= 1
          /\ LabelsOf(new) # {} <=> kind \in is_branch \/ link \in {"hi_ptr", "lo_ptr"}
          /\ Cardinality({j \in DOMAIN new : new[j] = Linked[link]}) = 1
          /\ ImmsOf(new) = {}
      BY <3>1, LinkedIsShown
    <3> QED
      BY <3>2 DEF kind
  <2>7. HasTarget(insn', link') /\ ShowsLink(insn', link')
    BY <1>1, <1>2, <2>5, <2>6 DEF HasTarget, ShowsLink
  <2>8. Len(new) = Len(insn.src)
    BY <1>3, <2>2 DEF LinkedAtoms
  <2>9. AddedSoFar(insn', step')
    BY <1>1, <1>2, <2>5, <2>8 DEF AddedSoFar
  <2> QED
    BY <1>1, <1>2, <1>3, <1>4, <2>5, <2>7, <2>9 DEF DecodeInv
<1> QED
  BY <1>5, <1>6

LEMMA LinkAbortsKeeps == DecodeInv /\ LinkAborts => DecodeInv'
<1> SUFFICES ASSUME DecodeInv, LinkAborts PROVE DecodeInv'
  OBVIOUS
<1>1. Abort /\ ~LinkFits
  BY DEF LinkAborts
<1>2. link' = link /\ link # "plain"
  BY <1>1 DEF Abort, LinkFits
<1>3. AcceptedIsPrinted'
  BY <1>2 DEF AcceptedIsPrinted
<1> QED
  BY <1>1, <1>3, AbortKeeps

LEMMA LongerIsNotEmpty ==
  ASSUME NEW U, NEW r \in Seq(U), Len(r) = 4, NEW s \in Seq(U), NEW t \in Seq(U)
  PROVE  (r \o s) \o t # << >>
<1>1. r # << >>
  OBVIOUS
<1>2. PICK more : more = r \o s
  OBVIOUS
<1>3. more \in Seq(U) /\ more # << >>
  BY <1>1, <1>2, ConcatProperties, ConcatEqualIffEmpty
<1>4. more \o t # << >>
  BY <1>3, ConcatEqualIffEmpty
<1> QED
  BY <1>2, <1>4

LEMMA FourBefore ==
  ASSUME NEW a, NEW b, NEW c, NEW d, NEW S, NEW s \in Seq(S), NEW T, NEW t \in Seq(T)
  PROVE  <<a, b, c, d>> \o s \o t # << >>
<1> DEFINE U == {a, b, c, d} \cup S \cup T
<1>1. PICK front : front = <<a, b, c, d>>
  OBVIOUS
<1>2. front \in Seq(U) /\ Len(front) = 4
  BY <1>1
<1>3. s \in Seq(U) /\ t \in Seq(U)
  OBVIOUS
<1> HIDE DEF U
<1>4. (front \o s) \o t # << >>
  BY <1>2, <1>3, LongerIsNotEmpty
<1> QED
  BY <1>1, <1>4

(* Stores and loads have the operands that to_string asserts they have. *)
LEMMA DecodedIsPrintable ==
  ASSUME DecodeInv, pc = "print"
  PROVE  Printable
<1>1. CASE insn.kind = Unknown
  BY <1>1, Nothing DEF Printable
<1>2. CASE insn.kind # Unknown
  <2> DEFINE row == Shape(insn.kind)
  <2>1. AddedSoFar(insn, step) /\ step = Len(row)
    BY <1>2 DEF DecodeInv
  <2>2. Len(insn.src) = Added(row, Len(row), Sources) /\ Len(insn.dst) = Added(row, Len(row), Destinations)
    BY <2>1 DEF AddedSoFar
  <2>3. ShapeFits(steps(insn.kind), row, insn.kind)
    BY ShapeOfKind
  <2> HIDE DEF row
  <2>4. AddsUp(row)
    BY <2>3, ShapeAddsUp DEF ShapeFits
  <2>5. /\ insn.kind \in is_store => row = StoreShape
        /\ insn.kind \in is_load => row = LoadShape
    BY <2>3 DEF ShapeFits
  <2> QED
    BY <2>2, <2>4, <2>5 DEF Printable, AddsUp
<1> QED
  BY <1>1, <1>2

LEMMA to_stringKeeps == DecodeInv /\ to_string => DecodeInv'
<1> SUFFICES ASSUME DecodeInv, to_string PROVE DecodeInv'
  OBVIOUS
<1>1. /\ pc = "print" /\ word' = word /\ link' = link /\ step' = step /\ insn' = insn
      /\ text' = <<name(insn.kind), insn.il, insn.bc, insn.dest>> \o insn.dst \o insn.src
  BY DEF to_string
<1>2. Printable
  BY <1>1, DecodedIsPrintable
<1>3. pc' = "done"
  BY <1>2 DEF to_string
<1>4. insn.dst \in Seq(Atoms) /\ insn.src \in Seq(SrcAtoms)
  BY DEF DecodeInv, InsnOK
<1>5. text' # << >>
  BY <1>1, <1>4, FourBefore
<1>6. AcceptedIsPrinted'
  BY <1>3 DEF AcceptedIsPrinted
<1>7. /\ word \in Words /\ link \in Links /\ InsnOK(insn)
      /\ insn.kind = Unknown => step = 0 /\ insn.src = << >> /\ insn.dst = << >>
      /\ insn.kind # Unknown => AddedSoFar(insn, step) /\ step = Len(Shape(insn.kind))
      /\ HasTarget(insn, link) /\ ShowsLink(insn, link)
  BY <1>1 DEF DecodeInv
<1> QED
  BY <1>1, <1>3, <1>5, <1>6, <1>7 DEF DecodeInv

LEMMA StutterKeeps == DecodeInv /\ UNCHANGED vars => DecodeInv'
<1> SUFFICES ASSUME DecodeInv, UNCHANGED vars PROVE DecodeInv'
  OBVIOUS
<1>1. /\ word' = word /\ link' = link /\ pc' = pc /\ step' = step
      /\ insn' = insn /\ text' = text
  BY DEF vars
<1>2. AcceptedIsPrinted'
  BY <1>1 DEF DecodeInv, AcceptedIsPrinted
<1> QED
  BY <1>1, <1>2 DEF DecodeInv

LEMMA NextInv == DecodeInv /\ [Next]_vars => DecodeInv'
<1> SUFFICES ASSUME DecodeInv, [Next]_vars PROVE DecodeInv'
  OBVIOUS
<1>1. CASE DecodeOpcode \/ OpcodeAborts
  BY <1>1, DecodeOpcodeKeeps, OpcodeAbortsKeeps
<1>2. CASE SetProperty \/ AddAtom \/ AtomAborts
  BY <1>2, SetPropertyKeeps, AddAtomKeeps, AtomAbortsKeeps
<1>3. CASE LinkImmediates \/ LinkAborts
  BY <1>3, LinkImmediatesKeeps, LinkAbortsKeeps
<1>4. CASE to_string
  BY <1>4, to_stringKeeps
<1>5. CASE Done \/ UNCHANGED vars
  BY <1>5, StutterKeeps DEF Done
<1> QED
  BY <1>1, <1>2, <1>3, <1>4, <1>5 DEF Next

LEMMA DecodeInvariant == Spec => []DecodeInv
<1>1. Init => DecodeInv
  BY InitInv
<1>2. DecodeInv /\ [Next]_vars => DecodeInv'
  BY NextInv
<1> QED
  BY <1>1, <1>2, PTL DEF Spec

-----------------------------------------------------------------------------
(* The theorems.                                                           *)

(* What the steps so far have added is no more than all of them add. *)
LEMMA RoomForAll ==
  ASSUME NEW i, NEW k, AddedSoFar(i, k)
  PROVE  /\ k \in 0 .. 5
         /\ Len(i.src) <= 3 /\ Len(i.dst) <= 1
<1> DEFINE row == Shape(i.kind)
<1>1. ShapeFits(steps(i.kind), row, i.kind)
  BY ShapeOfKind
<1>2. /\ k \in 0 .. Len(row)
      /\ Len(i.src) = Added(row, k, Sources) /\ Len(i.dst) = Added(row, k, Destinations)
  BY DEF AddedSoFar
<1> HIDE DEF row
<1>3. AddsUp(row)
  BY <1>1, ShapeAddsUp DEF ShapeFits
<1>4. /\ Len(row) \in 0 .. 5
      /\ Added(row, Len(row), Sources) <= 3 /\ Added(row, Len(row), Destinations) <= 1
  BY <1>3 DEF AddsUp
<1>5. ASSUME NEW classes
      PROVE  Added(row, k, classes) <= Added(row, Len(row), classes)
  <2>1. CASE k = 0
    <3>1. Added(row, 0, classes) = 0
      BY <1>4, AddedFacts
    <3>2. Len(row) \in 0 .. Len(row)
      BY <1>4
    <3>3. Added(row, Len(row), classes) \in 0 .. 5
      BY <1>4, <3>2, AddedFacts
    <3> QED
      BY <2>1, <3>1, <3>3
  <2>2. CASE k # 0
    <3>1. PICK n \in Nat : k = n + 1
      BY <1>2, <1>4, <2>2
    <3>2. n + 1 \in 1 .. Len(row)
      BY <1>2, <1>4, <3>1
    <3>3. Added(row, n + 1, classes) <= Added(row, Len(row), classes)
      BY <1>4, <3>2, AddedFacts
    <3> QED
      BY <3>1, <3>3
  <2> QED
    BY <2>1, <2>2
<1>6. Added(row, k, Sources) \in 0 .. 5 /\ Added(row, k, Destinations) \in 0 .. 5
  BY <1>2, <1>4, AddedFacts
<1>7. /\ Added(row, Len(row), Sources) \in 0 .. 5 /\ Added(row, Len(row), Destinations) \in 0 .. 5
  <2>1. Len(row) \in 0 .. Len(row)
    BY <1>4
  <2> QED
    BY <1>4, <2>1, AddedFacts
<1>8. Added(row, k, Sources) <= 3
  <2>1. Added(row, k, Sources) <= Added(row, Len(row), Sources)
    BY <1>5
  <2> QED
    BY <1>4, <1>6, <1>7, <2>1
<1>9. Added(row, k, Destinations) <= 1
  <2>1. Added(row, k, Destinations) <= Added(row, Len(row), Destinations)
    BY <1>5
  <2> QED
    BY <1>4, <1>6, <1>7, <2>1
<1>10. k \in 0 .. 5
  <2>1. PICK n : n = Len(row)
    OBVIOUS
  <2>2. k \in 0 .. n /\ n \in 0 .. 5
    BY <1>2, <1>4, <2>1
  <2> QED
    BY <2>2
<1>11. Len(i.src) <= 3
  BY <1>2, <1>8
<1>12. Len(i.dst) <= 1
  BY <1>2, <1>9
<1> QED
  BY <1>10, <1>11, <1>12

LEMMA InvTypes == DecodeInv => TypeOK
<1> SUFFICES ASSUME DecodeInv PROVE TypeOK
  OBVIOUS
<1>1. \A f \in DOMAIN Width : word[f] \in 0 .. 2^Width[f] - 1
  BY WordsAssumption DEF DecodeInv
<1>2. /\ link \in Links /\ pc \in {"opcode", "steps", "print", "done", "aborted"}
      /\ pc = "done" => text # << >>
  BY DEF DecodeInv
<1>3. /\ insn.src \in Seq(SrcAtoms) /\ insn.dst \in Seq(Atoms)
      /\ insn.il \in -1 .. 1 /\ insn.bc \in -1 .. 3 /\ insn.dest \in -1 .. 15
  BY DEF DecodeInv, InsnOK
<1>4. /\ \A i \in DOMAIN insn.src : insn.src[i] \in SrcAtoms
      /\ \A i \in DOMAIN insn.dst : insn.dst[i] \in Atoms
  BY <1>3
<1>5. step \in 0 .. 5 /\ Len(insn.src) <= 3 /\ Len(insn.dst) <= 1
  <2>1. CASE insn.kind = Unknown
    <3>1. step = 0 /\ insn.src = << >> /\ insn.dst = << >>
      BY <2>1 DEF DecodeInv
    <3> QED
      BY <3>1
  <2>2. CASE insn.kind # Unknown
    BY <2>2, RoomForAll DEF DecodeInv
  <2> QED
    BY <2>1, <2>2
<1> QED
  BY <1>1, <1>2, <1>3, <1>4, <1>5 DEF TypeOK, SrcAtoms

LEMMA InvReferences == DecodeInv => ReferencesAreOperands
<1> SUFFICES ASSUME DecodeInv, pc = "done" PROVE ReferencesAreOperands
  BY DEF ReferencesAreOperands, BranchesHaveTargets, LinksAreShown
<1>1. HasTarget(insn, link) /\ ShowsLink(insn, link)
  BY DEF DecodeInv
<1>2. BranchesHaveTargets
  BY <1>1 DEF BranchesHaveTargets, HasTarget, Unknown
<1>3. Imms = ImmsOf(insn.src)
  BY DEF Imms, ImmsOf
<1>4. LinksAreShown
  BY <1>1, <1>3 DEF LinksAreShown, ShowsLink, Unknown
<1> QED
  BY <1>2, <1>4 DEF ReferencesAreOperands

(* Whatever words of code and whatever links a segment has, the arrays of  *)
(* three sources and one destination hold the atoms of every opcode, the   *)
(* immediates and targets stay in the range of their fields, and the COP2  *)
(* properties are ones to_string has a letter for.                         *)
THEOREM DecodedTypes == Spec => []TypeOK
<1>1. Spec => []DecodeInv
  BY DecodeInvariant
<1>2. DecodeInv => TypeOK
  BY InvTypes
<1> QED
  BY <1>1, <1>2, PTL

(* decode_instruction and to_string fail no assert on an unlinked word     *)
(* whose opcode they accept, but for performance counters 2 and up: the    *)
(* steps of every opcode fit add_src, add_dst and the syntax of stores and *)
(* loads.                                                                  *)
THEOREM AcceptedWordsArePrinted == Spec => []AcceptedIsPrinted
<1>1. Spec => []DecodeInv
  BY DecodeInvariant
<1>2. DecodeInv => AcceptedIsPrinted
  BY DEF DecodeInv
<1> QED
  BY <1>1, <1>2, PTL

(* An instruction that is printed has a label exactly when is_branch says  *)
(* it is a branch or its word is half of a pointer, then one; and what its *)
(* word is linked to stands once among its operands, for its immediate:    *)
(* the asserts of get_label_target and find_blocks_in_function.            *)
THEOREM ReferencesAreAmongOperands == Spec => []ReferencesAreOperands
<1>1. Spec => []DecodeInv
  BY DecodeInvariant
<1>2. DecodeInv => ReferencesAreOperands
  BY InvReferences
<1> QED
  BY <1>1, <1>2, PTL
=============================================================================
