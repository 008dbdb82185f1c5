------------------------- MODULE GlobalNames_proof -------------------------
(***************************************************************************)
(* Proofs about the naming of functions and the table of types, for files  *)
(* of every number, with every link table and every top-level code.        *)
(***************************************************************************)
EXTENDS GlobalNames, TLAPS

-----------------------------------------------------------------------------
(* Types                                                                    *)

SymbolTable == UNION {[D -> {NoType, "type", "function"}] : D \in SUBSET Names}

TypeTable == UNION {[D -> Nat \cup {-1}] : D \in SUBSET Names}

KnownType == /\ symbols \in SymbolTable
             /\ types \in TypeTable
             /\ guessed \in [Funs -> Names \cup {"", TopLevel}]

CursorType == /\ pc \in {"link", "top", "defs", "done", "aborted"}
              /\ obj \in Objs
              /\ {nth, idx} \subseteq Nat
              /\ state \in 0 .. 2

LEMMA TypeParts == TypeOK <=> KnownType /\ CursorType
  BY DEF TypeOK, KnownType, CursorType, SymbolTable, TypeTable

(* The cursor is inside the file, and a match has a label. *)
CursorInside ==
  /\ pc = "link" => nth \in 1 .. Len(Entries) + 1
  /\ pc = "defs" => nth \in 1 .. Len(file[obj].blocks) + 1
  /\ pc = "defs" /\ nth <= Len(file[obj].blocks) => idx \in 1 .. Len(Block) + 1
  /\ state # 0 => label \in Labels

Shape == file \in Inputs /\ TypeOK /\ CursorInside

LEMMA Lists ==
  ASSUME NEW S, NEW s \in Seq(S)
  PROVE  /\ Len(s) \in Nat /\ DOMAIN s = 1 .. Len(s)
         /\ \A i \in DOMAIN s : s[i] \in S
  OBVIOUS

LEMMA FileFacts ==
  ASSUME file \in Inputs, NEW o \in Objs
  PROVE  /\ file[o].entries \in Seq(Links) /\ Len(file[o].entries) \in Nat
         /\ DOMAIN file[o].entries = 1 .. Len(file[o].entries)
         /\ \A k \in DOMAIN file[o].entries : file[o].entries[k] \in Links
         /\ Len(file[o].blocks) \in Nat
         /\ DOMAIN file[o].blocks = 1 .. Len(file[o].blocks)
         /\ \A k \in DOMAIN file[o].blocks :
              /\ Len(file[o].blocks[k]) \in Nat
              /\ DOMAIN file[o].blocks[k] = 1 .. Len(file[o].blocks[k])
              /\ \A i \in DOMAIN file[o].blocks[k] : IsInstruction(file[o].blocks[k][i])
<1>1. IsFile(file[o])
  BY NamesAssumption
<1> PICK es : es = file[o].entries
  OBVIOUS
<1> PICK bs : bs = file[o].blocks
  OBVIOUS
<1>2. es \in Seq(Links) /\ bs \in Seq(Range(bs))
      /\ \A b \in Range(bs) : b \in Seq(Range(b)) /\ \A i \in Range(b) : IsInstruction(i)
  BY <1>1 DEF IsFile
<1>3. Len(es) \in Nat /\ DOMAIN es = 1 .. Len(es) /\ \A k \in DOMAIN es : es[k] \in Links
  BY <1>2, Lists
<1>4. Len(bs) \in Nat /\ DOMAIN bs = 1 .. Len(bs)
  BY <1>2, Lists
<1>5. ASSUME NEW k \in DOMAIN bs
      PROVE  /\ Len(bs[k]) \in Nat /\ DOMAIN bs[k] = 1 .. Len(bs[k])
             /\ \A i \in DOMAIN bs[k] : IsInstruction(bs[k][i])
  <2>1. bs[k] \in Range(bs)
    BY DEF Range
  <2>2. bs[k] \in Seq(Range(bs[k])) /\ \A i \in Range(bs[k]) : IsInstruction(i)
    BY <1>2, <2>1
  <2>3. \A i \in DOMAIN bs[k] : bs[k][i] \in Range(bs[k])
    BY DEF Range
  <2> QED BY <2>2, <2>3, Lists
<1> QED BY <1>2, <1>3, <1>4, <1>5

LEMMA ObjFacts ==
  /\ NObjs \in Nat /\ 1 \in Objs
  /\ \A o \in Objs : o \in Nat /\ o <= NObjs /\ (o < NObjs => o + 1 \in Objs)
<1>1. NObjs \in Nat \ {0}
  BY NamesAssumption
<1> QED BY <1>1 DEF Objs

LEMMA WithType ==
  ASSUME NEW S, NEW D \in SUBSET Names, NEW f \in [D -> S], NEW x \in Names, NEW v \in S
  PROVE  With(f, x, v) \in UNION {[E -> S] : E \in SUBSET Names}
<1>1. With(f, x, v) \in [D \cup {x} -> S]
  BY DEF With
<1>2. D \cup {x} \in SUBSET Names
  OBVIOUS
<1> QED BY <1>1, <1>2

LEMMA SymbolsWith ==
  ASSUME KnownType, NEW n \in Names, NEW t \in {NoType, "type", "function"}
  PROVE  With(symbols, n, t) \in SymbolTable
  BY WithType DEF KnownType, SymbolTable

LEMMA TypesWith ==
  ASSUME KnownType, NEW n \in Names, NEW m \in Nat \cup {-1}
  PROVE  With(types, n, m) \in TypeTable
  BY WithType DEF KnownType, TypeTable

LEMMA InformedType ==
  ASSUME KnownType, NEW n \in Names, NEW m \in Nat \cup {-1}
  PROVE  MethodsWith(n, m) \in Nat \cup {-1}
  BY DEF MethodsWith, KnownType, TypeTable

LEMMA TopFun == ASSUME NEW o \in Objs PROVE <<o, "top">> \in Funs
  BY DEF Funs

-----------------------------------------------------------------------------
(* The steps keep the shape                                                 *)

(* The two forms of a step that is not an abort. *)
LEMMA AtShape ==
  ASSUME Shape, KnownType', NEW pass \in {"link", "top", "defs", "done"}, NEW o \in Objs,
         NEW n \in Nat \ {0}, At(pass, o, n),
         pass = "link" => n <= Len(file[o].entries) + 1,
         pass = "defs" => n <= Len(file[o].blocks) + 1
  PROVE  Shape'
<1>1. pc' = pass /\ obj' = o /\ nth' = n /\ idx' = 1 /\ state' = 0 /\ file' = file
  BY DEF At
<1>2. /\ Len(file[o].entries) \in Nat /\ Len(file[o].blocks) \in Nat
      /\ n <= Len(file[o].blocks) => Len(file[o].blocks[n]) \in Nat
  BY FileFacts DEF Shape
<1>3. CursorType'
  BY <1>1 DEF CursorType
<1>4. CursorInside'
  BY <1>1, <1>2 DEF CursorInside, Entries, Block
<1> QED BY <1>1, <1>3, <1>4, TypeParts DEF Shape, TypeOK, KnownType, CursorType, SymbolTable, TypeTable

LEMMA StepShape ==
  ASSUME Shape, KnownType', InBlock, NEW s \in 0 .. 2, Step(s), s # 0 => label' \in Labels
  PROVE  Shape'
<1>1. pc' = pc /\ obj' = obj /\ nth' = nth /\ idx' = idx + 1 /\ state' = s /\ file' = file
  BY DEF Step
<1>2. /\ pc = "defs" /\ nth <= Len(file[obj].blocks) /\ idx <= Len(Block)
      /\ obj \in Objs /\ idx \in Nat /\ nth \in 1 .. Len(file[obj].blocks) + 1 /\ idx >= 1
      /\ CursorType
  BY TypeParts DEF InBlock, Shape, CursorInside, CursorType
<1>3. Len(file[obj].blocks) \in Nat /\ Len(Block) \in Nat
  BY <1>2, FileFacts DEF Shape, Block
<1>4. CursorType'
  BY <1>1, <1>2 DEF CursorType
<1>5. CursorInside'
  BY <1>1, <1>2, <1>3 DEF CursorInside, Entries, Block
<1> QED BY <1>1, <1>4, <1>5, TypeParts DEF Shape, TypeOK, KnownType, CursorType, SymbolTable, TypeTable

LEMMA AbortShape == ASSUME Shape, Abort PROVE Shape'
<1>1. pc' = "aborted" /\ UNCHANGED <<file, symbols, types, guessed, obj, nth, idx, state, label>>
  BY DEF Abort, known
<1>2. KnownType' /\ CursorType'
  BY <1>1, TypeParts DEF Shape, KnownType, CursorType
<1>3. CursorInside'
  BY <1>1 DEF Shape, CursorInside
<1> QED BY <1>1, <1>2, <1>3, TypeParts DEF Shape, TypeOK, KnownType, CursorType, SymbolTable, TypeTable

LEMMA KnownUnchanged == ASSUME KnownType, UNCHANGED known PROVE KnownType'
  BY DEF KnownType, known

(* The link table entry in use. *)
LEMMA EntryFacts ==
  ASSUME Shape, pc = "link", nth <= Len(Entries)
  PROVE  /\ Entries[nth] \in Links /\ Entries[nth].name \in Names
         /\ Entries[nth].methods \in Nat \cup {-1} /\ nth \in 1 .. Len(Entries)
         /\ obj \in Objs /\ Len(Entries) \in Nat
<1>1. obj \in Objs /\ nth \in 1 .. Len(Entries) + 1 /\ nth \in Nat
  BY TypeParts DEF Shape, CursorInside, CursorType
<1>2. Entries[nth] \in Links /\ Len(Entries) \in Nat /\ nth \in 1 .. Len(Entries)
  BY <1>1, FileFacts DEF Shape, Entries
<1> QED BY <1>1, <1>2 DEF Links

(* What an entry that does not contradict does. *)
LinkGoesOn ==
  /\ pc = "link"
  /\ nth <= Len(Entries)
  /\ \/ /\ Entries[nth].kind = "TYPE"
        /\ ~Contradicts(Entries[nth].name, "type")
        /\ symbols' = With(symbols, Entries[nth].name, "type")
        /\ types' = With(types, Entries[nth].name, MethodsWith(Entries[nth].name, Entries[nth].methods))
     \/ /\ Entries[nth].kind # "TYPE"
        /\ symbols' = InformName(Entries[nth].name)
        /\ types' = types
  /\ At("link", obj, nth + 1)
  /\ UNCHANGED guessed

LEMMA LinkEntryCases == LinkEntry => Abort \/ LinkGoesOn
  BY DEF LinkEntry, LinkGoesOn, InformType, InformSymbol

LEMMA LinkShape == ASSUME Shape, LinkGoesOn PROVE Shape' /\ KnownType'
<1> PICK n : n = Entries[nth].name
  OBVIOUS
<1>1. /\ KnownType /\ n \in Names /\ nth \in 1 .. Len(Entries) /\ Len(Entries) \in Nat
      /\ Entries[nth].methods \in Nat \cup {-1} /\ obj \in Objs
  BY EntryFacts, TypeParts DEF LinkGoesOn, Shape
<1>2. symbols' \in SymbolTable
  BY <1>1, SymbolsWith DEF LinkGoesOn, InformName, KnownType
<1>3. types' \in TypeTable
  BY <1>1, TypesWith, InformedType DEF LinkGoesOn, KnownType
<1>4. KnownType'
  BY <1>1, <1>2, <1>3 DEF LinkGoesOn, KnownType
<1>5. nth + 1 \in Nat \ {0} /\ nth + 1 <= Len(file[obj].entries) + 1
  BY <1>1 DEF Entries
<1>6. At("link", obj, nth + 1)
  BY DEF LinkGoesOn
<1>7. Shape'
  BY <1>1, <1>4, <1>5, <1>6, AtShape
<1> QED BY <1>4, <1>7

LEMMA FileLinkedShape == ASSUME Shape, FileLinked PROVE Shape'
<1>1. KnownType /\ KnownType' /\ obj \in Objs /\ UNCHANGED known
  BY KnownUnchanged, TypeParts DEF FileLinked, Shape, CursorType
<1>2. \A o \in Objs : Len(file[o].entries) \in Nat
  BY FileFacts DEF Shape
<1>3. CASE obj < NObjs /\ At("link", obj + 1, 1)
  <2>1. obj + 1 \in Objs
    BY <1>1, <1>3, ObjFacts
  <2> QED BY <1>1, <1>2, <1>3, <2>1, AtShape
<1>4. CASE At("top", 1, 1)
  <2>1. 1 \in Objs
    BY ObjFacts
  <2> QED BY <1>1, <1>4, <2>1, AtShape
<1> QED BY <1>3, <1>4 DEF FileLinked

TopEntered ==
  /\ pc = "top"
  /\ file[obj].segments = 3
  /\ guessed' = [guessed EXCEPT ![<<obj, "top">>] = TopLevel]
  /\ At("defs", obj, 1)
  /\ UNCHANGED <<symbols, types>>

LEMMA EnterTopLevelCases == EnterTopLevel => Abort \/ TopEntered
  BY DEF EnterTopLevel, TopEntered

LEMMA TopShape == ASSUME Shape, TopEntered PROVE Shape'
<1>1. KnownType /\ obj \in Objs
  BY TypeParts DEF Shape, CursorType
<1>2. KnownType'
  BY <1>1 DEF KnownType, TopEntered
<1>3. Len(file[obj].blocks) \in Nat
  BY <1>1, FileFacts DEF Shape
<1> QED BY <1>1, <1>2, <1>3, AtShape DEF TopEntered

LEMMA FileDoneShape == ASSUME Shape, FileDone PROVE Shape'
<1>1. KnownType /\ KnownType' /\ obj \in Objs
  BY KnownUnchanged, TypeParts DEF FileDone, Shape, CursorType
<1>2. CASE obj < NObjs /\ At("top", obj + 1, 1)
  <2>1. obj + 1 \in Objs
    BY <1>1, <1>2, ObjFacts
  <2> QED BY <1>1, <1>2, <2>1, AtShape
<1>3. CASE At("done", obj, 1)
  BY <1>1, <1>3, AtShape
<1> QED BY <1>2, <1>3 DEF FileDone

LEMMA BlockDoneShape == ASSUME Shape, BlockDone PROVE Shape'
<1>1. KnownType /\ KnownType' /\ obj \in Objs /\ nth \in 1 .. Len(file[obj].blocks) + 1
  BY KnownUnchanged, TypeParts DEF BlockDone, Shape, CursorType, CursorInside
<1>2. Len(file[obj].blocks) \in Nat
  BY <1>1, FileFacts DEF Shape
<1> QED BY <1>1, <1>2, AtShape DEF BlockDone

(* The instruction the matcher looks at. *)
LEMMA InstructionFacts ==
  ASSUME Shape, InBlock
  PROVE  /\ obj \in Objs /\ nth \in DOMAIN file[obj].blocks /\ Block = file[obj].blocks[nth]
         /\ idx \in 1 .. Len(Block) /\ Len(Block) \in Nat /\ idx \in DOMAIN Block
         /\ IsInstruction(Block[idx])
<1>1. /\ obj \in Objs /\ nth \in 1 .. Len(file[obj].blocks) + 1 /\ idx \in 1 .. Len(Block) + 1
      /\ nth <= Len(file[obj].blocks) /\ idx <= Len(Block)
  BY TypeParts DEF InBlock, Shape, CursorInside, CursorType
<1>2. nth \in DOMAIN file[obj].blocks
  BY <1>1, FileFacts DEF Shape
<1>3. Len(Block) \in Nat /\ DOMAIN Block = 1 .. Len(Block)
      /\ \A i \in DOMAIN Block : IsInstruction(Block[i])
  BY <1>1, <1>2, FileFacts DEF Shape, Block
<1> QED BY <1>1, <1>2, <1>3 DEF Block

(* A store that names a function: the label is of its code. *)
StoreNames(n) ==
  /\ InBlock
  /\ state = 2
  /\ IsStore(Block[idx]) /\ Block[idx].arg = n
  /\ label \in Functions \cup {"top"}
  /\ guessed[<<obj, label>>] = ""
  /\ ~Contradicts(n, "function")
  /\ guessed' = [guessed EXCEPT ![<<obj, label>>] = n]
  /\ symbols' = With(symbols, n, "function")
  /\ types' = types
  /\ Step(2)
  /\ UNCHANGED <<reg, label>>

(* The other steps of the matcher: nothing is named. *)
NamesNothing ==
  /\ InBlock
  /\ \/ /\ Block[idx].op = "lui"
        /\ Step(1) /\ reg' = Block[idx].dst /\ label' = Block[idx].arg
     \/ /\ Block[idx].op # "lui"
        /\ state = 1
        /\ Block[idx].op = "ori" /\ Block[idx].src = reg /\ Block[idx].arg = label
        /\ Step(2) /\ reg' = Block[idx].dst /\ label' = label
     \/ /\ Block[idx].op # "lui"
        /\ state = 1
        /\ ~(Block[idx].op = "ori" /\ Block[idx].src = reg /\ Block[idx].arg = label)
        /\ Step(0) /\ reg' = reg /\ label' = label
     \/ /\ state = 2
        /\ IsStore(Block[idx])
        /\ label = "data"
        /\ Step(2) /\ reg' = reg /\ label' = label
     \/ /\ Block[idx].op # "lui"
        /\ state = 0 \/ (state = 2 /\ ~IsStore(Block[idx]))
        /\ Step(0) /\ reg' = reg /\ label' = label
  /\ UNCHANGED known

LEMMA MatchCases ==
  ASSUME Shape, MatchLui \/ MatchOri \/ MatchStore \/ NoMatch
  PROVE  \/ Abort
         \/ NamesNothing
         \/ \E n \in Names : StoreNames(n)
<1>1. CASE MatchLui
  BY <1>1 DEF MatchLui, NamesNothing
<1>2. CASE MatchOri
  BY <1>2 DEF MatchOri, NamesNothing
<1>3. CASE NoMatch
  BY <1>3 DEF NoMatch, NamesNothing
<1>4. CASE MatchStore
  <2> PICK n : n = Block[idx].arg
    OBVIOUS
  <2>1. /\ InBlock /\ state = 2 /\ IsStore(Block[idx])
        /\ IF n = "imm" \/ (PointsToCode(label) /\ ~CanName(label, n))
           THEN Abort
           ELSE /\ IF PointsToCode(label)
                   THEN /\ guessed' = [guessed EXCEPT ![<<obj, label>>] = n]
                        /\ InformSymbol(n, "function")
                        /\ UNCHANGED types
                   ELSE UNCHANGED known
                /\ Step(state)
                /\ UNCHANGED <<reg, label>>
    BY <1>4 DEF MatchStore
  <2>2. label \in Labels
    BY <2>1 DEF Shape, CursorInside
  <2>3. n \in Names \cup {"imm"}
    BY <2>1, InstructionFacts DEF IsInstruction, IsStore
  <2>4. CASE Abort
    BY <2>4
  <2>5. CASE /\ n # "imm" /\ PointsToCode(label) /\ CanName(label, n)
             /\ guessed' = [guessed EXCEPT ![<<obj, label>>] = n]
             /\ InformSymbol(n, "function") /\ UNCHANGED types
             /\ Step(state) /\ UNCHANGED <<reg, label>>
    <3>1. label \in Functions \cup {"top"}
      BY <2>2, <2>5 DEF PointsToCode, CanName, Labels
    <3>2. StoreNames(n)
      BY <2>1, <2>5, <3>1 DEF StoreNames, CanName, InformSymbol
    <3> QED BY <2>3, <2>5, <3>2
  <2>6. CASE ~PointsToCode(label) /\ UNCHANGED known /\ Step(state) /\ UNCHANGED <<reg, label>>
    BY <2>1, <2>6 DEF NamesNothing, PointsToCode
  <2> QED BY <2>1, <2>4, <2>5, <2>6
<1> QED BY <1>1, <1>2, <1>3, <1>4

LEMMA NothingShape == ASSUME Shape, NamesNothing PROVE Shape'
<1>1. KnownType' /\ InBlock
  BY KnownUnchanged, TypeParts DEF NamesNothing, Shape
<1>2. Block[idx].op = "lui" => Block[idx].arg \in Labels
  BY <1>1, InstructionFacts DEF IsInstruction
<1>3. state # 0 => label \in Labels
  BY DEF Shape, CursorInside
<1>4. \/ Step(1) /\ label' \in Labels
      \/ Step(2) /\ label' \in Labels
      \/ Step(0)
  BY <1>2, <1>3 DEF NamesNothing
<1> QED BY <1>1, <1>4, StepShape

LEMMA NamesShape == ASSUME Shape, NEW n \in Names, StoreNames(n) PROVE Shape' /\ KnownType'
<1>1. KnownType /\ InBlock /\ Step(2) /\ label' = label /\ obj \in Objs
  BY TypeParts DEF Shape, StoreNames, CursorType
<1>2. <<obj, label>> \in Funs /\ label \in Labels
  <2>1. label \in Functions \cup {"top"}
    BY DEF StoreNames
  <2> QED BY <1>1, <2>1 DEF Funs, Labels
<1>3. guessed' \in [Funs -> Names \cup {"", TopLevel}]
  BY <1>1, <1>2 DEF KnownType, StoreNames
<1>4. symbols' \in SymbolTable
  BY <1>1, SymbolsWith DEF StoreNames
<1>5. KnownType'
  BY <1>1, <1>3, <1>4 DEF KnownType, StoreNames
<1> QED BY <1>1, <1>2, <1>5, StepShape

(* The steps of the program, an assert that fails apart. *)
Moves ==
  \/ LinkGoesOn \/ FileLinked
  \/ TopEntered \/ FileDone \/ BlockDone
  \/ NamesNothing
  \/ \E n \in Names : StoreNames(n)

LEMMA NextCases == ASSUME Shape, [Next]_vars PROVE Moves \/ Abort \/ UNCHANGED vars
<1>1. CASE MatchLui \/ MatchOri \/ MatchStore \/ NoMatch
  BY <1>1, MatchCases DEF Moves
<1> QED BY <1>1, LinkEntryCases, EnterTopLevelCases DEF Next, Finished, Moves

LEMMA InitShape == Init => Shape
<1> SUFFICES ASSUME Init PROVE Shape
  OBVIOUS
<1>1. /\ symbols \in [{"type"} -> {NoType, "type", "function"}]
      /\ types \in [{"type"} -> Nat \cup {-1}]
      /\ {"type"} \in SUBSET Names
  BY NamesAssumption DEF Init
<1>2. KnownType
  BY <1>1 DEF Init, KnownType, SymbolTable, TypeTable
<1>3. pc = "link" /\ obj = 1 /\ nth = 1 /\ idx = 1 /\ state = 0 /\ file \in Inputs
  BY DEF Init
<1>4. Len(Entries) \in Nat
  BY <1>3, ObjFacts, FileFacts DEF Entries
<1>5. CursorType
  BY <1>3, ObjFacts DEF CursorType
<1>6. CursorInside
  BY <1>3, <1>4 DEF CursorInside
<1> QED BY <1>2, <1>3, <1>5, <1>6, TypeParts DEF Shape

LEMMA NextShape == Shape /\ [Next]_vars => Shape'
<1> SUFFICES ASSUME Shape, Moves \/ Abort \/ UNCHANGED vars PROVE Shape'
  BY NextCases
<1>1. CASE UNCHANGED vars
  <2>1. UNCHANGED <<file, symbols, types, guessed, pc, obj, nth, idx, state, reg, label>>
    BY <1>1 DEF vars, known
  <2> QED BY <2>1 DEF Shape, TypeOK, CursorInside, Entries, Block
<1>2. CASE Moves
  BY <1>2, LinkShape, FileLinkedShape, TopShape, FileDoneShape, BlockDoneShape, NothingShape,
     NamesShape DEF Moves
<1> QED BY <1>1, <1>2, AbortShape

(***************************************************************************)
(* TypeInfo and the names keep their types, and the passes and the matcher *)
(* stay inside the link tables and the code they go over.                  *)
(***************************************************************************)
THEOREM NamesTypeCorrect == Spec => []TypeOK
<1>1. Shape => TypeOK
  BY DEF Shape
<1> QED BY <1>1, InitShape, NextShape, PTL DEF Spec

-----------------------------------------------------------------------------
(* What is known agrees, and stays                                          *)

OfType(t) == {n \in DOMAIN symbols : symbols[n] = t}

(* The name of top-level code is given once and to nothing else. *)
TopNames ==
  /\ \A o \in Objs : guessed[<<o, "top">>] \in {"", TopLevel}
  /\ pc = "defs" => guessed[<<obj, "top">>] = TopLevel /\ file[obj].segments = 3

LEMMA FunctionNamed ==
  ASSUME Shape, TopNames, NEW n \in Names, StoreNames(n)
  PROVE  /\ label \in Functions /\ <<obj, label>> \in Funs /\ obj \in Objs
         /\ guessed[<<obj, label>>] = ""
         /\ guessed' \in [Funs -> Names \cup {"", TopLevel}]
         /\ guessed'[<<obj, label>>] = n
         /\ \A f \in Funs : f # <<obj, label>> => guessed'[f] = guessed[f]
<1>1. /\ label \in Functions \cup {"top"} /\ guessed[<<obj, label>>] = ""
      /\ pc = "defs" /\ guessed' = [guessed EXCEPT ![<<obj, label>>] = n]
  BY DEF StoreNames, InBlock
<1>2. label # "top"
  BY <1>1 DEF TopNames, TopLevel
<1>3. KnownType /\ obj \in Objs
  BY TypeParts DEF Shape, CursorType
<1>4. <<obj, label>> \in Funs
  BY <1>1, <1>3 DEF Funs
<1> QED BY <1>1, <1>2, <1>3, <1>4 DEF KnownType

LEMMA TopNamed ==
  ASSUME Shape, TopEntered
  PROVE  /\ <<obj, "top">> \in Funs /\ obj \in Objs
         /\ guessed'[<<obj, "top">>] = TopLevel
         /\ guessed' \in [Funs -> Names \cup {"", TopLevel}]
         /\ \A f \in Funs : f # <<obj, "top">> => guessed'[f] = guessed[f]
<1>1. KnownType /\ obj \in Objs
  BY TypeParts DEF Shape, CursorType
<1>2. <<obj, "top">> \in Funs
  BY <1>1, TopFun
<1> QED BY <1>1, <1>2 DEF KnownType, TopEntered

LEMMA InitTopNames == Init => TopNames
  BY TopFun DEF Init, TopNames

LEMMA NextTopNames == ASSUME Shape, TopNames, Moves PROVE TopNames'
<1>1. KnownType /\ obj \in Objs /\ \A o \in Objs : <<o, "top">> \in Funs
  BY TypeParts, TopFun DEF Shape, CursorType
<1>2. CASE LinkGoesOn
  BY <1>2 DEF LinkGoesOn, At, TopNames
<1>3. CASE FileLinked
  BY <1>3 DEF FileLinked, At, TopNames, known
<1>4. CASE TopEntered
  <2>1. \A o \in Objs : o # obj => guessed'[<<o, "top">>] = guessed[<<o, "top">>]
    BY <1>1, <1>4, TopNamed
  <2>2. guessed'[<<obj, "top">>] = TopLevel
    BY <1>4, TopNamed
  <2>3. obj' = obj /\ file' = file /\ file[obj].segments = 3
    BY <1>4 DEF TopEntered, At
  <2> QED BY <2>1, <2>2, <2>3 DEF TopNames
<1>5. CASE FileDone
  BY <1>5 DEF FileDone, At, TopNames, known
<1>6. CASE BlockDone
  BY <1>6 DEF BlockDone, At, TopNames, known
<1>7. CASE NamesNothing
  BY <1>7 DEF NamesNothing, Step, TopNames, known, InBlock
<1>8. ASSUME NEW n \in Names, StoreNames(n) PROVE TopNames'
  <2>1. \A o \in Objs : <<o, "top">> # <<obj, label>>
    BY <1>8, FunctionNamed, NamesAssumption
  <2>2. \A o \in Objs : guessed'[<<o, "top">>] = guessed[<<o, "top">>]
    BY <1>1, <1>8, <2>1, FunctionNamed
  <2>3. pc = "defs" /\ UNCHANGED <<obj, file>>
    BY <1>8 DEF StoreNames, Step, InBlock
  <2> QED BY <1>1, <2>2, <2>3 DEF TopNames
<1>9. Moves => \/ LinkGoesOn \/ FileLinked \/ TopEntered \/ FileDone \/ BlockDone
                \/ NamesNothing \/ \E n \in Names : StoreNames(n)
  BY DEF Moves
<1> QED BY <1>2, <1>3, <1>4, <1>5, <1>6, <1>7, <1>8, <1>9

(* The effect of a step on what is known. *)
LEMMA Informed ==
  ASSUME Shape, LinkGoesOn
  PROVE  /\ \A n \in DOMAIN symbols : symbols[n] # NoType => symbols'[n] = symbols[n]
         /\ \A n \in DOMAIN types : types[n] # -1 => types'[n] = types[n]
         /\ DOMAIN symbols' = DOMAIN symbols \cup {Entries[nth].name}
         /\ DOMAIN symbols \subseteq DOMAIN symbols'
         /\ OfType("function")' = OfType("function")
         /\ IF Entries[nth].kind = "TYPE"
            THEN /\ OfType("type")' = OfType("type") \cup {Entries[nth].name}
                 /\ DOMAIN types' = DOMAIN types \cup {Entries[nth].name}
            ELSE OfType("type")' = OfType("type") /\ types' = types
<1> PICK n : n = Entries[nth].name
  OBVIOUS
<1>1. KnownType
  BY TypeParts DEF Shape
<1>2. CASE Entries[nth].kind = "TYPE"
  <2>1. /\ symbols' = With(symbols, n, "type") /\ ~Contradicts(n, "type")
        /\ types' = With(types, n, MethodsWith(n, Entries[nth].methods))
    BY <1>2 DEF LinkGoesOn
  <2>2. n \in DOMAIN symbols => symbols[n] \in {NoType, "type"}
    BY <2>1 DEF Contradicts
  <2>3. /\ DOMAIN symbols' = DOMAIN symbols \cup {n} /\ symbols'[n] = "type"
        /\ \A m \in DOMAIN symbols : m # n => symbols'[m] = symbols[m]
        /\ DOMAIN types' = DOMAIN types \cup {n}
        /\ \A m \in DOMAIN types : m # n => types'[m] = types[m]
        /\ types'[n] = MethodsWith(n, Entries[nth].methods)
    BY <2>1 DEF With
  <2>4. n \in DOMAIN types /\ types[n] # -1 => types'[n] = types[n]
    <3>1. \A m \in DOMAIN types : types[m] \in Nat \cup {-1}
      BY <1>1 DEF KnownType, TypeTable
    <3> QED BY <2>3, <3>1 DEF MethodsWith
  <2>5. OfType("function")' = OfType("function") /\ OfType("type")' = OfType("type") \cup {n}
    BY <2>2, <2>3 DEF OfType, NoType
  <2> QED BY <1>2, <2>2, <2>3, <2>4, <2>5
<1>3. CASE Entries[nth].kind # "TYPE"
  <2>1. symbols' = InformName(n) /\ types' = types
    BY <1>3 DEF LinkGoesOn
  <2>2. CASE n \in DOMAIN symbols
    BY <1>3, <2>1, <2>2 DEF InformName, OfType
  <2>3. CASE n \notin DOMAIN symbols
    <3>1. /\ DOMAIN symbols' = DOMAIN symbols \cup {n} /\ symbols'[n] = NoType
          /\ \A m \in DOMAIN symbols : m # n => symbols'[m] = symbols[m]
      BY <2>1, <2>3 DEF InformName, With
    <3> QED BY <1>3, <2>1, <2>3, <3>1 DEF OfType, NoType
  <2> QED BY <2>2, <2>3
<1> QED BY <1>2, <1>3

LEMMA Defined ==
  ASSUME Shape, NEW n \in Names, StoreNames(n)
  PROVE  /\ \A m \in DOMAIN symbols : symbols[m] # NoType => symbols'[m] = symbols[m]
         /\ DOMAIN symbols' = DOMAIN symbols \cup {n}
         /\ OfType("function")' = OfType("function") \cup {n}
         /\ OfType("type")' = OfType("type")
         /\ types' = types
<1>1. /\ symbols' = With(symbols, n, "function") /\ ~Contradicts(n, "function") /\ types' = types
  BY DEF StoreNames
<1>2. n \in DOMAIN symbols => symbols[n] \in {NoType, "function"}
  BY <1>1 DEF Contradicts
<1>3. /\ DOMAIN symbols' = DOMAIN symbols \cup {n} /\ symbols'[n] = "function"
      /\ \A m \in DOMAIN symbols : m # n => symbols'[m] = symbols[m]
  BY <1>1 DEF With
<1>4. OfType("function")' = OfType("function") \cup {n} /\ OfType("type")' = OfType("type")
  BY <1>2, <1>3 DEF OfType, NoType
<1> QED BY <1>1, <1>2, <1>3, <1>4

OtherMoves == FileLinked \/ FileDone \/ BlockDone \/ NamesNothing

LEMMA OthersKeepKnown == OtherMoves \/ Abort \/ UNCHANGED vars => UNCHANGED <<symbols, types, guessed>>
  BY DEF OtherMoves, FileLinked, FileDone, BlockDone, NamesNothing, Abort, vars, known

LEMMA TablesParts ==
  TablesAgree <=> /\ OfType("type") \cup {"type"} = DOMAIN types
                  /\ OfType("function") = Range(guessed) \ {"", TopLevel}
  BY DEF TablesAgree, OfType

LEMMA InitAgree == Init => TablesAgree
<1> SUFFICES ASSUME Init PROVE TablesAgree
  OBVIOUS
<1>1. /\ DOMAIN symbols = {"type"} /\ symbols["type"] = NoType /\ DOMAIN types = {"type"}
      /\ Range(guessed) \subseteq {""}
  BY DEF Init, Range
<1> QED BY <1>1 DEF TablesAgree, NoType

LEMMA NextAgree == ASSUME Shape, TopNames, TablesAgree, Moves PROVE TablesAgree'
<1>1. /\ OfType("type") \cup {"type"} = DOMAIN types
      /\ OfType("function") = Range(guessed) \ {"", TopLevel}
      /\ DOMAIN guessed = Funs
  BY TablesParts, TypeParts DEF Shape, KnownType
<1> SUFFICES /\ OfType("type")' \cup {"type"} = DOMAIN types'
             /\ OfType("function")' = Range(guessed') \ {"", TopLevel}
  BY DEF TablesAgree, OfType
<1>2. CASE LinkGoesOn
  <2>1. guessed' = guessed
    BY <1>2 DEF LinkGoesOn
  <2> QED BY <1>1, <1>2, <2>1, Informed
<1>3. CASE TopEntered
  <2>1. OfType("type")' = OfType("type") /\ OfType("function")' = OfType("function")
        /\ types' = types
    BY <1>3 DEF TopEntered, OfType
  <2>2. /\ DOMAIN guessed' = Funs /\ <<obj, "top">> \in Funs /\ obj \in Objs
        /\ guessed'[<<obj, "top">>] = TopLevel
        /\ \A f \in Funs : f # <<obj, "top">> => guessed'[f] = guessed[f]
    BY <1>3, TopNamed
  <2>3. guessed[<<obj, "top">>] \in {"", TopLevel}
    BY <2>2 DEF TopNames
  <2>4. Range(guessed') \ {"", TopLevel} = Range(guessed) \ {"", TopLevel}
    BY <1>1, <2>2, <2>3 DEF Range
  <2> QED BY <1>1, <2>1, <2>4
<1>4. ASSUME NEW n \in Names, StoreNames(n)
      PROVE  /\ OfType("type")' \cup {"type"} = DOMAIN types'
             /\ OfType("function")' = Range(guessed') \ {"", TopLevel}
  <2>1. /\ DOMAIN guessed' = Funs /\ <<obj, label>> \in Funs
        /\ guessed[<<obj, label>>] = "" /\ guessed'[<<obj, label>>] = n
        /\ \A f \in Funs : f # <<obj, label>> => guessed'[f] = guessed[f]
    BY <1>4, FunctionNamed
  <2>2. n \notin {"", TopLevel}
    BY NamesAssumption
  <2>3. Range(guessed') \ {"", TopLevel} = (Range(guessed) \ {"", TopLevel}) \cup {n}
    BY <1>1, <2>1, <2>2 DEF Range
  <2> QED BY <1>1, <1>4, <2>3, Defined
<1>5. CASE OtherMoves
  BY <1>1, <1>5, OthersKeepKnown DEF OfType
<1> QED BY <1>2, <1>3, <1>4, <1>5 DEF Moves, OtherMoves

Inv == Shape /\ TopNames

LEMMA InitInv == Init => Inv
  BY InitShape, InitTopNames DEF Inv

LEMMA NextInv == Inv /\ [Next]_vars => Inv'
<1> SUFFICES ASSUME Shape, TopNames, [Next]_vars PROVE TopNames'
  BY NextShape DEF Inv
<1>1. CASE UNCHANGED vars
  BY <1>1 DEF vars, known, TopNames
<1>2. CASE Abort
  BY <1>2 DEF Abort, known, TopNames
<1> QED BY <1>1, <1>2, NextCases, NextTopNames

(***************************************************************************)
(* set_type, set_methods and the assert of an empty guessed_name let no    *)
(* file change what another has told: a type of a symbol, a number of      *)
(* methods and a name of a function stay.                                  *)
(***************************************************************************)
THEOREM WhatIsKnownStays == Spec => KnowledgeStays
<1> DEFINE Kept == /\ \A n \in DOMAIN symbols : symbols[n] # NoType => symbols'[n] = symbols[n]
                   /\ \A n \in DOMAIN types : types[n] # -1 => types'[n] = types[n]
                   /\ \A f \in Funs : guessed[f] # "" => guessed'[f] = guessed[f]
<1>1. Inv /\ [Next]_vars => Kept
  <2> SUFFICES ASSUME Shape, TopNames, Moves \/ Abort \/ UNCHANGED vars PROVE Kept
    BY NextCases DEF Inv
  <2>1. CASE LinkGoesOn
    BY <2>1, Informed DEF LinkGoesOn
  <2>2. CASE TopEntered
    <3>1. UNCHANGED <<symbols, types>>
      BY <2>2 DEF TopEntered
    <3>2. guessed[<<obj, "top">>] \in {"", TopLevel}
      BY <2>2, TopNamed DEF TopNames
    <3> QED BY <2>2, <3>1, <3>2, TopNamed
  <2>3. ASSUME NEW n \in Names, StoreNames(n) PROVE Kept
    BY <2>3, FunctionNamed, Defined
  <2>4. CASE OtherMoves \/ Abort \/ UNCHANGED vars
    BY <2>4, OthersKeepKnown
  <2> QED BY <2>1, <2>2, <2>3, <2>4 DEF Moves, OtherMoves
<1>2. Inv /\ [Next]_vars => [Kept]_vars
  BY <1>1
<1> QED BY <1>2, InitInv, NextInv, PTL DEF Spec, KnowledgeStays

-----------------------------------------------------------------------------
(* The tables of TypeInfo and the link tables                               *)

(* The entries that have been used. *)
LinkedYet == IF pc = "link" THEN {p \in Places : Before(p, <<obj, nth>>)} ELSE Places

LinkInv == pc # "aborted" => Told(LinkedYet)

LEMMA PlaceFacts ==
  ASSUME file \in Inputs
  PROVE  /\ \A p : p \in Places <=> /\ p = <<p[1], p[2]>>
                                    /\ p[1] \in Objs
                                    /\ p[2] \in DOMAIN file[p[1]].entries
         /\ \A p \in Places : /\ p[1] \in Nat /\ p[2] \in Nat /\ p[1] >= 1 /\ p[2] >= 1
                              /\ p[1] <= NObjs /\ p[2] <= Len(file[p[1]].entries)
                              /\ EntryAt(p) \in Links
<1>1. \A p : p \in Places <=> /\ p = <<p[1], p[2]>>
                              /\ p[1] \in Objs
                              /\ p[2] \in DOMAIN file[p[1]].entries
  BY DEF Places
<1>2. \A o \in Objs : o \in Nat /\ o >= 1 /\ o <= NObjs
  BY ObjFacts DEF Objs
<1>3. \A o \in Objs : /\ Len(file[o].entries) \in Nat
                      /\ DOMAIN file[o].entries = 1 .. Len(file[o].entries)
                      /\ \A k \in DOMAIN file[o].entries : file[o].entries[k] \in Links
  BY FileFacts
<1>4. ASSUME NEW p \in Places
      PROVE  /\ p[1] \in Nat /\ p[2] \in Nat /\ p[1] >= 1 /\ p[2] >= 1
             /\ p[1] <= NObjs /\ p[2] <= Len(file[p[1]].entries)
             /\ EntryAt(p) \in Links
  <2>1. p[1] \in Objs /\ p[2] \in DOMAIN file[p[1]].entries
    BY <1>1
  <2>2. p[2] \in 1 .. Len(file[p[1]].entries) /\ Len(file[p[1]].entries) \in Nat
    BY <1>3, <2>1
  <2>3. EntryAt(p) \in Links
    BY <1>3, <2>1 DEF EntryAt
  <2> QED BY <1>2, <2>1, <2>2, <2>3
<1> QED BY <1>1, <1>4

(* The number of methods is known just when an entry has told one. *)
LEMMA MethodsKnown ==
  ASSUME Shape, NEW P \in SUBSET Places, Told(P), NEW n \in Names
  PROVE  n \in DOMAIN types /\ types[n] >= 0 <=> Counts(P, n) # {}
<1>1. KnownType /\ \A p \in P : EntryAt(p) \in Links
  BY PlaceFacts, TypeParts DEF Shape
<1>2. \A m \in DOMAIN types : types[m] \in Nat \cup {-1}
  BY <1>1 DEF KnownType, TypeTable
<1>3. \A p \in Counts(P, n) : EntryAt(p).methods \in Nat /\ Typed(P, n) # {}
  BY <1>1 DEF Counts, Typed, Links
<1>4. CASE Counts(P, n) = {}
  BY <1>4 DEF Told
<1>5. CASE Counts(P, n) # {}
  <2>1. n \in DOMAIN types
    BY <1>3, <1>5 DEF Told
  <2>2. PICK p \in Counts(P, n) : types[n] = EntryAt(p).methods
    BY <1>5, <2>1 DEF Told
  <2> QED BY <1>3, <1>5, <2>1, <2>2
<1> QED BY <1>4, <1>5

(* An entry is told after those that were used before it. *)
LEMMA EntryTells ==
  ASSUME Shape, LinkGoesOn, NEW P \in SUBSET Places, Told(P),
         NEW p, p = <<obj, nth>>, \A q \in P : Before(q, p), NEW Q, Q = P \cup {p}
  PROVE  Told(Q)'
<1> PICK n : n = Entries[nth].name
  OBVIOUS
<1> PICK methods : methods = Entries[nth].methods
  OBVIOUS
<1>1. /\ KnownType /\ n \in Names /\ methods \in Nat \cup {-1} /\ file' = file
      /\ obj \in Objs /\ nth \in Nat /\ obj \in Nat
  BY EntryFacts, TypeParts, ObjFacts DEF Shape, LinkGoesOn, At
<1>2. EntryAt(p) = Entries[nth] /\ EntryAt(p).name = n /\ EntryAt(p).methods = methods
  BY DEF EntryAt, Entries
<1>3. \A q \in P : ~Before(p, q) /\ q # p
  <2> SUFFICES ASSUME NEW q \in P PROVE ~Before(p, q) /\ q # p
    OBVIOUS
  <2>1. q[1] \in Nat /\ q[2] \in Nat /\ p[1] \in Nat /\ p[2] \in Nat /\ Before(q, p)
    BY <1>1, PlaceFacts DEF Shape
  <2> QED BY <2>1 DEF Before
<1>4. p \notin P /\ ~Before(p, p)
  BY <1>1, <1>3 DEF Before
<1>5. /\ \A m : Typed(Q, m) = IF EntryAt(p).kind = "TYPE" /\ n = m THEN Typed(P, m) \cup {p}
                              ELSE Typed(P, m)
      /\ \A m : Counts(Q, m) = IF EntryAt(p).kind = "TYPE" /\ n = m /\ methods # -1
                               THEN Counts(P, m) \cup {p} ELSE Counts(P, m)
  <2> HIDE DEF EntryAt, Typed, Counts, Before
  <2>1. p \notin P /\ Q = P \cup {p}
    BY <1>4
  <2>2. EntryAt(p).name = n /\ EntryAt(p).methods = methods
    BY <1>2
  <2>3. ASSUME NEW m
        PROVE  Typed(Q, m) = IF EntryAt(p).kind = "TYPE" /\ n = m THEN Typed(P, m) \cup {p}
                             ELSE Typed(P, m)
    BY <2>1, <2>2 DEF Typed
  <2>4. ASSUME NEW m
        PROVE  Counts(Q, m) = IF EntryAt(p).kind = "TYPE" /\ n = m /\ methods # -1
                              THEN Counts(P, m) \cup {p} ELSE Counts(P, m)
    <3>1. CASE EntryAt(p).kind = "TYPE" /\ n = m
      <4>1. Typed(Q, m) = Typed(P, m) \cup {p}
        BY <2>3, <3>1
      <4> QED BY <2>2, <3>1, <4>1 DEF Counts
    <3>2. CASE ~(EntryAt(p).kind = "TYPE" /\ n = m)
      <4>1. Typed(Q, m) = Typed(P, m)
        BY <2>3, <3>2
      <4> QED BY <3>2, <4>1 DEF Counts
    <3> QED BY <3>1, <3>2
  <2> QED BY <2>3, <2>4
<1>6. /\ \A q : EntryAt(q)' = EntryAt(q)
      /\ \A m : Typed(Q, m)' = Typed(Q, m) /\ Counts(Q, m)' = Counts(Q, m)
      /\ \A q, r : Before(q, r)' <=> Before(q, r)
  BY <1>1 DEF EntryAt, Typed, Counts, Before
<1>7. {EntryAt(q).name : q \in Q} \subseteq DOMAIN symbols'
  BY <1>2, Informed DEF Told
<1>8. DOMAIN types' = {"type"} \cup {m \in Names : Typed(Q, m) # {}}
  <2>1. CASE EntryAt(p).kind = "TYPE"
    <3>1. DOMAIN types' = DOMAIN types \cup {n}
      BY <1>2, <2>1, Informed
    <3> QED BY <1>1, <1>5, <2>1, <3>1 DEF Told
  <2>2. CASE EntryAt(p).kind # "TYPE"
    BY <1>2, <1>5, <2>2, Informed DEF Told
  <2> QED BY <2>1, <2>2
<1>9. ASSUME NEW m \in DOMAIN types'
      PROVE  IF Counts(Q, m) = {} THEN types'[m] = -1
             ELSE \E q \in Counts(Q, m) : /\ \A r \in Counts(Q, m) : ~Before(r, q)
                                          /\ types'[m] = EntryAt(q).methods
  <2>1. CASE EntryAt(p).kind = "TYPE" /\ m = n
    <3>1. /\ types'[n] = MethodsWith(n, methods)
          /\ Counts(Q, n) = IF methods # -1 THEN Counts(P, n) \cup {p} ELSE Counts(P, n)
      BY <1>2, <1>5, <2>1 DEF LinkGoesOn, With
    <3>2. n \in DOMAIN types /\ types[n] >= 0 <=> Counts(P, n) # {}
      BY <1>1, MethodsKnown
    <3>3. Counts(P, n) \subseteq P
      BY DEF Counts, Typed
    <3>4. CASE Counts(P, n) # {}
      <4>1. types'[n] = types[n] /\ n \in DOMAIN types
        BY <3>1, <3>2, <3>4 DEF MethodsWith
      <4>2. PICK q \in Counts(P, n) : /\ \A r \in Counts(P, n) : ~Before(r, q)
                                      /\ types[n] = EntryAt(q).methods
        BY <3>4, <4>1 DEF Told
      <4> QED BY <1>3, <2>1, <3>1, <3>3, <4>1, <4>2
    <3>5. CASE Counts(P, n) = {}
      <4>1. types'[n] = methods
        BY <3>1, <3>2, <3>5 DEF MethodsWith
      <4> QED BY <1>2, <1>4, <2>1, <3>1, <3>5, <4>1
    <3> QED BY <3>4, <3>5
  <2>2. CASE ~(EntryAt(p).kind = "TYPE" /\ m = n)
    <3>1. m \in DOMAIN types /\ types'[m] = types[m]
      <4>1. CASE EntryAt(p).kind = "TYPE"
        BY <1>2, <2>2, <4>1 DEF LinkGoesOn, With
      <4>2. CASE EntryAt(p).kind # "TYPE"
        BY <1>2, <4>2 DEF LinkGoesOn
      <4> QED BY <4>1, <4>2
    <3>2. Counts(Q, m) = Counts(P, m)
      BY <1>5, <2>2
    <3> QED BY <3>1, <3>2 DEF Told
  <2> QED BY <2>1, <2>2
<1> QED BY <1>6, <1>7, <1>8, <1>9 DEF Told

LEMMA InitLinks == ASSUME Init PROVE LinkInv
<1>1. pc = "link" /\ obj = 1 /\ nth = 1 /\ file \in Inputs
  BY DEF Init
<1>2. LinkedYet = {}
  BY <1>1, PlaceFacts DEF LinkedYet, Before
<1>3. DOMAIN types = {"type"} /\ types["type"] = -1
  BY DEF Init
<1>4. \A m : Typed({}, m) = {} /\ Counts({}, m) = {}
  BY DEF Typed, Counts
<1>5. Told({})
  BY <1>3, <1>4 DEF Told
<1> QED BY <1>2, <1>5 DEF LinkInv

LEMMA TellsSame ==
  ASSUME NEW P, Told(P), UNCHANGED <<file, types>>, DOMAIN symbols \subseteq DOMAIN symbols'
  PROVE  Told(P)'
<1>1. /\ \A q : EntryAt(q)' = EntryAt(q)
      /\ \A m : Typed(P, m)' = Typed(P, m) /\ Counts(P, m)' = Counts(P, m)
  BY DEF EntryAt, Typed, Counts
<1> QED BY <1>1 DEF Told, Before

LEMMA FileStays == Moves => file' = file
<1>1. LinkGoesOn => file' = file
  BY DEF LinkGoesOn, At
<1>2. FileLinked \/ TopEntered \/ FileDone \/ BlockDone => file' = file
  BY DEF FileLinked, TopEntered, FileDone, BlockDone, At
<1>3. NamesNothing => file' = file
  BY DEF NamesNothing, Step
<1>4. ASSUME NEW n \in Names, StoreNames(n) PROVE file' = file
  BY <1>4 DEF StoreNames, Step
<1> QED BY <1>1, <1>2, <1>3, <1>4 DEF Moves

LEMMA NextLinks == ASSUME Shape, LinkInv, Moves PROVE LinkInv'
<1>1. file' = file /\ Places' = Places
  BY FileStays DEF Places
<1> PICK P : P = LinkedYet
  OBVIOUS
<1>2. CASE LinkGoesOn
  <2>1. /\ pc = "link" /\ pc' = "link" /\ obj' = obj /\ nth' = nth + 1
        /\ obj \in Objs /\ nth \in 1 .. Len(Entries) /\ obj \in Nat
    BY <1>2, EntryFacts, ObjFacts DEF LinkGoesOn, At
  <2> PICK p : p = <<obj, nth>>
    OBVIOUS
  <2>2. Told(P) /\ P = {q \in Places : Before(q, p)}
    BY <2>1 DEF LinkInv, LinkedYet
  <2>3. p \in Places
    BY <2>1, PlaceFacts, FileFacts DEF Shape, Entries
  <2>4. LinkedYet' = P \cup {p}
    <3>1. LinkedYet' = {q \in Places : Before(q, <<obj, nth + 1>>)}
      BY <1>1, <2>1 DEF LinkedYet, Before
    <3>2. ASSUME NEW q \in Places
          PROVE  Before(q, <<obj, nth + 1>>) <=> Before(q, p) \/ q = p
      <4>1. q = <<q[1], q[2]>> /\ q[1] \in Nat /\ q[2] \in Nat
        BY PlaceFacts DEF Shape
      <4>2. q = p <=> q[1] = obj /\ q[2] = nth
        BY <4>1
      <4> QED BY <2>1, <4>1, <4>2 DEF Before
    <3> QED BY <2>2, <2>3, <3>1, <3>2
  <2> PICK Q : Q = P \cup {p}
    OBVIOUS
  <2>5. P \in SUBSET Places /\ \A q \in P : Before(q, p)
    BY <2>2
  <2>6. Told(Q)'
    BY <1>2, <2>2, <2>5, EntryTells
  <2> QED BY <2>4, <2>6 DEF LinkInv
<1>3. CASE FileLinked
  <2>1. /\ pc = "link" /\ nth > Len(Entries) /\ UNCHANGED <<types, symbols>>
        /\ \/ obj < NObjs /\ pc' = "link" /\ obj' = obj + 1 /\ nth' = 1
           \/ obj >= NObjs /\ pc' = "top"
        /\ obj \in Objs /\ obj \in Nat /\ nth \in Nat
    <3>1. obj \in Objs /\ nth \in Nat /\ obj \in Nat /\ NObjs \in Nat
      BY TypeParts, ObjFacts DEF Shape, CursorType
    <3> QED BY <1>3, <3>1 DEF FileLinked, At, known
  <2>2. LinkedYet' = LinkedYet
    <3>1. \A q \in Places : Before(q, <<obj, nth>>) <=> q[1] <= obj
      BY <2>1, PlaceFacts DEF Shape, Before, Entries
    <3>2. \A q \in Places : Before(q, <<obj + 1, 1>>) <=> q[1] <= obj
      BY <2>1, PlaceFacts DEF Shape, Before
    <3>3. \A q \in Places : q[1] <= NObjs /\ q[1] \in Nat /\ NObjs \in Nat
      BY PlaceFacts, ObjFacts DEF Shape
    <3>4. CASE obj < NObjs /\ pc' = "link" /\ obj' = obj + 1 /\ nth' = 1
      <4>1. LinkedYet' = {q \in Places : Before(q, <<obj + 1, 1>>)}
        BY <1>1, <3>4 DEF LinkedYet, Before
      <4> QED BY <2>1, <3>1, <3>2, <4>1 DEF LinkedYet
    <3>5. CASE obj >= NObjs /\ pc' = "top"
      BY <1>1, <2>1, <3>1, <3>3, <3>5 DEF LinkedYet
    <3> QED BY <2>1, <3>4, <3>5
  <2>3. Told(P)
    BY <2>1 DEF LinkInv
  <2>4. Told(P)'
    BY <1>1, <2>1, <2>3, TellsSame
  <2> QED BY <2>2, <2>4 DEF LinkInv
<1>4. CASE TopEntered \/ FileDone \/ BlockDone \/ NamesNothing \/ \E n \in Names : StoreNames(n)
  <2>1. pc \in {"top", "defs"} /\ pc' \in {"top", "defs", "done"} /\ types' = types
        /\ DOMAIN symbols \subseteq DOMAIN symbols'
    <3>1. CASE TopEntered
      BY <3>1 DEF TopEntered, At
    <3>2. CASE FileDone
      BY <3>2 DEF FileDone, At, known
    <3>3. CASE BlockDone
      BY <3>3 DEF BlockDone, At, known
    <3>4. CASE NamesNothing
      BY <3>4 DEF NamesNothing, InBlock, Step, known
    <3>5. ASSUME NEW n \in Names, StoreNames(n)
          PROVE  pc \in {"top", "defs"} /\ pc' \in {"top", "defs", "done"} /\ types' = types
                 /\ DOMAIN symbols \subseteq DOMAIN symbols'
      BY <3>5 DEF StoreNames, InBlock, Step, With
    <3> QED BY <1>4, <3>1, <3>2, <3>3, <3>4, <3>5
  <2>2. Told(P) /\ P = Places /\ LinkedYet' = P
    BY <1>1, <2>1 DEF LinkInv, LinkedYet
  <2>3. Told(P)'
    BY <1>1, <2>1, <2>2, TellsSame
  <2> QED BY <2>2, <2>3 DEF LinkInv
<1> QED BY <1>2, <1>3, <1>4 DEF Moves

TypeInfoInv == Inv /\ TablesAgree /\ LinkInv

LEMMA NextTypeInfo == TypeInfoInv /\ [Next]_vars => TypeInfoInv'
<1> SUFFICES ASSUME Inv, TablesAgree, LinkInv, [Next]_vars PROVE TablesAgree' /\ LinkInv'
  BY NextInv DEF TypeInfoInv
<1>1. Shape /\ TopNames
  BY DEF Inv
<1>2. CASE Moves
  BY <1>1, <1>2, NextAgree, NextLinks
<1>3. CASE Abort
  <2>1. UNCHANGED <<symbols, types, guessed>> /\ pc' = "aborted"
    BY <1>3 DEF Abort, known
  <2> QED BY <2>1 DEF TablesAgree, LinkInv
<1>4. CASE UNCHANGED vars
  <2>1. UNCHANGED <<file, symbols, types, guessed, pc, obj, nth>>
    BY <1>4 DEF vars, known
  <2>2. TablesAgree'
    BY <2>1 DEF TablesAgree
  <2>3. LinkInv'
    <3> PICK P : P = LinkedYet
      OBVIOUS
    <3>1. LinkedYet' = LinkedYet
      BY <2>1 DEF LinkedYet, Places, Before
    <3>2. ASSUME Told(P) PROVE Told(P)'
      BY <2>1, <3>2, TellsSame
    <3> QED BY <2>1, <3>1, <3>2 DEF LinkInv
  <2> QED BY <2>2, <2>3
<1>5. Moves \/ Abort \/ UNCHANGED vars
  BY <1>1, NextCases
<1> QED BY <1>2, <1>3, <1>4, <1>5

(***************************************************************************)
(* TypeInfo, filled entry by entry over all link tables and then by the    *)
(* stores of functions, ends as what the tables say together, of several   *)
(* counts of methods the first one in the order of linking, and its two    *)
(* tables and the names of functions agree at every moment.                *)
(***************************************************************************)
THEOREM TypeInfoCorrect == Spec => []TypesAreKnown
<1>1. Init => TypeInfoInv
  BY InitInv, InitAgree, InitLinks DEF TypeInfoInv
<1>2. TypeInfoInv => TypesAreKnown
  BY DEF TypeInfoInv, TypesAreKnown, LinksAreKnown, LinkInv, LinkedYet
<1> QED BY <1>1, <1>2, NextTypeInfo, PTL DEF Spec

-----------------------------------------------------------------------------
(* The names of functions and the stores                                    *)

(* Instruction i of block k of object o has been read. *)
Seen(o, k, i) ==
  \/ pc = "done"
  \/ pc \in {"top", "defs"} /\ o < obj
  \/ pc = "defs" /\ o = obj /\ (k < nth \/ (k = nth /\ i < idx))

DefinedYet(o, f, n) ==
  /\ file[o].segments = 3
  /\ \E k \in DOMAIN file[o].blocks : \E j \in 1 .. Len(file[o].blocks[k]) - 2 :
       DefinesAt(file[o].blocks[k], j, f, n) /\ Seen(o, k, j + 2)

Named ==
  pc # "aborted" =>
    \A o \in Objs : \A f \in Functions :
      /\ guessed[<<o, f>>] \in Names \cup {""}
      /\ \A n \in Names : guessed[<<o, f>>] = n <=> DefinedYet(o, f, n)

IsOri(i, j) == i.op = "lui" /\ j.op = "ori" /\ j.src = i.dst /\ j.arg = i.arg

(***************************************************************************)
(* The matcher has seen what its state says: after a lui its register and  *)
(* label, after a lui and its ori those of both.  A match that was stored  *)
(* goes on, but then its function has a name and a second store fails.     *)
(***************************************************************************)
Matches ==
  /\ idx > 1 /\ Block[idx - 1].op = "lui" => state = 1
  /\ state = 1 => /\ idx > 1 /\ Block[idx - 1].op = "lui"
                  /\ Block[idx - 1].dst = reg /\ Block[idx - 1].arg = label
  /\ idx > 2 /\ IsOri(Block[idx - 2], Block[idx - 1]) =>
       state = 2 /\ reg = Block[idx - 1].dst /\ label = Block[idx - 2].arg
  /\ state = 2 => \/ idx > 2 /\ IsOri(Block[idx - 2], Block[idx - 1])
                  \/ label = "data"
                  \/ guessed[<<obj, label>>] # ""

MatchInv == pc = "defs" /\ nth <= Len(file[obj].blocks) => Matches

LEMMA NothingMatches ==
  ASSUME Shape, TopNames, MatchInv, NamesNothing
  PROVE  MatchInv' /\ ~ \E f \in Functions : \E n \in Names :
                          idx > 2 /\ DefinesAt(Block, idx - 2, f, n)
<1>1. /\ InBlock /\ Matches /\ idx \in Nat /\ idx \in 1 .. Len(Block)
      /\ pc = "defs"
  BY InstructionFacts DEF NamesNothing, InBlock, MatchInv
<1> PICK i : i = Block[idx]
  OBVIOUS
<1> PICK h : h = Block[idx - 1]
  OBVIOUS
<1>2. \/ i.op = "lui" /\ state' = 1 /\ reg' = i.dst /\ label' = i.arg
      \/ /\ i.op = "ori" /\ i.src = reg /\ i.arg = label /\ state = 1
         /\ state' = 2 /\ reg' = i.dst /\ label' = label
      \/ /\ i.op # "lui" /\ ~(i.op = "ori" /\ i.src = reg /\ i.arg = label) /\ state = 1
         /\ state' = 0
      \/ i.op = "sw" /\ i.src = reg /\ label = "data" /\ state = 2 /\ state' = 2 /\ label' = label
      \/ i.op # "lui" /\ (state = 0 \/ (state = 2 /\ ~(i.op = "sw" /\ i.src = reg))) /\ state' = 0
  BY DEF NamesNothing, Step, IsStore
<1>3. idx' = idx + 1 /\ file' = file /\ obj' = obj /\ nth' = nth /\ guessed' = guessed
  BY DEF NamesNothing, Step, known
<1>4. Block' = Block /\ Block'[idx' - 1] = i /\ Block'[idx' - 2] = h
  <2>1. Block' = Block
    BY <1>3 DEF Block
  <2>2. idx' - 1 = idx /\ idx' - 2 = idx - 1
    BY <1>1, <1>3
  <2> QED BY <2>1, <2>2
<1>5. /\ idx > 1 /\ h.op = "lui" => state = 1
      /\ state = 1 => idx > 1 /\ h.op = "lui" /\ h.dst = reg /\ h.arg = label
  BY <1>1 DEF Matches
<1>6. Matches'
  <2>1. i.op = "lui" => state' = 1
    BY <1>2
  <2>2. state' = 1 => i.op = "lui" /\ i.dst = reg' /\ i.arg = label'
    BY <1>2
  <2>3. idx > 1 /\ IsOri(h, i) => state' = 2 /\ reg' = i.dst /\ label' = h.arg
    BY <1>2, <1>5 DEF IsOri
  <2>4. state' = 2 => (idx > 1 /\ IsOri(h, i)) \/ label' = "data"
    BY <1>2, <1>5 DEF IsOri
  <2>5. idx' > 1 /\ (idx' > 2 <=> idx > 1)
    BY <1>1, <1>3
  <2> QED BY <1>4, <2>1, <2>2, <2>3, <2>4, <2>5 DEF Matches
<1>7. ASSUME NEW f \in Functions, NEW n \in Names, idx > 2, DefinesAt(Block, idx - 2, f, n)
      PROVE  FALSE
  <2>1. Block[idx - 2 + 1] = h /\ Block[idx - 2 + 2] = i
    BY <1>1
  <2>2. IsOri(Block[idx - 2], h) /\ i.op = "sw" /\ i.src = h.dst /\ Block[idx - 2].arg = f
    BY <1>7, <2>1 DEF DefinesAt, IsOri
  <2>3. state = 2 /\ reg = h.dst /\ label = f
    BY <1>1, <1>7, <2>2 DEF Matches
  <2>4. f # "data"
    BY NamesAssumption
  <2> QED BY <1>2, <2>2, <2>3, <2>4
<1> QED BY <1>6, <1>7 DEF MatchInv

LEMMA NamesMatches ==
  ASSUME Shape, TopNames, MatchInv, NEW n \in Names, StoreNames(n)
  PROVE  /\ MatchInv'
         /\ \A f, m : idx > 2 /\ DefinesAt(Block, idx - 2, f, m) <=> f = label /\ m = n
         /\ idx > 2
<1>1. /\ InBlock /\ Matches /\ idx \in Nat /\ idx \in 1 .. Len(Block)
      /\ pc = "defs" /\ state = 2 /\ IsStore(Block[idx]) /\ Block[idx].arg = n
      /\ label \in Functions /\ guessed[<<obj, label>>] = "" /\ guessed'[<<obj, label>>] = n
  <2>1. /\ InBlock /\ pc = "defs" /\ state = 2 /\ IsStore(Block[idx]) /\ Block[idx].arg = n
    BY DEF StoreNames, InBlock
  <2>2. Matches
    BY <2>1 DEF InBlock, MatchInv
  <2>3. idx \in Nat /\ idx \in 1 .. Len(Block)
    BY <2>1, InstructionFacts
  <2>4. label \in Functions /\ guessed[<<obj, label>>] = "" /\ guessed'[<<obj, label>>] = n
    BY FunctionNamed
  <2> QED BY <2>1, <2>2, <2>3, <2>4
<1> PICK i : i = Block[idx]
  OBVIOUS
<1> PICK h : h = Block[idx - 1]
  OBVIOUS
<1> PICK g : g = Block[idx - 2]
  OBVIOUS
<1>2. label # "data" /\ n # ""
  BY <1>1, NamesAssumption
<1>3. idx > 2 /\ IsOri(g, h) /\ reg = h.dst /\ label = g.arg
  BY <1>1, <1>2 DEF Matches
<1>4. i.op = "sw" /\ i.src = h.dst /\ i.arg = n
  BY <1>1, <1>3 DEF IsStore
<1>5. Block[idx - 2 + 1] = h /\ Block[idx - 2 + 2] = i
  <2>1. \A x \in Nat : x - 2 + 1 = x - 1 /\ x - 2 + 2 = x
    OBVIOUS
  <2>2. idx \in Nat
    BY <1>1
  <2> QED BY <2>1, <2>2
<1>6. \A f, m : DefinesAt(Block, idx - 2, f, m) <=> f = label /\ m = n
  BY <1>3, <1>4, <1>5 DEF DefinesAt, IsOri
<1>7. idx' = idx + 1 /\ file' = file /\ obj' = obj /\ nth' = nth /\ state' = 2 /\ label' = label
  BY DEF StoreNames, Step
<1>8. Block' = Block /\ Block'[idx' - 1] = i /\ Block'[idx' - 2] = h
  <2>1. Block' = Block
    BY <1>7 DEF Block
  <2>2. \A x \in Nat : x + 1 - 1 = x /\ x + 1 - 2 = x - 1
    OBVIOUS
  <2>3. idx' - 1 = idx /\ idx' - 2 = idx - 1
    <3>1. idx \in Nat
      BY <1>1
    <3>2. idx' = idx + 1
      BY <1>7
    <3> QED BY <2>2, <3>1, <3>2
  <2> QED BY <2>1, <2>3
<1>9. Matches'
  <2>1. i.op # "lui" /\ h.op # "lui" /\ i.op # "ori" /\ state' # 1
    BY <1>3, <1>4, <1>7 DEF IsOri
  <2>2. guessed'[<<obj', label'>>] # ""
    BY <1>1, <1>2, <1>7
  <2>3. ~(idx' > 1 /\ Block'[idx' - 1].op = "lui")
    BY <1>8, <2>1
  <2>4. ~(idx' > 2 /\ IsOri(Block'[idx' - 2], Block'[idx' - 1]))
    BY <1>8, <2>1 DEF IsOri
  <2> QED BY <2>1, <2>2, <2>3, <2>4 DEF Matches
<1>10. MatchInv'
  BY <1>9 DEF MatchInv
<1> QED BY <1>3, <1>6, <1>10

LEMMA NextMatches == ASSUME Shape, TopNames, MatchInv, Moves PROVE MatchInv'
<1>1. CASE TopEntered \/ BlockDone
  <2>1. idx' = 1 /\ state' = 0
    BY <1>1 DEF TopEntered, BlockDone, At
  <2>2. ~(idx' > 1) /\ ~(idx' > 2) /\ state' # 1 /\ state' # 2
    BY <2>1
  <2> QED BY <2>2 DEF MatchInv, Matches
<1>2. CASE LinkGoesOn \/ FileLinked \/ FileDone
  <2>1. pc' # "defs"
    BY <1>2 DEF LinkGoesOn, FileLinked, FileDone, At
  <2> QED BY <2>1 DEF MatchInv
<1>3. CASE NamesNothing
  BY <1>3, NothingMatches
<1>4. ASSUME NEW n \in Names, StoreNames(n) PROVE MatchInv'
  BY <1>4, NamesMatches
<1> QED BY <1>1, <1>2, <1>3, <1>4 DEF Moves

(* A step that reads no instruction and names no function. *)
LEMMA NamedSame ==
  ASSUME Shape, Named, pc # "aborted", file' = file,
         \A o \in Objs : \A f \in Functions : guessed'[<<o, f>>] = guessed[<<o, f>>],
         \A o \in Objs : file[o].segments = 3 =>
           \A k \in DOMAIN file[o].blocks : \A i \in 1 .. Len(file[o].blocks[k]) :
             Seen(o, k, i)' <=> Seen(o, k, i)
  PROVE  Named'
<1>1. ASSUME NEW o \in Objs, NEW f \in Functions, NEW n \in Names
      PROVE  DefinedYet(o, f, n)' <=> DefinedYet(o, f, n)
  <2>1. \A k \in DOMAIN file[o].blocks : Len(file[o].blocks[k]) \in Nat
    BY FileFacts DEF Shape
  <2>2. ASSUME NEW k \in DOMAIN file[o].blocks, NEW j \in 1 .. Len(file[o].blocks[k]) - 2,
               file[o].segments = 3
        PROVE  Seen(o, k, j + 2)' <=> Seen(o, k, j + 2)
    <3>1. j + 2 \in 1 .. Len(file[o].blocks[k])
      BY <2>1
    <3> QED BY <2>2, <3>1
  <2> QED BY <2>2 DEF DefinedYet, DefinesAt
<1> QED BY <1>1 DEF Named

(* A step of the matcher reads one instruction more. *)
LEMMA OneMoreRead ==
  ASSUME Shape, TopNames, InBlock, NEW s, Step(s)
  PROVE  \A o \in Objs : \A f, n :
           DefinedYet(o, f, n)' <=>
             \/ DefinedYet(o, f, n)
             \/ o = obj /\ idx > 2 /\ DefinesAt(Block, idx - 2, f, n)
<1>1. /\ pc = "defs" /\ pc' = "defs" /\ file' = file /\ obj' = obj /\ nth' = nth
      /\ idx' = idx + 1 /\ file[obj].segments = 3
  BY DEF InBlock, Step, TopNames
<1>2. /\ obj \in Objs /\ nth \in DOMAIN file[obj].blocks /\ Block = file[obj].blocks[nth]
      /\ idx \in 1 .. Len(Block) /\ Len(Block) \in Nat
  BY InstructionFacts
<1>3. ASSUME NEW o \in Objs, NEW k \in DOMAIN file[o].blocks, NEW i \in Nat
      PROVE  Seen(o, k, i)' <=> Seen(o, k, i) \/ (o = obj /\ k = nth /\ i = idx)
  <2>1. idx \in Nat
    BY <1>2
  <2>2. i < idx + 1 <=> i < idx \/ i = idx
    BY <2>1
  <2> QED BY <1>1, <2>2 DEF Seen
<1>4. ASSUME NEW o \in Objs, NEW f, NEW n, DefinedYet(o, f, n)
      PROVE  DefinedYet(o, f, n)'
  <2>1. PICK k \in DOMAIN file[o].blocks : \E j \in 1 .. Len(file[o].blocks[k]) - 2 :
          DefinesAt(file[o].blocks[k], j, f, n) /\ Seen(o, k, j + 2)
    BY <1>4 DEF DefinedYet
  <2>2. PICK j \in 1 .. Len(file[o].blocks[k]) - 2 :
          DefinesAt(file[o].blocks[k], j, f, n) /\ Seen(o, k, j + 2)
    BY <2>1
  <2>3. Seen(o, k, j + 2)'
    BY <1>3, <2>2
  <2> QED BY <1>1, <1>4, <2>2, <2>3 DEF DefinedYet, DefinesAt
<1>5. ASSUME NEW o \in Objs, NEW f, NEW n, o = obj, idx > 2, DefinesAt(Block, idx - 2, f, n)
      PROVE  DefinedYet(o, f, n)'
  <2> PICK k : k = nth
    OBVIOUS
  <2> PICK j : j = idx - 2
    OBVIOUS
  <2>1. idx \in Nat /\ idx <= Len(Block) /\ Len(Block) \in Nat
    BY <1>2
  <2>2. j \in 1 .. Len(file[o].blocks[k]) - 2 /\ j + 2 = idx /\ j + 2 \in Nat
    BY <1>2, <1>5, <2>1
  <2>3. DefinesAt(file[o].blocks[k], j, f, n)
    BY <1>2, <1>5
  <2>4. Seen(o, k, j + 2)'
    <3>1. o \in Objs /\ k \in DOMAIN file[o].blocks /\ o = obj /\ k = nth
      BY <1>2, <1>5
    <3>2. \A i \in Nat : Seen(o, k, i)' <=> Seen(o, k, i) \/ (o = obj /\ k = nth /\ i = idx)
      BY <1>3, <3>1
    <3> QED BY <2>2, <3>1, <3>2
  <2> QED BY <1>1, <1>2, <1>5, <2>2, <2>3, <2>4 DEF DefinedYet, DefinesAt
<1>6. ASSUME NEW o \in Objs, NEW f, NEW n, DefinedYet(o, f, n)', ~DefinedYet(o, f, n)
      PROVE  o = obj /\ idx > 2 /\ DefinesAt(Block, idx - 2, f, n)
  <2>1. PICK k \in DOMAIN file[o].blocks : \E j \in 1 .. Len(file[o].blocks[k]) - 2 :
          DefinesAt(file[o].blocks[k], j, f, n) /\ Seen(o, k, j + 2)'
    BY <1>1, <1>6 DEF DefinedYet, DefinesAt
  <2>2. PICK j \in 1 .. Len(file[o].blocks[k]) - 2 :
          DefinesAt(file[o].blocks[k], j, f, n) /\ Seen(o, k, j + 2)'
    BY <2>1
  <2>3. file[o].segments = 3
    BY <1>1, <1>6 DEF DefinedYet
  <2>4. ~Seen(o, k, j + 2)
    BY <1>6, <2>2, <2>3 DEF DefinedYet
  <2>5. o = obj /\ k = nth /\ j + 2 = idx
    BY <1>3, <2>2, <2>4
  <2>6. j = idx - 2 /\ idx > 2
    BY <2>5
  <2> QED BY <1>2, <2>2, <2>5, <2>6
<1> QED BY <1>4, <1>5, <1>6

LEMMA InitNamed == ASSUME Init PROVE Named
<1>1. \A o \in Objs : \A f \in Functions : guessed[<<o, f>>] = ""
  BY DEF Init, Funs
<1>2. \A o, k, i : ~Seen(o, k, i)
  BY DEF Init, Seen
<1>3. "" \notin Names
  BY NamesAssumption
<1> QED BY <1>1, <1>2, <1>3 DEF Named, DefinedYet

LEMMA NextNamed == ASSUME Shape, TopNames, MatchInv, Named, Moves PROVE Named'
<1>0. pc # "aborted" /\ file' = file /\ obj \in Objs
  <2>1. obj \in Objs
    BY TypeParts DEF Shape, CursorType
  <2>2. (\E n \in Names : StoreNames(n)) => pc # "aborted"
    BY DEF StoreNames, InBlock
  <2>3. pc # "aborted"
    BY <2>2 DEF Moves, LinkGoesOn, FileLinked, TopEntered, FileDone, BlockDone, NamesNothing, InBlock
  <2> QED BY <2>1, <2>3, FileStays
<1>1. /\ \A o \in Objs : o \in Nat /\ o <= NObjs
      /\ NObjs \in Nat /\ obj \in Nat
      /\ \A o \in Objs : /\ DOMAIN file[o].blocks = 1 .. Len(file[o].blocks)
                         /\ Len(file[o].blocks) \in Nat
                         /\ \A k \in DOMAIN file[o].blocks : Len(file[o].blocks[k]) \in Nat
  BY <1>0, ObjFacts, FileFacts DEF Shape
<1>2. CASE LinkGoesOn \/ FileLinked
  <2>1. /\ pc = "link" /\ guessed' = guessed
        /\ pc' = "link" \/ (pc' = "top" /\ obj' = 1)
    BY <1>2 DEF LinkGoesOn, FileLinked, At, known
  <2>2. \A o \in Objs : o >= 1
    BY DEF Objs
  <2>3. ASSUME NEW o \in Objs, NEW k, NEW i PROVE ~Seen(o, k, i) /\ ~Seen(o, k, i)'
    BY <1>1, <2>1, <2>2 DEF Seen
  <2> QED BY <1>0, <2>1, <2>3, NamedSame
<1>3. CASE TopEntered
  <2>1. pc = "top" /\ pc' = "defs" /\ obj' = obj /\ nth' = 1 /\ idx' = 1
    BY <1>3 DEF TopEntered, At
  <2>2. ASSUME NEW o \in Objs, NEW f \in Functions
        PROVE  guessed'[<<o, f>>] = guessed[<<o, f>>]
    <3>1. f # "top" /\ <<o, f>> \in Funs
      BY NamesAssumption DEF Funs
    <3> QED BY <1>3, <3>1, TopNamed
  <2>3. ASSUME NEW o \in Objs, NEW k \in DOMAIN file[o].blocks,
               NEW i \in 1 .. Len(file[o].blocks[k])
        PROVE  Seen(o, k, i)' <=> Seen(o, k, i)
    <3>1. k \in Nat /\ k >= 1 /\ i \in Nat /\ i >= 1
      BY <1>1
    <3>2. ~(k < 1 \/ (k = 1 /\ i < 1))
      BY <3>1
    <3> QED BY <2>1, <3>2 DEF Seen
  <2> QED BY <1>0, <2>2, <2>3, NamedSame
<1>4. CASE FileDone
  <2>1. /\ guessed' = guessed
        /\ \/ pc = "top" /\ file[obj].segments # 3
           \/ pc = "defs" /\ nth > Len(file[obj].blocks)
        /\ \/ obj < NObjs /\ pc' = "top" /\ obj' = obj + 1
           \/ obj >= NObjs /\ pc' = "done"
    BY <1>0, <1>1, <1>4 DEF FileDone, At, known
  <2>2. ASSUME NEW o \in Objs, NEW k \in DOMAIN file[o].blocks,
               NEW i \in 1 .. Len(file[o].blocks[k]), file[o].segments = 3
        PROVE  Seen(o, k, i)' <=> Seen(o, k, i)
    <3>1. Seen(o, k, i)' <=> o <= obj
      BY <1>0, <1>1, <2>1 DEF Seen
    <3>2. CASE pc = "top"
      <4>1. o # obj
        BY <2>1, <2>2, <3>2
      <4>2. Seen(o, k, i) <=> o < obj
        BY <3>2 DEF Seen
      <4> QED BY <1>1, <3>1, <4>1, <4>2
    <3>3. CASE pc = "defs"
      <4>1. nth > Len(file[obj].blocks) /\ nth \in Nat
        BY <2>1, <3>3, TypeParts DEF Shape, CursorType
      <4>2. o = obj => k < nth
        BY <1>1, <4>1
      <4>3. Seen(o, k, i) <=> o < obj \/ o = obj
        BY <3>3, <4>2 DEF Seen
      <4> QED BY <1>1, <3>1, <4>3
    <3> QED BY <2>1, <3>2, <3>3
  <2> QED BY <1>0, <2>1, <2>2, NamedSame
<1>5. CASE BlockDone
  <2>1. /\ guessed' = guessed /\ pc = "defs" /\ pc' = "defs" /\ obj' = obj
        /\ nth' = nth + 1 /\ idx' = 1 /\ idx > Len(Block) /\ Block = file[obj].blocks[nth]
    BY <1>5 DEF BlockDone, At, known, Block
  <2>2. nth \in Nat /\ idx \in Nat
    BY TypeParts DEF Shape, CursorType
  <2>3. ASSUME NEW o \in Objs, NEW k \in DOMAIN file[o].blocks,
               NEW i \in 1 .. Len(file[o].blocks[k])
        PROVE  Seen(o, k, i)' <=> Seen(o, k, i)
    <3>1. k \in Nat /\ i \in Nat /\ i >= 1 /\ i <= Len(file[o].blocks[k])
          /\ Len(file[o].blocks[k]) \in Nat
      BY <1>1
    <3>2. o = obj /\ k = nth => i < idx
      BY <2>1, <2>2, <3>1
    <3>3. k < nth + 1 <=> k < nth \/ k = nth
      BY <2>2, <3>1
    <3>4. ~(i < 1)
      BY <3>1
    <3> QED BY <2>1, <3>2, <3>3, <3>4 DEF Seen
  <2> QED BY <1>0, <2>1, <2>3, NamedSame
<1>6. CASE NamesNothing
  <2>1. InBlock /\ guessed' = guessed /\ \E s : Step(s)
    BY <1>6 DEF NamesNothing, known
  <2>2. \A o \in Objs : \A f \in Functions : \A n \in Names :
          DefinedYet(o, f, n)' <=> DefinedYet(o, f, n)
    BY <1>6, <2>1, OneMoreRead, NothingMatches
  <2> QED BY <1>0, <2>1, <2>2 DEF Named
<1>7. ASSUME NEW n \in Names, StoreNames(n) PROVE Named'
  <2>1. InBlock /\ Step(2)
    BY <1>7 DEF StoreNames
  <2>2. /\ idx > 2
        /\ \A f, m : idx > 2 /\ DefinesAt(Block, idx - 2, f, m) <=> f = label /\ m = n
    BY <1>7, NamesMatches
  <2>3. \A o \in Objs : \A f, m :
          DefinedYet(o, f, m)' <=> DefinedYet(o, f, m) \/ (o = obj /\ f = label /\ m = n)
    BY <2>1, <2>2, OneMoreRead
  <2>4. /\ label \in Functions /\ guessed[<<obj, label>>] = "" /\ guessed'[<<obj, label>>] = n
        /\ \A f \in Funs : f # <<obj, label>> => guessed'[f] = guessed[f]
    BY <1>7, FunctionNamed
  <2>5. ASSUME NEW o \in Objs, NEW f \in Functions
        PROVE  /\ guessed'[<<o, f>>] \in Names \cup {""}
               /\ \A m \in Names : guessed'[<<o, f>>] = m <=> DefinedYet(o, f, m)'
    <3>1. /\ guessed[<<o, f>>] \in Names \cup {""}
          /\ \A m \in Names : guessed[<<o, f>>] = m <=> DefinedYet(o, f, m)
      BY <1>0 DEF Named
    <3>2. CASE o = obj /\ f = label
      <4>1. guessed[<<o, f>>] = "" /\ guessed'[<<o, f>>] = n
        BY <2>4, <3>2
      <4>2. \A m \in Names : ~DefinedYet(o, f, m)
        BY <3>1, <4>1, NamesAssumption
      <4> QED BY <2>3, <3>2, <4>1, <4>2
    <3>3. CASE ~(o = obj /\ f = label)
      <4>1. <<o, f>> \in Funs /\ <<o, f>> # <<obj, label>>
        BY <3>3 DEF Funs
      <4>2. guessed'[<<o, f>>] = guessed[<<o, f>>]
        BY <2>4, <4>1
      <4> QED BY <2>3, <3>1, <3>3, <4>2
    <3> QED BY <3>2, <3>3
  <2> QED BY <2>5 DEF Named
<1> QED BY <1>2, <1>3, <1>4, <1>5, <1>6, <1>7 DEF Moves

NamesInv == Inv /\ MatchInv /\ Named

LEMMA InitNames == Init => NamesInv
<1> SUFFICES ASSUME Init PROVE MatchInv /\ Named
  BY InitInv DEF NamesInv
<1>1. MatchInv
  BY DEF Init, MatchInv
<1> QED BY <1>1, InitNamed

LEMMA NextNames == NamesInv /\ [Next]_vars => NamesInv'
<1> SUFFICES ASSUME Inv, MatchInv, Named, [Next]_vars PROVE MatchInv' /\ Named'
  BY NextInv DEF NamesInv
<1>1. Shape /\ TopNames
  BY DEF Inv
<1>2. CASE Moves
  BY <1>1, <1>2, NextMatches, NextNamed
<1>3. CASE Abort
  <2>1. pc' = "aborted"
    BY <1>3 DEF Abort
  <2> QED BY <2>1 DEF MatchInv, Named
<1>4. CASE UNCHANGED vars
  <2>1. UNCHANGED <<file, guessed, pc, obj, nth, idx, state, reg, label>>
    BY <1>4 DEF vars, known
  <2>2. MatchInv'
    BY <2>1 DEF MatchInv, Matches, Block, IsOri
  <2>3. Named'
    <3>1. \A o, k, i : Seen(o, k, i)' <=> Seen(o, k, i)
      BY <2>1 DEF Seen
    <3>2. CASE pc # "aborted"
      BY <1>1, <2>1, <3>1, <3>2, NamedSame
    <3>3. CASE pc = "aborted"
      BY <2>1, <3>3 DEF Named
    <3> QED BY <3>2, <3>3
  <2> QED BY <2>2, <2>3
<1>5. Moves \/ Abort \/ UNCHANGED vars
  BY <1>1, NextCases
<1> QED BY <1>2, <1>3, <1>4, <1>5

(***************************************************************************)
(* When find_global_function_defs has gone over all files, a function has  *)
(* the name n just when a block of the top-level code of its file builds   *)
(* its address and at once stores it into the symbol n: the matcher with   *)
(* three states finds each such store, at any place in any block, and      *)
(* takes nothing else for one.                                             *)
(***************************************************************************)
THEOREM NamesAreStores == Spec => []NamedAfterStores
<1>1. NamesInv => NamedAfterStores
  <2> SUFFICES ASSUME NamesInv, pc = "done",
                      NEW o \in Objs, NEW f \in Functions, NEW n \in Names
               PROVE  guessed[<<o, f>>] = n <=>
                        /\ file[o].segments = 3
                        /\ \E k \in DOMAIN file[o].blocks : Defines(file[o].blocks[k], f, n)
    BY DEF NamedAfterStores
  <2>1. guessed[<<o, f>>] = n <=> DefinedYet(o, f, n)
    BY DEF NamesInv, Named
  <2>2. \A k, i : Seen(o, k, i)
    BY DEF Seen
  <2> QED BY <2>1, <2>2 DEF DefinedYet, Defines
<1> QED BY <1>1, InitNames, NextNames, PTL DEF Spec
=============================================================================
