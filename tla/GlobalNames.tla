----------------------------- MODULE GlobalNames -----------------------------
(***************************************************************************)
(* What the object files tell about global symbols.  The linkers report    *)
(* symbols and types to the one TypeInfo of the program                    *)
(* (LinkedObjectFileCreation.cpp, TypeInfo.cpp); when all files are linked *)
(* find_global_function_defs (Function.cpp) reads the top-level function   *)
(* of each for stores of a function's address into a symbol and names the  *)
(* function after it.                                                      *)
(*                                                                         *)
(* A file is the entries of its link tables, the number of functions in    *)
(* its top-level segment, and the instructions of the blocks of the first  *)
(* of them: lui and ori that build the address of a label, and sw to an    *)
(* offset of s7, the register that points to the symbols.  A failed assert *)
(* anywhere ends the program.                                              *)
(***************************************************************************)
EXTENDS Integers, Sequences, FiniteSets, SequencesExt

CONSTANTS
  NObjs,       \* object files, visited in the order 1 .. NObjs
  Inputs,      \* object -> its file: [entries, segments, tops, blocks]
  Names,       \* symbol names, "type" among them
  Functions    \* the functions of a file that are not top-level code

Objs == 1 .. NObjs
TopLevel == "(top-level-init)"
NoType == ""

(* Where a label is: at a function, at the top-level one, inside one, in data. *)
Labels == Functions \cup {"top", "inside", "data"}

Links == [kind : {"SYMBOL", "EMPTY_LIST", "TYPE"}, name : Names, methods : Nat \cup {-1}]

(* The symbol of a store is one that the linker found; "imm" is none. *)
IsInstruction(i) ==
  /\ i.op = "lui" => i.arg \in Labels
  /\ i.op = "sw" => i.arg \in Names \cup {"imm"}

IsFile(f) ==
  /\ f.entries \in Seq(Links)
  /\ f.blocks \in Seq(Range(f.blocks))
  /\ \A b \in Range(f.blocks) : b \in Seq(Range(b)) /\ \A i \in Range(b) : IsInstruction(i)

(* A zero byte ends a link table, so a symbol has a name of some length. *)
ASSUME NamesAssumption ==
  /\ NObjs \in Nat \ {0}
  /\ \A input \in Inputs : DOMAIN input = Objs /\ \A o \in Objs : IsFile(input[o])
  /\ "type" \in Names
  /\ {TopLevel, "imm", ""} \cap Names = {}
  /\ Functions \cap {"top", "inside", "data"} = {}

VARIABLES
  file,       \* object -> its file
  symbols,    \* m_symbols: name -> its type, NoType if none is known
  types,      \* m_types: name -> number of methods, -1 if not known
  guessed,    \* <<object, function>> -> guessed_name, "" if empty
  pc,         \* the running pass
  obj, nth,   \* its object, and the next link table entry or block
  idx,        \* the next instruction of the block
  state, reg, label  \* the matcher of find_global_function_defs

known == <<symbols, types, guessed>>
vars == <<file, known, pc, obj, nth, idx, state, reg, label>>

Funs == Objs \X (Functions \cup {"top"})

Init ==
  /\ file \in Inputs
  /\ symbols = [n \in {"type"} |-> NoType]
  /\ types = [n \in {"type"} |-> -1]
  /\ guessed = [f \in Funs |-> ""]
  /\ pc = "link"
  /\ obj = 1
  /\ nth = 1
  /\ idx = 1
  /\ state = 0
  /\ reg = ""
  /\ label = ""

Abort == /\ pc' = "aborted"
         /\ UNCHANGED <<file, known, obj, nth, idx, state, reg, label>>

At(pass, o, n) == /\ pc' = pass
                  /\ obj' = o
                  /\ nth' = n
                  /\ idx' = 1
                  /\ state' = 0
                  /\ UNCHANGED <<file, reg, label>>

-----------------------------------------------------------------------------
(* TypeInfo *)

(* f with another value at x, which may be new. *)
With(f, x, v) == [y \in DOMAIN f \cup {x} |-> IF y = x THEN v ELSE f[y]]

(* Mutant: a symbol that is met again is forgotten. *)
InformNameAnew(n) == With(symbols, n, NoType)

(* inform_symbol_with_no_type_info *)
InformName(n) == IF n \in DOMAIN symbols THEN symbols ELSE With(symbols, n, NoType)

(* set_type asserts that what is known of a symbol is not contradicted. *)
Contradicts(n, type) == n \in DOMAIN symbols /\ symbols[n] \notin {NoType, type}

(* inform_symbol *)
InformSymbol(n, type) == symbols' = With(symbols, n, type)

(* Mutant: the last number of methods stays. *)
MethodsWithLast(n, methods) == methods

(***************************************************************************)
(* inform_type and inform_type_method_count.  V4 and V5 links say nothing  *)
(* of methods (-1).  The first number stays; another only gets a warning.  *)
(***************************************************************************)
MethodsWith(n, methods) ==
  IF n \in DOMAIN types /\ types[n] >= 0 THEN types[n] ELSE methods

InformType(n, methods) ==
  /\ InformSymbol(n, "type")
  /\ types' = With(types, n, MethodsWith(n, methods))

-----------------------------------------------------------------------------
(* Linking *)

Entries == file[obj].entries

(* Every entry of a link table is used, so a type entry informs of a type. *)
LinkEntry ==
  LET e == Entries[nth]
  IN /\ pc = "link"
     /\ nth <= Len(Entries)
     /\ IF e.kind = "TYPE" /\ Contradicts(e.name, "type")
        THEN Abort
        ELSE /\ IF e.kind = "TYPE"
                THEN InformType(e.name, e.methods)
                ELSE symbols' = InformName(e.name) /\ UNCHANGED types
             /\ At("link", obj, nth + 1)
             /\ UNCHANGED guessed

FileLinked ==
  /\ pc = "link"
  /\ nth > Len(Entries)
  /\ IF obj < NObjs THEN At("link", obj + 1, 1) ELSE At("top", 1, 1)
  /\ UNCHANGED known

-----------------------------------------------------------------------------
(* Naming functions *)

(* Mutant: the name of top-level code is reported as a symbol too. *)
EnterTopLevelAsSymbol ==
  /\ pc = "top"
  /\ file[obj].segments = 3
  /\ guessed' = [guessed EXCEPT ![<<obj, "top">>] = TopLevel]
  /\ InformSymbol(TopLevel, "function")
  /\ At("defs", obj, 1)
  /\ UNCHANGED types

(* Only files of three segments have a top-level segment: one function. *)
EnterTopLevel ==
  /\ pc = "top"
  /\ file[obj].segments = 3
  /\ IF file[obj].tops # 1
     THEN Abort
     ELSE /\ guessed' = [guessed EXCEPT ![<<obj, "top">>] = TopLevel]
          /\ At("defs", obj, 1)
          /\ UNCHANGED <<symbols, types>>

FileDone ==
  /\ \/ pc = "top" /\ file[obj].segments # 3
     \/ pc = "defs" /\ nth > Len(file[obj].blocks)
  /\ IF obj < NObjs THEN At("top", obj + 1, 1) ELSE At("done", obj, 1)
  /\ UNCHANGED known

Block == file[obj].blocks[nth]

InBlock == pc = "defs" /\ nth <= Len(file[obj].blocks) /\ idx <= Len(Block)

Step(s) == /\ state' = s
           /\ idx' = idx + 1
           /\ UNCHANGED <<file, pc, obj, nth>>

(* A lui of a label always starts a match. *)
MatchLui ==
  /\ InBlock
  /\ Block[idx].op = "lui"
  /\ Step(1)
  /\ reg' = Block[idx].dst
  /\ label' = Block[idx].arg
  /\ UNCHANGED known

(* Its ori; an ori of the register with a plain immediate fails an assert. *)
MatchOri ==
  LET i == Block[idx]
      ori == i.op = "ori" /\ i.src = reg
  IN /\ InBlock
     /\ i.op # "lui"
     /\ state = 1
     /\ IF ori /\ i.arg = "imm"
        THEN Abort
        ELSE /\ Step(IF ori /\ i.arg = label THEN 2 ELSE 0)
             /\ reg' = IF ori /\ i.arg = label THEN i.dst ELSE reg
             /\ UNCHANGED <<label, known>>

IsStore(i) == i.op = "sw" /\ i.src = reg

PointsToCode(l) == l # "data"

(* get_function_at_label and the empty guessed_name are asserted. *)
CanName(f, n) == /\ f # "inside"
                 /\ guessed[<<obj, f>>] = ""
                 /\ ~Contradicts(n, "function")

(***************************************************************************)
(* The store: the label, if it is in code, is the function the symbol      *)
(* names.  The match goes on: the same register may be stored again.       *)
(***************************************************************************)
MatchStore ==
  LET i == Block[idx]
  IN /\ InBlock
     /\ state = 2
     /\ IsStore(i)
     /\ IF i.arg = "imm" \/ (PointsToCode(label) /\ ~CanName(label, i.arg))
        THEN Abort
        ELSE /\ IF PointsToCode(label)
                THEN /\ guessed' = [guessed EXCEPT ![<<obj, label>>] = i.arg]
                     /\ InformSymbol(i.arg, "function")
                     /\ UNCHANGED types
                ELSE UNCHANGED known
             /\ Step(state)
             /\ UNCHANGED <<reg, label>>

NoMatch ==
  LET i == Block[idx]
  IN /\ InBlock
     /\ i.op # "lui"
     /\ state = 0 \/ (state = 2 /\ ~IsStore(i))
     /\ Step(0)
     /\ UNCHANGED <<reg, label, known>>

(* Mutant: a match goes on into the next block. *)
BlockDoneMatching ==
  /\ pc = "defs"
  /\ nth <= Len(file[obj].blocks)
  /\ idx > Len(Block)
  /\ nth' = nth + 1
  /\ idx' = 1
  /\ UNCHANGED <<file, known, pc, obj, state, reg, label>>

(* A match does not go on into the next block. *)
BlockDone ==
  /\ pc = "defs"
  /\ nth <= Len(file[obj].blocks)
  /\ idx > Len(Block)
  /\ At("defs", obj, nth + 1)
  /\ UNCHANGED known

Finished == pc \in {"done", "aborted"} /\ UNCHANGED vars

Next ==
  \/ LinkEntry \/ FileLinked
  \/ EnterTopLevel \/ FileDone
  \/ MatchLui \/ MatchOri \/ MatchStore \/ NoMatch \/ BlockDone
  \/ Finished

(* One thread; nothing waits. *)
Spec == Init /\ [][Next]_vars /\ WF_vars(Next)

-----------------------------------------------------------------------------
(* Properties *)

(* TypeInfo and the names have the shape of the C++ members. *)
TypeOK ==
  /\ DOMAIN symbols \subseteq Names
  /\ symbols \in [DOMAIN symbols -> {NoType, "type", "function"}]
  /\ DOMAIN types \subseteq Names
  /\ types \in [DOMAIN types -> Nat \cup {-1}]
  /\ guessed \in [Funs -> Names \cup {"", TopLevel}]
  /\ pc \in {"link", "top", "defs", "done", "aborted"}
  /\ obj \in Objs
  /\ {nth, idx} \subseteq Nat
  /\ state \in 0 .. 2

(***************************************************************************)
(* What is known of a symbol stays: its type, the number of methods of a   *)
(* type, the name of a function, whichever file is read when.              *)
(***************************************************************************)
KnowledgeStays ==
  [][/\ \A n \in DOMAIN symbols : symbols[n] # NoType => symbols'[n] = symbols[n]
     /\ \A n \in DOMAIN types : types[n] # -1 => types'[n] = types[n]
     /\ \A f \in Funs : guessed[f] # "" => guessed'[f] = guessed[f]]_vars

(***************************************************************************)
(* The two tables of TypeInfo and the names of functions agree: a symbol   *)
(* of type "type" is a type and one of type "function" is what a function  *)
(* is named after.  Only for "type" itself nothing has been set.           *)
(***************************************************************************)
TablesAgree ==
  /\ {n \in DOMAIN symbols : symbols[n] = "type"} \cup {"type"} = DOMAIN types
  /\ {n \in DOMAIN symbols : symbols[n] = "function"} = Range(guessed) \ {"", TopLevel}

(* The entries of all link tables, in the order in which they are used. *)
Places == UNION {{o} \X DOMAIN file[o].entries : o \in Objs}
Before(p, q) == p[1] < q[1] \/ (p[1] = q[1] /\ p[2] < q[2])
EntryAt(p) == file[p[1]].entries[p[2]]

Typed(P, n) == {p \in P : EntryAt(p).kind = "TYPE" /\ EntryAt(p).name = n}
Counts(P, n) == {p \in Typed(P, n) : EntryAt(p).methods # -1}

(* TypeInfo is what the entries at P say together. *)
Told(P) ==
  /\ DOMAIN types = {"type"} \cup {n \in Names : Typed(P, n) # {}}
  /\ {EntryAt(p).name : p \in P} \subseteq DOMAIN symbols
  /\ \A n \in DOMAIN types :
       IF Counts(P, n) = {} THEN types[n] = -1
       ELSE \E p \in Counts(P, n) : /\ \A q \in Counts(P, n) : ~Before(q, p)
                                    /\ types[n] = EntryAt(p).methods

(***************************************************************************)
(* When all files are linked TypeInfo is what their tables say together,   *)
(* of a type with several method counts the first.                         *)
(***************************************************************************)
LinksAreKnown == pc \in {"top", "defs", "done"} => Told(Places)

(* What all files say of symbols and types is known, and the two tables and *)
(* the names of functions say the same.                                     *)
TypesAreKnown == TablesAgree /\ LinksAreKnown

(***************************************************************************)
(* A function is named n just when a block of its file's top-level code    *)
(* builds its address and at once stores it into n.                        *)
(***************************************************************************)
DefinesAt(block, k, f, n) ==
  /\ block[k].op = "lui" /\ block[k].arg = f
  /\ block[k + 1].op = "ori" /\ block[k + 1].src = block[k].dst /\ block[k + 1].arg = f
  /\ block[k + 2].op = "sw" /\ block[k + 2].src = block[k + 1].dst /\ block[k + 2].arg = n

Defines(block, f, n) == \E k \in 1 .. Len(block) - 2 : DefinesAt(block, k, f, n)

NamedAfterStores ==
  pc = "done" =>
    \A o \in Objs, f \in Functions, n \in Names :
      guessed[<<o, f>>] = n <=>
        /\ file[o].segments = 3
        /\ \E k \in DOMAIN file[o].blocks : Defines(file[o].blocks[k], f, n)
=============================================================================
