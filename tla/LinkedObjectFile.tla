-------------------------- MODULE LinkedObjectFile --------------------------
(***************************************************************************)
(* One object file and its linking information, from the first pointer of  *)
(* its link table to the printed disassembly: LinkedObjectFile.cpp, driven *)
(* by the linkers of LinkedObjectFileCreation.cpp and by the pass order of *)
(* main.cpp and ObjectFileDB::find_code.                                   *)
(*                                                                         *)
(* Every word has its raw value (raw, never written after loading) and its *)
(* linking annotation (words).  Labels are numbered in the order in which  *)
(* the passes meet them; label_per_seg_by_offset finds the label of an     *)
(* address again.  A failed assert or a std::vector::at out of range ends  *)
(* the program: pc = "aborted".                                            *)
(*                                                                         *)
(* Abstractions.  The link table is the nondeterministic choice of which   *)
(* words it visits (module LinkTable models its bytes, and shows in what   *)
(* order they come).  A raw word is its value and the class of the opcode  *)
(* it decodes to; a test of its registers may turn out either way.         *)
(***************************************************************************)
EXTENDS Integers, Sequences, FiniteSets, SequencesExt

CONSTANTS
  Version,     \* link format of the file: 3, 4 or 5
  NSegs,       \* segments: 3 in V3 and V5, 1 in V4
  Size,        \* Size[s]: number of words of segment s
  Images,      \* the raw contents the file may have
  Names,       \* the symbol and type names the link tables mention
  MaxSymbols   \* bound: ascending rows of references in the table of a segment

Segs == 0 .. NSegs - 1
Loc == UNION {{s} \X (0 .. Size[s] - 1) : s \in Segs}

(***************************************************************************)
(* Opcode classes.  JR_RA: the word 0x03e00008; FP_LOAD: lw, lwc1, ld or   *)
(* daddiu off the fp register; FP_ADD: addu or daddu with fp; FP_OTHER:    *)
(* another use of fp, which ends the program when fp-relative links are    *)
(* made; IMM: any other opcode with an immediate source; REG: any without; *)
(* BAD: no opcode.                                                         *)
(***************************************************************************)
Ops == {"JR_RA", "BRANCH", "LUI", "ORI", "FP_LOAD", "FP_ADD", "FP_OTHER",
        "IMM", "REG", "BAD"}

(* What an int of the code can be: a word, read as one. *)
SignedTo(m) == -m - 1 .. m
Int32 == SignedTo(2147483647)

LinkKinds == {"SYMBOL", "TYPE", "EMPTY_LIST"}
WordKinds == {"PLAIN_DATA", "PTR", "HI_PTR", "LO_PTR", "SYM_PTR",
              "EMPTY_PTR", "SYM_OFFSET", "TYPE_PTR"}

ASSUME FormatAssumption ==
  /\ Version \in {3, 4, 5}
  /\ NSegs = IF Version = 4 THEN 1 ELSE 3
  /\ Size \in [Segs -> Nat]
  /\ \A image \in Images : image \in [Loc -> [op : Ops, value : Int32]]
  /\ "" \notin Names
  /\ MaxSymbols \in Nat

VARIABLES
  raw,         \* Loc -> raw value
  words,       \* Loc -> [kind, label, symbol]: words_by_seg
  labels,      \* the labels, label id i is labels[i + 1]
  labelAt,     \* <<segment, byte offset>> -> label id: label_per_seg_by_offset
  dataStart,   \* offset_of_data_zone_by_seg, in words
  functions,   \* functions_by_seg: sequences of [start, end]
  insns,       \* decoded word -> [arg, label]: what stands for the immediate in
               \* Function::instructions, the opcode being that of the raw word
  stats,       \* [code, data] byte counts and [functions]
  pc,          \* the running pass
  seg, at,     \* its cursor: a segment and a word of it
  sym,         \* the symbol whose references are being linked
  nsyms        \* rows of references of this segment so far

linkVars == <<words, labels, labelAt>>
codeVars == <<dataStart, functions, insns, stats>>
cursor == <<pc, seg, at, sym, nsyms>>
vars == <<raw, linkVars, codeVars, cursor>>

Passes == {"pointers", "symbols", "find_code", "find_functions",
           "disassemble", "fp_links", "process_labels", "print"}
NoLabel == -1
DataStartName == -1   \* the name "L-data-start"; n >= 0 is the name "L<n>"
NoSymbol == [name |-> "", kind |-> "SYMBOL"]

-----------------------------------------------------------------------------
(* Reading raw words *)

Low16(r) == r.value % 65536

Signed16(r) == IF Low16(r) < 32768 THEN Low16(r) ELSE Low16(r) - 65536

(* The whole word as a pointer: pointer_link_word takes an int, so that any  *)
(* word from 0x80000000 is an offset before the segment.                     *)
Address(r) == r.value

(* The word 0xffffffff, and a word whose top byte is zero. *)
AllOnes(r) == r.value = -1
TopByteZero(r) == 0 <= r.value /\ r.value <= 16777215

(* The fields the linker finds in the upper word of a lui/ori pair. *)
UpperByte(r) == Low16(r) % 256
DestSeg(r) == (Low16(r) \div 256) % 16
LoHiGap(r) == Low16(r) \div 4096

HasImm(r) == r.op \in {"LUI", "ORI", "FP_LOAD", "IMM"}

IsFunctionTag(l) == words[l].kind = "TYPE_PTR" /\ words[l].symbol = "function"

-----------------------------------------------------------------------------
(* Labels *)

Known(s, o) == <<s, o>> \in DOMAIN labelAt

(* Mutants: an id one past the vector; one map for all segments; the newest  *)
(* label for any that is known.                                              *)
LabelIdPastEnd(s, o) == IF Known(s, o) THEN labelAt[<<s, o>>] ELSE Len(labels) + 1

LabelIdByOffset(s, o) ==
  IF \E a \in DOMAIN labelAt : a[2] = o
  THEN labelAt[CHOOSE a \in DOMAIN labelAt : a[2] = o]
  ELSE Len(labels)

LabelIdNewest(s, o) == IF Known(s, o) THEN Len(labels) - 1 ELSE Len(labels)

(* The id get_label_id_for returns. *)
LabelId(s, o) == IF Known(s, o) THEN labelAt[<<s, o>>] ELSE Len(labels)

(* Mutant: a label for every reference. *)
LabelsWithAnother(s, o) == Append(labels, [seg |-> s, offset |-> o, name |-> Len(labels)])

(* The tables after get_label_id_for: a new address gets the next id and name. *)
LabelsWith(s, o) ==
  IF Known(s, o) THEN labels
  ELSE Append(labels, [seg |-> s, offset |-> o, name |-> Len(labels)])

LabelAtWith(s, o) ==
  [a \in DOMAIN labelAt \cup {<<s, o>>} |->
     IF a = <<s, o>> THEN LabelId(s, o) ELSE labelAt[a]]

NoteLabel(s, o) == labels' = LabelsWith(s, o) /\ labelAt' = LabelAtWith(s, o)

LabelSeg(id) == labels[id + 1].seg
LabelOffset(id) == labels[id + 1].offset

-----------------------------------------------------------------------------
(* Control *)

Abort == /\ pc' = "aborted"
         /\ UNCHANGED <<raw, linkVars, codeVars, seg, at, sym, nsyms>>

Goto(pass, s, w) == /\ pc' = pass
                    /\ seg' = s
                    /\ at' = w
                    /\ sym' = NoSymbol
                    /\ nsyms' = 0

Advance(w) == at' = w /\ UNCHANGED <<pc, seg, sym, nsyms>>

(* The next segment of an ascending loop, or the next pass. *)
NextSegment(nextPass) ==
  IF seg + 1 < NSegs THEN Goto(pc, seg + 1, 0) ELSE Goto(nextPass, 0, 0)

(***************************************************************************)
(* A link table starts with a seek of at least one word, from one word     *)
(* before the segment in V3 and V5 and from its first word in V4.          *)
(***************************************************************************)
FirstPointer == IF Version = 4 THEN 1 ELSE 0

Init ==
  /\ raw \in Images
  /\ words = [l \in Loc |-> [kind |-> "PLAIN_DATA", label |-> NoLabel, symbol |-> ""]]
  /\ labels = << >>
  /\ labelAt = [a \in {} |-> 0]
  /\ dataStart = [s \in Segs |-> 0]
  /\ functions = [s \in Segs |-> << >>]
  /\ insns = [l \in {} |-> 0]
  /\ stats = [code |-> 0, data |-> 0, functions |-> 0]
  /\ pc = "pointers"
  /\ seg = NSegs - 1
  /\ at = FirstPointer
  /\ sym = NoSymbol
  /\ nsyms = 0

-----------------------------------------------------------------------------
(* Linking: the pointers of a segment, then its symbols *)

Pointing(word, kind, id) == [word EXCEPT !.kind = kind, !.label = id]
Naming(word, kind, name) == [word EXCEPT !.kind = kind, !.symbol = name]

(* The table seeks over this word. *)
SeekPointer ==
  /\ pc = "pointers"
  /\ at < Size[seg]
  /\ Advance(at + 1)
  /\ UNCHANGED <<raw, linkVars, codeVars>>

(* A V3/V5 word with a zero top byte, and every V4 word, is a pointer. *)
IsWordPointer(r) == Version = 4 \/ TopByteZero(r)

(***************************************************************************)
(* pointer_link_word on the word at the cursor.  A destination past the    *)
(* end of the segment is ignored with a warning; one just past it is not,  *)
(* nor is one before the segment.                                          *)
(***************************************************************************)
LinkPointer ==
  LET l == <<seg, at>>
      dest == Address(raw[l])
  IN /\ pc = "pointers"
     /\ at < Size[seg]
     /\ IsWordPointer(raw[l])
     /\ IF words[l].kind # "PLAIN_DATA"
        THEN Abort
        ELSE /\ IF dest >= 0 /\ dest \div 4 > Size[seg]
                THEN UNCHANGED linkVars
                ELSE /\ words' = [words EXCEPT ![l] = Pointing(@, "PTR", LabelId(seg, dest))]
                     /\ NoteLabel(seg, dest)
             /\ Advance(at + 1)
             /\ UNCHANGED <<raw, codeVars>>

(***************************************************************************)
(* The other V3/V5 words are the upper half of a lui/ori pair: their       *)
(* fields give the target segment and the distance to the lower half, and  *)
(* pointer_link_split_word links both halves to one label.                 *)
(***************************************************************************)
LinkSplitPointer ==
  LET hi == <<seg, at>>
      r == raw[hi]
      lo == <<seg, at + LoHiGap(r)>>
      dest == Low16(raw[lo]) + 65536 * UpperByte(r)
      id == LabelId(DestSeg(r), dest)
  IN /\ pc = "pointers"
     /\ at < Size[seg]
     /\ ~IsWordPointer(r)
     /\ IF \/ LoHiGap(r) = 0
           \/ DestSeg(r) \notin Segs
           \/ lo \notin Loc
           \/ words[hi].kind # "PLAIN_DATA"
           \/ words[lo].kind # "PLAIN_DATA"
        THEN Abort
        ELSE /\ words' = [words EXCEPT ![hi] = Pointing(words[hi], "HI_PTR", id),
                                       ![lo] = Pointing(words[lo], "LO_PTR", id)]
             /\ NoteLabel(DestSeg(r), dest)
             /\ Advance(at + 1)
             /\ UNCHANGED <<raw, codeVars>>

PointersDone ==
  /\ pc = "pointers"
  /\ at >= Size[seg]
  /\ Goto("symbols", seg, 0)
  /\ UNCHANGED <<raw, linkVars, codeVars>>

(* The linkers give the symbol "_empty_" a kind of its own, and assert that  *)
(* no type has that name; link_v5 does not.                                  *)
SymbolEntries == {e \in [name : Names, kind : LinkKinds] :
                    IF e.name = "_empty_"
                    THEN e.kind = "EMPTY_LIST" \/ (Version = 5 /\ e.kind = "TYPE")
                    ELSE e.kind # "EMPTY_LIST"}

WordKindOf(kind) == CASE kind = "SYMBOL" -> "SYM_PTR"
                      [] kind = "TYPE" -> "TYPE_PTR"
                      [] kind = "EMPTY_LIST" -> "EMPTY_PTR"

(* Mutant: the word may be a pointer. *)
CannotHoldOffsetOfKind(s, l) ==
  \/ s.kind # "SYMBOL"
  \/ Version # 3 /\ Low16(raw[l]) \notin {0, 65535}

(* What is asserted of a word that is to hold the offset of a symbol is not so. *)
CannotHoldOffset(s, l) ==
  \/ s.kind # "SYMBOL"
  \/ Version # 3 /\ Low16(raw[l]) \notin {0, 65535}
  \/ words[l].kind # "PLAIN_DATA"

(***************************************************************************)
(* c_symlink2 and c_symlink3, one reference: the entry s links word w.     *)
(* References ascend until an entry ends; one of c_symlink2 may also go    *)
(* back, which is like another entry of the symbol and counted as one.  A  *)
(* word of all ones becomes the symbol, whatever it was linked to before;  *)
(* in any other only the low half is patched, which must still be plain    *)
(* data.                                                                   *)
(***************************************************************************)
LinkSymbol(s, w) ==
  LET l == <<seg, w>>
  IN /\ pc = "symbols"
     /\ w < Size[seg]
     /\ \/ s = sym /\ w >= at /\ UNCHANGED nsyms
        \/ nsyms < MaxSymbols /\ nsyms' = nsyms + 1
     /\ IF AllOnes(raw[l])
        THEN /\ words' = [words EXCEPT ![l] = Naming(@, WordKindOf(s.kind), s.name)]
             /\ sym' = s
             /\ at' = w + 1
             /\ pc' = pc
        ELSE IF CannotHoldOffset(s, l)
        THEN /\ pc' = "aborted"
             /\ UNCHANGED <<words, sym, at>>
        ELSE /\ words' = [words EXCEPT ![l] = Naming(@, "SYM_OFFSET", s.name)]
             /\ sym' = s
             /\ at' = w + 1
             /\ pc' = pc
     /\ UNCHANGED <<raw, labels, labelAt, codeVars, seg>>

(* The table visits a word that the segment does not have: its vector       *)
(* throws.  A segment of no words has no table, unless it is the one of V4. *)
VisitOutside ==
  /\ pc \in {"pointers", "symbols"}
  /\ Version = 4 \/ Size[seg] > 0
  /\ Abort

(* Segments are linked from the last to the first. *)
SymbolsDone ==
  /\ pc = "symbols"
  /\ IF seg > 0
     THEN Goto("pointers", seg - 1, FirstPointer)
     ELSE Goto("find_code", 0, 0)
  /\ UNCHANGED <<raw, linkVars, codeVars>>

-----------------------------------------------------------------------------
(* Code and data zones *)

FunctionTags(s) == {w \in 0 .. Size[s] - 1 : IsFunctionTag(<<s, w>>)}

(* Every plain "jr ra" at or after a word. *)
ReturnsFrom(s, w) == {v \in w .. Size[s] - 1 :
                        words[<<s, v>>].kind = "PLAIN_DATA" /\ raw[<<s, v>>].op = "JR_RA"}

IsLast(w, S) == w \in S /\ \A v \in S : v <= w

(***************************************************************************)
(* The data zone of a segment starts after the delay slot of the last      *)
(* return at or after the last function tag, and holds no function tag.    *)
(***************************************************************************)
DataStartsAt(s, start) ==
  /\ IF FunctionTags(s) = {}
     THEN start = 0
     ELSE \E tag \in FunctionTags(s) :
            IsLast(tag, FunctionTags(s)) /\ IsLast(start - 2, ReturnsFrom(s, tag))
  /\ \A w \in FunctionTags(s) : w < start

(* find_code of a single-segment file, which may hold no function at all. *)
FindCodeSingle ==
  /\ pc = "find_code"
  /\ NSegs = 1
  /\ IF \E l \in Loc : words[l].symbol = "function"
     THEN Abort
     ELSE /\ dataStart' = [dataStart EXCEPT ![0] = 0]
          /\ stats' = [stats EXCEPT !.data = 4 * Size[0], !.code = 0]
          /\ Goto("find_functions", 0, 0)
          /\ UNCHANGED <<raw, linkVars, functions, insns>>

(* No return after the last function, or no room for its delay slot. *)
NoDataZone ==
  /\ pc = "find_code"
  /\ NSegs = 3
  /\ ~\E start \in 0 .. Size[seg] : DataStartsAt(seg, start)
  /\ Abort

(***************************************************************************)
(* One segment of find_code, with the debug label at the start of its data *)
(* and the byte counts the summary prints.                                 *)
(***************************************************************************)
FindCode(start) ==
  /\ pc = "find_code"
  /\ NSegs = 3
  /\ DataStartsAt(seg, start)
  /\ dataStart' = [dataStart EXCEPT ![seg] = start]
  /\ IF start < Size[seg]
     THEN /\ labels' = [LabelsWith(seg, 4 * start) EXCEPT
                          ![LabelId(seg, 4 * start) + 1].name = DataStartName]
          /\ labelAt' = LabelAtWith(seg, 4 * start)
     ELSE UNCHANGED <<labels, labelAt>>
  /\ stats' = [stats EXCEPT !.data = @ + 4 * (Size[seg] - start) * 4,
                            !.code = @ + 4 * start]
  /\ IF seg + 1 < NSegs
     THEN Goto("find_code", seg + 1, 0)
     ELSE Goto("find_functions", 0, dataStart'[0])
  /\ UNCHANGED <<raw, words, functions, insns>>

(***************************************************************************)
(* find_functions walks a code zone backwards: from the end of a function  *)
(* (the cursor) to its tag, which is the end of the function before it.    *)
(***************************************************************************)
FindFunction(tag) ==
  /\ pc = "find_functions"
  /\ IsLast(tag, {w \in FunctionTags(seg) : w < at})
  /\ functions' = [functions EXCEPT ![seg] = Append(@, [start |-> tag, end |-> at])]
  /\ stats' = [stats EXCEPT !.functions = @ + 1]
  /\ Advance(tag)
  /\ UNCHANGED <<raw, linkVars, dataStart, insns>>

(* Mutant: the walk back to the next tag does not stop at the first word. *)
SearchBeforeFirstFunction ==
  /\ pc = "find_functions"
  /\ at > 0
  /\ \A w \in FunctionTags(seg) : w >= at
  /\ UNCHANGED vars

CodeBeforeFirstFunction ==
  /\ pc = "find_functions"
  /\ at > 0
  /\ \A w \in FunctionTags(seg) : w >= at
  /\ Abort

(* Mutant: the functions stay in the order in which they were found. *)
FunctionsDoneBackwards ==
  /\ pc = "find_functions"
  /\ at = 0
  /\ IF seg + 1 < NSegs
     THEN Goto("find_functions", seg + 1, dataStart[seg + 1])
     ELSE Goto("disassemble", 0, 0)
  /\ UNCHANGED <<raw, linkVars, codeVars>>

FunctionsDone ==
  /\ pc = "find_functions"
  /\ at = 0
  /\ functions' = [functions EXCEPT ![seg] = Reverse(@)]
  /\ IF seg + 1 < NSegs
     THEN Goto("find_functions", seg + 1, dataStart[seg + 1])
     ELSE Goto("disassemble", 0, 0)
  /\ UNCHANGED <<raw, linkVars, dataStart, insns, stats>>

-----------------------------------------------------------------------------
(* Disassembly: the functions of a segment cover its code zone in order, so *)
(* the cursor goes through the zone word by word.                           *)

Insn(arg, id) == [arg |-> arg, label |-> id]

SetInsn(l, i) == insns' = [x \in DOMAIN insns \cup {l} |->
                             IF x = l THEN i ELSE insns[x]]

(* Mutant: branches count from themselves. *)
BranchTargetFromBranch(w, r) == (w + Signed16(r)) * 4

(* Branches count from their delay slot. *)
BranchTarget(w, r) == (w + Signed16(r) + 1) * 4

(***************************************************************************)
(* decode_instruction on the word at the cursor.  A branch labels its      *)
(* target; a word linked to a symbol or to half a pointer has its          *)
(* immediate replaced by the symbol or the label, and must have one.       *)
(***************************************************************************)
DecodeBranch ==
  LET l == <<seg, at>>
      r == raw[l]
      target == BranchTarget(at, r)
  IN /\ pc = "disassemble"
     /\ at < dataStart[seg]
     /\ r.op = "BRANCH"
     /\ IF words[l].kind \in {"SYM_OFFSET", "HI_PTR", "LO_PTR"}
        THEN Abort
        ELSE /\ NoteLabel(seg, target)
             /\ SetInsn(l, Insn("label", LabelId(seg, target)))
             /\ Advance(at + 1)
             /\ UNCHANGED <<raw, words, dataStart, functions, stats>>

DecodeOther ==
  LET l == <<seg, at>>
      r == raw[l]
      kind == words[l].kind
  IN /\ pc = "disassemble"
     /\ at < dataStart[seg]
     /\ r.op # "BRANCH"
     /\ IF \/ r.op # "BAD" /\ kind = "SYM_OFFSET" /\ ~HasImm(r)
           \/ r.op # "BAD" /\ kind = "HI_PTR" /\ r.op # "LUI"
           \/ r.op # "BAD" /\ kind = "LO_PTR" /\ r.op # "ORI"
        THEN Abort
        ELSE /\ SetInsn(l,
                  CASE r.op = "BAD" -> Insn("none", NoLabel)
                    [] r.op # "BAD" /\ kind = "SYM_OFFSET" -> Insn("symbol", NoLabel)
                    [] r.op # "BAD" /\ kind \in {"HI_PTR", "LO_PTR"} ->
                         Insn("label", words[l].label)
                    [] OTHER -> Insn(IF HasImm(r) THEN "imm" ELSE "none", NoLabel))
             /\ Advance(at + 1)
             /\ UNCHANGED <<raw, linkVars, dataStart, functions, stats>>

DisassemblyDone ==
  /\ pc = "disassemble"
  /\ at >= dataStart[seg]
  /\ NextSegment("fp_links")
  /\ UNCHANGED <<raw, linkVars, codeVars>>

-----------------------------------------------------------------------------
(* process_fp_relative_links: the fp register of a function holds the       *)
(* address just after its tag.                                              *)

InFunction(f, w) == f \in Range(functions[seg]) /\ f.start <= w /\ w < f.end

FpBase(f) == 4 * (f.start + 1)

FpOps == {"FP_LOAD", "FP_ADD", "FP_OTHER"}

FpSkip ==
  /\ pc = "fp_links"
  /\ at < dataStart[seg]
  /\ raw[<<seg, at>>].op \notin FpOps
  /\ Advance(at + 1)
  /\ UNCHANGED <<raw, linkVars, codeVars>>

(* The operand of an instruction becomes the label of an address. *)
LabelOperand(l, offset) ==
  /\ NoteLabel(seg, offset)
  /\ insns' = [insns EXCEPT ![l] = Insn("label", LabelId(seg, offset))]
  /\ UNCHANGED <<raw, words, dataStart, functions, stats>>

(* A load off fp, or the address of fp-relative data: the immediate becomes *)
(* the label of what it denotes.                                            *)
FpLoad(f) ==
  LET l == <<seg, at>>
  IN /\ pc = "fp_links"
     /\ at < dataStart[seg]
     /\ InFunction(f, at)
     /\ raw[l].op = "FP_LOAD"
     /\ IF insns[l].arg # "imm"
        THEN Abort
        ELSE LabelOperand(l, FpBase(f) + Signed16(raw[l])) /\ Advance(at + 1)

(***************************************************************************)
(* An offset too large for a load is put together by an ori, or by a lui   *)
(* and an ori, and added to fp: the ori, one instruction back, gets the    *)
(* label.  The instructions looked back at belong to the same function.    *)
(***************************************************************************)
HasLui(f) == at - 2 >= f.start /\ raw[<<seg, at - 2>>].op = "LUI"

FpAdd(f) ==
  LET prev == <<seg, at - 1>>
      pprev == <<seg, at - 2>>
      upper == IF HasLui(f) THEN 65536 * Signed16(raw[pprev]) ELSE 0
  IN /\ pc = "fp_links"
     /\ at < dataStart[seg]
     /\ InFunction(f, at)
     /\ raw[<<seg, at>>].op = "FP_ADD"
     /\ IF \/ at = f.start
           \/ raw[prev].op # "ORI" \/ insns[prev].arg # "imm"
           \/ HasLui(f) /\ insns[pprev].arg # "imm"
        THEN Abort
        ELSE LabelOperand(prev, FpBase(f) + Low16(raw[prev]) + upper) /\ Advance(at + 1)

(* "unknown fp using op", or an addition of other registers than those that *)
(* lui and ori have set, which an opcode class does not tell.               *)
FpUnknown ==
  /\ pc = "fp_links"
  /\ at < dataStart[seg]
  /\ raw[<<seg, at>>].op \in {"FP_ADD", "FP_OTHER"}
  /\ Abort

FpDone ==
  /\ pc = "fp_links"
  /\ at >= dataStart[seg]
  /\ NextSegment("process_labels")
  /\ UNCHANGED <<raw, linkVars, codeVars>>

-----------------------------------------------------------------------------
(* Names and output *)

(* Mutant: the order of the offsets, whatever the segments. *)
BeforeInOffset(i, j) == labels[i].offset < labels[j].offset

(* The order of the addresses the labels refer to. *)
Before(i, j) == \/ labels[i].seg < labels[j].seg
                \/ labels[i].seg = labels[j].seg /\ labels[i].offset < labels[j].offset

(* Mutant: the labels themselves are sorted. *)
SortLabels ==
  /\ pc = "process_labels"
  /\ labels' = [i \in DOMAIN labels |->
                  LET j == CHOOSE k \in DOMAIN labels :
                             Cardinality({m \in DOMAIN labels : Before(m, k)}) = i - 1
                  IN [labels[j] EXCEPT !.name = i]]
  /\ Goto("print", 0, 0)
  /\ UNCHANGED <<raw, words, labelAt, codeVars>>

(* set_ordered_label_names: L1, L2, ... in that order. *)
SetOrderedLabelNames ==
  /\ pc = "process_labels"
  /\ labels' = [i \in DOMAIN labels |->
                  [labels[i] EXCEPT !.name =
                     1 + Cardinality({j \in DOMAIN labels : Before(j, i)})]]
  /\ Goto("print", 0, 0)
  /\ UNCHANGED <<raw, words, labelAt, codeVars>>

(* The listing of a function has no line for an unaligned label. *)
UnalignedLabelInFunction ==
  \E s \in Segs : \E f \in Range(functions[s]) :
    \E w \in f.start + 1 .. f.end - 1 : \E j \in 1 .. 3 : Known(s, 4 * w + j)

PrintDisassembly ==
  /\ pc = "print"
  /\ IF UnalignedLabelInFunction THEN Abort
     ELSE /\ pc' = "done"
          /\ UNCHANGED <<raw, linkVars, codeVars, seg, at, sym, nsyms>>

Finished == pc \in {"done", "aborted"} /\ UNCHANGED vars

-----------------------------------------------------------------------------

LinkStep ==
  \/ SeekPointer \/ LinkPointer \/ LinkSplitPointer \/ PointersDone
  \/ \E s \in SymbolEntries, w \in 0 .. Size[seg] - 1 : LinkSymbol(s, w)
  \/ VisitOutside \/ SymbolsDone

CodeStep ==
  \/ FindCodeSingle \/ NoDataZone
  \/ \E start \in 0 .. Size[seg] : FindCode(start)
  \/ \E tag \in FunctionTags(seg) : FindFunction(tag)
  \/ CodeBeforeFirstFunction \/ FunctionsDone
  \/ DecodeBranch \/ DecodeOther \/ DisassemblyDone
  \/ \E f \in Range(functions[seg]) : FpLoad(f) \/ FpAdd(f)
  \/ FpSkip \/ FpUnknown \/ FpDone

OutputStep == SetOrderedLabelNames \/ PrintDisassembly

Next == LinkStep \/ CodeStep \/ OutputStep \/ Finished

(* The passes run one after the other on one thread, with nothing to wait *)
(* for, so a step that is possible is taken.                              *)
Spec == Init /\ [][Next]_vars /\ WF_vars(Next)

-----------------------------------------------------------------------------
(* Properties *)

LabelIds == 0 .. Len(labels) - 1

AddressOf(id) == <<LabelSeg(id), LabelOffset(id)>>

(***************************************************************************)
(* The state has the shape the C++ types give it; a label id on a word or  *)
(* an instruction is -1 or an existing label.                              *)
(***************************************************************************)
TypeOK ==
  /\ raw \in Images
  /\ words \in [Loc -> [kind : WordKinds, label : LabelIds \cup {NoLabel},
                        symbol : Names \cup {""}]]
  /\ labels \in Seq([seg : Segs, offset : Int, name : Int])
  /\ DOMAIN labelAt \subseteq Segs \X Int
  /\ labelAt \in [DOMAIN labelAt -> LabelIds]
  /\ dataStart \in [Segs -> Nat]
  /\ functions \in [Segs -> Seq([start : Nat, end : Nat])]
  /\ DOMAIN insns \subseteq Segs \X Nat
  /\ insns \in [DOMAIN insns -> [arg : {"none", "imm", "symbol", "label"},
                                 label : LabelIds \cup {NoLabel}]]
  /\ stats \in [code : Int, data : Int, functions : Nat]
  /\ pc \in Passes \cup {"done", "aborted"}
  /\ seg \in Segs
  /\ at \in Nat
  /\ sym \in SymbolEntries \cup {NoSymbol}
  /\ nsyms \in 0 .. MaxSymbols

(***************************************************************************)
(* labels and label_per_seg_by_offset are two views of one table: every    *)
(* label is found at its own address, and no two labels share an address.  *)
(* get_label_id_for asserts it on each use.                                *)
(***************************************************************************)
LabelTable ==
  /\ \A a \in DOMAIN labelAt : labelAt[a] \in LabelIds /\ AddressOf(labelAt[a]) = a
  /\ \A id \in LabelIds : AddressOf(id) \in DOMAIN labelAt /\ labelAt[AddressOf(id)] = id

(***************************************************************************)
(* A linked word denotes, through its label, the address its raw value     *)
(* encodes, whatever was linked, labelled or renamed since; the two halves *)
(* of a split pointer denote the same one.                                 *)
(***************************************************************************)
LinksDenoteTargets ==
  \A l \in Loc :
    /\ words[l].kind = "PTR" =>
         AddressOf(words[l].label) = <<l[1], Address(raw[l])>>
    /\ words[l].kind = "HI_PTR" =>
         LET lo == <<l[1], l[2] + LoHiGap(raw[l])>>
         IN /\ words[lo].label = words[l].label
            /\ AddressOf(words[l].label) =
                 <<DestSeg(raw[l]), Low16(raw[lo]) + 65536 * UpperByte(raw[l])>>

(***************************************************************************)
(* In a file of segments no pointer is lost to a symbol.  symbol_link_word *)
(* does not ask what a word was linked to; but it links words of all ones, *)
(* which are neither an address nor the upper half of a pair.  A lower     *)
(* half can be such a word, and then the pair has a half only.             *)
(***************************************************************************)
PointersAreKept ==
  [][Version # 4 =>
       \A l \in Loc :
         /\ words[l].kind \in {"PTR", "HI_PTR"} => words'[l] = words[l]
         /\ words[l].kind = "LO_PTR" /\ ~AllOnes(raw[l]) => words'[l] = words[l]]_vars

(***************************************************************************)
(* The label an instruction shows is the one its encoding means: the       *)
(* target of a branch, the fp-relative address of a load or of the ori     *)
(* before an add, or the linked address of a lui or ori.                   *)
(***************************************************************************)
InsnsDenoteTargets ==
  \A l \in DOMAIN insns : insns[l].arg = "label" =>
    LET f == CHOOSE g \in Range(functions[l[1]]) : g.start <= l[2] /\ l[2] < g.end
        target == AddressOf(insns[l].label)
    IN CASE raw[l].op = "BRANCH" -> target = <<l[1], 4 * (l[2] + 1 + Signed16(raw[l]))>>
         [] raw[l].op = "FP_LOAD" -> target = <<l[1], FpBase(f) + Signed16(raw[l])>>
         [] OTHER ->
              \/ words[l].kind \in {"HI_PTR", "LO_PTR"} /\ insns[l].label = words[l].label
              \/ /\ raw[<<l[1], l[2] + 1>>].op = "FP_ADD"
                 /\ target[1] = l[1]
                 /\ (target[2] - FpBase(f) - Low16(raw[l])) % 65536 = 0

(***************************************************************************)
(* After find_functions the functions of a segment tile its code zone: in  *)
(* order, without gap or overlap, one for each function tag and none with  *)
(* a second tag inside.                                                    *)
(***************************************************************************)
FunctionsTileCode ==
  pc \in {"disassemble", "fp_links", "process_labels", "print", "done"} =>
    \A s \in Segs :
      LET fs == functions[s] IN
      /\ {fs[i].start : i \in DOMAIN fs} = FunctionTags(s)
      /\ IF fs = << >> THEN dataStart[s] = 0
         ELSE fs[1].start = 0 /\ fs[Len(fs)].end = dataStart[s]
      /\ \A i \in 1 .. Len(fs) - 1 : fs[i].end = fs[i + 1].start

(***************************************************************************)
(* Once the labels are named, their names are L1 .. Ln in the order of     *)
(* their addresses, and stay so: no pass after process_labels adds a label *)
(* whose default name could be one of them.                                *)
(***************************************************************************)
NamesFollowAddresses ==
  pc \in {"print", "done"} =>
    /\ {labels[i].name : i \in DOMAIN labels} = 1 .. Len(labels)
    /\ \A i, j \in DOMAIN labels : Before(i, j) => labels[i].name < labels[j].name

(***************************************************************************)
(* A label id never comes to denote another address, so the ids stored in  *)
(* words and instructions stay good while labels are added.                *)
(***************************************************************************)
LabelsStay ==
  [][/\ Len(labels') >= Len(labels)
     /\ \A i \in DOMAIN labels : /\ labels'[i].seg = labels[i].seg
                                 /\ labels'[i].offset = labels[i].offset]_vars

(* Every pass comes to an end: all of it is printed, or an assert failed. *)
Termination == <>(pc \in {"done", "aborted"})

(***************************************************************************)
(* The file implements CrossReferences: its sites are the words and the    *)
(* instructions that hold a label.                                         *)
(***************************************************************************)
Sites == {"word", "insn"} \X Loc

SiteLabel(x) == IF x[1] = "word" THEN words[x[2]].label ELSE insns[x[2]].label

Resolved == {x \in Sites : /\ x[1] = "insn" => x[2] \in DOMAIN insns
                           /\ SiteLabel(x) # NoLabel}

References == INSTANCE CrossReferences WITH
  refs <- [x \in Resolved |-> AddressOf(SiteLabel(x))],
  targets <- {AddressOf(id) : id \in LabelIds},
  frozen <- pc \in {"print", "done", "aborted"}

(***************************************************************************)
(* No place of the file that was found to refer to an address ever refers  *)
(* to another, each reference has a label, and the passes that print find  *)
(* nothing added after the labels were named.                              *)
(***************************************************************************)
ImplementsCrossReferences == References!Spec
=============================================================================
