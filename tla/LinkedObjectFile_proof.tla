----------------------- MODULE LinkedObjectFile_proof -----------------------
(***************************************************************************)
(* Proofs about LinkedObjectFile, for files of every size and content: the *)
(* typing and the table of labels, then what the links denote, then the    *)
(* functions, instructions and names of the code.                          *)
(***************************************************************************)
EXTENDS LinkedObjectFile, FiniteSetTheorems, TLAPS

(* Code zones end inside their segments. *)
ZonesInFile == \A s \in Segs : dataStart[s] <= Size[s]

(***************************************************************************)
(* The inductive invariant.  Typing needs LabelTable, because              *)
(* get_label_id_for returns what the table holds, and ZonesInFile, because *)
(* the disassembler reads every word of a code zone.                       *)
(***************************************************************************)
Inv == TypeOK /\ LabelTable /\ ZonesInFile

LEMMA Constants ==
  /\ NSegs \in {1, 3}
  /\ Segs \subseteq Nat /\ 0 \in Segs /\ NSegs - 1 \in Segs
  /\ Size \in [Segs -> Nat]
  /\ MaxSymbols \in Nat
<1>1. NSegs = IF Version = 4 THEN 1 ELSE 3
  BY FormatAssumption
<1>2. NSegs \in {1, 3}
  BY <1>1
<1>3. Segs \subseteq Nat /\ 0 \in Segs /\ NSegs - 1 \in Segs
  BY <1>2 DEF Segs
<1> QED BY <1>2, <1>3, FormatAssumption

LEMMA LocMember ==
  ASSUME NEW s \in Segs, NEW w \in Nat, w < Size[s]
  PROVE  <<s, w>> \in Loc
<1>1. Size[s] \in Nat
  BY Constants
<1>2. <<s, w>> \in {s} \X (0 .. Size[s] - 1)
  BY <1>1
<1> QED BY <1>2 DEF Loc

LEMMA LocParts ==
  ASSUME NEW l \in Loc
  PROVE  l = <<l[1], l[2]>> /\ l[1] \in Segs /\ l[2] \in 0 .. Size[l[1]] - 1
<1>1. PICK s \in Segs : l \in {s} \X (0 .. Size[s] - 1)
  BY DEF Loc
<1> QED BY <1>1

(* A raw word has an opcode class and a value; what the passes read of it is *)
(* a number.                                                                 *)
LEMMA RawWordType ==
  ASSUME TypeOK, NEW l \in Loc
  PROVE  /\ raw[l].op \in Ops
         /\ Low16(raw[l]) \in Nat
         /\ Signed16(raw[l]) \in Int
         /\ Address(raw[l]) \in Int
         /\ UpperByte(raw[l]) \in Nat
         /\ DestSeg(raw[l]) \in Nat
         /\ LoHiGap(raw[l]) \in Nat
<1>0. raw[l] \in [op : Ops, value : Int32]
  BY FormatAssumption DEF TypeOK
<1>1. raw[l] \in [op : Ops, value : Int]
  <2>1. \A m \in Int : SignedTo(m) \subseteq Int
    BY SMT DEF SignedTo
  <2>2. 2147483647 \in Int
    BY SMT
  <2>3. Int32 \subseteq Int
    BY <2>1, <2>2, SMT DEF Int32
  <2> QED BY <1>0, <2>3
<1>2. Low16(raw[l]) \in Nat
  BY <1>1 DEF Low16
<1>3. Address(raw[l]) \in Int
  BY <1>1 DEF Address
<1> QED BY <1>1, <1>2, <1>3 DEF Signed16, UpperByte, DestSeg, LoHiGap

(***************************************************************************)
(* get_label_id_for keeps the table: the id it returns is that of a label  *)
(* at the address asked for, ids already given stay, and the two views     *)
(* still agree.                                                            *)
(***************************************************************************)
LabelTableType ==
  /\ labels \in Seq([seg : Segs, offset : Int, name : Int])
  /\ DOMAIN labelAt \subseteq Segs \X Int
  /\ labelAt \in [DOMAIN labelAt -> LabelIds]

LabelRecord == [seg : Segs, offset : Int, name : Int]

(* The labels new are the labels old, but for their names. *)
SameAddresses(new, old) ==
  /\ new \in Seq(LabelRecord)
  /\ Len(new) = Len(old)
  /\ \A i \in 1 .. Len(old) : new[i].seg = old[i].seg /\ new[i].offset = old[i].offset

(* The address of label i in the table table. *)
AddressIn(table, i) == <<table[i + 1].seg, table[i + 1].offset>>

LEMMA LabelsWithType ==
  ASSUME LabelTableType, NEW s \in Segs, NEW o \in Int
  PROVE  LabelsWith(s, o) \in Seq(LabelRecord)
<1>1. CASE Known(s, o)
  BY <1>1 DEF LabelsWith, LabelTableType, LabelRecord
<1>2. CASE ~Known(s, o)
  <2>1. [seg |-> s, offset |-> o, name |-> Len(labels)] \in LabelRecord
    BY DEF LabelTableType, LabelRecord
  <2>2. labels \in Seq(LabelRecord)
    BY DEF LabelTableType, LabelRecord
  <2> QED BY <1>2, <2>1, <2>2 DEF LabelsWith
<1> QED BY <1>1, <1>2

LEMMA LabelledKeepsTable ==
  ASSUME LabelTableType, LabelTable,
         NEW s \in Segs, NEW o \in Int,
         SameAddresses(labels', LabelsWith(s, o)), labelAt' = LabelAtWith(s, o),
         NEW id, id = LabelId(s, o)
  PROVE  /\ LabelTableType'
         /\ LabelTable'
         /\ LabelIds' = LabelIds \cup {id}
         /\ AddressIn(labels', id) = <<s, o>>
         /\ \A i \in LabelIds : AddressIn(labels', i) = AddressIn(labels, i)
<1> USE DEF LabelTableType, LabelIds, LabelRecord
<1>0. /\ labels \in Seq(LabelRecord) /\ Len(labels) \in Nat
      /\ \A a \in DOMAIN labelAt :
           labelAt[a] \in LabelIds /\ AddressIn(labels, labelAt[a]) = a
      /\ \A i \in LabelIds :
           AddressIn(labels, i) \in DOMAIN labelAt /\ labelAt[AddressIn(labels, i)] = i
  BY DEF LabelTable, AddressIn, AddressOf, LabelSeg, LabelOffset
<1>1. SUFFICES
        /\ LabelTableType'
        /\ \A a \in DOMAIN labelAt' :
             labelAt'[a] \in LabelIds' /\ AddressIn(labels', labelAt'[a]) = a
        /\ \A i \in LabelIds' :
             /\ AddressIn(labels', i) \in DOMAIN labelAt'
             /\ labelAt'[AddressIn(labels', i)] = i
        /\ LabelIds' = LabelIds \cup {id}
        /\ AddressIn(labels', id) = <<s, o>>
        /\ \A i \in LabelIds : AddressIn(labels', i) = AddressIn(labels, i)
  BY DEF LabelTable, AddressIn, AddressOf, LabelSeg, LabelOffset
<1>2. CASE Known(s, o)
  <2>1. LabelsWith(s, o) = labels /\ id = labelAt[<<s, o>>] /\ id \in LabelIds
    BY <1>0, <1>2 DEF LabelsWith, LabelId, Known
  <2>2. /\ Len(labels') = Len(labels)
        /\ labels' \in Seq(LabelRecord)
        /\ \A i \in 1 .. Len(labels) :
             labels'[i].seg = labels[i].seg /\ labels'[i].offset = labels[i].offset
    BY <2>1 DEF SameAddresses
  <2>3. labelAt' = labelAt
    BY <1>2, <2>1 DEF LabelAtWith, Known, LabelId
  <2>4. LabelIds' = LabelIds
    BY <2>2
  <2>5. \A i \in LabelIds : AddressIn(labels', i) = AddressIn(labels, i)
    <3> TAKE i \in LabelIds
    <3>1. i + 1 \in 1 .. Len(labels)
      BY <1>0
    <3> QED BY <2>2, <3>1 DEF AddressIn
  <2>6. AddressIn(labels', id) = <<s, o>>
    BY <1>0, <1>2, <2>1, <2>5 DEF Known
  <2>7. LabelTableType'
    BY <2>2, <2>3, <2>4
  <2> HIDE DEF LabelTableType, LabelIds
  <2>8. ASSUME NEW a \in DOMAIN labelAt'
        PROVE  labelAt'[a] \in LabelIds' /\ AddressIn(labels', labelAt'[a]) = a
    BY <1>0, <2>3, <2>4, <2>5
  <2>9. ASSUME NEW i \in LabelIds'
        PROVE  /\ AddressIn(labels', i) \in DOMAIN labelAt'
               /\ labelAt'[AddressIn(labels', i)] = i
    BY <1>0, <2>3, <2>4, <2>5
  <2> QED BY <2>1, <2>4, <2>5, <2>6, <2>7, <2>8, <2>9
<1>3. CASE ~Known(s, o)
  <2> DEFINE new == [seg |-> s, offset |-> o, name |-> Len(labels)]
  <2>1. LabelsWith(s, o) = Append(labels, new) /\ id = Len(labels)
    BY <1>3 DEF LabelsWith, LabelId
  <2>2. /\ Len(labels') = id + 1
        /\ labels'[id + 1].seg = s /\ labels'[id + 1].offset = o
        /\ \A i \in 1 .. id :
             labels'[i].seg = labels[i].seg /\ labels'[i].offset = labels[i].offset
        /\ labels' \in Seq(LabelRecord)
    <3>1. new.seg = s /\ new.offset = o /\ new \in LabelRecord
      BY <1>0
    <3> HIDE DEF new, LabelRecord, LabelTableType
    <3>2. /\ Len(Append(labels, new)) = id + 1 /\ id \in Nat
          /\ Append(labels, new)[id + 1] = new
          /\ \A i \in 1 .. id : Append(labels, new)[i] = labels[i]
      BY <1>0, <2>1, <3>1
    <3> QED BY <2>1, <3>1, <3>2 DEF SameAddresses
  <2> HIDE DEF new
  <2>3. /\ DOMAIN labelAt' = DOMAIN labelAt \cup {<<s, o>>}
        /\ <<s, o>> \notin DOMAIN labelAt
        /\ labelAt'[<<s, o>>] = id
        /\ \A a \in DOMAIN labelAt : labelAt'[a] = labelAt[a]
        /\ labelAt' = [a \in DOMAIN labelAt' |-> labelAt'[a]]
    BY <1>3, <2>1 DEF LabelAtWith, Known
  <2>4. LabelIds' = LabelIds \cup {id} /\ id \notin LabelIds
    BY <1>0, <2>1, <2>2
  <2>5. LabelTableType'
    <3>1. DOMAIN labelAt' \subseteq Segs \X Int
      BY <2>3
    <3>2. \A a \in DOMAIN labelAt' : labelAt'[a] \in LabelIds'
      BY <2>3, <2>4
    <3>3. labelAt' \in [DOMAIN labelAt' -> LabelIds']
      BY <2>3, <3>2, Zenon
    <3> QED BY <2>2, <3>1, <3>3
  <2>6. \A i \in LabelIds : AddressIn(labels', i) = AddressIn(labels, i)
    <3> TAKE i \in LabelIds
    <3>1. i + 1 \in 1 .. id
      BY <1>0, <2>1
    <3> QED BY <2>2, <3>1 DEF AddressIn
  <2>7. AddressIn(labels', id) = <<s, o>>
    BY <2>2 DEF AddressIn
  <2> HIDE DEF LabelTableType, LabelIds
  <2>8. ASSUME NEW a \in DOMAIN labelAt'
        PROVE  labelAt'[a] \in LabelIds' /\ AddressIn(labels', labelAt'[a]) = a
    BY <1>0, <2>3, <2>4, <2>6, <2>7
  <2>9. ASSUME NEW i \in LabelIds'
        PROVE  /\ AddressIn(labels', i) \in DOMAIN labelAt'
               /\ labelAt'[AddressIn(labels', i)] = i
    BY <1>0, <2>3, <2>4, <2>6, <2>7
  <2> QED BY <2>4, <2>5, <2>6, <2>7, <2>8, <2>9
<1> QED BY <1>2, <1>3

LEMMA NoteLabelSameAddresses ==
  ASSUME LabelTableType, NEW s \in Segs, NEW o \in Int, NoteLabel(s, o)
  PROVE  SameAddresses(labels', LabelsWith(s, o)) /\ labelAt' = LabelAtWith(s, o)
  BY LabelsWithType DEF NoteLabel, SameAddresses

-----------------------------------------------------------------------------
(* The invariant by parts: what each action may disturb.                    *)

Word == [kind : WordKinds, label : LabelIds \cup {NoLabel}, symbol : Names \cup {""}]

Operand == [arg : {"none", "imm", "symbol", "label"}, label : LabelIds \cup {NoLabel}]

WordsType == words \in [Loc -> Word]

ZonesType == /\ dataStart \in [Segs -> Nat]
             /\ functions \in [Segs -> Seq([start : Nat, end : Nat])]
             /\ stats \in [code : Int, data : Int, functions : Nat]
             /\ ZonesInFile

InsnsType == /\ DOMAIN insns \subseteq Segs \X Nat
             /\ insns \in [DOMAIN insns -> Operand]

CursorType == /\ pc \in Passes \cup {"done", "aborted"}
              /\ seg \in Segs
              /\ at \in Nat
              /\ sym \in SymbolEntries \cup {NoSymbol}
              /\ nsyms \in 0 .. MaxSymbols

LEMMA InvParts ==
  Inv <=> /\ raw \in Images
          /\ WordsType
          /\ LabelTableType /\ LabelTable
          /\ ZonesType
          /\ InsnsType
          /\ CursorType
  BY DEF Inv, TypeOK, WordsType, Word, LabelTableType, ZonesType, InsnsType, Operand,
         CursorType

LEMMA InvPartsAfter ==
  ASSUME raw' \in Images, WordsType', LabelTableType', LabelTable', ZonesType',
         InsnsType', CursorType'
  PROVE  Inv'
  BY DEF Inv, TypeOK, WordsType, Word, LabelTableType, ZonesType, InsnsType, Operand,
         CursorType

(* Linking a word changes its kind and its label or symbol. *)
LEMMA PointingType ==
  ASSUME NEW w \in Word', NEW k \in WordKinds, NEW id \in LabelIds'
  PROVE  Pointing(w, k, id) \in Word'
  BY DEF Pointing, Word

LEMMA NamingType ==
  ASSUME NEW w \in Word, NEW k \in WordKinds, NEW y \in Names
  PROVE  Naming(w, k, y) \in Word
  BY DEF Naming, Word

LEMMA TwoUpdates ==
  ASSUME NEW S, NEW T, NEW f \in [S -> T], NEW a \in S, NEW b \in S, NEW x \in T, NEW y \in T
  PROVE  [f EXCEPT ![a] = x, ![b] = y] \in [S -> T]
  OBVIOUS

(* A step that only moves the cursor. *)
LEMMA MoveKeepsInv ==
  ASSUME Inv, UNCHANGED <<raw, linkVars, codeVars>>, CursorType'
  PROVE  Inv'
<1> USE DEF linkVars, codeVars
<1>1. LabelIds' = LabelIds /\ raw' \in Images
  BY DEF LabelIds, Inv, TypeOK
<1>2. WordsType' /\ InsnsType' /\ ZonesType'
  BY <1>1, InvParts DEF WordsType, Word, InsnsType, Operand, ZonesType, ZonesInFile
<1>3. LabelTableType' /\ LabelTable'
  BY <1>1, InvParts DEF LabelTableType, LabelTable, AddressOf, LabelSeg, LabelOffset
<1>4. CursorType'
  OBVIOUS
<1> QED BY <1>1, <1>2, <1>3, <1>4, InvPartsAfter

LEMMA AbortKeepsInv == ASSUME Inv, Abort PROVE Inv'
<1>1. CursorType'
  BY InvParts DEF Abort, CursorType
<1> QED BY <1>1, MoveKeepsInv DEF Abort, linkVars, codeVars

LEMMA AdvanceType ==
  ASSUME CursorType, NEW w \in Nat, Advance(w)
  PROVE  CursorType'
  BY DEF Advance, CursorType

LEMMA GotoType ==
  ASSUME NEW pass \in Passes, NEW s \in Segs, NEW w \in Nat, Goto(pass, s, w)
  PROVE  CursorType'
  BY Constants DEF Goto, CursorType

(***************************************************************************)
(* A step that asks for a label and stores its id in some words or         *)
(* instructions: the table is kept, and ids already stored stay valid.     *)
(***************************************************************************)
LEMMA LabelStepKeepsTypes ==
  ASSUME Inv, NEW s \in Segs, NEW o \in Int,
         SameAddresses(labels', LabelsWith(s, o)), labelAt' = LabelAtWith(s, o)
  PROVE  /\ LabelTableType' /\ LabelTable'
         /\ LabelIds \subseteq LabelIds'
         /\ LabelId(s, o) \in LabelIds'
         /\ Word \subseteq Word' /\ Operand \subseteq Operand'
<1>1. LabelTableType /\ LabelTable
  BY InvParts
<1> DEFINE id == LabelId(s, o)
<1>2. /\ LabelTableType' /\ LabelTable'
      /\ LabelIds \subseteq LabelIds'
      /\ id \in LabelIds'
  <2> HIDE DEF id
  <2> QED BY <1>1, LabelledKeepsTable DEF id
<1> QED BY <1>2 DEF Word, Operand

LEMMA NoteLabelKeepsTypes ==
  ASSUME Inv, NEW s \in Segs, NEW o \in Int, NoteLabel(s, o)
  PROVE  /\ LabelTableType' /\ LabelTable'
         /\ LabelIds \subseteq LabelIds'
         /\ LabelId(s, o) \in LabelIds'
         /\ Word \subseteq Word' /\ Operand \subseteq Operand'
  BY LabelStepKeepsTypes, NoteLabelSameAddresses, InvParts

-----------------------------------------------------------------------------
(* Linking *)

LEMMA LinkPointerKeepsInv == ASSUME Inv, LinkPointer PROVE Inv'
<1> DEFINE l == <<seg, at>>
           dest == Address(raw[l])
<1>1. /\ seg \in Segs /\ at \in Nat /\ at < Size[seg]
      /\ raw \in Images /\ WordsType /\ ZonesType /\ InsnsType /\ CursorType
  BY InvParts DEF LinkPointer, CursorType
<1>2. l \in Loc /\ dest \in Int
  BY <1>1, LocMember, RawWordType DEF Inv
<1>3. CASE words[l].kind # "PLAIN_DATA"
  BY <1>3, AbortKeepsInv DEF LinkPointer
<1>4. CASE words[l].kind = "PLAIN_DATA" /\ dest >= 0 /\ dest \div 4 > Size[seg]
  <2>1. UNCHANGED <<raw, linkVars, codeVars>> /\ Advance(at + 1)
    BY <1>4 DEF LinkPointer
  <2> QED BY <1>1, <2>1, AdvanceType, MoveKeepsInv
<1>5. CASE words[l].kind = "PLAIN_DATA" /\ ~(dest >= 0 /\ dest \div 4 > Size[seg])
  <2> DEFINE id == LabelId(seg, dest)
  <2>1. /\ words' = [words EXCEPT ![l] = Pointing(@, "PTR", id)]
        /\ NoteLabel(seg, dest)
        /\ Advance(at + 1)
        /\ UNCHANGED <<raw, codeVars>>
    BY <1>5 DEF LinkPointer
  <2>2. /\ LabelTableType' /\ LabelTable' /\ id \in LabelIds'
        /\ Word \subseteq Word' /\ Operand \subseteq Operand'
    BY <1>1, <1>2, <2>1, NoteLabelKeepsTypes
  <2>3. WordsType'
    <3>1. Pointing(words[l], "PTR", id) \in Word'
      <4>1. words[l] \in Word'
        BY <1>1, <1>2, <2>2 DEF WordsType
      <4>2. "PTR" \in WordKinds
        BY DEF WordKinds
      <4> HIDE DEF l, id
      <4> QED BY <2>2, <4>1, <4>2, PointingType
    <3>2. words \in [Loc -> Word']
      BY <1>1, <2>2 DEF WordsType
    <3>3. words' = [words EXCEPT ![l] = Pointing(words[l], "PTR", id)]
      BY <2>1
    <3> QED BY <1>2, <3>1, <3>2, <3>3 DEF WordsType
  <2>4. InsnsType' /\ ZonesType'
    BY <1>1, <2>1, <2>2 DEF InsnsType, ZonesType, ZonesInFile, codeVars
  <2>5. CursorType' /\ raw' \in Images
    BY <1>1, <2>1, AdvanceType
  <2> QED BY <2>2, <2>3, <2>4, <2>5, InvPartsAfter
<1> QED BY <1>3, <1>4, <1>5

LEMMA LinkSplitPointerKeepsInv == ASSUME Inv, LinkSplitPointer PROVE Inv'
<1> DEFINE hi == <<seg, at>>
           r == raw[hi]
           lo == <<seg, at + LoHiGap(r)>>
           dest == Low16(raw[lo]) + 65536 * UpperByte(r)
           target == DestSeg(r)
           bad == \/ LoHiGap(r) = 0
                  \/ target \notin Segs
                  \/ lo \notin Loc
                  \/ words[hi].kind # "PLAIN_DATA"
                  \/ words[lo].kind # "PLAIN_DATA"
<1>1. /\ seg \in Segs /\ at \in Nat /\ at < Size[seg]
      /\ raw \in Images /\ WordsType /\ ZonesType /\ InsnsType /\ CursorType
  BY InvParts DEF LinkSplitPointer, CursorType
<1>2. hi \in Loc
  BY <1>1, LocMember
<1>3. CASE bad
  BY <1>3, AbortKeepsInv DEF LinkSplitPointer
<1>4. CASE ~bad
  <2> DEFINE id == LabelId(target, dest)
  <2>1. /\ words' = [words EXCEPT ![hi] = Pointing(words[hi], "HI_PTR", id),
                                  ![lo] = Pointing(words[lo], "LO_PTR", id)]
        /\ NoteLabel(target, dest)
        /\ Advance(at + 1)
        /\ UNCHANGED <<raw, codeVars>>
    BY <1>4 DEF LinkSplitPointer
  <2>2. lo \in Loc /\ target \in Segs /\ dest \in Int
    <3>1. lo \in Loc /\ target \in Segs
      BY <1>4
    <3>2. Low16(raw[lo]) \in Nat /\ UpperByte(r) \in Nat
      BY <1>2, <3>1, RawWordType DEF Inv
    <3> QED BY <3>1, <3>2
  <2>3. /\ LabelTableType' /\ LabelTable' /\ id \in LabelIds'
        /\ Word \subseteq Word' /\ Operand \subseteq Operand'
    <3> HIDE DEF target, dest
    <3> QED BY <2>1, <2>2, NoteLabelKeepsTypes
  <2>4. WordsType'
    <3> DEFINE hiWord == Pointing(words[hi], "HI_PTR", id)
               loWord == Pointing(words[lo], "LO_PTR", id)
    <3>1. words \in [Loc -> Word']
      BY <1>1, <2>3 DEF WordsType
    <3>2. {"HI_PTR", "LO_PTR"} \subseteq WordKinds
      BY DEF WordKinds
    <3>3. words[hi] \in Word' /\ words[lo] \in Word'
      <4> HIDE DEF hi, lo
      <4> QED BY <1>2, <2>2, <3>1
    <3>4. hiWord \in Word' /\ loWord \in Word'
      <4> HIDE DEF hi, lo, id
      <4> QED BY <2>3, <3>2, <3>3, PointingType
    <3> HIDE DEF hiWord, loWord
    <3>5. words' = [words EXCEPT ![hi] = hiWord, ![lo] = loWord]
      BY <2>1 DEF hiWord, loWord
    <3> HIDE DEF hi, lo
    <3> QED BY <3>1, <3>4, <3>5, TwoUpdates DEF WordsType
  <2>5. InsnsType' /\ ZonesType'
    BY <1>1, <2>1, <2>3 DEF InsnsType, ZonesType, ZonesInFile, codeVars
  <2>6. CursorType' /\ raw' \in Images
    BY <1>1, <2>1, AdvanceType
  <2> QED BY <2>3, <2>4, <2>5, <2>6, InvPartsAfter
<1> QED BY <1>3, <1>4

(* Symbol links touch one word and no label. *)
LEMMA WordStepKeepsInv ==
  ASSUME Inv, UNCHANGED <<raw, labels, labelAt, codeVars>>, CursorType',
         NEW l \in Loc, NEW k \in WordKinds, NEW y \in Names,
         words' = [words EXCEPT ![l] = Naming(@, k, y)]
  PROVE  Inv'
<1>1. LabelIds' = LabelIds /\ Word' = Word /\ Operand' = Operand
  BY DEF LabelIds, Word, Operand
<1>2. WordsType'
  <2>1. words[l] \in Word /\ words \in [Loc -> Word]
    BY InvParts DEF WordsType
  <2>2. Naming(words[l], k, y) \in Word
    BY <2>1, NamingType
  <2>3. words' = [words EXCEPT ![l] = Naming(words[l], k, y)]
    OBVIOUS
  <2> QED BY <1>1, <2>1, <2>2, <2>3 DEF WordsType
<1>3. LabelTableType' /\ LabelTable' /\ ZonesType' /\ InsnsType'
  BY <1>1, InvParts DEF LabelTableType, LabelTable, AddressOf, LabelSeg, LabelOffset,
                        ZonesType, ZonesInFile, InsnsType, codeVars
<1>4. raw' \in Images
  BY InvParts
<1> QED BY <1>2, <1>3, <1>4, InvPartsAfter

LEMMA LinkSymbolKeepsInv ==
  ASSUME Inv, NEW s \in SymbolEntries, NEW w \in 0 .. Size[seg] - 1, LinkSymbol(s, w)
  PROVE  Inv'
<1> DEFINE l == <<seg, w>>
<1>1. /\ seg \in Segs /\ w \in Nat /\ w < Size[seg] /\ CursorType
      /\ s.name \in Names /\ s.kind \in LinkKinds
  BY InvParts, Constants DEF CursorType, LinkSymbol, SymbolEntries
<1>2. l \in Loc
  BY <1>1, LocMember
<1>3. WordKindOf(s.kind) \in WordKinds /\ "SYM_OFFSET" \in WordKinds
  BY <1>1 DEF WordKindOf, WordKinds, LinkKinds
<1>4. nsyms' \in 0 .. MaxSymbols /\ seg' = seg
  BY <1>1, Constants DEF LinkSymbol, CursorType
<1>5. UNCHANGED <<raw, labels, labelAt, codeVars>>
  BY DEF LinkSymbol
<1>6. CASE pc' = "aborted"
  <2>1. \/ UNCHANGED <<words, sym, at>>
        \/ pc' = pc
    BY DEF LinkSymbol
  <2>2. pc = "symbols"
    BY DEF LinkSymbol
  <2>3. UNCHANGED <<words, sym, at>>
    BY <1>6, <2>1, <2>2
  <2>4. CursorType'
    BY <1>1, <1>4, <1>6, <2>3 DEF CursorType
  <2> QED BY <1>5, <2>3, <2>4, MoveKeepsInv DEF linkVars
<1>7. CASE pc' # "aborted"
  <2>1. /\ sym' = s /\ at' = w + 1 /\ pc' = pc
        /\ \/ words' = [words EXCEPT ![l] = Naming(@, WordKindOf(s.kind), s.name)]
           \/ words' = [words EXCEPT ![l] = Naming(@, "SYM_OFFSET", s.name)]
    BY <1>7 DEF LinkSymbol
  <2>2. CursorType'
    BY <1>1, <1>4, <2>1 DEF CursorType
  <2> HIDE DEF l
  <2> QED BY <1>1, <1>2, <1>3, <1>5, <2>1, <2>2, WordStepKeepsInv
<1> QED BY <1>6, <1>7

LEMMA LinkStepKeepsInv == ASSUME Inv, LinkStep PROVE Inv'
<1> USE Constants
<1>1. CursorType
  BY InvParts
<1>2. CASE SeekPointer
  BY <1>1, <1>2, AdvanceType, MoveKeepsInv DEF SeekPointer, CursorType
<1>3. CASE PointersDone
  <2>1. CursorType'
    BY <1>1, <1>3, GotoType DEF PointersDone, CursorType, Passes
  <2> QED BY <1>3, <2>1, MoveKeepsInv DEF PointersDone
<1>5. CASE VisitOutside
  BY <1>5, AbortKeepsInv DEF VisitOutside
<1>4. CASE SymbolsDone
  <2>1. FirstPointer \in Nat /\ (seg > 0 => seg - 1 \in Segs)
    BY <1>1 DEF CursorType, FirstPointer, Segs
  <2>2. CursorType'
    BY <1>4, <2>1, GotoType DEF SymbolsDone, Passes
  <2> QED BY <1>4, <2>2, MoveKeepsInv DEF SymbolsDone
<1> QED BY <1>2, <1>3, <1>4, <1>5, LinkPointerKeepsInv, LinkSplitPointerKeepsInv,
           LinkSymbolKeepsInv DEF LinkStep

-----------------------------------------------------------------------------
(* Code and data zones *)

LEMMA CodeStepKeepsInv ==
  ASSUME Inv, UNCHANGED <<raw, linkVars>>, ZonesType', InsnsType', CursorType'
  PROVE  Inv'
<1>1. LabelIds' = LabelIds /\ raw' \in Images
  BY InvParts DEF LabelIds, linkVars
<1>2. WordsType'
  BY <1>1, InvParts DEF WordsType, Word, linkVars
<1>3. LabelTableType' /\ LabelTable'
  BY <1>1, InvParts DEF LabelTableType, LabelTable, AddressOf, LabelSeg, LabelOffset, linkVars
<1> QED BY <1>1, <1>2, <1>3, InvPartsAfter

LEMMA LabelStepKeepsInv ==
  ASSUME Inv, UNCHANGED <<raw, words>>, NEW s \in Segs, NEW o \in Int,
         SameAddresses(labels', LabelsWith(s, o)), labelAt' = LabelAtWith(s, o),
         ZonesType', InsnsType', CursorType'
  PROVE  Inv'
<1>1. LabelTableType' /\ LabelTable' /\ Word \subseteq Word'
  BY LabelStepKeepsTypes
<1>2. WordsType' /\ raw' \in Images
  BY <1>1, InvParts DEF WordsType
<1> QED BY <1>1, <1>2, InvPartsAfter

LEMMA ZonesUnchanged ==
  ASSUME Inv, UNCHANGED <<dataStart, functions, stats>>
  PROVE  ZonesType'
  BY InvParts DEF ZonesType, ZonesInFile

LEMMA FindCodeSingleKeepsInv == ASSUME Inv, FindCodeSingle PROVE Inv'
<1>1. CASE pc' = "aborted"
  BY <1>1, AbortKeepsInv DEF FindCodeSingle, Goto
<1>2. CASE pc' # "aborted"
  <2>1. /\ dataStart' = [dataStart EXCEPT ![0] = 0]
        /\ stats' = [stats EXCEPT !.data = 4 * Size[0], !.code = 0]
        /\ Goto("find_functions", 0, 0)
        /\ UNCHANGED <<raw, linkVars, functions, insns>>
    BY <1>2 DEF FindCodeSingle, Abort
  <2>2. ZonesType
    BY InvParts
  <2>3. ZonesType'
    <3>1. Size[0] \in Nat
      BY Constants
    <3>2. /\ dataStart' \in [Segs -> Nat]
          /\ stats' \in [code : Int, data : Int, functions : Nat]
      <4>1. dataStart' \in [Segs -> Nat]
        BY <2>1, <2>2 DEF ZonesType
      <4>2. stats \in [code : Int, data : Int, functions : Nat] /\ 4 * Size[0] \in Int
        BY <2>2, <3>1 DEF ZonesType
      <4>3. stats' \in [code : Int, data : Int, functions : Nat]
        <5>1. stats' = [code |-> 0, data |-> 4 * Size[0], functions |-> stats.functions]
          BY <2>1, <4>2
        <5> QED BY <4>2, <5>1
      <4> QED BY <4>1, <4>3
    <3>3. ZonesInFile'
      BY <2>1, <2>2, Constants DEF ZonesType, ZonesInFile
    <3> QED BY <2>1, <2>2, <3>2, <3>3 DEF ZonesType
  <2>4. InsnsType'
    BY <2>1, InvParts DEF InsnsType, Operand, LabelIds, linkVars
  <2>5. CursorType'
    BY <2>1, Constants, GotoType DEF Passes
  <2> QED BY <2>1, <2>3, <2>4, <2>5, CodeStepKeepsInv
<1> QED BY <1>1, <1>2

(* The debug label at the start of a data zone is asked for like any other, *)
(* then renamed.                                                            *)
LEMMA FindCodeLabels ==
  ASSUME Inv, NEW start \in 0 .. Size[seg], FindCode(start), start < Size[seg]
  PROVE  /\ SameAddresses(labels', LabelsWith(seg, 4 * start))
         /\ labelAt' = LabelAtWith(seg, 4 * start)
<1> DEFINE o == 4 * start
           id == LabelId(seg, o)
           old == LabelsWith(seg, o)
<1>1. seg \in Segs /\ Size[seg] \in Nat /\ LabelTableType
  BY InvParts, Constants DEF CursorType
<1>2. o \in Int
  BY <1>1
<1>3. /\ labels' = [old EXCEPT ![id + 1].name = DataStartName]
      /\ labelAt' = LabelAtWith(seg, o)
  BY DEF FindCode
<1>4. old \in Seq(LabelRecord) /\ DataStartName \in Int
  BY <1>1, <1>2, LabelsWithType DEF DataStartName
<1>5. labels' = [old EXCEPT ![id + 1] = [old[id + 1] EXCEPT !.name = DataStartName]]
  BY <1>3
<1> HIDE DEF old, id
<1>6. \A i \in DOMAIN old :
        labels'[i] = IF i = id + 1 THEN [old[id + 1] EXCEPT !.name = DataStartName]
                     ELSE old[i]
  BY <1>5
<1>7. \A i \in DOMAIN old : /\ labels'[i] \in LabelRecord
                             /\ labels'[i].seg = old[i].seg
                             /\ labels'[i].offset = old[i].offset
  <2> TAKE i \in DOMAIN old
  <2>1. old[i] \in LabelRecord
    BY <1>4
  <2> QED BY <1>4, <1>6, <2>1 DEF LabelRecord
<1>8. /\ labels' \in Seq(LabelRecord) /\ Len(labels') = Len(old)
      /\ DOMAIN old = 1 .. Len(old)
  <2>1. DOMAIN old = 1 .. Len(old) /\ Len(old) \in Nat
    BY <1>4
  <2>2. labels' = [i \in 1 .. Len(old) |-> labels'[i]]
    BY <1>5, <2>1
  <2> QED BY <1>7, <2>1, <2>2
<1>9. SameAddresses(labels', old)
  BY <1>7, <1>8 DEF SameAddresses
<1> QED BY <1>3, <1>9 DEF old

LEMMA FindCodeKeepsInv ==
  ASSUME Inv, NEW start \in 0 .. Size[seg], FindCode(start)
  PROVE  Inv'
<1> DEFINE o == 4 * start
           id == LabelId(seg, o)
<1>1. /\ seg \in Segs /\ Size[seg] \in Nat /\ start \in Nat /\ o \in Int
      /\ raw \in Images /\ ZonesType /\ InsnsType /\ LabelTableType /\ LabelTable
  <2>1. CursorType /\ raw \in Images /\ ZonesType /\ InsnsType /\ LabelTableType /\ LabelTable
    BY InvParts
  <2>2. seg \in Segs /\ Size[seg] \in Nat
    BY <2>1, Constants DEF CursorType
  <2> QED BY <2>1, <2>2
<1>2. ZonesType'
  <2>1. dataStart' \in [Segs -> Nat] /\ ZonesInFile'
    BY <1>1 DEF FindCode, ZonesType, ZonesInFile
  <2>2. stats' \in [code : Int, data : Int, functions : Nat]
    <3> HIDE DEF FindCode
    <3>1. stats' = [stats EXCEPT !.data = stats.data + 4 * (Size[seg] - start) * 4,
                                 !.code = stats.code + 4 * start]
      BY DEF FindCode
    <3>2. /\ stats.data + 4 * (Size[seg] - start) * 4 \in Int
          /\ stats.code + 4 * start \in Int
      BY <1>1 DEF ZonesType
    <3> QED BY <1>1, <3>1, <3>2 DEF ZonesType
  <2>3. functions' = functions
    BY DEF FindCode
  <2> QED BY <1>1, <2>1, <2>2, <2>3 DEF ZonesType
<1>3. CursorType'
  <2>1. CASE seg + 1 < NSegs
    <3>1. seg + 1 \in Segs
      BY <1>1, <2>1, Constants DEF Segs
    <3> QED BY <2>1, <3>1, GotoType DEF FindCode, Passes
  <2>2. CASE ~(seg + 1 < NSegs)
    <3>1. dataStart'[0] \in Nat
      BY <1>2, Constants DEF ZonesType
    <3>2. Goto("find_functions", 0, dataStart'[0])
      BY <2>2 DEF FindCode
    <3> QED BY <3>1, <3>2, Constants, GotoType DEF Passes
  <2> QED BY <2>1, <2>2
<1>4. CASE start < Size[seg]
  <2>1. /\ labels' = [LabelsWith(seg, o) EXCEPT ![id + 1].name = DataStartName]
        /\ labelAt' = LabelAtWith(seg, o)
        /\ UNCHANGED <<raw, words, functions, insns>>
    BY <1>4 DEF FindCode
  <2>2. SameAddresses(labels', LabelsWith(seg, o))
    BY <1>4, FindCodeLabels
  <2>3. LabelIds \subseteq LabelIds' /\ Operand \subseteq Operand'
    BY <1>1, <2>1, <2>2, LabelStepKeepsTypes
  <2>4. InsnsType'
    BY <1>1, <2>1, <2>3 DEF InsnsType
  <2> HIDE DEF o
  <2> QED BY <1>1, <1>2, <1>3, <2>1, <2>2, <2>4, LabelStepKeepsInv
<1>5. CASE ~(start < Size[seg])
  <2>1. UNCHANGED <<raw, linkVars, functions, insns>>
    BY <1>5 DEF FindCode, linkVars
  <2>2. InsnsType'
    BY <1>1, <2>1 DEF InsnsType, Operand, LabelIds, linkVars
  <2> QED BY <1>2, <1>3, <2>1, <2>2, CodeStepKeepsInv
<1> QED BY <1>4, <1>5

LEMMA FindFunctionKeepsInv ==
  ASSUME Inv, NEW tag \in FunctionTags(seg), FindFunction(tag)
  PROVE  Inv'
<1> DEFINE f == [start |-> tag, end |-> at]
<1>1. /\ CursorType /\ ZonesType /\ InsnsType /\ seg \in Segs /\ Size[seg] \in Nat
      /\ tag \in Nat /\ at \in Nat
  <2>1. CursorType /\ ZonesType /\ InsnsType
    BY InvParts
  <2>2. seg \in Segs /\ Size[seg] \in Nat /\ at \in Nat
    BY <2>1, Constants DEF CursorType
  <2> QED BY <2>1, <2>2 DEF FunctionTags
<1>2. ZonesType'
  <2>1. functions[seg] \in Seq([start : Nat, end : Nat]) /\ f \in [start : Nat, end : Nat]
    BY <1>1 DEF ZonesType
  <2>2. Append(functions[seg], f) \in Seq([start : Nat, end : Nat])
    BY <2>1
  <2>3. functions' = [functions EXCEPT ![seg] = Append(functions[seg], f)]
    BY DEF FindFunction
  <2>4. functions' \in [Segs -> Seq([start : Nat, end : Nat])]
    BY <1>1, <2>2, <2>3 DEF ZonesType
  <2>5. stats' \in [code : Int, data : Int, functions : Nat]
    <3>1. stats \in [code : Int, data : Int, functions : Nat]
      BY <1>1 DEF ZonesType
    <3>2. stats' = [stats EXCEPT !.functions = stats.functions + 1]
      BY DEF FindFunction
    <3> QED BY <3>1, <3>2
  <2>6. dataStart' = dataStart
    BY DEF FindFunction
  <2> QED BY <1>1, <2>4, <2>5, <2>6 DEF ZonesType, ZonesInFile
<1>3. InsnsType' /\ CursorType'
  BY <1>1, AdvanceType DEF FindFunction, InsnsType, Operand, LabelIds, linkVars
<1> QED BY <1>2, <1>3, CodeStepKeepsInv DEF FindFunction

LEMMA ReverseType == ASSUME NEW S, NEW s \in Seq(S) PROVE Reverse(s) \in Seq(S)
<1>1. \A i \in 1 .. Len(s) : s[Len(s) - i + 1] \in S
  OBVIOUS
<1> QED BY <1>1 DEF Reverse

LEMMA FunctionsDoneKeepsInv == ASSUME Inv, FunctionsDone PROVE Inv'
<1>1. CursorType /\ ZonesType /\ InsnsType /\ seg \in Segs
  BY InvParts DEF CursorType
<1>2. ZonesType'
  <2>1. functions[seg] \in Seq([start : Nat, end : Nat])
    BY <1>1 DEF ZonesType
  <2>2. Reverse(functions[seg]) \in Seq([start : Nat, end : Nat])
    BY <2>1, ReverseType
  <2>3. functions' = [functions EXCEPT ![seg] = Reverse(functions[seg])]
    BY DEF FunctionsDone
  <2> QED BY <1>1, <2>2, <2>3 DEF FunctionsDone, ZonesType, ZonesInFile
<1>3. InsnsType'
  BY <1>1 DEF FunctionsDone, InsnsType, Operand, LabelIds, linkVars
<1>4. CursorType'
  <2>1. seg + 1 < NSegs => seg + 1 \in Segs /\ dataStart[seg + 1] \in Nat
    BY <1>1, Constants DEF Segs, ZonesType
  <2> QED BY <2>1, GotoType, Constants DEF FunctionsDone, Passes
<1> QED BY <1>2, <1>3, <1>4, CodeStepKeepsInv DEF FunctionsDone

LEMMA NextSegmentType ==
  ASSUME CursorType, NEW pass \in Passes, pc \in Passes, NextSegment(pass)
  PROVE  CursorType'
<1>1. seg + 1 < NSegs => seg + 1 \in Segs
  BY Constants DEF CursorType, Segs
<1> QED BY <1>1, GotoType, Constants DEF NextSegment

-----------------------------------------------------------------------------
(* Disassembly *)

(* A word of a code zone is a word of the file. *)
LEMMA CodeWord ==
  ASSUME Inv, NEW w \in Nat, w < dataStart[seg]
  PROVE  seg \in Segs /\ <<seg, w>> \in Loc
<1>1. CursorType /\ ZonesType
  BY InvParts
<1>2. seg \in Segs /\ dataStart[seg] \in Nat /\ Size[seg] \in Nat /\ dataStart[seg] <= Size[seg]
  BY <1>1, Constants DEF CursorType, ZonesType, ZonesInFile
<1> QED BY <1>2, LocMember

LEMMA SetInsnType ==
  ASSUME InsnsType, Operand \subseteq Operand', NEW l \in Segs \X Nat, NEW i \in Operand',
         SetInsn(l, i)
  PROVE  InsnsType'
<1>1. /\ DOMAIN insns' = DOMAIN insns \cup {l}
      /\ \A x \in DOMAIN insns' : insns'[x] = IF x = l THEN i ELSE insns[x]
      /\ insns' = [x \in DOMAIN insns' |-> insns'[x]]
  BY DEF SetInsn
<1>2. \A x \in DOMAIN insns' : insns'[x] \in Operand'
  <2> TAKE x \in DOMAIN insns'
  <2>1. x \in DOMAIN insns => insns[x] \in Operand
    BY DEF InsnsType
  <2> QED BY <1>1, <2>1
<1>3. insns' \in [DOMAIN insns' -> Operand']
  BY <1>1, <1>2, Zenon
<1>4. DOMAIN insns' \subseteq Segs \X Nat
  BY <1>1 DEF InsnsType
<1> QED BY <1>3, <1>4 DEF InsnsType

LEMMA DecodeBranchKeepsInv == ASSUME Inv, DecodeBranch PROVE Inv'
<1> DEFINE l == <<seg, at>>
           target == BranchTarget(at, raw[l])
           id == LabelId(seg, target)
<1>1. CASE pc' = "aborted"
  <2>1. pc # "aborted"
    BY DEF DecodeBranch
  <2> QED BY <1>1, <2>1, AbortKeepsInv DEF DecodeBranch, Advance
<1>2. CASE pc' # "aborted"
  <2>1. /\ NoteLabel(seg, target)
        /\ SetInsn(l, Insn("label", id))
        /\ Advance(at + 1)
        /\ UNCHANGED <<raw, words, dataStart, functions, stats>>
        /\ at < dataStart[seg]
    BY <1>2 DEF DecodeBranch, Abort
  <2>2. CursorType /\ InsnsType /\ LabelTableType
    BY InvParts
  <2>3. seg \in Segs /\ at \in Nat /\ l \in Loc /\ l \in Segs \X Nat
    BY <2>1, <2>2, CodeWord DEF CursorType
  <2>4. target \in Int
    BY <2>3, RawWordType DEF Inv, BranchTarget
  <2> HIDE DEF target
  <2>5. id \in LabelIds' /\ Operand \subseteq Operand'
    BY <2>1, <2>3, <2>4, NoteLabelKeepsTypes
  <2>6. InsnsType'
    <3>1. Insn("label", id) \in Operand'
      BY <2>5 DEF Insn, Operand
    <3> HIDE DEF id, l
    <3> QED BY <2>1, <2>2, <2>3, <2>5, <3>1, SetInsnType
  <2>7. CursorType' /\ ZonesType'
    BY <2>1, <2>2, <2>3, AdvanceType, ZonesUnchanged
  <2>8. SameAddresses(labels', LabelsWith(seg, target)) /\ labelAt' = LabelAtWith(seg, target)
    BY <2>1, <2>2, <2>3, <2>4, NoteLabelSameAddresses
  <2> QED BY <2>1, <2>3, <2>4, <2>6, <2>7, <2>8, LabelStepKeepsInv
<1> QED BY <1>1, <1>2

LEMMA DecodeOtherKeepsInv == ASSUME Inv, DecodeOther PROVE Inv'
<1> DEFINE l == <<seg, at>>
           kind == words[l].kind
           op == raw[l].op
           i == CASE op = "BAD" -> Insn("none", NoLabel)
                  [] op # "BAD" /\ kind = "SYM_OFFSET" -> Insn("symbol", NoLabel)
                  [] op # "BAD" /\ kind \in {"HI_PTR", "LO_PTR"} -> Insn("label", words[l].label)
                  [] OTHER -> Insn(IF HasImm(raw[l]) THEN "imm" ELSE "none", NoLabel)
<1>1. CASE pc' = "aborted"
  <2>1. pc # "aborted"
    BY DEF DecodeOther
  <2> QED BY <1>1, <2>1, AbortKeepsInv DEF DecodeOther, Advance
<1>2. CASE pc' # "aborted"
  <2>1. /\ SetInsn(l, i)
        /\ Advance(at + 1)
        /\ UNCHANGED <<raw, linkVars, dataStart, functions, stats>>
        /\ at < dataStart[seg]
    BY <1>2 DEF DecodeOther, Abort
  <2>2. CursorType /\ InsnsType /\ WordsType
    BY InvParts
  <2>3. seg \in Segs /\ at \in Nat /\ l \in Loc /\ l \in Segs \X Nat
    BY <2>1, <2>2, CodeWord DEF CursorType
  <2>4. Operand' = Operand
    BY <2>1 DEF Operand, LabelIds, linkVars
  <2>5. i \in Operand
    <3>1. words[l].label \in LabelIds \cup {NoLabel}
      BY <2>2, <2>3 DEF WordsType, Word
    <3>2. \A a \in {"none", "imm", "symbol", "label"}, n \in LabelIds \cup {NoLabel} :
            Insn(a, n) \in Operand
      BY DEF Insn, Operand
    <3>3. i \in {Insn("none", NoLabel), Insn("symbol", NoLabel), Insn("imm", NoLabel),
                 Insn("label", words[l].label)}
      <4> HIDE DEF kind, op, l
      <4> QED OBVIOUS
    <3> QED BY <3>1, <3>2, <3>3
  <2>6. InsnsType'
    <3> HIDE DEF i, l
    <3> QED BY <2>1, <2>2, <2>3, <2>4, <2>5, SetInsnType
  <2>7. CursorType' /\ ZonesType'
    BY <2>1, <2>2, <2>3, AdvanceType, ZonesUnchanged
  <2> QED BY <2>1, <2>6, <2>7, CodeStepKeepsInv
<1> QED BY <1>1, <1>2

-----------------------------------------------------------------------------
(* fp-relative links *)

LEMMA ElementType == ASSUME NEW S, NEW s \in Seq(S), NEW i \in DOMAIN s PROVE s[i] \in S
  OBVIOUS

LEMMA FunctionType ==
  ASSUME Inv, NEW f \in Range(functions[seg])
  PROVE  f.start \in Nat /\ f.end \in Nat /\ FpBase(f) \in Nat
<1>1. functions[seg] \in Seq([start : Nat, end : Nat])
  BY InvParts DEF ZonesType, CursorType
<1>2. PICK i \in DOMAIN functions[seg] : f = functions[seg][i]
  BY DEF Range
<1>3. f \in [start : Nat, end : Nat]
  BY <1>1, <1>2, ElementType
<1> QED BY <1>3 DEF FpBase

LEMMA LabelOperandKeepsInv ==
  ASSUME Inv, NEW l, NEW o \in Int, LabelOperand(l, o), CursorType'
  PROVE  Inv'
<1> DEFINE id == LabelId(seg, o)
<1>1. /\ NoteLabel(seg, o)
      /\ insns' = [insns EXCEPT ![l] = Insn("label", id)]
      /\ UNCHANGED <<raw, words, dataStart, functions, stats>>
  BY DEF LabelOperand
<1>2. seg \in Segs /\ InsnsType /\ LabelTableType
  BY InvParts DEF CursorType
<1>3. id \in LabelIds' /\ Operand \subseteq Operand'
  BY <1>1, <1>2, NoteLabelKeepsTypes
<1>4. InsnsType'
  <2>1. Insn("label", id) \in Operand'
    BY <1>3 DEF Insn, Operand
  <2>2. insns \in [DOMAIN insns -> Operand']
    BY <1>2, <1>3 DEF InsnsType
  <2> HIDE DEF id
  <2>3. DOMAIN insns' = DOMAIN insns /\ insns' \in [DOMAIN insns -> Operand']
    BY <1>1, <2>1, <2>2
  <2> QED BY <1>2, <2>3 DEF InsnsType
<1>5. SameAddresses(labels', LabelsWith(seg, o)) /\ labelAt' = LabelAtWith(seg, o)
  BY <1>1, <1>2, NoteLabelSameAddresses
<1>6. ZonesType'
  BY <1>1, ZonesUnchanged
<1> QED BY <1>1, <1>2, <1>4, <1>5, <1>6, LabelStepKeepsInv

LEMMA FpLoadKeepsInv ==
  ASSUME Inv, NEW f \in Range(functions[seg]), FpLoad(f)
  PROVE  Inv'
<1> DEFINE l == <<seg, at>>
           o == FpBase(f) + Signed16(raw[l])
<1>1. CASE Abort
  BY <1>1, AbortKeepsInv
<1>2. CASE ~Abort
  <2>1. LabelOperand(l, o) /\ Advance(at + 1) /\ at < dataStart[seg]
    BY <1>2 DEF FpLoad
  <2>2. CursorType /\ at \in Nat
    BY InvParts DEF CursorType
  <2>3. o \in Int
    <3>1. l \in Loc
      BY <2>1, <2>2, CodeWord
    <3> QED BY <3>1, FunctionType, RawWordType DEF Inv
  <2>4. CursorType'
    BY <2>1, <2>2, AdvanceType
  <2> HIDE DEF l, o
  <2> QED BY <2>1, <2>3, <2>4, LabelOperandKeepsInv
<1> QED BY <1>1, <1>2

LEMMA FpAddKeepsInv ==
  ASSUME Inv, NEW f \in Range(functions[seg]), FpAdd(f)
  PROVE  Inv'
<1> DEFINE prev == <<seg, at - 1>>
           pprev == <<seg, at - 2>>
           upper == IF HasLui(f) THEN 65536 * Signed16(raw[pprev]) ELSE 0
           o == FpBase(f) + Low16(raw[prev]) + upper
<1>1. CASE Abort
  BY <1>1, AbortKeepsInv
<1>2. CASE ~Abort
  <2>1. /\ LabelOperand(prev, o) /\ Advance(at + 1) /\ at < dataStart[seg]
        /\ f.start <= at /\ at # f.start
    BY <1>2 DEF FpAdd, InFunction
  <2>2. CursorType /\ at \in Nat /\ f.start \in Nat /\ dataStart[seg] \in Nat
    BY InvParts, FunctionType DEF CursorType, ZonesType
  <2>3. o \in Int
    <3>1. prev \in Loc
      BY <2>1, <2>2, CodeWord
    <3>2. HasLui(f) => pprev \in Loc
      BY <2>1, <2>2, CodeWord DEF HasLui
    <3>3. Low16(raw[prev]) \in Nat
      BY <3>1, RawWordType DEF Inv
    <3>4. upper \in Int
      BY <3>2, RawWordType DEF Inv
    <3> HIDE DEF upper, prev
    <3> QED BY <3>3, <3>4, FunctionType
  <2>4. CursorType'
    BY <2>1, <2>2, AdvanceType
  <2> HIDE DEF prev, o
  <2> QED BY <2>1, <2>3, <2>4, LabelOperandKeepsInv
<1> QED BY <1>1, <1>2

LEMMA CodeStepsKeepInv == ASSUME Inv, CodeStep PROVE Inv'
<1>1. CursorType
  BY InvParts
<1>2. CASE NoDataZone \/ CodeBeforeFirstFunction \/ FpUnknown
  BY <1>2, AbortKeepsInv DEF NoDataZone, CodeBeforeFirstFunction, FpUnknown
<1>3. CASE DisassemblyDone \/ FpDone
  <2>1. CursorType'
    BY <1>1, <1>3, NextSegmentType DEF DisassemblyDone, FpDone, Passes
  <2> QED BY <1>3, <2>1, MoveKeepsInv DEF DisassemblyDone, FpDone
<1>4. CASE FpSkip
  <2>1. CursorType'
    BY <1>1, <1>4, AdvanceType DEF FpSkip, CursorType
  <2> QED BY <1>4, <2>1, MoveKeepsInv DEF FpSkip
<1> QED BY <1>2, <1>3, <1>4, FindCodeSingleKeepsInv, FindCodeKeepsInv, FindFunctionKeepsInv,
           FunctionsDoneKeepsInv, DecodeBranchKeepsInv, DecodeOtherKeepsInv, FpLoadKeepsInv,
           FpAddKeepsInv DEF CodeStep

-----------------------------------------------------------------------------
(* Names and output *)

(* The labels with a smaller address than label i. *)
Earlier(i) == {j \in DOMAIN labels : Before(j, i)}

LEMMA EarlierFinite ==
  ASSUME LabelTableType, NEW i
  PROVE  IsFiniteSet(Earlier(i)) /\ Cardinality(Earlier(i)) \in Nat
<1>1. DOMAIN labels = 1 .. Len(labels) /\ Len(labels) \in Nat
  BY DEF LabelTableType
<1>2. IsFiniteSet(DOMAIN labels)
  BY <1>1, FS_Interval
<1>3. IsFiniteSet(Earlier(i))
  BY <1>2, FS_Subset DEF Earlier
<1> QED BY <1>3, FS_CardinalityType

(* process_labels changes the names of the labels and nothing else of them. *)
LEMMA OrderedNames ==
  ASSUME LabelTableType, SetOrderedLabelNames
  PROVE  /\ SameAddresses(labels', labels)
         /\ labelAt' = labelAt
         /\ \A i \in 1 .. Len(labels) : labels'[i].name = 1 + Cardinality(Earlier(i))
<1>1. labels \in Seq(LabelRecord) /\ Len(labels) \in Nat /\ DOMAIN labels = 1 .. Len(labels)
  BY DEF LabelTableType, LabelRecord
<1> DEFINE name(i) == 1 + Cardinality(Earlier(i))
<1>2. \A i : name(i) \in Int
  BY EarlierFinite
<1>3. labels' = [i \in 1 .. Len(labels) |-> [labels[i] EXCEPT !.name = name(i)]]
  BY <1>1 DEF SetOrderedLabelNames, Earlier
<1> HIDE DEF name
<1>4. \A i \in 1 .. Len(labels) : /\ labels'[i] \in LabelRecord
                                 /\ labels'[i].seg = labels[i].seg
                                 /\ labels'[i].offset = labels[i].offset
                                 /\ labels'[i].name = name(i)
  <2> TAKE i \in 1 .. Len(labels)
  <2>1. labels[i] \in LabelRecord /\ name(i) \in Int
    BY <1>1, <1>2
  <2>2. labels'[i] = [labels[i] EXCEPT !.name = name(i)]
    BY <1>3
  <2> QED BY <2>1, <2>2 DEF LabelRecord
<1>5. labels' \in Seq(LabelRecord) /\ Len(labels') = Len(labels)
  <2>1. labels' = [i \in 1 .. Len(labels) |-> labels'[i]]
    BY <1>3
  <2> QED BY <1>1, <1>4, <2>1
<1>6. labelAt' = labelAt
  BY DEF SetOrderedLabelNames
<1> QED BY <1>4, <1>5, <1>6 DEF SameAddresses, name

LEMMA SetOrderedLabelNamesKeepsInv == ASSUME Inv, SetOrderedLabelNames PROVE Inv'
<1>1. LabelTableType /\ LabelTable /\ InsnsType /\ WordsType /\ raw \in Images
  BY InvParts
<1>2. labels \in Seq(LabelRecord) /\ Len(labels) \in Nat
  BY <1>1 DEF LabelTableType, LabelRecord
<1>3. SameAddresses(labels', labels) /\ labelAt' = labelAt
  BY <1>1, OrderedNames
<1>4. labels' \in Seq(LabelRecord) /\ Len(labels') = Len(labels)
  BY <1>3 DEF SameAddresses
<1>5. LabelIds' = LabelIds
  BY <1>4 DEF LabelIds
<1>6. \A i \in LabelIds : AddressIn(labels', i) = AddressIn(labels, i)
  <2> TAKE i \in LabelIds
  <2>1. i + 1 \in 1 .. Len(labels)
    BY <1>2 DEF LabelIds
  <2> QED BY <1>3, <2>1 DEF AddressIn, SameAddresses
<1>7. LabelTableType' /\ LabelTable'
  <2>1. LabelTableType'
    BY <1>1, <1>3, <1>4, <1>5 DEF LabelTableType, LabelRecord
  <2>2. LabelTable'
    BY <1>1, <1>3, <1>5, <1>6 DEF LabelTable, AddressIn, AddressOf, LabelSeg, LabelOffset
  <2> QED BY <2>1, <2>2
<1>8. WordsType' /\ raw' \in Images /\ InsnsType' /\ ZonesType'
  BY <1>1, <1>5, ZonesUnchanged
  DEF SetOrderedLabelNames, WordsType, Word, InsnsType, Operand, codeVars
<1>9. CursorType'
  BY GotoType, Constants DEF SetOrderedLabelNames, Passes
<1> QED BY <1>7, <1>8, <1>9, InvPartsAfter

LEMMA OutputStepKeepsInv == ASSUME Inv, OutputStep PROVE Inv'
<1>1. CASE PrintDisassembly
  <2>1. CursorType' /\ UNCHANGED <<raw, linkVars, codeVars>>
    BY <1>1, InvParts DEF PrintDisassembly, Abort, CursorType
  <2> QED BY <2>1, MoveKeepsInv
<1> QED BY <1>1, SetOrderedLabelNamesKeepsInv DEF OutputStep

-----------------------------------------------------------------------------

LEMMA EmptySeq == ASSUME NEW S PROVE << >> \in Seq(S) /\ Len(<< >>) = 0
  OBVIOUS

LEMMA InitInv == Init => Inv
<1> SUFFICES ASSUME Init PROVE Inv
  OBVIOUS
<1>1. labels = << >> /\ labelAt = [a \in {} |-> 0]
  BY DEF Init
<1>2. LabelIds = {} /\ DOMAIN labelAt = {}
  <2>1. Len(labels) = 0
    BY <1>1, EmptySeq
  <2>2. LabelIds = {}
    BY <2>1 DEF LabelIds
  <2> QED BY <1>1, <2>2
<1>3. LabelTableType /\ LabelTable
  <2>1. labelAt \in [DOMAIN labelAt -> LabelIds]
    BY <1>1
  <2>2. labels \in Seq([seg : Segs, offset : Int, name : Int])
    BY <1>1, EmptySeq
  <2> QED BY <1>2, <2>1, <2>2 DEF LabelTableType, LabelTable
<1>4. WordsType
  <2>1. [kind |-> "PLAIN_DATA", label |-> NoLabel, symbol |-> ""] \in Word
    BY DEF Word, WordKinds
  <2> QED BY <2>1 DEF Init, WordsType
<1>5. InsnsType
  BY DEF Init, InsnsType
<1>6. ZonesType
  <2>1. dataStart = [s \in Segs |-> 0]
    BY DEF Init
  <2>2. functions = [s \in Segs |-> << >>]
    BY DEF Init
  <2>3. functions \in [Segs -> Seq([start : Nat, end : Nat])]
    BY <2>2, EmptySeq
  <2>4. ZonesInFile
    BY <2>1, Constants DEF ZonesInFile
  <2>5. stats \in [code : Int, data : Int, functions : Nat]
    <3>1. stats = [code |-> 0, data |-> 0, functions |-> 0]
      BY DEF Init
    <3> QED BY <3>1
  <2> QED BY <2>1, <2>3, <2>4, <2>5 DEF ZonesType
<1>7. CursorType
  <2>1. /\ pc = "pointers" /\ seg = NSegs - 1 /\ at = FirstPointer
        /\ sym = NoSymbol /\ nsyms = 0
    BY DEF Init
  <2>2. FirstPointer \in Nat
    BY DEF FirstPointer
  <2> QED BY <2>1, <2>2, Constants DEF CursorType, Passes
<1>8. raw \in Images
  BY DEF Init
<1> QED BY <1>3, <1>4, <1>5, <1>6, <1>7, <1>8, InvParts

LEMMA NextKeepsInv == Inv /\ [Next]_vars => Inv'
<1> SUFFICES ASSUME Inv, [Next]_vars PROVE Inv'
  OBVIOUS
<1>1. CASE UNCHANGED vars
  <2>1. CursorType'
    BY <1>1, InvParts DEF vars, cursor, CursorType
  <2> QED BY <1>1, <2>1, MoveKeepsInv DEF vars
<1>2. CASE Finished
  BY <1>1, <1>2 DEF Finished
<1> QED BY <1>1, <1>2, LinkStepKeepsInv, CodeStepsKeepInv, OutputStepKeepsInv DEF Next, Finished

(* Whatever the file holds, every pass leaves a well-typed state; in        *)
(* particular no label id ever dangles.                                     *)
THEOREM TypeCorrect == Spec => []TypeOK
<1>1. Inv => TypeOK
  BY DEF Inv
<1> QED BY <1>1, InitInv, NextKeepsInv, PTL DEF Spec

(* get_label_id_for keeps its two tables consistent on every path through   *)
(* the linkers, find_code, the decoder and the fp pass.                     *)
THEOREM LabelTableCorrect == Spec => []LabelTable
<1>1. Inv => LabelTable
  BY DEF Inv
<1> QED BY <1>1, InitInv, NextKeepsInv, PTL DEF Spec

-----------------------------------------------------------------------------
(***************************************************************************)
(* Links: linked words denote what their raw values encode.                *)
(***************************************************************************)

(***************************************************************************)
(* One word and the link on it.  Beyond LinksDenoteTargets: a word that is *)
(* not linked has no label, a linked one has an existing one, and the      *)
(* lower word of a split pointer is linked too, so that nothing points it  *)
(* elsewhere later.                                                        *)
(***************************************************************************)
Lower(l) == <<l[1], l[2] + LoHiGap(raw[l])>>

SplitTarget(l) == <<DestSeg(raw[l]), Low16(raw[Lower(l)]) + 65536 * UpperByte(raw[l])>>

Pointers == {"PTR", "HI_PTR", "LO_PTR"}

WordLinked(l) ==
  /\ words[l].kind = "PLAIN_DATA" => words[l].label = NoLabel
  /\ words[l].kind \in Pointers => words[l].label \in LabelIds
  /\ words[l].kind = "PTR" =>
       AddressIn(labels, words[l].label) = <<l[1], Address(raw[l])>>
  /\ words[l].kind = "HI_PTR" =>
       /\ Lower(l) \in Loc
       /\ words[Lower(l)].kind # "PLAIN_DATA"
       /\ words[Lower(l)].label = words[l].label
       /\ AddressIn(labels, words[l].label) = SplitTarget(l)

LinksInv == \A l \in Loc : WordLinked(l)

LEMMA LinksInvSuffices == LinksInv => LinksDenoteTargets
<1> SUFFICES ASSUME LinksInv, NEW l \in Loc
             PROVE  /\ words[l].kind = "PTR" =>
                         AddressOf(words[l].label) = <<l[1], Address(raw[l])>>
                    /\ words[l].kind = "HI_PTR" =>
                         LET lo == <<l[1], l[2] + LoHiGap(raw[l])>>
                         IN /\ words[lo].label = words[l].label
                            /\ AddressOf(words[l].label) =
                                 <<DestSeg(raw[l]), Low16(raw[lo]) + 65536 * UpperByte(raw[l])>>
  BY DEF LinksDenoteTargets
<1>1. WordLinked(l)
  BY DEF LinksInv
<1>2. \A id : AddressOf(id) = AddressIn(labels, id)
  BY DEF AddressOf, AddressIn, LabelSeg, LabelOffset
<1> QED BY <1>1, <1>2 DEF WordLinked, Lower, SplitTarget

-----------------------------------------------------------------------------
(* What a step does to the labels.                                          *)

(* No id comes to denote another address. *)
LabelsKept == /\ LabelIds \subseteq LabelIds'
              /\ \A id \in LabelIds : AddressIn(labels', id) = AddressIn(labels, id)

(* The step asks for the label of an address. *)
Labelled(s, o) == /\ SameAddresses(labels', LabelsWith(s, o))
                  /\ labelAt' = LabelAtWith(s, o)

(* It leaves the labels alone, or only renames them. *)
SameLabels == LabelIds' = LabelIds /\ LabelsKept

LEMMA LabelledEffect ==
  ASSUME Inv, NEW s \in Segs, NEW o \in Int, Labelled(s, o)
  PROVE  /\ LabelsKept
         /\ LabelIds' = LabelIds \cup {LabelId(s, o)}
         /\ AddressIn(labels', LabelId(s, o)) = <<s, o>>
<1>1. LabelTableType /\ LabelTable
  BY InvParts
<1> DEFINE id == LabelId(s, o)
<1>2. /\ LabelIds' = LabelIds \cup {id}
      /\ AddressIn(labels', id) = <<s, o>>
      /\ \A i \in LabelIds : AddressIn(labels', i) = AddressIn(labels, i)
  <2> HIDE DEF id
  <2> QED BY <1>1, LabelledKeepsTable DEF Labelled, id
<1> QED BY <1>2 DEF LabelsKept

LEMMA NoteLabelLabels ==
  ASSUME Inv, NEW s \in Segs, NEW o \in Int, NoteLabel(s, o)
  PROVE  Labelled(s, o)
  BY NoteLabelSameAddresses, InvParts DEF Labelled

LEMMA SameAddressesKept ==
  ASSUME Inv, SameAddresses(labels', labels)
  PROVE  SameLabels
<1>1. Len(labels) \in Nat
  BY InvParts DEF LabelTableType
<1>2. LabelIds' = LabelIds
  BY DEF SameAddresses, LabelIds
<1>3. \A id \in LabelIds : AddressIn(labels', id) = AddressIn(labels, id)
  <2> TAKE id \in LabelIds
  <2>1. id + 1 \in 1 .. Len(labels)
    BY <1>1 DEF LabelIds
  <2> QED BY <2>1 DEF SameAddresses, AddressIn
<1> QED BY <1>2, <1>3 DEF SameLabels, LabelsKept

LEMMA UnchangedLabelsKept == ASSUME UNCHANGED labels PROVE SameLabels
  BY DEF SameLabels, LabelsKept, LabelIds, AddressIn

-----------------------------------------------------------------------------
(* The actions that link words, when they do not end the program.           *)

LinksPointer(l, s, o) ==
  /\ pc = "pointers" /\ s = l[1] /\ o = Address(raw[l]) /\ IsWordPointer(raw[l])
  /\ words[l].kind = "PLAIN_DATA"
  /\ words' = [words EXCEPT ![l] = Pointing(words[l], "PTR", LabelId(s, o))]
  /\ Labelled(s, o)
  /\ UNCHANGED <<raw, insns, pc>>

LinksSplit(hi, lo, s, o) ==
  /\ pc = "pointers" /\ lo = Lower(hi) /\ hi # lo /\ SplitTarget(hi) = <<s, o>>
  /\ words[hi].kind = "PLAIN_DATA" /\ words[lo].kind = "PLAIN_DATA"
  /\ words' = [words EXCEPT ![hi] = Pointing(words[hi], "HI_PTR", LabelId(s, o)),
                            ![lo] = Pointing(words[lo], "LO_PTR", LabelId(s, o))]
  /\ Labelled(s, o)
  /\ UNCHANGED <<raw, insns, pc>>

LinksSymbol(l, kind, name) ==
  /\ pc = "symbols"
  /\ AllOnes(raw[l]) \/ words[l].kind = "PLAIN_DATA"
  /\ words' = [words EXCEPT ![l] = Naming(words[l], kind, name)]
  /\ UNCHANGED <<raw, labels, labelAt, insns, pc>>

SymbolWordKinds == {"SYM_PTR", "TYPE_PTR", "EMPTY_PTR", "SYM_OFFSET"}

LEMMA LinkPointerCases ==
  ASSUME Inv, LinkPointer
  PROVE  \/ UNCHANGED <<raw, linkVars, codeVars>>
         \/ \E l \in Loc, s \in Segs, o \in Int : LinksPointer(l, s, o)
<1> DEFINE l == <<seg, at>>
           dest == Address(raw[l])
<1>1. seg \in Segs /\ at \in Nat /\ at < Size[seg]
  BY InvParts DEF LinkPointer, CursorType
<1>2. l \in Loc /\ dest \in Int
  BY <1>1, LocMember, RawWordType DEF Inv
<1>3. CASE ~UNCHANGED <<raw, linkVars, codeVars>>
  <2>1. /\ words[l].kind = "PLAIN_DATA"
        /\ words' = [words EXCEPT ![l] = Pointing(words[l], "PTR", LabelId(seg, dest))]
        /\ NoteLabel(seg, dest)
        /\ pc = "pointers" /\ UNCHANGED <<raw, insns, pc>>
        /\ IsWordPointer(raw[l])
    BY <1>3 DEF LinkPointer, Abort, Advance, codeVars
  <2>2. Labelled(seg, dest)
    BY <1>1, <1>2, <2>1, NoteLabelLabels
  <2>3. LinksPointer(l, seg, dest)
    BY <2>1, <2>2 DEF LinksPointer
  <2> HIDE DEF l, dest
  <2> QED BY <1>1, <1>2, <2>3
<1> QED BY <1>3

LEMMA LinkSplitPointerCases ==
  ASSUME Inv, LinkSplitPointer
  PROVE  \/ UNCHANGED <<raw, linkVars, codeVars>>
         \/ \E hi \in Loc, lo \in Loc, s \in Segs, o \in Int : LinksSplit(hi, lo, s, o)
<1> DEFINE hi == <<seg, at>>
           lo == Lower(hi)
           s == DestSeg(raw[hi])
           o == Low16(raw[lo]) + 65536 * UpperByte(raw[hi])
<1>1. seg \in Segs /\ at \in Nat /\ at < Size[seg]
  BY InvParts DEF LinkSplitPointer, CursorType
<1>2. hi \in Loc /\ LoHiGap(raw[hi]) \in Nat /\ UpperByte(raw[hi]) \in Nat
  BY <1>1, LocMember, RawWordType DEF Inv
<1>3. lo = <<seg, at + LoHiGap(raw[hi])>>
  BY DEF Lower
<1>4. SplitTarget(hi) = <<s, o>>
  BY DEF SplitTarget
<1> HIDE DEF lo
<1>5. CASE ~UNCHANGED <<raw, linkVars, codeVars>>
  <2>1. /\ LoHiGap(raw[hi]) # 0
        /\ s \in Segs /\ lo \in Loc
        /\ words[hi].kind = "PLAIN_DATA" /\ words[lo].kind = "PLAIN_DATA"
        /\ words' = [words EXCEPT ![hi] = Pointing(words[hi], "HI_PTR", LabelId(s, o)),
                                  ![lo] = Pointing(words[lo], "LO_PTR", LabelId(s, o))]
        /\ NoteLabel(s, o)
        /\ pc = "pointers" /\ UNCHANGED <<raw, insns, pc>>
    BY <1>3, <1>5 DEF LinkSplitPointer, Abort, Advance, codeVars
  <2>2. hi # lo
    BY <1>1, <1>2, <1>3, <2>1
  <2>3. o \in Int
    <3>1. Low16(raw[lo]) \in Nat
      BY <2>1, RawWordType DEF Inv
    <3> QED BY <1>2, <3>1
  <2> HIDE DEF s, o
  <2>4. Labelled(s, o)
    BY <2>1, <2>3, NoteLabelLabels
  <2>5. LinksSplit(hi, lo, s, o)
    BY <1>4, <2>1, <2>2, <2>4 DEF LinksSplit, lo
  <2> HIDE DEF hi
  <2> QED BY <1>2, <2>1, <2>3, <2>5
<1> QED BY <1>5

LEMMA LinkSymbolCases ==
  ASSUME Inv, NEW s \in SymbolEntries, NEW w \in 0 .. Size[seg] - 1, LinkSymbol(s, w)
  PROVE  \/ UNCHANGED <<raw, linkVars, codeVars>>
         \/ \E l \in Loc, kind \in SymbolWordKinds : LinksSymbol(l, kind, s.name)
<1> DEFINE l == <<seg, w>>
<1>1. l \in Loc /\ s.kind \in LinkKinds
  <2>1. seg \in Segs /\ w \in Nat /\ w < Size[seg]
    BY InvParts, Constants DEF CursorType, LinkSymbol
  <2>2. s \in [name : Names, kind : LinkKinds]
    BY DEF SymbolEntries
  <2> QED BY <2>1, <2>2, LocMember
<1>2. WordKindOf(s.kind) \in SymbolWordKinds /\ "SYM_OFFSET" \in SymbolWordKinds
  BY <1>1 DEF WordKindOf, LinkKinds, SymbolWordKinds
<1>3. UNCHANGED <<raw, labels, labelAt, codeVars>>
  BY DEF LinkSymbol
<1>4. CASE words' = words
  BY <1>3, <1>4 DEF linkVars
<1>5. CASE words' # words
  <2>1. /\ pc = "symbols" /\ pc' = pc
        /\ \/ words' = [words EXCEPT ![l] = Naming(words[l], WordKindOf(s.kind), s.name)]
           \/ words' = [words EXCEPT ![l] = Naming(words[l], "SYM_OFFSET", s.name)]
        /\ AllOnes(raw[l]) \/ words[l].kind = "PLAIN_DATA"
    BY <1>5 DEF LinkSymbol, CannotHoldOffset
  <2>2. LinksSymbol(l, WordKindOf(s.kind), s.name) \/ LinksSymbol(l, "SYM_OFFSET", s.name)
    BY <1>3, <2>1 DEF LinksSymbol, codeVars
  <2> HIDE DEF l
  <2> QED BY <1>1, <1>2, <2>2
<1> QED BY <1>4, <1>5

(***************************************************************************)
(* The actions that label or decode code, when they do not end the program *)
(***************************************************************************)

BranchDecoded(s, w, o) ==
  /\ pc = "disassemble" /\ s = seg /\ w = at /\ w < dataStart[s]
  /\ raw[<<s, w>>].op = "BRANCH" /\ o = BranchTarget(w, raw[<<s, w>>])
  /\ Labelled(s, o)
  /\ SetInsn(<<s, w>>, Insn("label", LabelId(s, o)))
  /\ Advance(at + 1)
  /\ UNCHANGED <<raw, words, dataStart, functions>>

OtherDecoded(s, w, i) ==
  /\ pc = "disassemble" /\ s = seg /\ w = at /\ w < dataStart[s]
  /\ raw[<<s, w>>].op # "BRANCH"
  /\ IF i.arg = "label"
     THEN /\ words[<<s, w>>].kind \in {"HI_PTR", "LO_PTR"}
          /\ raw[<<s, w>>].op \in {"LUI", "ORI"}
          /\ i.label = words[<<s, w>>].label
     ELSE i.label = NoLabel
  /\ SetInsn(<<s, w>>, i)
  /\ Advance(at + 1)
  /\ UNCHANGED <<raw, linkVars, dataStart, functions>>

OperandLabelled(s, w, o) ==
  /\ pc = "fp_links" /\ s = seg /\ w < dataStart[s]
  /\ insns[<<s, w>>].arg = "imm"
  /\ Labelled(s, o)
  /\ insns' = [insns EXCEPT ![<<s, w>>] = Insn("label", LabelId(s, o))]
  /\ Advance(at + 1)
  /\ UNCHANGED <<raw, words, dataStart, functions>>

LoadLabelled(f, s, w, o) ==
  /\ f \in Range(functions[s]) /\ f.start <= w /\ w < f.end
  /\ raw[<<s, w>>].op = "FP_LOAD" /\ o = FpBase(f) + Signed16(raw[<<s, w>>])
  /\ OperandLabelled(s, w, o)

OriLabelled(f, s, w, o, upper) ==
  /\ f \in Range(functions[s]) /\ f.start <= w /\ w + 1 < f.end
  /\ raw[<<s, w>>].op = "ORI" /\ raw[<<s, w + 1>>].op = "FP_ADD"
  /\ o = FpBase(f) + Low16(raw[<<s, w>>]) + 65536 * upper
  /\ OperandLabelled(s, w, o)

LEMMA DecodeBranchCases ==
  ASSUME Inv, DecodeBranch
  PROVE  \/ Abort
         \/ \E s \in Segs, w \in Nat, o \in Int : BranchDecoded(s, w, o)
<1> DEFINE l == <<seg, at>>
           o == BranchTarget(at, raw[l])
<1>1. seg \in Segs /\ at \in Nat /\ l \in Loc
  BY InvParts, CodeWord DEF CursorType, DecodeBranch
<1>2. o \in Int
  BY <1>1, RawWordType DEF Inv, BranchTarget
<1>3. CASE ~Abort
  <2>1. /\ NoteLabel(seg, o)
        /\ SetInsn(l, Insn("label", LabelId(seg, o)))
        /\ Advance(at + 1)
        /\ UNCHANGED <<raw, words, dataStart, functions>>
        /\ pc = "disassemble" /\ at < dataStart[seg] /\ raw[l].op = "BRANCH"
    BY <1>3 DEF DecodeBranch
  <2> HIDE DEF o
  <2>2. Labelled(seg, o)
    BY <1>1, <1>2, <2>1, NoteLabelLabels
  <2>3. BranchDecoded(seg, at, o)
    BY <2>1, <2>2 DEF BranchDecoded, o
  <2> QED BY <1>1, <1>2, <2>3
<1> QED BY <1>3

LEMMA DecodeOtherCases ==
  ASSUME Inv, DecodeOther
  PROVE  \/ Abort
         \/ \E s \in Segs, w \in Nat, i \in Operand : <<s, w>> \in Loc /\ OtherDecoded(s, w, i)
<1> DEFINE l == <<seg, at>>
           kind == words[l].kind
           op == raw[l].op
           i == CASE op = "BAD" -> Insn("none", NoLabel)
                  [] op # "BAD" /\ kind = "SYM_OFFSET" -> Insn("symbol", NoLabel)
                  [] op # "BAD" /\ kind \in {"HI_PTR", "LO_PTR"} -> Insn("label", words[l].label)
                  [] OTHER -> Insn(IF HasImm(raw[l]) THEN "imm" ELSE "none", NoLabel)
<1>1. seg \in Segs /\ at \in Nat /\ l \in Loc
  BY InvParts, CodeWord DEF CursorType, DecodeOther
<1>2. CASE ~Abort
  <2>1. /\ SetInsn(l, i)
        /\ Advance(at + 1)
        /\ UNCHANGED <<raw, linkVars, dataStart, functions>>
        /\ pc = "disassemble" /\ at < dataStart[seg] /\ op # "BRANCH"
        /\ ~(op # "BAD" /\ kind = "HI_PTR" /\ op # "LUI")
        /\ ~(op # "BAD" /\ kind = "LO_PTR" /\ op # "ORI")
    BY <1>2 DEF DecodeOther
  <2>2. words[l].label \in LabelIds \cup {NoLabel}
    BY <1>1, InvParts DEF WordsType, Word
  <2>3. \/ /\ i = Insn("label", words[l].label)
           /\ op # "BAD" /\ kind \in {"HI_PTR", "LO_PTR"}
        \/ \E a \in {"none", "symbol", "imm"} : i = Insn(a, NoLabel)
    <3> HIDE DEF kind, op, l
    <3> QED OBVIOUS
  <2>4. /\ i \in Operand
        /\ IF i.arg = "label"
           THEN kind \in {"HI_PTR", "LO_PTR"} /\ op # "BAD" /\ i.label = words[l].label
           ELSE i.label = NoLabel
    <3>1. CASE i = Insn("label", words[l].label) /\ op # "BAD" /\ kind \in {"HI_PTR", "LO_PTR"}
      <4> HIDE DEF i, kind, op, l
      <4> QED BY <2>2, <3>1 DEF Insn, Operand
    <3>2. ASSUME NEW a \in {"none", "symbol", "imm"}, i = Insn(a, NoLabel)
          PROVE  i \in Operand /\ i.arg # "label" /\ i.label = NoLabel
      <4> HIDE DEF i
      <4> QED BY <3>2 DEF Insn, Operand
    <3> QED BY <2>3, <3>1, <3>2
  <2> HIDE DEF i
  <2>5. OtherDecoded(seg, at, i)
    BY <2>1, <2>4 DEF OtherDecoded
  <2> QED BY <1>1, <2>4, <2>5
<1> QED BY <1>2

LEMMA FpLoadCases ==
  ASSUME Inv, NEW f \in Range(functions[seg]), FpLoad(f)
  PROVE  \/ Abort
         \/ \E s \in Segs, w \in Nat, o \in Int : LoadLabelled(f, s, w, o)
<1> DEFINE l == <<seg, at>>
           o == FpBase(f) + Signed16(raw[l])
<1>1. seg \in Segs /\ at \in Nat /\ l \in Loc
  BY InvParts, CodeWord DEF CursorType, FpLoad
<1>2. o \in Int
  BY <1>1, RawWordType, FunctionType DEF Inv
<1>3. CASE ~Abort
  <2>1. /\ LabelOperand(l, o) /\ Advance(at + 1)
        /\ pc = "fp_links" /\ at < dataStart[seg] /\ insns[l].arg = "imm"
        /\ InFunction(f, at) /\ raw[l].op = "FP_LOAD"
    BY <1>3 DEF FpLoad
  <2> HIDE DEF o
  <2>2. Labelled(seg, o)
    BY <1>1, <1>2, <2>1, NoteLabelLabels DEF LabelOperand
  <2>3. OperandLabelled(seg, at, o)
    BY <2>1, <2>2 DEF OperandLabelled, LabelOperand
  <2>4. LoadLabelled(f, seg, at, o)
    BY <2>1, <2>3 DEF LoadLabelled, InFunction, o
  <2> QED BY <1>1, <1>2, <2>4
<1> QED BY <1>3

LEMMA FpAddCases ==
  ASSUME Inv, NEW f \in Range(functions[seg]), FpAdd(f)
  PROVE  \/ Abort
         \/ \E s \in Segs, w \in Nat, o \in Int, upper \in Int : OriLabelled(f, s, w, o, upper)
<1> DEFINE w == at - 1
           prev == <<seg, w>>
           pprev == <<seg, at - 2>>
           upper == IF HasLui(f) THEN Signed16(raw[pprev]) ELSE 0
           o == FpBase(f) + Low16(raw[prev]) + 65536 * upper
<1>1. CASE ~Abort
  <2>1. /\ LabelOperand(prev, FpBase(f) + Low16(raw[prev])
                               + (IF HasLui(f) THEN 65536 * Signed16(raw[pprev]) ELSE 0))
        /\ Advance(at + 1)
        /\ pc = "fp_links" /\ at < dataStart[seg] /\ insns[prev].arg = "imm"
        /\ InFunction(f, at) /\ at # f.start
        /\ raw[<<seg, at>>].op = "FP_ADD" /\ raw[prev].op = "ORI"
    BY <1>1 DEF FpAdd
  <2>2. /\ seg \in Segs /\ at \in Nat /\ f.start \in Nat /\ f.end \in Nat
        /\ dataStart[seg] \in Nat /\ FpBase(f) \in Nat /\ f.start <= at /\ at < f.end
    BY <2>1, InvParts, FunctionType DEF CursorType, ZonesType, InFunction
  <2>3. /\ w \in Nat /\ w < dataStart[seg] /\ w + 1 = at /\ f.start <= w
        /\ prev \in Loc
        /\ HasLui(f) => pprev \in Loc
    BY <2>1, <2>2, CodeWord DEF HasLui
  <2>4. Low16(raw[prev]) \in Nat /\ upper \in Int
    <3>1. HasLui(f) => Signed16(raw[pprev]) \in Int
      BY <2>3, RawWordType DEF Inv
    <3>2. Low16(raw[prev]) \in Nat
      BY <2>3, RawWordType DEF Inv
    <3> QED BY <3>1, <3>2
  <2>5. o \in Int
    <3> HIDE DEF upper, prev
    <3> QED BY <2>2, <2>4
  <2>6. LabelOperand(prev, o)
    <3>1. (IF HasLui(f) THEN 65536 * Signed16(raw[pprev]) ELSE 0) = 65536 * upper
      OBVIOUS
    <3> HIDE DEF upper
    <3> QED BY <2>1, <3>1
  <2> HIDE DEF o, upper, w
  <2>7. Labelled(seg, o)
    BY <2>2, <2>5, <2>6, NoteLabelLabels DEF LabelOperand
  <2>8. OperandLabelled(seg, w, o)
    <3>1. /\ insns' = [insns EXCEPT ![prev] = Insn("label", LabelId(seg, o))]
          /\ UNCHANGED <<raw, words, dataStart, functions>>
      BY <2>6 DEF LabelOperand
    <3> QED BY <2>1, <2>3, <2>7, <3>1 DEF OperandLabelled
  <2>9. OriLabelled(f, seg, w, o, upper)
    BY <2>1, <2>2, <2>3, <2>8 DEF OriLabelled, InFunction, o
  <2> QED BY <2>2, <2>3, <2>4, <2>5, <2>9
<1> QED BY <1>1

-----------------------------------------------------------------------------
(* Every step, by what it does to the words, the instructions and the       *)
(* labels.                                                                  *)

(* The labels have their names, or the program has stopped. *)
Frozen == pc \in {"print", "done", "aborted"}

DataLabelled(s, o) == /\ pc = "find_code" /\ ~Frozen'
                      /\ Labelled(s, o)
                      /\ UNCHANGED <<raw, words, insns>>

FindsNothing == /\ SameLabels
                /\ UNCHANGED <<raw, words, insns>>
                /\ Frozen => Frozen'

LEMMA NothingFound ==
  ASSUME UNCHANGED <<raw, linkVars, codeVars>>, Frozen => Frozen'
  PROVE  FindsNothing
  BY UnchangedLabelsKept DEF FindsNothing, linkVars, codeVars

LEMMA AbortFindsNothing == ASSUME Abort PROVE FindsNothing
  BY NothingFound DEF Abort, Frozen

LEMMA LinkStepCases ==
  ASSUME Inv, LinkStep
  PROVE  \/ \E l \in Loc, s \in Segs, o \in Int : LinksPointer(l, s, o)
         \/ \E hi \in Loc, lo \in Loc, s \in Segs, o \in Int : LinksSplit(hi, lo, s, o)
         \/ \E l \in Loc, kind \in SymbolWordKinds, name \in Names : LinksSymbol(l, kind, name)
         \/ FindsNothing
<1>1. CASE LinkPointer
  <2>1. ~Frozen
    BY <1>1 DEF LinkPointer, Frozen
  <2> QED BY <1>1, <2>1, LinkPointerCases, NothingFound
<1>2. CASE LinkSplitPointer
  <2>1. ~Frozen
    BY <1>2 DEF LinkSplitPointer, Frozen
  <2> QED BY <1>2, <2>1, LinkSplitPointerCases, NothingFound
<1>3. ASSUME NEW s \in SymbolEntries, NEW w \in 0 .. Size[seg] - 1, LinkSymbol(s, w)
      PROVE  \/ \E l \in Loc, kind \in SymbolWordKinds, name \in Names :
                  LinksSymbol(l, kind, name)
             \/ FindsNothing
  <2>1. ~Frozen
    BY <1>3 DEF LinkSymbol, Frozen
  <2>2. s.name \in Names
    BY DEF SymbolEntries
  <2> QED BY <1>3, <2>1, <2>2, LinkSymbolCases, NothingFound
<1>4. CASE SeekPointer \/ PointersDone \/ SymbolsDone
  <2>1. ~Frozen /\ UNCHANGED <<raw, linkVars, codeVars>>
    BY <1>4 DEF SeekPointer, PointersDone, SymbolsDone, Frozen
  <2> QED BY <2>1, NothingFound
<1>5. CASE VisitOutside
  BY <1>5, AbortFindsNothing DEF VisitOutside
<1> QED BY <1>1, <1>2, <1>3, <1>4, <1>5 DEF LinkStep

LEMMA CodeStepCases ==
  ASSUME Inv, CodeStep
  PROVE  \/ \E s \in Segs, o \in Int : DataLabelled(s, o)
         \/ \E s \in Segs, w \in Nat, o \in Int : BranchDecoded(s, w, o)
         \/ \E s \in Segs, w \in Nat, i \in Operand : <<s, w>> \in Loc /\ OtherDecoded(s, w, i)
         \/ \E s \in Segs, w \in Nat, o \in Int : OperandLabelled(s, w, o)
         \/ FindsNothing
<1> USE AbortFindsNothing
<1>1. CASE FindCodeSingle
  <2>1. UNCHANGED <<raw, linkVars, insns>> /\ ~Frozen
    BY <1>1 DEF FindCodeSingle, Abort, codeVars, Frozen
  <2> QED BY <2>1, UnchangedLabelsKept DEF FindsNothing, linkVars
<1>2. ASSUME NEW start \in 0 .. Size[seg], FindCode(start)
      PROVE  (\E s \in Segs, o \in Int : DataLabelled(s, o)) \/ FindsNothing
  <2>1. /\ seg \in Segs /\ 4 * start \in Int
        /\ pc = "find_code" /\ UNCHANGED <<raw, words, insns>> /\ ~Frozen
    <3>1. seg \in Segs /\ start \in Nat
      BY InvParts, Constants DEF CursorType
    <3> QED BY <1>2, <3>1 DEF FindCode, Frozen
  <2>2. ~Frozen'
    BY <1>2, <2>1 DEF FindCode, Goto, Frozen
  <2>3. CASE start < Size[seg]
    <3>1. Labelled(seg, 4 * start)
      BY <1>2, <2>3, FindCodeLabels DEF Labelled
    <3>2. DataLabelled(seg, 4 * start)
      BY <2>1, <2>2, <3>1 DEF DataLabelled
    <3> QED BY <2>1, <3>2
  <2>4. CASE ~(start < Size[seg])
    <3>1. UNCHANGED labels
      BY <1>2, <2>4 DEF FindCode
    <3> QED BY <2>1, <3>1, UnchangedLabelsKept DEF FindsNothing
  <2> QED BY <2>3, <2>4
<1>3. ASSUME NEW tag \in FunctionTags(seg), FindFunction(tag)
      PROVE  FindsNothing
  BY <1>3, UnchangedLabelsKept DEF FindFunction, FindsNothing, linkVars, Frozen
<1>4. CASE NoDataZone \/ CodeBeforeFirstFunction \/ FpUnknown
  BY <1>4 DEF NoDataZone, CodeBeforeFirstFunction, FpUnknown
<1>5. CASE FunctionsDone \/ DisassemblyDone \/ FpSkip \/ FpDone
  <2>1. UNCHANGED <<raw, linkVars, insns>> /\ ~Frozen
    BY <1>5 DEF FunctionsDone, DisassemblyDone, FpSkip, FpDone, codeVars, Frozen
  <2> QED BY <2>1, UnchangedLabelsKept DEF FindsNothing, linkVars
<1>6. ASSUME NEW f \in Range(functions[seg]), FpLoad(f) \/ FpAdd(f)
      PROVE  \/ \E s \in Segs, w \in Nat, o \in Int : OperandLabelled(s, w, o)
             \/ FindsNothing
  <2>1. CASE FpLoad(f)
    BY <2>1, FpLoadCases DEF LoadLabelled
  <2>2. CASE FpAdd(f)
    <3>1. \A s, w, o, upper : OriLabelled(f, s, w, o, upper) => OperandLabelled(s, w, o)
      BY DEF OriLabelled
    <3> QED BY <2>2, <3>1, FpAddCases
  <2> QED BY <1>6, <2>1, <2>2
<1> QED BY <1>1, <1>2, <1>3, <1>4, <1>5, <1>6, DecodeBranchCases, DecodeOtherCases DEF CodeStep

LEMMA OutputStepCases == ASSUME Inv, OutputStep PROVE FindsNothing
<1>1. CASE SetOrderedLabelNames
  <2>1. SameLabels
    BY <1>1, OrderedNames, SameAddressesKept, InvParts
  <2> QED BY <1>1, <2>1 DEF SetOrderedLabelNames, FindsNothing, codeVars, Frozen
<1>2. CASE PrintDisassembly
  BY <1>2, NothingFound DEF PrintDisassembly, Abort, Frozen
<1> QED BY <1>1, <1>2 DEF OutputStep

LEMMA StepCases ==
  ASSUME Inv, [Next]_vars
  PROVE  \/ \E l \in Loc, s \in Segs, o \in Int : LinksPointer(l, s, o)
         \/ \E hi \in Loc, lo \in Loc, s \in Segs, o \in Int : LinksSplit(hi, lo, s, o)
         \/ \E l \in Loc, kind \in SymbolWordKinds, name \in Names : LinksSymbol(l, kind, name)
         \/ \E s \in Segs, o \in Int : DataLabelled(s, o)
         \/ \E s \in Segs, w \in Nat, o \in Int : BranchDecoded(s, w, o)
         \/ \E s \in Segs, w \in Nat, i \in Operand : <<s, w>> \in Loc /\ OtherDecoded(s, w, i)
         \/ \E s \in Segs, w \in Nat, o \in Int : OperandLabelled(s, w, o)
         \/ FindsNothing
<1>1. CASE UNCHANGED vars
  BY <1>1, NothingFound DEF vars, cursor, Frozen
<1> QED BY <1>1, LinkStepCases, CodeStepCases, OutputStepCases DEF Next, Finished

(***************************************************************************)
(* A label id never comes to denote another address, in any pass.          *)
(***************************************************************************)
LEMMA StepKeepsLabels == ASSUME Inv, [Next]_vars PROVE LabelsKept
<1> USE LabelledEffect
<1>1. ASSUME NEW l \in Loc, NEW s \in Segs, NEW o \in Int, LinksPointer(l, s, o)
      PROVE  LabelsKept
  BY <1>1 DEF LinksPointer
<1>2. ASSUME NEW hi \in Loc, NEW lo \in Loc, NEW s \in Segs, NEW o \in Int,
             LinksSplit(hi, lo, s, o)
      PROVE  LabelsKept
  BY <1>2 DEF LinksSplit
<1>3. ASSUME NEW l \in Loc, NEW kind, NEW name, LinksSymbol(l, kind, name)
      PROVE  LabelsKept
  BY <1>3, UnchangedLabelsKept DEF LinksSymbol, SameLabels
<1>4. ASSUME NEW s \in Segs, NEW o \in Int, DataLabelled(s, o)
      PROVE  LabelsKept
  BY <1>4 DEF DataLabelled
<1>5. ASSUME NEW s \in Segs, NEW w \in Nat, NEW o \in Int, BranchDecoded(s, w, o)
      PROVE  LabelsKept
  BY <1>5 DEF BranchDecoded
<1>6. ASSUME NEW s \in Segs, NEW w \in Nat, NEW i, OtherDecoded(s, w, i)
      PROVE  LabelsKept
  BY <1>6, UnchangedLabelsKept DEF OtherDecoded, linkVars, SameLabels
<1>7. ASSUME NEW s \in Segs, NEW w \in Nat, NEW o \in Int, OperandLabelled(s, w, o)
      PROVE  LabelsKept
  BY <1>7 DEF OperandLabelled
<1>8. CASE FindsNothing
  BY <1>8 DEF FindsNothing, SameLabels
<1> QED BY <1>1, <1>2, <1>3, <1>4, <1>5, <1>6, <1>7, <1>8, StepCases

(***************************************************************************)
(* No pass moves a label: the ids in words and instructions, handed out    *)
(* while the vector grows, go on denoting the address they were found for. *)
(***************************************************************************)
THEOREM LabelIdsKeepTheirAddresses == Spec => LabelsStay
<1>1. Inv /\ Inv' /\ [Next]_vars =>
        [/\ Len(labels') >= Len(labels)
         /\ \A i \in DOMAIN labels : /\ labels'[i].seg = labels[i].seg
                                     /\ labels'[i].offset = labels[i].offset]_vars
  <2> SUFFICES ASSUME Inv, Inv', [Next]_vars
               PROVE  /\ Len(labels') >= Len(labels)
                      /\ \A i \in DOMAIN labels : /\ labels'[i].seg = labels[i].seg
                                                  /\ labels'[i].offset = labels[i].offset
    OBVIOUS
  <2>1. LabelsKept
    BY StepKeepsLabels
  <2>2. Len(labels) \in Nat /\ Len(labels') \in Nat /\ DOMAIN labels = 1 .. Len(labels)
    <3>1. LabelTableType /\ LabelTableType'
      BY DEF Inv, TypeOK, LabelTableType
    <3>2. labels \in Seq(LabelRecord) /\ labels' \in Seq(LabelRecord)
      BY <3>1 DEF LabelTableType, LabelRecord
    <3> QED BY <3>2
  <2>3. Len(labels') >= Len(labels)
    <3>1. CASE Len(labels) = 0
      BY <2>2, <3>1
    <3>2. CASE Len(labels) > 0
      <4>1. Len(labels) - 1 \in LabelIds
        BY <2>2, <3>2 DEF LabelIds
      <4>2. Len(labels) - 1 \in LabelIds'
        BY <2>1, <4>1 DEF LabelsKept
      <4> QED BY <2>2, <4>2 DEF LabelIds
    <3> QED BY <2>2, <3>1, <3>2
  <2>4. ASSUME NEW i \in DOMAIN labels
        PROVE  labels'[i].seg = labels[i].seg /\ labels'[i].offset = labels[i].offset
    <3>1. i - 1 \in LabelIds /\ (i - 1) + 1 = i
      BY <2>2 DEF LabelIds
    <3>2. AddressIn(labels', i - 1) = AddressIn(labels, i - 1)
      BY <2>1, <3>1 DEF LabelsKept
    <3> QED BY <3>1, <3>2 DEF AddressIn
  <2> QED BY <2>3, <2>4
<1> QED BY <1>1, InitInv, NextKeepsInv, PTL DEF Spec, LabelsStay

-----------------------------------------------------------------------------
(* The links stay good.                                                     *)

(* A step after which a word, its lower half, if any, and their labels are *)
(* what they were, or only more linked.                                     *)
LEMMA WordStaysLinked ==
  ASSUME Inv, LabelsKept, raw' = raw, NEW l \in Loc, WordLinked(l), words'[l] = words[l],
         \A m \in Loc : words[m].kind # "PLAIN_DATA" =>
                         words'[m].kind # "PLAIN_DATA" /\ words'[m].label = words[m].label
  PROVE  WordLinked(l)'
<1>1. Lower(l)' = Lower(l) /\ SplitTarget(l)' = SplitTarget(l)
  BY DEF Lower, SplitTarget
<1>2. words[l].kind = "HI_PTR" => words[l].label \in LabelIds /\ Lower(l) \in Loc
  BY DEF WordLinked, Pointers
<1> HIDE DEF Lower, SplitTarget
<1> QED BY <1>1, <1>2 DEF WordLinked, Pointers, LabelsKept

LEMMA PointingFields ==
  ASSUME NEW w \in Word, NEW k, NEW id
  PROVE  Pointing(w, k, id).kind = k /\ Pointing(w, k, id).label = id
  BY DEF Pointing, Word

LEMMA NamingFields ==
  ASSUME NEW w \in Word, NEW k, NEW y
  PROVE  Naming(w, k, y).kind = k /\ Naming(w, k, y).label = w.label
  BY DEF Naming, Word

LEMMA LinksPointerKeepsLinks ==
  ASSUME Inv, LinksInv, NEW l \in Loc, NEW s \in Segs, NEW o \in Int, LinksPointer(l, s, o)
  PROVE  LinksInv'
<1> DEFINE id == LabelId(s, o)
           word == Pointing(words[l], "PTR", id)
<1>1. Labelled(s, o) /\ raw' = raw /\ words[l].kind = "PLAIN_DATA"
      /\ words' = [words EXCEPT ![l] = word]
      /\ s = l[1] /\ o = Address(raw[l])
  BY DEF LinksPointer
<1>2. LabelsKept /\ id \in LabelIds' /\ AddressIn(labels', id) = <<s, o>>
  BY <1>1, LabelledEffect
<1>3. word.kind = "PTR" /\ word.label = id /\ words \in [Loc -> Word]
  BY PointingFields, InvParts DEF WordsType
<1> HIDE DEF word, id
<1>4. words'[l] = word /\ \A m \in Loc : m # l => words'[m] = words[m]
  BY <1>1, <1>3
<1>5. WordLinked(l)'
  BY <1>1, <1>2, <1>3, <1>4 DEF WordLinked, Pointers
<1>6. ASSUME NEW m \in Loc, m # l PROVE WordLinked(m)'
  BY <1>1, <1>2, <1>4, <1>6, WordStaysLinked DEF LinksInv
<1> QED BY <1>5, <1>6 DEF LinksInv

LEMMA LinksSplitKeepsLinks ==
  ASSUME Inv, LinksInv, NEW hi \in Loc, NEW lo \in Loc, NEW s \in Segs, NEW o \in Int,
         LinksSplit(hi, lo, s, o)
  PROVE  LinksInv'
<1> DEFINE id == LabelId(s, o)
           hiWord == Pointing(words[hi], "HI_PTR", id)
           loWord == Pointing(words[lo], "LO_PTR", id)
<1>1. Labelled(s, o) /\ raw' = raw
      /\ words[hi].kind = "PLAIN_DATA" /\ words[lo].kind = "PLAIN_DATA"
      /\ words' = [words EXCEPT ![hi] = hiWord, ![lo] = loWord]
      /\ lo = Lower(hi) /\ hi # lo /\ SplitTarget(hi) = <<s, o>>
  BY DEF LinksSplit
<1>2. LabelsKept /\ id \in LabelIds' /\ AddressIn(labels', id) = <<s, o>>
  BY <1>1, LabelledEffect
<1>3. /\ hiWord.kind = "HI_PTR" /\ hiWord.label = id
      /\ loWord.kind = "LO_PTR" /\ loWord.label = id
      /\ words \in [Loc -> Word]
  BY PointingFields, InvParts DEF WordsType
<1> HIDE DEF hiWord, loWord, id
<1>4. /\ words'[hi] = hiWord /\ words'[lo] = loWord
      /\ \A m \in Loc \ {hi, lo} : words'[m] = words[m]
  BY <1>1, <1>3
<1>5. Lower(hi)' = lo /\ SplitTarget(hi)' = <<s, o>>
  BY <1>1 DEF Lower, SplitTarget
<1>6. WordLinked(hi)'
  BY <1>2, <1>3, <1>4, <1>5 DEF WordLinked, Pointers
<1>7. WordLinked(lo)'
  BY <1>2, <1>3, <1>4 DEF WordLinked, Pointers
<1>8. ASSUME NEW m \in Loc \ {hi, lo} PROVE WordLinked(m)'
  BY <1>1, <1>2, <1>4, WordStaysLinked DEF LinksInv
<1> QED BY <1>6, <1>7, <1>8 DEF LinksInv

LEMMA LinksSymbolKeepsLinks ==
  ASSUME Inv, LinksInv, NEW l \in Loc, NEW kind \in SymbolWordKinds, NEW name \in Names,
         LinksSymbol(l, kind, name)
  PROVE  LinksInv'
<1> DEFINE word == Naming(words[l], kind, name)
<1>1. /\ raw' = raw /\ LabelsKept
      /\ words' = [words EXCEPT ![l] = word]
  BY UnchangedLabelsKept DEF LinksSymbol, SameLabels
<1>2. word.kind = kind /\ word.label = words[l].label /\ words \in [Loc -> Word]
  BY NamingFields, InvParts DEF WordsType
<1> HIDE DEF word
<1>3. words'[l] = word /\ \A m \in Loc : m # l => words'[m] = words[m]
  BY <1>1, <1>2
<1>4. kind \notin Pointers \cup {"PLAIN_DATA"}
  BY DEF SymbolWordKinds, Pointers
<1>5. WordLinked(l)'
  BY <1>2, <1>3, <1>4 DEF WordLinked, Pointers
<1>6. ASSUME NEW m \in Loc, m # l PROVE WordLinked(m)'
  BY <1>1, <1>2, <1>3, <1>4, <1>6, WordStaysLinked DEF LinksInv
<1> QED BY <1>5, <1>6 DEF LinksInv

LEMMA InitLinks == Init => LinksInv
<1> SUFFICES ASSUME Init, NEW l \in Loc PROVE WordLinked(l)
  BY DEF LinksInv
<1> DEFINE plain == [kind |-> "PLAIN_DATA", label |-> NoLabel, symbol |-> ""]
<1>1. plain.kind = "PLAIN_DATA" /\ plain.label = NoLabel
  OBVIOUS
<1>2. words[l] = plain
  <2> HIDE DEF plain
  <2>1. words = [m \in Loc |-> plain]
    BY DEF Init, plain
  <2> QED BY <2>1
<1> HIDE DEF plain
<1> QED BY <1>1, <1>2 DEF WordLinked, Pointers

LEMMA NextKeepsLinks == Inv /\ LinksInv /\ [Next]_vars => LinksInv'
<1> SUFFICES ASSUME Inv, LinksInv, [Next]_vars PROVE LinksInv'
  OBVIOUS
<1>1. CASE UNCHANGED <<raw, words>>
  <2> SUFFICES ASSUME NEW l \in Loc PROVE WordLinked(l)'
    BY DEF LinksInv
  <2> QED BY <1>1, StepKeepsLabels, WordStaysLinked DEF LinksInv
<1>2. CASE ~UNCHANGED <<raw, words>>
  <2>1. /\ \A s, o : ~DataLabelled(s, o)
        /\ \A s, w, o : ~BranchDecoded(s, w, o)
        /\ \A s, w, i : ~OtherDecoded(s, w, i)
        /\ \A s, w, o : ~OperandLabelled(s, w, o)
        /\ ~FindsNothing
    BY <1>2 DEF DataLabelled, BranchDecoded, OtherDecoded, OperandLabelled, FindsNothing, linkVars
  <2> QED BY <2>1, StepCases, LinksPointerKeepsLinks, LinksSplitKeepsLinks,
             LinksSymbolKeepsLinks
<1> QED BY <1>1, <1>2

(***************************************************************************)
(* A linked word denotes what it encodes, whatever was linked, labelled or *)
(* renamed since: pointer_link_word and pointer_link_split_word store ids  *)
(* that no later step makes wrong; a symbol that takes a word over changes *)
(* its kind, never its label.                                              *)
(***************************************************************************)
THEOREM LinksCorrect == Spec => []LinksDenoteTargets
<1>1. Init => Inv /\ LinksInv
  BY InitInv, InitLinks
<1>2. Inv /\ LinksInv /\ [Next]_vars => Inv' /\ LinksInv'
  BY NextKeepsInv, NextKeepsLinks
<1> QED BY <1>1, <1>2, LinksInvSuffices, PTL DEF Spec

-----------------------------------------------------------------------------
(* Pointers are kept.  Words of all ones are not among them: they are no    *)
(* address in a file of segments, and their field for the target segment    *)
(* is 15.                                                                   *)

PointersInv ==
  Version # 4 => \A l \in Loc : words[l].kind \in {"PTR", "HI_PTR"} => ~AllOnes(raw[l])

LEMMA OnesHaveNoSegment ==
  ASSUME NEW r, AllOnes(r)
  PROVE  DestSeg(r) \notin Segs /\ (Version # 4 => ~IsWordPointer(r))
<1>1. Low16(r) = 65535
  <2> DEFINE v == r.value
  <2>1. v \in Int /\ v + 1 = 0
    BY SMT DEF AllOnes
  <2>2. Low16(r) = v % 65536
    BY SMT DEF Low16
  <2> HIDE DEF v
  <2> QED BY <2>1, <2>2, SMT
<1>2. DestSeg(r) = 15
  BY <1>1 DEF DestSeg
<1>3. 15 \notin Segs
  BY Constants DEF Segs
<1>4. Version # 4 => ~IsWordPointer(r)
  <2>1. ~TopByteZero(r)
    BY SMT DEF AllOnes, TopByteZero
  <2> QED BY <2>1 DEF IsWordPointer
<1> QED BY <1>2, <1>3, <1>4

(* What a step does to the words: nothing, or one of these. *)
LEMMA WordSteps ==
  ASSUME Inv, [Next]_vars
  PROVE  \/ UNCHANGED <<raw, words>>
         \/ \E l \in Loc, s \in Segs, o \in Int : LinksPointer(l, s, o)
         \/ \E hi \in Loc, lo \in Loc, s \in Segs, o \in Int : LinksSplit(hi, lo, s, o)
         \/ \E l \in Loc, kind \in SymbolWordKinds, name \in Names : LinksSymbol(l, kind, name)
<1> SUFFICES ASSUME ~UNCHANGED <<raw, words>>
             PROVE  \/ \E l \in Loc, s \in Segs, o \in Int : LinksPointer(l, s, o)
                    \/ \E hi \in Loc, lo \in Loc, s \in Segs, o \in Int : LinksSplit(hi, lo, s, o)
                    \/ \E l \in Loc, kind \in SymbolWordKinds, name \in Names :
                         LinksSymbol(l, kind, name)
  OBVIOUS
<1>1. /\ \A s, o : ~DataLabelled(s, o)
      /\ \A s, w, o : ~BranchDecoded(s, w, o)
      /\ \A s, w, i : ~OtherDecoded(s, w, i)
      /\ \A s, w, o : ~OperandLabelled(s, w, o)
      /\ ~FindsNothing
  BY DEF DataLabelled, BranchDecoded, OtherDecoded, OperandLabelled, FindsNothing, linkVars
<1> QED BY <1>1, StepCases

(* A step keeps what was linked as a pointer, unless a symbol takes over a  *)
(* word of all ones.                                                        *)
LEMMA StepKeepsPointers ==
  ASSUME Inv, LinksInv, PointersInv, [Next]_vars
  PROVE  /\ PointersInv'
         /\ \A l \in Loc : words[l].kind \in Pointers =>
              words'[l] = words[l] \/ (words[l].kind = "LO_PTR" /\ AllOnes(raw[l])) \/ Version = 4
<1>1. words \in [Loc -> Word]
  BY InvParts DEF WordsType
<1>2. CASE UNCHANGED <<raw, words>>
  BY <1>2 DEF PointersInv
<1>3. ASSUME NEW l \in Loc, NEW s \in Segs, NEW o \in Int, LinksPointer(l, s, o)
      PROVE  /\ PointersInv'
             /\ \A m \in Loc : words[m].kind \in Pointers => words'[m] = words[m]
  <2>1. raw' = raw /\ \A m \in Loc : m # l => words'[m] = words[m]
    BY <1>1, <1>3 DEF LinksPointer
  <2>2. words[l].kind = "PLAIN_DATA" /\ (Version # 4 => ~AllOnes(raw[l]))
    BY <1>3, OnesHaveNoSegment DEF LinksPointer
  <2> QED BY <2>1, <2>2 DEF PointersInv, Pointers
<1>4. ASSUME NEW hi \in Loc, NEW lo \in Loc, NEW s \in Segs, NEW o \in Int,
             LinksSplit(hi, lo, s, o)
      PROVE  /\ PointersInv'
             /\ \A m \in Loc : words[m].kind \in Pointers => words'[m] = words[m]
  <2>1. raw' = raw /\ \A m \in Loc \ {hi, lo} : words'[m] = words[m]
    BY <1>1, <1>4 DEF LinksSplit
  <2>2. words[hi].kind = "PLAIN_DATA" /\ words[lo].kind = "PLAIN_DATA" /\ hi # lo
    BY <1>4 DEF LinksSplit
  <2>3. DestSeg(raw[hi]) = s
    BY <1>4 DEF LinksSplit, SplitTarget
  <2>4. ~AllOnes(raw[hi])
    BY <2>3, OnesHaveNoSegment
  <2>5. words'[lo] = Pointing(words[lo], "LO_PTR", LabelId(s, o))
    BY <1>1, <1>4 DEF LinksSplit
  <2>6. words'[lo].kind = "LO_PTR"
    BY <1>1, <2>5, PointingFields
  <2> QED BY <2>1, <2>2, <2>4, <2>6 DEF PointersInv, Pointers
<1>5. ASSUME NEW l \in Loc, NEW kind \in SymbolWordKinds, NEW name \in Names,
             LinksSymbol(l, kind, name)
      PROVE  /\ PointersInv'
             /\ \A m \in Loc : words[m].kind \in Pointers =>
                  \/ words'[m] = words[m]
                  \/ words[m].kind = "LO_PTR" /\ AllOnes(raw[m])
                  \/ Version = 4
  <2>1. raw' = raw /\ \A m \in Loc : m # l => words'[m] = words[m]
    BY <1>1, <1>5 DEF LinksSymbol
  <2>2. words'[l].kind = kind
    BY <1>1, <1>5, NamingFields DEF LinksSymbol
  <2>3. kind \notin Pointers
    BY DEF SymbolWordKinds, Pointers
  <2>4. AllOnes(raw[l]) \/ words[l].kind = "PLAIN_DATA"
    BY <1>5 DEF LinksSymbol
  <2>5. PointersInv'
    BY <2>1, <2>2, <2>3 DEF PointersInv, Pointers
  <2>6. Version # 4 /\ words[l].kind \in Pointers => words[l].kind = "LO_PTR" /\ AllOnes(raw[l])
    BY <2>4 DEF PointersInv, Pointers
  <2> QED BY <2>1, <2>5, <2>6
<1> QED BY <1>2, <1>3, <1>4, <1>5, WordSteps

LEMMA InitPointers == Init => PointersInv
<1> SUFFICES ASSUME Init, NEW l \in Loc PROVE words[l].kind = "PLAIN_DATA"
  BY DEF PointersInv
<1> QED BY DEF Init

(***************************************************************************)
(* In files of segments of every size and content no pointer is lost to a  *)
(* symbol, although symbol_link_word relinks any word: a pair at most      *)
(* loses a lower half that is all ones.                                    *)
(***************************************************************************)
THEOREM PointersStay == Spec => PointersAreKept
<1>1. Init => Inv /\ LinksInv /\ PointersInv
  BY InitInv, InitLinks, InitPointers
<1>2. Inv /\ LinksInv /\ PointersInv /\ [Next]_vars => Inv' /\ LinksInv' /\ PointersInv'
  BY NextKeepsInv, NextKeepsLinks, StepKeepsPointers
<1>3. Inv /\ LinksInv /\ PointersInv /\ [Next]_vars =>
        [Version # 4 =>
           \A l \in Loc :
             /\ words[l].kind \in {"PTR", "HI_PTR"} => words'[l] = words[l]
             /\ words[l].kind = "LO_PTR" /\ ~AllOnes(raw[l]) => words'[l] = words[l]]_vars
  BY StepKeepsPointers DEF Pointers
<1> QED BY <1>1, <1>2, <1>3, PTL DEF Spec, PointersAreKept

-----------------------------------------------------------------------------
(* The decoder meets every word of code once, in order, so it never changes *)
(* what an instruction refers to; the fp pass replaces immediates only.     *)

Early == pc \in {"pointers", "symbols", "find_code", "find_functions"}

InsnsInv ==
  /\ Early => DOMAIN insns = {}
  /\ pc = "disassemble" =>
       \A l \in DOMAIN insns : l[1] < seg \/ (l[1] = seg /\ l[2] < at)
  /\ \A l \in DOMAIN insns : insns[l].arg = "label" <=> insns[l].label # NoLabel

(* The cursor of the decoder goes forward. *)
CursorMoves ==
  /\ Early' => Early
  /\ pc' = "disassemble" =>
       \/ Early
       \/ pc = "disassemble" /\ (seg < seg' \/ (seg' = seg /\ at <= at'))

LEMMA AdvanceMoves ==
  ASSUME CursorType, NEW w \in Nat, at <= w \/ pc # "disassemble", Advance(w)
  PROVE  CursorMoves
  BY DEF Advance, CursorType, CursorMoves, Early

LEMMA EarlyMoves == ASSUME Early PROVE CursorMoves
  BY DEF CursorMoves

LEMMA AbortMoves == ASSUME Abort PROVE CursorMoves
  BY DEF Abort, CursorMoves, Early

LEMMA NextMovesCursor == ASSUME Inv, [Next]_vars PROVE CursorMoves
<1>1. CursorType
  BY InvParts
<1>2. CASE LinkStep
  <2>1. Early
    <3>1. SeekPointer \/ LinkPointer \/ LinkSplitPointer \/ PointersDone => pc = "pointers"
      BY DEF SeekPointer, LinkPointer, LinkSplitPointer, PointersDone
    <3>2. ASSUME NEW s, NEW w, LinkSymbol(s, w) PROVE pc = "symbols"
      BY <3>2 DEF LinkSymbol
    <3>3. SymbolsDone \/ VisitOutside => pc \in {"pointers", "symbols"}
      BY DEF SymbolsDone, VisitOutside
    <3> QED BY <1>2, <3>1, <3>2, <3>3 DEF LinkStep, Early
  <2> QED BY <2>1, EarlyMoves
<1>3. CASE FindCodeSingle \/ NoDataZone \/ CodeBeforeFirstFunction \/ FunctionsDone
  <2>1. Early
    BY <1>3 DEF FindCodeSingle, NoDataZone, CodeBeforeFirstFunction, FunctionsDone, Early
  <2> QED BY <2>1, EarlyMoves
<1>4. ASSUME NEW start, FindCode(start) PROVE CursorMoves
  BY <1>4, EarlyMoves DEF FindCode, Early
<1>5. ASSUME NEW tag, FindFunction(tag) PROVE CursorMoves
  BY <1>5, EarlyMoves DEF FindFunction, Early
<1>6. CASE DecodeBranch \/ DecodeOther \/ FpSkip
  <2>1. Abort \/ Advance(at + 1)
    BY <1>6 DEF DecodeBranch, DecodeOther, FpSkip
  <2>2. at + 1 \in Nat /\ at <= at + 1
    BY <1>1 DEF CursorType
  <2> QED BY <1>1, <2>1, <2>2, AbortMoves, AdvanceMoves
<1>7. CASE DisassemblyDone
  BY <1>1, <1>7, Constants DEF DisassemblyDone, NextSegment, Goto, CursorMoves, Early, CursorType
<1>8. ASSUME NEW f \in Range(functions[seg]), FpLoad(f) \/ FpAdd(f)
      PROVE  CursorMoves
  <2>1. (Abort \/ Advance(at + 1)) /\ pc # "disassemble"
    BY <1>8 DEF FpLoad, FpAdd
  <2>2. at + 1 \in Nat
    BY <1>1 DEF CursorType
  <2> QED BY <1>1, <2>1, <2>2, AbortMoves, AdvanceMoves
<1>9. CASE FpUnknown
  BY <1>9, AbortMoves DEF FpUnknown
<1>10. CASE FpDone
  BY <1>10 DEF FpDone, NextSegment, Goto, CursorMoves, Early
<1>11. CASE OutputStep
  <2>1. pc' \in {"print", "done", "aborted"}
    BY <1>11 DEF OutputStep, SetOrderedLabelNames, PrintDisassembly, Abort, Goto
  <2> QED BY <2>1 DEF CursorMoves, Early
<1>12. CASE UNCHANGED vars
  <2>1. pc' = pc /\ seg' = seg /\ at' = at /\ at \in Nat
    BY <1>1, <1>12 DEF vars, cursor, CursorType
  <2> QED BY <2>1 DEF CursorMoves, Early
<1>13. CASE CodeStep
  BY <1>3, <1>4, <1>5, <1>6, <1>7, <1>8, <1>9, <1>10, <1>13 DEF CodeStep
<1> QED BY <1>2, <1>11, <1>12, <1>13 DEF Next, Finished

LEMMA NoLabelNoId == ASSUME Inv PROVE NoLabel \notin LabelIds /\ NoLabel \notin LabelIds'
  BY DEF NoLabel, LabelIds

(* Decoding the word at the cursor. *)
LEMMA SetInsnKeepsInsns ==
  ASSUME Inv, InsnsInv, pc = "disassemble", pc' = pc, seg' = seg, at' = at + 1,
         NEW i, i.arg = "label" <=> i.label # NoLabel, SetInsn(<<seg, at>>, i)
  PROVE  InsnsInv' /\ <<seg, at>> \notin DOMAIN insns
<1> DEFINE l == <<seg, at>>
<1>1. /\ DOMAIN insns' = DOMAIN insns \cup {l}
      /\ \A x \in DOMAIN insns' : insns'[x] = IF x = l THEN i ELSE insns[x]
  BY DEF SetInsn
<1>2. seg \in Nat /\ at \in Nat
  BY InvParts, Constants DEF CursorType
<1>3. \A x \in DOMAIN insns : x[1] \in Nat /\ x[2] \in Nat
  BY InvParts, Constants DEF InsnsType
<1>4. l \notin DOMAIN insns
  <2>1. l \in DOMAIN insns => l[1] < seg \/ (l[1] = seg /\ l[2] < at)
    BY DEF InsnsInv
  <2>2. l[1] = seg /\ l[2] = at
    OBVIOUS
  <2> HIDE DEF l
  <2> QED BY <1>2, <2>1, <2>2
<1>5. ASSUME NEW x \in DOMAIN insns'
      PROVE  /\ x[1] < seg \/ (x[1] = seg /\ x[2] < at + 1)
             /\ insns'[x].arg = "label" <=> insns'[x].label # NoLabel
  <2>1. CASE x = l
    <3>1. l[1] = seg /\ l[2] = at
      OBVIOUS
    <3>2. insns'[l] = i
      BY <1>1
    <3> HIDE DEF l
    <3> QED BY <1>2, <2>1, <3>1, <3>2
  <2>2. CASE x # l
    <3>1. x \in DOMAIN insns /\ insns'[x] = insns[x]
      BY <1>1, <2>2
    <3> HIDE DEF l
    <3> QED BY <1>2, <1>3, <3>1 DEF InsnsInv
  <2> QED BY <2>1, <2>2
<1>6. InsnsInv'
  BY <1>5 DEF InsnsInv, Early
<1> QED BY <1>4, <1>6

LEMMA BranchDecodedInsn ==
  ASSUME Inv, InsnsInv, NEW s \in Segs, NEW w \in Nat, NEW o \in Int, BranchDecoded(s, w, o)
  PROVE  InsnsInv' /\ <<s, w>> \notin DOMAIN insns
<1> DEFINE id == LabelId(s, o)
           i == Insn("label", id)
<1>1. /\ pc = "disassemble" /\ pc' = pc /\ seg' = seg /\ at' = at + 1
      /\ s = seg /\ w = at /\ SetInsn(<<s, w>>, i) /\ Labelled(s, o)
  BY DEF BranchDecoded, Advance
<1>2. id # NoLabel
  BY <1>1, LabelledEffect, NoLabelNoId
<1>3. i.arg = "label" /\ i.label = id
  BY DEF Insn
<1> HIDE DEF i, id
<1> QED BY <1>1, <1>2, <1>3, SetInsnKeepsInsns

LEMMA OtherDecodedInsn ==
  ASSUME Inv, LinksInv, InsnsInv, NEW s \in Segs, NEW w \in Nat, NEW i \in Operand,
         <<s, w>> \in Loc, OtherDecoded(s, w, i)
  PROVE  InsnsInv' /\ <<s, w>> \notin DOMAIN insns /\ i.label \in LabelIds \cup {NoLabel}
<1>1. /\ pc = "disassemble" /\ pc' = pc /\ seg' = seg /\ at' = at + 1
      /\ s = seg /\ w = at /\ SetInsn(<<s, w>>, i)
  BY DEF OtherDecoded, Advance
<1>2. IF i.arg = "label" THEN i.label \in LabelIds ELSE i.label = NoLabel
  BY DEF OtherDecoded, LinksInv, WordLinked, Pointers
<1>3. i.arg = "label" <=> i.label # NoLabel
  BY <1>2, NoLabelNoId
<1> QED BY <1>1, <1>2, <1>3, SetInsnKeepsInsns

LEMMA OperandLabelledInsn ==
  ASSUME Inv, InsnsInv, NEW s \in Segs, NEW w \in Nat, NEW o \in Int, OperandLabelled(s, w, o)
  PROVE  InsnsInv' /\ (<<s, w>> \in DOMAIN insns => insns[<<s, w>>].label = NoLabel)
<1> DEFINE l == <<s, w>>
           id == LabelId(s, o)
           i == Insn("label", id)
<1>1. /\ pc = "fp_links" /\ pc' = pc /\ insns[l].arg = "imm" /\ Labelled(s, o)
      /\ insns' = [insns EXCEPT ![l] = i]
  BY DEF OperandLabelled, Advance
<1>2. id # NoLabel
  BY <1>1, LabelledEffect, NoLabelNoId
<1>3. i.arg = "label" /\ i.label = id
  BY DEF Insn
<1> HIDE DEF i, id, l
<1>4. /\ DOMAIN insns' = DOMAIN insns
      /\ \A x \in DOMAIN insns : insns'[x] = IF x = l THEN i ELSE insns[x]
  BY <1>1
<1>5. InsnsInv'
  BY <1>1, <1>2, <1>3, <1>4 DEF InsnsInv, Early
<1>6. l \in DOMAIN insns => insns[l].label = NoLabel
  BY <1>1 DEF InsnsInv
<1> QED BY <1>5, <1>6 DEF l

LEMMA InitInsns == Init => InsnsInv
<1> SUFFICES ASSUME Init PROVE InsnsInv
  OBVIOUS
<1>1. DOMAIN insns = {}
  BY DEF Init
<1> QED BY <1>1 DEF InsnsInv

LEMMA NextKeepsInsns == Inv /\ LinksInv /\ InsnsInv /\ [Next]_vars => InsnsInv'
<1> SUFFICES ASSUME Inv, LinksInv, InsnsInv, [Next]_vars PROVE InsnsInv'
  OBVIOUS
<1>1. CASE insns' = insns
  <2>1. CursorMoves
    BY NextMovesCursor
  <2>2. seg \in Nat /\ at \in Nat /\ seg' \in Nat /\ at' \in Nat
    <3>1. CursorType /\ CursorType'
      BY NextKeepsInv DEF Inv, TypeOK, CursorType
    <3> QED BY <3>1, Constants DEF CursorType
  <2>3. \A l \in DOMAIN insns : l[1] \in Nat /\ l[2] \in Nat
    BY InvParts, Constants DEF InsnsType
  <2> QED BY <1>1, <2>1, <2>2, <2>3 DEF InsnsInv, CursorMoves
<1>2. CASE insns' # insns
  <2>1. /\ \A l, s, o : ~LinksPointer(l, s, o)
        /\ \A hi, lo, s, o : ~LinksSplit(hi, lo, s, o)
        /\ \A l, kind, name : ~LinksSymbol(l, kind, name)
        /\ \A s, o : ~DataLabelled(s, o)
        /\ ~FindsNothing
    BY <1>2 DEF LinksPointer, LinksSplit, LinksSymbol, DataLabelled, FindsNothing
  <2> QED BY <2>1, StepCases, BranchDecodedInsn, OtherDecodedInsn, OperandLabelledInsn
<1> QED BY <1>1, <1>2

-----------------------------------------------------------------------------
(* The file implements CrossReferences.                                     *)

(* A site refers to what it referred to; a site turns out to refer to label *)
(* id; and every site does one or the other.                                *)
SiteStays(x) == /\ x \in Resolved' <=> x \in Resolved
                /\ x \in Resolved => SiteLabel(x)' = SiteLabel(x)

SiteFound(x, id) == x \notin Resolved /\ x \in Resolved' /\ SiteLabel(x)' = id

Finds(id) == \A x \in Sites : SiteStays(x) \/ SiteFound(x, id)

LEMMA ResolvedLabels ==
  ASSUME Inv, NEW x \in Resolved
  PROVE  x \in Sites /\ SiteLabel(x) \in LabelIds
<1>1. x \in Sites /\ x[1] \in {"word", "insn"} /\ x[2] \in Loc
  BY DEF Resolved, Sites
<1>2. CASE x[1] = "word"
  <2>1. words[x[2]] \in Word
    BY <1>1, InvParts DEF WordsType
  <2> QED BY <1>1, <1>2, <2>1 DEF Resolved, SiteLabel, Word
<1>3. CASE x[1] = "insn"
  <2>1. insns[x[2]] \in Operand
    BY <1>3, InvParts DEF Resolved, InsnsType
  <2> QED BY <1>1, <1>3, <2>1 DEF Resolved, SiteLabel, Operand
<1> QED BY <1>1, <1>2, <1>3

(* Sites of words and of instructions that a step leaves alone. *)
LEMMA WordSite ==
  ASSUME NEW l \in Loc, words'[l].label = words[l].label
  PROVE  SiteStays(<<"word", l>>)
<1> DEFINE x == <<"word", l>>
<1>1. x \in Sites /\ x[1] = "word" /\ x[2] = l
  BY DEF Sites
<1> HIDE DEF x
<1>2. SiteLabel(x) = words[l].label /\ SiteLabel(x)' = words'[l].label
  BY <1>1 DEF SiteLabel
<1> QED BY <1>1, <1>2 DEF SiteStays, Resolved, x

LEMMA WordFound ==
  ASSUME NEW l \in Loc, NEW id, id # NoLabel, words[l].label = NoLabel, words'[l].label = id
  PROVE  SiteFound(<<"word", l>>, id)
<1> DEFINE x == <<"word", l>>
<1>1. x \in Sites /\ x[1] = "word" /\ x[2] = l
  BY DEF Sites
<1> HIDE DEF x
<1>2. SiteLabel(x) = words[l].label /\ SiteLabel(x)' = words'[l].label
  BY <1>1 DEF SiteLabel
<1> QED BY <1>1, <1>2 DEF SiteFound, Resolved, x

LEMMA InsnSite ==
  ASSUME NEW l \in Loc,
         l \in DOMAIN insns' <=> l \in DOMAIN insns,
         l \in DOMAIN insns => insns'[l] = insns[l]
  PROVE  SiteStays(<<"insn", l>>)
<1> DEFINE x == <<"insn", l>>
<1>1. x \in Sites /\ x[1] = "insn" /\ x[2] = l
  BY DEF Sites
<1> HIDE DEF x
<1>2. SiteLabel(x) = insns[l].label /\ SiteLabel(x)' = insns'[l].label
  BY <1>1 DEF SiteLabel
<1> QED BY <1>1, <1>2 DEF SiteStays, Resolved, x

(* An instruction is set that had no label, if it was set before. *)
LEMMA InsnFound ==
  ASSUME NEW l \in Loc, l \in DOMAIN insns => insns[l].label = NoLabel,
         NEW id, l \in DOMAIN insns', insns'[l].label \in {id, NoLabel}
  PROVE  SiteStays(<<"insn", l>>) \/ SiteFound(<<"insn", l>>, id)
<1> DEFINE x == <<"insn", l>>
<1>1. x \in Sites /\ x[1] = "insn" /\ x[2] = l
  BY DEF Sites
<1> HIDE DEF x
<1>2. SiteLabel(x) = insns[l].label /\ SiteLabel(x)' = insns'[l].label
  BY <1>1 DEF SiteLabel
<1> QED BY <1>1, <1>2 DEF SiteStays, SiteFound, Resolved, x

LEMMA SitesOfTwoKinds ==
  ASSUME NEW id,
         \A l \in Loc : SiteStays(<<"word", l>>) \/ SiteFound(<<"word", l>>, id),
         \A l \in Loc : SiteStays(<<"insn", l>>) \/ SiteFound(<<"insn", l>>, id)
  PROVE  Finds(id)
<1> SUFFICES ASSUME NEW x \in Sites PROVE SiteStays(x) \/ SiteFound(x, id)
  BY DEF Finds
<1>1. PICK l \in Loc : x = <<"word", l>> \/ x = <<"insn", l>>
  BY DEF Sites
<1> QED BY <1>1

(***************************************************************************)
(* The steps of the two specifications.                                    *)
(***************************************************************************)
LEMMA FindingResolves ==
  ASSUME Inv, Inv', LabelsKept, NEW id, LabelIds' = LabelIds \cup {id}, Finds(id),
         ~Frozen, ~Frozen'
  PROVE  References!Next
<1> DEFINE a == AddressIn(labels', id)
           address(x) == AddressOf(SiteLabel(x))
<1>1. \A x \in Resolved : x \in Sites /\ SiteLabel(x) \in LabelIds
  BY ResolvedLabels
<1>2. \A x \in Resolved' : x \in Sites
  BY DEF Resolved, Sites
<1>3. /\ \A k : AddressOf(k) = AddressIn(labels, k)
      /\ \A x : address(x)' = AddressIn(labels', SiteLabel(x)')
  BY DEF AddressOf, AddressIn, LabelSeg, LabelOffset
<1>4. Resolved \subseteq Resolved'
  BY <1>1 DEF Finds, SiteStays, SiteFound
<1>5. ASSUME NEW x \in Resolved'
      PROVE  address(x)' = IF x \in Resolved THEN address(x) ELSE a
  <2>1. SiteStays(x) \/ SiteFound(x, id)
    BY <1>2 DEF Finds
  <2>2. CASE x \in Resolved
    <3>1. SiteLabel(x)' = SiteLabel(x) /\ SiteLabel(x) \in LabelIds
      BY <1>1, <2>1, <2>2 DEF SiteStays, SiteFound
    <3> QED BY <1>3, <2>2, <3>1 DEF LabelsKept
  <2>3. CASE x \notin Resolved
    <3>1. SiteLabel(x)' = id
      BY <2>1, <2>3 DEF SiteStays, SiteFound
    <3> QED BY <1>3, <2>3, <3>1
  <2> QED BY <2>2, <2>3
<1>6. {AddressOf(k) : k \in LabelIds}' = {AddressOf(k) : k \in LabelIds} \cup {a}
  <2>1. \A k \in LabelIds : AddressIn(labels', k) = AddressIn(labels, k)
    BY DEF LabelsKept
  <2>2. {AddressOf(k) : k \in LabelIds}' = {AddressIn(labels', k) : k \in LabelIds'}
    BY DEF AddressOf, AddressIn, LabelSeg, LabelOffset
  <2>3. {AddressOf(k) : k \in LabelIds} = {AddressIn(labels, k) : k \in LabelIds}
    BY <1>3
  <2> HIDE DEF a
  <2>4. {AddressIn(labels', k) : k \in LabelIds'} = {AddressIn(labels, k) : k \in LabelIds} \cup {a}
    BY <2>1 DEF a
  <2> QED BY <2>2, <2>3, <2>4
<1> HIDE DEF a, address
<1>7. [x \in Resolved |-> address(x)]' =
        [x \in Resolved' |-> IF x \in Resolved THEN address(x) ELSE a]
  BY <1>5
<1>8. References!Resolve(a)
  BY <1>4, <1>6, <1>7 DEF References!Resolve, Frozen, address
<1>9. a \in {AddressOf(k) : k \in LabelIds}'
  BY <1>6
<1> QED BY <1>8, <1>9 DEF References!Next

LEMMA FindingNothingStutters ==
  ASSUME Inv, SameLabels, \A x \in Sites : SiteStays(x), Frozen => Frozen'
  PROVE  [References!Next]_(References!vars)
<1> DEFINE address(x) == AddressOf(SiteLabel(x))
<1>1. /\ Resolved' = Resolved
      /\ \A x \in Resolved : SiteLabel(x)' = SiteLabel(x)
  <2>1. Resolved \subseteq Sites /\ Resolved' \subseteq Sites
    BY DEF Resolved, Sites
  <2> QED BY <2>1 DEF SiteStays
<1>2. /\ LabelIds' = LabelIds
      /\ \A k \in LabelIds : AddressIn(labels', k) = AddressIn(labels, k)
  BY DEF SameLabels, LabelsKept
<1>3. \A k : AddressOf(k) = AddressIn(labels, k)
  BY DEF AddressOf, AddressIn, LabelSeg, LabelOffset
<1>4. [x \in Resolved |-> address(x)]' = [x \in Resolved |-> address(x)]
  <2>1. \A x : address(x)' = AddressIn(labels', SiteLabel(x)')
    BY DEF AddressOf, AddressIn, LabelSeg, LabelOffset
  <2>2. \A x \in Resolved : address(x)' = address(x)
    BY <1>1, <1>2, <1>3, <2>1, ResolvedLabels
  <2> HIDE DEF address
  <2> QED BY <1>1, <2>2
<1>5. {AddressOf(k) : k \in LabelIds}' = {AddressOf(k) : k \in LabelIds}
  <2>1. {AddressOf(k) : k \in LabelIds}' = {AddressIn(labels', k) : k \in LabelIds'}
    BY DEF AddressOf, AddressIn, LabelSeg, LabelOffset
  <2>2. {AddressOf(k) : k \in LabelIds} = {AddressIn(labels, k) : k \in LabelIds}
    BY <1>3
  <2> QED BY <1>2, <2>1, <2>2
<1>6. CASE Frozen' = Frozen
  BY <1>4, <1>5, <1>6 DEF References!vars, Frozen, address
<1>7. CASE ~Frozen /\ Frozen'
  BY <1>4, <1>5, <1>7 DEF References!Next, References!Freeze, Frozen, address
<1> QED BY <1>6, <1>7 DEF Frozen

LEMMA LinksPointerFinds ==
  ASSUME Inv, LinksInv, NEW l \in Loc, NEW s \in Segs, NEW o \in Int, LinksPointer(l, s, o)
  PROVE  Finds(LabelId(s, o))
<1> DEFINE id == LabelId(s, o)
           word == Pointing(words[l], "PTR", id)
<1>1. /\ words' = [words EXCEPT ![l] = word] /\ insns' = insns
      /\ words[l].kind = "PLAIN_DATA" /\ Labelled(s, o)
  BY DEF LinksPointer
<1>2. word.label = id /\ words \in [Loc -> Word]
  BY PointingFields, InvParts DEF WordsType
<1>3. id # NoLabel
  BY <1>1, LabelledEffect, NoLabelNoId
<1> HIDE DEF word, id
<1>4. words[l].label = NoLabel /\ words'[l].label = id
  BY <1>1, <1>2 DEF LinksInv, WordLinked
<1>5. ASSUME NEW m \in Loc
      PROVE  SiteStays(<<"word", m>>) \/ SiteFound(<<"word", m>>, id)
  <2>1. CASE m = l
    BY <1>3, <1>4, <2>1, WordFound
  <2>2. CASE m # l
    <3>1. words'[m].label = words[m].label
      BY <1>1, <1>2, <2>2
    <3> QED BY <3>1, WordSite
  <2> QED BY <2>1, <2>2
<1>6. \A m \in Loc : SiteStays(<<"insn", m>>)
  BY <1>1, InsnSite
<1> QED BY <1>5, <1>6, SitesOfTwoKinds DEF id

LEMMA LinksSplitFinds ==
  ASSUME Inv, LinksInv, NEW hi \in Loc, NEW lo \in Loc, NEW s \in Segs, NEW o \in Int,
         LinksSplit(hi, lo, s, o)
  PROVE  Finds(LabelId(s, o))
<1> DEFINE id == LabelId(s, o)
           hiWord == Pointing(words[hi], "HI_PTR", id)
           loWord == Pointing(words[lo], "LO_PTR", id)
<1>1. /\ words' = [words EXCEPT ![hi] = hiWord, ![lo] = loWord] /\ insns' = insns
      /\ words[hi].kind = "PLAIN_DATA" /\ words[lo].kind = "PLAIN_DATA"
      /\ Labelled(s, o)
  BY DEF LinksSplit
<1>2. hiWord.label = id /\ loWord.label = id /\ words \in [Loc -> Word]
  BY PointingFields, InvParts DEF WordsType
<1>3. id # NoLabel
  BY <1>1, LabelledEffect, NoLabelNoId
<1> HIDE DEF hiWord, loWord, id
<1>4. \A m \in {hi, lo} : words[m].label = NoLabel /\ words'[m].label = id
  BY <1>1, <1>2 DEF LinksInv, WordLinked
<1>5. ASSUME NEW m \in Loc
      PROVE  SiteStays(<<"word", m>>) \/ SiteFound(<<"word", m>>, id)
  <2>1. CASE m \in {hi, lo}
    BY <1>3, <1>4, <2>1, WordFound
  <2>2. CASE m \notin {hi, lo}
    <3>1. words'[m].label = words[m].label
      BY <1>1, <1>2, <2>2
    <3> QED BY <3>1, WordSite
  <2> QED BY <2>1, <2>2
<1>6. \A m \in Loc : SiteStays(<<"insn", m>>)
  BY <1>1, InsnSite
<1> QED BY <1>5, <1>6, SitesOfTwoKinds DEF id

(* Naming a symbol leaves the label of the word. *)
LEMMA LinksSymbolFindsNothing ==
  ASSUME Inv, NEW l \in Loc, NEW kind \in SymbolWordKinds, NEW name \in Names,
         LinksSymbol(l, kind, name)
  PROVE  \A x \in Sites : SiteStays(x)
<1> DEFINE word == Naming(words[l], kind, name)
<1>1. words' = [words EXCEPT ![l] = word] /\ insns' = insns
  BY DEF LinksSymbol
<1>2. word.label = words[l].label /\ words \in [Loc -> Word]
  BY NamingFields, InvParts DEF WordsType
<1> HIDE DEF word
<1>3. \A m \in Loc : words'[m].label = words[m].label
  BY <1>1, <1>2
<1>4. \A m \in Loc : SiteStays(<<"word", m>>)
  BY <1>3, WordSite
<1>5. \A m \in Loc : SiteStays(<<"insn", m>>)
  BY <1>1, InsnSite
<1>6. \A x \in Sites : \E m \in Loc : x = <<"word", m>> \/ x = <<"insn", m>>
  BY DEF Sites
<1> QED BY <1>4, <1>5, <1>6

(* One instruction set, no word linked. *)
LEMMA InsnStepFinds ==
  ASSUME UNCHANGED words, NEW l, NEW id,
         l \in DOMAIN insns => insns[l].label = NoLabel,
         l \in DOMAIN insns' => insns'[l].label \in {id, NoLabel},
         \A m \in Loc : m # l => /\ m \in DOMAIN insns' <=> m \in DOMAIN insns
                                 /\ m \in DOMAIN insns => insns'[m] = insns[m],
         l \in DOMAIN insns => l \in DOMAIN insns'
  PROVE  Finds(id)
<1>1. \A m \in Loc : SiteStays(<<"word", m>>)
  BY WordSite
<1>2. ASSUME NEW m \in Loc
      PROVE  SiteStays(<<"insn", m>>) \/ SiteFound(<<"insn", m>>, id)
  <2>1. CASE m # l
    BY <2>1, InsnSite
  <2>2. CASE m = l /\ l \notin DOMAIN insns'
    BY <2>2, InsnSite
  <2>3. CASE m = l /\ l \in DOMAIN insns'
    BY <2>3, InsnFound
  <2> QED BY <2>1, <2>2, <2>3
<1> QED BY <1>1, <1>2, SitesOfTwoKinds

LEMMA BranchDecodedFinds ==
  ASSUME Inv, InsnsInv, NEW s \in Segs, NEW w \in Nat, NEW o \in Int, BranchDecoded(s, w, o)
  PROVE  Finds(LabelId(s, o))
<1> DEFINE l == <<s, w>>
           id == LabelId(s, o)
           i == Insn("label", id)
<1>1. SetInsn(l, i) /\ words' = words /\ i.label = id
  BY DEF BranchDecoded, Insn
<1>2. l \notin DOMAIN insns
  BY BranchDecodedInsn
<1> HIDE DEF l, id, i
<1>3. /\ DOMAIN insns' = DOMAIN insns \cup {l}
      /\ \A x \in DOMAIN insns' : insns'[x] = IF x = l THEN i ELSE insns[x]
  BY <1>1 DEF SetInsn
<1>4. Finds(id)
  BY <1>1, <1>2, <1>3, InsnStepFinds
<1> QED BY <1>4 DEF id

LEMMA OtherDecodedFinds ==
  ASSUME Inv, LinksInv, InsnsInv, NEW s \in Segs, NEW w \in Nat, NEW i \in Operand,
         <<s, w>> \in Loc, OtherDecoded(s, w, i), NEW id, i.label \in {id, NoLabel}
  PROVE  Finds(id)
<1> DEFINE l == <<s, w>>
<1>1. SetInsn(l, i) /\ words' = words
  BY DEF OtherDecoded, linkVars
<1>2. l \notin DOMAIN insns
  BY OtherDecodedInsn
<1> HIDE DEF l
<1>3. /\ DOMAIN insns' = DOMAIN insns \cup {l}
      /\ \A x \in DOMAIN insns' : insns'[x] = IF x = l THEN i ELSE insns[x]
  BY <1>1 DEF SetInsn
<1> QED BY <1>1, <1>2, <1>3, InsnStepFinds

LEMMA OperandLabelledFinds ==
  ASSUME Inv, InsnsInv, NEW s \in Segs, NEW w \in Nat, NEW o \in Int, OperandLabelled(s, w, o)
  PROVE  Finds(LabelId(s, o))
<1> DEFINE l == <<s, w>>
           id == LabelId(s, o)
           i == Insn("label", id)
<1>1. insns' = [insns EXCEPT ![l] = i] /\ words' = words /\ i.label = id
  BY DEF OperandLabelled, Insn
<1>2. l \in DOMAIN insns => insns[l].label = NoLabel
  BY OperandLabelledInsn
<1> HIDE DEF l, id, i
<1>3. /\ DOMAIN insns' = DOMAIN insns
      /\ \A x \in DOMAIN insns : insns'[x] = IF x = l THEN i ELSE insns[x]
  BY <1>1
<1>4. Finds(id)
  BY <1>1, <1>2, <1>3, InsnStepFinds
<1> QED BY <1>4 DEF id

LEMMA NextSimulates ==
  ASSUME Inv, Inv', LinksInv, InsnsInv, [Next]_vars
  PROVE  [References!Next]_(References!vars)
<1>1. \A s \in Segs, o \in Int :
        Labelled(s, o) => LabelsKept /\ LabelIds' = LabelIds \cup {LabelId(s, o)}
  BY LabelledEffect
<1>2. ASSUME NEW l \in Loc, NEW s \in Segs, NEW o \in Int, LinksPointer(l, s, o)
      PROVE  References!Next
  <2>1. Labelled(s, o) /\ ~Frozen /\ ~Frozen'
    BY <1>2 DEF LinksPointer, Frozen
  <2> QED BY <1>1, <1>2, <2>1, LinksPointerFinds, FindingResolves
<1>3. ASSUME NEW hi \in Loc, NEW lo \in Loc, NEW s \in Segs, NEW o \in Int,
             LinksSplit(hi, lo, s, o)
      PROVE  References!Next
  <2>1. Labelled(s, o) /\ ~Frozen /\ ~Frozen'
    BY <1>3 DEF LinksSplit, Frozen
  <2> QED BY <1>1, <1>3, <2>1, LinksSplitFinds, FindingResolves
<1>4. ASSUME NEW l \in Loc, NEW kind \in SymbolWordKinds, NEW name \in Names,
             LinksSymbol(l, kind, name)
      PROVE  [References!Next]_(References!vars)
  <2>1. SameLabels /\ ~Frozen
    BY <1>4, UnchangedLabelsKept DEF LinksSymbol, Frozen
  <2> QED BY <1>4, <2>1, LinksSymbolFindsNothing, FindingNothingStutters
<1>5. ASSUME NEW s \in Segs, NEW o \in Int, DataLabelled(s, o)
      PROVE  References!Next
  <2>1. Labelled(s, o) /\ ~Frozen /\ ~Frozen' /\ UNCHANGED <<words, insns>>
    BY <1>5 DEF DataLabelled, Frozen
  <2>2. Finds(LabelId(s, o))
    BY <2>1 DEF Finds, SiteStays, Resolved, SiteLabel
  <2> QED BY <1>1, <2>1, <2>2, FindingResolves
<1>6. ASSUME NEW s \in Segs, NEW w \in Nat, NEW o \in Int, BranchDecoded(s, w, o)
      PROVE  References!Next
  <2>1. Labelled(s, o) /\ ~Frozen /\ ~Frozen'
    BY <1>6 DEF BranchDecoded, Advance, Frozen
  <2> QED BY <1>1, <1>6, <2>1, BranchDecodedFinds, FindingResolves
<1>7. ASSUME NEW s \in Segs, NEW w \in Nat, NEW i \in Operand, <<s, w>> \in Loc,
             OtherDecoded(s, w, i)
      PROVE  [References!Next]_(References!vars)
  <2>1. SameLabels /\ ~Frozen /\ ~Frozen'
    BY <1>7, UnchangedLabelsKept DEF OtherDecoded, linkVars, Advance, Frozen
  <2>2. CASE i.label \in LabelIds
    <3>1. LabelsKept /\ LabelIds' = LabelIds \cup {i.label}
      BY <2>1, <2>2 DEF SameLabels
    <3> QED BY <1>7, <2>1, <3>1, OtherDecodedFinds, FindingResolves
  <2>3. CASE i.label = NoLabel
    <3>1. Finds(NoLabel)
      BY <1>7, <2>3, OtherDecodedFinds
    <3>2. \A x : ~SiteFound(x, NoLabel)
      BY DEF SiteFound, Resolved
    <3> QED BY <2>1, <3>1, <3>2, FindingNothingStutters DEF Finds
  <2> QED BY <1>7, <2>2, <2>3, OtherDecodedInsn
<1>8. ASSUME NEW s \in Segs, NEW w \in Nat, NEW o \in Int, OperandLabelled(s, w, o)
      PROVE  References!Next
  <2>1. Labelled(s, o) /\ ~Frozen /\ ~Frozen'
    BY <1>8 DEF OperandLabelled, Advance, Frozen
  <2> QED BY <1>1, <1>8, <2>1, OperandLabelledFinds, FindingResolves
<1>9. CASE FindsNothing
  <2>1. SameLabels /\ (Frozen => Frozen') /\ UNCHANGED <<words, insns>>
    BY <1>9 DEF FindsNothing
  <2>2. \A x \in Sites : SiteStays(x)
    BY <2>1 DEF SiteStays, Resolved, SiteLabel
  <2> QED BY <2>1, <2>2, FindingNothingStutters
<1> QED BY <1>2, <1>3, <1>4, <1>5, <1>6, <1>7, <1>8, <1>9, StepCases

LEMMA InitSimulates == Init => References!Init
<1> SUFFICES ASSUME Init PROVE References!Init
  OBVIOUS
<1>1. Resolved = {}
  <2>1. DOMAIN insns = {} /\ \A l \in Loc : words[l].label = NoLabel
    BY InitLinks DEF Init, LinksInv, WordLinked
  <2> QED BY <2>1 DEF Resolved, Sites, SiteLabel
<1>2. LabelIds = {}
  <2>1. Len(labels) = 0
    BY EmptySeq DEF Init
  <2> QED BY <2>1 DEF LabelIds
<1>3. ~(pc \in {"print", "done", "aborted"})
  BY DEF Init
<1> QED BY <1>1, <1>2, <1>3 DEF References!Init

(***************************************************************************)
(* The object file implements the abstract specification of its linking    *)
(* information: every step of every pass finds one labelled address and    *)
(* the sites that refer to it, stops finding, or changes nothing a reader  *)
(* of the listing can see.                                                 *)
(***************************************************************************)
THEOREM FileImplementsReferences == Spec => ImplementsCrossReferences
<1>1. Init => Inv /\ LinksInv /\ InsnsInv /\ References!Init
  BY InitInv, InitLinks, InitInsns, InitSimulates
<1>2. Inv /\ LinksInv /\ InsnsInv /\ [Next]_vars =>
        Inv' /\ LinksInv' /\ InsnsInv' /\ [References!Next]_(References!vars)
  BY NextKeepsInv, NextKeepsLinks, NextKeepsInsns, NextSimulates
<1> QED BY <1>1, <1>2, PTL DEF Spec, ImplementsCrossReferences, References!Spec

LEMMA ReferencesKeepLabels ==
  ASSUME References!NoDanglingReference, [References!Next]_(References!vars)
  PROVE  References!NoDanglingReference'
<1> DEFINE refs == [x \in Resolved |-> AddressOf(SiteLabel(x))]
<1> DEFINE targets == {AddressOf(id) : id \in LabelIds}
<1>1. \A x \in DOMAIN refs : refs[x] \in targets
  BY DEF References!NoDanglingReference
<1>2. ASSUME NEW a \in targets', References!Resolve(a)
      PROVE  \A x \in DOMAIN refs' : refs'[x] \in targets'
  <2>1. /\ refs' = [x \in DOMAIN refs' |-> IF x \in DOMAIN refs THEN refs[x] ELSE a]
        /\ targets' = targets \cup {a}
    BY <1>2 DEF References!Resolve
  <2> HIDE DEF refs, targets
  <2> TAKE x \in DOMAIN refs'
  <2>2. refs'[x] = IF x \in DOMAIN refs THEN refs[x] ELSE a
    BY <2>1
  <2> QED
    BY <1>1, <2>1, <2>2
<1>3. ASSUME References!Freeze \/ UNCHANGED References!vars
      PROVE  \A x \in DOMAIN refs' : refs'[x] \in targets'
  <2>1. refs' = refs /\ targets' = targets
    BY <1>3 DEF References!Freeze, References!vars
  <2> HIDE DEF refs, targets
  <2> QED
    BY <1>1, <2>1
<1>4. \A x \in DOMAIN refs' : refs'[x] \in targets'
  <2>1. (\E a \in targets' : References!Resolve(a)) \/ References!Freeze \/ UNCHANGED References!vars
    BY DEF References!Next
  <2> HIDE DEF refs, targets
  <2> QED
    BY <1>2, <1>3, <2>1
<1> QED
  BY <1>4 DEF References!NoDanglingReference

(***************************************************************************)
(* Every place of the file that was found to refer to an address has a     *)
(* label to print, in every state: the label lookup of                     *)
(* append_word_to_string and of the disassembly cannot fail.               *)
(***************************************************************************)
THEOREM NoReferenceDangles == Spec => []References!NoDanglingReference
<1>1. References!Init => References!NoDanglingReference
  BY DEF References!Init, References!NoDanglingReference
<1>2. References!NoDanglingReference /\ [References!Next]_(References!vars)
        => References!NoDanglingReference'
  BY ReferencesKeepLabels
<1> QED
  BY <1>1, <1>2, FileImplementsReferences, PTL DEF ImplementsCrossReferences, References!Spec

-----------------------------------------------------------------------------
(***************************************************************************)
(* Code: functions, instructions and label names.                          *)
(***************************************************************************)

-----------------------------------------------------------------------------
(* Names: the number of labels before a label orders them.                  *)

LEMMA LabelsType ==
  ASSUME Inv
  PROVE  /\ labels \in Seq(LabelRecord) /\ Len(labels) \in Nat /\ DOMAIN labels = 1 .. Len(labels)
         /\ \A i \in DOMAIN labels : labels[i].seg \in Int /\ labels[i].offset \in Int
<1>1. labels \in Seq(LabelRecord)
  BY InvParts DEF LabelTableType, LabelRecord
<1>2. \A i \in DOMAIN labels : labels[i] \in LabelRecord
  BY <1>1
<1>3. \A r \in LabelRecord : r.seg \in Int /\ r.offset \in Int
  <2> TAKE r \in LabelRecord
  <2>1. r.seg \in Segs /\ r.offset \in Int
    BY DEF LabelRecord
  <2>2. \A n \in Segs : n \in Int
    BY Constants
  <2> QED BY <2>1, <2>2
<1> QED BY <1>1, <1>2, <1>3

(* No two labels have one address, so one of them is before the other. *)
LEMMA LabelsAreOrdered ==
  ASSUME Inv, NEW i \in DOMAIN labels, NEW j \in DOMAIN labels, i # j
  PROVE  Before(i, j) \/ Before(j, i)
<1>1. i - 1 \in LabelIds /\ j - 1 \in LabelIds /\ (i - 1) + 1 = i /\ (j - 1) + 1 = j
  BY LabelsType DEF LabelIds
<1>2. AddressOf(i - 1) # AddressOf(j - 1)
  <2>1. labelAt[AddressOf(i - 1)] = i - 1 /\ labelAt[AddressOf(j - 1)] = j - 1
    BY <1>1, InvParts DEF LabelTable
  <2>2. i - 1 # j - 1
    BY <1>1, LabelsType
  <2> QED BY <2>1, <2>2
<1>3. <<labels[i].seg, labels[i].offset>> # <<labels[j].seg, labels[j].offset>>
  BY <1>1, <1>2 DEF AddressOf, LabelSeg, LabelOffset
<1> QED BY <1>3, LabelsType DEF Before

LEMMA BeforeIsAnOrder ==
  ASSUME Inv, NEW i \in DOMAIN labels, NEW j \in DOMAIN labels, Before(i, j)
  PROVE  /\ ~Before(i, i) /\ ~Before(j, i)
         /\ \A k \in DOMAIN labels : Before(k, i) => Before(k, j)
  BY LabelsType DEF Before

LEMMA EarlierGrows ==
  ASSUME Inv, NEW i \in DOMAIN labels, NEW j \in DOMAIN labels, Before(i, j)
  PROVE  Cardinality(Earlier(i)) < Cardinality(Earlier(j))
<1>1. /\ IsFiniteSet(Earlier(i)) /\ Cardinality(Earlier(i)) \in Nat
      /\ IsFiniteSet(Earlier(j)) /\ Cardinality(Earlier(j)) \in Nat
  BY EarlierFinite, InvParts
<1>2. i \notin Earlier(i) /\ Earlier(i) \cup {i} \in SUBSET Earlier(j)
  BY BeforeIsAnOrder DEF Earlier
<1>3. Cardinality(Earlier(i) \cup {i}) = Cardinality(Earlier(i)) + 1
  BY <1>1, <1>2, FS_AddElement
<1>4. Cardinality(Earlier(i) \cup {i}) <= Cardinality(Earlier(j))
  BY <1>1, <1>2, FS_Subset
<1> QED BY <1>1, <1>3, <1>4

LEMMA EarlierBound ==
  ASSUME Inv, NEW i \in DOMAIN labels
  PROVE  Cardinality(Earlier(i)) < Len(labels)
<1>1. IsFiniteSet(Earlier(i)) /\ Cardinality(Earlier(i)) \in Nat
  BY EarlierFinite, InvParts
<1>2. i \notin Earlier(i) /\ Earlier(i) \cup {i} \in SUBSET DOMAIN labels
  BY LabelsType DEF Earlier, Before
<1>3. Cardinality(Earlier(i) \cup {i}) = Cardinality(Earlier(i)) + 1
  BY <1>1, <1>2, FS_AddElement
<1>4. IsFiniteSet(DOMAIN labels) /\ Cardinality(DOMAIN labels) = Len(labels)
  BY LabelsType, FS_Interval
<1>5. Cardinality(Earlier(i) \cup {i}) <= Cardinality(DOMAIN labels)
  BY <1>2, <1>4, FS_Subset
<1> QED BY <1>1, <1>3, <1>4, <1>5, LabelsType

(* Distinct labels get distinct numbers from 1 to the number of labels, so *)
(* every number is given.                                                   *)
LEMMA NumbersAreGiven ==
  ASSUME Inv
  PROVE  {1 + Cardinality(Earlier(i)) : i \in DOMAIN labels} = 1 .. Len(labels)
<1> DEFINE S == DOMAIN labels
           T == 1 .. Len(labels)
           f == [i \in S |-> 1 + Cardinality(Earlier(i))]
<1>1. S = T /\ IsFiniteSet(T)
  BY LabelsType, FS_Interval
<1>2. \A i \in S : Cardinality(Earlier(i)) \in Nat /\ f[i] \in T
  <2> TAKE i \in S
  <2>1. Cardinality(Earlier(i)) \in Nat /\ Cardinality(Earlier(i)) < Len(labels)
    BY EarlierFinite, EarlierBound, InvParts
  <2> QED BY <2>1, LabelsType
<1>3. ASSUME NEW i \in S, NEW j \in S, f[i] = f[j]
      PROVE  i = j
  <2>1. Cardinality(Earlier(i)) = Cardinality(Earlier(j))
    BY <1>2, <1>3
  <2>2. ~Before(i, j) /\ ~Before(j, i)
    BY <1>2, <2>1, EarlierGrows
  <2> QED BY <2>2, LabelsAreOrdered
<1>4. f \in Injection(S, T)
  BY <1>2, <1>3 DEF Injection, IsInjective
<1>5. f \in Surjection(S, T)
  <2> HIDE DEF S, T, f
  <2> QED BY <1>1, <1>4, FS_Injection
<1>6. \A t \in T : \E i \in S : f[i] = t
  BY <1>5 DEF Surjection
<1> QED BY <1>2, <1>6

LEMMA NamesFromOrder ==
  ASSUME Inv, SetOrderedLabelNames
  PROVE  NamesFollowAddresses'
<1>1. /\ SameAddresses(labels', labels)
      /\ \A i \in 1 .. Len(labels) : labels'[i].name = 1 + Cardinality(Earlier(i))
  BY OrderedNames, InvParts
<1>2. /\ Len(labels') = Len(labels) /\ DOMAIN labels' = DOMAIN labels
      /\ \A i \in DOMAIN labels : labels'[i].seg = labels[i].seg
                                  /\ labels'[i].offset = labels[i].offset
                                  /\ labels'[i].name = 1 + Cardinality(Earlier(i))
  <2>1. labels' \in Seq(LabelRecord) /\ Len(labels') = Len(labels)
    BY <1>1 DEF SameAddresses
  <2> QED BY <1>1, <2>1, LabelsType DEF SameAddresses
<1>3. {labels'[i].name : i \in DOMAIN labels'} = 1 .. Len(labels')
  BY <1>2, NumbersAreGiven
<1>4. ASSUME NEW i \in DOMAIN labels', NEW j \in DOMAIN labels', Before(i, j)'
      PROVE  labels'[i].name < labels'[j].name
  <2>1. Before(i, j)
    BY <1>2, <1>4 DEF Before
  <2>2. /\ Cardinality(Earlier(i)) < Cardinality(Earlier(j))
        /\ Cardinality(Earlier(i)) \in Nat /\ Cardinality(Earlier(j)) \in Nat
    BY <1>2, <2>1, EarlierGrows, EarlierFinite, InvParts
  <2> QED BY <1>2, <2>2
<1> QED BY <1>3, <1>4 DEF NamesFollowAddresses

(* Only process_labels leads to the printing passes. *)
LEMMA PrintingKeepsLabels ==
  ASSUME Inv, [Next]_vars, pc' \in {"print", "done"}
  PROVE  SetOrderedLabelNames \/ (pc \in {"print", "done"} /\ labels' = labels)
<1>1. ASSUME LinkStep PROVE FALSE
  <2>1. ASSUME NEW s, NEW w, LinkSymbol(s, w) PROVE FALSE
    BY <2>1 DEF LinkSymbol
  <2>2. CASE SeekPointer \/ LinkPointer \/ LinkSplitPointer \/ VisitOutside
    BY <2>2 DEF SeekPointer, LinkPointer, LinkSplitPointer, VisitOutside, Abort, Advance
  <2>3. CASE PointersDone \/ SymbolsDone
    BY <2>3 DEF PointersDone, SymbolsDone, Goto
  <2> QED BY <1>1, <2>1, <2>2, <2>3 DEF LinkStep
<1>2. ASSUME CodeStep PROVE FALSE
  <2>1. CASE FindCodeSingle \/ NoDataZone \/ CodeBeforeFirstFunction \/ FunctionsDone
    BY <2>1 DEF FindCodeSingle, NoDataZone, CodeBeforeFirstFunction, FunctionsDone, Goto, Abort
  <2>2. ASSUME NEW start, FindCode(start) PROVE FALSE
    BY <2>2 DEF FindCode, Goto
  <2>3. ASSUME NEW tag, FindFunction(tag) PROVE FALSE
    BY <2>3 DEF FindFunction, Advance
  <2>4. CASE DecodeBranch \/ DecodeOther \/ FpSkip \/ FpUnknown
    BY <2>4 DEF DecodeBranch, DecodeOther, FpSkip, FpUnknown, Advance, Abort
  <2>5. CASE DisassemblyDone \/ FpDone
    BY <2>5 DEF DisassemblyDone, FpDone, NextSegment, Goto
  <2>6. ASSUME NEW f, FpLoad(f) \/ FpAdd(f) PROVE FALSE
    BY <2>6 DEF FpLoad, FpAdd, Advance, Abort
  <2> QED BY <1>2, <2>1, <2>2, <2>3, <2>4, <2>5, <2>6 DEF CodeStep
<1>3. CASE UNCHANGED vars
  BY <1>3 DEF vars, cursor, linkVars
<1>4. CASE PrintDisassembly
  BY <1>4 DEF PrintDisassembly, Abort, linkVars
<1> QED BY <1>1, <1>2, <1>3, <1>4 DEF Next, OutputStep, Finished

LEMMA NextKeepsNames == Inv /\ NamesFollowAddresses /\ [Next]_vars => NamesFollowAddresses'
<1> SUFFICES ASSUME Inv, NamesFollowAddresses, [Next]_vars, pc' \in {"print", "done"}
             PROVE  NamesFollowAddresses'
  BY DEF NamesFollowAddresses
<1>1. CASE pc \in {"print", "done"} /\ labels' = labels
  BY <1>1 DEF NamesFollowAddresses, Before
<1> QED BY <1>1, NamesFromOrder, PrintingKeepsLabels

(***************************************************************************)
(* What set_ordered_label_names promises: L1, L2, ... in the order of the  *)
(* addresses, each given once, and no later pass adds a label to them.     *)
(***************************************************************************)
THEOREM NamesCorrect == Spec => []NamesFollowAddresses
<1>1. Init => Inv /\ NamesFollowAddresses
  <2>1. Init => NamesFollowAddresses
    BY DEF Init, NamesFollowAddresses
  <2> QED BY <2>1, InitInv
<1>2. Inv /\ NamesFollowAddresses /\ [Next]_vars => Inv' /\ NamesFollowAddresses'
  BY NextKeepsInv, NextKeepsNames
<1> QED BY <1>1, <1>2, PTL DEF Spec

-----------------------------------------------------------------------------
(* Functions.                                                               *)

(* The data zone of segment s starts after its functions. *)
Zoned(s) == /\ \A w \in FunctionTags(s) : w < dataStart[s]
            /\ FunctionTags(s) = {} => dataStart[s] = 0

(***************************************************************************)
(* The functions fs, found from the end of the code zone of segment s back *)
(* to the word from: each ends where the one found before it starts, and   *)
(* so before all of those.                                                 *)
(***************************************************************************)
TilesBackwards(fs, s, from) ==
  /\ {fs[i].start : i \in DOMAIN fs} = {w \in FunctionTags(s) : w >= from}
  /\ \A i \in DOMAIN fs : from <= fs[i].start /\ fs[i].start < fs[i].end
  /\ IF fs = << >> THEN from = dataStart[s]
     ELSE fs[1].end = dataStart[s] /\ fs[Len(fs)].start = from
  /\ \A i \in 1 .. Len(fs) - 1 : fs[i].start = fs[i + 1].end
  /\ \A i, j \in DOMAIN fs : i < j => fs[j].end <= fs[i].start

(* The same functions in the order of their addresses, none missing. *)
Tiles(fs, s) ==
  /\ {fs[i].start : i \in DOMAIN fs} = FunctionTags(s)
  /\ IF fs = << >> THEN dataStart[s] = 0
     ELSE fs[1].start = 0 /\ fs[Len(fs)].end = dataStart[s]
  /\ \A i \in 1 .. Len(fs) - 1 : fs[i].end = fs[i + 1].start
  /\ \A i \in DOMAIN fs : fs[i].start < fs[i].end
  /\ \A i, j \in DOMAIN fs : i < j => fs[i].end <= fs[j].start

FunctionRange == [start : Nat, end : Nat]

LEMMA AppendParts ==
  ASSUME NEW S, NEW fs \in Seq(S), NEW f \in S
  PROVE  /\ Append(fs, f) \in Seq(S)
         /\ Len(fs) \in Nat /\ Len(Append(fs, f)) = Len(fs) + 1
         /\ DOMAIN fs = 1 .. Len(fs) /\ DOMAIN Append(fs, f) = 1 .. Len(fs) + 1
         /\ \A i \in 1 .. Len(fs) : Append(fs, f)[i] = fs[i]
         /\ Append(fs, f)[Len(fs) + 1] = f
         /\ fs = << >> <=> Len(fs) = 0
         /\ Append(fs, f) # << >>
  OBVIOUS

LEMMA AppendTiles ==
  ASSUME NEW fs \in Seq(FunctionRange), NEW s \in Segs, NEW from \in Nat,
         TilesBackwards(fs, s, from),
         NEW tag \in Nat, IsLast(tag, {w \in FunctionTags(s) : w < from})
  PROVE  TilesBackwards(Append(fs, [start |-> tag, end |-> from]), s, tag)
<1> DEFINE f == [start |-> tag, end |-> from]
           gs == Append(fs, f)
           n == Len(fs)
<1>1. f \in FunctionRange /\ f.start = tag /\ f.end = from
  BY DEF FunctionRange
<1> HIDE DEF f
<1>2. /\ n \in Nat /\ Len(gs) = n + 1 /\ gs # << >>
      /\ DOMAIN fs = 1 .. n /\ DOMAIN gs = 1 .. n + 1
      /\ \A i \in 1 .. n : gs[i] = fs[i]
      /\ gs[n + 1] = f
      /\ fs = << >> <=> n = 0
  BY <1>1, AppendParts
<1>3. \A i \in 1 .. n : fs[i].start \in Nat /\ fs[i].end \in Nat
  <2> HIDE DEF n, gs
  <2> TAKE i \in 1 .. n
  <2>1. fs[i] \in FunctionRange
    BY <1>2, ElementType
  <2> QED BY <2>1 DEF FunctionRange
<1> HIDE DEF gs, n
<1>4. FunctionTags(s) \subseteq Nat
  BY Constants DEF FunctionTags
<1>5. /\ tag \in FunctionTags(s) /\ tag < from
      /\ \A w \in FunctionTags(s) : w < from => w <= tag
  BY DEF IsLast
<1>6. {gs[i].start : i \in DOMAIN gs} = {w \in FunctionTags(s) : w >= tag}
  <2>1. {gs[i].start : i \in DOMAIN gs} = {fs[i].start : i \in DOMAIN fs} \cup {tag}
    BY <1>1, <1>2
  <2>2. {w \in FunctionTags(s) : w >= tag} = {w \in FunctionTags(s) : w >= from} \cup {tag}
    BY <1>4, <1>5
  <2> QED BY <2>1, <2>2 DEF TilesBackwards
<1>7. \A i \in DOMAIN gs : tag <= gs[i].start /\ gs[i].start < gs[i].end
  BY <1>1, <1>2, <1>3, <1>5 DEF TilesBackwards
<1>8. gs[1].end = dataStart[s] /\ gs[Len(gs)].start = tag
  BY <1>1, <1>2 DEF TilesBackwards
<1>9. \A i \in 1 .. Len(gs) - 1 : gs[i].start = gs[i + 1].end
  <2> TAKE i \in 1 .. Len(gs) - 1
  <2>1. CASE i < n
    BY <1>2, <2>1 DEF TilesBackwards, n
  <2>2. CASE i = n
    BY <1>1, <1>2, <2>2 DEF TilesBackwards, n
  <2> QED BY <1>2, <2>1, <2>2
<1>10. \A i, j \in DOMAIN gs : i < j => gs[j].end <= gs[i].start
  <2> TAKE i, j \in DOMAIN gs
  <2>1. CASE j \in 1 .. n
    BY <1>2, <2>1 DEF TilesBackwards
  <2>2. CASE j = n + 1
    BY <1>1, <1>2, <2>2 DEF TilesBackwards
  <2> QED BY <1>2, <2>1, <2>2
<1>11. TilesBackwards(gs, s, tag)
  BY <1>2, <1>6, <1>7, <1>8, <1>9, <1>10 DEF TilesBackwards
<1> QED BY <1>11 DEF gs, f

LEMMA ReverseParts ==
  ASSUME NEW S, NEW fs \in Seq(S)
  PROVE  /\ Len(fs) \in Nat /\ Len(Reverse(fs)) = Len(fs)
         /\ DOMAIN fs = 1 .. Len(fs) /\ DOMAIN Reverse(fs) = 1 .. Len(fs)
         /\ \A i \in 1 .. Len(fs) : Reverse(fs)[i] = fs[Len(fs) - i + 1]
         /\ fs = << >> <=> Len(fs) = 0
         /\ Reverse(fs) = << >> <=> Len(fs) = 0
<1>1. Reverse(fs) \in Seq(S)
  BY ReverseType
<1>2. Len(fs) \in Nat /\ DOMAIN fs = 1 .. Len(fs) /\ (fs = << >> <=> Len(fs) = 0)
  OBVIOUS
<1>3. /\ DOMAIN Reverse(fs) = 1 .. Len(fs)
      /\ \A i \in 1 .. Len(fs) : Reverse(fs)[i] = fs[Len(fs) - i + 1]
  BY DEF Reverse
<1>4. Len(Reverse(fs)) = Len(fs)
  BY <1>1, <1>2, <1>3
<1> QED BY <1>1, <1>2, <1>3, <1>4

LEMMA ReverseTiles ==
  ASSUME NEW fs \in Seq(FunctionRange), NEW s \in Segs, TilesBackwards(fs, s, 0)
  PROVE  Tiles(Reverse(fs), s)
<1> DEFINE gs == Reverse(fs)
           n == Len(fs)
<1>1. /\ n \in Nat /\ Len(gs) = n
      /\ DOMAIN fs = 1 .. n /\ DOMAIN gs = 1 .. n
      /\ \A i \in 1 .. n : gs[i] = fs[n - i + 1]
      /\ fs = << >> <=> n = 0
      /\ gs = << >> <=> n = 0
  BY ReverseParts
<1> HIDE DEF gs, n
<1>2. \A i \in 1 .. n : n - i + 1 \in 1 .. n /\ n - (n - i + 1) + 1 = i
  BY <1>1
<1>3. {gs[i].start : i \in DOMAIN gs} = FunctionTags(s)
  <2>1. {gs[i].start : i \in DOMAIN gs} = {fs[i].start : i \in DOMAIN fs}
    BY <1>1, <1>2
  <2>2. {w \in FunctionTags(s) : w >= 0} = FunctionTags(s)
    BY Constants DEF FunctionTags
  <2> QED BY <2>1, <2>2 DEF TilesBackwards
<1>4. IF gs = << >> THEN dataStart[s] = 0
      ELSE gs[1].start = 0 /\ gs[Len(gs)].end = dataStart[s]
  BY <1>1 DEF TilesBackwards, n
<1>5. \A i \in 1 .. Len(gs) - 1 : gs[i].end = gs[i + 1].start
  <2> TAKE i \in 1 .. Len(gs) - 1
  <2>1. n - i \in 1 .. n - 1 /\ i \in 1 .. n /\ i + 1 \in 1 .. n
    BY <1>1
  <2>2. fs[n - i].start = fs[n - i + 1].end
    BY <2>1 DEF TilesBackwards, n
  <2>3. gs[i] = fs[n - i + 1] /\ gs[i + 1] = fs[n - i]
    <3>1. n - (i + 1) + 1 = n - i
      BY <1>1, <2>1
    <3> QED BY <1>1, <2>1, <3>1
  <2> QED BY <2>2, <2>3
<1>6. \A i \in DOMAIN gs : gs[i].start < gs[i].end
  BY <1>1, <1>2 DEF TilesBackwards
<1>7. \A i, j \in DOMAIN gs : i < j => gs[i].end <= gs[j].start
  <2> TAKE i, j \in DOMAIN gs
  <2>1. i \in 1 .. n /\ j \in 1 .. n /\ (i < j => n - j + 1 < n - i + 1)
    BY <1>1
  <2>2. n - i + 1 \in DOMAIN fs /\ n - j + 1 \in DOMAIN fs
    BY <1>1, <1>2, <2>1
  <2>3. i < j => fs[n - i + 1].end <= fs[n - j + 1].start
    BY <2>1, <2>2 DEF TilesBackwards
  <2> QED BY <1>1, <2>1, <2>3
<1> QED BY <1>3, <1>4, <1>5, <1>6, <1>7 DEF Tiles, gs

(* No function is found before the zones are, and the passes after          *)
(* find_functions keep what it has found.                                   *)
Divided == pc \in {"disassemble", "fp_links", "process_labels", "print", "done"}

FunctionsInv ==
  /\ pc \in {"pointers", "symbols", "find_code"} => \A s \in Segs : functions[s] = << >>
  /\ pc = "find_code" => \A s \in Segs : s < seg => Zoned(s)
  /\ pc = "find_functions" =>
       \A s \in Segs : /\ Zoned(s)
                       /\ s < seg => Tiles(functions[s], s)
                       /\ s = seg => TilesBackwards(functions[s], s, at)
                       /\ s > seg => functions[s] = << >>
  /\ Divided => \A s \in Segs : Tiles(functions[s], s)

LEMMA FunctionsInvSuffices == FunctionsInv => FunctionsTileCode
  BY DEF FunctionsInv, Divided, Tiles, FunctionsTileCode

LEMMA NoFunctions ==
  ASSUME Inv, NEW s \in Segs, Zoned(s)
  PROVE  TilesBackwards(<< >>, s, dataStart[s])
<1>1. DOMAIN << >> = {} /\ Len(<< >>) = 0
  OBVIOUS
<1>2. \A w \in FunctionTags(s) : ~(w >= dataStart[s])
  <2>1. FunctionTags(s) \subseteq Nat /\ dataStart[s] \in Nat
    BY Constants, InvParts DEF FunctionTags, ZonesType
  <2> QED BY <2>1 DEF Zoned
<1>3. {w \in FunctionTags(s) : w >= dataStart[s]} = {}
  BY <1>2
<1>4. \A i \in 1 .. Len(<< >>) - 1 : FALSE
  BY <1>1
<1>5. {<< >>[i].start : i \in DOMAIN << >>} = {}
  BY <1>1
<1> QED BY <1>1, <1>3, <1>4, <1>5 DEF TilesBackwards

LEMMA SameWords ==
  ASSUME UNCHANGED words
  PROVE  \A s \in Segs : FunctionTags(s)' = FunctionTags(s)
  BY DEF FunctionTags, IsFunctionTag

LEMMA AbortKeepsFunctions == ASSUME Abort PROVE FunctionsInv'
  BY DEF Abort, FunctionsInv, Divided

LEMMA LinkStepKeepsFunctions == ASSUME Inv, FunctionsInv, LinkStep PROVE FunctionsInv'
<1>1. /\ pc \in {"pointers", "symbols"} /\ functions' = functions
      /\ \/ pc' \in {"pointers", "symbols", "aborted"}
         \/ pc' = "find_code" /\ seg' = 0
  <2>1. CASE SeekPointer \/ LinkPointer \/ LinkSplitPointer \/ VisitOutside
    BY <2>1 DEF SeekPointer, LinkPointer, LinkSplitPointer, VisitOutside, Abort, Advance, codeVars
  <2>2. ASSUME NEW s, NEW w, LinkSymbol(s, w)
        PROVE  pc = "symbols" /\ functions' = functions /\ pc' \in {"symbols", "aborted"}
    BY <2>2 DEF LinkSymbol, codeVars
  <2>3. CASE PointersDone \/ SymbolsDone
    BY <2>3 DEF PointersDone, SymbolsDone, Goto, codeVars
  <2> QED BY <2>1, <2>2, <2>3 DEF LinkStep
<1>2. \A s \in Segs : ~(s < 0)
  BY Constants
<1> QED BY <1>1, <1>2 DEF FunctionsInv, Divided

LEMMA FindCodeSingleKeepsFunctions ==
  ASSUME Inv, FunctionsInv, FindCodeSingle
  PROVE  FunctionsInv'
<1>1. CASE Abort
  BY <1>1, AbortKeepsFunctions
<1>2. CASE ~Abort
  <2>1. /\ pc = "find_code" /\ NSegs = 1
        /\ ~\E l \in Loc : words[l].symbol = "function"
        /\ dataStart' = [dataStart EXCEPT ![0] = 0]
        /\ pc' = "find_functions" /\ seg' = 0 /\ at' = 0
        /\ UNCHANGED <<words, functions>>
    BY <1>2 DEF FindCodeSingle, Goto, linkVars
  <2>2. Segs = {0} /\ dataStart \in [Segs -> Nat]
    BY <2>1, InvParts DEF Segs, ZonesType
  <2>3. FunctionTags(0) = {}
    <3>1. ASSUME NEW w \in 0 .. Size[0] - 1 PROVE <<0, w>> \in Loc
      BY <2>2, Constants, LocMember
    <3> QED BY <2>1, <3>1 DEF FunctionTags, IsFunctionTag
  <2>4. FunctionTags(0)' = {} /\ dataStart'[0] = 0 /\ functions'[0] = << >>
    BY <2>1, <2>2, <2>3, SameWords DEF FunctionsInv
  <2>5. Zoned(0)'
    BY <2>4 DEF Zoned
  <2>6. TilesBackwards(<< >>, 0, dataStart[0])'
    <3>1. DOMAIN << >> = {} /\ Len(<< >>) = 0 /\ 1 .. 0 - 1 = {}
      OBVIOUS
    <3>2. {<< >>[i].start : i \in DOMAIN << >>} = {}
      BY <3>1
    <3> QED BY <2>4, <3>1, <3>2 DEF TilesBackwards
  <2>7. TilesBackwards(functions[0], 0, at)'
    BY <2>1, <2>4, <2>6
  <2> QED BY <2>1, <2>2, <2>5, <2>7 DEF FunctionsInv, Divided
<1> QED BY <1>1, <1>2


LEMMA FindCodeKeepsFunctions ==
  ASSUME Inv, FunctionsInv, NEW start \in 0 .. Size[seg], FindCode(start)
  PROVE  FunctionsInv'
<1> PICK S \in Segs : S = seg
  BY InvParts DEF CursorType
<1>1. /\ pc = "find_code" /\ NSegs = 3 /\ DataStartsAt(S, start)
      /\ dataStart' = [dataStart EXCEPT ![S] = start]
      /\ UNCHANGED <<words, functions>>
      /\ IF S + 1 < NSegs
         THEN pc' = "find_code" /\ seg' = S + 1
         ELSE pc' = "find_functions" /\ seg' = 0 /\ at' = dataStart'[0]
  BY DEF FindCode, Goto
<1>2. S \in Segs /\ Segs = 0 .. 2 /\ dataStart \in [Segs -> Nat] /\ start \in Nat
  BY <1>1, Constants, InvParts DEF Segs, ZonesType, CursorType
<1>3. \A s \in Segs : s # S => dataStart'[s] = dataStart[s]
  BY <1>1, <1>2
<1>4. Zoned(S)'
  <2>1. dataStart'[S] = start /\ FunctionTags(S)' = FunctionTags(S)
    BY <1>1, <1>2, SameWords
  <2>2. DataStartsAt(S, start)
    BY <1>1
  <2>3. /\ \A w \in FunctionTags(S) : w < dataStart'[S]
        /\ FunctionTags(S) = {} => dataStart'[S] = 0
    BY <2>1, <2>2 DEF DataStartsAt
  <2> QED BY <1>1, <2>1, <2>3 DEF Zoned
<1>5. \A s \in Segs : s < S => Zoned(s)'
  <2> TAKE s \in Segs
  <2>1. s < S => dataStart'[s] = dataStart[s] /\ Zoned(s)
    BY <1>1, <1>2, <1>3 DEF FunctionsInv
  <2>2. FunctionTags(s)' = FunctionTags(s)
    BY <1>1, SameWords
  <2> QED BY <2>1, <2>2 DEF Zoned
<1>6. CASE S + 1 < NSegs
  <2>1. \A s \in Segs : s < seg' => Zoned(s)'
    <3> TAKE s \in Segs
    <3>1. s < seg' => s < S \/ s = S
      BY <1>1, <1>2, <1>6
    <3> QED BY <1>4, <1>5, <3>1
  <2> QED BY <1>1, <1>6, <2>1 DEF FunctionsInv, Divided
<1>7. CASE ~(S + 1 < NSegs)
  <2>1. \A s \in Segs : s < S \/ s = S
    BY <1>1, <1>2, <1>7
  <2>2. \A s \in Segs : Zoned(s)'
    BY <1>4, <1>5, <2>1
  <2>3. \A s \in Segs : functions'[s] = << >>
    BY <1>1 DEF FunctionsInv
  <2>4. \A s \in Segs : TilesBackwards(functions[s], s, dataStart[s])'
    <3> TAKE s \in Segs
    <3>1. DOMAIN << >> = {} /\ Len(<< >>) = 0 /\ 1 .. 0 - 1 = {}
      OBVIOUS
    <3>2. {<< >>[i].start : i \in DOMAIN << >>} = {}
      BY <3>1
    <3>3. FunctionTags(s)' \subseteq Nat /\ dataStart'[s] \in Nat
      BY <1>1, <1>2, Constants DEF FunctionTags
    <3>4. {w \in FunctionTags(s)' : w >= dataStart'[s]} = {}
      BY <2>2, <3>3 DEF Zoned
    <3> QED BY <2>3, <3>1, <3>2, <3>4 DEF TilesBackwards
  <2>5. \A s \in Segs : s = seg' => TilesBackwards(functions[s], s, at)'
    BY <1>1, <1>7, <2>4
  <2>6. \A s \in Segs : ~(s < seg')
    BY <1>1, <1>2, <1>7
  <2> QED BY <1>1, <1>7, <2>2, <2>3, <2>5, <2>6 DEF FunctionsInv, Divided
<1> QED BY <1>6, <1>7

LEMMA FindFunctionKeepsFunctions ==
  ASSUME Inv, FunctionsInv, NEW tag \in FunctionTags(seg), FindFunction(tag)
  PROVE  FunctionsInv'
<1> PICK S \in Segs : S = seg
  BY InvParts DEF CursorType
<1> DEFINE f == [start |-> tag, end |-> at]
<1>1. /\ pc = "find_functions" /\ pc' = pc /\ seg' = S /\ at' = tag
      /\ IsLast(tag, {w \in FunctionTags(S) : w < at})
      /\ functions' = [functions EXCEPT ![S] = Append(functions[S], f)]
      /\ UNCHANGED <<words, dataStart>>
  BY DEF FindFunction, Advance, linkVars
<1>2. /\ functions \in [Segs -> Seq(FunctionRange)] /\ at \in Nat
      /\ FunctionTags(S) \subseteq Nat /\ tag \in Nat
  BY Constants, InvParts DEF FunctionTags, ZonesType, CursorType, FunctionRange
<1>3. TilesBackwards(functions[S], S, at)
  BY <1>1 DEF FunctionsInv
<1>4. TilesBackwards(Append(functions[S], f), S, tag)
  BY <1>1, <1>2, <1>3, AppendTiles
<1>5. functions'[S] = Append(functions[S], f)
      /\ \A s \in Segs : s # S => functions'[s] = functions[s]
  BY <1>1, <1>2
<1> HIDE DEF f
<1>6. \A s \in Segs : FunctionTags(s)' = FunctionTags(s) /\ dataStart'[s] = dataStart[s]
  BY <1>1, SameWords
<1>7. TilesBackwards(functions[S], S, at)'
  BY <1>1, <1>4, <1>5, <1>6 DEF TilesBackwards
<1>8. ASSUME NEW s \in Segs
      PROVE  /\ Zoned(s)'
             /\ s < S => Tiles(functions[s], s)'
             /\ s > S => functions'[s] = << >>
  <2>1. Zoned(s)'
    BY <1>1, <1>6 DEF FunctionsInv, Zoned
  <2>2. ASSUME s < S PROVE Tiles(functions[s], s)'
    <3>1. s # S
      BY <2>2, Constants
    <3>2. Tiles(functions[s], s) /\ functions'[s] = functions[s]
      BY <1>1, <1>5, <2>2, <3>1 DEF FunctionsInv
    <3> QED BY <1>6, <3>2 DEF Tiles
  <2>3. ASSUME s > S PROVE functions'[s] = << >>
    <3>1. s # S
      BY <2>3, Constants
    <3> QED BY <1>1, <1>5, <2>3, <3>1 DEF FunctionsInv
  <2> QED BY <2>1, <2>2, <2>3
<1> QED BY <1>1, <1>7, <1>8 DEF FunctionsInv, Divided

(* The walk goes on with the next segment from the end of its code zone. *)
LEMMA FunctionsDoneKeepsFunctions ==
  ASSUME Inv, FunctionsInv, FunctionsDone
  PROVE  FunctionsInv'
<1> PICK S \in Segs : S = seg
  BY InvParts DEF CursorType
<1>1. /\ pc = "find_functions" /\ at = 0
      /\ functions' = [functions EXCEPT ![S] = Reverse(functions[S])]
      /\ UNCHANGED <<words, dataStart>>
      /\ IF S + 1 < NSegs
         THEN pc' = "find_functions" /\ seg' = S + 1 /\ at' = dataStart[S + 1]
         ELSE pc' = "disassemble"
  BY DEF FunctionsDone, Goto, linkVars
<1>2. functions \in [Segs -> Seq(FunctionRange)]
  BY InvParts DEF ZonesType, FunctionRange
<1>3. TilesBackwards(functions[S], S, 0)
  BY <1>1 DEF FunctionsInv
<1>4. Tiles(Reverse(functions[S]), S)
  BY <1>2, <1>3, ReverseTiles
<1>5. functions'[S] = Reverse(functions[S])
      /\ \A s \in Segs : s # S => functions'[s] = functions[s]
  BY <1>1, <1>2
<1>6. \A s \in Segs : FunctionTags(s)' = FunctionTags(s) /\ dataStart'[s] = dataStart[s]
  BY <1>1, SameWords
<1>7. ASSUME NEW s \in Segs, s <= S PROVE Tiles(functions[s], s)'
  <2>1. Tiles(functions'[s], s)
    <3>1. s < S \/ s = S
      BY <1>7, Constants
    <3>2. CASE s = S
      BY <1>4, <1>5, <3>2
    <3>3. CASE s < S
      <4>1. s # S
        BY <3>3, Constants
      <4> QED BY <1>1, <1>5, <3>3, <4>1 DEF FunctionsInv
    <3> QED BY <3>1, <3>2, <3>3
  <2> QED BY <1>6, <2>1 DEF Tiles
<1>8. ASSUME NEW s \in Segs, s > S
      PROVE  functions'[s] = << >> /\ TilesBackwards(functions[s], s, dataStart[s])'
  <2>1. s # S
    BY <1>8, Constants
  <2>2. functions'[s] = << >> /\ Zoned(s)
    BY <1>1, <1>5, <1>8, <2>1 DEF FunctionsInv
  <2>3. TilesBackwards(functions'[s], s, dataStart[s])
    BY <2>2, NoFunctions
  <2> QED BY <1>6, <2>2, <2>3 DEF TilesBackwards
<1>9. \A s \in Segs : Zoned(s)'
  BY <1>1, <1>6 DEF FunctionsInv, Zoned
<1>10. CASE S + 1 < NSegs
  <2>1. \A s \in Segs : /\ s < S + 1 => s <= S
                        /\ s = S + 1 => s > S /\ dataStart'[s] = at'
                        /\ s > S + 1 => s > S
    BY <1>1, <1>6, <1>10, Constants
  <2>2. \A s \in Segs : s = seg' => TilesBackwards(functions[s], s, at)'
    <3> TAKE s \in Segs
    <3>1. s = seg' => s > S /\ dataStart'[s] = at'
      BY <1>1, <1>10, <2>1
    <3> QED BY <1>8, <3>1 DEF TilesBackwards
  <2> QED BY <1>1, <1>7, <1>8, <1>9, <1>10, <2>1, <2>2 DEF FunctionsInv, Divided
<1>11. CASE ~(S + 1 < NSegs)
  <2>1. \A s \in Segs : s <= S
    BY <1>11, Constants DEF Segs
  <2> QED BY <1>1, <1>7, <1>11, <2>1 DEF FunctionsInv, Divided
<1> QED BY <1>10, <1>11


LEMMA LaterPasses ==
  ASSUME Inv, Divided, [Next]_vars
  PROVE  /\ UNCHANGED <<raw, words, dataStart, functions>>
         /\ Divided' \/ pc' = "aborted"
<1>1. CASE LinkStep
  <2>1. SeekPointer \/ LinkPointer \/ LinkSplitPointer \/ PointersDone => pc = "pointers"
    BY DEF SeekPointer, LinkPointer, LinkSplitPointer, PointersDone
  <2>2. ASSUME NEW s, NEW w, LinkSymbol(s, w) PROVE pc = "symbols"
    BY <2>2 DEF LinkSymbol
  <2>3. SymbolsDone \/ VisitOutside => pc \in {"pointers", "symbols"}
    BY DEF SymbolsDone, VisitOutside
  <2> QED BY <1>1, <2>1, <2>2, <2>3 DEF LinkStep, Divided
<1>2. CASE FindCodeSingle \/ NoDataZone \/ CodeBeforeFirstFunction \/ FunctionsDone
  BY <1>2 DEF FindCodeSingle, NoDataZone, CodeBeforeFirstFunction, FunctionsDone, Divided
<1>3. ASSUME NEW start, FindCode(start) PROVE FALSE
  BY <1>3 DEF FindCode, Divided
<1>4. ASSUME NEW tag, FindFunction(tag) PROVE FALSE
  BY <1>4 DEF FindFunction, Divided
<1>5. CASE DecodeBranch \/ DecodeOther \/ FpSkip \/ FpUnknown
  BY <1>5 DEF DecodeBranch, DecodeOther, FpSkip, FpUnknown, Abort, Advance, Divided,
              linkVars, codeVars
<1>6. CASE DisassemblyDone \/ FpDone
  BY <1>6 DEF DisassemblyDone, FpDone, NextSegment, Goto, Divided, linkVars, codeVars
<1>7. ASSUME NEW f, FpLoad(f) \/ FpAdd(f)
      PROVE  /\ UNCHANGED <<raw, words, dataStart, functions>>
             /\ Divided' \/ pc' = "aborted"
  BY <1>7 DEF FpLoad, FpAdd, LabelOperand, Abort, Advance, Divided, linkVars, codeVars
<1>8. CASE OutputStep
  BY <1>8 DEF OutputStep, SetOrderedLabelNames, PrintDisassembly, Abort, Goto, Divided,
              linkVars, codeVars
<1>9. CASE UNCHANGED vars
  BY <1>9 DEF vars, cursor, linkVars, codeVars, Divided
<1>10. CASE CodeStep
  BY <1>2, <1>3, <1>4, <1>5, <1>6, <1>7, <1>10 DEF CodeStep
<1> QED BY <1>1, <1>8, <1>9, <1>10 DEF Next, Finished

LEMMA InitFunctions == Init => FunctionsInv
  BY DEF Init, FunctionsInv, Divided

LEMMA NextKeepsFunctions == Inv /\ FunctionsInv /\ [Next]_vars => FunctionsInv'
<1> SUFFICES ASSUME Inv, FunctionsInv, [Next]_vars PROVE FunctionsInv'
  OBVIOUS
<1>1. CASE Divided
  <2>1. CASE pc' = "aborted"
    BY <2>1 DEF FunctionsInv, Divided
  <2>2. CASE Divided'
    <3>1. \A s \in Segs : Tiles(functions[s], s)'
      BY <1>1, LaterPasses, SameWords DEF FunctionsInv, Tiles
    <3> QED BY <2>2, <3>1 DEF FunctionsInv, Divided
  <2> QED BY <1>1, <2>1, <2>2, LaterPasses
<1>2. CASE ~Divided
  <2>1. CASE LinkStep
    BY <2>1, LinkStepKeepsFunctions
  <2>2. CASE NoDataZone \/ CodeBeforeFirstFunction \/ FpUnknown
    BY <2>2, AbortKeepsFunctions DEF NoDataZone, CodeBeforeFirstFunction, FpUnknown
  <2>3. CASE DecodeBranch \/ DecodeOther \/ FpSkip \/ DisassemblyDone \/ FpDone
    BY <1>2, <2>3 DEF DecodeBranch, DecodeOther, FpSkip, DisassemblyDone, FpDone, Divided
  <2>4. ASSUME NEW f, FpLoad(f) \/ FpAdd(f) PROVE FALSE
    BY <1>2, <2>4 DEF FpLoad, FpAdd, Divided
  <2>5. CASE OutputStep
    BY <1>2, <2>5 DEF OutputStep, SetOrderedLabelNames, PrintDisassembly, Divided
  <2>6. CASE UNCHANGED vars
    <3>1. UNCHANGED <<words, dataStart, functions, pc, seg, at>>
      BY <2>6 DEF vars, linkVars, codeVars, cursor
    <3>2. \A s \in Segs : Zoned(s)' = Zoned(s)
      BY <3>1, SameWords DEF Zoned
    <3>3. \A s \in Segs : Tiles(functions[s], s)' = Tiles(functions[s], s)
      BY <3>1, SameWords DEF Tiles
    <3>4. \A s \in Segs : TilesBackwards(functions[s], s, at)'
                          = TilesBackwards(functions[s], s, at)
      BY <3>1, SameWords DEF TilesBackwards
    <3> QED BY <3>1, <3>2, <3>3, <3>4 DEF FunctionsInv, Divided
  <2>7. CASE CodeStep
    BY <2>2, <2>3, <2>4, <2>7, FindCodeSingleKeepsFunctions, FindCodeKeepsFunctions,
       FindFunctionKeepsFunctions, FunctionsDoneKeepsFunctions DEF CodeStep
  <2> QED BY <2>1, <2>5, <2>6, <2>7 DEF Next, Finished
<1> QED BY <1>1, <1>2

(***************************************************************************)
(* What find_functions promises, for every file: its backward walk and its *)
(* final reversal leave the functions of a segment in order, without gap   *)
(* or overlap, one for each function tag.                                  *)
(***************************************************************************)
THEOREM FunctionsCorrect == Spec => []FunctionsTileCode
<1>1. Init => Inv /\ FunctionsInv
  BY InitInv, InitFunctions
<1>2. Inv /\ FunctionsInv /\ [Next]_vars => Inv' /\ FunctionsInv'
  BY NextKeepsInv, NextKeepsFunctions
<1> QED BY <1>1, <1>2, FunctionsInvSuffices, PTL DEF Spec

-----------------------------------------------------------------------------
(* Instructions: the label of each denotes what its encoding means.        *)

FunctionIn(fs, w) == CHOOSE f \in Range(fs) : f.start <= w /\ w < f.end

InsnDenotes(l) ==
  insns[l].arg = "label" =>
    LET f == FunctionIn(functions[l[1]], l[2])
        target == AddressIn(labels, insns[l].label)
    IN CASE raw[l].op = "BRANCH" -> target = <<l[1], 4 * (l[2] + 1 + Signed16(raw[l]))>>
         [] raw[l].op = "FP_LOAD" -> target = <<l[1], FpBase(f) + Signed16(raw[l])>>
         [] OTHER ->
              \/ words[l].kind \in {"HI_PTR", "LO_PTR"} /\ insns[l].label = words[l].label
              \/ /\ raw[<<l[1], l[2] + 1>>].op = "FP_ADD"
                 /\ target[1] = l[1]
                 /\ (target[2] - FpBase(f) - Low16(raw[l])) % 65536 = 0

DenotesInv == \A l \in DOMAIN insns : InsnDenotes(l)

LEMMA DenotesInvSuffices == DenotesInv => InsnsDenoteTargets
  BY DEF DenotesInv, InsnDenotes, FunctionIn, InsnsDenoteTargets, AddressIn, AddressOf,
         LabelSeg, LabelOffset

(* A word belongs to one function only. *)
LEMMA OneFunction ==
  ASSUME Inv, FunctionsInv, Divided, NEW s \in Segs, NEW w \in Nat,
         NEW f \in Range(functions[s]), f.start <= w, w < f.end
  PROVE  FunctionIn(functions[s], w) = f
<1> DEFINE fs == functions[s]
<1>1. fs \in Seq(FunctionRange) /\ Tiles(fs, s)
  BY InvParts DEF ZonesType, FunctionRange, FunctionsInv
<1> HIDE DEF fs
<1>2. DOMAIN fs = 1 .. Len(fs) /\ Len(fs) \in Nat
  BY <1>1
<1>3. \A i \in DOMAIN fs : fs[i].start \in Nat /\ fs[i].end \in Nat
  <2> TAKE i \in DOMAIN fs
  <2>1. fs[i] \in FunctionRange
    BY <1>1, ElementType
  <2> QED BY <2>1 DEF FunctionRange
<1>4. PICK i \in DOMAIN fs : f = fs[i]
  BY DEF Range, fs
<1>5. ASSUME NEW g \in Range(fs), g.start <= w, w < g.end PROVE g = f
  <2>1. PICK j \in DOMAIN fs : g = fs[j]
    BY DEF Range
  <2>2. i < j => fs[i].end <= fs[j].start
    BY <1>1 DEF Tiles
  <2>3. j < i => fs[j].end <= fs[i].start
    BY <1>1 DEF Tiles
  <2>4. i = j
    BY <1>2, <1>3, <1>4, <1>5, <2>1, <2>2, <2>3
  <2> QED BY <1>4, <2>1, <2>4
<1>6. f \in Range(fs)
  BY DEF fs
<1>7. FunctionIn(fs, w) = f
  BY <1>5, <1>6 DEF FunctionIn
<1> QED BY <1>7 DEF fs

LEMMA InsnStays ==
  ASSUME Inv, InsnsInv, LabelsKept, UNCHANGED <<raw, words, functions>>,
         NEW l \in DOMAIN insns, insns'[l] = insns[l], InsnDenotes(l)
  PROVE  InsnDenotes(l)'
<1> SUFFICES ASSUME insns[l].arg = "label" PROVE InsnDenotes(l)'
  BY DEF InsnDenotes
<1>1. insns[l].label \in LabelIds
  <2>1. insns[l] \in Operand
    BY InvParts DEF InsnsType
  <2>2. insns[l].label \in LabelIds \cup {NoLabel}
    BY <2>1 DEF Operand
  <2> QED BY <2>2 DEF InsnsInv
<1>2. AddressIn(labels', insns[l].label) = AddressIn(labels, insns[l].label)
  BY <1>1 DEF LabelsKept
<1> QED BY <1>2 DEF InsnDenotes


LEMMA SetInsnEffect ==
  ASSUME NEW l, NEW i, SetInsn(l, i)
  PROVE  /\ l \in DOMAIN insns' /\ insns'[l] = i
         /\ \A m \in DOMAIN insns' : m # l => m \in DOMAIN insns /\ insns'[m] = insns[m]
  BY DEF SetInsn

LEMMA BranchDenotes ==
  ASSUME Inv, InsnsInv, DenotesInv,
         NEW s \in Segs, NEW w \in Nat, NEW o \in Int, BranchDecoded(s, w, o)
  PROVE  DenotesInv'
<1> DEFINE l == <<s, w>>
           id == LabelId(s, o)
<1>1. /\ Labelled(s, o) /\ SetInsn(l, Insn("label", id))
      /\ UNCHANGED <<raw, words, functions>>
      /\ raw[l].op = "BRANCH" /\ o = BranchTarget(w, raw[l])
      /\ <<s, w>> \in Loc
  BY CodeWord DEF BranchDecoded
<1>2. LabelsKept /\ AddressIn(labels', id) = <<s, o>>
  BY <1>1, LabelledEffect
<1>3. Insn("label", id).arg = "label" /\ Insn("label", id).label = id
  BY DEF Insn
<1>4. l[1] = s /\ l[2] = w
  OBVIOUS
<1>5. Signed16(raw[l]) \in Int
  BY <1>1, RawWordType, InvParts DEF Inv
<1> HIDE DEF l, id
<1>6. InsnDenotes(l)'
  <2>1. insns'[l].label = id
    BY <1>1, <1>3, SetInsnEffect
  <2>2. <<s, o>> = <<l[1], 4 * (l[2] + 1 + Signed16(raw[l]))>>
    BY <1>1, <1>4, <1>5 DEF BranchTarget
  <2> QED BY <1>1, <1>2, <2>1, <2>2 DEF InsnDenotes
<1>7. \A m \in DOMAIN insns' : m # l => InsnDenotes(m)'
  BY <1>1, <1>2, SetInsnEffect, InsnStays DEF DenotesInv
<1> QED BY <1>6, <1>7 DEF DenotesInv

LEMMA OtherDenotes ==
  ASSUME Inv, InsnsInv, DenotesInv, NEW s \in Segs, NEW w \in Nat, NEW i, OtherDecoded(s, w, i)
  PROVE  DenotesInv'
<1> DEFINE l == <<s, w>>
<1>1. /\ SetInsn(l, i)
      /\ UNCHANGED <<raw, words, functions, labels>>
      /\ i.arg = "label" => /\ words[l].kind \in {"HI_PTR", "LO_PTR"}
                            /\ raw[l].op \in {"LUI", "ORI"}
                            /\ i.label = words[l].label
  BY DEF OtherDecoded, linkVars
<1>2. LabelsKept
  BY <1>1, UnchangedLabelsKept DEF SameLabels
<1> HIDE DEF l
<1>3. InsnDenotes(l)'
  <2>1. insns'[l] = i
    BY <1>1, SetInsnEffect
  <2> QED BY <1>1, <2>1 DEF InsnDenotes
<1>4. \A m \in DOMAIN insns' : m # l => InsnDenotes(m)'
  BY <1>1, <1>2, SetInsnEffect, InsnStays DEF DenotesInv
<1> QED BY <1>3, <1>4 DEF DenotesInv

LEMMA OperandEffect ==
  ASSUME Inv, InsnsInv, DenotesInv,
         NEW s \in Segs, NEW w \in Nat, NEW o \in Int, OperandLabelled(s, w, o),
         <<s, w>> \in DOMAIN insns' /\ insns'[<<s, w>>] = Insn("label", LabelId(s, o))
           => InsnDenotes(<<s, w>>)'
  PROVE  DenotesInv'
<1> DEFINE l == <<s, w>>
           i == Insn("label", LabelId(s, o))
<1>1. /\ insns' = [insns EXCEPT ![l] = i]
      /\ UNCHANGED <<raw, words, functions>> /\ Labelled(s, o)
      /\ l \in DOMAIN insns' /\ insns'[l] = i => InsnDenotes(l)'
  BY DEF OperandLabelled
<1>2. LabelsKept
  BY <1>1, LabelledEffect
<1> HIDE DEF l, i
<1>3. /\ DOMAIN insns' = DOMAIN insns
      /\ l \in DOMAIN insns => insns'[l] = i
      /\ \A m \in DOMAIN insns : m # l => insns'[m] = insns[m]
  <2>1. insns \in [DOMAIN insns -> Operand]
    BY InvParts DEF InsnsType
  <2> QED BY <1>1, <2>1
<1>4. \A m \in DOMAIN insns' : m # l => InsnDenotes(m)'
  BY <1>1, <1>2, <1>3, InsnStays DEF DenotesInv
<1> QED BY <1>1, <1>3, <1>4 DEF DenotesInv

LEMMA LoadDenotes ==
  ASSUME Inv, InsnsInv, FunctionsInv, DenotesInv,
         NEW f, NEW s \in Segs, NEW w \in Nat, NEW o \in Int, LoadLabelled(f, s, w, o)
  PROVE  DenotesInv'
<1> DEFINE l == <<s, w>>
           id == LabelId(s, o)
<1>1. /\ f \in Range(functions[s]) /\ f.start <= w /\ w < f.end
      /\ raw[l].op = "FP_LOAD" /\ o = FpBase(f) + Signed16(raw[l])
      /\ OperandLabelled(s, w, o)
  BY DEF LoadLabelled
<1>2. pc = "fp_links" /\ Labelled(s, o) /\ UNCHANGED <<raw, words, functions>>
  BY <1>1 DEF OperandLabelled
<1>3. FunctionIn(functions[s], w) = f
  BY <1>1, <1>2, OneFunction DEF Divided
<1>4. AddressIn(labels', id) = <<s, o>>
  BY <1>2, LabelledEffect
<1>5. Insn("label", id).label = id /\ l[1] = s /\ l[2] = w
  BY DEF Insn
<1> HIDE DEF l, id
<1>6. ASSUME insns'[l] = Insn("label", id) PROVE InsnDenotes(l)'
  <2>1. insns'[l].label = id
    BY <1>5, <1>6
  <2> QED BY <1>1, <1>2, <1>3, <1>4, <1>5, <2>1 DEF InsnDenotes
<1>7. ASSUME insns'[<<s, w>>] = Insn("label", LabelId(s, o)) PROVE InsnDenotes(<<s, w>>)'
  BY <1>6, <1>7 DEF l, id
<1> QED BY <1>1, <1>7, OperandEffect

LEMMA MultipleOf65536 == \A n \in Int : (65536 * n) % 65536 = 0
  OBVIOUS

LEMMA OriDenotes ==
  ASSUME Inv, InsnsInv, FunctionsInv, DenotesInv,
         NEW f, NEW s \in Segs, NEW w \in Nat, NEW o \in Int, NEW upper \in Int,
         OriLabelled(f, s, w, o, upper)
  PROVE  DenotesInv'
<1> DEFINE l == <<s, w>>
           id == LabelId(s, o)
<1>1. /\ f \in Range(functions[s]) /\ f.start <= w /\ w + 1 < f.end
      /\ raw[l].op = "ORI" /\ raw[<<s, w + 1>>].op = "FP_ADD"
      /\ o = FpBase(f) + Low16(raw[l]) + 65536 * upper
      /\ OperandLabelled(s, w, o)
  BY DEF OriLabelled
<1>2. /\ pc = "fp_links" /\ s = seg /\ w < dataStart[s]
      /\ Labelled(s, o) /\ UNCHANGED <<raw, words, functions>>
  BY <1>1 DEF OperandLabelled
<1>3. f.start \in Nat /\ f.end \in Nat /\ FpBase(f) \in Nat
  BY <1>1, <1>2, FunctionType
<1>4. FunctionIn(functions[s], w) = f
  <2>1. w < f.end
    BY <1>1, <1>3
  <2> QED BY <1>1, <1>2, <2>1, OneFunction DEF Divided
<1>5. AddressIn(labels', id) = <<s, o>>
  BY <1>2, LabelledEffect
<1>6. (o - FpBase(f) - Low16(raw[l])) % 65536 = 0
  <2>1. Low16(raw[l]) \in Int
    BY <1>2, CodeWord, RawWordType DEF Inv
  <2>2. o - FpBase(f) - Low16(raw[l]) = 65536 * upper
    BY <1>1, <1>3, <2>1
  <2> QED BY <2>2, MultipleOf65536
<1>7. Insn("label", id).label = id /\ l[1] = s /\ l[2] = w
      /\ <<s, o>>[1] = s /\ <<s, o>>[2] = o
  BY DEF Insn
<1> HIDE DEF l, id
<1>8. ASSUME insns'[l] = Insn("label", id) PROVE InsnDenotes(l)'
  <2>1. insns'[l].label = id
    BY <1>7, <1>8
  <2> QED BY <1>1, <1>2, <1>4, <1>5, <1>6, <1>7, <2>1 DEF InsnDenotes
<1>9. ASSUME insns'[<<s, w>>] = Insn("label", LabelId(s, o)) PROVE InsnDenotes(<<s, w>>)'
  BY <1>8, <1>9 DEF l, id
<1> QED BY <1>1, <1>9, OperandEffect

LEMMA InsnStepCases ==
  ASSUME Inv, [Next]_vars
  PROVE  \/ Early /\ insns' = insns
         \/ UNCHANGED <<raw, words, functions, insns>>
         \/ \E s \in Segs, w \in Nat, o \in Int : BranchDecoded(s, w, o)
         \/ \E s \in Segs, w \in Nat, i \in Operand : OtherDecoded(s, w, i)
         \/ \E f : \E s \in Segs, w \in Nat, o \in Int : LoadLabelled(f, s, w, o)
         \/ \E f : \E s \in Segs, w \in Nat, o \in Int, upper \in Int : OriLabelled(f, s, w, o, upper)
<1>1. Abort => UNCHANGED <<raw, words, functions, insns>>
  BY DEF Abort, linkVars, codeVars
<1>2. CASE LinkStep
  <2>1. CASE \/ SeekPointer \/ LinkPointer \/ LinkSplitPointer \/ PointersDone
             \/ SymbolsDone \/ VisitOutside
    BY <2>1 DEF SeekPointer, LinkPointer, LinkSplitPointer, PointersDone, SymbolsDone,
                VisitOutside, Abort, codeVars, Early
  <2>2. ASSUME NEW s, NEW w, LinkSymbol(s, w) PROVE Early /\ insns' = insns
    BY <2>2 DEF LinkSymbol, codeVars, Early
  <2> QED BY <1>2, <2>1, <2>2 DEF LinkStep
<1>3. CASE FindCodeSingle \/ FunctionsDone
  BY <1>3 DEF FindCodeSingle, FunctionsDone, Abort, codeVars, Early
<1>4. ASSUME NEW start, FindCode(start) PROVE Early /\ insns' = insns
  BY <1>4 DEF FindCode, Early
<1>5. ASSUME NEW tag, FindFunction(tag) PROVE Early /\ insns' = insns
  BY <1>5 DEF FindFunction, Early
<1>6. CASE NoDataZone \/ CodeBeforeFirstFunction \/ FpUnknown
  BY <1>1, <1>6 DEF NoDataZone, CodeBeforeFirstFunction, FpUnknown
<1>7. CASE DisassemblyDone \/ FpSkip \/ FpDone \/ OutputStep \/ UNCHANGED vars
  BY <1>1, <1>7 DEF DisassemblyDone, FpSkip, FpDone, OutputStep, SetOrderedLabelNames,
                    PrintDisassembly, vars, linkVars, codeVars
<1>8. ASSUME NEW f \in Range(functions[seg]), FpLoad(f) \/ FpAdd(f)
      PROVE  \/ UNCHANGED <<raw, words, functions, insns>>
             \/ \E s \in Segs, w \in Nat, o \in Int : LoadLabelled(f, s, w, o)
             \/ \E s \in Segs, w \in Nat, o \in Int, upper \in Int : OriLabelled(f, s, w, o, upper)
  BY <1>1, <1>8, FpLoadCases, FpAddCases
<1>9. CASE DecodeBranch \/ DecodeOther
  BY <1>1, <1>9, DecodeBranchCases, DecodeOtherCases
<1>10. CASE CodeStep
  BY <1>3, <1>4, <1>5, <1>6, <1>7, <1>8, <1>9, <1>10 DEF CodeStep
<1> QED BY <1>2, <1>7, <1>10 DEF Next, Finished

LEMMA InitDenotes == Init => DenotesInv
  BY DEF Init, DenotesInv

LEMMA NextKeepsDenotes ==
  Inv /\ InsnsInv /\ FunctionsInv /\ DenotesInv /\ [Next]_vars => DenotesInv'
<1> SUFFICES ASSUME Inv, InsnsInv, FunctionsInv, DenotesInv, [Next]_vars PROVE DenotesInv'
  OBVIOUS
<1>1. CASE Early /\ insns' = insns
  BY <1>1 DEF InsnsInv, DenotesInv
<1>2. CASE UNCHANGED <<raw, words, functions, insns>>
  BY <1>2, StepKeepsLabels, InsnStays DEF DenotesInv
<1> QED BY <1>1, <1>2, InsnStepCases, BranchDenotes, OtherDenotes, LoadDenotes, OriDenotes

(***************************************************************************)
(* What the decoder and process_fp_relative_links promise, for every file: *)
(* the label an instruction shows is the target its encoding means.        *)
(***************************************************************************)
THEOREM InstructionsCorrect == Spec => []InsnsDenoteTargets
<1>1. Init => Inv /\ LinksInv /\ InsnsInv /\ FunctionsInv /\ DenotesInv
  BY InitInv, InitLinks, InitInsns, InitFunctions, InitDenotes
<1>2. Inv /\ LinksInv /\ InsnsInv /\ FunctionsInv /\ DenotesInv /\ [Next]_vars
        => Inv' /\ LinksInv' /\ InsnsInv' /\ FunctionsInv' /\ DenotesInv'
  BY NextKeepsInv, NextKeepsLinks, NextKeepsInsns, NextKeepsFunctions, NextKeepsDenotes
<1> QED BY <1>1, <1>2, DenotesInvSuffices, PTL DEF Spec
=============================================================================
