---------------------------- MODULE ObjectLayout ----------------------------
(***************************************************************************)
(* The headers of object files (LinkedObjectFileCreation.cpp): which       *)
(* linker a file gets, where its segments and their link tables are, and   *)
(* what is checked about that.  The tables are read by LinkTable.          *)
(*                                                                         *)
(* Of a file there are the fields of its header and the bytes of its link  *)
(* region, which follow the header; offsets are those of the file.         *)
(* Constant fields (names, type tags, magic numbers) are only right or     *)
(* wrong.  Offsets and sizes are uint32_t, whose sums wrap; files have     *)
(* less than 4 GB.                                                         *)
(***************************************************************************)
EXTENDS LinkTable

CONSTANTS
  Sources, \* what the files in the format are written from
  Others,  \* any other files: [header, table, fits]
  align4   \* alignment of the link data of V4, 64 in the code

Segs == 0 .. 2

(* What a file was written from, if it was. *)
Origins == {<< >>} \cup {<<x>> : x \in Sources}

UInt32 == 0 .. Wrap - 1

(* Headers of V3 and V5, with a SegmentInfo for each segment, and of V4. *)
SegmentHeaders ==
  [version : {3, 5}, valid : BOOLEAN, n_segments : {1, 3}, game : {1, 2}, level_h : BOOLEAN,
   length : UInt32, info : [Segs -> [relocs : UInt32, data : UInt32, size : UInt32]],
   size : UInt32, source : Origins]

SingleHeaders ==
  [version : {4}, valid : BOOLEAN, code_size : UInt32, length : UInt32, length2 : UInt32,
   source : Origins]

(* sizeof(LinkHeaderV3): where the link region of a file in segments is. *)
HeaderSize == 128

(* In V4 a header of 16 bytes is before the words, and one of 12 behind them. *)
ASSUME FilesAssumption ==
  /\ Wrap > HeaderSize
  /\ \A f \in Others :
       /\ \/ f.header \in SegmentHeaders /\ HeaderSize + Len(f.table) <= f.header.size
          \/ f.header \in SingleHeaders /\ f.header.code_size + 28 + Len(f.table) + align4 <= Wrap
       /\ f.header.source = << >>
       /\ f.table \in Seq(Int) /\ \A i \in DOMAIN f.table : f.table[i] < Base
       /\ f.fits \in BOOLEAN
  /\ align4 \in Nat \ {0}

VARIABLES
  header,  \* with size, that of the file, and source, what it was written
           \* from, if it was, which the code does not see
  step,    \* "header", "segments", "linked", "accepted", "rejected", "abandoned"
  seg,     \* the segment being linked
  ends,    \* segment_link_ends; -1 if it was not assigned
  pushed   \* the number of words pushed to each segment

layout == <<header, step, seg, ends, pushed>>
vars == <<reading, layout>>

-----------------------------------------------------------------------------

AlignUp(n, a) == n + ((a - (n % a)) % a)

(* Sums of uint32_t. *)
Plus(a, b) == (a + b) % Wrap

align16(n) == AlignUp(n, 16) % Wrap

(* The byte of the link region at an offset of the file, and back. *)
AtOffset(o) == o - HeaderSize + 1
OffsetOf(i) == i + HeaderSize - 1

Info(s) == header.info[s]

LinkOffset(s) == Plus(Info(s).relocs, IF version = 5 THEN 80 ELSE 0)

DataOffset(s) == Plus(header.length, Info(s).data)

Go(to) == step' = to /\ UNCHANGED <<reading, header, seg, ends, pushed>>

Reject == Go("rejected")

(* The data region is filled: each segment begins where the one before ends. *)
DataFilled ==
  /\ \A s \in 0 .. 1 : align16(Plus(DataOffset(s), Info(s).size)) = DataOffset(s + 1)
  /\ align16(Plus(DataOffset(2), Info(2).size)) = header.size

(* A V5 file of one segment is left without segments. *)
Abandon ==
  /\ step = "header"
  /\ version = 5
  /\ header.n_segments = 1
  /\ Go("abandoned")

ReadHeader ==
  /\ step = "header"
  /\ version # 4
  /\ version = 5 => header.n_segments # 1
  /\ IF header.valid /\ header.n_segments = 3 /\ DataFilled THEN Go("segments") ELSE Reject

(* Mutant: the word that the size ends at is copied as well. *)
SizeWithLastWord(s) == AlignUp(Info(s).size, 4) + 4

(***************************************************************************)
(* The size of a segment: V5, and V3 in the second game, count the words   *)
(* it begins; one file of the first game is a byte short.                  *)
(***************************************************************************)
SegmentSize(s) ==
  IF version = 5 \/ header.game = 2 THEN AlignUp(Info(s).size, 4) % Wrap
  ELSE IF header.level_h /\ s = 0 THEN Plus(Info(s).size, 1)
  ELSE Info(s).size

(* Where the last word of a segment is. *)
LastWord(s) == Plus(DataOffset(s) - 4, SegmentSize(s))

(* Mutant: the last word is taken to be behind the first. *)
WordsBetween(s) == (LastWord(s) + 4 - DataOffset(s)) \div 4

(* How many words are copied: none if the last is before the first. *)
WordsCopied(s) ==
  IF LastWord(s) < DataOffset(s) THEN 0 ELSE (LastWord(s) + 4 - DataOffset(s)) \div 4

SkipSegment ==
  /\ step = "segments"
  /\ version # 4
  /\ seg >= 0
  /\ Info(seg).size = 0
  /\ seg' = seg - 1
  /\ UNCHANGED <<reading, header, step, ends, pushed>>

(* The words of the segment are copied, from the first to the last, which    *)
(* are in the file, and its link table is begun.                             *)
BeginSegment ==
  /\ step = "segments"
  /\ version # 4
  /\ seg >= 0
  /\ pc = "idle"
  /\ Info(seg).size # 0
  /\ IF \/ DataOffset(seg) % 4 # 0 \/ SegmentSize(seg) % 4 # 0
        \/ DataOffset(seg) >= header.size \/ LastWord(seg) >= header.size
     THEN Reject
     ELSE /\ pushed' = [pushed EXCEPT ![seg] = WordsCopied(seg)]
          /\ Begin(AtOffset(LinkOffset(seg)), WordsCopied(seg))
          /\ UNCHANGED <<header, step, seg, ends>>

SegmentLinked ==
  /\ step = "segments"
  /\ version # 4
  /\ End
  /\ ends' = [ends EXCEPT ![seg] = OffsetOf(ptr)]
  /\ seg' = seg - 1
  /\ UNCHANGED <<header, step, pushed>>

(* The table of a segment ends where that of the next begins; a segment     *)
(* that does not exist has an empty one, of two bytes.                      *)
LinkFilled(s) ==
  LinkOffset(s + 1) = IF Info(s).size # 0 THEN Plus(ends[s], 1) ELSE Plus(LinkOffset(s), 2)

(* The last table ends before the data; nothing is known of the end of a    *)
(* segment that does not exist.                                             *)
LastTableFilled == align16(Plus(ends[2], 2)) = DataOffset(0)

CheckEnds ==
  /\ step = "segments"
  /\ version # 4
  /\ seg < 0
  /\ \/ /\ LinkOffset(0) = HeaderSize
        /\ LinkFilled(0)
        /\ LinkFilled(1)
        /\ Info(2).size # 0 => LastTableFilled
        /\ Go("accepted")
     \/ /\ \/ LinkOffset(0) # HeaderSize
           \/ ~LinkFilled(0)
           \/ ~LinkFilled(1)
           \/ Info(2).size = 0
           \/ ~LastTableFilled
        /\ Reject

(***************************************************************************)
(* V4 is one segment between a header and the link data, with a header of  *)
(* 12 bytes of its own; what follows the link data is zero.  The second    *)
(* header is where the size of the segment says, or the file is rejected.  *)
(***************************************************************************)
ReadHeader4 ==
  /\ step = "header"
  /\ version = 4
  /\ IF ~header.valid \/ header.code_size % 4 # 0 \/ header.length2 # header.length
     THEN Reject
     ELSE /\ step' = "segments"
          /\ pushed' = [pushed EXCEPT ![0] = header.code_size \div 4]
          /\ seg' = 0
          /\ Begin(1, header.code_size \div 4)
          /\ UNCHANGED <<header, ends>>

LinkLength(n) == AlignUp(n, align4)

Linked4 ==
  /\ step = "segments"
  /\ version = 4
  /\ End
  /\ step' = IF /\ header.length2 = LinkLength(12 + ptr)
                /\ \A i \in ptr .. Len(table) : table[i] = 0
             THEN "accepted" ELSE "rejected"
  /\ UNCHANGED <<header, seg, ends, pushed>>

-----------------------------------------------------------------------------
(* The format *)

Zeros(n) == [i \in 1 .. n |-> 0]

(* The link tables of a file, one after the other. *)
TableOf(x, s) == Table(x.version, x.tables[s])

Region(x) == TableOf(x, 0) \o TableOf(x, 1) \o TableOf(x, 2)

(* The bytes of the region before the table of a segment. *)
BytesBefore(x, s) ==
  CASE s = 0 -> 0
    [] s = 1 -> Len(TableOf(x, 0))
    [] s = 2 -> Len(TableOf(x, 0)) + Len(TableOf(x, 1))

(* Segments begin on lines. *)
Line(n) == AlignUp(n, 16)

DataStart(x) == Line(HeaderSize + Len(Region(x)) + 1)

SegmentStart(x, s) ==
  CASE s = 0 -> DataStart(x)
    [] s = 1 -> Line(DataStart(x) + x.sizes[0])
    [] s = 2 -> Line(Line(DataStart(x) + x.sizes[0]) + x.sizes[1])

FileEnd(x) == Line(SegmentStart(x, 2) + x.sizes[2])

InSegments(x) ==
  LET start == DataStart(x)
  IN [header |-> [version |-> x.version, valid |-> TRUE, n_segments |-> 3, game |-> x.game,
                  level_h |-> x.level_h, length |-> start,
                  info |-> [s \in Segs |->
                              [relocs |-> BytesBefore(x, s)
                                            + (IF x.version = 5 THEN 48 ELSE HeaderSize),
                               data |-> SegmentStart(x, s) - start, size |-> x.sizes[s]]],
                  size |-> FileEnd(x), source |-> <<x>>],
      table |-> Region(x) \o Zeros(start - HeaderSize - Len(Region(x))),
      fits |-> TRUE]

(* A V4 file with some words of data, and zeros after its link data. *)
InOne(x) ==
  LET tbl == TableOf(x, 0)
      length == LinkLength(12 + Len(tbl))
  IN [header |-> [version |-> 4, valid |-> TRUE, code_size |-> 4 * x.words, length |-> length,
                  length2 |-> length, source |-> <<x>>],
      table |-> tbl \o Zeros(length - 12 - Len(tbl) + x.zeros),
      fits |-> TRUE]

FileOf(x) == IF x.version = 4 THEN InOne(x) ELSE InSegments(x)

(* Words of a segment; its last one may be begun only. *)
WordsOf(x, s) == AlignUp(x.sizes[s], 4) \div 4

(***************************************************************************)
(* A file that can be written.  A segment that does not exist has an empty *)
(* table; in V3, the first game has segments of whole words, but for the   *)
(* one that is a byte short.  Files have at most 2 GB.                     *)
(***************************************************************************)
IsSegmented(x) ==
  /\ x.version \in {3, 5} /\ x.game \in {1, 2} /\ x.level_h \in BOOLEAN
  /\ x.sizes \in [Segs -> Nat]
  /\ DOMAIN x.tables = Segs
  /\ \A s \in Segs :
       /\ IsTable(x.version, x.tables[s], WordsOf(x, s))
       /\ x.sizes[s] = 0 => x.tables[s].bounds = << >> /\ x.tables[s].symbols = << >>
       /\ x.sizes[s] # 0 /\ x.version = 3 /\ x.game = 1 =>
            x.sizes[s] % 4 = IF x.level_h /\ s = 0 THEN 3 ELSE 0
  /\ 2 * FileEnd(x) <= Wrap

IsSingle(x) ==
  /\ x.version = 4 /\ x.words \in Nat /\ x.zeros \in Nat
  /\ DOMAIN x.tables = {0}
  /\ IsTable(4, x.tables[0], x.words)
  /\ 2 * (4 * x.words + 28 + Len(TableOf(x, 0)) + align4 + x.zeros) <= Wrap

ASSUME SourcesAssumption == \A x \in Sources : IsSegmented(x) \/ IsSingle(x)

-----------------------------------------------------------------------------
Init ==
  /\ \E f \in {FileOf(x) : x \in Sources} \cup Others :
       header = f.header /\ table = f.table /\ version = f.header.version /\ fits = f.fits
  /\ Idle
  /\ step = "header"
  /\ seg = 2
  /\ ends = [s \in Segs |-> -1]
  /\ pushed = [s \in Segs |-> 0]

Finished == step \in {"accepted", "rejected", "abandoned"} \/ pc \in {"lost", "refused"}

Next ==
  \/ Abandon \/ ReadHeader \/ SkipSegment \/ BeginSegment \/ SegmentLinked
  \/ CheckEnds \/ ReadHeader4 \/ Linked4
  \/ ReadTable /\ UNCHANGED layout
  \/ Finished /\ UNCHANGED vars

(* The linker runs on one thread and waits for nothing. *)
Spec == Init /\ [][Next]_vars /\ WF_vars(Next)

-----------------------------------------------------------------------------
(* Properties *)

(* Where the linker is, and what it has of the file. *)
TypeOK ==
  /\ TableTypeOK
  /\ header \in SegmentHeaders \cup SingleHeaders
  /\ step \in {"header", "segments", "accepted", "rejected", "abandoned"}
  /\ seg \in -1 .. 2
  /\ ends \in [Segs -> Int]
  /\ pushed \in [Segs -> Nat]

Written == header.source # << >>

Source == header.source[1]

(***************************************************************************)
(* A table in the format of the comments is read to its last byte, no word *)
(* of it is refused, and what it says is linked.                           *)
(***************************************************************************)
ReadsBack ==
  Written =>
    /\ pc \notin {"lost", "refused"}
    /\ pc = "done" =>
         /\ ptr = from + Len(TableOf(Source, seg)) - 1
         /\ LinkedIs(Source.tables[seg])

(***************************************************************************)
(* A file in the format is accepted, whichever segments it has; but if its *)
(* last segment does not exist that is not certain, for then a variable    *)
(* that was never set is compared (UnsetEnd).                              *)
(***************************************************************************)
UnsetEnd == version # 4 /\ header.info[2].size = 0

WrittenIsAccepted ==
  Written /\ Finished => step = "accepted" \/ (step = "rejected" /\ UnsetEnd)

(***************************************************************************)
(* A file in the format is accepted, with every pointer and every symbol   *)
(* reference of its tables linked, and no other; but for tables that end   *)
(* their pointers on the top byte, which the code does not read so.        *)
(***************************************************************************)
WrittenIsRead ==
  (Written => \A s \in DOMAIN Source.tables : ~EndsOnTop(Source.tables[s]))
    => ReadsBack /\ WrittenIsAccepted

(* The sums of the header that say where segments begin and end, rounded up, *)
(* do not wrap.                                                              *)
SumsFit == \A s \in Segs : header.length + Info(s).data + Info(s).size + 32 <= Wrap

(***************************************************************************)
(* Whatever the header says, the words of a segment are in the file; and   *)
(* in a file that is accepted tables are read from places in the order of  *)
(* their segments.  If the header's sums do not wrap, no word is taken for *)
(* two segments or for link data: the words of a segment begin where its   *)
(* data are, contain them, and end before those of the next, and tables    *)
(* are before all data, if the last of them was checked.                   *)
(***************************************************************************)
SegmentsDisjoint ==
  version # 4 =>
    /\ \A s \in Segs : pushed[s] # 0 => DataOffset(s) + 4 * pushed[s] <= header.size
    /\ step = "accepted" =>
         \A s \in Segs : ends[s] # -1 =>
           /\ HeaderSize <= LinkOffset(s) /\ LinkOffset(s) <= ends[s]
           /\ \A t \in s + 1 .. 2 : ends[s] < LinkOffset(t)
    /\ step = "accepted" /\ SumsFit =>
         \A s \in Segs :
           /\ 4 * pushed[s] >= Info(s).size
           /\ s # 2 => DataOffset(s) + 4 * pushed[s] <= DataOffset(s + 1)
           /\ ends[s] # -1 => ends[s] < DataOffset(0) \/ UnsetEnd

(* Whatever the bytes are, the linker stops. *)
Termination == <>Finished
=============================================================================
