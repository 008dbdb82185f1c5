----------------------------- MODULE DgoReader -----------------------------
(***************************************************************************)
(* Reading of DGO archives (get_objs_from_dgo of ObjectFileDB.cpp, with    *)
(* BinaryReader), composed with the database it fills: which object files  *)
(* arrive, and in which order, is what the reader finds in the bytes.      *)
(*                                                                         *)
(* A byte is <<kind, number, thing>>.  A word has its value in its first   *)
(* byte, a compressed chunk its length and what it decompresses to.  A     *)
(* header has header_size bytes, 64 in the code, and its fields in the     *)
(* first.  Bytes that are none of these where the reader expects one end   *)
(* the model, as a failed assert does.                                     *)
(***************************************************************************)
EXTENDS ObjectFileDB, SequencesExt

CONSTANTS
  MAX_CHUNK_SIZE,  \* 0x8000 in the code
  header_size,     \* sizeof(DgoHeader)
  Packings         \* ways to pack an archive: [chunk, raw, zeros]

(* A content is its bytes, so one at most is empty. *)
ASSUME ReaderAssumption ==
  /\ MAX_CHUNK_SIZE \in Nat /\ MAX_CHUNK_SIZE > 0
  /\ header_size \in Nat /\ header_size > 4
  /\ \A p \in Packings : /\ p.chunk \in 1 .. MAX_CHUNK_SIZE - 1
                         /\ p.raw \subseteq Nat
                         /\ p.zeros \in Nat
  /\ \A c, d \in Contents : Size[c] = 0 /\ Size[d] = 0 => c = d

VARIABLES
  archives,  \* what each DGO was made of, chosen when it is opened
  intact,    \* its bytes are as the format has them (never read by the code)
  step,      \* "open", "chunks", "header", "objects"
  input,     \* dgo_data
  seek,      \* of the BinaryReader in use
  plain,     \* decompressed_data
  output,    \* output_offset
  left       \* object files still to read

reader == <<archives, intact, step, input, seek, plain, output, left>>
allVars == <<vars, reader>>

ReaderInit ==
  /\ Init
  /\ archives = [d \in Dgos |-> << >>]
  /\ intact = TRUE
  /\ step = "open"
  /\ input = << >>
  /\ seek = 0
  /\ plain = << >>
  /\ output = 0
  /\ left = 0

-----------------------------------------------------------------------------
(* The format *)

Byte(kind, number, thing) == <<kind, number, thing>>
Zero == Byte("zero", 0, << >>)
Filler == Byte("byte", 0, << >>)

Fill(n) == [i \in 1 .. n |-> Filler]
Zeros(n) == [i \in 1 .. n |-> Zero]

Word(n) == <<Byte("word", n, << >>)>> \o Fill(3)
Magic == [i \in 1 .. 4 |-> Byte("oZlB", i, << >>)]

DgoHeader(size, name) == <<Byte("header", size, <<name>>)>> \o Fill(header_size - 1)

ObjectBytes(c) == [i \in 1 .. Size[c] |-> Byte("data", i, <<c>>)]

(* An archive that has not been packed; count may differ from its files. *)
Plain(name, count, fs) ==
  DgoHeader(count, name) \o
    FlattenSeq([i \in DOMAIN fs |-> DgoHeader(Size[fs[i].data], fs[i].name)
                                      \o ObjectBytes(fs[i].data)])

Pieces(s) ==
  [k \in 1 .. (Len(s) + MAX_CHUNK_SIZE - 1) \div MAX_CHUNK_SIZE |->
     SubSeq(s, MAX_CHUNK_SIZE * (k - 1) + 1,
            IF MAX_CHUNK_SIZE * k > Len(s) THEN Len(s) ELSE MAX_CHUNK_SIZE * k)]

(* A piece that is not compressed takes the maximum size; the last one, which *)
(* may be shorter, has then bytes after it (tail).                            *)
Chunk(p, tail, k, piece) ==
  IF k \in p.raw /\ (Len(piece) = MAX_CHUNK_SIZE \/ tail)
  THEN Word(MAX_CHUNK_SIZE + k) \o piece \o Fill(MAX_CHUNK_SIZE - Len(piece))
  ELSE Word(p.chunk) \o <<Byte("lzo", p.chunk, piece)>> \o Fill(p.chunk - 1)

Aligned(s) == s \o Zeros((4 - (Len(s) % 4)) % 4)

(* Chunks are aligned to words; words that are zero may precede one. *)
Packed(p, tail, s) ==
  LET pieces == Pieces(s)
  IN Magic \o Word(Len(s)) \o
       FlattenSeq([k \in DOMAIN pieces |->
                     Zeros(4 * p.zeros) \o Aligned(Chunk(p, tail, k, pieces[k]))])

IntactArchives(name, fs) ==
  LET s == Plain(name, Len(fs), fs) IN {s} \cup {Packed(p, FALSE, s) : p \in Packings}

(* The archive of another DGO, with a wrong count of files, cut short, or    *)
(* with a last chunk that decompresses to too much.                          *)
DamagedArchives(name, other, fs) ==
  LET s == Plain(name, Len(fs), fs)
      cut(t, n) == SubSeq(t, 1, Len(t) - n)
  IN {Plain(other, Len(fs), fs), Plain(name, Len(fs) + 1, fs), cut(s, 1)}
       \cup (IF fs = << >> THEN {} ELSE {Plain(name, Len(fs) - 1, fs)})
       \cup {cut(Packed(p, FALSE, s), n) : p \in Packings, n \in {1, 5}}
       \cup {Packed(p, TRUE, s) : p \in Packings}

-----------------------------------------------------------------------------
(* BinaryReader *)

(* Whether n more bytes can be read. *)
Ahead(s, n) == seek + n <= Len(s)

Here(s) == s[seek + 1]

(* read<uint32_t>; -1 if the bytes are not a word. *)
WordAt(s) ==
  IF Here(s)[1] = "word" THEN Here(s)[2]
  ELSE IF SubSeq(s, seek + 1, seek + 4) = Zeros(4) THEN 0 ELSE -1

-----------------------------------------------------------------------------
(* Decompression *)

IsPacked(s) == SubSeq(s, 1, 4) = Magic

(* The files of an archive, within the bound of the database. *)
FileLists ==
  SeqOf([name : Names, data : Contents], MaxObjs - stats.total)

OpenArchive ==
  LET name == DgoList[dgo]
  IN /\ Reading
     /\ step = "open"
     /\ \E fs \in FileLists :
          /\ archives' = [archives EXCEPT ![name] = fs]
          /\ \/ intact' = TRUE /\ input' \in IntactArchives(name, fs)
             \/ intact' = FALSE
                /\ \E other \in Dgos \ {name} : input' \in DamagedArchives(name, other, fs)
     /\ IF IsPacked(input')
        THEN /\ step' = "chunks"
             /\ seek' = 8
             /\ plain' = Zeros(input'[5][2])
        ELSE /\ step' = "header"
             /\ seek' = 0
             /\ plain' = input'
     /\ output' = 0
     /\ left' = 0
     /\ UNCHANGED vars

SkipZero ==
  /\ Reading
  /\ step = "chunks"
  /\ Ahead(input, 4)
  /\ WordAt(input) = 0
  /\ seek' = seek + 4
  /\ UNCHANGED <<vars, archives, intact, step, input, plain, output, left>>

IsRaw == WordAt(input) >= MAX_CHUNK_SIZE

(* The bytes a chunk takes, after its size. *)
ChunkSize == IF IsRaw THEN MAX_CHUNK_SIZE ELSE WordAt(input)

(* The bytes of the chunk are there; a compressed one must decompress. *)
IsChunk ==
  /\ Ahead(input, 4)
  /\ WordAt(input) > 0
  /\ Ahead(input, 4 + ChunkSize)
  /\ ~IsRaw => input[seek + 5][1] = "lzo" /\ input[seek + 5][2] = ChunkSize

(* What the chunk adds to the output. *)
ChunkData ==
  IF IsRaw THEN SubSeq(input, seek + 5, seek + 4 + MAX_CHUNK_SIZE)
  ELSE input[seek + 5][3]

(* Mutant: the next chunk is not sought at a word. *)
NotAligned(n) == n

AlignUp(n) == n + ((4 - (n % 4)) % 4)

(***************************************************************************)
(* A chunk is decompressed or copied to the output offset, as far as it    *)
(* goes: writing past the end of the output is undefined, and may also be  *)
(* noticed (Unreadable) or not.                                            *)
(***************************************************************************)
CopyChunk ==
  LET piece == ChunkData
      end == output + Len(piece)
      next == seek + 4 + ChunkSize
      full == [i \in DOMAIN plain |->
                 IF i \in output + 1 .. end THEN piece[i - output] ELSE plain[i]]
  IN /\ Reading
     /\ step = "chunks"
     /\ IsChunk
     /\ IF end >= Len(plain)
        THEN /\ step' = "header"
             /\ plain' = full
             /\ input' = << >>
             /\ seek' = 0
             /\ output' = 0
        ELSE /\ seek' = AlignUp(next)
             /\ plain' = full
             /\ output' = end
             /\ UNCHANGED <<step, input>>
     /\ UNCHANGED <<vars, archives, intact, left>>

-----------------------------------------------------------------------------
(* The files of the archive *)

IsHeader ==
  /\ Ahead(plain, header_size)
  /\ Here(plain)[1] = "header"

(* The header's name must be that of the file. *)
ReadHeader ==
  /\ Reading
  /\ step = "header"
  /\ IsHeader
  /\ Here(plain)[3] = <<DgoList[dgo]>>
  /\ left' = Here(plain)[2]
  /\ seek' = seek + header_size
  /\ step' = "objects"
  /\ UNCHANGED <<vars, archives, intact, input, plain, output>>

(* The object file n at the reader, with content c. *)
ObjectIs(n, c) ==
  /\ IsHeader
  /\ Ahead(plain, header_size + Here(plain)[2])
  /\ Here(plain)[3] = <<n>>
  /\ SubSeq(plain, seek + header_size + 1, seek + header_size + Here(plain)[2]) = ObjectBytes(c)

(* Mutant: one file more than the header says is tried. *)
ReadObjectPastCount(n, c) ==
  /\ Reading
  /\ step = "objects"
  /\ left >= 0
  /\ ObjectIs(n, c)
  /\ (\E i \in DOMAIN byName[n] : AddKnown(n, c, i)) \/ AddNew(n, c)
  /\ seek' = seek + header_size + Here(plain)[2]
  /\ left' = left - 1
  /\ UNCHANGED <<archives, intact, step, input, plain, output>>

ReadObject(n, c) ==
  /\ Reading
  /\ step = "objects"
  /\ left > 0
  /\ ObjectIs(n, c)
  /\ (\E i \in DOMAIN byName[n] : AddKnown(n, c, i)) \/ AddNew(n, c)
  /\ seek' = seek + header_size + Here(plain)[2]
  /\ left' = left - 1
  /\ UNCHANGED <<archives, intact, step, input, plain, output>>

Close ==
  /\ step' = "open"
  /\ input' = << >>
  /\ seek' = 0
  /\ plain' = << >>
  /\ UNCHANGED <<archives, intact, output, left>>

CloseArchive ==
  /\ step = "objects"
  /\ left = 0
  /\ seek = Len(plain)
  /\ NextDgo
  /\ Close

(* An assert fails: there are too few bytes, or not those that should be.   *)
(* Also an overrun of the output may end the program.                       *)
Unreadable ==
  /\ Reading
  /\ \/ /\ step = "chunks"
        /\ IF Ahead(input, 4) /\ WordAt(input) = 0 THEN FALSE
           ELSE IsChunk => output + Len(ChunkData) > Len(plain)
     \/ /\ step = "header"
        /\ IsHeader => Here(plain)[3] # <<DgoList[dgo]>>
     \/ /\ step = "objects"
        /\ IF left = 0 THEN seek # Len(plain)
           ELSE ~\E n \in Names, c \in Contents : ObjectIs(n, c)
  /\ Fail
  /\ UNCHANGED reader

-----------------------------------------------------------------------------

ReaderNext ==
  \/ OpenArchive \/ SkipZero \/ CopyChunk \/ ReadHeader
  \/ \E n \in Names, c \in Contents : ReadObject(n, c)
  \/ CloseArchive \/ Unreadable
  \/ (WriteListing \/ Visit \/ PassDone) /\ UNCHANGED reader
  \/ Running /\ Fail /\ UNCHANGED reader
  \/ Finished /\ UNCHANGED allVars

(* Still one thread. *)
ReaderSpec == ReaderInit /\ [][ReaderNext]_allVars /\ WF_allVars(ReaderNext)

-----------------------------------------------------------------------------
(* Properties *)

(* The database has its shape, and the reader stays inside the bytes it reads. *)
ReaderTypeOK ==
  /\ TypeOK
  /\ archives \in [Dgos -> Seq([name : Names, data : Contents])]
  /\ intact \in BOOLEAN
  /\ step \in {"open", "chunks", "header", "objects"}
  /\ seek \in 0 .. (IF step = "chunks" THEN Len(input) + 3 ELSE Len(plain))
  /\ output \in 0 .. Len(plain)
  /\ left \in Nat

(***************************************************************************)
(* The database is given the files an archive was made of and no others,   *)
(* in their order, whatever the packing and whatever damage; and all of    *)
(* them when the archive is left.                                          *)
(***************************************************************************)
FilesOfArchive ==
  \A k \in DOMAIN DgoList :
    LET d == DgoList[k] IN
    /\ Len(onDisk[d]) <= Len(archives[d])
    /\ onDisk[d] = SubSeq(archives[d], 1, Len(onDisk[d]))
    /\ dgo > k => onDisk[d] = archives[d]

(* An archive in the format, packed or not, is read without a failure. *)
IntactIsRead == intact /\ failed => pass > 0

(* What an archive was made of is what the database is given, and an       *)
(* archive in the format is read to its end.                               *)
ArchivesAreRead == FilesOfArchive /\ IntactIsRead
=============================================================================
