# Verification of jak-disassembler

TLA+ models of the disassembler's own logic, TLC configurations that check them
on small instances, and proofs checked by TLAPS. All paths below are those of
the repository's `src/`.

## The program

`jak_disassembler <config> <in> <out>` is a batch program on one thread. It
reads the DGO archives a configuration names, keeps one copy of each object
file, and runs passes over all of them (`main.cpp`):

    read DGOs -> dgo.txt -> process_link_data -> find_code -> process_labels
      -> [scripts] -> [hex dumps] -> [blocks, prologues] -> names of functions
      -> [disassembly]

Nothing runs concurrently and nothing is persisted. What makes it hard is order:
state that one pass leaves (label ids, word kinds, functions, blocks, types) is
used by later ones long after, objects depend on what passes did to *other*
objects, input is untrusted binary data, and most errors are asserts that end
the whole run.

| Component | State | Operations | Interaction |
|---|---|---|---|
| `LinkedObjectFile` | `words_by_seg`, `labels`, `label_per_seg_by_offset`, `offset_of_data_zone_by_seg`, `functions_by_seg`, `stats` | linking of words, `find_code`, `find_functions`, `disassemble_functions`, `process_fp_relative_links`, `set_ordered_label_names`, printing | driven by the linkers and by the passes of the database |
| Linkers V3, V4, V5 (`LinkedObjectFileCreation.cpp`) | cursors into link table and data | decode the two parts of a link table | call `LinkedObjectFile` and `TypeInfo` |
| `ObjectFileDB` | `obj_files_by_name`, `obj_files_by_dgo`, `obj_file_order`, `stats` | `add_obj_from_dgo`, `for_each_obj`, the passes | calls everything else with callbacks |
| DGO reader | cursor into the archive | decompression, headers | `add_obj_from_dgo` |
| `Function`, `BasicBlocks` | instructions, `basic_blocks`, `prologue`, `guessed_name` | `find_blocks_in_function`, `analyze_prologue`, `check_epilogue`, `find_global_function_defs` | reads labels; informs `TypeInfo` |
| `TypeInfo` | `m_symbols`, `m_types` | `inform_*` | shared by all object files |
| Script printing | `already_printed`, the recursion | `print_scripts`, `to_form_script` | reads words and labels |
| Pretty printer (`LispPrint`) | list of nodes, line numbers, offsets | `toTokenList`, `toStringPretty` | called for each script |
| Instruction decoder, `Instruction` | tables of opcodes and of their operands | `decode_instruction`, `to_string` | makes labels of branch targets; looks at the links of words |
| Configuration, files, CRC, timer | - | reading and writing | what they deliver is a constant of the models |

## Modules

| Module | Models | Properties |
|---|---|---|
| `LinkedObjectFile` | one object file through all passes | `TypeOK`, `LabelTable`, `LinksDenoteTargets`, `PointersAreKept`, `InsnsDenoteTargets`, `FunctionsTileCode`, `NamesFollowAddresses`, `LabelsStay`, `Termination` |
| `CrossReferences` | abstract: places refer to labelled addresses for ever | implemented by `LinkedObjectFile` |
| `LinkTable` | the bytes of a link table, read by the three linkers | `VisitsAscend` |
| `ObjectLayout` | headers, segments and their tables, in files of V3, V4 and V5 | `TypeOK`, `WrittenIsRead`, `SegmentsDisjoint`, `Termination` |
| `ObjectFileDB` | the database and the passes over it | `TablesConsistent`, `PassesInOrder`, `OutputComplete` |
| `DgoReader` | archives, chunks and the files in them | `ReaderTypeOK`, `ArchivesAreRead` |
| `UniqueObjects` | abstract: each name has its different contents | implemented by `ObjectFileDB`, contents told apart by size and CRC |
| `InstructionDecode` | one word: opcode, operands, link, text | `TypeOK`, `AcceptedIsPrinted`, `ReferencesAreOperands`, `TextTellsWord`, `OperandsAreShown` |
| `FunctionAnalysis` | blocks, prologue, epilogue of one function | `CompiledIsDecoded`, `FrameReadsBack`, `BlocksDivideCode`, `DelaySlotsGrouped` |
| `GlobalNames` | `TypeInfo` and the naming of functions over all files | `TypeOK`, `KnowledgeStays`, `TypesAreKnown`, `NamedAfterStores` |
| `Scripts` | `print_scripts` of one segment | `TextIsReading`, `ListsFromTheirHeads` |
| `PrettyPrinter` | tokens of a form, line breaks, indentation | `IndentationShowsNesting`, `BrokenAsNeeded`, `LineNumbersServe`, `BreaksLists` |
| `ScriptPrinter` | both: each list is read, made a form and laid out | `Termination` |

Some properties are conjunctions of named parts:

    TablesConsistent      OrderCoversNames, ListingResolves, UniqueNames, ReferenceCounts
    ArchivesAreRead       FilesOfArchive, IntactIsRead
    WrittenIsRead         ReadsBack, WrittenIsAccepted
    BlocksDivideCode      BlocksTile, BranchesEnterBlocks
    TypesAreKnown         TablesAgree, LinksAreKnown
    ListsFromTheirHeads   AllPairsPrinted, HeadsOnly
    BrokenAsNeeded        BrokenIfTooLong, OverfullLinesAreBroken
    ReferencesAreOperands BranchesHaveTargets, LinksAreShown

`MCLink`, `MCCode`, `MCV4`, `MCDatabase`, `MCTable`, `MCDecode`, `MCFunction`,
`MCNames` and `MCScripts` give the constants values for TLC; the modules whose names end
in `_proof` hold the theorems, listed under Proofs, and `SequenceFacts` lemmas. Operators whose comment begins with
"Mutant" are plausible bugs of the code: replacing the definition after them makes
a property fail, which shows that the property depends on it. No specification
uses them.

### How the modules meet

- `ObjectLayout` extends `LinkTable`: the header says where a table begins, the
  table is read to its end, and where that was is compared with the next header
  field. A step of the composition is a step of one of them.
- `DgoReader` extends `ObjectFileDB`: `ReadObject` calls `AddKnown` or `AddNew` with
  the name and the content it finds in the bytes, so which files the database
  gets is the reader's doing, not a choice of the model.
- `ScriptPrinter` extends `Scripts` and `PrettyPrinter`, as `print_scripts` calls
  `toStringPretty`: what is laid out are the tokens of the list just read, and the
  next list is sought when it has been printed.
- `LinkTable` says which words the linkers visit and in which order;
  `LinkedObjectFile` takes any such choice (`SeekPointer` or one of the two linking
  actions at each word; symbol references ascending until an entry ends), and
  `VisitsAscend` is what allows it. A reference of V4 or V5 that goes back is there as
  one more entry of the same symbol; a visit outside the segment is `VisitOutside`.
  In the other direction, `LinkTable` knows of the contents of words only that they all
  are what their place in the table calls for, or not (`fits`), in which case an
  assertion may stop the program at any visit (`Refused`); which words those are is
  what `LinkedObjectFile` has.
- `LinkedObjectFile`, `FunctionAnalysis`, `GlobalNames` and `ScriptPrinter` stand for
  what one step `Visit` of `ObjectFileDB` does to one object; `PassesInOrder` is what
  allows `GlobalNames` to link all files before it names any function.
- `InstructionDecode` says which operand holds the target of a branch or the link
  of a word; `LinkedObjectFile` relies on it when it turns targets into labels, and
  `ReferencesAreOperands` is the assertion of `get_label_target`.

### How state and actions correspond

*LinkedObjectFile.* `raw` is the `data` of the words, `words` the rest of
`LinkedWord`; `labelAt` is `label_per_seg_by_offset`; `insns` is the immediate
operand of each decoded instruction. `pc`, `seg` and `at` are the running pass
and its loop. A raw word is its 32 bits, read as the signed int that
`pointer_link_word` gets, and the class of the opcode they encode. Everything the linkers
test is taken from the number: the zero top byte, `0xffffffff`, the low half, and the
target of a pointer (`Address`), so a word from `0x80000000` on is a pointer before the
segment, as in the code, and gets a label there. A test on registers (the look-back of
fp-relative adds) can go
either way. An assert or `vector::at` out of range is `Abort`, a visit past the end of a
segment included (`VisitOutside`). One action is
one word for the linkers and the decoder, one segment for `find_code`, one
function for `find_functions`, one pass for the naming of labels.

*LinkTable.* One byte of the pointer part is one action (the code's two nested
loops with the flag `fixing`); one symbol head, one reference. The bytes of a
name are one negative number; references are recorded with the number of their
entry, since a name may have several. Offsets are `uint32_t`: sums wrap at `Wrap`, four
bytes' worth, so a seek of `c_symlink2` may go back. A word is linked where it is
visited, one number for a run: outside the segment (`limit` words, and less than 2 GB,
for the offset is passed as an int) that throws; in a file whose words are not what
the table calls for (`fits`), or at a word linked before, an assertion may fail, and
both end in `refused`. A reader that takes a name for a number or passes
the end of the table, or a plain byte for a name, ends in `lost`: what the code
then does depends on bytes that are not modelled.

*ObjectLayout.* The fields of a header that have one right value (magic numbers,
names, tags) are only right or wrong (`valid`); offsets and sizes are `uint32_t`, with
sums that wrap (`Plus`, `align16`). `WordsCopied` is the loop that copies a segment, from
its first word to `LastWord`: none when a wrapped sum puts the last before the first.
A V3 or V5 header with such sums may be accepted with a segment of no words, or one over
link tables, which `SegmentsDisjoint` says. In V4, a code size near the limit always ends
in `data.at`, so files (which are smaller than 4 GB) have none.
`ReadHeader`, `SkipSegment`, `BeginSegment`, `SegmentLinked` and `CheckEnds` are the
stages of the V3 and V5 linkers from the last segment to the first, `ReadHeader4`
and `Linked4` those of V4. `ends` is `segment_link_ends`, with -1 for an element
that is never assigned: a comparison with it can go either way. Files are those
written by the format (`FileOf`) from `Sources`, and `Others`, of any header and
bytes. A file carries what it was written from (`header.source`, empty for others);
no action reads that. Rejected is a failed assert.

*ObjectFileDB.* `AddKnown` and `AddNew` are the two ways through
`add_obj_from_dgo`; `Visit` is one call of the callback in `for_each_obj`.
Sizes and CRCs are functions of the content; two contents of the instance
collide, and `UniqueObjects` is implemented on what sizes and CRCs tell apart.
The switches are a variable that never changes, to check several configurations
at once. `Fail` is any assert or exception inside the callback or the reader.

*DgoReader.* `seek` is the `BinaryReader`'s cursor, in the packed bytes and then in
the plain ones. A byte has a kind and a number; a compressed chunk carries what it
decompresses to, since decompression is the library's. `CopyChunk` is one round of
the loop over chunks with its realignment, `SkipZero` the loop over zero words,
`ReadObject` one round of the loop over files with the header, the data and
`add_obj_from_dgo`. `OpenArchive` chooses an archive, its packing and perhaps
damage to it: cut short, a wrong count of files, the name of another DGO, a last
chunk that is too long; `intact`
and `archives` record the choice for the properties.

*InstructionDecode.* A word is its six fields. The tables of opcodes are laid out
as the processor's manual has them, eight to a row, where the code has nested
switches; the four COP2 opcodes that differ by the broadcast component are one
kind with a step `bc`. `steps` is `gOpcodeInfo`: for each opcode the fields to read,
in order, each a source or a destination. `AddAtom` is one step with `add_src` or
`add_dst`; `LinkImmediates` is the replacement of the immediate of a linked word;
`to_string` prints. `OpcodeAborts`, `AtomAborts` and `LinkAborts` are its asserts.

*FunctionAnalysis.* One action for each stage of `analyze_prologue` and
`check_epilogue`. Instructions are an operation, a register and an offset to sp.
The two lists of saved registers are constants, and so are the programs compiled:
`Compile` writes a frame, a body and padding down the way a compiler does.
`compiled` records that the function was written so, and no action reads it.

*GlobalNames.* `LinkEntry` is one entry of a link table with every call it makes
on `TypeInfo`; the matcher of `find_global_function_defs` takes one instruction
a step.

*Scripts.* The recursion is a stack of calls, each with the step it is at.

*PrettyPrinter.* The linked list of nodes is the row of tokens and the set of those
that a line break follows; parentheses point to each other. `PropagatePretty` is
`propagatePretty` with the closing parentheses that get lines of their own, the
line numbers and the indentation stack. Line numbers are modelled as the code
computes them, not as they should be: a `)` that was just moved keeps the number of
the line it came from until the next round. `Candidate` is the search for the
next line to fix, with the exception for a line that was just treated.

## Runs

| Run | Bounds | What it shows |
|---|---|---|
| `MCLink` | V3, segments of 2, 1 and 1 words, each word one of five, one symbol entry a segment | label table, links, that no symbol takes a pointer over, names, through all passes, for every link table |
| `MCCode` | V3, six words of code, from four kinds anywhere, or three free words of five kinds around a tag and a return; a word in segment 0 | functions tile code, branch, fp and lui/ori operands, refinement of `CrossReferences`, termination |
| `MCV4` | V4, four words of seven kinds, among them instructions that are negative as an offset, the least int, and one far past the end; two symbol entries | what linked words denote in files of one segment |
| `MCDatabase` | two DGOs, two names, four contents of which two collide, three files, two packings and every damage, two configurations | archives are read as they were written; deduplication as promised and what still holds after a collision; passes in order, complete output |
| `MCTable` | pointers anywhere among nine words, six lists of symbols, bytes of 3 bits, in each version, for a segment of 144 words; any up to five bytes of five values as the table of ten words, which fit it or not; a name with two entries; a seek that wraps; three segments present or missing, of sizes around a word and a line; headers altered by one field; headers whose sums wrap | what the format writes is accepted and read back; which words are linked and in which order, disjoint segments and termination on any input |
| `MCDecode` | every opcode, each field at zero and another value, fields that select an opcode at all values, linked in every way | words the asserts accept are printed, and the text tells the word |
| `MCFunction` | all frames with up to two registers of each kind and four sizes of variables, around five bodies, padded or not; any instruction of such a function replaced, dropped or doubled; doubled returns; functions that end early | compiled functions are decoded, and whatever is decoded is right |
| `MCNames` | two files of up to two entries each, or with code that stores; one file with any block of four instructions out of seven | knowledge of symbols and types; naming of functions |
| `MCScripts` | three pairs in any acyclic arrangement, a string, odd words; lists of up to three levels, proper or not, `deftype`s, towers of nine levels, on lines of 7 | scripts are what the words are, and are laid out as they should be |
| `MCTableEnd`, `MCPrettyBreak`, `MCDecodeOperands` | those of `MCTable` (for the tables it leaves out), `MCScripts`, `MCDecode` | the three findings, below |

Why the bounds are enough to be interesting: with a byte of 3 bits (`Base` = 8 for
256) a run of seven pointers already needs the explicit zero, and a seek of 128
words the fourth byte, and an offset wraps at 4096, which is within reach of that fourth
byte as 2^32 is in the code. `align4` = 16 in place of 64 keeps V4 link data short and
still makes padding of every length; `MAX_CHUNK_SIZE` = 8 and `header_size` = 5 make
every archive several chunks long, with headers across the border of two, and
`chunk` sizes of 3 and 4 do and do not need realignment. Two registers of each
kind are the fewest with an order; three pairs the fewest with a shared tail that
is also a sublist; two DGOs and two names the fewest in which a name has two
versions with another name between them, for which three files are enough; six
words hold two functions of minimal size and a branch between them. On lines of 7
tokens of 1 and 4 a list of two levels is too long in every way a longer one is: at
its first token, inside a sublist and by indentation alone. A field of a
word acts as a number only in immediates and as a register otherwise, so two values
tell whether it is read; bits are told apart by `TextTellsWord`, which flips each
of them. `MaxSymbols` and `MaxObjs` bound the length of behaviours.

**Fairness.** The program is one thread that takes a step whenever it can, and
waits for nothing: every specification assumes `WF_vars(Next)` and nothing
stronger, and that of the decoder, of which no liveness is asked, none.
`Termination` is checked of the passes over a file (`MCCode`), of the
linkers on any bytes (`MCTable`) and of script printing, where the layout of a
form repeats until nothing can be improved (`MCScripts`). The last is for segments
whose pairs form no cycle: on a cycle `to_form_script` loops for ever, and nothing
in the code excludes one. The loops of the reader and of the database are over
lists of files and passes, so nothing is asked of their end.

**Deadlock** is checked in all runs: a specification stutters explicitly when it
is finished and must not stop anywhere else.

## Findings

1. When the count of the last run of pointers is a multiple of 255, the explicit
   zero of the format and the terminating zero are not told apart by the nested
   loops (`LinkedObjectFileCreation.cpp:299`, also in V3 and V5): the terminator
   is read as a seek and the symbol part as counts. Run `MCTableEnd`;
   `WrittenIsRead` is about all other tables (`EndsOnTop`).
2. A line that is too long and has no list on it makes `toStringPretty` call
   `breakList` with a null pointer (`LispPrint.cpp:368`): the flat rest of a long
   `deftype`, or a token indented past the limit. Run `MCPrettyBreak`.
3. `sqrt.s` is printed with the field that the decoder has just asserted to be
   zero (`InstructionDecode.cpp:390`, `OpcodeInfo.cpp:328`): its source is always
   `f0`. Run `MCDecodeOperands`.

Also seen while modelling, not findings of a run:

- `find_code` multiplies the data words of a three-segment file by 4 twice
  (`LinkedObjectFile.cpp:354`): the printed size of data is four times too large.
- `reference_count`, "number of times its used", does not count the first use
  (`ObjectFileDB.cpp:166`); `ReferenceCounts` states what it does count.
- "All delay slot instructions are grouped with the branch instruction"
  (`BasicBlocks.cpp:8`) holds just when no branch targets the slot and the branch is not
  in a slot itself; `DelaySlotsGrouped` says that.
- `segment_link_ends[2]` is read uninitialised if segment 2 is empty (`UnsetEnd`).
- A V4 or V5 seek of four bytes from `0x80000000` goes back, and sizes near 2^32 pass the
  checks that regions are filled; `VisitsAscend` and `SegmentsDisjoint` say what holds all
  the same.
- A V4 word from `0x80000000` that is linked as a pointer gets a label before the segment;
  `LinksDenoteTargets` says that it denotes that negative offset.
- A raw chunk is copied whole, also where the output has less room (`CopyChunk`).
- The symbol `type` is the one type that has no type information in `TypeInfo`, so a
  function stored into it is not noticed (`TablesAgree` says so).
- `gpr_all_loads` lists stores, on a path no caller takes.
- `getFirstBadLine` looks for a token that starts past the limit; one that only
  ends past it is let be (`TooLong`).
- The decoder does not look at some fields that should be zero (`Ignored`), takes the
  component of `vdiv`, `vsqrt`, `vrsqrt`, `vmtir` and `vrxor` from bits of the function
  (`NotShown`), and leaves `vaddx` and `vaddy` into `vf0` with the lowest bits of
  a move unknown.

## Proofs

The theorems hold for every value of the constants: files of any size, version and
content, any link table and any code, any number of objects, files and symbols,
any configuration.

| Module | Theorems | What holds in every behaviour |
|---|---|---|
| `ObjectLayout_proof` | `LayoutTypeCorrect`, `VisitsCorrect`, `SegmentsCorrect` | `TypeOK`, `VisitsAscend`, `SegmentsDisjoint` |
| | `WrittenCorrect` | `WrittenIsRead`: what the format writes is accepted and read back |
| `ObjectFileDB_proof` | `TablesCorrect`, `PassesCorrect`, `OutputCorrect` | `TablesConsistent`, `PassesInOrder`, `OutputComplete` |
| | `DatabaseImplementsUniqueObjects` | the refinement of `UniqueObjects` |
| | `ReaderStaysInside`, `ArchivesAreGiven` | `ReaderTypeOK`, `ArchivesAreRead` of `DgoReader` |
| `LinkedObjectFile_proof` | `TypeCorrect`, `LabelTableCorrect` | `TypeOK`, `LabelTable` |
| | `LabelIdsKeepTheirAddresses`, `LinksCorrect`, `PointersStay` | `LabelsStay`, `LinksDenoteTargets`, `PointersAreKept` |
| | `FileImplementsReferences`, `NoReferenceDangles` | the refinement of `CrossReferences`, and through it that every place resolved refers to an address with a label |
| | `NamesCorrect`, `FunctionsCorrect`, `InstructionsCorrect` | `NamesFollowAddresses`, `FunctionsTileCode`, `InsnsDenoteTargets` |
| `FunctionAnalysis_proof` | `BlocksCorrect`, `DelaySlotsCorrect`, `FramesCorrect`, `CompiledCorrect` | `BlocksDivideCode`, `DelaySlotsGrouped`, `FrameReadsBack`, `CompiledIsDecoded` |
| `GlobalNames_proof` | `NamesTypeCorrect`, `WhatIsKnownStays`, `TypeInfoCorrect`, `NamesAreStores` | `TypeOK`, `KnowledgeStays`, `TypesAreKnown`, `NamedAfterStores` |
| `Scripts_proof` | `ListsAreFromTheirHeads`, `ScriptsAreReadings` | `ListsFromTheirHeads`; `TextIsReading` of segments without cycles |
| `InstructionDecode_proof` | `DecodedTypes`, `AcceptedWordsArePrinted`, `ReferencesAreAmongOperands` | `TypeOK`, `AcceptedIsPrinted`, `ReferencesAreOperands` |

`SequenceFacts` has the lemmas these share: induction over numbers, and the type, the
members and the places of a row of sequences flattened into one (`FlattenSeq`).

### Assumptions

Each proof cites the `ASSUME`s of the module it is about and nothing else; TLC
evaluates them in the runs.

- `FormatAssumption` (`LinkedObjectFile`): three segments, or one in V4; sizes are
  naturals; images are functions on the words, of 32 bits each.
- `TableAssumption`, `FilesAssumption` (`LinkTable`, `ObjectLayout`): a byte has a
  multiple of four values; header fields are `uint32_t`; the link region is in the file,
  and a file is smaller than 4 GB. Nothing is assumed about the
  bytes, or about how the fields of a header fit together.
- `SourcesAssumption` (`ObjectLayout`): what the format writes files from is as its
  comments say. Bounds and references ascend, an entry has a reference, all words linked
  are words of the segment and none is linked twice, and a file has at most 2 GB. That the
  words hold what their place calls for, the lower halves of split pairs with them, is
  `fits` of the file. A segment that does not exist has an empty table. The
  segments of V3 files of the first game are whole words, but for the level header that is a
  byte short. `WrittenIsRead` is about these files, the other theorems about all.
- `DatabaseAssumption`, `ReaderAssumption`: no DGO is listed twice; sizes and CRCs
  are numbers. Different contents may have the same; the refinement is on what the
  two tell apart. A chunk is smaller than the maximum size, a header longer than a
  word, and one content at most is empty: a content stands for its bytes, so two of
  no bytes would be one.
- `NamesAssumption` (`GlobalNames`): files are link entries and blocks of code; names
  are not empty (a zero byte ends a link table) and none is the code's own
  `(top-level-init)`; the immediate of a store that is not linked is no name.
- `BackupsAssumption` (`FunctionAnalysis`): no register is twice in the lists of saved
  registers, and neither `a0` nor `r0` is in them. A function that is not compiled
  (`IsFunction`) begins with the type tag, which decodes to a store and not a branch,
  and `or` has no immediate.
- `ProgramsAssumption` (`FunctionAnalysis`): a frame saves no more registers than the
  lists have; branches of a body have their delay slot in it and go to one of its
  instructions or to its end; and a body does not begin with an instruction that
  looks like one more save. The last is a limit of the code: it counts stores until
  the first that is none, so it would take such an instruction for the prologue's. A
  body may have anything else in it, stores to the saved registers included.
- `SegmentsAssumption` (`Scripts`): a segment has words 0 to its last one, and a pointer
  goes to a label, as linking leaves it.
- `WordsAssumption` (`InstructionDecode`): each field of a word has its width.

### Inductive invariants

*The tables of a file* (`ObjectLayout_proof`). `VisitsAscend` compares words already
linked; that the next one is not before them needs the position of the reader:
`PointersInv` says that all pointers are below the word reached, which is outside
the segment only until the first seek - and that is not of zero words, for then the
table had no pointers. `LinksReached` says that references of the entry being read are
not behind the word reached and, in V3, that a zero seek comes first in an entry
or ends it. A byte moves the reader by less than 256 words (`Near`), so in a table of
less than 4 MB (`IsShort`) it does not come around all words. This is not so of the seeks of
`c_symlink2`, and nothing is said about their order. That what is linked is in the segment
(`LinkedWithin`) holds in every table. Entries are told apart by number and not by name: nothing keeps a
table from naming a symbol twice. For `SegmentsDisjoint` each segment is
linked, being linked or untouched (`SegmentsInOrder`, `TableOfSegment`), and what was
copied of it is in the file (`CopiedWithin`). The ends of tables are places in the file,
so the sums with them do not wrap and accepted tables are in order (`TablesInOrder`),
whatever the header; if its sums do not wrap (`SumsFit`), the rest is
arithmetic about alignment (`WordsOfSegment`, `TablesBeforeData`).

*Tables that were written* (also `ObjectLayout_proof`).

    Inv /\ WrittenInv,   where  WrittenInv == Written =>
                                \E x \in Sources : IsOf(x) /\ (Readable(x) => LinkInv(x))

`WrittenIsRead` is about a table read to its end; the invariant says of any moment
where in the written table the reader is. The format concatenates numbers, seeks and
entries, so first come lemmas about where each of them begins in the region
(`TableStands`, `EntryStands`: `PlacesOf` is the row of these bytes) and what the bytes of
one are (`NumberParts`, `SeekBytesRead`). `ReadInv` then has a case for each part. Among
the pointers (`AtNumber`), the reader has `m` words to go to the bound `i`, the bytes ahead
are those of the number `m`, `fixing` is the parity of `i`, and the pointers are the words
of runs below the one reached. A top byte takes `Top` from `m`; `NumberAhead` says when that
leaves a zero byte, and `LastNumber` that the last run does not, so that the zero after it is
the table's: this is where `EndsOnTop` is excluded. At an entry or a reference (`AtEntry`,
`AtReference`), the names and references linked are those before it, and no others.
`LinkInv` relates the tables to each other: the one being read begins where it was
written, for as many words as the segment has, and those that were read ended where the header says that the next begins, so
no check fails but the one of an end that was never set.

*One file through the passes* (`LinkedObjectFile_proof`).

    Inv == TypeOK /\ LabelTable /\ ZonesInFile

`TypeOK` is not inductive. That an id `get_label_id_for` returns is one of an
existing label needs `LabelTable`; the renaming of the data label in `find_code`
needs that id to be the one in the vector. `ZonesInFile` bounds the data zone of
each segment by its size and every function by the code zone, so that decoding and
the look-back of the fp pass stay inside the file. A step's proof has one case for
each action; those that make labels share the lemmas about `NoteLabel` (ids stay,
the tables stay inverse).

`LabelsStay` follows from `Inv`. `LinksInv` is `LinksDenoteTargets` of each word, with
the lower word of a split pointer linked too, so that no later entry points it
elsewhere. For `PointersAreKept`, `PointersInv` says that outside V4 no word of all ones
is a pointer or the upper half of one, for its top byte is not zero and its segment field
is no segment; and only a word of all ones is relinked. `InsnsInv` says that the decoder meets each word once; with it each step
adds references to one address and takes none back, which is a step of
`CrossReferences` or a stutter. `FunctionsInv` is `FunctionsTileCode` of the segments
done and, for the segment at hand, from the cursor to its end (`TilesBackwards`:
functions are sought from the last). `DenotesInv` ties the label of each instruction
to its kind of operand. The order of names is that of the number of labels before
an address.

*The database* (`ObjectFileDB_proof`).

    DatabaseInv == Inv /\ WalkInv /\ WrittenInv

`Inv` is about the tables: a record of a DGO finds its object where its version
says (`Listed`), and versions number the objects of a name. `WalkInv` gives, for each
object, the passes it has had from the position of the running pass; `WrittenInv` the
files on disk from that. In the refinement, adding an object is a step of
`UniqueObjects` or a stutter and everything after reading stutters. All four theorems
are of the database by itself and of the database as `DgoReader` fills it (`Spec` and
`ReaderSpec`): a step of the reader is a step of the database.

*The reader of archives* (also `ObjectFileDB_proof`).

    ReaderInv == ReaderType /\ OtherArchives /\ AtStep /\ IntactIsRead

The reader sees bytes, `ArchivesAreRead` is about files; the invariant says which of the
bytes the reader is at, as a function of what the database has been given. First come
lemmas about the format: `Place` is where a file begins in an archive that is not
packed (`PlainFacts`), `IsPacking` where each piece has its zeros and its chunk in one that
is, both for bytes cut short too (`OpenCases` takes every archive that can be opened to one
of them). Then `AtStep`: among the chunks (`AtChunk`), the seek is at the `j`th zero
before chunk `k`, and the output holds the pieces before it; at the title, the bytes are
those of an archive with these files; among the files (`AtObject`), what the database was
given are the first `k` and the seek is at the next one's place. That the next bytes are
zero or a chunk is decided by the code from a word that is zero or not, and by the proof
from `j` (`AtZero`, `AtWord`). A damaged archive has the same places, as far as it goes,
so nothing wrong is given before an assert fails; in an intact one nothing is missing
at any step (`IntactChunk`, `NextIsObject`), so none fails.

*One function* (`FunctionAnalysis_proof`). The blocks are cut from the code at the
dividers; that they leave nothing between them is a lemma about counting off a
finite set of numbers (`Nth`). `StageInv` says what every stage of the analysis
leaves: until the first cut the blocks are the whole code, there is no branch in
the part of the prologue that was read or in the epilogue, and only nops follow it,
so no cut takes off a branch or its target. `FrameInv` says that the frame recorded
so far, written as a compiler does, is the code read so far; that the check of the
stack layout allows that layout only is the lemma `LayoutIsFrame`.

For `CompiledIsDecoded`, `Convention` says of the instructions what the compiler promises:
where the saves and the restores of a frame are, that the instruction after the saves is
no save, where branches go, and that only nops follow. `CompiledFollows` is that `Compile`
keeps it. `GoesWell` then says at each stage that the frame recorded so far is the
frame compiled; that a run of stores ends where the saves do (`RunEndsThere`), that the
check of the layout accepts what the compiler lays out, and that the last block begins
at or before the restores, are the steps where an assert could fail.

*Names* (`GlobalNames_proof`). `Shape` is `TypeOK` with the cursor inside the file,
`TopNames` says which functions are called top-level; `KnowledgeStays` follows.
`LinkInv` says that `TypeInfo` is what the link entries read so far told it. `MatchInv`
relates the state of the matcher to the instructions of the block it has passed, and
`Named` the names of functions to the stores read so far.

*Scripts* (`Scripts_proof`). `Inv` follows the search for heads and the calls of
`to_form_script`: every labelled pair before the cursor has been printed or is the
head being printed (`PassedIsPrinted`), and a pair whose car has been seen has had
the whole of it (`CarsFirst`). `TextInv` is what the stack means: the text so far, and
what the calls on the stack have still to print, are together the reading of the heads
so far. What a call prints is a recursive function of the pair; that it has a value is
an induction over the size of what the pair reaches, which is why cycles are excluded.

*Instructions* (`InstructionDecode_proof`). `DecodeInv` counts the operands
(`AddedSoFar`) and says which step each came from (`Traced`). It is about the shape of
the decoding of an opcode (`Shapes`: 26 for all opcodes): how many sources and
destinations, and where the target is. `HasTarget` and `ShowsLink` then say where the
label and the linked symbol are.

### Only model-checked

- `Termination`, everywhere: liveness is out of the prover's reach.
- The layout of forms in `PrettyPrinter` and `ScriptPrinter`: columns are sums over
  tokens that each break moves.
- `TextTellsWord` of `InstructionDecode`, which compares all words with each other.

Induction over data is done here through sets of numbers (`NatSetInduction` of
`SequenceFacts`: a set of numbers that has 0 and with each number the next has them
all), because the theorems of the library with an operator as a parameter cannot be
used.

## Not modelled

- The text of `print_words`, `print_disassembly` and the summaries: formatting of
  state that is modelled. The assertion in it that can fail is an action of
  `LinkedObjectFile`.
- Files of no segments (a V5 file of one segment, which the linker abandons: action
  `Abandon` of `ObjectLayout`) pass through `LinkedObjectFile` unchanged and have no
  instance there; nor has `effect-control` of Jak 2, for which one pass is skipped.
- The JSON configuration, files, CRC, timer: input and output. CRCs are a constant,
  with collisions.
- minilzo and the JSON library, vendored; `Function` and type name classes that are
  empty.
- Form builders and the symbol table of `LispPrint`/`Form` beyond what scripts use.

`PROJECT.json` lists each component with its status, and every hazard with the
properties that cover it or the reason why none does.

## Plan

Done, in this order: `LinkedObjectFile` with its proof, `CrossReferences`,
`ObjectFileDB`, `UniqueObjects`, `LinkTable`, `FunctionAnalysis`, `GlobalNames`,
`Scripts`; then `DgoReader`, `ObjectLayout`, `PrettyPrinter`, `ScriptPrinter`,
`InstructionDecode`.

Proved, from the files inward: `ObjectLayout`, `ObjectFileDB` with `DgoReader`,
`LinkedObjectFile` with `CrossReferences`, `FunctionAnalysis`, `GlobalNames`, `Scripts`,
`InstructionDecode`.

To prove next: that indentation shows nesting in `PrettyPrinter`, from the depth of
each token as an invariant of `breakList`.

To model next, if time allows: `LinkTable` driving `LinkedObjectFile` in place of
the nondeterministic choice; `FunctionAnalysis` over the functions it finds.
