---------------------------- MODULE ObjectFileDB ----------------------------
(***************************************************************************)
(* The database of object files (ObjectFileDB.cpp) and the passes main.cpp *)
(* runs over it.  Reading the DGOs adds objects; duplicates, recognised by *)
(* name, size and CRC, are only listed.  Then every pass visits every      *)
(* object once, in the order of for_each_obj.                              *)
(*                                                                         *)
(* Abstractions.  What is in an object file is one content; what a pass    *)
(* does inside an object is the business of LinkedObjectFile and its       *)
(* companions, so here a pass only leaves its name on the object.  A       *)
(* failed assert or an exception anywhere ends the program.                *)
(***************************************************************************)
EXTENDS Integers, Sequences, FiniteSets, Functions

CONSTANTS
  DgoList,       \* the DGO files of the configuration, in order
  Names,         \* object file names
  Contents,      \* object file contents
  Size, Hash,    \* of a content: its length and its CRC
  Segments,      \* of a content: the segments linking finds, 0, 1 or 3
  HasFunctions,  \* of a content: find_functions finds some
  Configs,       \* settings of the switches of the configuration file
  MaxObjs        \* bound: object files in all the DGOs together

Switches == {"write_scripts", "write_hexdump", "write_hexdump_on_v3_only",
             "find_basic_blocks", "write_disassembly",
             "disassemble_objects_without_functions"}

ASSUME DatabaseAssumption ==
  /\ \A i, j \in DOMAIN DgoList : DgoList[i] = DgoList[j] => i = j
  /\ DgoList \in Seq(Range(DgoList))
  /\ Size \in [Contents -> Nat]
  /\ Hash \in [Contents -> Nat]
  /\ Segments \in [Contents -> {0, 1, 3}]
  /\ HasFunctions \in [Contents -> BOOLEAN]
  /\ \A c \in Contents : HasFunctions[c] => Segments[c] = 3
  /\ Configs \subseteq [Switches -> BOOLEAN]
  /\ MaxObjs \in Nat

Dgos == Range(DgoList)

VARIABLES
  config,    \* the switches: the file is read once, before anything else
  byName,    \* name -> its ObjectFileData: [data, hash, version, refs, done]
  byDgo,     \* DGO -> the records of its object files: [name, version, hash]
  order,     \* obj_file_order
  stats,     \* [total, unique, bytes]
  onDisk,    \* DGO -> the [name, data] read from it, never forgotten
  dgo,       \* the DGO being read, an index into DgoList
  pass,      \* the running pass, an index into Passes; 0 while reading
  nth, version,  \* for_each_obj: the next name, an index into order, and version
  files,     \* the output files written
  failed     \* the program has been aborted

store == <<byName, byDgo, order, stats>>
walk == <<pass, nth, version>>
vars == <<config, store, onDisk, dgo, walk, files, failed>>

Init ==
  /\ config \in Configs
  /\ byName = [n \in Names |-> << >>]
  /\ byDgo = [d \in Dgos |-> << >>]
  /\ order = << >>
  /\ stats = [total |-> 0, unique |-> 0, bytes |-> 0]
  /\ onDisk = [d \in Dgos |-> << >>]
  /\ dgo = 1
  /\ pass = 0
  /\ nth = 1
  /\ version = 0
  /\ files = {}
  /\ failed = FALSE

-----------------------------------------------------------------------------
(* Reading the DGOs *)

Reading == ~failed /\ pass = 0 /\ dgo <= Len(DgoList)

(* Mutant: only the CRC is compared. *)
SameHash(e, c) == e.hash = Hash[c]

(* add_obj_from_dgo takes an object it has for the one it is given. *)
SameObject(e, c) == Size[e.data] = Size[c] /\ e.hash = Hash[c]

RecordOf(n, e) == [name |-> n, version |-> e.version, hash |-> e.hash]

Enlist(record) == byDgo' = [byDgo EXCEPT ![DgoList[dgo]] = Append(@, record)]

Meet(n, c) ==
  /\ Reading
  /\ stats.total < MaxObjs
  /\ onDisk' = [onDisk EXCEPT ![DgoList[dgo]] = Append(@, [name |-> n, data |-> c])]
  /\ UNCHANGED <<config, dgo, walk, files, failed>>

(* Mutant: the use is counted for the newest object of the name. *)
AddKnownToNewest(n, c, i) ==
  /\ Meet(n, c)
  /\ i \in DOMAIN byName[n]
  /\ SameObject(byName[n][i], c)
  /\ \A j \in 1 .. i - 1 : ~SameObject(byName[n][j], c)
  /\ byName' = [byName EXCEPT ![n][Len(byName[n])].refs = @ + 1]
  /\ Enlist(RecordOf(n, byName[n][i]))
  /\ stats' = [stats EXCEPT !.total = @ + 1]
  /\ UNCHANGED order

(* The first object of that name, size and CRC is used again. *)
AddKnown(n, c, i) ==
  /\ Meet(n, c)
  /\ i \in DOMAIN byName[n]
  /\ SameObject(byName[n][i], c)
  /\ \A j \in 1 .. i - 1 : ~SameObject(byName[n][j], c)
  /\ byName' = [byName EXCEPT ![n][i].refs = @ + 1]
  /\ Enlist(RecordOf(n, byName[n][i]))
  /\ stats' = [stats EXCEPT !.total = @ + 1]
  /\ UNCHANGED order

NewVersion(n) == Len(byName[n])

(* A name has its place in the order from its first object on. *)
OrderWith(n) == IF byName[n] = << >> THEN Append(order, n) ELSE order

AddNew(n, c) ==
  LET e == [data |-> c, hash |-> Hash[c], version |-> NewVersion(n), refs |-> 0,
            done |-> << >>]
  IN /\ Meet(n, c)
     /\ \A i \in DOMAIN byName[n] : ~SameObject(byName[n][i], c)
     /\ order' = OrderWith(n)
     /\ byName' = [byName EXCEPT ![n] = Append(@, e)]
     /\ Enlist(RecordOf(n, e))
     /\ stats' = [total |-> stats.total + 1, unique |-> stats.unique + 1,
                  bytes |-> stats.bytes + Size[c]]

NextDgo ==
  /\ Reading
  /\ dgo' = dgo + 1
  /\ UNCHANGED <<config, store, onDisk, walk, files, failed>>

-----------------------------------------------------------------------------
(* The passes of main *)

Only(switch, passes) == IF config[switch] THEN passes ELSE << >>

Passes ==
  <<"process_link_data", "find_code", "process_labels">>
    \o Only("write_scripts", <<"find_and_write_scripts">>)
    \o Only("write_hexdump", <<"write_object_file_words">>)
    \o Only("find_basic_blocks", <<"find_basic_blocks">>)
    \o <<"find_global_function_defs">>
    \o Only("write_disassembly", <<"write_disassembly">>)

Running == ~failed /\ pass \in 1 .. Len(Passes)

StartPass(p) == pass' = p /\ nth' = 1 /\ version' = 0

(* dgo.txt is written before the first pass. *)
WriteListing ==
  /\ ~failed
  /\ pass = 0
  /\ dgo > Len(DgoList)
  /\ files' = files \cup {[kind |-> "listing"]}
  /\ StartPass(1)
  /\ UNCHANGED <<config, store, onDisk, dgo, failed>>

(* Mutant: files are named without the version. *)
FileOfName(kind, n, e) == [kind |-> kind, name |-> n, version |-> 0]

(* The output file of a pass for one object: to_unique_name and a suffix. *)
File(kind, n, e) == [kind |-> kind, name |-> n, version |-> e.version]

FilesFor(p, n, e) ==
  CASE /\ p = "write_object_file_words"
       /\ Segments[e.data] = 3 \/ ~config["write_hexdump_on_v3_only"]
         -> {File("txt", n, e)}
    [] /\ p = "write_disassembly"
       /\ HasFunctions[e.data] \/ config["disassemble_objects_without_functions"]
         -> {File("func", n, e)}
    [] OTHER -> {}

(* Mutant: of each name only the first version is visited. *)
VisitFirstVersion ==
  LET n == order[nth]
      e == byName[n][1]
  IN /\ Running
     /\ nth <= Len(order)
     /\ byName' = [byName EXCEPT ![n][1].done = Append(@, Passes[pass])]
     /\ files' = files \cup FilesFor(Passes[pass], n, e)
     /\ nth' = nth + 1
     /\ UNCHANGED <<config, byDgo, order, stats, onDisk, dgo, pass, version, failed>>

(* for_each_obj calls the pass on the next object. *)
Visit ==
  LET n == order[nth]
      e == byName[n][version + 1]
  IN /\ Running
     /\ nth <= Len(order)
     /\ byName' = [byName EXCEPT ![n][version + 1].done = Append(@, Passes[pass])]
     /\ files' = files \cup FilesFor(Passes[pass], n, e)
     /\ IF version + 1 < Len(byName[n])
        THEN version' = version + 1 /\ UNCHANGED nth
        ELSE version' = 0 /\ nth' = nth + 1
     /\ UNCHANGED <<config, byDgo, order, stats, onDisk, dgo, pass, failed>>

PassDone ==
  /\ Running
  /\ nth > Len(order)
  /\ files' = IF Passes[pass] = "find_and_write_scripts"
              THEN files \cup {[kind |-> "all_scripts"]}
              ELSE files
  /\ StartPass(pass + 1)
  /\ UNCHANGED <<config, store, onDisk, dgo, failed>>

Fail ==
  /\ Reading \/ Running
  /\ failed' = TRUE
  /\ UNCHANGED <<config, store, onDisk, dgo, walk, files>>

Finished == failed \/ pass > Len(Passes)

Next ==
  \/ \E n \in Names, c \in Contents :
       \/ \E i \in DOMAIN byName[n] : AddKnown(n, c, i)
       \/ AddNew(n, c)
  \/ NextDgo \/ WriteListing
  \/ Visit \/ PassDone
  \/ Fail
  \/ Finished /\ UNCHANGED vars

(* One thread, nothing to wait for. *)
Spec == Init /\ [][Next]_vars /\ WF_vars(Next)

-----------------------------------------------------------------------------
(* Properties *)

Objects == {o \in Names \X (1 .. MaxObjs) : o[2] \in DOMAIN byName[o[1]]}

Object(o) == byName[o[1]][o[2]]

(* The state has the shape of the C++ members. *)
TypeOK ==
  /\ config \in Configs
  /\ byName \in [Names -> Seq([data : Contents, hash : Range(Hash), version : Nat,
                               refs : Nat, done : Seq(Range(Passes))])]
  /\ byDgo \in [Dgos -> Seq([name : Names, version : Nat, hash : Range(Hash)])]
  /\ order \in Seq(Names)
  /\ stats \in [total : Nat, unique : Nat, bytes : Nat]
  /\ onDisk \in [Dgos -> Seq([name : Names, data : Contents])]
  /\ dgo \in 1 .. Len(DgoList) + 1
  /\ pass \in 0 .. Len(Passes) + 1
  /\ nth \in 1 .. Len(order) + 1
  /\ version \in Nat
  /\ failed \in BOOLEAN

(***************************************************************************)
(* for_each_obj reaches every object exactly once: obj_file_order holds    *)
(* every name of the database and no name twice, which its assert checks   *)
(* only by counting.                                                       *)
(***************************************************************************)
OrderCoversNames ==
  /\ Range(order) = {n \in Names : byName[n] # << >>}
  /\ \A i, j \in DOMAIN order : order[i] = order[j] => i = j

(* What the database tells contents apart by. *)
Fingerprint(c) == <<Size[c], Hash[c]>>

Alone(c) == \A d \in Contents : Fingerprint(d) = Fingerprint(c) => d = c

(***************************************************************************)
(* An entry of dgo.txt leads back to an object of the database, whose size *)
(* and CRC are those of the file it stands for, whatever was added after   *)
(* the entry was made; if no other content has that size and CRC, its data *)
(* are the file's.                                                         *)
(***************************************************************************)
ListingResolves ==
  \A d \in Dgos :
    /\ Len(byDgo[d]) = Len(onDisk[d])
    /\ \A k \in DOMAIN byDgo[d] :
         LET r == byDgo[d][k] IN
         /\ r.name = onDisk[d][k].name
         /\ \E i \in DOMAIN byName[r.name] :
              LET e == byName[r.name][i] IN
              /\ e.version = r.version
              /\ e.hash = r.hash
              /\ SameObject(e, onDisk[d][k].data)
              /\ Alone(onDisk[d][k].data) => e.data = onDisk[d][k].data

(***************************************************************************)
(* to_unique_name tells all objects apart, so no pass writes the file of   *)
(* one object over that of another.                                        *)
(***************************************************************************)
UniqueNames ==
  \A o, p \in Objects :
    o[1] = p[1] /\ Object(o).version = Object(p).version => o = p

(***************************************************************************)
(* When a pass reaches an object, every earlier pass has been over every   *)
(* object: what one object contributes to another (types, labels, names)   *)
(* is complete.  Objects before the cursor have had the running pass too.  *)
(***************************************************************************)
PassesInOrder ==
  \A o \in Objects :
    LET place == CHOOSE k \in DOMAIN order : order[k] = o[1]
        visited == place < nth \/ (place = nth /\ o[2] <= version)
        n == IF pass = 0 THEN 0 ELSE IF visited THEN pass ELSE pass - 1
    IN Object(o).done = SubSeq(Passes, 1, IF n > Len(Passes) THEN Len(Passes) ELSE n)

(***************************************************************************)
(* A run that ends well has written, for every file that any DGO lists,    *)
(* exactly what the configuration asks for.                                *)
(***************************************************************************)
OutputComplete ==
  pass > Len(Passes) =>
    \A d \in Dgos : \A k \in DOMAIN byDgo[d] :
      LET r == byDgo[d][k]
          c == byName[r.name][r.version + 1].data
          of(kind) == [kind |-> kind, name |-> r.name, version |-> r.version]
      IN /\ of("txt") \in files <=>
              /\ config["write_hexdump"]
              /\ config["write_hexdump_on_v3_only"] => Segments[c] = 3
         /\ of("func") \in files <=>
              /\ config["write_disassembly"]
              /\ config["disassemble_objects_without_functions"] \/ HasFunctions[c]

Unique == INSTANCE UniqueObjects WITH
  Contents <- {Fingerprint(c) : c \in Contents},
  given <- [d \in Dgos |-> [k \in DOMAIN onDisk[d] |->
              [name |-> onDisk[d][k].name, content |-> Fingerprint(onDisk[d][k].data)]]],
  objects <- [n \in Names |-> [i \in DOMAIN byName[n] |-> Fingerprint(byName[n][i].data)]],
  listing <- [d \in Dgos |-> [k \in DOMAIN byDgo[d] |->
                [name |-> byDgo[d][k].name, version |-> byDgo[d][k].version]]]

(***************************************************************************)
(* The database keeps one object for each name and fingerprint, numbered   *)
(* as they were met: of contents that collide the first one only, and all  *)
(* the contents where none do.                                             *)
(***************************************************************************)
ImplementsUniqueObjects == Unique!Spec

(* The entries of dgo.txt for version v of the object file n. *)
Uses(n, v) == {u \in Dgos \X (1 .. MaxObjs) :
                 /\ u[2] \in DOMAIN byDgo[u[1]]
                 /\ byDgo[u[1]][u[2]].name = n
                 /\ byDgo[u[1]][u[2]].version = v}

(***************************************************************************)
(* reference_count, the "number of times its used", counts the uses after  *)
(* the first: the DGOs list an object once more than it says.              *)
(***************************************************************************)
ReferenceCounts ==
  \A o \in Objects : Object(o).refs + 1 = Cardinality(Uses(o[1], Object(o).version))

(***************************************************************************)
(* The three tables and the counters of uses describe the same objects:    *)
(* every object is reached once, told apart by its name, and found again   *)
(* from the lists of all DGOs it was met in.                               *)
(***************************************************************************)
TablesConsistent == OrderCoversNames /\ ListingResolves /\ UniqueNames /\ ReferenceCounts
=============================================================================
