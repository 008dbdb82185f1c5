------------------------- MODULE ObjectFileDB_proof -------------------------
(***************************************************************************)
(* Proofs about the object file database, for archives and object files of *)
(* every number and content.  They are stated of the database by itself    *)
(* and of the database as the reader of DGO archives fills it.             *)
(***************************************************************************)
EXTENDS DgoReader, SequenceFacts, FiniteSetTheorems, SequenceTheorems, TLAPS

-----------------------------------------------------------------------------
(* The pieces of TypeOK                                                     *)

ObjectFileData == [data : Contents, hash : Range(Hash), version : Nat, refs : Nat,
                   done : Seq(Range(Passes))]

ObjectFileRecord == [name : Names, version : Nat, hash : Range(Hash)]

FileOnDisk == [name : Names, data : Contents]

StoreType == /\ byName \in [Names -> Seq(ObjectFileData)]
             /\ byDgo \in [Dgos -> Seq(ObjectFileRecord)]
             /\ order \in Seq(Names)
             /\ stats \in [total : Nat, unique : Nat, bytes : Nat]
             /\ onDisk \in [Dgos -> Seq(FileOnDisk)]

WalkType == /\ pass \in 0 .. Len(Passes) + 1
            /\ nth \in 1 .. Len(order) + 1
            /\ version \in Nat

LEMMA TypeParts ==
  TypeOK <=> /\ config \in Configs
             /\ StoreType
             /\ dgo \in 1 .. Len(DgoList) + 1
             /\ WalkType
             /\ failed \in BOOLEAN
  BY DEF TypeOK, StoreType, WalkType, ObjectFileData, ObjectFileRecord, FileOnDisk

LEMMA Lists ==
  ASSUME NEW S, NEW s \in Seq(S)
  PROVE  /\ Len(s) \in Nat /\ DOMAIN s = 1 .. Len(s)
         /\ s = << >> <=> Len(s) = 0
         /\ \A i \in DOMAIN s : s[i] \in S
  OBVIOUS

LEMMA Appending ==
  ASSUME NEW S, NEW s \in Seq(S), NEW e \in S
  PROVE  /\ Append(s, e) \in Seq(S)
         /\ Append(s, e) # << >>
         /\ Len(Append(s, e)) = Len(s) + 1
         /\ DOMAIN Append(s, e) = 1 .. Len(s) + 1
         /\ \A i \in DOMAIN s : Append(s, e)[i] = s[i]
         /\ Append(s, e)[Len(s) + 1] = e
  OBVIOUS

LEMMA DgoFacts ==
  /\ Len(DgoList) \in Nat /\ DOMAIN DgoList = 1 .. Len(DgoList)
  /\ \A i \in 1 .. Len(DgoList) : DgoList[i] \in Dgos
  /\ IsFiniteSet(Dgos)
<1>1. DgoList \in Seq(Dgos)
  BY DatabaseAssumption DEF Dgos
<1>2. /\ Len(DgoList) \in Nat /\ DOMAIN DgoList = 1 .. Len(DgoList)
      /\ \A i \in 1 .. Len(DgoList) : DgoList[i] \in Dgos
  BY <1>1, Lists
<1>3. DgoList \in Surjection(1 .. Len(DgoList), Dgos)
  BY <1>1, <1>2 DEF Surjection, Dgos, Range
<1>4. IsFiniteSet(1 .. Len(DgoList))
  BY <1>2, FS_Interval
<1> QED BY <1>2, <1>3, <1>4, FS_Surjection

PassNames == {"process_link_data", "find_code", "process_labels", "find_and_write_scripts",
              "write_object_file_words", "find_basic_blocks", "find_global_function_defs",
              "write_disassembly"}

LEMMA ShortLists ==
  ASSUME NEW S, NEW x \in S, NEW y \in S, NEW z \in S
  PROVE  << >> \in Seq(S) /\ <<x>> \in Seq(S) /\ <<x, y, z>> \in Seq(S)
  OBVIOUS

LEMMA Joined ==
  ASSUME NEW s \in Seq(PassNames), NEW t \in Seq(PassNames)
  PROVE  s \o t \in Seq(PassNames) /\ Range(s \o t) = Range(s) \cup Range(t)
  BY ConcatProperties, RangeConcatenation

(* The passes main runs: those that are switched on.                        *)
LEMMA PassesType ==
  ASSUME config \in Configs
  PROVE  /\ Passes \in Seq(PassNames) /\ Len(Passes) \in Nat /\ DOMAIN Passes = 1 .. Len(Passes)
         /\ "write_object_file_words" \in Range(Passes) <=> config["write_hexdump"]
         /\ "write_disassembly" \in Range(Passes) <=> config["write_disassembly"]
         /\ \A i \in 1 .. Len(Passes) : Passes[i] \in Range(Passes)
<1> DEFINE p1 == <<"process_link_data", "find_code", "process_labels">>
           p2 == Only("write_scripts", <<"find_and_write_scripts">>)
           p3 == Only("write_hexdump", <<"write_object_file_words">>)
           p4 == Only("find_basic_blocks", <<"find_basic_blocks">>)
           p5 == <<"find_global_function_defs">>
           p6 == Only("write_disassembly", <<"write_disassembly">>)
<1>1. /\ p1 \in Seq(PassNames) /\ p2 \in Seq(PassNames) /\ p3 \in Seq(PassNames)
      /\ p4 \in Seq(PassNames) /\ p5 \in Seq(PassNames) /\ p6 \in Seq(PassNames)
  <2>1. /\ "process_link_data" \in PassNames /\ "find_code" \in PassNames
        /\ "process_labels" \in PassNames /\ "find_and_write_scripts" \in PassNames
        /\ "write_object_file_words" \in PassNames /\ "find_basic_blocks" \in PassNames
        /\ "find_global_function_defs" \in PassNames /\ "write_disassembly" \in PassNames
    BY DEF PassNames
  <2> QED BY <2>1, ShortLists DEF Only
<1>2. \A y \in {"write_object_file_words", "write_disassembly"} :
         /\ y \notin Range(p1) /\ y \notin Range(p2) /\ y \notin Range(p4) /\ y \notin Range(p5)
         /\ y \in Range(p3) <=> config["write_hexdump"] /\ y = "write_object_file_words"
         /\ y \in Range(p6) <=> config["write_disassembly"] /\ y = "write_disassembly"
  BY DEF Only, Range
<1> HIDE DEF p1, p2, p3, p4, p5, p6
<1> DEFINE q2 == p1 \o p2
           q3 == q2 \o p3
           q4 == q3 \o p4
           q5 == q4 \o p5
<1>3. q2 \in Seq(PassNames) /\ Range(q2) = Range(p1) \cup Range(p2)
  BY <1>1, Joined
<1> HIDE DEF q2
<1>4. q3 \in Seq(PassNames) /\ Range(q3) = Range(q2) \cup Range(p3)
  BY <1>1, <1>3, Joined
<1> HIDE DEF q3
<1>5. q4 \in Seq(PassNames) /\ Range(q4) = Range(q3) \cup Range(p4)
  BY <1>1, <1>4, Joined
<1> HIDE DEF q4
<1>6. q5 \in Seq(PassNames) /\ Range(q5) = Range(q4) \cup Range(p5)
  BY <1>1, <1>5, Joined
<1> HIDE DEF q5
<1>7. q5 \o p6 \in Seq(PassNames) /\ Range(q5 \o p6) = Range(q5) \cup Range(p6)
  BY <1>1, <1>6, Joined
<1>8. Passes = q5 \o p6
  BY DEF Passes, p1, p2, p3, p4, p5, p6, q2, q3, q4, q5
<1>9. /\ Passes \in Seq(PassNames)
      /\ Range(Passes) = Range(p1) \cup Range(p2) \cup Range(p3) \cup Range(p4) \cup Range(p5)
                           \cup Range(p6)
  BY <1>3, <1>4, <1>5, <1>6, <1>7, <1>8
<1>10. Len(Passes) \in Nat /\ DOMAIN Passes = 1 .. Len(Passes)
  BY <1>9, Lists
<1>11. \A i \in 1 .. Len(Passes) : Passes[i] \in Range(Passes)
  BY <1>10 DEF Range
<1>12. /\ "write_object_file_words" \in Range(Passes) <=> config["write_hexdump"]
       /\ "write_disassembly" \in Range(Passes) <=> config["write_disassembly"]
  BY <1>2, <1>9
<1> QED BY <1>9, <1>10, <1>11, <1>12

LEMMA PassesStay == ASSUME UNCHANGED config PROVE Passes' = Passes
  BY DEF Passes, Only

-----------------------------------------------------------------------------
(* The tables while the DGOs are read                                       *)

(* Versions number the objects of a name, and the CRC is that of the data.  *)
Versions ==
  \A n \in Names : \A i \in DOMAIN byName[n] :
    /\ byName[n][i].version = i - 1
    /\ byName[n][i].hash = Hash[byName[n][i].data]

(* What a record of a DGO's list stands for. *)
RecordResolves(r, x) ==
  /\ r.name = x.name
  /\ r.version + 1 \in DOMAIN byName[r.name]
  /\ r.hash = byName[r.name][r.version + 1].hash
  /\ SameObject(byName[r.name][r.version + 1], x.data)

Listed ==
  \A d \in Dgos :
    /\ Len(byDgo[d]) = Len(onDisk[d])
    /\ Len(byDgo[d]) <= stats.total
    /\ \A k \in DOMAIN byDgo[d] : RecordResolves(byDgo[d][k], onDisk[d][k])

Counted ==
  \A n \in Names : \A i \in DOMAIN byName[n] :
    byName[n][i].refs + 1 = Cardinality(Uses(n, i - 1))

(***************************************************************************)
(* The inductive invariant of the tables.  A record finds its object at    *)
(* the place its version gives, and no list is longer than the count of    *)
(* all objects, so that the bound on it bounds the uses of an object.      *)
(***************************************************************************)
Inv == /\ TypeOK
       /\ Versions
       /\ OrderCoversNames
       /\ Listed
       /\ Counted
       /\ stats.total <= MaxObjs

LEMMA Entries ==
  ASSUME StoreType, NEW n \in Names
  PROVE  /\ byName[n] \in Seq(ObjectFileData)
         /\ Len(byName[n]) \in Nat /\ DOMAIN byName[n] = 1 .. Len(byName[n])
         /\ byName[n] = << >> <=> Len(byName[n]) = 0
         /\ \A i \in DOMAIN byName[n] : byName[n][i] \in ObjectFileData
<1>1. byName[n] \in Seq(ObjectFileData)
  BY DEF StoreType
<1> QED BY <1>1, Lists

LEMMA InvSuffices == Inv => TablesConsistent
<1> SUFFICES ASSUME Inv PROVE TablesConsistent
  OBVIOUS
<1>1. StoreType
  BY TypeParts DEF Inv
<1>2. ListingResolves
  <2>1. ASSUME NEW d \in Dgos, NEW k \in DOMAIN byDgo[d]
        PROVE  /\ byDgo[d][k].name = onDisk[d][k].name
               /\ \E i \in DOMAIN byName[byDgo[d][k].name] :
                    LET e == byName[byDgo[d][k].name][i] IN
                    /\ e.version = byDgo[d][k].version
                    /\ e.hash = byDgo[d][k].hash
                    /\ SameObject(e, onDisk[d][k].data)
                    /\ Alone(onDisk[d][k].data) => e.data = onDisk[d][k].data
    <3> DEFINE r == byDgo[d][k]
               x == onDisk[d][k]
               e == byName[r.name][r.version + 1]
    <3>1. RecordResolves(r, x) /\ Len(byDgo[d]) = Len(onDisk[d])
      BY DEF Inv, Listed
    <3>2. r \in ObjectFileRecord /\ x \in FileOnDisk
      <4>1. byDgo[d] \in Seq(ObjectFileRecord) /\ onDisk[d] \in Seq(FileOnDisk)
        BY <1>1 DEF StoreType
      <4>2. k \in DOMAIN onDisk[d]
        BY <3>1, <4>1, Lists
      <4> QED BY <4>1, <4>2, Lists
    <3>3. r.name \in Names /\ r.version \in Nat /\ x.data \in Contents
      BY <3>2 DEF ObjectFileRecord, FileOnDisk
    <3> HIDE DEF r, x
    <3>4. e.version = r.version /\ e.hash = Hash[e.data] /\ e.data \in Contents
      <4>1. e.version = (r.version + 1) - 1 /\ e.hash = Hash[e.data] /\ e \in ObjectFileData
        BY <1>1, <3>1, <3>3, Entries DEF Inv, Versions, RecordResolves
      <4> QED BY <3>3, <4>1 DEF ObjectFileData
    <3>5. Alone(x.data) => e.data = x.data
      BY <3>1, <3>4 DEF RecordResolves, SameObject, Alone, Fingerprint
    <3>6. /\ r.name = x.name
          /\ r.version + 1 \in DOMAIN byName[r.name]
          /\ e.version = r.version /\ e.hash = r.hash
          /\ SameObject(e, x.data)
          /\ Alone(x.data) => e.data = x.data
      BY <3>1, <3>4, <3>5 DEF RecordResolves
    <3>7. /\ r.name = x.name
          /\ \E i \in DOMAIN byName[r.name] :
               /\ byName[r.name][i].version = r.version
               /\ byName[r.name][i].hash = r.hash
               /\ SameObject(byName[r.name][i], x.data)
               /\ Alone(x.data) => byName[r.name][i].data = x.data
      BY <3>6
    <3> QED BY <3>7 DEF r, x
  <2> QED BY <2>1 DEF ListingResolves, Inv, Listed
<1>3. \A o \in Objects : /\ o[1] \in Names /\ o[2] \in DOMAIN byName[o[1]] /\ o = <<o[1], o[2]>>
                         /\ Object(o).version = o[2] - 1 /\ o[2] \in Int
  BY <1>1, Entries DEF Inv, Versions, Objects, Object
<1>4. UniqueNames
  <2> SUFFICES ASSUME NEW o \in Objects, NEW p \in Objects, o[1] = p[1],
                      Object(o).version = Object(p).version
               PROVE  o = p
    BY DEF UniqueNames
  <2>1. o[2] = p[2]
    BY <1>3
  <2> QED BY <1>3, <2>1
<1>5. ReferenceCounts
  BY <1>3 DEF ReferenceCounts, Inv, Counted, Object
<1> QED BY <1>2, <1>4, <1>5 DEF Inv, TablesConsistent

LEMMA InitInv == Init => Inv
<1> SUFFICES ASSUME Init PROVE Inv
  OBVIOUS
<1>1. StoreType
  BY DEF Init, StoreType
<1>2. TypeOK
  <2>1. Len(Passes) \in Nat
    BY PassesType DEF Init
  <2>2. Len(order) = 0
    BY DEF Init
  <2>3. WalkType /\ dgo \in 1 .. Len(DgoList) + 1
    BY <2>1, <2>2, DgoFacts DEF Init, WalkType
  <2> QED BY <1>1, <2>3, TypeParts DEF Init
<1>3. /\ \A n \in Names : DOMAIN byName[n] = {} /\ byName[n] = << >>
      /\ \A d \in Dgos : DOMAIN byDgo[d] = {} /\ Len(byDgo[d]) = 0 /\ Len(onDisk[d]) = 0
      /\ DOMAIN order = {} /\ Range(order) = {}
      /\ stats.total = 0
  BY DEF Init, Range
<1>4. Versions /\ OrderCoversNames /\ Listed /\ Counted
  BY <1>3 DEF Versions, OrderCoversNames, Listed, Counted
<1> QED BY <1>2, <1>3, <1>4, DatabaseAssumption DEF Inv

(* An object file stays in the database, with its data.                     *)
EntriesKept ==
  \A n \in Names : \A i \in DOMAIN byName[n] :
    /\ i \in DOMAIN byName'[n]
    /\ byName'[n][i].hash = byName[n][i].hash
    /\ byName'[n][i].data = byName[n][i].data

LEMMA UsesFinite == \A n, v : IsFiniteSet(Uses(n, v))
<1> SUFFICES ASSUME NEW n, NEW v PROVE IsFiniteSet(Uses(n, v))
  OBVIOUS
<1>1. IsFiniteSet(Dgos \X (1 .. MaxObjs))
  <2>1. IsFiniteSet(1 .. MaxObjs)
    BY DatabaseAssumption, FS_Interval
  <2> QED BY <2>1, DgoFacts, FS_Product
<1>2. Uses(n, v) \in SUBSET (Dgos \X (1 .. MaxObjs))
  BY DEF Uses
<1> QED BY <1>1, <1>2, FS_Subset

(* Object n of content x is listed for DGO d as the record r. *)
Enlists(d, r, x) ==
  /\ byDgo' = [byDgo EXCEPT ![d] = Append(@, r)]
  /\ onDisk' = [onDisk EXCEPT ![d] = Append(@, x)]
  /\ stats'.total = stats.total + 1
  /\ stats.total < MaxObjs

LEMMA ListingEffect ==
  ASSUME StoreType, NEW d \in Dgos, NEW r \in ObjectFileRecord, NEW x \in FileOnDisk,
         Enlists(d, r, x)
  PROVE  /\ byDgo' \in [Dgos -> Seq(ObjectFileRecord)] /\ onDisk' \in [Dgos -> Seq(FileOnDisk)]
         /\ byDgo'[d] = Append(byDgo[d], r) /\ onDisk'[d] = Append(onDisk[d], x)
         /\ \A e \in Dgos : e # d => byDgo'[e] = byDgo[e] /\ onDisk'[e] = onDisk[e]
<1>1. byDgo[d] \in Seq(ObjectFileRecord) /\ onDisk[d] \in Seq(FileOnDisk)
  BY DEF StoreType
<1>2. Append(byDgo[d], r) \in Seq(ObjectFileRecord) /\ Append(onDisk[d], x) \in Seq(FileOnDisk)
  BY <1>1, Appending
<1> QED BY <1>2 DEF StoreType, Enlists

LEMMA StillListed ==
  ASSUME StoreType, Listed, EntriesKept, NEW d \in Dgos, NEW k \in DOMAIN byDgo[d]
  PROVE  /\ byDgo[d][k].name \in Names
         /\ byDgo[d][k].version + 1 \in DOMAIN byName'[byDgo[d][k].name]
         /\ byDgo[d][k].name = onDisk[d][k].name
         /\ byDgo[d][k].hash = byName'[byDgo[d][k].name][byDgo[d][k].version + 1].hash
         /\ SameObject(byName'[byDgo[d][k].name][byDgo[d][k].version + 1], onDisk[d][k].data)
<1> DEFINE r == byDgo[d][k]
           x == onDisk[d][k]
<1>1. RecordResolves(r, x)
  BY DEF Listed
<1>2. r.name \in Names
  <2>1. byDgo[d] \in Seq(ObjectFileRecord)
    BY DEF StoreType
  <2>2. r \in ObjectFileRecord
    BY <2>1, Lists
  <2> QED BY <2>2 DEF ObjectFileRecord
<1> HIDE DEF r, x
<1>3. /\ r.name = x.name /\ r.name \in Names
      /\ r.version + 1 \in DOMAIN byName'[r.name]
      /\ r.hash = byName'[r.name][r.version + 1].hash
      /\ SameObject(byName'[r.name][r.version + 1], x.data)
  BY <1>1, <1>2 DEF RecordResolves, EntriesKept, SameObject
<1> QED BY <1>3 DEF r, x

LEMMA ListingKeepsListed ==
  ASSUME StoreType, Listed, EntriesKept,
         NEW d \in Dgos, NEW r \in ObjectFileRecord, NEW x \in FileOnDisk,
         Enlists(d, r, x),
         r.name = x.name,
         r.version + 1 \in DOMAIN byName'[r.name],
         r.hash = byName'[r.name][r.version + 1].hash,
         SameObject(byName'[r.name][r.version + 1], x.data)
  PROVE  Listed'
<1> DEFINE n == Len(byDgo[d])
<1>1. /\ byDgo[d] \in Seq(ObjectFileRecord) /\ onDisk[d] \in Seq(FileOnDisk)
      /\ stats.total \in Nat /\ n \in Nat /\ Len(onDisk[d]) = n /\ n <= stats.total
  <2>1. byDgo[d] \in Seq(ObjectFileRecord) /\ onDisk[d] \in Seq(FileOnDisk)
    BY DEF StoreType
  <2> QED BY <2>1, Lists DEF StoreType, Listed
<1>2. /\ Len(byDgo'[d]) = n + 1 /\ Len(onDisk'[d]) = n + 1
      /\ DOMAIN byDgo'[d] = 1 .. n + 1 /\ DOMAIN byDgo[d] = 1 .. n
      /\ \A k \in 1 .. n : byDgo'[d][k] = byDgo[d][k] /\ onDisk'[d][k] = onDisk[d][k]
      /\ byDgo'[d][n + 1] = r /\ onDisk'[d][n + 1] = x
  <2>1. byDgo'[d] = Append(byDgo[d], r) /\ onDisk'[d] = Append(onDisk[d], x)
    BY ListingEffect
  <2>2. DOMAIN byDgo[d] = 1 .. n /\ DOMAIN onDisk[d] = 1 .. n
    BY <1>1, Lists
  <2>3. /\ Len(byDgo'[d]) = n + 1 /\ DOMAIN byDgo'[d] = 1 .. n + 1 /\ byDgo'[d][n + 1] = r
        /\ \A k \in DOMAIN byDgo[d] : byDgo'[d][k] = byDgo[d][k]
    BY <1>1, <2>1, Appending
  <2>4. /\ Len(onDisk'[d]) = n + 1 /\ onDisk'[d][n + 1] = x
        /\ \A k \in DOMAIN onDisk[d] : onDisk'[d][k] = onDisk[d][k]
    BY <1>1, <2>1, Appending
  <2> QED BY <2>2, <2>3, <2>4
<1> HIDE DEF n
<1>3. \A k \in DOMAIN byDgo'[d] : RecordResolves(byDgo[d][k], onDisk[d][k])'
  <2> SUFFICES ASSUME NEW k \in 1 .. n + 1
               PROVE  RecordResolves(byDgo[d][k], onDisk[d][k])'
    BY <1>2
  <2>1. CASE k \in 1 .. n
    <3>1. k \in DOMAIN byDgo[d] /\ byDgo'[d][k] = byDgo[d][k] /\ onDisk'[d][k] = onDisk[d][k]
      BY <1>2, <2>1
    <3> QED BY <3>1, StillListed DEF RecordResolves, SameObject
  <2>2. CASE k = n + 1
    <3>1. byDgo'[d][k] = r /\ onDisk'[d][k] = x
      BY <1>2, <2>2
    <3> QED BY <3>1 DEF RecordResolves, SameObject
  <2> QED BY <1>1, <2>1, <2>2
<1>4. \A e \in Dgos : e # d =>
        /\ Len(byDgo'[e]) = Len(onDisk'[e])
        /\ Len(byDgo'[e]) <= stats'.total
        /\ \A k \in DOMAIN byDgo'[e] : RecordResolves(byDgo[e][k], onDisk[e][k])'
  <2> SUFFICES ASSUME NEW e \in Dgos, e # d
               PROVE  /\ Len(byDgo'[e]) = Len(onDisk'[e])
                      /\ Len(byDgo'[e]) <= stats'.total
                      /\ \A k \in DOMAIN byDgo'[e] : RecordResolves(byDgo[e][k], onDisk[e][k])'
    OBVIOUS
  <2>1. byDgo'[e] = byDgo[e] /\ onDisk'[e] = onDisk[e]
    BY ListingEffect
  <2>2. Len(byDgo[e]) \in Nat /\ Len(byDgo[e]) <= stats.total /\ Len(byDgo[e]) = Len(onDisk[e])
    <3>1. byDgo[e] \in Seq(ObjectFileRecord)
      BY DEF StoreType
    <3> QED BY <3>1, Lists DEF Listed
  <2>3. \A k \in DOMAIN byDgo[e] : RecordResolves(byDgo[e][k], onDisk[e][k])'
    BY <2>1, StillListed DEF RecordResolves, SameObject
  <2> QED BY <1>1, <2>1, <2>2, <2>3 DEF Enlists
<1>5. Len(byDgo'[d]) = Len(onDisk'[d]) /\ Len(byDgo'[d]) <= stats'.total
  BY <1>1, <1>2 DEF Enlists
<1> QED BY <1>3, <1>4, <1>5 DEF Listed

(* The new record is one more use of its object and of no other. *)
LEMMA ListingCounts ==
  ASSUME StoreType, Listed,
         NEW d \in Dgos, NEW r \in ObjectFileRecord, NEW x \in FileOnDisk,
         Enlists(d, r, x)
  PROVE  /\ Cardinality(Uses(r.name, r.version)') = Cardinality(Uses(r.name, r.version)) + 1
         /\ \A n, v : n # r.name \/ v # r.version => Uses(n, v)' = Uses(n, v)
<1> DEFINE last == Len(byDgo[d]) + 1
<1>1. byDgo[d] \in Seq(ObjectFileRecord)
  BY DEF StoreType
<1>2. last \in 1 .. MaxObjs
  BY <1>1, Lists, DatabaseAssumption DEF Listed, Enlists, StoreType
<1>3. /\ DOMAIN byDgo[d] = 1 .. last - 1 /\ DOMAIN byDgo'[d] = DOMAIN byDgo[d] \cup {last}
      /\ last \notin DOMAIN byDgo[d]
      /\ \A k \in DOMAIN byDgo[d] : byDgo'[d][k] = byDgo[d][k]
      /\ byDgo'[d][last] = r
  <2>1. /\ Len(byDgo[d]) \in Nat /\ DOMAIN byDgo[d] = 1 .. Len(byDgo[d])
        /\ DOMAIN byDgo'[d] = 1 .. Len(byDgo[d]) + 1
    BY <1>1, ListingEffect, Appending, Lists
  <2>2. \A k \in DOMAIN byDgo[d] : byDgo'[d][k] = byDgo[d][k]
    BY <1>1, ListingEffect, Appending
  <2>3. byDgo'[d][last] = r
    BY <1>1, ListingEffect, Appending
  <2> QED BY <2>1, <2>2, <2>3
<1>4. \A e \in Dgos : e # d => byDgo'[e] = byDgo[e]
  BY ListingEffect
<1> HIDE DEF last
<1>5. Uses(r.name, r.version)' = Uses(r.name, r.version) \cup {<<d, last>>}
  BY <1>2, <1>3, <1>4 DEF Uses
<1>6. <<d, last>> \notin Uses(r.name, r.version)
  BY <1>3 DEF Uses
<1>7. \A n, v : n # r.name \/ v # r.version => Uses(n, v)' = Uses(n, v)
  BY <1>2, <1>3, <1>4 DEF Uses
<1>8. Cardinality(Uses(r.name, r.version)') = Cardinality(Uses(r.name, r.version)) + 1
  BY <1>5, <1>6, UsesFinite, FS_AddElement
<1> QED BY <1>7, <1>8

-----------------------------------------------------------------------------
(* The steps                                                                *)

(* One object file of the database is replaced. *)
Replaces(n, i, g) == byName' = [byName EXCEPT ![n][i] = g]

LEMMA ReplaceEffect ==
  ASSUME StoreType, NEW n \in Names, NEW i \in DOMAIN byName[n], NEW g \in ObjectFileData,
         Replaces(n, i, g)
  PROVE  /\ byName' \in [Names -> Seq(ObjectFileData)]
         /\ byName'[n][i] = g
         /\ \A m \in Names : /\ Len(byName'[m]) = Len(byName[m])
                             /\ DOMAIN byName'[m] = DOMAIN byName[m]
                             /\ byName'[m] = << >> <=> byName[m] = << >>
                             /\ \A j \in DOMAIN byName[m] :
                                  m # n \/ j # i => byName'[m][j] = byName[m][j]
<1> DEFINE s == byName[n]
           t == [s EXCEPT ![i] = g]
<1>1. s \in Seq(ObjectFileData) /\ i \in 1 .. Len(s)
  BY Entries
<1>2. /\ t \in Seq(ObjectFileData) /\ Len(t) = Len(s)
      /\ t[i] = g /\ \A j \in 1 .. Len(s) : j # i => t[j] = s[j]
  BY <1>1, ExceptSeq
<1>3. byName' = [byName EXCEPT ![n] = t]
  BY DEF Replaces
<1> HIDE DEF t
<1>4. /\ byName'[n] = t /\ byName' \in [Names -> Seq(ObjectFileData)]
      /\ \A m \in Names : m # n => byName'[m] = byName[m]
  BY <1>2, <1>3 DEF StoreType
<1>5. DOMAIN t = DOMAIN s /\ DOMAIN s = 1 .. Len(s) /\ (t = << >> <=> s = << >>)
  BY <1>1, <1>2, Lists
<1> HIDE DEF s
<1>6. /\ Len(byName'[n]) = Len(s)
      /\ DOMAIN byName'[n] = DOMAIN s
      /\ byName'[n] = << >> <=> s = << >>
      /\ \A j \in DOMAIN s : j # i => byName'[n][j] = s[j]
  BY <1>2, <1>4, <1>5
<1> QED BY <1>2, <1>4, <1>6 DEF s

LEMMA ReplaceKeepsEntries ==
  ASSUME StoreType, NEW n \in Names, NEW i \in DOMAIN byName[n], NEW g \in ObjectFileData,
         Replaces(n, i, g), g.hash = byName[n][i].hash, g.data = byName[n][i].data
  PROVE  EntriesKept
<1>1. \A m \in Names : DOMAIN byName'[m] = DOMAIN byName[m]
  BY ReplaceEffect
<1>2. \A m \in Names : \A j \in DOMAIN byName[m] :
        /\ byName'[m][j].hash = byName[m][j].hash
        /\ byName'[m][j].data = byName[m][j].data
  BY ReplaceEffect
<1> QED BY <1>1, <1>2 DEF EntriesKept

(* Neither does the replacement disturb the numbering or the order. *)
LEMMA ReplaceKeepsOrder ==
  ASSUME StoreType, Versions, OrderCoversNames, UNCHANGED order,
         NEW n \in Names, NEW i \in DOMAIN byName[n], NEW g \in ObjectFileData,
         Replaces(n, i, g), g.hash = byName[n][i].hash, g.data = byName[n][i].data,
         g.version = byName[n][i].version
  PROVE  Versions' /\ OrderCoversNames'
<1>1. \A m \in Names : /\ DOMAIN byName'[m] = DOMAIN byName[m]
                       /\ byName'[m] = << >> <=> byName[m] = << >>
  BY ReplaceEffect
<1>2. \A m \in Names : \A j \in DOMAIN byName[m] :
        /\ byName'[m][j].hash = byName[m][j].hash
        /\ byName'[m][j].data = byName[m][j].data
        /\ byName'[m][j].version = byName[m][j].version
  BY ReplaceEffect
<1>3. Versions'
  BY <1>1, <1>2 DEF Versions
<1>4. {m \in Names : byName'[m] # << >>} = {m \in Names : byName[m] # << >>}
  BY <1>1
<1>5. OrderCoversNames'
  BY <1>4 DEF OrderCoversNames
<1> QED BY <1>3, <1>5

(* The object file in use in the DGO being read. *)
LEMMA ReadingDgo ==
  ASSUME TypeOK, Reading
  PROVE  DgoList[dgo] \in Dgos
<1>1. dgo \in 1 .. Len(DgoList)
  BY TypeParts, DgoFacts DEF Reading
<1> QED BY <1>1, DgoFacts

AddKnownEntry(n, i) == [byName[n][i] EXCEPT !.refs = @ + 1]

LEMMA AddKnownEffect ==
  ASSUME Inv, NEW n \in Names, NEW c \in Contents, NEW i \in DOMAIN byName[n], AddKnown(n, c, i)
  PROVE  /\ AddKnownEntry(n, i) \in ObjectFileData
         /\ AddKnownEntry(n, i).refs = byName[n][i].refs + 1
         /\ AddKnownEntry(n, i).version = byName[n][i].version
         /\ AddKnownEntry(n, i).hash = byName[n][i].hash
         /\ AddKnownEntry(n, i).data = byName[n][i].data
         /\ AddKnownEntry(n, i).done = byName[n][i].done
         /\ Replaces(n, i, AddKnownEntry(n, i))
         /\ RecordOf(n, byName[n][i]) \in ObjectFileRecord
         /\ RecordOf(n, byName[n][i]).name = n
         /\ RecordOf(n, byName[n][i]).version = i - 1
         /\ RecordOf(n, byName[n][i]).hash = byName[n][i].hash
         /\ Enlists(DgoList[dgo], RecordOf(n, byName[n][i]), [name |-> n, data |-> c])
         /\ [name |-> n, data |-> c] \in FileOnDisk
         /\ stats' \in [total : Nat, unique : Nat, bytes : Nat]
         /\ stats'.total <= MaxObjs
<1>1. StoreType /\ byName[n][i] \in ObjectFileData
  BY TypeParts, Entries DEF Inv
<1>2. /\ AddKnownEntry(n, i) \in ObjectFileData
      /\ AddKnownEntry(n, i).refs = byName[n][i].refs + 1
      /\ AddKnownEntry(n, i).version = byName[n][i].version
      /\ AddKnownEntry(n, i).hash = byName[n][i].hash
      /\ AddKnownEntry(n, i).data = byName[n][i].data
      /\ AddKnownEntry(n, i).done = byName[n][i].done
  BY <1>1 DEF AddKnownEntry, ObjectFileData
<1>3. Replaces(n, i, AddKnownEntry(n, i))
  BY DEF AddKnown, Replaces, AddKnownEntry
<1>4. byName[n][i].version = i - 1
  BY DEF Inv, Versions
<1>5. /\ RecordOf(n, byName[n][i]) \in ObjectFileRecord
      /\ RecordOf(n, byName[n][i]).name = n
      /\ RecordOf(n, byName[n][i]).version = i - 1
      /\ RecordOf(n, byName[n][i]).hash = byName[n][i].hash
  BY <1>1, <1>4 DEF RecordOf, ObjectFileRecord, ObjectFileData
<1>6. [name |-> n, data |-> c] \in FileOnDisk
  BY DEF FileOnDisk
<1>7. /\ stats.total \in Nat /\ stats.total < MaxObjs
      /\ stats' = [stats EXCEPT !.total = stats.total + 1]
      /\ stats \in [total : Nat, unique : Nat, bytes : Nat]
  BY <1>1 DEF StoreType, AddKnown, Meet
<1>8. stats'.total = stats.total + 1 /\ stats' \in [total : Nat, unique : Nat, bytes : Nat]
  BY <1>7
<1>9. Enlists(DgoList[dgo], RecordOf(n, byName[n][i]), [name |-> n, data |-> c])
  BY <1>7, <1>8 DEF AddKnown, Meet, Enlist, Enlists
<1> QED BY <1>2, <1>3, <1>5, <1>6, <1>7, <1>8, <1>9, DatabaseAssumption

LEMMA AddKnownKeepsInv ==
  ASSUME Inv, NEW n \in Names, NEW c \in Contents, NEW i \in DOMAIN byName[n], AddKnown(n, c, i)
  PROVE  Inv'
<1> DEFINE D == DgoList[dgo]
           g == AddKnownEntry(n, i)
           r == RecordOf(n, byName[n][i])
           x == [name |-> n, data |-> c]
<1>1. StoreType /\ D \in Dgos /\ i \in Nat /\ x.name = n /\ x.data = c
  BY TypeParts, ReadingDgo, Entries DEF Inv, AddKnown, Meet
<1>2. /\ g \in ObjectFileData /\ Replaces(n, i, g)
      /\ g.refs = byName[n][i].refs + 1 /\ g.version = byName[n][i].version
      /\ g.hash = byName[n][i].hash /\ g.data = byName[n][i].data
      /\ r \in ObjectFileRecord /\ r.name = n /\ r.version = i - 1
      /\ r.hash = byName[n][i].hash /\ x \in FileOnDisk /\ Enlists(D, r, x)
      /\ stats' \in [total : Nat, unique : Nat, bytes : Nat] /\ stats'.total <= MaxObjs
  BY AddKnownEffect
<1>3. /\ UNCHANGED <<config, dgo, order, pass, nth, version, failed>>
      /\ SameObject(byName[n][i], c)
  BY DEF AddKnown, Meet, walk
<1> HIDE DEF D, g, r, x
<1>4. EntriesKept
  BY <1>1, <1>2, ReplaceKeepsEntries
<1>5. Versions' /\ OrderCoversNames'
  BY <1>1, <1>2, <1>3, ReplaceKeepsOrder DEF Inv
<1>6. Listed'
  <2>1. /\ r.version + 1 = i /\ i \in DOMAIN byName'[n] /\ byName'[n][i] = g
    BY <1>1, <1>2, ReplaceEffect
  <2>2. SameObject(byName'[n][i], c)
    BY <1>2, <1>3, <2>1 DEF SameObject
  <2> QED BY <1>1, <1>2, <1>4, <2>1, <2>2, ListingKeepsListed DEF Inv
<1>7. Counted'
  <2> SUFFICES ASSUME NEW m \in Names, NEW j \in DOMAIN byName'[m]
               PROVE  byName'[m][j].refs + 1 = Cardinality(Uses(m, j - 1)')
    BY DEF Counted
  <2>1. j \in DOMAIN byName[m] /\ j \in Nat
    BY <1>1, <1>2, ReplaceEffect, Entries
  <2>2. byName[m][j].refs + 1 = Cardinality(Uses(m, j - 1))
    BY <2>1 DEF Inv, Counted
  <2>3. CASE m = n /\ j = i
    <3>1. Cardinality(Uses(m, j - 1)') = Cardinality(Uses(m, j - 1)) + 1
      BY <1>1, <1>2, <2>3, ListingCounts DEF Inv
    <3>2. byName'[m][j] = g
      BY <1>1, <1>2, <2>3, ReplaceEffect
    <3> QED BY <1>2, <2>2, <2>3, <3>1, <3>2
  <2>4. CASE m # n \/ j # i
    <3>1. m # r.name \/ j - 1 # r.version
      BY <1>1, <1>2, <2>1, <2>4
    <3>2. Uses(m, j - 1)' = Uses(m, j - 1)
      BY <1>1, <1>2, <3>1, ListingCounts DEF Inv
    <3>3. byName'[m][j] = byName[m][j]
      BY <1>1, <1>2, <2>1, <2>4, ReplaceEffect
    <3> QED BY <2>2, <3>2, <3>3
  <2> QED BY <2>3, <2>4
<1>8. StoreType'
  BY <1>1, <1>2, <1>3, ReplaceEffect, ListingEffect, PassesStay DEF StoreType, ObjectFileData
<1>9. TypeOK'
  <2>1. WalkType'
    BY <1>3, PassesStay, TypeParts DEF Inv, WalkType
  <2> QED BY <1>3, <1>8, <2>1, TypeParts DEF Inv, TypeOK, StoreType, WalkType, ObjectFileData,
                                            ObjectFileRecord, FileOnDisk
<1> QED BY <1>2, <1>5, <1>6, <1>7, <1>9 DEF Inv

NewEntry(n, c) == [data |-> c, hash |-> Hash[c], version |-> NewVersion(n), refs |-> 0,
                   done |-> << >>]

Adds(n, g) == byName' = [byName EXCEPT ![n] = Append(@, g)]

LEMMA AddsEffect ==
  ASSUME StoreType, NEW n \in Names, NEW g \in ObjectFileData, Adds(n, g)
  PROVE  /\ byName' \in [Names -> Seq(ObjectFileData)]
         /\ Len(byName'[n]) = Len(byName[n]) + 1
         /\ DOMAIN byName'[n] = 1 .. Len(byName[n]) + 1
         /\ byName'[n][Len(byName[n]) + 1] = g
         /\ byName'[n] # << >>
         /\ \A j \in DOMAIN byName[n] : byName'[n][j] = byName[n][j]
         /\ \A m \in Names : m # n => byName'[m] = byName[m]
         /\ EntriesKept
<1>1. byName[n] \in Seq(ObjectFileData) /\ Append(byName[n], g) \in Seq(ObjectFileData)
  BY Entries, Appending
<1>2. /\ byName'[n] = Append(byName[n], g) /\ byName' \in [Names -> Seq(ObjectFileData)]
      /\ \A m \in Names : m # n => byName'[m] = byName[m]
  BY <1>1 DEF Adds, StoreType
<1>3. /\ Len(byName'[n]) = Len(byName[n]) + 1
      /\ DOMAIN byName'[n] = 1 .. Len(byName[n]) + 1
      /\ byName'[n][Len(byName[n]) + 1] = g
      /\ byName'[n] # << >>
      /\ \A j \in DOMAIN byName[n] : byName'[n][j] = byName[n][j]
  BY <1>1, <1>2, Appending
<1>4. EntriesKept
  <2> SUFFICES ASSUME NEW m \in Names, NEW j \in DOMAIN byName[m]
               PROVE  j \in DOMAIN byName'[m] /\ byName'[m][j] = byName[m][j]
    BY DEF EntriesKept
  <2>1. CASE m = n
    <3>1. j \in 1 .. Len(byName[n]) /\ Len(byName[n]) \in Nat
      BY <2>1, Entries
    <3> QED BY <1>3, <2>1, <3>1
  <2>2. CASE m # n
    BY <1>2, <2>2
  <2> QED BY <2>1, <2>2
<1> QED BY <1>2, <1>3, <1>4

(* A name gets its place in the order with its first object. *)
LEMMA OrderStaysCovered ==
  ASSUME StoreType, OrderCoversNames, NEW n \in Names, NEW g \in ObjectFileData, Adds(n, g),
         order' = OrderWith(n)
  PROVE  /\ order' \in Seq(Names) /\ Len(order) <= Len(order') /\ OrderCoversNames'
         /\ \A k \in DOMAIN order : k \in DOMAIN order' /\ order'[k] = order[k]
<1>1. order \in Seq(Names) /\ Len(order) \in Nat /\ DOMAIN order = 1 .. Len(order)
  BY Lists DEF StoreType
<1>2. {m \in Names : byName'[m] # << >>} = {m \in Names : byName[m] # << >>} \cup {n}
  BY AddsEffect
<1>3. CASE byName[n] = << >>
  <2>1. order' = Append(order, n)
    BY <1>3 DEF OrderWith
  <2>2. /\ order' \in Seq(Names) /\ Len(order') = Len(order) + 1
        /\ DOMAIN order' = 1 .. Len(order) + 1
        /\ \A k \in DOMAIN order : order'[k] = order[k]
        /\ order'[Len(order) + 1] = n
    BY <1>1, <2>1, Appending
  <2>3. DOMAIN order' = DOMAIN order \cup {Len(order) + 1} /\ Len(order) + 1 \notin DOMAIN order
    BY <1>1, <2>2
  <2>4. Range(order') = Range(order) \cup {n}
    BY <2>2, <2>3 DEF Range
  <2>5. \A k \in DOMAIN order : order[k] # n
    BY <1>3 DEF OrderCoversNames, Range
  <2>6. \A i, j \in DOMAIN order' : order'[i] = order'[j] => i = j
    BY <2>2, <2>3, <2>5 DEF OrderCoversNames
  <2>7. OrderCoversNames'
    BY <1>2, <2>4, <2>6 DEF OrderCoversNames
  <2> QED BY <1>1, <2>2, <2>3, <2>7
<1>4. CASE byName[n] # << >>
  <2>1. order' = order
    BY <1>4 DEF OrderWith
  <2>2. {m \in Names : byName'[m] # << >>} = {m \in Names : byName[m] # << >>}
    BY <1>2, <1>4
  <2> QED BY <1>1, <2>1, <2>2 DEF OrderCoversNames
<1> QED BY <1>3, <1>4

LEMMA AddNewEffect ==
  ASSUME Inv, NEW n \in Names, NEW c \in Contents, AddNew(n, c)
  PROVE  /\ NewEntry(n, c) \in ObjectFileData
         /\ NewEntry(n, c).data = c /\ NewEntry(n, c).hash = Hash[c]
         /\ NewEntry(n, c).version = Len(byName[n]) /\ NewEntry(n, c).refs = 0
         /\ NewEntry(n, c).done = << >>
         /\ Adds(n, NewEntry(n, c))
         /\ RecordOf(n, NewEntry(n, c)) \in ObjectFileRecord
         /\ RecordOf(n, NewEntry(n, c)).name = n
         /\ RecordOf(n, NewEntry(n, c)).version = Len(byName[n])
         /\ RecordOf(n, NewEntry(n, c)).hash = Hash[c]
         /\ Enlists(DgoList[dgo], RecordOf(n, NewEntry(n, c)), [name |-> n, data |-> c])
         /\ [name |-> n, data |-> c] \in FileOnDisk
         /\ stats' \in [total : Nat, unique : Nat, bytes : Nat]
         /\ stats'.total <= MaxObjs
<1>1. StoreType /\ Len(byName[n]) \in Nat /\ Hash[c] \in Range(Hash) /\ Size[c] \in Nat
  BY TypeParts, Entries, DatabaseAssumption DEF Inv, Range
<1>2. << >> \in Seq(Range(Passes))
  OBVIOUS
<1>3. /\ NewEntry(n, c) \in ObjectFileData
      /\ NewEntry(n, c).data = c /\ NewEntry(n, c).hash = Hash[c]
      /\ NewEntry(n, c).version = Len(byName[n]) /\ NewEntry(n, c).refs = 0
      /\ NewEntry(n, c).done = << >>
  BY <1>1, <1>2 DEF NewEntry, ObjectFileData, NewVersion
<1>4. Adds(n, NewEntry(n, c))
  BY DEF AddNew, Adds, NewEntry
<1>5. /\ RecordOf(n, NewEntry(n, c)) \in ObjectFileRecord
      /\ RecordOf(n, NewEntry(n, c)).name = n
      /\ RecordOf(n, NewEntry(n, c)).version = Len(byName[n])
      /\ RecordOf(n, NewEntry(n, c)).hash = Hash[c]
  BY <1>1, <1>3 DEF RecordOf, ObjectFileRecord
<1>6. [name |-> n, data |-> c] \in FileOnDisk
  BY DEF FileOnDisk
<1>7. /\ stats.total \in Nat /\ stats.unique \in Nat /\ stats.bytes \in Nat
      /\ stats.total < MaxObjs
      /\ stats' = [total |-> stats.total + 1, unique |-> stats.unique + 1,
                   bytes |-> stats.bytes + Size[c]]
  BY <1>1 DEF StoreType, AddNew, Meet
<1>8. stats'.total = stats.total + 1 /\ stats' \in [total : Nat, unique : Nat, bytes : Nat]
  BY <1>1, <1>7
<1>9. Enlists(DgoList[dgo], RecordOf(n, NewEntry(n, c)), [name |-> n, data |-> c])
  BY <1>7, <1>8 DEF AddNew, Meet, Enlist, Enlists, NewEntry
<1> QED BY <1>3, <1>4, <1>5, <1>6, <1>7, <1>8, <1>9, DatabaseAssumption

(* No list mentions an object that is not there. *)
LEMMA NewIsUnused ==
  ASSUME StoreType, Listed, NEW n \in Names
  PROVE  Uses(n, Len(byName[n])) = {}
<1> SUFFICES ASSUME NEW u \in Uses(n, Len(byName[n])) PROVE FALSE
  OBVIOUS
<1>1. /\ u[1] \in Dgos /\ u[2] \in DOMAIN byDgo[u[1]]
      /\ byDgo[u[1]][u[2]].name = n
      /\ byDgo[u[1]][u[2]].version = Len(byName[n])
  BY DEF Uses
<1>2. RecordResolves(byDgo[u[1]][u[2]], onDisk[u[1]][u[2]])
  BY <1>1 DEF Listed
<1>3. Len(byName[n]) + 1 \in DOMAIN byName[n]
  BY <1>1, <1>2 DEF RecordResolves
<1> QED BY <1>3, Entries

LEMMA AddNewKeepsInv ==
  ASSUME Inv, NEW n \in Names, NEW c \in Contents, AddNew(n, c)
  PROVE  Inv'
<1> PICK v : v = Len(byName[n])
  OBVIOUS
<1> DEFINE D == DgoList[dgo]
           g == NewEntry(n, c)
           r == RecordOf(n, NewEntry(n, c))
           x == [name |-> n, data |-> c]
<1>1. /\ StoreType /\ D \in Dgos /\ x.name = n /\ x.data = c
      /\ v \in Nat /\ DOMAIN byName[n] = 1 .. v
  BY TypeParts, ReadingDgo, Entries DEF Inv, AddNew, Meet
<1>2. /\ g \in ObjectFileData /\ g.data = c /\ g.hash = Hash[c] /\ g.version = v /\ g.refs = 0
      /\ Adds(n, g)
      /\ r \in ObjectFileRecord /\ r.name = n /\ r.version = v /\ r.hash = Hash[c]
      /\ Enlists(D, r, x) /\ x \in FileOnDisk
      /\ stats' \in [total : Nat, unique : Nat, bytes : Nat] /\ stats'.total <= MaxObjs
  BY AddNewEffect
<1>3. UNCHANGED <<config, dgo, pass, nth, version, failed>> /\ order' = OrderWith(n)
  BY DEF AddNew, Meet, walk
<1> HIDE DEF D, g, r, x
<1>4. /\ byName' \in [Names -> Seq(ObjectFileData)]
      /\ DOMAIN byName'[n] = 1 .. v + 1
      /\ byName'[n][v + 1] = g
      /\ \A j \in DOMAIN byName[n] : byName'[n][j] = byName[n][j]
      /\ \A m \in Names : m # n => byName'[m] = byName[m]
      /\ EntriesKept
  BY <1>1, <1>2, AddsEffect
<1>5. /\ order' \in Seq(Names) /\ Len(order) <= Len(order') /\ OrderCoversNames'
  BY <1>1, <1>2, <1>3, OrderStaysCovered DEF Inv
<1>6. \A m \in Names : \A j \in DOMAIN byName'[m] :
        \/ j \in DOMAIN byName[m] /\ byName'[m][j] = byName[m][j] /\ (m # n \/ j # v + 1)
        \/ m = n /\ j = v + 1 /\ byName'[m][j] = g
  <2> SUFFICES ASSUME NEW m \in Names, NEW j \in DOMAIN byName'[m]
               PROVE  \/ /\ j \in DOMAIN byName[m] /\ byName'[m][j] = byName[m][j]
                         /\ m # n \/ j # v + 1
                      \/ m = n /\ j = v + 1 /\ byName'[m][j] = g
    OBVIOUS
  <2>1. CASE m # n
    BY <1>4, <2>1
  <2>2. CASE m = n
    <3>1. j \in 1 .. v \/ j = v + 1
      BY <1>1, <1>4, <2>2
    <3>2. j \in 1 .. v => j # v + 1
      BY <1>1
    <3> QED BY <1>1, <1>4, <2>2, <3>1, <3>2
  <2> QED BY <2>1, <2>2
<1>7. Versions'
  <2> SUFFICES ASSUME NEW m \in Names, NEW j \in DOMAIN byName'[m]
               PROVE  /\ byName'[m][j].version = j - 1
                      /\ byName'[m][j].hash = Hash[byName'[m][j].data]
    BY DEF Versions
  <2>1. CASE j \in DOMAIN byName[m] /\ byName'[m][j] = byName[m][j]
    BY <2>1 DEF Inv, Versions
  <2>2. CASE m = n /\ j = v + 1 /\ byName'[m][j] = g
    BY <1>1, <1>2, <2>2
  <2> QED BY <1>6, <2>1, <2>2
<1>8. Listed'
  <2>1. r.version + 1 \in DOMAIN byName'[n] /\ byName'[n][r.version + 1] = g
    BY <1>1, <1>2, <1>4
  <2>2. SameObject(g, c)
    BY <1>2 DEF SameObject
  <2> QED BY <1>1, <1>2, <1>4, <2>1, <2>2, ListingKeepsListed DEF Inv
<1>9. Counted'
  <2> SUFFICES ASSUME NEW m \in Names, NEW j \in DOMAIN byName'[m]
               PROVE  byName'[m][j].refs + 1 = Cardinality(Uses(m, j - 1)')
    BY DEF Counted
  <2>1. CASE j \in DOMAIN byName[m] /\ byName'[m][j] = byName[m][j] /\ (m # n \/ j # v + 1)
    <3>1. byName[m][j].refs + 1 = Cardinality(Uses(m, j - 1)) /\ j \in Nat
      BY <1>1, <2>1, Entries DEF Inv, Counted
    <3>2. m # r.name \/ j - 1 # r.version
      BY <1>1, <1>2, <2>1, <3>1
    <3>3. Uses(m, j - 1)' = Uses(m, j - 1)
      BY <1>1, <1>2, <3>2, ListingCounts DEF Inv
    <3> QED BY <2>1, <3>1, <3>3
  <2>2. CASE m = n /\ j = v + 1 /\ byName'[m][j] = g
    <3>1. j - 1 = v
      BY <1>1, <2>2
    <3>2. Cardinality(Uses(n, v)') = Cardinality(Uses(n, v)) + 1
      BY <1>1, <1>2, ListingCounts DEF Inv
    <3>3. Cardinality(Uses(n, v)) = 0
      BY <1>1, NewIsUnused, FS_EmptySet DEF Inv
    <3> QED BY <1>2, <2>2, <3>1, <3>2, <3>3
  <2> QED BY <1>6, <2>1, <2>2
<1>10. StoreType'
  BY <1>1, <1>2, <1>3, <1>4, <1>5, ListingEffect, PassesStay DEF StoreType, ObjectFileData
<1>11. TypeOK'
  <2>1. nth \in 1 .. Len(order') + 1
    BY <1>1, <1>5, TypeParts, Lists DEF Inv, WalkType, StoreType
  <2>2. WalkType'
    BY <1>3, <2>1, PassesStay, TypeParts DEF Inv, WalkType
  <2> QED BY <1>3, <1>10, <2>2, TypeParts DEF Inv, TypeOK, StoreType, WalkType, ObjectFileData,
                                             ObjectFileRecord, FileOnDisk
<1> QED BY <1>2, <1>5, <1>7, <1>8, <1>9, <1>11 DEF Inv

(* The tables are left alone by a step that changes none of them. *)
LEMMA StoreUnchanged ==
  ASSUME Inv, UNCHANGED <<config, store, onDisk>>,
         dgo' \in 1 .. Len(DgoList) + 1, WalkType', failed' \in BOOLEAN
  PROVE  Inv'
<1>1. UNCHANGED <<byName, byDgo, order, stats, onDisk, config>>
  BY DEF store
<1>2. StoreType /\ config \in Configs
  BY TypeParts DEF Inv
<1>3. StoreType'
  BY <1>1, <1>2, PassesStay DEF StoreType, ObjectFileData
<1>4. TypeOK'
  BY <1>1, <1>2, <1>3 DEF TypeOK, StoreType, WalkType, ObjectFileData, ObjectFileRecord, FileOnDisk
<1>5. \A n, v : Uses(n, v)' = Uses(n, v)
  BY <1>1 DEF Uses
<1>6. Versions' /\ OrderCoversNames' /\ Listed' /\ Counted'
  BY <1>1, <1>5 DEF Inv, Versions, OrderCoversNames, Listed, RecordResolves, SameObject, Counted
<1> QED BY <1>1, <1>4, <1>6 DEF Inv

LEMMA NextDgoKeepsInv == ASSUME Inv, NextDgo PROVE Inv'
<1>1. dgo' \in 1 .. Len(DgoList) + 1
  <2>1. dgo \in 1 .. Len(DgoList) + 1 /\ dgo <= Len(DgoList) /\ dgo' = dgo + 1
    BY TypeParts DEF Inv, NextDgo, Reading
  <2> QED BY <2>1, DgoFacts
<1>2. UNCHANGED <<config, store, onDisk, walk, failed>>
  BY DEF NextDgo
<1>3. WalkType' /\ failed' \in BOOLEAN
  BY <1>2, PassesStay, TypeParts DEF Inv, WalkType, walk, store
<1> QED BY <1>1, <1>2, <1>3, StoreUnchanged

LEMMA FailKeepsInv == ASSUME Inv, Fail PROVE Inv'
<1>1. UNCHANGED <<config, store, onDisk, dgo, walk>> /\ failed' \in BOOLEAN
  BY DEF Fail
<1>2. WalkType' /\ dgo' \in 1 .. Len(DgoList) + 1
  BY <1>1, PassesStay, TypeParts DEF Inv, WalkType, walk, store
<1> QED BY <1>1, <1>2, StoreUnchanged

LEMMA StartPassKeepsInv ==
  ASSUME Inv, UNCHANGED <<config, store, onDisk, dgo, failed>>,
         NEW p \in 0 .. Len(Passes) + 1, StartPass(p)
  PROVE  Inv'
<1>1. Len(order) \in Nat /\ order' = order
  BY TypeParts, Lists DEF Inv, StoreType, store
<1>2. WalkType'
  BY <1>1, PassesStay DEF WalkType, StartPass
<1> QED BY <1>2, StoreUnchanged, TypeParts DEF Inv

LEMMA PassesFacts ==
  ASSUME TypeOK
  PROVE  Len(Passes) \in Nat /\ DOMAIN Passes = 1 .. Len(Passes)
         /\ Passes \in Seq(PassNames)
         /\ \A i \in 1 .. Len(Passes) : Passes[i] \in Range(Passes)
  BY PassesType, TypeParts

LEMMA WriteListingKeepsInv == ASSUME Inv, WriteListing PROVE Inv'
<1>1. 1 \in 0 .. Len(Passes) + 1
  BY PassesFacts DEF Inv
<1> QED BY <1>1, StartPassKeepsInv DEF WriteListing

LEMMA PassDoneKeepsInv == ASSUME Inv, PassDone PROVE Inv'
<1>1. pass + 1 \in 0 .. Len(Passes) + 1
  BY PassesFacts DEF Inv, PassDone, Running
<1> QED BY <1>1, StartPassKeepsInv DEF PassDone

(* for_each_obj never steps past the last version of a name. *)
CursorInside == nth <= Len(order) => version < Len(byName[order[nth]])

VisitedEntry(n, i) == [byName[n][i] EXCEPT !.done = Append(@, Passes[pass])]

(* The running pass goes over version i - 1 of the name n. *)
Visits(n, i) ==
  /\ Running
  /\ nth \in DOMAIN order /\ n = order[nth] /\ i = version + 1
  /\ Replaces(n, i, VisitedEntry(n, i))
  /\ files' = files \cup FilesFor(Passes[pass], n, byName[n][i])
  /\ IF i < Len(byName[n]) THEN version' = i /\ nth' = nth ELSE version' = 0 /\ nth' = nth + 1
  /\ UNCHANGED <<config, byDgo, order, stats, onDisk, dgo, pass, failed>>

LEMMA VisitCases ==
  ASSUME Inv, CursorInside, Visit
  PROVE  \E n \in Names : \E i \in DOMAIN byName[n] : Visits(n, i)
<1>1. StoreType /\ WalkType
  BY TypeParts DEF Inv
<1>2. nth \in DOMAIN order
  BY <1>1, Lists DEF StoreType, WalkType, Visit
<1>3. order[nth] \in Names
  BY <1>1, <1>2, Lists DEF StoreType
<1> PICK n \in Names : n = order[nth]
  BY <1>3
<1> PICK i : i = version + 1
  OBVIOUS
<1>4. i \in DOMAIN byName[n]
  <2>1. version < Len(byName[n]) /\ version \in Nat
    BY <1>1 DEF CursorInside, Visit, WalkType
  <2> QED BY <1>1, <2>1, Entries
<1>5. Visits(n, i)
  BY <1>2 DEF Visit, Visits, Replaces, VisitedEntry
<1> QED BY <1>4, <1>5

LEMMA VisitedEffect ==
  ASSUME Inv, NEW n \in Names, NEW i \in DOMAIN byName[n], Visits(n, i)
  PROVE  /\ VisitedEntry(n, i) \in ObjectFileData
         /\ VisitedEntry(n, i).refs = byName[n][i].refs
         /\ VisitedEntry(n, i).version = byName[n][i].version
         /\ VisitedEntry(n, i).hash = byName[n][i].hash
         /\ VisitedEntry(n, i).data = byName[n][i].data
         /\ VisitedEntry(n, i).done = Append(byName[n][i].done, Passes[pass])
<1>1. byName[n][i] \in ObjectFileData
  BY TypeParts, Entries DEF Inv
<1>2. byName[n][i].done \in Seq(Range(Passes)) /\ Passes[pass] \in Range(Passes)
  BY <1>1, PassesFacts DEF ObjectFileData, Inv, Visits, Running
<1>3. Append(byName[n][i].done, Passes[pass]) \in Seq(Range(Passes))
  BY <1>2, Appending
<1> QED BY <1>1, <1>3 DEF VisitedEntry, ObjectFileData

LEMMA VisitKeepsInv ==
  ASSUME Inv, NEW n \in Names, NEW i \in DOMAIN byName[n], Visits(n, i)
  PROVE  Inv'
<1> DEFINE g == VisitedEntry(n, i)
<1>1. StoreType /\ WalkType
  BY TypeParts DEF Inv
<1>2. /\ g \in ObjectFileData /\ g.refs = byName[n][i].refs /\ Replaces(n, i, g)
      /\ g.version = byName[n][i].version
      /\ g.hash = byName[n][i].hash /\ g.data = byName[n][i].data
  BY VisitedEffect DEF Visits
<1>3. UNCHANGED <<config, byDgo, order, stats, onDisk, dgo, pass, failed>>
  BY DEF Visits
<1> HIDE DEF g
<1>4. EntriesKept
  BY <1>1, <1>2, ReplaceKeepsEntries
<1>5. Versions' /\ OrderCoversNames'
  BY <1>1, <1>2, <1>3, ReplaceKeepsOrder DEF Inv
<1>6. Listed'
  BY <1>1, <1>3, <1>4, StillListed DEF Inv, Listed, RecordResolves, SameObject
<1>7. Counted'
  <2>1. \A m, v : Uses(m, v)' = Uses(m, v)
    BY <1>3 DEF Uses
  <2>2. \A m \in Names : /\ DOMAIN byName'[m] = DOMAIN byName[m]
                         /\ \A j \in DOMAIN byName[m] : byName'[m][j].refs = byName[m][j].refs
    BY <1>1, <1>2, ReplaceEffect
  <2> QED BY <2>1, <2>2 DEF Inv, Counted
<1>8. StoreType'
  BY <1>1, <1>2, <1>3, ReplaceEffect, PassesStay DEF StoreType, ObjectFileData
<1>9. TypeOK'
  <2>1. /\ i \in Nat /\ version' \in Nat /\ nth' \in 1 .. Len(order) + 1
        /\ Len(order) \in Nat
    <3>1. i \in Nat
      BY <1>1, Entries
    <3>2. Len(order) \in Nat /\ nth \in 1 .. Len(order)
      BY <1>1, Lists DEF StoreType, Visits
    <3> QED BY <3>1, <3>2 DEF Visits
  <2>2. WalkType'
    BY <1>1, <1>3, <2>1, PassesStay DEF WalkType
  <2> QED BY <1>3, <1>8, <2>2, TypeParts DEF Inv, TypeOK, StoreType, WalkType, ObjectFileData,
                                            ObjectFileRecord, FileOnDisk
<1> QED BY <1>3, <1>5, <1>6, <1>7, <1>9 DEF Inv

-----------------------------------------------------------------------------
(* The passes over the database                                             *)

(* The first n passes. *)
First(n) == SubSeq(Passes, 1, IF n > Len(Passes) THEN Len(Passes) ELSE n)

Visited(k, i) == k < nth \/ (k = nth /\ i <= version)

(* The number of passes that have been over version i - 1 of the k-th name. *)
PassesOver(k, i) == IF pass = 0 THEN 0 ELSE IF Visited(k, i) THEN pass ELSE pass - 1

WalkInv ==
  /\ pass = 0 => nth = 1 /\ version = 0
  /\ CursorInside
  /\ \A k \in DOMAIN order : \A i \in DOMAIN byName[order[k]] :
       byName[order[k]][i].done = First(PassesOver(k, i))

LEMMA FirstPasses ==
  ASSUME TypeOK
  PROVE  /\ First(0) = << >>
         /\ \A p \in 1 .. Len(Passes) : First(p) = Append(First(p - 1), Passes[p])
         /\ First(Len(Passes)) = Passes
<1>1. Passes \in Seq(PassNames) /\ Len(Passes) \in Nat
  BY PassesFacts
<1> DEFINE s == Passes
           n == Len(s)
<1> HIDE DEF s, n
<1>2. s \in Seq(PassNames) /\ n = Len(s) /\ n \in Nat
  BY <1>1 DEF s, n
<1>3. SubSeq(s, 1, 0) = << >>
  BY SubSeqEmpty
<1>4. ASSUME NEW p \in 1 .. n
      PROVE  SubSeq(s, 1, p) = Append(SubSeq(s, 1, p - 1), s[p])
  <2>1. SubSeq(s, 1, p) = SubSeq(s, 1, p - 1) \o <<s[p]>>
    BY <1>2, 1 \in 1 .. Len(s), p \in 1 .. Len(s), SubSeqRecursiveSecond
  <2>2. \A i \in 1 .. p - 1 : s[i] \in PassNames
    BY <1>2
  <2>3. SubSeq(s, 1, p - 1) \in Seq(PassNames) /\ s[p] \in PassNames
    BY <1>2, <2>2, p - 1 \in Int, SubSeqProperties
  <2> QED BY <2>1, <2>3, AppendIsConcat
<1>5. SubSeq(s, 1, n) = s
  BY <1>2, SubSeqFull
<1>6. \A p \in 0 .. n : First(p) = SubSeq(s, 1, p)
  BY <1>2 DEF First, s, n
<1>7. First(0) = << >> /\ First(n) = s
  BY <1>2, <1>3, <1>5, <1>6
<1>8. \A p \in 1 .. n : First(p) = Append(First(p - 1), s[p])
  <2> TAKE p \in 1 .. n
  <2>1. p \in 0 .. n /\ p - 1 \in 0 .. n
    BY <1>2
  <2> QED BY <1>4, <1>6, <2>1
<1> QED BY <1>7, <1>8 DEF s, n

LEMMA FirstStays == ASSUME UNCHANGED config PROVE \A n : First(n)' = First(n)
  BY PassesStay DEF First

LEMMA WalkInvSuffices == Inv /\ WalkInv => PassesInOrder
<1> SUFFICES ASSUME Inv, WalkInv, NEW o \in Objects
             PROVE  LET place == CHOOSE k \in DOMAIN order : order[k] = o[1]
                        visited == place < nth \/ (place = nth /\ o[2] <= version)
                        n == IF pass = 0 THEN 0 ELSE IF visited THEN pass ELSE pass - 1
                    IN Object(o).done = SubSeq(Passes, 1, IF n > Len(Passes) THEN Len(Passes) ELSE n)
  BY DEF PassesInOrder
<1> DEFINE place == CHOOSE k \in DOMAIN order : order[k] = o[1]
<1>1. o[1] \in Names /\ o[2] \in DOMAIN byName[o[1]]
  BY DEF Objects
<1>2. byName[o[1]] # << >>
  BY <1>1, Entries, TypeParts DEF Inv
<1>3. \E k \in DOMAIN order : order[k] = o[1]
  BY <1>1, <1>2 DEF Inv, OrderCoversNames, Range
<1>4. place \in DOMAIN order /\ order[place] = o[1]
  BY <1>3
<1> HIDE DEF place
<1>5. Object(o).done = First(PassesOver(place, o[2]))
  BY <1>1, <1>4 DEF WalkInv, Object
<1> QED BY <1>5 DEF First, PassesOver, Visited, place

LEMMA InitWalk == Init => WalkInv
  BY DEF Init, WalkInv, CursorInside

(* The pass before p has been over all objects when p starts. *)
LEMMA StartPassKeepsWalk ==
  ASSUME Inv, NEW p \in Nat \ {0}, StartPass(p), UNCHANGED <<config, byName, order>>,
         \A k \in DOMAIN order : \A i \in DOMAIN byName[order[k]] :
           byName[order[k]][i].done = First(p - 1)
  PROVE  WalkInv'
<1>1. StoreType
  BY TypeParts DEF Inv
<1>2. nth' = 1 /\ version' = 0 /\ pass' = p
  BY DEF StartPass
<1>3. 1 <= Len(order) => 0 < Len(byName[order[1]])
  <2> SUFFICES ASSUME 1 <= Len(order) PROVE 0 < Len(byName[order[1]])
    OBVIOUS
  <2>1. 1 \in DOMAIN order /\ order[1] \in Names
    BY <1>1, Lists DEF StoreType
  <2>2. byName[order[1]] # << >>
    BY <2>1 DEF Inv, OrderCoversNames, Range
  <2> QED BY <1>1, <2>1, <2>2, Entries
<1>4. \A k \in DOMAIN order : \A i \in DOMAIN byName[order[k]] : PassesOver(k, i)' = p - 1
  <2> SUFFICES ASSUME NEW k \in DOMAIN order, NEW i \in DOMAIN byName[order[k]]
               PROVE  PassesOver(k, i)' = p - 1
    OBVIOUS
  <2>1. k \in Nat /\ k >= 1 /\ order[k] \in Names
    BY <1>1, Lists DEF StoreType
  <2>2. i \in Nat /\ i >= 1
    BY <1>1, <2>1, Entries
  <2> QED BY <1>2, <2>1, <2>2 DEF PassesOver, Visited
<1> QED BY <1>2, <1>3, <1>4, FirstStays DEF WalkInv, CursorInside

(* While the DGOs are read, no pass has been over anything. *)
LEMMA ReadingKeepsWalk ==
  ASSUME Inv, Inv', WalkInv, pass = 0, UNCHANGED <<config, pass, nth, version>>,
         \A n \in Names : \A i \in DOMAIN byName'[n] : byName'[n][i].done = << >>
  PROVE  WalkInv'
<1>1. StoreType' /\ pass' = 0 /\ nth' = 1 /\ version' = 0
  BY TypeParts DEF Inv, TypeOK, StoreType, ObjectFileData, ObjectFileRecord, FileOnDisk, WalkInv
<1>2. /\ byName' \in [Names -> Seq(ObjectFileData')] /\ order' \in Seq(Names)
  BY <1>1 DEF StoreType
<1>3. DOMAIN order' = 1 .. Len(order') /\ \A k \in DOMAIN order' : order'[k] \in Names
  BY <1>2, Lists
<1>4. CursorInside'
  <2> SUFFICES ASSUME 1 <= Len(order') PROVE 0 < Len(byName'[order'[1]])
    BY <1>1 DEF CursorInside
  <2>1. 1 \in DOMAIN order' /\ order'[1] \in Names
    BY <1>2, <1>3, Lists
  <2>2. byName'[order'[1]] # << >> /\ byName'[order'[1]] \in Seq(ObjectFileData')
    BY <1>2, <2>1 DEF Inv, OrderCoversNames, Range
  <2> QED BY <2>2, Lists
<1>5. First(0)' = << >>
  BY FirstPasses, FirstStays DEF Inv
<1> QED BY <1>1, <1>3, <1>4, <1>5 DEF WalkInv, PassesOver

LEMMA NotYetPassed ==
  ASSUME Inv, WalkInv, pass = 0, NEW n \in Names, NEW i \in DOMAIN byName[n]
  PROVE  byName[n][i].done = << >>
<1>1. byName[n] # << >>
  BY Entries, TypeParts DEF Inv
<1>2. PICK k \in DOMAIN order : order[k] = n
  BY <1>1 DEF Inv, OrderCoversNames, Range
<1> QED BY <1>2, FirstPasses DEF WalkInv, PassesOver, Inv

LEMMA AddKnownKeepsUnpassed ==
  ASSUME Inv, WalkInv, NEW n \in Names, NEW c \in Contents, NEW i \in DOMAIN byName[n],
         AddKnown(n, c, i)
  PROVE  \A m \in Names : \A j \in DOMAIN byName'[m] : byName'[m][j].done = << >>
<1>1. StoreType /\ pass = 0
  BY TypeParts DEF Inv, AddKnown, Meet, Reading
<1>2. /\ AddKnownEntry(n, i) \in ObjectFileData /\ Replaces(n, i, AddKnownEntry(n, i))
      /\ AddKnownEntry(n, i).done = byName[n][i].done
  BY AddKnownEffect
<1>3. \A m \in Names : \A j \in DOMAIN byName'[m] :
        j \in DOMAIN byName[m] /\ byName'[m][j].done = byName[m][j].done
  BY <1>1, <1>2, ReplaceEffect
<1> QED BY <1>1, <1>3, NotYetPassed

LEMMA AddNewKeepsUnpassed ==
  ASSUME Inv, WalkInv, NEW n \in Names, NEW c \in Contents, AddNew(n, c)
  PROVE  \A m \in Names : \A j \in DOMAIN byName'[m] : byName'[m][j].done = << >>
<1> DEFINE g == NewEntry(n, c)
<1>1. StoreType /\ pass = 0
  BY TypeParts DEF Inv, AddNew, Meet, Reading
<1>2. g \in ObjectFileData /\ Adds(n, g) /\ g.done = << >>
  BY AddNewEffect
<1> HIDE DEF g
<1> SUFFICES ASSUME NEW m \in Names, NEW j \in DOMAIN byName'[m]
             PROVE  byName'[m][j].done = << >>
  OBVIOUS
<1>3. CASE m # n
  BY <1>1, <1>2, <1>3, AddsEffect, NotYetPassed
<1>4. CASE m = n
  <2>1. Len(byName[n]) \in Nat /\ DOMAIN byName[n] = 1 .. Len(byName[n])
    BY <1>1, Entries
  <2>2. j \in DOMAIN byName[n] \/ j = Len(byName[n]) + 1
    BY <1>1, <1>2, <1>4, <2>1, AddsEffect
  <2>3. CASE j \in DOMAIN byName[n]
    BY <1>1, <1>2, <1>4, <2>3, AddsEffect, NotYetPassed
  <2>4. CASE j = Len(byName[n]) + 1
    BY <1>1, <1>2, <1>4, <2>4, AddsEffect
  <2> QED BY <2>2, <2>3, <2>4
<1> QED BY <1>3, <1>4

LEMMA AddKnownKeepsWalk ==
  ASSUME Inv, WalkInv, NEW n \in Names, NEW c \in Contents, NEW i \in DOMAIN byName[n],
         AddKnown(n, c, i)
  PROVE  WalkInv'
<1>1. pass = 0 /\ UNCHANGED <<config, pass, nth, version>>
  BY DEF AddKnown, Meet, Reading, walk
<1> QED BY <1>1, AddKnownKeepsInv, AddKnownKeepsUnpassed, ReadingKeepsWalk

LEMMA AddNewKeepsWalk ==
  ASSUME Inv, WalkInv, NEW n \in Names, NEW c \in Contents, AddNew(n, c)
  PROVE  WalkInv'
<1>1. pass = 0 /\ UNCHANGED <<config, pass, nth, version>>
  BY DEF AddNew, Meet, Reading, walk
<1> QED BY <1>1, AddNewKeepsInv, AddNewKeepsUnpassed, ReadingKeepsWalk

(* The cursor goes over all versions of a name, then to the next name. *)
LEMMA CursorMoves ==
  ASSUME Inv, NEW n \in Names, NEW i \in DOMAIN byName[n], Visits(n, i)
  PROVE  CursorInside'
<1>1. StoreType /\ WalkType /\ UNCHANGED order
  BY TypeParts DEF Inv, Visits
<1>2. VisitedEntry(n, i) \in ObjectFileData /\ Replaces(n, i, VisitedEntry(n, i))
  BY VisitedEffect DEF Visits
<1>3. \A m \in Names : Len(byName'[m]) = Len(byName[m])
  BY <1>1, <1>2, ReplaceEffect
<1>4. /\ Len(order) \in Nat /\ nth \in 1 .. Len(order) /\ n = order[nth]
      /\ Len(byName[n]) \in Nat /\ DOMAIN byName[n] = 1 .. Len(byName[n])
  BY <1>1, Lists, Entries DEF StoreType, Visits
<1>5. CASE i < Len(byName[n])
  <2>1. version' = i /\ nth' = nth
    BY <1>5 DEF Visits
  <2> QED BY <1>1, <1>3, <1>4, <1>5, <2>1 DEF CursorInside
<1>6. CASE ~(i < Len(byName[n]))
  <2>1. version' = 0 /\ nth' = nth + 1
    BY <1>6 DEF Visits
  <2> SUFFICES ASSUME nth + 1 <= Len(order) PROVE 0 < Len(byName'[order[nth + 1]])
    BY <1>1, <2>1 DEF CursorInside
  <2>2. nth + 1 \in DOMAIN order /\ order[nth + 1] \in Names
    BY <1>1, <1>4, Lists DEF StoreType
  <2>3. byName[order[nth + 1]] # << >>
    BY <2>2 DEF Inv, OrderCoversNames, Range
  <2>4. Len(byName[order[nth + 1]]) \in Nat \ {0}
    BY <1>1, <2>2, <2>3, Entries
  <2> QED BY <1>3, <2>2, <2>4
<1> QED BY <1>5, <1>6

LEMMA VisitKeepsWalk ==
  ASSUME Inv, WalkInv, NEW n \in Names, NEW i \in DOMAIN byName[n], Visits(n, i)
  PROVE  WalkInv'
<1> PICK at : at = nth
  OBVIOUS
<1>1. StoreType /\ WalkType
  BY TypeParts DEF Inv
<1>2. /\ VisitedEntry(n, i) \in ObjectFileData /\ Replaces(n, i, VisitedEntry(n, i))
      /\ VisitedEntry(n, i).done = Append(byName[n][i].done, Passes[pass])
  BY VisitedEffect DEF Visits
<1>3. /\ byName'[n][i].done = Append(byName[n][i].done, Passes[pass])
      /\ \A m \in Names :
           /\ DOMAIN byName'[m] = DOMAIN byName[m]
           /\ \A j \in DOMAIN byName[m] : m # n \/ j # i => byName'[m][j] = byName[m][j]
  BY <1>1, <1>2, ReplaceEffect
<1>4. /\ UNCHANGED <<config, order, pass>>
      /\ at \in DOMAIN order /\ n = order[at] /\ i = version + 1
      /\ pass \in 1 .. Len(Passes) /\ Len(Passes) \in Nat
      /\ IF i < Len(byName[n]) THEN version' = i /\ nth' = at ELSE version' = 0 /\ nth' = at + 1
  BY PassesFacts DEF Inv, Visits, Running
<1>5. /\ DOMAIN order = 1 .. Len(order) /\ Len(order) \in Nat /\ version \in Nat
      /\ at \in Nat /\ i \in Nat
      /\ Len(byName[n]) \in Nat /\ DOMAIN byName[n] = 1 .. Len(byName[n])
      /\ \A k \in DOMAIN order : order[k] \in Names
  BY <1>1, <1>4, Lists, Entries DEF StoreType, WalkType
<1>6. \A k \in DOMAIN order : \A j \in DOMAIN byName[order[k]] :
        byName'[order[k]][j].done = First(PassesOver(k, j)')
  <2> SUFFICES ASSUME NEW k \in DOMAIN order, NEW j \in DOMAIN byName[order[k]]
               PROVE  byName'[order[k]][j].done = First(PassesOver(k, j)')
    OBVIOUS
  <2>1. /\ k \in Nat /\ order[k] \in Names /\ j \in Nat /\ j >= 1
        /\ byName[order[k]][j].done = First(PassesOver(k, j))
    BY <1>1, <1>5, Entries DEF WalkInv
  <2>2. order[k] = n => k = at
    BY <1>4 DEF Inv, OrderCoversNames
  <2>3. CASE k = at /\ j = i
    <3>1. PassesOver(k, j) = pass - 1
      BY <1>4, <1>5, <2>3 DEF PassesOver, Visited, Visits
    <3>2. PassesOver(k, j)' = pass
      BY <1>4, <1>5, <2>3 DEF PassesOver, Visited
    <3>3. First(pass) = Append(First(pass - 1), Passes[pass])
      BY <1>4, FirstPasses DEF Inv
    <3> QED BY <1>3, <1>4, <2>1, <2>3, <3>1, <3>2, <3>3
  <2>4. CASE ~(k = at /\ j = i)
    <3>1. byName'[order[k]][j] = byName[order[k]][j]
      BY <1>3, <1>4, <2>1, <2>2, <2>4
    <3>2. k = at => j \in 1 .. Len(byName[n])
      BY <1>4, <1>5
    <3>3. nth = at
      BY DEF Visits
    <3>4. Visited(k, j)' <=> Visited(k, j)
      <4>1. Visited(k, j) <=> k < at \/ (k = at /\ j < i)
        BY <1>4, <1>5, <2>1 DEF Visited, Visits
      <4>2. CASE i < Len(byName[n])
        BY <1>4, <1>5, <2>1, <2>4, <4>1, <4>2 DEF Visited
      <4>3. CASE ~(i < Len(byName[n]))
        BY <1>4, <1>5, <2>1, <2>4, <3>2, <4>1, <4>3 DEF Visited
      <4> QED BY <4>2, <4>3
    <3>5. PassesOver(k, j)' = PassesOver(k, j)
      BY <1>4, <3>4 DEF PassesOver
    <3> QED BY <2>1, <3>1, <3>5
  <2> QED BY <2>3, <2>4
<1>7. \A k \in DOMAIN order' : \A j \in DOMAIN byName'[order'[k]] :
        byName'[order'[k]][j].done = First(PassesOver(k, j))'
  BY <1>3, <1>4, <1>5, <1>6, FirstStays
<1>8. CursorInside'
  BY CursorMoves
<1> QED BY <1>4, <1>7, <1>8 DEF WalkInv

(* A step that visits nothing leaves the walk as it was. *)
LEMMA WalkUnchanged ==
  ASSUME WalkInv, UNCHANGED <<config, byName, order, pass, nth, version>>
  PROVE  WalkInv'
<1>1. \A k, i : PassesOver(k, i)' = PassesOver(k, i)
  BY DEF PassesOver, Visited
<1> QED BY <1>1, FirstStays DEF WalkInv, CursorInside

LEMMA WriteListingKeepsWalk == ASSUME Inv, WalkInv, WriteListing PROVE WalkInv'
<1>1. pass = 0 /\ StartPass(1) /\ UNCHANGED <<config, byName, order>>
  BY DEF WriteListing, store
<1>2. \A k \in DOMAIN order : \A i \in DOMAIN byName[order[k]] :
        byName[order[k]][i].done = First(1 - 1)
  BY <1>1 DEF WalkInv, PassesOver
<1> QED BY <1>1, <1>2, StartPassKeepsWalk

LEMMA PassDoneKeepsWalk == ASSUME Inv, WalkInv, PassDone PROVE WalkInv'
<1>1. /\ StartPass(pass + 1) /\ UNCHANGED <<config, byName, order>>
      /\ pass \in 1 .. Len(Passes) /\ Len(Passes) \in Nat /\ nth > Len(order)
  BY PassesFacts DEF PassDone, store, Running, Inv
<1>2. Len(order) \in Nat /\ DOMAIN order = 1 .. Len(order) /\ nth \in Nat
  BY TypeParts, Lists DEF Inv, StoreType, WalkType
<1>3. \A k \in DOMAIN order : \A i \in DOMAIN byName[order[k]] :
        byName[order[k]][i].done = First((pass + 1) - 1)
  BY <1>1, <1>2 DEF WalkInv, PassesOver, Visited
<1> QED BY <1>1, <1>3, StartPassKeepsWalk

-----------------------------------------------------------------------------
(* The output files                                                         *)

OutputFile(kind, n, v) == [kind |-> kind, name |-> n, version |-> v]

WantsWords(c) == Segments[c] = 3 \/ ~config["write_hexdump_on_v3_only"]

WantsListing(c) == HasFunctions[c] \/ config["disassemble_objects_without_functions"]

(* An object has its output file from its own visit by the pass on. *)
WrittenInv ==
  /\ pass = 0 => files = {}
  /\ \A n \in Names : \A i \in DOMAIN byName[n] :
       /\ OutputFile("txt", n, i - 1) \in files <=>
            "write_object_file_words" \in Range(byName[n][i].done) /\ WantsWords(byName[n][i].data)
       /\ OutputFile("func", n, i - 1) \in files <=>
            "write_disassembly" \in Range(byName[n][i].done) /\ WantsListing(byName[n][i].data)

LEMMA InitWritten == Init => WrittenInv
  BY DEF Init, WrittenInv

LEMMA WrittenUnchanged ==
  ASSUME WrittenInv, UNCHANGED <<config, byName, pass, files>>
  PROVE  WrittenInv'
  BY DEF WrittenInv, WantsWords, WantsListing

LEMMA AppendRange ==
  ASSUME NEW S, NEW s \in Seq(S), NEW e \in S
  PROVE  Range(Append(s, e)) = Range(s) \cup {e}
<1>1. /\ DOMAIN Append(s, e) = DOMAIN s \cup {Len(s) + 1}
      /\ \A i \in DOMAIN s : Append(s, e)[i] = s[i]
      /\ Append(s, e)[Len(s) + 1] = e
      /\ \A i \in DOMAIN s : i # Len(s) + 1
  <2>1. /\ Len(s) \in Nat /\ DOMAIN s = 1 .. Len(s)
        /\ DOMAIN Append(s, e) = 1 .. Len(s) + 1
        /\ \A i \in DOMAIN s : Append(s, e)[i] = s[i]
        /\ Append(s, e)[Len(s) + 1] = e
    BY Lists, Appending
  <2> QED BY <2>1
<1> QED BY <1>1 DEF Range

LEMMA OutputFilesDiffer ==
  ASSUME NEW k, NEW l, NEW n, NEW m, NEW v, NEW w
  PROVE  OutputFile(k, n, v) = OutputFile(l, m, w) <=> k = l /\ n = m /\ v = w
<1> SUFFICES ASSUME OutputFile(k, n, v) = OutputFile(l, m, w) PROVE k = l /\ n = m /\ v = w
  OBVIOUS
<1>1. /\ OutputFile(k, n, v).kind = k /\ OutputFile(k, n, v).name = n
      /\ OutputFile(k, n, v).version = v
      /\ OutputFile(l, m, w).kind = l /\ OutputFile(l, m, w).name = m
      /\ OutputFile(l, m, w).version = w
  BY DEF OutputFile
<1> QED BY <1>1

(* The files a visit writes are those of its pass and its object. *)
LEMMA FilesOfVisit ==
  ASSUME Inv, NEW n \in Names, NEW i \in DOMAIN byName[n], Visits(n, i),
         NEW m, NEW j
  PROVE  /\ OutputFile("txt", m, j - 1) \in files' <=>
              \/ OutputFile("txt", m, j - 1) \in files
              \/ /\ m = n /\ j - 1 = i - 1
                 /\ Passes[pass] = "write_object_file_words" /\ WantsWords(byName[n][i].data)
         /\ OutputFile("func", m, j - 1) \in files' <=>
              \/ OutputFile("func", m, j - 1) \in files
              \/ /\ m = n /\ j - 1 = i - 1
                 /\ Passes[pass] = "write_disassembly" /\ WantsListing(byName[n][i].data)
<1> DEFINE p == Passes[pass]
           c == byName[n][i].data
           e == byName[n][i]
<1>1. files' = files \cup FilesFor(p, n, e) /\ e.version = i - 1
  BY DEF Visits, Inv, Versions
<1>2. FilesFor(p, n, e) =
        IF p = "write_object_file_words" /\ WantsWords(c) THEN {OutputFile("txt", n, i - 1)}
        ELSE IF p = "write_disassembly" /\ WantsListing(c) THEN {OutputFile("func", n, i - 1)}
        ELSE {}
  <2>1. /\ File("txt", n, e) = OutputFile("txt", n, i - 1)
        /\ File("func", n, e) = OutputFile("func", n, i - 1)
    BY <1>1 DEF File, OutputFile
  <2> HIDE DEF p, c, e
  <2>2. c = e.data
    BY DEF c, e
  <2>3. CASE p = "write_object_file_words" /\ WantsWords(c)
    BY <2>1, <2>2, <2>3 DEF FilesFor, WantsWords, WantsListing
  <2>4. CASE p = "write_disassembly" /\ WantsListing(c)
    BY <2>1, <2>2, <2>4 DEF FilesFor, WantsWords, WantsListing
  <2>5. CASE /\ ~(p = "write_object_file_words" /\ WantsWords(c))
             /\ ~(p = "write_disassembly" /\ WantsListing(c))
    BY <2>1, <2>2, <2>5 DEF FilesFor, WantsWords, WantsListing
  <2> QED BY <2>3, <2>4, <2>5
<1> HIDE DEF p, c, e
<1>3. /\ OutputFile("txt", m, j - 1) \in FilesFor(p, n, e) <=>
            m = n /\ j - 1 = i - 1 /\ p = "write_object_file_words" /\ WantsWords(c)
      /\ OutputFile("func", m, j - 1) \in FilesFor(p, n, e) <=>
            m = n /\ j - 1 = i - 1 /\ p = "write_disassembly" /\ WantsListing(c)
  BY <1>2, OutputFilesDiffer
<1> QED BY <1>1, <1>3 DEF p, c

LEMMA VisitKeepsWritten ==
  ASSUME Inv, WrittenInv, NEW n \in Names, NEW i \in DOMAIN byName[n], Visits(n, i)
  PROVE  WrittenInv'
<1>1. StoreType /\ \A m \in Names : \A j \in DOMAIN byName[m] : j \in Int
  BY TypeParts, Entries DEF Inv
<1>2. /\ VisitedEntry(n, i) \in ObjectFileData /\ Replaces(n, i, VisitedEntry(n, i))
      /\ VisitedEntry(n, i).data = byName[n][i].data
      /\ VisitedEntry(n, i).done = Append(byName[n][i].done, Passes[pass])
  BY VisitedEffect DEF Visits
<1>3. /\ byName'[n][i].done = Append(byName[n][i].done, Passes[pass])
      /\ byName'[n][i].data = byName[n][i].data
      /\ \A m \in Names :
           /\ DOMAIN byName'[m] = DOMAIN byName[m]
           /\ \A j \in DOMAIN byName[m] : m # n \/ j # i => byName'[m][j] = byName[m][j]
  BY <1>1, <1>2, ReplaceEffect
<1>4. Range(byName'[n][i].done) = Range(byName[n][i].done) \cup {Passes[pass]}
  <2>1. byName[n][i].done \in Seq(Range(Passes)) /\ Passes[pass] \in Range(Passes)
    BY <1>1, Entries, PassesFacts DEF ObjectFileData, Inv, Visits, Running
  <2> QED BY <1>3, <2>1, AppendRange
<1>5. pass' # 0 /\ UNCHANGED config
  BY PassesFacts DEF Inv, Visits, Running
<1>6. ASSUME NEW m \in Names, NEW j \in DOMAIN byName[m]
      PROVE  /\ OutputFile("txt", m, j - 1) \in files' <=>
                  /\ "write_object_file_words" \in Range(byName'[m][j].done)
                  /\ WantsWords(byName'[m][j].data)
             /\ OutputFile("func", m, j - 1) \in files' <=>
                  /\ "write_disassembly" \in Range(byName'[m][j].done)
                  /\ WantsListing(byName'[m][j].data)
  <2>1. j - 1 = i - 1 <=> j = i
    BY <1>1
  <2>2. CASE m = n /\ j = i
    BY <1>3, <1>4, <2>1, <2>2, FilesOfVisit DEF WrittenInv
  <2>3. CASE ~(m = n /\ j = i)
    BY <1>3, <2>1, <2>3, FilesOfVisit DEF WrittenInv
  <2> QED BY <2>2, <2>3
<1> QED BY <1>3, <1>5, <1>6 DEF WrittenInv, WantsWords, WantsListing

(* While the DGOs are read, nothing is written and no pass is done. *)
LEMMA ReadingKeepsWritten ==
  ASSUME WrittenInv, pass = 0, UNCHANGED <<pass, files>>,
         \A n \in Names : \A i \in DOMAIN byName'[n] : byName'[n][i].done = << >>
  PROVE  WrittenInv'
<1>1. Range(<< >>) = {}
  BY DEF Range
<1>2. files' = {} /\ pass' = 0
  BY DEF WrittenInv
<1> QED BY <1>1, <1>2 DEF WrittenInv

(* The listing and the file of all scripts are files of no object. *)
LEMMA OtherFileKeepsWritten ==
  ASSUME WrittenInv, UNCHANGED <<config, byName>>, pass' # 0, NEW kind,
         kind \notin {"txt", "func"},
         files' = files \cup {[kind |-> kind]} \/ files' = files
  PROVE  WrittenInv'
<1>1. \A k \in {"txt", "func"} : \A n, v :
        OutputFile(k, n, v) \in files' <=> OutputFile(k, n, v) \in files
  <2> SUFFICES ASSUME NEW k \in {"txt", "func"}, NEW n, NEW v
               PROVE  OutputFile(k, n, v) # [kind |-> kind]
    OBVIOUS
  <2>1. OutputFile(k, n, v).kind = k /\ [kind |-> kind].kind = kind
    BY DEF OutputFile
  <2> HIDE DEF OutputFile
  <2> QED BY <2>1
<1> QED BY <1>1 DEF WrittenInv, WantsWords, WantsListing

LEMMA WrittenInvSuffices == Inv /\ WalkInv /\ WrittenInv => OutputComplete
<1> SUFFICES ASSUME Inv, WalkInv, WrittenInv, pass > Len(Passes),
                    NEW d \in Dgos, NEW k \in DOMAIN byDgo[d]
             PROVE  LET r == byDgo[d][k]
                        c == byName[r.name][r.version + 1].data
                        of(kind) == [kind |-> kind, name |-> r.name, version |-> r.version]
                    IN /\ of("txt") \in files <=>
                            /\ config["write_hexdump"]
                            /\ config["write_hexdump_on_v3_only"] => Segments[c] = 3
                       /\ of("func") \in files <=>
                            /\ config["write_disassembly"]
                            /\ config["disassemble_objects_without_functions"] \/ HasFunctions[c]
  BY DEF OutputComplete
<1> PICK r : r = byDgo[d][k]
  OBVIOUS
<1> PICK i : i = r.version + 1
  OBVIOUS
<1>1. StoreType /\ WalkType /\ config \in Configs
  BY TypeParts DEF Inv
<1>2. r \in ObjectFileRecord
  <2>1. byDgo[d] \in Seq(ObjectFileRecord)
    BY <1>1 DEF StoreType
  <2> QED BY <2>1, Lists
<1>3. r.name \in Names /\ r.version \in Nat /\ i \in DOMAIN byName[r.name] /\ r.version = i - 1
  <2>1. RecordResolves(byDgo[d][k], onDisk[d][k])
    BY DEF Inv, Listed
  <2> QED BY <1>2, <2>1 DEF ObjectFileRecord, RecordResolves
<1>4. byName[r.name][i].done = Passes
  <2>1. byName[r.name] # << >>
    BY <1>1, <1>3, Entries
  <2>2. PICK place \in DOMAIN order : order[place] = r.name
    BY <1>3, <2>1 DEF Inv, OrderCoversNames, Range
  <2>3. byName[r.name][i].done = First(PassesOver(place, i))
    BY <1>3, <2>2 DEF WalkInv
  <2>4. Len(Passes) \in Nat /\ pass = Len(Passes) + 1
    BY <1>1, PassesFacts DEF Inv, WalkType
  <2>5. PassesOver(place, i) \in {Len(Passes), Len(Passes) + 1}
    BY <2>4 DEF PassesOver
  <2>6. First(Len(Passes) + 1) = First(Len(Passes))
    BY <2>4 DEF First
  <2> QED BY <2>3, <2>5, <2>6, FirstPasses DEF Inv
<1>5. /\ OutputFile("txt", r.name, i - 1) \in files <=>
           config["write_hexdump"] /\ WantsWords(byName[r.name][i].data)
      /\ OutputFile("func", r.name, i - 1) \in files <=>
           config["write_disassembly"] /\ WantsListing(byName[r.name][i].data)
  BY <1>1, <1>3, <1>4, PassesType DEF WrittenInv
<1> QED BY <1>3, <1>5 DEF OutputFile, WantsWords, WantsListing

DatabaseInv == Inv /\ WalkInv /\ WrittenInv

(***************************************************************************)
(* Every step keeps what is known of the tables, the walk and the files.   *)
(* They go together: that the cursor is inside a name is what makes a      *)
(* visit one of an object that exists, and it stays inside because the     *)
(* order holds names with objects only.                                    *)
(***************************************************************************)
LEMMA NextKeepsInv == DatabaseInv /\ [Next]_vars => DatabaseInv'
<1> SUFFICES ASSUME Inv, WalkInv, WrittenInv, [Next]_vars PROVE Inv' /\ WalkInv' /\ WrittenInv'
  BY DEF DatabaseInv
<1>1. ASSUME NEW n \in Names, NEW c \in Contents, NEW i \in DOMAIN byName[n], AddKnown(n, c, i)
      PROVE  Inv' /\ WalkInv' /\ WrittenInv'
  <2>1. pass = 0 /\ UNCHANGED <<pass, files>>
    BY <1>1 DEF AddKnown, Meet, Reading, walk
  <2>2. WrittenInv'
    BY <1>1, <2>1, AddKnownKeepsUnpassed, ReadingKeepsWritten
  <2> QED BY <1>1, <2>2, AddKnownKeepsInv, AddKnownKeepsWalk
<1>2. ASSUME NEW n \in Names, NEW c \in Contents, AddNew(n, c)
      PROVE  Inv' /\ WalkInv' /\ WrittenInv'
  <2>1. pass = 0 /\ UNCHANGED <<pass, files>>
    BY <1>2 DEF AddNew, Meet, Reading, walk
  <2>2. WrittenInv'
    BY <1>2, <2>1, AddNewKeepsUnpassed, ReadingKeepsWritten
  <2> QED BY <1>2, <2>2, AddNewKeepsInv, AddNewKeepsWalk
<1>3. CASE NextDgo
  BY <1>3, NextDgoKeepsInv, WalkUnchanged, WrittenUnchanged DEF NextDgo, store, walk
<1>4. CASE WriteListing
  <2>1. WrittenInv'
    BY <1>4, OtherFileKeepsWritten DEF WriteListing, StartPass, store
  <2> QED BY <1>4, <2>1, WriteListingKeepsInv, WriteListingKeepsWalk
<1>5. CASE Visit
  <2>1. PICK n \in Names : \E i \in DOMAIN byName[n] : Visits(n, i)
    BY <1>5, VisitCases DEF WalkInv
  <2> QED BY <2>1, VisitKeepsInv, VisitKeepsWalk, VisitKeepsWritten
<1>6. CASE PassDone
  <2>1. pass' # 0
    BY <1>6, PassesFacts DEF Inv, PassDone, Running, StartPass
  <2>2. /\ UNCHANGED <<config, byName>> /\ "all_scripts" \notin {"txt", "func"}
        /\ files' = files \cup {[kind |-> "all_scripts"]} \/ files' = files
    BY <1>6 DEF PassDone, store
  <2>3. WrittenInv'
    BY <2>1, <2>2, OtherFileKeepsWritten
  <2> QED BY <1>6, <2>3, PassDoneKeepsInv, PassDoneKeepsWalk
<1>7. CASE Fail
  BY <1>7, FailKeepsInv, WalkUnchanged, WrittenUnchanged DEF Fail, store, walk
<1>8. CASE UNCHANGED vars
  <2>1. /\ UNCHANGED <<config, store, onDisk, dgo, walk, failed, byName, order, pass, nth, version>>
        /\ UNCHANGED files
    BY <1>8 DEF vars, store, walk
  <2>2. WalkType' /\ dgo' \in 1 .. Len(DgoList) + 1 /\ failed' \in BOOLEAN
    BY <2>1, PassesStay, TypeParts DEF Inv, WalkType
  <2> QED BY <2>1, <2>2, StoreUnchanged, WalkUnchanged, WrittenUnchanged
<1> QED BY <1>1, <1>2, <1>3, <1>4, <1>5, <1>6, <1>7, <1>8 DEF Next

(* What the reader of archives does is a step of the database, or none. *)
LEMMA ReaderStep == [ReaderNext]_allVars => [Next]_vars
<1> SUFFICES ASSUME ReaderNext \/ UNCHANGED allVars PROVE Next \/ UNCHANGED vars
  OBVIOUS
<1>1. CASE OpenArchive
  BY <1>1 DEF OpenArchive
<1>2. CASE SkipZero
  BY <1>2 DEF SkipZero
<1>3. CASE CopyChunk
  BY <1>3 DEF CopyChunk
<1>4. CASE ReadHeader
  BY <1>4 DEF ReadHeader
<1>5. ASSUME NEW n \in Names, NEW c \in Contents, ReadObject(n, c) PROVE Next
  BY <1>5 DEF ReadObject, Next
<1>6. CASE CloseArchive
  BY <1>6 DEF CloseArchive, Next
<1>7. CASE Unreadable
  BY <1>7 DEF Unreadable, Next
<1>8. CASE WriteListing \/ Visit \/ PassDone \/ Fail
  BY <1>8 DEF Next
<1>9. CASE UNCHANGED allVars
  BY <1>9 DEF allVars
<1>10. CASE Finished /\ UNCHANGED allVars
  BY <1>10 DEF allVars
<1> QED BY <1>1, <1>2, <1>3, <1>4, <1>5, <1>6, <1>7, <1>8, <1>9, <1>10 DEF ReaderNext

(* The database by itself or filled from archives, however it is scheduled. *)
Database == Init /\ [][Next]_vars

LEMMA SpecsAreDatabases == Spec \/ ReaderSpec => Database
<1>1. ReaderInit => Init
  BY DEF ReaderInit
<1> QED BY <1>1, ReaderStep, PTL DEF Spec, ReaderSpec, Database

LEMMA DatabaseKeepsInv == Database => []DatabaseInv
<1>1. Init => DatabaseInv
  BY InitInv, InitWalk, InitWritten DEF DatabaseInv
<1> QED BY <1>1, NextKeepsInv, PTL DEF Database

(***************************************************************************)
(* The order, the lists of the DGOs, the versions and the counters of uses *)
(* always describe the same objects: for_each_obj meets every object once, *)
(* no two share the name their output files get, and every list entry      *)
(* leads back to an object of its size and CRC.                            *)
(***************************************************************************)
THEOREM TablesCorrect == Spec \/ ReaderSpec => []TablesConsistent
<1>1. DatabaseInv => TablesConsistent
  BY InvSuffices DEF DatabaseInv
<1> QED BY <1>1, SpecsAreDatabases, DatabaseKeepsInv, PTL

(***************************************************************************)
(* for_each_obj over the versions of each name in the order of the names   *)
(* lets no object miss a pass, have one twice, or have one before another  *)
(* object had the pass before.                                             *)
(***************************************************************************)
THEOREM PassesCorrect == Spec \/ ReaderSpec => []PassesInOrder
<1>1. DatabaseInv => PassesInOrder
  BY WalkInvSuffices DEF DatabaseInv
<1> QED BY <1>1, SpecsAreDatabases, DatabaseKeepsInv, PTL

(***************************************************************************)
(* When the passes have ended, the listing of an object file or its hex    *)
(* dump is there exactly if the configuration asks for it, for every       *)
(* archive the object is listed in.                                        *)
(***************************************************************************)
THEOREM OutputCorrect == Spec \/ ReaderSpec => []OutputComplete
<1>1. DatabaseInv => OutputComplete
  BY WrittenInvSuffices DEF DatabaseInv
<1> QED BY <1>1, SpecsAreDatabases, DatabaseKeepsInv, PTL

-----------------------------------------------------------------------------
(* The database implements UniqueObjects.                                   *)

(* What UniqueObjects sees of the tables.                                   *)
Given == [d \in Dgos |-> [k \in DOMAIN onDisk[d] |->
            [name |-> onDisk[d][k].name, content |-> Fingerprint(onDisk[d][k].data)]]]
Kept == [n \in Names |-> [i \in DOMAIN byName[n] |-> Fingerprint(byName[n][i].data)]]
Shown == [d \in Dgos |-> [k \in DOMAIN byDgo[d] |->
            [name |-> byDgo[d][k].name, version |-> byDgo[d][k].version]]]

Fingerprints == {Fingerprint(c) : c \in Contents}

(* A list that is mapped grows by what the new element is mapped to. *)
LEMMA MappedAppend ==
  ASSUME NEW S, NEW T, NEW s \in Seq(S), NEW e \in S, NEW F \in [S -> T]
  PROVE  [k \in DOMAIN Append(s, e) |-> F[Append(s, e)[k]]] =
           Append([k \in DOMAIN s |-> F[s[k]]], F[e])
<1> DEFINE u == [k \in DOMAIN s |-> F[s[k]]]
           t == Append(s, e)
<1>1. /\ Len(s) \in Nat /\ DOMAIN s = 1 .. Len(s) /\ \A k \in DOMAIN s : s[k] \in S
      /\ DOMAIN t = 1 .. Len(s) + 1
      /\ \A k \in DOMAIN s : t[k] = s[k]
      /\ t[Len(s) + 1] = e
  BY Lists, Appending
<1> HIDE DEF t
<1>2. u \in Seq(T) /\ Len(u) = Len(s)
  BY <1>1
<1>3. /\ DOMAIN Append(u, F[e]) = 1 .. Len(s) + 1
      /\ \A k \in 1 .. Len(s) : Append(u, F[e])[k] = F[s[k]]
      /\ Append(u, F[e])[Len(s) + 1] = F[e]
      /\ Append(u, F[e]) = [k \in DOMAIN Append(u, F[e]) |-> Append(u, F[e])[k]]
  <2>1. F[e] \in T
    OBVIOUS
  <2>2. \A k \in 1 .. Len(s) : u[k] = F[s[k]]
    BY <1>1
  <2> HIDE DEF u
  <2> QED BY <1>2, <2>1, <2>2, Appending, Lists
<1> HIDE DEF u
<1>4. [k \in DOMAIN t |-> F[t[k]]] = Append(u, F[e])
  BY <1>1, <1>3
<1> QED BY <1>4 DEF t, u

LEMMA GivenGrows ==
  ASSUME StoreType, NEW d \in Dgos, NEW r \in ObjectFileRecord, NEW x \in FileOnDisk,
         Enlists(d, r, x)
  PROVE  Given' = [Given EXCEPT ![d] =
                     Append(@, [name |-> x.name, content |-> Fingerprint(x.data)])]
<1> DEFINE F == [y \in FileOnDisk |-> [name |-> y.name, content |-> Fingerprint(y.data)]]
<1>1. /\ onDisk' \in [Dgos -> Seq(FileOnDisk)] /\ onDisk'[d] = Append(onDisk[d], x)
      /\ \A e \in Dgos : e # d => onDisk'[e] = onDisk[e]
      /\ onDisk \in [Dgos -> Seq(FileOnDisk)]
  BY ListingEffect DEF StoreType
<1>2. \A s \in Seq(FileOnDisk) :
        [k \in DOMAIN s |-> [name |-> s[k].name, content |-> Fingerprint(s[k].data)]] =
        [k \in DOMAIN s |-> F[s[k]]]
  BY Lists
<1>3. F \in [FileOnDisk -> Range(F)] /\ F[x] = [name |-> x.name, content |-> Fingerprint(x.data)]
  BY DEF Range
<1> HIDE DEF F
<1>4. Given = [e \in Dgos |-> [k \in DOMAIN onDisk[e] |-> F[onDisk[e][k]]]]
  BY <1>1, <1>2 DEF Given
<1>5. Given' = [e \in Dgos |-> [k \in DOMAIN onDisk'[e] |-> F[onDisk'[e][k]]]]
  BY <1>1, <1>2 DEF Given
<1>6. [k \in DOMAIN onDisk'[d] |-> F[onDisk'[d][k]]] =
        Append([k \in DOMAIN onDisk[d] |-> F[onDisk[d][k]]], F[x])
  BY <1>1, <1>3, MappedAppend
<1> QED BY <1>1, <1>3, <1>4, <1>5, <1>6

LEMMA ShownGrows ==
  ASSUME StoreType, NEW d \in Dgos, NEW r \in ObjectFileRecord, NEW x \in FileOnDisk,
         Enlists(d, r, x)
  PROVE  Shown' = [Shown EXCEPT ![d] = Append(@, [name |-> r.name, version |-> r.version])]
<1> DEFINE F == [y \in ObjectFileRecord |-> [name |-> y.name, version |-> y.version]]
<1>1. /\ byDgo' \in [Dgos -> Seq(ObjectFileRecord)] /\ byDgo'[d] = Append(byDgo[d], r)
      /\ \A e \in Dgos : e # d => byDgo'[e] = byDgo[e]
      /\ byDgo \in [Dgos -> Seq(ObjectFileRecord)]
  BY ListingEffect DEF StoreType
<1>2. \A s \in Seq(ObjectFileRecord) :
        [k \in DOMAIN s |-> [name |-> s[k].name, version |-> s[k].version]] =
        [k \in DOMAIN s |-> F[s[k]]]
  BY Lists
<1>3. F \in [ObjectFileRecord -> Range(F)] /\ F[r] = [name |-> r.name, version |-> r.version]
  BY DEF Range
<1> HIDE DEF F
<1>4. Shown = [e \in Dgos |-> [k \in DOMAIN byDgo[e] |-> F[byDgo[e][k]]]]
  BY <1>1, <1>2 DEF Shown
<1>5. Shown' = [e \in Dgos |-> [k \in DOMAIN byDgo'[e] |-> F[byDgo'[e][k]]]]
  BY <1>1, <1>2 DEF Shown
<1>6. [k \in DOMAIN byDgo'[d] |-> F[byDgo'[d][k]]] =
        Append([k \in DOMAIN byDgo[d] |-> F[byDgo[d][k]]], F[r])
  BY <1>1, <1>3, MappedAppend
<1> QED BY <1>1, <1>3, <1>4, <1>5, <1>6

LEMMA KeptGrows ==
  ASSUME StoreType, NEW n \in Names, NEW g \in ObjectFileData, Adds(n, g)
  PROVE  Kept' = [Kept EXCEPT ![n] = Append(@, Fingerprint(g.data))]
<1> DEFINE F == [y \in ObjectFileData |-> Fingerprint(y.data)]
<1>1. /\ byName' \in [Names -> Seq(ObjectFileData)] /\ byName'[n] = Append(byName[n], g)
      /\ \A m \in Names : m # n => byName'[m] = byName[m]
      /\ byName \in [Names -> Seq(ObjectFileData)]
  BY AddsEffect DEF StoreType, Adds
<1>2. \A s \in Seq(ObjectFileData) :
        [k \in DOMAIN s |-> Fingerprint(s[k].data)] = [k \in DOMAIN s |-> F[s[k]]]
  BY Lists
<1>3. F \in [ObjectFileData -> Range(F)] /\ F[g] = Fingerprint(g.data)
  BY DEF Range
<1> HIDE DEF F
<1>4. Kept = [m \in Names |-> [k \in DOMAIN byName[m] |-> F[byName[m][k]]]]
  BY <1>1, <1>2 DEF Kept
<1>5. Kept' = [m \in Names |-> [k \in DOMAIN byName'[m] |-> F[byName'[m][k]]]]
  BY <1>1, <1>2 DEF Kept
<1>6. [k \in DOMAIN byName'[n] |-> F[byName'[n][k]]] =
        Append([k \in DOMAIN byName[n] |-> F[byName[n][k]]], F[g])
  BY <1>1, <1>3, MappedAppend
<1> QED BY <1>1, <1>3, <1>4, <1>5, <1>6

LEMMA KeptStays ==
  ASSUME StoreType, NEW n \in Names, NEW i \in DOMAIN byName[n], NEW g \in ObjectFileData,
         Replaces(n, i, g), g.data = byName[n][i].data
  PROVE  UNCHANGED Kept
<1>1. \A m \in Names : /\ DOMAIN byName'[m] = DOMAIN byName[m]
                       /\ \A j \in DOMAIN byName[m] : byName'[m][j].data = byName[m][j].data
  BY ReplaceEffect
<1> QED BY <1>1 DEF Kept

LEMMA SameFingerprint ==
  ASSUME Inv, NEW n \in Names, NEW i \in DOMAIN byName[n], NEW c \in Contents
  PROVE  SameObject(byName[n][i], c) <=> Kept[n][i] = Fingerprint(c)
<1>1. byName[n][i].hash = Hash[byName[n][i].data]
  BY DEF Inv, Versions
<1>2. Kept[n][i] = Fingerprint(byName[n][i].data)
  BY DEF Kept
<1> QED BY <1>1, <1>2 DEF SameObject, Fingerprint

(* Add in terms of what it sees. *)
LEMMA SeenAdd ==
  ASSUME NEW d, NEW n, NEW c, NEW i \in DOMAIN Kept'[n], Kept'[n][i] = c,
         Given' = [Given EXCEPT ![d] = Append(@, [name |-> n, content |-> c])],
         order' = IF Kept[n] = << >> THEN Append(order, n) ELSE order,
         Kept' = IF c \in Range(Kept[n]) THEN Kept ELSE [Kept EXCEPT ![n] = Append(@, c)],
         Shown' = [Shown EXCEPT ![d] = Append(@, [name |-> n, version |-> i - 1])]
  PROVE  Unique!Add(d, n, c)
<1>1. Unique!Add(d, n, c) <=>
        /\ Given' = [Given EXCEPT ![d] = Append(@, [name |-> n, content |-> c])]
        /\ order' = IF Kept[n] = << >> THEN Append(order, n) ELSE order
        /\ Kept' = IF c \in Range(Kept[n]) THEN Kept ELSE [Kept EXCEPT ![n] = Append(@, c)]
        /\ \E j \in DOMAIN Kept'[n] :
             /\ Kept'[n][j] = c
             /\ Shown' = [Shown EXCEPT ![d] = Append(@, [name |-> n, version |-> j - 1])]
  BY DEF Unique!Add, Unique!Range, Range, Given, Kept, Shown
<1>2. \E j \in DOMAIN Kept'[n] :
         /\ Kept'[n][j] = c
         /\ Shown' = [Shown EXCEPT ![d] = Append(@, [name |-> n, version |-> j - 1])]
  OBVIOUS
<1> QED BY <1>1, <1>2

LEMMA AddKnownAdds ==
  ASSUME Inv, NEW n \in Names, NEW c \in Contents, NEW i \in DOMAIN byName[n], AddKnown(n, c, i)
  PROVE  Unique!Add(DgoList[dgo], n, Fingerprint(c))
<1> DEFINE D == DgoList[dgo]
           g == AddKnownEntry(n, i)
           r == RecordOf(n, byName[n][i])
           x == [name |-> n, data |-> c]
<1>1. /\ StoreType /\ D \in Dgos /\ x.name = n /\ x.data = c /\ UNCHANGED order
      /\ SameObject(byName[n][i], c)
  BY TypeParts, ReadingDgo DEF Inv, AddKnown, Meet
<1>2. /\ g \in ObjectFileData /\ Replaces(n, i, g) /\ g.data = byName[n][i].data
      /\ r \in ObjectFileRecord /\ r.name = n /\ r.version = i - 1
      /\ x \in FileOnDisk /\ Enlists(D, r, x)
  BY AddKnownEffect
<1> HIDE DEF D, g, r, x
<1>3. /\ UNCHANGED Kept
      /\ Given' = [Given EXCEPT ![D] = Append(@, [name |-> n, content |-> Fingerprint(c)])]
      /\ Shown' = [Shown EXCEPT ![D] = Append(@, [name |-> n, version |-> i - 1])]
  BY <1>1, <1>2, KeptStays, GivenGrows, ShownGrows
<1>4. i \in DOMAIN Kept[n] /\ Kept[n][i] = Fingerprint(c)
  BY <1>1, SameFingerprint DEF Kept
<1>5. Fingerprint(c) \in Range(Kept[n]) /\ Kept[n] # << >>
  BY <1>4 DEF Range
<1>6. D = DgoList[dgo]
  BY DEF D
<1> QED BY <1>1, <1>3, <1>4, <1>5, <1>6, SeenAdd

LEMMA AddNewAdds ==
  ASSUME Inv, NEW n \in Names, NEW c \in Contents, AddNew(n, c)
  PROVE  Unique!Add(DgoList[dgo], n, Fingerprint(c))
<1> PICK v : v = Len(byName[n])
  OBVIOUS
<1> DEFINE D == DgoList[dgo]
           g == NewEntry(n, c)
           r == RecordOf(n, NewEntry(n, c))
           x == [name |-> n, data |-> c]
<1>1. /\ StoreType /\ D \in Dgos /\ x.name = n /\ x.data = c
      /\ \A i \in DOMAIN byName[n] : ~SameObject(byName[n][i], c)
      /\ order' = OrderWith(n)
  BY TypeParts, ReadingDgo DEF Inv, AddNew, Meet
<1>2. /\ g \in ObjectFileData /\ g.data = c /\ Adds(n, g)
      /\ r \in ObjectFileRecord /\ r.name = n /\ r.version = v
      /\ Enlists(D, r, x) /\ x \in FileOnDisk
  BY AddNewEffect
<1> HIDE DEF D, g, r, x
<1>3. /\ Kept' = [Kept EXCEPT ![n] = Append(@, Fingerprint(c))]
      /\ Given' = [Given EXCEPT ![D] = Append(@, [name |-> n, content |-> Fingerprint(c)])]
      /\ Shown' = [Shown EXCEPT ![D] = Append(@, [name |-> n, version |-> v])]
  BY <1>1, <1>2, KeptGrows, GivenGrows, ShownGrows
<1>4. /\ v \in Nat /\ DOMAIN byName[n] = 1 .. v /\ DOMAIN Kept[n] = 1 .. v
      /\ Kept[n] \in Seq(Fingerprints) /\ Len(Kept[n]) = v /\ Kept \in [Names -> Seq(Fingerprints)]
      /\ Fingerprint(c) \in Fingerprints
  <2>1. /\ Fingerprint(c) \in Fingerprints
        /\ \A e \in ObjectFileData : Fingerprint(e.data) \in Fingerprints
    BY DEF Fingerprints, ObjectFileData
  <2>2. \A m \in Names : [j \in DOMAIN byName[m] |-> Fingerprint(byName[m][j].data)]
                           \in Seq(Fingerprints)
    BY <1>1, <2>1, Entries
  <2>3. Kept \in [Names -> Seq(Fingerprints)] /\ DOMAIN Kept[n] = DOMAIN byName[n]
    BY <2>2 DEF Kept
  <2>4. v \in Nat /\ DOMAIN byName[n] = 1 .. v
    BY <1>1, Entries
  <2> QED BY <2>1, <2>3, <2>4, Lists
<1>5. Fingerprint(c) \notin Range(Kept[n])
  BY <1>1, <1>4, SameFingerprint DEF Range
<1>6. Kept[n] = << >> <=> byName[n] = << >>
  BY <1>1, <1>4, Entries, Lists
<1>7. v + 1 \in DOMAIN Kept'[n] /\ Kept'[n][v + 1] = Fingerprint(c) /\ (v + 1) - 1 = v
  BY <1>3, <1>4, Appending
<1>8. order' = IF Kept[n] = << >> THEN Append(order, n) ELSE order
  BY <1>1, <1>6 DEF OrderWith
<1>9. D = DgoList[dgo]
  BY DEF D
<1> QED BY <1>3, <1>5, <1>7, <1>8, <1>9, SeenAdd

LEMMA NextAdds == Inv /\ CursorInside /\ [Next]_vars => [Unique!Next]_Unique!vars
<1> SUFFICES ASSUME Inv, CursorInside, [Next]_vars
             PROVE  Unique!Next \/ UNCHANGED Unique!vars
  OBVIOUS
<1>1. ASSUME NEW n \in Names, NEW c \in Contents, DgoList[dgo] \in Dgos,
             Unique!Add(DgoList[dgo], n, Fingerprint(c))
      PROVE  Unique!Next
  BY <1>1 DEF Unique!Next
<1>2. ASSUME NEW n \in Names, NEW c \in Contents, NEW i \in DOMAIN byName[n], AddKnown(n, c, i)
      PROVE  Unique!Next
  BY <1>1, <1>2, AddKnownAdds, ReadingDgo DEF Inv, AddKnown, Meet
<1>3. ASSUME NEW n \in Names, NEW c \in Contents, AddNew(n, c)
      PROVE  Unique!Next
  BY <1>1, <1>3, AddNewAdds, ReadingDgo DEF Inv, AddNew, Meet
<1>4. UNCHANGED <<onDisk, order, byName, byDgo>> => UNCHANGED Unique!vars
  BY DEF Unique!vars
<1>5. CASE NextDgo \/ WriteListing \/ PassDone \/ Fail \/ UNCHANGED vars
  BY <1>4, <1>5 DEF NextDgo, WriteListing, PassDone, Fail, vars, store
<1>6. CASE Visit
  <2>1. PICK n \in Names : \E i \in DOMAIN byName[n] : Visits(n, i)
    BY <1>6, VisitCases
  <2>2. PICK i \in DOMAIN byName[n] : Visits(n, i)
    BY <2>1
  <2>3. UNCHANGED <<Kept, onDisk, order, byDgo>>
    BY <2>2, VisitedEffect, KeptStays, TypeParts DEF Visits, Inv
  <2> QED BY <2>3 DEF Unique!vars, Kept
<1> QED BY <1>2, <1>3, <1>5, <1>6 DEF Next

LEMMA InitIsEmpty == Init => Unique!Init
<1> SUFFICES ASSUME Init PROVE Unique!Init
  OBVIOUS
<1>1. /\ \A d \in Dgos : onDisk[d] = << >> /\ byDgo[d] = << >>
      /\ \A n \in Names : byName[n] = << >>
      /\ order = << >> /\ DOMAIN << >> = {}
  BY DEF Init
<1> QED BY <1>1 DEF Unique!Init

(***************************************************************************)
(* add_obj_from_dgo keeps one object for each name, size and CRC, numbered *)
(* in the order in which they were met, and lists each file by name and    *)
(* number: the database implements UniqueObjects.                          *)
(***************************************************************************)
THEOREM DatabaseImplementsUniqueObjects == Spec \/ ReaderSpec => ImplementsUniqueObjects
<1>1. DatabaseInv => Inv /\ CursorInside
  BY DEF DatabaseInv, WalkInv
<1>2. DatabaseInv /\ [Next]_vars => [Unique!Next]_Unique!vars
  BY <1>1, NextAdds
<1>3. Database => ImplementsUniqueObjects
  BY <1>2, InitIsEmpty, DatabaseKeepsInv, PTL DEF Database, ImplementsUniqueObjects, Unique!Spec
<1> QED BY <1>3, SpecsAreDatabases

-----------------------------------------------------------------------------
(* The reader of archives.  First where everything is in the bytes that the *)
(* format gives an archive, then an invariant that says which of them the   *)
(* reader is at, as a function of what the database has been given.         *)

(* The bytes before the k + 1st member of a row of sequences. *)
Start(ss, k) == Len(FlattenSeq(SubSeq(ss, 1, k)))

LEMMA FlattenNext ==
  ASSUME NEW T, NEW ss \in Seq(Seq(T)), NEW k \in Nat, k + 1 \in 1 .. Len(ss)
  PROVE  /\ FlattenSeq(SubSeq(ss, 1, k)) \in Seq(T)
         /\ FlattenSeq(SubSeq(ss, 1, k + 1)) \in Seq(T)
         /\ FlattenSeq(SubSeq(ss, 1, k + 1)) = FlattenSeq(SubSeq(ss, 1, k)) \o ss[k + 1]
         /\ ss[k + 1] \in Seq(T)
<1> DEFINE U == Seq(T)
<1>0. ss \in Seq(U)
  OBVIOUS
<1> HIDE DEF U
<1>1. PICK s : s = SubSeq(ss, 1, k)
  OBVIOUS
<1>2. PICK t : t = SubSeq(ss, 1, k + 1)
  OBVIOUS
<1>3. s \in Seq(U) /\ t \in Seq(U) /\ ss[k + 1] \in U
  BY <1>0, <1>1, <1>2
<1>4. t = Append(s, ss[k + 1])
  <2>1. Len(t) = k + 1 /\ Len(s) = k
    BY <1>0, <1>1, <1>2
  <2>2. /\ \A i \in 1 .. k + 1 : t[i] = ss[i]
        /\ \A i \in 1 .. k : s[i] = ss[i]
    BY <1>0, <1>1, <1>2
  <2>3. PICK r \in Seq(U) : r = Append(s, ss[k + 1])
    BY <1>3, AppendProperties
  <2>4. Len(r) = k + 1 /\ r[k + 1] = ss[k + 1] /\ \A i \in 1 .. k : r[i] = s[i]
    BY <1>3, <2>1, <2>3
  <2>5. \A i \in 1 .. k + 1 : i = k + 1 \/ i \in 1 .. k
    OBVIOUS
  <2>6. Len(t) = Len(r) /\ \A i \in 1 .. Len(t) : t[i] = r[i]
    BY <2>1, <2>2, <2>4, <2>5
  <2>7. t = r
    BY <1>3, <2>3, <2>6, SeqEqual
  <2> QED
    BY <2>3, <2>7
<1>5. s \in Seq(Seq(T)) /\ t \in Seq(Seq(T)) /\ ss[k + 1] \in Seq(T)
  BY <1>3 DEF U
<1>6. FlattenSeq(t) = FlattenSeq(s) \o ss[k + 1]
  BY <1>4, <1>5, FlattenAppend
<1>7. FlattenSeq(s) \in Seq(T) /\ FlattenSeq(t) \in Seq(T)
  BY <1>5, FlattenType
<1> QED
  BY <1>1, <1>2, <1>5, <1>6, <1>7

(* What has been flattened stays where it is. *)
LEMMA FlattenStays ==
  ASSUME NEW T, NEW ss \in Seq(Seq(T)), NEW k \in 0 .. Len(ss)
  PROVE  \A m \in k .. Len(ss) :
           /\ Start(ss, k) <= Start(ss, m)
           /\ \A i \in 1 .. Start(ss, k) :
                FlattenSeq(SubSeq(ss, 1, m))[i] = FlattenSeq(SubSeq(ss, 1, k))[i]
<1> DEFINE F(n) == FlattenSeq(SubSeq(ss, 1, n))
           Stays(m) == Len(F(k)) <= Len(F(m)) /\ \A i \in 1 .. Len(F(k)) : F(m)[i] = F(k)[i]
           S == {m \in Nat : m \in k .. Len(ss) => Stays(m)}
<1>1. \A n \in Nat : n + 1 \in 1 .. Len(ss) =>
        F(n) \in Seq(T) /\ F(n + 1) \in Seq(T) /\ F(n + 1) = F(n) \o ss[n + 1] /\ ss[n + 1] \in Seq(T)
  BY FlattenNext
<1>2. Len(ss) \in Nat /\ k \in Nat
  OBVIOUS
<1>3. F(k) \in Seq(T)
  <2>1. SubSeq(ss, 1, k) \in Seq(Seq(T))
    BY <1>2
  <2> QED
    BY <2>1, FlattenType
<1> HIDE DEF F
<1>4. 0 \in S
  <2>1. 0 \in k .. Len(ss) => k = 0
    BY <1>2
  <2>2. Len(F(k)) \in Nat
    BY <1>3
  <2> QED
    BY <2>1, <2>2
<1>5. ASSUME NEW n \in Nat, n \in S
      PROVE  n + 1 \in S
  <2> SUFFICES ASSUME n + 1 \in k .. Len(ss) PROVE Stays(n + 1)
    OBVIOUS
  <2>1. CASE n + 1 = k
    <3>1. Len(F(k)) \in Nat
      BY <1>3
    <3> QED
      BY <2>1, <3>1
  <2>2. CASE n \in k .. Len(ss)
    <3>1. Stays(n)
      BY <1>5, <2>2
    <3>2. n + 1 \in 1 .. Len(ss)
      BY <1>2, <2>2
    <3>3. PICK f \in Seq(T) : f = F(n)
      BY <1>1, <3>2
    <3>4. PICK g \in Seq(T) : g = ss[n + 1]
      BY <1>1, <3>2
    <3>5. F(n + 1) = f \o g
      BY <1>1, <3>2, <3>3, <3>4
    <3>6. Len(f \o g) = Len(f) + Len(g) /\ \A i \in 1 .. Len(f) : (f \o g)[i] = f[i]
      OBVIOUS
    <3>7. Len(f) \in Nat /\ Len(g) \in Nat /\ Len(F(k)) \in Nat
      BY <1>3
    <3>8. Len(F(k)) <= Len(f) /\ Len(F(n + 1)) = Len(f) + Len(g)
      BY <3>1, <3>3, <3>5, <3>6
    <3>9. Len(F(k)) <= Len(F(n + 1))
      BY <3>7, <3>8
    <3>10. \A i \in 1 .. Len(F(k)) : i \in 1 .. Len(f)
      BY <3>7, <3>8
    <3>11. \A i \in 1 .. Len(F(k)) : F(n + 1)[i] = f[i]
      BY <3>5, <3>6, <3>10
    <3>12. \A i \in 1 .. Len(F(k)) : f[i] = F(k)[i]
      BY <3>1, <3>3
    <3> QED
      BY <3>9, <3>11, <3>12
  <2> QED
    BY <1>2, <2>1, <2>2
<1>6. Nat \subseteq S
  <2> HIDE DEF S
  <2> QED
    BY <1>4, <1>5, NatSetInduction
<1>7. \A m \in k .. Len(ss) : Stays(m)
  BY <1>2, <1>6
<1> QED
  BY <1>7 DEF F, Start

(* Where the members of a row are in its concatenation. *)
LEMMA FlattenAt ==
  ASSUME NEW T, NEW ss \in Seq(Seq(T))
  PROVE  /\ FlattenSeq(ss) \in Seq(T)
         /\ Start(ss, 0) = 0 /\ Start(ss, Len(ss)) = Len(FlattenSeq(ss))
         /\ \A k \in 0 .. Len(ss) : Start(ss, k) \in 0 .. Len(FlattenSeq(ss))
         /\ \A k \in Nat : k + 1 \in 1 .. Len(ss) =>
              /\ ss[k + 1] \in Seq(T)
              /\ Start(ss, k + 1) = Start(ss, k) + Len(ss[k + 1])
              /\ \A i \in 1 .. Len(ss[k + 1]) : FlattenSeq(ss)[Start(ss, k) + i] = ss[k + 1][i]
<1> DEFINE F(n) == FlattenSeq(SubSeq(ss, 1, n))
<1>1. Len(ss) \in Nat /\ SubSeq(ss, 1, Len(ss)) = ss
  OBVIOUS
<1>2. FlattenSeq(ss) \in Seq(T) /\ F(Len(ss)) = FlattenSeq(ss)
  BY <1>1, FlattenType
<1>3. F(0) = << >>
  <2>1. SubSeq(ss, 1, 0) = << >>
    OBVIOUS
  <2> QED
    BY <2>1, FlattenEmpty
<1>4. \A k \in 0 .. Len(ss) : Start(ss, k) \in 0 .. Len(FlattenSeq(ss))
  <2> TAKE k \in 0 .. Len(ss)
  <2>1. SubSeq(ss, 1, k) \in Seq(Seq(T))
    OBVIOUS
  <2>2. F(k) \in Seq(T)
    BY <2>1, FlattenType
  <2>3. Len(F(k)) \in Nat
    BY <2>2
  <2>4. Start(ss, k) <= Start(ss, Len(ss))
    BY <1>1, FlattenStays
  <2>5. Len(FlattenSeq(ss)) \in Nat
    BY <1>2
  <2> QED
    BY <1>2, <2>3, <2>4, <2>5 DEF Start
<1>5. ASSUME NEW k \in Nat, k + 1 \in 1 .. Len(ss)
      PROVE  /\ ss[k + 1] \in Seq(T)
             /\ Start(ss, k + 1) = Start(ss, k) + Len(ss[k + 1])
             /\ \A i \in 1 .. Len(ss[k + 1]) : FlattenSeq(ss)[Start(ss, k) + i] = ss[k + 1][i]
  <2>1. PICK f \in Seq(T) : f = F(k)
    BY <1>5, FlattenNext
  <2>2. PICK g \in Seq(T) : g = ss[k + 1]
    BY <1>5, FlattenNext
  <2>3. F(k + 1) = f \o g
    BY <1>5, <2>1, <2>2, FlattenNext
  <2>4. /\ Len(f \o g) = Len(f) + Len(g) /\ Len(f) \in Nat /\ Len(g) \in Nat
        /\ \A i \in 1 .. Len(g) : (f \o g)[Len(f) + i] = g[i]
    OBVIOUS
  <2>5. Start(ss, k + 1) = Len(f) + Len(g) /\ Start(ss, k) = Len(f)
    BY <2>1, <2>3, <2>4 DEF Start
  <2>6. \A i \in 1 .. Start(ss, k + 1) : F(Len(ss))[i] = F(k + 1)[i]
    <3>1. k + 1 \in 0 .. Len(ss) /\ Len(ss) \in k + 1 .. Len(ss)
      BY <1>1, <1>5
    <3> QED
      BY <3>1, FlattenStays
  <2> HIDE DEF F
  <2>7. \A i \in 1 .. Len(g) : Len(f) + i \in 1 .. Start(ss, k + 1)
    BY <2>4, <2>5
  <2>8. \A i \in 1 .. Len(g) : FlattenSeq(ss)[Len(f) + i] = g[i]
    BY <1>2, <2>3, <2>4, <2>6, <2>7
  <2> QED
    BY <2>2, <2>4, <2>5, <2>8
<1> QED
  BY <1>2, <1>3, <1>4, <1>5 DEF Start

-----------------------------------------------------------------------------
(* The bytes of an archive that is not packed.                             *)

Titles == Names \cup Dgos

RawBytes ==
  {Zero, Filler} \cup {Byte("word", n, << >>) : n \in Nat} \cup {Byte("oZlB", n, << >>) : n \in Nat}
    \cup {Byte("header", x[1], <<x[2]>>) : x \in Nat \X Titles}
    \cup {Byte("data", x[1], <<x[2]>>) : x \in Nat \X Contents}

LEMMA RawByteFacts ==
  /\ Zero \in RawBytes /\ Filler \in RawBytes
  /\ \A n \in Nat : Byte("word", n, << >>) \in RawBytes /\ Byte("oZlB", n, << >>) \in RawBytes
  /\ \A n \in Nat : \A m \in Titles : Byte("header", n, <<m>>) \in RawBytes
  /\ \A n \in Nat : \A c \in Contents : Byte("data", n, <<c>>) \in RawBytes
<1>1. Zero \in RawBytes /\ Filler \in RawBytes
  BY DEF RawBytes
<1>2. \A n \in Nat : Byte("word", n, << >>) \in RawBytes
  BY DEF RawBytes
<1>3. \A n \in Nat : Byte("oZlB", n, << >>) \in RawBytes
  BY DEF RawBytes
<1>4. \A n \in Nat : \A m \in Titles : Byte("header", n, <<m>>) \in RawBytes
  <2> TAKE n \in Nat
  <2> TAKE m \in Titles
  <2>1. PICK x \in Nat \X Titles : x[1] = n /\ x[2] = m
    <3> WITNESS <<n, m>> \in Nat \X Titles
    <3> QED
      OBVIOUS
  <2>2. Byte("header", n, <<m>>) = Byte("header", x[1], <<x[2]>>)
    BY <2>1
  <2> QED
    BY <2>2, Zenon DEF RawBytes
<1>5. \A n \in Nat : \A c \in Contents : Byte("data", n, <<c>>) \in RawBytes
  <2> TAKE n \in Nat
  <2> TAKE c \in Contents
  <2>1. PICK x \in Nat \X Contents : x[1] = n /\ x[2] = c
    <3> WITNESS <<n, c>> \in Nat \X Contents
    <3> QED
      OBVIOUS
  <2>2. Byte("data", n, <<c>>) = Byte("data", x[1], <<x[2]>>)
    BY <2>1
  <2> QED
    BY <2>2, Zenon DEF RawBytes
<1> QED
  BY <1>1, <1>2, <1>3, <1>4, <1>5

LEMMA FillFacts ==
  ASSUME NEW T, Filler \in T, Zero \in T, NEW n \in Nat
  PROVE  /\ Fill(n) \in Seq(T) /\ Len(Fill(n)) = n /\ \A i \in 1 .. n : Fill(n)[i] = Filler
         /\ Zeros(n) \in Seq(T) /\ Len(Zeros(n)) = n /\ \A i \in 1 .. n : Zeros(n)[i] = Zero
BY DEF Fill, Zeros

(* A byte before others. *)
LEMMA ByteBefore ==
  ASSUME NEW T, NEW b \in T, NEW s \in Seq(T)
  PROVE  /\ <<b>> \o s \in Seq(T) /\ Len(<<b>> \o s) = 1 + Len(s) /\ (<<b>> \o s)[1] = b
         /\ \A i \in 1 .. Len(s) : (<<b>> \o s)[1 + i] = s[i]
<1>1. PICK f : f = <<b>>
  OBVIOUS
<1>2. f \in Seq(T) /\ Len(f) = 1 /\ f[1] = b
  BY <1>1
<1>3. /\ f \o s \in Seq(T) /\ Len(f \o s) = Len(f) + Len(s)
      /\ \A i \in 1 .. Len(f) + Len(s) : (f \o s)[i] = IF i <= Len(f) THEN f[i] ELSE s[i - Len(f)]
  BY <1>2, ConcatProperties
<1>4. Len(s) \in Nat
  OBVIOUS
<1>5. (f \o s)[1] = b
  BY <1>2, <1>3, <1>4
<1>6. \A i \in 1 .. Len(s) : (f \o s)[1 + i] = s[i]
  BY <1>2, <1>3, <1>4
<1> QED
  BY <1>1, <1>2, <1>3, <1>5, <1>6

(* Where the bytes of two rows are when one is put after the other. *)
LEMMA Both ==
  ASSUME NEW T, NEW s \in Seq(T), NEW t \in Seq(T)
  PROVE  /\ s \o t \in Seq(T) /\ Len(s \o t) = Len(s) + Len(t)
         /\ Len(s) \in Nat /\ Len(t) \in Nat
         /\ \A i \in 1 .. Len(s) : (s \o t)[i] = s[i]
         /\ \A i \in 1 .. Len(t) : (s \o t)[Len(s) + i] = t[i]
<1>1. /\ s \o t \in Seq(T) /\ Len(s \o t) = Len(s) + Len(t)
      /\ \A i \in 1 .. Len(s) + Len(t) : (s \o t)[i] = IF i <= Len(s) THEN s[i] ELSE t[i - Len(s)]
  BY ConcatProperties
<1>2. Len(s) \in Nat /\ Len(t) \in Nat
  OBVIOUS
<1>3. \A i \in 1 .. Len(s) : (s \o t)[i] = s[i]
  BY <1>1, <1>2
<1>4. \A i \in 1 .. Len(t) : (s \o t)[Len(s) + i] = t[i]
  BY <1>1, <1>2
<1> QED
  BY <1>1, <1>2, <1>3, <1>4

LEMMA HeaderFacts ==
  ASSUME NEW n \in Nat, NEW m \in Titles
  PROVE  /\ DgoHeader(n, m) \in Seq(RawBytes) /\ Len(DgoHeader(n, m)) = header_size
         /\ DgoHeader(n, m)[1] = Byte("header", n, <<m>>)
<1>1. header_size - 1 \in Nat
  BY ReaderAssumption
<1>2. PICK b \in RawBytes : b = Byte("header", n, <<m>>)
  BY RawByteFacts
<1>3. PICK s \in Seq(RawBytes) : s = Fill(header_size - 1) /\ Len(s) = header_size - 1
  BY <1>1, RawByteFacts, FillFacts
<1>4. DgoHeader(n, m) = <<b>> \o s
  BY <1>2, <1>3 DEF DgoHeader
<1>5. <<b>> \o s \in Seq(RawBytes) /\ Len(<<b>> \o s) = 1 + Len(s) /\ (<<b>> \o s)[1] = b
  BY ByteBefore
<1>6. 1 + (header_size - 1) = header_size
  BY ReaderAssumption
<1> QED
  BY <1>2, <1>3, <1>4, <1>5, <1>6

LEMMA ObjectFacts ==
  ASSUME NEW c \in Contents
  PROVE  /\ Size[c] \in Nat
         /\ ObjectBytes(c) \in Seq(RawBytes) /\ Len(ObjectBytes(c)) = Size[c]
         /\ \A i \in 1 .. Size[c] : ObjectBytes(c)[i] = Byte("data", i, <<c>>)
<1>1. Size[c] \in Nat
  BY DatabaseAssumption
<1>2. \A i \in 1 .. Size[c] : Byte("data", i, <<c>>) \in RawBytes
  BY <1>1, RawByteFacts
<1> QED
  BY <1>1, <1>2 DEF ObjectBytes

(* A file in the archive. *)
FileBytes(f) == DgoHeader(Size[f.data], f.name) \o ObjectBytes(f.data)

(* The header of f is at place n, and its bytes after it. *)
FileAt(s, n, f) ==
  /\ s[n + 1] = Byte("header", Size[f.data], <<f.name>>)
  /\ \A i \in 1 .. Size[f.data] : s[n + header_size + i] = Byte("data", i, <<f.data>>)

LEMMA FileFacts ==
  ASSUME NEW f \in FileOnDisk
  PROVE  /\ FileBytes(f) \in Seq(RawBytes) /\ Len(FileBytes(f)) = header_size + Size[f.data]
         /\ FileAt(FileBytes(f), 0, f)
         /\ Size[f.data] \in Nat /\ f.name \in Names /\ f.data \in Contents
<1>1. f.name \in Titles /\ f.name \in Names /\ f.data \in Contents
  BY DEF FileOnDisk, Titles
<1>2. Size[f.data] \in Nat
  BY <1>1, ObjectFacts
<1>3. PICK h \in Seq(RawBytes) : /\ h = DgoHeader(Size[f.data], f.name)
                                 /\ Len(h) = header_size
                                 /\ h[1] = Byte("header", Size[f.data], <<f.name>>)
  BY <1>1, <1>2, HeaderFacts
<1>4. PICK o \in Seq(RawBytes) : /\ o = ObjectBytes(f.data)
                                 /\ Len(o) = Size[f.data]
                                 /\ \A i \in 1 .. Size[f.data] : o[i] = Byte("data", i, <<f.data>>)
  BY <1>1, ObjectFacts
<1>5. /\ h \o o \in Seq(RawBytes) /\ Len(h \o o) = header_size + Size[f.data]
      /\ \A i \in 1 .. header_size : (h \o o)[i] = h[i]
      /\ \A i \in 1 .. Size[f.data] : (h \o o)[header_size + i] = o[i]
  BY <1>3, <1>4, Both
<1>6. FileBytes(f) = h \o o
  BY <1>3, <1>4 DEF FileBytes
<1>7. 1 \in 1 .. header_size /\ 0 + 1 = 1 /\ 0 + header_size = header_size
  BY ReaderAssumption
<1>8. FileAt(h \o o, 0, f)
  BY <1>3, <1>4, <1>5, <1>7 DEF FileAt
<1> QED
  BY <1>1, <1>2, <1>5, <1>6, <1>8

Parts(fs) == [i \in DOMAIN fs |-> FileBytes(fs[i])]

(* Where the k + 1st file of an archive begins. *)
Place(fs, k) == header_size + Start(Parts(fs), k)

LEMMA PlainFacts ==
  ASSUME NEW m \in Titles, NEW n \in Nat, NEW fs \in Seq(FileOnDisk),
         NEW s, s = Plain(m, n, fs)
  PROVE  /\ s \in Seq(RawBytes) /\ Len(s) = Place(fs, Len(fs))
         /\ s[1] = Byte("header", n, <<m>>)
         /\ Place(fs, 0) = header_size
         /\ \A k \in 0 .. Len(fs) : Place(fs, k) \in header_size .. Len(s)
         /\ \A k \in Nat : k + 1 \in 1 .. Len(fs) =>
              /\ Place(fs, k + 1) = Place(fs, k) + header_size + Size[fs[k + 1].data]
              /\ FileAt(s, Place(fs, k), fs[k + 1])
<1> DEFINE T == RawBytes
<1>1. PICK ss : ss = Parts(fs)
  OBVIOUS
<1>2. Len(ss) = Len(fs) /\ Len(fs) \in Nat /\ \A i \in 1 .. Len(fs) : ss[i] = FileBytes(fs[i])
  BY <1>1 DEF Parts
<1>3. \A i \in 1 .. Len(fs) : fs[i] \in FileOnDisk
  OBVIOUS
<1>4. ss \in Seq(Seq(T))
  <2> DEFINE U == Seq(T)
  <2>1. \A i \in 1 .. Len(fs) : FileBytes(fs[i]) \in U
    BY <1>3, FileFacts
  <2>2. ss = [i \in 1 .. Len(fs) |-> FileBytes(fs[i])]
    BY <1>1, <1>2 DEF Parts
  <2> HIDE DEF U
  <2>3. ss \in [1 .. Len(fs) -> U]
    BY <2>1, <2>2
  <2>4. ss \in Seq(U)
    BY <1>2, <2>3
  <2> QED
    BY <2>4 DEF U
<1>5. PICK flat \in Seq(T) : flat = FlattenSeq(ss)
  BY <1>4, FlattenAt
<1>6. PICK h \in Seq(T) : h = DgoHeader(n, m) /\ Len(h) = header_size /\ h[1] = Byte("header", n, <<m>>)
  BY HeaderFacts
<1>7. s = h \o flat
  BY <1>1, <1>5, <1>6 DEF Plain, Parts, FileBytes
<1>8. /\ s \in Seq(T) /\ Len(s) = header_size + Len(flat) /\ Len(flat) \in Nat
      /\ \A i \in 1 .. header_size : s[i] = h[i]
      /\ \A i \in 1 .. Len(flat) : s[header_size + i] = flat[i]
  BY <1>6, <1>7, Both
<1>9. header_size \in Nat /\ header_size > 4
  BY ReaderAssumption
<1>10. s[1] = Byte("header", n, <<m>>)
  BY <1>6, <1>8, <1>9
<1>11. /\ Start(ss, 0) = 0 /\ Start(ss, Len(ss)) = Len(flat)
       /\ \A k \in 0 .. Len(ss) : Start(ss, k) \in 0 .. Len(flat)
       /\ \A k \in Nat : k + 1 \in 1 .. Len(ss) =>
              /\ ss[k + 1] \in Seq(T)
              /\ Start(ss, k + 1) = Start(ss, k) + Len(ss[k + 1])
              /\ \A i \in 1 .. Len(ss[k + 1]) : flat[Start(ss, k) + i] = ss[k + 1][i]
  BY <1>4, <1>5, FlattenAt
<1>12. \A k : Place(fs, k) = header_size + Start(ss, k)
  BY <1>1 DEF Place
<1>13. Len(s) = Place(fs, Len(fs)) /\ Place(fs, 0) = header_size
  BY <1>2, <1>8, <1>9, <1>11, <1>12
<1>14. \A k \in 0 .. Len(fs) : Place(fs, k) \in header_size .. Len(s)
  BY <1>2, <1>8, <1>9, <1>11, <1>12
<1>15. ASSUME NEW k \in Nat, k + 1 \in 1 .. Len(fs)
       PROVE  /\ Place(fs, k + 1) = Place(fs, k) + header_size + Size[fs[k + 1].data]
              /\ FileAt(s, Place(fs, k), fs[k + 1])
  <2>1. PICK f \in FileOnDisk : f = fs[k + 1]
    BY <1>3, <1>15
  <2>2. PICK p \in Seq(T) : p = ss[k + 1] /\ p = FileBytes(f)
    BY <1>2, <1>15, <2>1, FileFacts
  <2>3. Len(p) = header_size + Size[f.data] /\ FileAt(p, 0, f) /\ Size[f.data] \in Nat
    BY <2>2, FileFacts
  <2>4. PICK q : q = Start(ss, k)
    OBVIOUS
  <2>5. /\ Start(ss, k + 1) = q + Len(p)
        /\ \A i \in 1 .. Len(p) : flat[q + i] = p[i]
        /\ q \in 0 .. Len(flat) /\ Start(ss, k + 1) \in 0 .. Len(flat)
    <3>1. k \in 0 .. Len(ss) /\ k + 1 \in 0 .. Len(ss)
      BY <1>2, <1>15
    <3> QED
      BY <1>2, <1>11, <1>15, <2>2, <2>4, <3>1
  <2>6. \A i \in 1 .. Len(p) : s[header_size + q + i] = p[i]
    <3> TAKE i \in 1 .. Len(p)
    <3>1. q + i \in 1 .. Len(flat) /\ header_size + q + i = header_size + (q + i)
      BY <1>8, <1>9, <2>3, <2>5
    <3> QED
      BY <1>8, <2>5, <3>1
  <2>7. Place(fs, k) = header_size + q /\ Place(fs, k + 1) = header_size + q + Len(p)
    BY <1>9, <1>12, <2>3, <2>4, <2>5
  <2>8. /\ p[1] = Byte("header", Size[f.data], <<f.name>>)
        /\ \A i \in 1 .. Size[f.data] : p[header_size + i] = Byte("data", i, <<f.data>>)
    <3>1. 0 + 1 = 1 /\ 0 + header_size = header_size
      BY <1>9
    <3>2. FileAt(p, 0, f)
      BY <2>3
    <3> QED
      BY <3>1, <3>2 DEF FileAt
  <2>9. s[header_size + q + 1] = Byte("header", Size[f.data], <<f.name>>)
    BY <1>9, <2>3, <2>6, <2>8
  <2>10. \A i \in 1 .. Size[f.data] : s[header_size + q + header_size + i] = Byte("data", i, <<f.data>>)
    <3> TAKE i \in 1 .. Size[f.data]
    <3>1. header_size + i \in 1 .. Len(p) /\ header_size + q + (header_size + i) = header_size + q + header_size + i
      BY <1>8, <1>9, <2>3, <2>5
    <3> QED
      BY <2>6, <2>8, <3>1
  <2>11. FileAt(s, Place(fs, k), f)
    BY <2>7, <2>9, <2>10 DEF FileAt
  <2> QED
    BY <1>9, <2>1, <2>3, <2>5, <2>7, <2>11
<1> QED
  BY <1>8, <1>10, <1>13, <1>14, <1>15

-----------------------------------------------------------------------------
(* The pieces of an archive that is packed, and their chunks.              *)

LEMMA DivFacts ==
  ASSUME NEW a \in Nat, NEW m \in Nat, m > 0
  PROVE  /\ a \div m \in Nat
         /\ m * (a \div m) <= a /\ a < m * (a \div m) + m
OBVIOUS

(* The bytes before the k + 1st piece. *)
Before(k) == MAX_CHUNK_SIZE * k

LEMMA BeforeFacts ==
  /\ Before(0) = 0
  /\ \A k \in Nat : Before(k) \in Nat /\ Before(k + 1) = Before(k) + MAX_CHUNK_SIZE
  /\ \A k, m \in Nat : k <= m => Before(k) <= Before(m)
<1>1. MAX_CHUNK_SIZE \in Nat
  BY ReaderAssumption
<1>2. PICK m \in Nat : m = MAX_CHUNK_SIZE
  BY <1>1
<1>3. m * 0 = 0 /\ \A k \in Nat : m * k \in Nat /\ m * (k + 1) = m * k + m
  OBVIOUS
<1>4. \A k, n \in Nat : k <= n => m * k <= m * n
  <2> TAKE k, n \in Nat
  <2> HAVE k <= n
  <2>1. PICK j \in Nat : n = k + j
    <3>1. n - k \in Nat /\ n = k + (n - k)
      OBVIOUS
    <3> QED
      BY <3>1
  <2>2. m * (k + j) = m * k + m * j /\ m * j \in Nat /\ m * k \in Nat
    OBVIOUS
  <2> QED
    BY <2>1, <2>2
<1> QED
  BY <1>2, <1>3, <1>4 DEF Before

(* There are as many pieces as there are beginnings inside the bytes. *)
LEMMA PieceCount ==
  ASSUME NEW T, NEW s \in Seq(T)
  PROVE  /\ Len(Pieces(s)) \in Nat /\ DOMAIN Pieces(s) = 1 .. Len(Pieces(s))
         /\ \A k \in Nat : k + 1 \in 1 .. Len(Pieces(s)) <=> Before(k) < Len(s)
<1>1. PICK m \in Nat : m = MAX_CHUNK_SIZE /\ m > 0
  BY ReaderAssumption
<1>2. PICK l \in Nat : l = Len(s)
  OBVIOUS
<1>3. PICK n : n = (l + m - 1) \div m
  OBVIOUS
<1>4. n \in Nat /\ m * n <= l + m - 1 /\ l + m - 1 < m * n + m
  <2>1. l + m - 1 \in Nat
    BY <1>1
  <2> QED
    BY <1>1, <1>3, <2>1, DivFacts
<1>5. Len(Pieces(s)) = n /\ DOMAIN Pieces(s) = 1 .. n
  <2>1. DOMAIN Pieces(s) = 1 .. n
    BY <1>1, <1>2, <1>3 DEF Pieces
  <2>2. Len(Pieces(s)) = n
    <3>1. Pieces(s) = [k \in 1 .. n |-> Pieces(s)[k]]
      BY <2>1, <1>1, <1>2, <1>3 DEF Pieces
    <3> QED
      BY <1>4, <3>1, LenProperties
  <2> QED
    BY <2>1, <2>2
<1>6. ASSUME NEW k \in Nat
      PROVE  k + 1 \in 1 .. n <=> Before(k) < l
  <2>1. Before(k) = m * k /\ Before(n) = m * n /\ Before(k) \in Nat /\ Before(n) \in Nat
        /\ Before(k + 1) = Before(k) + m
    BY <1>1, <1>4, BeforeFacts DEF Before
  <2>2. CASE k + 1 <= n
    <3>1. Before(k + 1) <= Before(n)
      BY <1>4, <2>2, BeforeFacts
    <3>2. Before(k) < l
      BY <1>1, <1>4, <2>1, <3>1
    <3> QED
      BY <1>4, <2>2, <3>2
  <2>3. CASE ~(k + 1 <= n)
    <3>1. n <= k
      BY <1>4, <2>3
    <3>2. Before(n) <= Before(k)
      BY <1>4, <3>1, BeforeFacts
    <3>3. ~(Before(k) < l)
      BY <1>1, <1>4, <2>1, <3>2
    <3> QED
      BY <1>4, <2>3, <3>3
  <2> QED
    BY <2>2, <2>3
<1> QED
  BY <1>2, <1>4, <1>5, <1>6

(* piece is the part of s of the maximum size, or what is left of it. *)
PieceOf(piece, s, k) ==
  /\ Len(piece) \in 1 .. MAX_CHUNK_SIZE
  /\ Before(k) + Len(piece) <= Len(s)
  /\ Len(piece) < MAX_CHUNK_SIZE => Before(k) + Len(piece) = Len(s)
  /\ \A i \in 1 .. Len(piece) : piece[i] = s[Before(k) + i]

LEMMA PieceFacts ==
  ASSUME NEW T, NEW s \in Seq(T), NEW k \in Nat, k + 1 \in 1 .. Len(Pieces(s))
  PROVE  Pieces(s)[k + 1] \in Seq(T) /\ PieceOf(Pieces(s)[k + 1], s, k)
<1>1. PICK m \in Nat : m = MAX_CHUNK_SIZE /\ m > 0
  BY ReaderAssumption
<1>2. PICK l \in Nat : l = Len(s)
  OBVIOUS
<1>3. PICK b \in Nat : b = Before(k) /\ b < l /\ Before(k + 1) = b + m
  BY <1>1, <1>2, PieceCount, BeforeFacts
<1>4. PICK e \in Nat : e = IF b + m > l THEN l ELSE b + m
  BY <1>1, <1>3
<1>5. Pieces(s)[k + 1] = SubSeq(s, b + 1, e)
  <2>1. k + 1 \in DOMAIN Pieces(s)
    BY PieceCount
  <2>2. Pieces(s)[k + 1] = SubSeq(s, m * ((k + 1) - 1) + 1, IF m * (k + 1) > l THEN l ELSE m * (k + 1))
    BY <1>1, <1>2, <2>1 DEF Pieces
  <2>3. (k + 1) - 1 = k /\ m * k = b /\ m * (k + 1) = b + m
    BY <1>1, <1>3 DEF Before
  <2> QED
    BY <1>4, <2>2, <2>3
<1>6. PICK piece : piece = SubSeq(s, b + 1, e)
  OBVIOUS
<1>7. b + 1 \in Int /\ e \in Int /\ \A i \in b + 1 .. e : s[i] \in T
  BY <1>2, <1>3, <1>4
<1>8. /\ piece \in Seq(T)
      /\ Len(piece) = IF b + 1 <= e THEN e - (b + 1) + 1 ELSE 0
      /\ \A i \in 1 .. e - (b + 1) + 1 : piece[i] = s[b + 1 + i - 1]
  BY <1>6, <1>7, SubSeqProperties
<1>9. e \in b + 1 .. b + m /\ e <= l /\ (e < b + m => e = l)
  BY <1>1, <1>3, <1>4
<1>10. Len(piece) = e - b /\ \A i \in 1 .. e - b : piece[i] = s[b + i]
  <2>1. e - (b + 1) + 1 = e - b /\ \A i \in 1 .. e - b : b + 1 + i - 1 = b + i
    BY <1>9
  <2> QED
    BY <1>8, <1>9, <2>1
<1>11. PieceOf(piece, s, k)
  <2>1. Len(piece) \in 1 .. m
    BY <1>9, <1>10
  <2>2. b + Len(piece) <= l /\ (Len(piece) < m => b + Len(piece) = l)
    BY <1>9, <1>10
  <2> QED
    BY <1>1, <1>2, <1>3, <1>10, <2>1, <2>2 DEF PieceOf
<1> QED
  BY <1>5, <1>6, <1>8, <1>11

Bytes == RawBytes \cup {Byte("lzo", x[1], x[2]) : x \in Nat \X Seq(RawBytes)}

LEMMA ByteFacts ==
  /\ RawBytes \subseteq Bytes /\ Seq(RawBytes) \subseteq Seq(Bytes)
  /\ Zero \in Bytes /\ Filler \in Bytes
  /\ \A n \in Nat : \A piece \in Seq(RawBytes) : Byte("lzo", n, piece) \in Bytes
<1>1. RawBytes \subseteq Bytes
  BY DEF Bytes
<1>2. Zero \in Bytes /\ Filler \in Bytes
  BY <1>1, RawByteFacts
<1>3. ASSUME NEW n \in Nat, NEW piece \in Seq(RawBytes)
      PROVE  Byte("lzo", n, piece) \in Bytes
  <2> DEFINE U == Seq(RawBytes)
  <2>1. piece \in U
    OBVIOUS
  <2> HIDE DEF U
  <2>2. PICK x \in Nat \X U : x[1] = n /\ x[2] = piece
    <3>1. <<n, piece>> \in Nat \X U
      BY <2>1
    <3> QED
      BY <3>1
  <2>3. Byte("lzo", n, piece) = Byte("lzo", x[1], x[2])
    BY <2>2
  <2>4. x \in Nat \X Seq(RawBytes)
    BY <2>2 DEF U
  <2> QED
    BY <2>3, <2>4, Zenon DEF Bytes
<1>4. Seq(RawBytes) \subseteq Seq(Bytes)
  BY <1>1
<1> QED
  BY <1>1, <1>2, <1>3, <1>4

LEMMA WordFacts ==
  ASSUME NEW n \in Nat
  PROVE  Word(n) \in Seq(Bytes) /\ Len(Word(n)) = 4 /\ Word(n)[1] = Byte("word", n, << >>)
<1>1. PICK b \in Bytes : b = Byte("word", n, << >>)
  BY RawByteFacts, ByteFacts
<1>2. PICK t \in Seq(Bytes) : t = Fill(3) /\ Len(t) = 3
  BY ByteFacts, FillFacts
<1>3. PICK w : w = <<b>> \o t
  OBVIOUS
<1>4. w \in Seq(Bytes) /\ Len(w) = 1 + Len(t) /\ w[1] = b
  BY <1>3, ByteBefore
<1>5. Word(n) = w
  BY <1>1, <1>2, <1>3 DEF Word
<1>6. Len(w) = 4
  BY <1>2, <1>4
<1> QED
  BY <1>1, <1>4, <1>5, <1>6

LEMMA MagicFacts ==
  Magic \in Seq(Bytes) /\ Len(Magic) = 4 /\ \A i \in 1 .. 4 : Magic[i] = Byte("oZlB", i, << >>)
<1>1. \A i \in 1 .. 4 : Byte("oZlB", i, << >>) \in Bytes
  BY RawByteFacts, ByteFacts
<1> QED
  BY <1>1 DEF Magic

(* Up to the next word. *)
LEMMA AlignFacts ==
  ASSUME NEW n \in Nat
  PROVE  /\ (4 - (n % 4)) % 4 \in 0 .. 3
         /\ AlignUp(n) \in n .. n + 3 /\ AlignUp(n) % 4 = 0
         /\ \A a \in Nat : a % 4 = 0 => AlignUp(a + n) = a + AlignUp(n)
<1>1. n % 4 \in 0 .. 3
  OBVIOUS
<1>2. (4 - (n % 4)) % 4 \in 0 .. 3
  OBVIOUS
<1>3. AlignUp(n) % 4 = 0
  BY DEF AlignUp
<1>4. \A a \in Nat : a % 4 = 0 => (a + n) % 4 = n % 4
  OBVIOUS
<1> QED
  BY <1>1, <1>2, <1>3, <1>4 DEF AlignUp

LEMMA AlignedFacts ==
  ASSUME NEW s \in Seq(Bytes)
  PROVE  /\ Aligned(s) \in Seq(Bytes) /\ Len(Aligned(s)) = AlignUp(Len(s))
         /\ \A i \in 1 .. Len(s) : Aligned(s)[i] = s[i]
<1>1. PICK n \in Nat : n = (4 - (Len(s) % 4)) % 4
  BY AlignFacts
<1>2. PICK t \in Seq(Bytes) : t = Zeros(n) /\ Len(t) = n
  BY ByteFacts, FillFacts
<1>3. Aligned(s) = s \o t
  BY <1>1, <1>2 DEF Aligned
<1>4. /\ s \o t \in Seq(Bytes) /\ Len(s \o t) = Len(s) + Len(t)
      /\ \A i \in 1 .. Len(s) : (s \o t)[i] = s[i]
  BY Both
<1> QED
  BY <1>1, <1>2, <1>3, <1>4 DEF AlignUp

(* A chunk of a piece as it is, or of a piece that is compressed. *)
RawChunk(c, k, piece) ==
  /\ c[1] = Byte("word", MAX_CHUNK_SIZE + k, << >>) /\ Len(c) = 4 + MAX_CHUNK_SIZE
  /\ \A i \in 1 .. Len(piece) : c[4 + i] = piece[i]

LzoChunk(c, p, piece) ==
  /\ c[1] = Byte("word", p.chunk, << >>) /\ Len(c) = 4 + p.chunk
  /\ c[5] = Byte("lzo", p.chunk, piece)

LEMMA ChunkFacts ==
  ASSUME NEW p \in Packings, NEW tail \in BOOLEAN, NEW k \in Nat,
         NEW piece \in Seq(RawBytes), Len(piece) \in 1 .. MAX_CHUNK_SIZE,
         NEW c, c = Chunk(p, tail, k, piece)
  PROVE  /\ c \in Seq(Bytes)
         /\ \/ RawChunk(c, k, piece) /\ (~tail => Len(piece) = MAX_CHUNK_SIZE)
            \/ LzoChunk(c, p, piece)
<1>1. PICK m \in Nat : m = MAX_CHUNK_SIZE /\ m > 0
  BY ReaderAssumption
<1>2. PICK l \in 1 .. m : l = Len(piece)
  BY <1>1
<1>3. p.chunk \in Nat /\ p.chunk > 0
  BY ReaderAssumption
<1>4. piece \in Seq(Bytes)
  BY ByteFacts
<1>5. PICK raw : raw = Word(m + k) \o piece \o Fill(m - l)
  OBVIOUS
<1>6. raw \in Seq(Bytes) /\ RawChunk(raw, k, piece)
  <2>1. PICK w \in Seq(Bytes) : w = Word(m + k) /\ Len(w) = 4 /\ w[1] = Byte("word", m + k, << >>)
    BY WordFacts
  <2>2. PICK f \in Seq(Bytes) : f = Fill(m - l) /\ Len(f) = m - l
    <3>1. m - l \in Nat
      BY <1>1, <1>2
    <3> QED
      BY <3>1, ByteFacts, FillFacts
  <2>3. PICK u : u = w \o piece
    OBVIOUS
  <2>4. /\ u \in Seq(Bytes) /\ Len(u) = 4 + l
        /\ \A i \in 1 .. 4 : u[i] = w[i]
        /\ \A i \in 1 .. l : u[4 + i] = piece[i]
    <3>1. /\ u \in Seq(Bytes) /\ Len(u) = Len(w) + Len(piece)
          /\ \A i \in 1 .. Len(w) : u[i] = w[i]
          /\ \A i \in 1 .. Len(piece) : u[Len(w) + i] = piece[i]
      BY <1>4, <2>3, Both
    <3> QED
      BY <1>2, <2>1, <3>1
  <2>5. raw = u \o f
    BY <1>5, <2>1, <2>2, <2>3
  <2>6. /\ raw \in Seq(Bytes) /\ Len(raw) = (4 + l) + (m - l)
        /\ \A i \in 1 .. 4 + l : raw[i] = u[i]
    <3>1. /\ raw \in Seq(Bytes) /\ Len(raw) = Len(u) + Len(f)
          /\ \A i \in 1 .. Len(u) : raw[i] = u[i]
      BY <2>4, <2>5, Both
    <3> QED
      BY <2>2, <2>4, <3>1
  <2>7. Len(raw) = 4 + m /\ raw[1] = Byte("word", m + k, << >>)
    BY <2>1, <2>4, <2>6
  <2>8. \A i \in 1 .. l : raw[4 + i] = piece[i]
    <3>1. \A i \in 1 .. l : 4 + i \in 1 .. 4 + l
      BY <1>2
    <3> QED
      BY <2>4, <2>6, <3>1
  <2> QED
    BY <1>1, <1>2, <2>6, <2>7, <2>8 DEF RawChunk
<1>7. PICK lzo : lzo = Word(p.chunk) \o <<Byte("lzo", p.chunk, piece)>> \o Fill(p.chunk - 1)
  OBVIOUS
<1>8. lzo \in Seq(Bytes) /\ LzoChunk(lzo, p, piece)
  <2>0. PICK n \in Nat : n = p.chunk /\ n > 0
    BY <1>3
  <2>1. PICK w \in Seq(Bytes) : w = Word(n) /\ Len(w) = 4 /\ w[1] = Byte("word", n, << >>)
    BY WordFacts
  <2>2. PICK f \in Seq(Bytes) : f = Fill(n - 1) /\ Len(f) = n - 1
    <3>1. n - 1 \in Nat
      BY <2>0
    <3> QED
      BY <3>1, ByteFacts, FillFacts
  <2>3. PICK b \in Bytes : b = Byte("lzo", n, piece)
    BY ByteFacts
  <2>4. PICK o : o = <<b>>
    OBVIOUS
  <2>5. o \in Seq(Bytes) /\ Len(o) = 1 /\ o[1] = b
    BY <2>4
  <2>6. PICK u : u = w \o o
    OBVIOUS
  <2>7. /\ u \in Seq(Bytes) /\ Len(u) = 5
        /\ \A i \in 1 .. 4 : u[i] = w[i]
        /\ \A i \in 1 .. 1 : u[4 + i] = o[i]
    <3>1. /\ u \in Seq(Bytes) /\ Len(u) = Len(w) + Len(o)
          /\ \A i \in 1 .. Len(w) : u[i] = w[i]
          /\ \A i \in 1 .. Len(o) : u[Len(w) + i] = o[i]
      <4>1. o \in Seq(Bytes)
        BY <2>5
      <4> QED
        BY <2>6, <4>1, Both
    <3> QED
      BY <2>1, <2>5, <3>1
  <2>8. lzo = u \o f
    BY <1>7, <2>0, <2>1, <2>2, <2>3, <2>4, <2>6
  <2>9. /\ lzo \in Seq(Bytes) /\ Len(lzo) = 5 + (n - 1)
        /\ \A i \in 1 .. 5 : lzo[i] = u[i]
    <3>1. /\ lzo \in Seq(Bytes) /\ Len(lzo) = Len(u) + Len(f)
          /\ \A i \in 1 .. Len(u) : lzo[i] = u[i]
      <4>1. u \in Seq(Bytes)
        BY <2>7
      <4> QED
        BY <2>8, <4>1, Both
    <3> QED
      BY <2>2, <2>7, <3>1
  <2>10. Len(lzo) = 4 + n /\ lzo[1] = Byte("word", n, << >>) /\ lzo[5] = Byte("lzo", n, piece)
    <3>1. u[1] = w[1] /\ u[5] = o[1]
      BY <2>7
    <3> QED
      BY <2>0, <2>1, <2>3, <2>5, <2>9, <3>1
  <2> QED
    BY <2>0, <2>9, <2>10 DEF LzoChunk
<1>9. CASE k \in p.raw /\ (Len(piece) = MAX_CHUNK_SIZE \/ tail)
  <2>1. c = raw
    BY <1>1, <1>2, <1>5, <1>9, Zenon DEF Chunk
  <2> QED
    BY <1>6, <1>9, <2>1, Zenon
<1>10. CASE ~(k \in p.raw /\ (Len(piece) = MAX_CHUNK_SIZE \/ tail))
  <2>1. c = lzo
    BY <1>7, <1>10, Zenon DEF Chunk
  <2> QED
    BY <1>8, <2>1, Zenon
<1> QED
  BY <1>9, <1>10

(* A chunk aligned to words, and the zeros before it. *)
LEMMA GroupFacts ==
  ASSUME NEW z \in Nat, NEW c \in Seq(Bytes), NEW g, g = Zeros(z) \o Aligned(c)
  PROVE  /\ g \in Seq(Bytes) /\ Len(g) = z + AlignUp(Len(c))
         /\ \A i \in 1 .. z : g[i] = Zero
         /\ \A i \in 1 .. Len(c) : g[z + i] = c[i]
<1>1. PICK f \in Seq(Bytes) : f = Zeros(z) /\ Len(f) = z /\ \A i \in 1 .. z : f[i] = Zero
  BY ByteFacts, FillFacts
<1>2. PICK a \in Seq(Bytes) : a = Aligned(c) /\ Len(a) = AlignUp(Len(c)) /\ \A i \in 1 .. Len(c) : a[i] = c[i]
  BY AlignedFacts
<1>3. g = f \o a
  BY <1>1, <1>2
<1>4. /\ g \in Seq(Bytes) /\ Len(g) = Len(f) + Len(a)
      /\ \A i \in 1 .. Len(f) : g[i] = f[i]
      /\ \A i \in 1 .. Len(a) : g[Len(f) + i] = a[i]
  BY <1>3, Both
<1>5. Len(c) \in Nat /\ AlignUp(Len(c)) \in Len(c) .. Len(c) + 3
  BY AlignFacts
<1>6. \A i \in 1 .. Len(c) : i \in 1 .. Len(a)
  BY <1>2, <1>5
<1> QED
  BY <1>1, <1>2, <1>4, <1>6

(* The byte at place j is b, if there is one. *)
InPlace(t, j, b) == j \in 1 .. Len(t) => t[j] = b

(* t, but for its last bytes, is s packed: group k + 1 at place at[k], with *)
(* the chunk cs[k + 1].                                                     *)
GroupIn(t, p, s, at, cs, k) ==
  /\ at[k + 1] = at[k] + 4 * p.zeros + AlignUp(Len(cs[k + 1]))
  /\ cs[k + 1] \in Seq(Bytes)
  /\ RawChunk(cs[k + 1], k + 1, Pieces(s)[k + 1]) \/ LzoChunk(cs[k + 1], p, Pieces(s)[k + 1])
  /\ \A i \in 1 .. 4 * p.zeros : InPlace(t, at[k] + i, Zero)
  /\ \A i \in 1 .. Len(cs[k + 1]) : InPlace(t, at[k] + 4 * p.zeros + i, cs[k + 1][i])

IsPacking(t, p, s, at, cs) ==
  /\ at[0] = 8 /\ Len(t) <= at[Len(Pieces(s))] /\ at[Len(Pieces(s))] <= Len(t) + 5
  /\ \A k \in 0 .. Len(Pieces(s)) : at[k] \in 8 .. at[Len(Pieces(s))] /\ at[k] % 4 = 0
  /\ \A k \in Nat : k + 1 \in 1 .. Len(Pieces(s)) => GroupIn(t, p, s, at, cs, k)

(* Nothing is missing, and only whole pieces are not compressed. *)
IsExact(t, s, at, cs) ==
  /\ Len(t) = at[Len(Pieces(s))]
  /\ \A k \in Nat : k + 1 \in 1 .. Len(Pieces(s)) =>
       (RawChunk(cs[k + 1], k + 1, Pieces(s)[k + 1]) => Len(Pieces(s)[k + 1]) = MAX_CHUNK_SIZE)

ChunksOf(p, tail, s) == [k \in DOMAIN Pieces(s) |-> Chunk(p, tail, k, Pieces(s)[k])]

LEMMA ChunksFacts ==
  ASSUME NEW p \in Packings, NEW tail \in BOOLEAN, NEW s \in Seq(RawBytes), NEW cs,
         cs = ChunksOf(p, tail, s), NEW k \in Nat, k + 1 \in 1 .. Len(Pieces(s))
  PROVE  /\ cs[k + 1] \in Seq(Bytes)
         /\ RawChunk(cs[k + 1], k + 1, Pieces(s)[k + 1]) \/ LzoChunk(cs[k + 1], p, Pieces(s)[k + 1])
         /\ ~tail /\ RawChunk(cs[k + 1], k + 1, Pieces(s)[k + 1]) => Len(Pieces(s)[k + 1]) = MAX_CHUNK_SIZE
         /\ Len(cs[k + 1]) >= 5
<1>1. PICK piece \in Seq(RawBytes) : piece = Pieces(s)[k + 1] /\ Len(piece) \in 1 .. MAX_CHUNK_SIZE
  BY PieceFacts DEF PieceOf
<1>2. k + 1 \in DOMAIN Pieces(s)
  BY PieceCount
<1>3. PICK c : c = Chunk(p, tail, k + 1, piece)
  OBVIOUS
<1>4. cs[k + 1] = c
  BY <1>1, <1>2, <1>3, Zenon DEF ChunksOf
<1>5. PICK j \in Nat : j = k + 1
  OBVIOUS
<1>6. /\ c \in Seq(Bytes)
      /\ \/ RawChunk(c, j, piece) /\ (~tail => Len(piece) = MAX_CHUNK_SIZE)
         \/ LzoChunk(c, p, piece)
  BY <1>1, <1>3, <1>5, ChunkFacts
<1>7. p.chunk \in 1 .. MAX_CHUNK_SIZE - 1 /\ MAX_CHUNK_SIZE \in Nat /\ MAX_CHUNK_SIZE > 0
  BY ReaderAssumption
<1>8. ~(RawChunk(c, j, piece) /\ LzoChunk(c, p, piece))
  <2>1. RawChunk(c, j, piece) => Len(c) = 4 + MAX_CHUNK_SIZE
    BY DEF RawChunk
  <2>2. LzoChunk(c, p, piece) => Len(c) = 4 + p.chunk
    BY DEF LzoChunk
  <2> QED
    BY <1>7, <2>1, <2>2
<1>9. Len(c) >= 5
  <2>1. RawChunk(c, j, piece) => Len(c) = 4 + MAX_CHUNK_SIZE
    BY DEF RawChunk
  <2>2. LzoChunk(c, p, piece) => Len(c) = 4 + p.chunk
    BY DEF LzoChunk
  <2> QED
    BY <1>6, <1>7, <2>1, <2>2
<1>10. ~tail /\ RawChunk(c, j, piece) => Len(piece) = MAX_CHUNK_SIZE
  BY <1>6, <1>8, Zenon
<1> QED
  BY <1>1, <1>4, <1>5, <1>6, <1>9, <1>10, Zenon

GroupsOf(p, cs) == [k \in DOMAIN cs |-> Zeros(4 * p.zeros) \o Aligned(cs[k])]

LEMMA GroupRow ==
  ASSUME NEW p \in Packings, NEW n \in Nat, NEW cs, DOMAIN cs = 1 .. n,
         \A k \in 1 .. n : cs[k] \in Seq(Bytes), NEW ss, ss = GroupsOf(p, cs),
         NEW z \in Nat, z = 4 * p.zeros
  PROVE  /\ ss \in Seq(Seq(Bytes)) /\ Len(ss) = n
         /\ \A k \in 1 .. n : /\ ss[k] \in Seq(Bytes) /\ Len(ss[k]) = z + AlignUp(Len(cs[k]))
                              /\ \A i \in 1 .. z : ss[k][i] = Zero
                              /\ \A i \in 1 .. Len(cs[k]) : ss[k][z + i] = cs[k][i]
<1>1. DOMAIN ss = 1 .. n /\ ss = [k \in 1 .. n |-> ss[k]]
  BY DEF GroupsOf
<1>2. \A k \in 1 .. n : ss[k] = Zeros(z) \o Aligned(cs[k])
  BY DEF GroupsOf
<1>3. \A k \in 1 .. n : /\ ss[k] \in Seq(Bytes) /\ Len(ss[k]) = z + AlignUp(Len(cs[k]))
                        /\ \A i \in 1 .. z : ss[k][i] = Zero
                        /\ \A i \in 1 .. Len(cs[k]) : ss[k][z + i] = cs[k][i]
  BY <1>2, GroupFacts
<1>4. ss \in Seq(Seq(Bytes)) /\ Len(ss) = n
  <2> DEFINE U == Seq(Bytes)
  <2>1. \A k \in 1 .. n : ss[k] \in U
    BY <1>3
  <2> HIDE DEF U
  <2>2. ss \in Seq(U) /\ Len(ss) = n
    BY <1>1, <2>1
  <2> QED
    BY <2>2 DEF U
<1> QED
  BY <1>3, <1>4

LEMMA Fours ==
  /\ \A a \in Nat : (4 * a) \in Nat /\ (4 * a) % 4 = 0
  /\ \A a, b \in Nat : a % 4 = 0 /\ b % 4 = 0 => (a + b) % 4 = 0
<1>1. \A a \in Nat : (4 * a) \in Nat /\ (4 * a) % 4 = 0
  OBVIOUS
<1>2. \A a, b \in Nat : a % 4 = 0 /\ b % 4 = 0 => (a + b) % 4 = 0
  OBVIOUS
<1> QED
  BY <1>1, <1>2

LEMMA AlignUpFacts ==
  \A n \in Nat : AlignUp(n) \in Nat /\ AlignUp(n) >= n /\ AlignUp(n) <= n + 3 /\ AlignUp(n) % 4 = 0
<1> SUFFICES ASSUME NEW n \in Nat
             PROVE  AlignUp(n) \in Nat /\ AlignUp(n) >= n /\ AlignUp(n) <= n + 3 /\ AlignUp(n) % 4 = 0
  OBVIOUS
<1>1. AlignUp(n) \in n .. n + 3 /\ AlignUp(n) % 4 = 0
  BY AlignFacts
<1> QED
  BY <1>1

(* All groups begin at a word. *)
LEMMA GroupsAligned ==
  ASSUME NEW ss \in Seq(Seq(Bytes)), \A k \in 1 .. Len(ss) : Len(ss[k]) % 4 = 0
  PROVE  \A k \in 0 .. Len(ss) : Start(ss, k) % 4 = 0
<1> DEFINE S == {k \in Nat : k <= Len(ss) => Start(ss, k) % 4 = 0}
<1>0. PICK n \in Nat : n = Len(ss)
  OBVIOUS
<1>1. 0 \in S
  <2>1. Start(ss, 0) = 0
    BY FlattenAt
  <2> QED
    BY <2>1
<1>2. ASSUME NEW k \in Nat, k \in S
      PROVE  k + 1 \in S
  <2> SUFFICES ASSUME k + 1 <= n PROVE Start(ss, k + 1) % 4 = 0
    BY <1>0
  <2>1. Start(ss, k) % 4 = 0 /\ k \in 0 .. Len(ss) /\ k + 1 \in 1 .. Len(ss)
    BY <1>0, <1>2
  <2>2. Start(ss, k) \in 0 .. Len(FlattenSeq(ss)) /\ FlattenSeq(ss) \in Seq(Bytes)
    BY <2>1, FlattenAt
  <2>3. PICK a \in Nat : a = Start(ss, k)
    <3>1. Len(FlattenSeq(ss)) \in Nat
      BY <2>2
    <3> QED
      BY <2>2, <3>1
  <2>4. Start(ss, k + 1) = Start(ss, k) + Len(ss[k + 1]) /\ ss[k + 1] \in Seq(Bytes)
    BY <2>1, FlattenAt
  <2>5. PICK b \in Nat : b = Len(ss[k + 1])
    BY <2>4
  <2>6. b % 4 = 0
    BY <2>1, <2>5
  <2>7. (a + b) % 4 = 0
    BY <2>1, <2>3, <2>6, Fours
  <2> QED
    BY <2>3, <2>4, <2>5, <2>7
<1>3. Nat \subseteq S
  <2> HIDE DEF S
  <2> QED
    BY <1>1, <1>2, NatSetInduction
<1> QED
  BY <1>0, <1>3

LEMMA PackedFacts ==
  ASSUME NEW p \in Packings, NEW tail \in BOOLEAN, NEW s \in Seq(RawBytes), Len(s) > 0,
         NEW t, t = Packed(p, tail, s)
  PROVE  /\ t \in Seq(Bytes) /\ Len(t) >= 13
         /\ \A i \in 1 .. 4 : t[i] = Magic[i]
         /\ t[5] = Byte("word", Len(s), << >>)
         /\ \E at, cs : /\ IsPacking(t, p, s, at, cs) /\ Len(t) = at[Len(Pieces(s))]
                        /\ ~tail => IsExact(t, s, at, cs)
<1>1. PICK n \in Nat : n = Len(Pieces(s))
  BY PieceCount
<1>2. DOMAIN Pieces(s) = 1 .. n /\ n >= 1
  <2>1. 0 + 1 \in 1 .. Len(Pieces(s))
    BY BeforeFacts, PieceCount
  <2> QED
    BY <1>1, <2>1, PieceCount
<1>3. PICK z \in Nat : z = 4 * p.zeros /\ z % 4 = 0
  <2>1. p.zeros \in Nat
    BY ReaderAssumption
  <2> QED
    BY <2>1, Fours
<1>4. PICK cs : cs = ChunksOf(p, tail, s)
  OBVIOUS
<1>5. DOMAIN cs = 1 .. n
  BY <1>2, <1>4 DEF ChunksOf
<1>6. \A k \in Nat : k + 1 \in 1 .. n =>
        /\ cs[k + 1] \in Seq(Bytes)
        /\ RawChunk(cs[k + 1], k + 1, Pieces(s)[k + 1]) \/ LzoChunk(cs[k + 1], p, Pieces(s)[k + 1])
        /\ ~tail /\ RawChunk(cs[k + 1], k + 1, Pieces(s)[k + 1]) => Len(Pieces(s)[k + 1]) = MAX_CHUNK_SIZE
        /\ Len(cs[k + 1]) >= 5
  BY <1>1, <1>4, ChunksFacts
<1>7. \A k \in 1 .. n : cs[k] \in Seq(Bytes)
  <2> TAKE k \in 1 .. n
  <2>1. PICK j \in Nat : k = j + 1
    <3>1. k - 1 \in Nat /\ k = (k - 1) + 1
      OBVIOUS
    <3> QED
      BY <3>1
  <2> QED
    BY <1>6, <2>1
<1>8. PICK ss : ss = GroupsOf(p, cs)
  OBVIOUS
<1>9. /\ ss \in Seq(Seq(Bytes)) /\ Len(ss) = n
      /\ \A k \in 1 .. n : /\ ss[k] \in Seq(Bytes) /\ Len(ss[k]) = z + AlignUp(Len(cs[k]))
                           /\ \A i \in 1 .. z : ss[k][i] = Zero
                           /\ \A i \in 1 .. Len(cs[k]) : ss[k][z + i] = cs[k][i]
  <2>1. z \in Nat /\ z = 4 * p.zeros /\ n \in Nat
    BY <1>3
  <2> QED
    BY <1>5, <1>7, <1>8, <2>1, GroupRow
<1>10. \A k \in 0 .. n : Start(ss, k) % 4 = 0
  <2>1. \A k \in 1 .. n : Len(ss[k]) % 4 = 0
    <3> TAKE k \in 1 .. n
    <3>1. PICK l \in Nat : l = Len(cs[k])
      BY <1>7
    <3>2. PICK a \in Nat : a = AlignUp(l) /\ a % 4 = 0
      BY AlignUpFacts
    <3>3. (z + a) % 4 = 0
      BY <1>3, <3>2, Fours
    <3> QED
      BY <1>9, <3>1, <3>2, <3>3
  <2> QED
    BY <1>9, <2>1, GroupsAligned
<1>11. PICK flat \in Seq(Bytes) : flat = FlattenSeq(ss)
  BY <1>9, FlattenAt
<1>12. PICK h : h = Magic \o Word(Len(s))
  OBVIOUS
<1>13. t = h \o flat
  <2>1. ss = [k \in DOMAIN Pieces(s) |->
                Zeros(4 * p.zeros) \o Aligned(Chunk(p, tail, k, Pieces(s)[k]))]
    BY <1>4, <1>8, Zenon DEF GroupsOf, ChunksOf
  <2> QED
    BY <1>11, <1>12, <2>1, Zenon DEF Packed
<1>14. /\ h \in Seq(Bytes) /\ Len(h) = 8 /\ \A i \in 1 .. 4 : h[i] = Magic[i]
       /\ h[5] = Byte("word", Len(s), << >>)
  <2>1. PICK a \in Seq(Bytes) : a = Magic /\ Len(a) = 4
    BY MagicFacts
  <2>2. PICK w \in Seq(Bytes) : w = Word(Len(s)) /\ Len(w) = 4 /\ w[1] = Byte("word", Len(s), << >>)
    <3>1. Len(s) \in Nat
      OBVIOUS
    <3> QED
      BY <3>1, WordFacts
  <2>3. h = a \o w
    BY <1>12, <2>1, <2>2
  <2>4. /\ h \in Seq(Bytes) /\ Len(h) = Len(a) + Len(w)
        /\ \A i \in 1 .. Len(a) : h[i] = a[i]
        /\ \A i \in 1 .. Len(w) : h[Len(a) + i] = w[i]
    BY <2>3, Both
  <2>5. h[4 + 1] = w[1]
    BY <2>1, <2>2, <2>4
  <2> QED
    BY <2>1, <2>2, <2>4, <2>5
<1>15. /\ t \in Seq(Bytes) /\ Len(t) = 8 + Len(flat) /\ Len(flat) \in Nat
       /\ \A i \in 1 .. 8 : t[i] = h[i]
       /\ \A i \in 1 .. Len(flat) : t[8 + i] = flat[i]
  <2>1. /\ t \in Seq(Bytes) /\ Len(t) = Len(h) + Len(flat) /\ Len(flat) \in Nat
        /\ \A i \in 1 .. Len(h) : t[i] = h[i]
        /\ \A i \in 1 .. Len(flat) : t[Len(h) + i] = flat[i]
    <3>1. h \in Seq(Bytes)
      BY <1>14
    <3> QED
      BY <1>13, <3>1, Both
  <2> QED
    BY <1>14, <2>1
<1>16. /\ Start(ss, 0) = 0 /\ Start(ss, n) = Len(flat)
       /\ \A k \in 0 .. n : Start(ss, k) \in 0 .. Len(flat)
       /\ \A k \in Nat : k + 1 \in 1 .. n =>
              /\ Start(ss, k + 1) = Start(ss, k) + Len(ss[k + 1])
              /\ \A i \in 1 .. Len(ss[k + 1]) : flat[Start(ss, k) + i] = ss[k + 1][i]
  <2>1. \A q : q = n => Start(ss, q) = Len(FlattenSeq(ss))
    BY <1>9, FlattenAt
  <2> QED
    BY <1>9, <1>11, <2>1, FlattenAt
<1>17. PICK at : at = [k \in 0 .. n |-> 8 + Start(ss, k)]
  OBVIOUS
<1>18. /\ at[0] = 8 /\ at[n] = Len(t)
       /\ \A k \in 0 .. n : at[k] = 8 + Start(ss, k) /\ at[k] \in 8 .. at[n] /\ at[k] % 4 = 0
  <2>1. \A k \in 0 .. n : at[k] = 8 + Start(ss, k)
    BY <1>17
  <2>2. 0 \in 0 .. n /\ n \in 0 .. n
    OBVIOUS
  <2>3. at[0] = 8 /\ at[n] = Len(t)
    BY <1>15, <1>16, <2>1, <2>2
  <2>4. \A k \in 0 .. n : at[k] \in 8 .. at[n]
    BY <1>15, <1>16, <2>1, <2>3
  <2>5. \A k \in 0 .. n : at[k] % 4 = 0
    <3> TAKE k \in 0 .. n
    <3>1. PICK a \in Nat : a = Start(ss, k) /\ a % 4 = 0
      BY <1>10, <1>15, <1>16
    <3>2. 8 % 4 = 0 /\ 8 \in Nat
      OBVIOUS
    <3>3. (8 + a) % 4 = 0
      BY <3>1, <3>2, Fours
    <3> QED
      BY <2>1, <3>1, <3>3
  <2> QED
    BY <2>1, <2>3, <2>4, <2>5
<1>19. ASSUME NEW k \in Nat, k + 1 \in 1 .. n
       PROVE  GroupIn(t, p, s, at, cs, k)
  <2>1. PICK a \in Nat : a = Start(ss, k)
    <3>1. k \in 0 .. n
      BY <1>19
    <3> QED
      BY <1>15, <1>16, <3>1
  <2>2. PICK g \in Seq(Bytes) : g = ss[k + 1]
    BY <1>9, <1>19
  <2>3. PICK c \in Seq(Bytes) : c = cs[k + 1] /\ Len(c) >= 5
    BY <1>6, <1>19
  <2>4. PICK e \in Nat : e = AlignUp(Len(c)) /\ e >= Len(c)
    <3>1. Len(c) \in Nat
      OBVIOUS
    <3> QED
      BY <3>1, AlignFacts
  <2>5. /\ Len(g) = z + e
        /\ \A i \in 1 .. z : g[i] = Zero
        /\ \A i \in 1 .. Len(c) : g[z + i] = c[i]
    BY <1>9, <1>19, <2>2, <2>3, <2>4
  <2>6. at[k] = 8 + a /\ at[k + 1] = 8 + (a + (z + e))
    <3>1. k \in 0 .. n /\ k + 1 \in 0 .. n
      BY <1>19
    <3>2. Start(ss, k + 1) = a + Len(g)
      BY <1>16, <1>19, <2>1, <2>2
    <3> QED
      BY <1>18, <2>1, <2>5, <3>1, <3>2
  <2>7. \A i \in 1 .. z + e : t[8 + (a + i)] = g[i]
    <3> TAKE i \in 1 .. z + e
    <3>1. flat[a + i] = g[i]
      BY <1>16, <1>19, <2>1, <2>2, <2>5
    <3>2. a + (z + e) <= Len(flat)
      <4>1. k + 1 \in 0 .. n
        BY <1>19
      <4>2. Start(ss, k + 1) = a + Len(g)
        BY <1>16, <1>19, <2>1, <2>2
      <4> QED
        BY <1>15, <1>16, <2>5, <4>1, <4>2
    <3>3. a + i \in 1 .. Len(flat)
      BY <1>15, <3>2
    <3> QED
      BY <1>15, <3>1, <3>3
  <2>8. \A i \in 1 .. z : InPlace(t, at[k] + i, Zero)
    <3> TAKE i \in 1 .. z
    <3>1. at[k] + i = 8 + (a + i) /\ i \in 1 .. z + e
      BY <2>6
    <3> QED
      BY <2>5, <2>7, <3>1 DEF InPlace
  <2>9. \A i \in 1 .. Len(c) : InPlace(t, at[k] + z + i, c[i])
    <3> TAKE i \in 1 .. Len(c)
    <3>1. at[k] + z + i = 8 + (a + (z + i)) /\ z + i \in 1 .. z + e
      BY <2>4, <2>6
    <3> QED
      BY <2>5, <2>7, <3>1 DEF InPlace
  <2>10. at[k + 1] = at[k] + z + AlignUp(Len(c))
    BY <2>4, <2>6
  <2>11. RawChunk(c, k + 1, Pieces(s)[k + 1]) \/ LzoChunk(c, p, Pieces(s)[k + 1])
    BY <1>6, <1>19, <2>3
  <2> QED
    BY <1>3, <2>3, <2>8, <2>9, <2>10, <2>11 DEF GroupIn
<1>20. IsPacking(t, p, s, at, cs)
  <2>1. at[n] = Len(t) /\ Len(t) \in Nat
    BY <1>15, <1>18
  <2>2. Len(t) <= at[n] /\ at[n] <= Len(t) + 5
    BY <2>1
  <2> QED
    BY <1>1, <1>18, <1>19, <2>2 DEF IsPacking
<1>21. ~tail => IsExact(t, s, at, cs)
  BY <1>1, <1>6, <1>18, Zenon DEF IsExact
<1>22. Len(t) >= 13
  <2>1. 0 + 1 \in 1 .. n /\ 0 \in Nat /\ 0 \in 0 .. n /\ 0 + 1 \in 0 .. n
    BY <1>2
  <2>2. Len(cs[0 + 1]) >= 5 /\ cs[0 + 1] \in Seq(Bytes)
    BY <1>6, <2>1
  <2>3. PICK l \in Nat : l = Len(cs[0 + 1]) /\ l >= 5
    BY <2>2
  <2>4. AlignUp(l) \in Nat /\ AlignUp(l) >= 5
    <3>1. AlignUp(l) \in Nat /\ AlignUp(l) >= l
      BY AlignUpFacts
    <3> QED
      BY <2>3, <3>1
  <2>6. Len(ss[0 + 1]) >= 5 /\ Len(ss[0 + 1]) \in Nat
    <3>1. Len(ss[0 + 1]) = z + AlignUp(l)
      BY <1>9, <2>1, <2>3
    <3> QED
      BY <2>4, <3>1
  <2>5. Start(ss, 0 + 1) = Start(ss, 0) + Len(ss[0 + 1])
    BY <1>16, <2>1
  <2> QED
    BY <1>15, <1>16, <2>1, <2>6, <2>5
<1>23. t[5] = Byte("word", Len(s), << >>) /\ \A i \in 1 .. 4 : t[i] = Magic[i]
  BY <1>14, <1>15
<1>24. \E a, c : IsPacking(t, p, s, a, c) /\ Len(t) = a[n] /\ (~tail => IsExact(t, s, a, c))
  BY <1>18, <1>20, <1>21, Zenon
<1> QED
  BY <1>1, <1>15, <1>22, <1>23, <1>24, Zenon

(* The beginning of a sequence. *)
LEMMA CutFacts ==
  ASSUME NEW T, NEW t \in Seq(T), NEW e \in Nat, e <= Len(t), NEW u, u = SubSeq(t, 1, e)
  PROVE  u \in Seq(T) /\ Len(u) = e /\ \A i \in 1 .. e : u[i] = t[i]
<1>1. 1 \in Int /\ e \in Int /\ \A i \in 1 .. e : t[i] \in T
  OBVIOUS
<1>2. /\ u \in Seq(T) /\ Len(u) = IF 1 <= e THEN e - 1 + 1 ELSE 0
      /\ \A i \in 1 .. e - 1 + 1 : u[i] = t[1 + i - 1]
  BY <1>1, SubSeqProperties
<1>3. Len(u) = e
  BY <1>2
<1>4. \A i \in 1 .. e : i \in 1 .. e - 1 + 1 /\ 1 + i - 1 = i
  OBVIOUS
<1> QED
  BY <1>2, <1>3, <1>4

LEMMA CutPacking ==
  ASSUME NEW t, NEW p, NEW s, NEW at, NEW cs, IsPacking(t, p, s, at, cs),
         Len(t) \in Nat, Len(t) = at[Len(Pieces(s))],
         NEW u, Len(u) \in Nat, Len(u) <= Len(t), Len(t) <= Len(u) + 5,
         \A i \in 1 .. Len(u) : u[i] = t[i]
  PROVE  IsPacking(u, p, s, at, cs)
<1>1. \A j, b : InPlace(t, j, b) => InPlace(u, j, b)
  BY DEF InPlace
<1>2. ASSUME NEW k \in Nat, GroupIn(t, p, s, at, cs, k)
      PROVE  GroupIn(u, p, s, at, cs, k)
  BY <1>1, <1>2, Zenon DEF GroupIn
<1> QED
  BY <1>2 DEF IsPacking

-----------------------------------------------------------------------------
(* The reader among the chunks of a packed archive: at the jth word of     *)
(* zeros before chunk k + 1, or at the chunk if there are j.               *)

AtChunk(s, p, at, cs, k, j) ==
  /\ k + 1 \in 1 .. Len(Pieces(s)) /\ j <= p.zeros
  /\ input \in Seq(Bytes) /\ IsPacking(input, p, s, at, cs)
  /\ intact => IsExact(input, s, at, cs)
  /\ seek = at[k] + 4 * j /\ seek <= Len(input) + 3
  /\ output = Before(k)
  /\ plain \in Seq(RawBytes) /\ Len(plain) = Len(s)
  /\ \A i \in 1 .. output : plain[i] = s[i]

(* What is known of the places at chunk k + 1. *)
LEMMA PlacesFacts ==
  ASSUME NEW s \in Seq(RawBytes), NEW p \in Packings, NEW at, NEW cs, NEW k \in Nat, NEW j \in Nat,
         AtChunk(s, p, at, cs, k, j)
  PROVE  /\ seek \in Nat /\ at[k] \in Nat /\ at[k] % 4 = 0 /\ p.zeros \in Nat
         /\ GroupIn(input, p, s, at, cs, k)
         /\ at[k + 1] \in Nat /\ at[k + 1] <= at[Len(Pieces(s))] /\ at[Len(Pieces(s))] \in Nat
         /\ Len(input) \in Nat /\ Len(plain) \in Nat /\ output \in Nat
<1>1. p.zeros \in Nat
  BY ReaderAssumption
<1>2. PICK n \in Nat : n = Len(Pieces(s))
  BY PieceCount
<1>3. /\ k + 1 \in 1 .. n /\ input \in Seq(Bytes) /\ plain \in Seq(RawBytes)
      /\ IsPacking(input, p, s, at, cs) /\ seek = at[k] + 4 * j /\ output = Before(k)
  BY <1>2 DEF AtChunk
<1>4. Len(input) \in Nat /\ Len(plain) \in Nat
  BY <1>3
<1>5. k \in 0 .. n /\ k + 1 \in 0 .. n /\ n \in 0 .. n
  BY <1>3
<1>6. /\ Len(input) <= at[n] /\ at[n] <= Len(input) + 5
      /\ \A i \in 0 .. n : at[i] \in 8 .. at[n] /\ at[i] % 4 = 0
  BY <1>2, <1>3 DEF IsPacking
<1>7. at[n] \in 8 .. at[n] /\ at[k] \in 8 .. at[n] /\ at[k + 1] \in 8 .. at[n] /\ at[k] % 4 = 0
  BY <1>5, <1>6
<1>8. at[n] \in Nat /\ at[k] \in Nat /\ at[k + 1] \in Nat /\ at[k + 1] <= at[n]
  <2>1. PICK e : e = at[n]
    OBVIOUS
  <2>2. e \in 8 .. e
    BY <1>7, <2>1
  <2>3. e \in Nat
    BY <2>2
  <2> QED
    BY <1>7, <2>1, <2>3
<1>9. GroupIn(input, p, s, at, cs, k)
  BY <1>2, <1>3 DEF IsPacking
<1>10. Before(k) \in Nat
  BY BeforeFacts
<1> QED
  BY <1>1, <1>2, <1>3, <1>4, <1>7, <1>8, <1>9, <1>10

LEMMA ZeroWord ==
  ASSUME NEW t \in Seq(Bytes), seek \in Nat, Ahead(t, 4), \A i \in 1 .. 4 : t[seek + i] = Zero
  PROVE  WordAt(t) = 0
<1>1. Here(t) = Zero
  BY DEF Here
<1>2. Zero[1] = "zero"
  BY DEF Zero, Byte
<1>3. PICK l \in Nat : l = Len(t) /\ seek + 4 <= l
  BY DEF Ahead
<1>4. PICK u : u = SubSeq(t, seek + 1, seek + 4)
  OBVIOUS
<1>5. seek + 1 \in Int /\ seek + 4 \in Int /\ \A i \in seek + 1 .. seek + 4 : t[i] \in Bytes
  BY <1>3
<1>6. /\ u \in Seq(Bytes) /\ Len(u) = IF seek + 1 <= seek + 4 THEN seek + 4 - (seek + 1) + 1 ELSE 0
      /\ \A i \in 1 .. seek + 4 - (seek + 1) + 1 : u[i] = t[seek + 1 + i - 1]
  BY <1>4, <1>5, SubSeqProperties
<1>7. \A i \in 1 .. 4 : i \in 1 .. seek + 4 - (seek + 1) + 1 /\ seek + 1 + i - 1 = seek + i
  OBVIOUS
<1>8. Len(u) = 4 /\ \A i \in 1 .. 4 : u[i] = Zero
  BY <1>6, <1>7
<1>9. u = Zeros(4)
  <2>1. Zeros(4) \in Seq(Bytes) /\ Len(Zeros(4)) = 4 /\ \A i \in 1 .. 4 : Zeros(4)[i] = Zero
    BY ByteFacts, FillFacts
  <2>2. Len(u) = Len(Zeros(4)) /\ \A i \in 1 .. Len(u) : u[i] = Zeros(4)[i]
    BY <1>8, <2>1
  <2> QED
    BY <1>6, <2>1, <2>2, SeqEqual
<1>10. Here(t)[1] # "word"
  BY <1>1, <1>2
<1> QED
  BY <1>4, <1>9, <1>10, Zenon DEF WordAt

(* Before the zeros have been passed a word of them is read. *)
LEMMA AtZero ==
  ASSUME NEW s \in Seq(RawBytes), NEW p \in Packings, NEW at, NEW cs, NEW k \in Nat, NEW j \in Nat,
         AtChunk(s, p, at, cs, k, j), j # p.zeros, Ahead(input, 4)
  PROVE  WordAt(input) = 0
<1>1. /\ seek \in Nat /\ at[k] \in Nat /\ p.zeros \in Nat /\ Len(input) \in Nat
      /\ GroupIn(input, p, s, at, cs, k)
  BY PlacesFacts
<1>2. input \in Seq(Bytes) /\ seek = at[k] + 4 * j /\ j <= p.zeros
  BY DEF AtChunk
<1>3. seek + 4 <= Len(input)
  BY DEF Ahead
<1>4. \A i \in 1 .. 4 * p.zeros : InPlace(input, at[k] + i, Zero)
  BY <1>1 DEF GroupIn
<1>5. \A i \in 1 .. 4 : input[seek + i] = Zero
  <2> TAKE i \in 1 .. 4
  <2>1. 4 * j + i \in 1 .. 4 * p.zeros
    BY <1>1, <1>2
  <2>2. seek + i = at[k] + (4 * j + i) /\ seek + i \in 1 .. Len(input)
    BY <1>1, <1>2, <1>3
  <2> QED
    BY <1>4, <2>1, <2>2 DEF InPlace
<1> QED
  BY <1>1, <1>2, <1>5, ZeroWord

LEMMA WordIs ==
  ASSUME NEW t, NEW v, t[seek + 1] = Byte("word", v, << >>)
  PROVE  WordAt(t) = v
<1>1. Here(t)[1] = "word" /\ Here(t)[2] = v
  BY DEF Here, Byte
<1> QED
  BY <1>1 DEF WordAt

(* Chunk c of a piece is at the reader: its word is the size of what follows, *)
(* or says that it is not compressed.                                        *)
HasChunk(c, p, piece, k) ==
  /\ WordAt(input) > 0 /\ ChunkSize \in Nat /\ 4 + ChunkSize = Len(c)
  /\ c \in Seq(Bytes)
  /\ RawChunk(c, k + 1, piece) \/ LzoChunk(c, p, piece)
  /\ RawChunk(c, k + 1, piece) => IsRaw
  /\ LzoChunk(c, p, piece) => ~IsRaw
  /\ \A i \in 1 .. Len(c) : seek + i <= Len(input) => input[seek + i] = c[i]

(* After the zeros the reader is at the chunk. *)
LEMMA AtWord ==
  ASSUME NEW s \in Seq(RawBytes), NEW p \in Packings, NEW at, NEW cs, NEW k \in Nat, NEW j \in Nat,
         AtChunk(s, p, at, cs, k, j), j = p.zeros, Ahead(input, 4)
  PROVE  HasChunk(cs[k + 1], p, Pieces(s)[k + 1], k)
<1> PICK c : c = cs[k + 1]
  OBVIOUS
<1> PICK piece : piece = Pieces(s)[k + 1]
  OBVIOUS
<1> SUFFICES HasChunk(c, p, piece, k)
  OBVIOUS
<1>1. /\ seek \in Nat /\ at[k] \in Nat /\ p.zeros \in Nat /\ Len(input) \in Nat
      /\ GroupIn(input, p, s, at, cs, k)
  BY PlacesFacts
<1>2. input \in Seq(Bytes) /\ seek = at[k] + 4 * p.zeros
  BY DEF AtChunk
<1>3. seek + 4 <= Len(input)
  BY DEF Ahead
<1>4. /\ c \in Seq(Bytes)
      /\ RawChunk(c, k + 1, piece) \/ LzoChunk(c, p, piece)
      /\ \A i \in 1 .. Len(c) : InPlace(input, at[k] + 4 * p.zeros + i, c[i])
  BY <1>1 DEF GroupIn
<1>5. \A i \in 1 .. Len(c) : seek + i <= Len(input) => input[seek + i] = c[i]
  <2> TAKE i \in 1 .. Len(c)
  <2> HAVE seek + i <= Len(input)
  <2>1. InPlace(input, seek + i, c[i])
    BY <1>2, <1>4
  <2>2. seek + i \in 1 .. Len(input)
    <3>1. Len(c) \in Nat
      BY <1>4
    <3> QED
      BY <1>1, <3>1
  <2> QED
    BY <2>1, <2>2 DEF InPlace
<1>6. MAX_CHUNK_SIZE \in Nat /\ p.chunk \in 1 .. MAX_CHUNK_SIZE - 1
  BY ReaderAssumption
<1>7. Len(c) >= 1 => input[seek + 1] = c[1]
  <2>1. Len(c) \in Nat
    BY <1>4
  <2>2. seek + 1 <= Len(input)
    BY <1>1, <1>3
  <2> QED
    BY <1>5, <2>1, <2>2
<1>8. CASE RawChunk(c, k + 1, piece)
  <2>1. c[1] = Byte("word", MAX_CHUNK_SIZE + (k + 1), << >>) /\ Len(c) = 4 + MAX_CHUNK_SIZE
    BY <1>8 DEF RawChunk
  <2>2. input[seek + 1] = Byte("word", MAX_CHUNK_SIZE + (k + 1), << >>)
    BY <1>6, <1>7, <2>1
  <2>3. WordAt(input) = MAX_CHUNK_SIZE + (k + 1)
    BY <2>2, WordIs
  <2>4. IsRaw
    BY <1>6, <2>3 DEF IsRaw
  <2>5. ChunkSize = MAX_CHUNK_SIZE
    BY <2>4 DEF ChunkSize
  <2>6. ~LzoChunk(c, p, piece)
    <3>1. LzoChunk(c, p, piece) => Len(c) = 4 + p.chunk
      BY DEF LzoChunk
    <3> QED
      BY <1>6, <2>1, <3>1
  <2> QED
    BY <1>4, <1>5, <1>6, <2>1, <2>3, <2>4, <2>5, <2>6 DEF HasChunk
<1>9. CASE LzoChunk(c, p, piece)
  <2>1. c[1] = Byte("word", p.chunk, << >>) /\ Len(c) = 4 + p.chunk
    BY <1>9 DEF LzoChunk
  <2>2. input[seek + 1] = Byte("word", p.chunk, << >>)
    BY <1>6, <1>7, <2>1
  <2>3. WordAt(input) = p.chunk
    BY <2>2, WordIs
  <2>4. ~IsRaw
    BY <1>6, <2>3 DEF IsRaw
  <2>5. ChunkSize = p.chunk
    BY <2>3, <2>4 DEF ChunkSize
  <2>6. ~RawChunk(c, k + 1, piece)
    <3>1. RawChunk(c, k + 1, piece) => Len(c) = 4 + MAX_CHUNK_SIZE
      BY DEF RawChunk
    <3> QED
      BY <1>6, <2>1, <3>1
  <2> QED
    BY <1>4, <1>5, <1>6, <2>1, <2>3, <2>4, <2>5, <2>6 DEF HasChunk
<1> QED
  BY <1>4, <1>8, <1>9

LEMMA PartFacts ==
  ASSUME NEW T, NEW t, NEW a \in Nat, NEW m \in Nat, \A i \in a + 1 .. a + m : t[i] \in T,
         NEW u, u = SubSeq(t, a + 1, a + m)
  PROVE  u \in Seq(T) /\ Len(u) = m /\ \A i \in 1 .. m : u[i] = t[a + i]
<1>2. a + 1 \in Int /\ a + m \in Int
  OBVIOUS
<1>3. PICK b \in Int : b = a + 1
  BY <1>2
<1>4. PICK e \in Int : e = a + m
  BY <1>2
<1>5. u = SubSeq(t, b, e) /\ \A i \in b .. e : t[i] \in T
  BY <1>3, <1>4
<1>6. /\ u \in Seq(T) /\ Len(u) = IF b <= e THEN e - b + 1 ELSE 0
      /\ \A i \in 1 .. e - b + 1 : u[i] = t[b + i - 1]
  BY <1>5, SubSeqProperties
<1>7. Len(u) = m /\ e - b + 1 = m
  BY <1>3, <1>4, <1>6
<1>8. \A i \in 1 .. m : b + i - 1 = a + i
  BY <1>3
<1> QED
  BY <1>6, <1>7, <1>8

(* What a chunk adds begins with its piece; only the last one may be longer. *)
AddsPiece(d, piece, c, k) ==
  /\ d \in Seq(Bytes) /\ Len(piece) <= Len(d)
  /\ \A i \in 1 .. Len(piece) : d[i] = piece[i]
  /\ Len(piece) # Len(d) => RawChunk(c, k + 1, piece) /\ Len(d) = MAX_CHUNK_SIZE

LEMMA ChunkRead ==
  ASSUME NEW s \in Seq(RawBytes), NEW p \in Packings, NEW at, NEW cs, NEW k \in Nat, NEW j \in Nat,
         AtChunk(s, p, at, cs, k, j), j = p.zeros, Ahead(input, 4), Ahead(input, 4 + ChunkSize),
         NEW c, c = cs[k + 1], NEW piece, piece = Pieces(s)[k + 1]
  PROVE  IsChunk /\ AddsPiece(ChunkData, piece, c, k)
<1>1. /\ seek \in Nat /\ Len(input) \in Nat /\ input \in Seq(Bytes)
  BY PlacesFacts DEF AtChunk
<1>2. /\ WordAt(input) > 0 /\ ChunkSize \in Nat /\ 4 + ChunkSize = Len(c)
      /\ c \in Seq(Bytes)
      /\ RawChunk(c, k + 1, piece) \/ LzoChunk(c, p, piece)
      /\ RawChunk(c, k + 1, piece) => IsRaw
      /\ LzoChunk(c, p, piece) => ~IsRaw
      /\ \A i \in 1 .. Len(c) : seek + i <= Len(input) => input[seek + i] = c[i]
  <2>1. HasChunk(cs[k + 1], p, Pieces(s)[k + 1], k)
    BY AtWord
  <2>2. HasChunk(c, p, piece, k)
    BY <2>1
  <2> QED
    BY <2>2, Zenon DEF HasChunk
<1>3. seek + Len(c) <= Len(input)
  BY <1>2 DEF Ahead
<1>4. \A i \in 1 .. Len(c) : input[seek + i] = c[i]
  <2>1. \A i \in 1 .. Len(c) : seek + i <= Len(input)
    BY <1>1, <1>2, <1>3
  <2> QED
    BY <1>2, <2>1
<1>5. /\ piece \in Seq(RawBytes) /\ piece \in Seq(Bytes) /\ Len(piece) \in 1 .. MAX_CHUNK_SIZE
  <2>1. k + 1 \in 1 .. Len(Pieces(s))
    BY DEF AtChunk
  <2>2. piece \in Seq(RawBytes) /\ PieceOf(piece, s, k)
    BY <2>1, PieceFacts
  <2> QED
    BY <2>2, ByteFacts DEF PieceOf
<1>6. PICK m \in Nat : m = MAX_CHUNK_SIZE
  BY ReaderAssumption
<1>7. CASE RawChunk(c, k + 1, piece)
  <2>1. Len(c) = 4 + m /\ \A i \in 1 .. Len(piece) : c[4 + i] = piece[i]
    BY <1>6, <1>7 DEF RawChunk
  <2>2. IsRaw
    BY <1>2, <1>7
  <2>3. IsChunk
    BY <1>2, <2>2 DEF IsChunk
  <2>4. PICK a \in Nat : a = seek + 4
    <3>1. seek + 4 \in Nat
      BY <1>1
    <3> QED
      BY <3>1, Zenon
  <2>12. PICK d : d = SubSeq(input, a + 1, a + m)
    OBVIOUS
  <2>6. d \in Seq(Bytes) /\ Len(d) = m /\ \A i \in 1 .. m : d[i] = input[a + i]
    <3>1. \A i \in a + 1 .. a + m : input[i] \in Bytes
      BY <1>1, <1>3, <1>6, <2>1, <2>4
    <3> QED
      BY <2>12, <3>1, PartFacts
  <2>5. ChunkData = d
    <3>1. seek + 5 = a + 1 /\ seek + 4 + m = a + m
      BY <1>1, <1>6, <2>4
    <3> QED
      BY <1>6, <2>2, <2>12, <3>1 DEF ChunkData
  <2>7. \A i \in 1 .. m : d[i] = c[4 + i]
    <3> TAKE i \in 1 .. m
    <3>1. a + i = seek + (4 + i)
      BY <1>1, <2>4
    <3>2. 4 + i \in 1 .. Len(c)
      BY <1>6, <2>1
    <3> QED
      BY <1>4, <2>6, <3>1, <3>2
  <2>8. Len(piece) <= m /\ Len(piece) \in Nat
    BY <1>5, <1>6
  <2>9. \A i \in 1 .. Len(piece) : i \in 1 .. m
    BY <2>8
  <2>10. \A i \in 1 .. Len(piece) : d[i] = piece[i]
    BY <2>1, <2>7, <2>9
  <2>11. AddsPiece(d, piece, c, k)
    BY <1>6, <1>7, <2>6, <2>8, <2>10 DEF AddsPiece
  <2> QED
    BY <2>3, <2>5, <2>11
<1>8. CASE LzoChunk(c, p, piece)
  <2>1. Len(c) = 4 + p.chunk /\ c[5] = Byte("lzo", p.chunk, piece) /\ ~IsRaw
    BY <1>2, <1>8 DEF LzoChunk
  <2>2. p.chunk \in Nat /\ p.chunk > 0
    BY ReaderAssumption
  <2>3. ChunkSize = p.chunk
    BY <1>2, <2>1, <2>2
  <2>4. input[seek + 5] = Byte("lzo", p.chunk, piece)
    <3>1. 5 \in 1 .. Len(c)
      BY <2>1, <2>2
    <3> QED
      BY <1>4, <2>1, <3>1
  <2>5. input[seek + 5][1] = "lzo" /\ input[seek + 5][2] = ChunkSize /\ input[seek + 5][3] = piece
    BY <2>3, <2>4 DEF Byte
  <2>6. IsChunk
    BY <1>2, <2>5 DEF IsChunk
  <2>7. ChunkData = piece
    BY <2>1, <2>5 DEF ChunkData
  <2>8. AddsPiece(piece, piece, c, k)
    BY <1>5 DEF AddsPiece
  <2> QED
    BY <2>6, <2>7, <2>8
<1> QED
  BY <1>2, <1>7, <1>8

-----------------------------------------------------------------------------
(* Archives as they are opened                                              *)

(* The header of f is at place n and its bytes after it, as far as t goes. *)
HoldsFile(t, n, f) ==
  /\ InPlace(t, n + 1, Byte("header", Size[f.data], <<f.name>>))
  /\ \A i \in 1 .. Size[f.data] : InPlace(t, n + header_size + i, Byte("data", i, <<f.data>>))

Holds(t, fs) ==
  /\ t \in Seq(RawBytes)
  /\ Len(t) <= Place(fs, Len(fs)) /\ Place(fs, Len(fs)) <= Len(t) + 1
  /\ \A k \in Nat : k + 1 \in 1 .. Len(fs) => HoldsFile(t, Place(fs, k), fs[k + 1])

(* An archive that is not packed, perhaps with another title or count. *)
AnyPlain(t, fs) ==
  Holds(t, fs) /\ \E m \in Titles : \E n \in Nat : t[1] = Byte("header", n, <<m>>)

WholePlain(t, name, fs) ==
  /\ Holds(t, fs) /\ Len(t) = Place(fs, Len(fs))
  /\ t[1] = Byte("header", Len(fs), <<name>>)

Opened(t, s) ==
  /\ t \in Seq(Bytes) /\ Len(t) >= 8
  /\ \A i \in 1 .. 4 : t[i] = Magic[i]
  /\ t[5] = Byte("word", Len(s), << >>)

AnyPacked(t, s) ==
  Opened(t, s) /\ \E p \in Packings : \E at, cs : IsPacking(t, p, s, at, cs)

WholePacked(t, s) ==
  /\ Opened(t, s)
  /\ \E p \in Packings : \E at, cs : IsPacking(t, p, s, at, cs) /\ IsExact(t, s, at, cs)

LEMMA PlaceFacts ==
  ASSUME NEW fs \in Seq(FileOnDisk), NEW m \in Titles
  PROVE  /\ Place(fs, 0) = header_size /\ header_size \in Nat /\ header_size > 4
         /\ \A k \in 0 .. Len(fs) : Place(fs, k) \in Nat /\ Place(fs, k) >= header_size
                                    /\ Place(fs, k) <= Place(fs, Len(fs))
         /\ \A k \in Nat : k + 1 \in 1 .. Len(fs) =>
              Place(fs, k + 1) = Place(fs, k) + header_size + Size[fs[k + 1].data]
<1>1. header_size \in Nat /\ header_size > 4
  BY ReaderAssumption
<1>2. 0 \in Nat
  OBVIOUS
<1>3. PICK s : s = Plain(m, 0, fs)
  OBVIOUS
<1>4. /\ s \in Seq(RawBytes) /\ Len(s) = Place(fs, Len(fs)) /\ Place(fs, 0) = header_size
      /\ \A k \in 0 .. Len(fs) : Place(fs, k) \in header_size .. Len(s)
      /\ \A k \in Nat : k + 1 \in 1 .. Len(fs) =>
           Place(fs, k + 1) = Place(fs, k) + header_size + Size[fs[k + 1].data]
  BY <1>2, <1>3, PlainFacts
<1>5. Len(s) \in Nat
  BY <1>4
<1> QED
  BY <1>1, <1>4, <1>5

LEMMA PlainHolds ==
  ASSUME NEW m \in Titles, NEW n \in Nat, NEW fs \in Seq(FileOnDisk), NEW s, s = Plain(m, n, fs)
  PROVE  /\ Holds(s, fs) /\ Len(s) = Place(fs, Len(fs)) /\ s[1] = Byte("header", n, <<m>>)
         /\ AnyPlain(s, fs) /\ Len(s) \in Nat /\ Len(s) > 4
<1>1. /\ s \in Seq(RawBytes) /\ Len(s) = Place(fs, Len(fs)) /\ s[1] = Byte("header", n, <<m>>)
      /\ \A k \in Nat : k + 1 \in 1 .. Len(fs) => FileAt(s, Place(fs, k), fs[k + 1])
      /\ \A k \in 0 .. Len(fs) : Place(fs, k) \in header_size .. Len(s)
  BY PlainFacts
<1>2. Len(s) \in Nat /\ header_size \in Nat /\ header_size > 4
  BY <1>1, ReaderAssumption
<1>3. \A k, f : FileAt(s, k, f) => HoldsFile(s, k, f)
  BY Zenon DEF FileAt, HoldsFile, InPlace
<1>4. Holds(s, fs)
  <2>1. Len(s) <= Place(fs, Len(fs)) /\ Place(fs, Len(fs)) <= Len(s) + 1
    BY <1>1, <1>2
  <2> QED
    BY <1>1, <1>3, <2>1 DEF Holds
<1>5. Len(s) > 4
  <2>1. Len(fs) \in 0 .. Len(fs)
    OBVIOUS
  <2>2. Place(fs, Len(fs)) \in header_size .. Len(s)
    BY <1>1, <2>1
  <2> QED
    BY <1>1, <1>2, <2>2
<1>6. AnyPlain(s, fs)
  BY <1>1, <1>4 DEF AnyPlain
<1> QED
  BY <1>1, <1>2, <1>4, <1>5, <1>6

LEMMA CutPlain ==
  ASSUME NEW m \in Titles, NEW n \in Nat, NEW fs \in Seq(FileOnDisk), NEW s, s = Plain(m, n, fs),
         NEW u, u = SubSeq(s, 1, Len(s) - 1)
  PROVE  AnyPlain(u, fs)
<1>1. /\ Holds(s, fs) /\ Len(s) = Place(fs, Len(fs)) /\ s[1] = Byte("header", n, <<m>>)
      /\ Len(s) \in Nat /\ Len(s) > 4
  BY PlainHolds
<1>2. s \in Seq(RawBytes)
  BY <1>1 DEF Holds
<1>3. u \in Seq(RawBytes) /\ Len(u) = Len(s) - 1 /\ \A i \in 1 .. Len(u) : u[i] = s[i]
  <2>1. PICK e \in Nat : e = Len(s) - 1 /\ e <= Len(s)
    <3>1. Len(s) - 1 \in Nat /\ Len(s) - 1 <= Len(s)
      BY <1>1
    <3> QED
      BY <3>1, Zenon
  <2>2. u = SubSeq(s, 1, e)
    BY <2>1
  <2>3. u \in Seq(RawBytes) /\ Len(u) = e /\ \A i \in 1 .. e : u[i] = s[i]
    BY <1>2, <2>1, <2>2, CutFacts
  <2> QED
    BY <2>1, <2>3
<1>4. \A i, b : InPlace(s, i, b) => InPlace(u, i, b)
  <2>1. \A i \in 1 .. Len(u) : i \in 1 .. Len(s)
    BY <1>1, <1>3
  <2> QED
    BY <1>3, <2>1 DEF InPlace
<1>5. \A k, f : HoldsFile(s, k, f) => HoldsFile(u, k, f)
  BY <1>4, Zenon DEF HoldsFile
<1>6. Holds(u, fs)
  <2>1. Len(u) <= Place(fs, Len(fs)) /\ Place(fs, Len(fs)) <= Len(u) + 1
    BY <1>1, <1>3
  <2> QED
    BY <1>1, <1>3, <1>5, <2>1 DEF Holds
<1>7. u[1] = Byte("header", n, <<m>>)
  <2>1. 1 \in 1 .. Len(u)
    BY <1>1, <1>3
  <2> QED
    BY <1>1, <1>3, <2>1
<1> QED
  BY <1>6, <1>7 DEF AnyPlain

LEMMA PackedOpens ==
  ASSUME NEW p \in Packings, NEW tail \in BOOLEAN, NEW s \in Seq(RawBytes), Len(s) > 0,
         NEW t, t = Packed(p, tail, s)
  PROVE  /\ AnyPacked(t, s) /\ (~tail => WholePacked(t, s))
         /\ \A n \in {1, 5} : AnyPacked(SubSeq(t, 1, Len(t) - n), s)
<1>1. /\ t \in Seq(Bytes) /\ Len(t) >= 13
      /\ \A i \in 1 .. 4 : t[i] = Magic[i]
      /\ t[5] = Byte("word", Len(s), << >>)
  BY PackedFacts
<1>2. \E at, cs : /\ IsPacking(t, p, s, at, cs) /\ Len(t) = at[Len(Pieces(s))]
                  /\ ~tail => IsExact(t, s, at, cs)
  BY PackedFacts
<1>3. PICK at, cs : /\ IsPacking(t, p, s, at, cs) /\ Len(t) = at[Len(Pieces(s))]
                    /\ ~tail => IsExact(t, s, at, cs)
  BY <1>2
<1>4. Len(t) \in Nat
  BY <1>1
<1>5. Opened(t, s)
  <2>1. Len(t) >= 8
    BY <1>1, <1>4
  <2> QED
    BY <1>1, <2>1 DEF Opened
<1>6. AnyPacked(t, s)
  BY <1>3, <1>5, Zenon DEF AnyPacked
<1>7. ~tail => WholePacked(t, s)
  BY <1>3, <1>5, Zenon DEF WholePacked
<1>8. ASSUME NEW n \in {1, 5}
      PROVE  AnyPacked(SubSeq(t, 1, Len(t) - n), s)
  <2>1. PICK u : u = SubSeq(t, 1, Len(t) - n)
    OBVIOUS
  <2>2. n \in Nat /\ n <= 5 /\ n <= Len(t)
    BY <1>1, <1>4
  <2>3. u \in Seq(Bytes) /\ Len(u) = Len(t) - n /\ \A i \in 1 .. Len(u) : u[i] = t[i]
    <3>1. PICK e \in Nat : e = Len(t) - n /\ e <= Len(t)
      <4>1. Len(t) - n \in Nat /\ Len(t) - n <= Len(t)
        BY <1>4, <2>2
      <4> QED
        BY <4>1, Zenon
    <3>2. u = SubSeq(t, 1, e)
      BY <2>1, <3>1
    <3>3. u \in Seq(Bytes) /\ Len(u) = e /\ \A i \in 1 .. e : u[i] = t[i]
      BY <1>1, <3>1, <3>2, CutFacts
    <3> QED
      BY <3>1, <3>3
  <2>4. Len(u) \in Nat /\ Len(u) <= Len(t) /\ Len(t) <= Len(u) + 5 /\ Len(u) >= 8
    BY <1>1, <1>4, <2>2, <2>3
  <2>5. IsPacking(u, p, s, at, cs)
    BY <1>3, <1>4, <2>3, <2>4, CutPacking
  <2>6. \A i \in 1 .. 5 : u[i] = t[i]
    BY <2>3, <2>4
  <2>7. Opened(u, s)
    BY <1>1, <2>3, <2>4, <2>6 DEF Opened
  <2>8. AnyPacked(u, s)
    BY <2>5, <2>7, Zenon DEF AnyPacked
  <2> QED
    BY <2>1, <2>8
<1> QED
  BY <1>6, <1>7, <1>8

LEMMA IntactOpens ==
  ASSUME NEW name \in Titles, NEW fs \in Seq(FileOnDisk), NEW t \in IntactArchives(name, fs),
         NEW s, s = Plain(name, Len(fs), fs)
  PROVE  WholePlain(t, name, fs) \/ WholePacked(t, s)
<1>1. Len(fs) \in Nat
  OBVIOUS
<1>2. /\ Holds(s, fs) /\ Len(s) = Place(fs, Len(fs)) /\ s[1] = Byte("header", Len(fs), <<name>>)
      /\ s \in Seq(RawBytes) /\ Len(s) > 0
  <2>1. /\ Holds(s, fs) /\ Len(s) = Place(fs, Len(fs)) /\ s[1] = Byte("header", Len(fs), <<name>>)
        /\ Len(s) \in Nat /\ Len(s) > 4
    BY <1>1, PlainHolds
  <2>2. s \in Seq(RawBytes)
    BY <2>1, Zenon DEF Holds
  <2> QED
    BY <2>1, <2>2
<1>3. CASE t = s
  BY <1>2, <1>3 DEF WholePlain
<1>4. ASSUME NEW p \in Packings, t = Packed(p, FALSE, s)
      PROVE  WholePacked(t, s)
  <2>1. \A tail \in BOOLEAN : t = Packed(p, tail, s) => (~tail => WholePacked(t, s))
    BY <1>2, PackedOpens
  <2> QED
    BY <1>4, <2>1, Zenon
<1> QED
  BY <1>3, <1>4, Zenon DEF IntactArchives

CutPacked(s, p, n) == SubSeq(Packed(p, FALSE, s), 1, Len(Packed(p, FALSE, s)) - n)

LEMMA DamagedOpens ==
  ASSUME NEW name \in Titles, NEW other \in Titles, NEW fs \in Seq(FileOnDisk),
         NEW t \in DamagedArchives(name, other, fs), NEW s, s = Plain(name, Len(fs), fs)
  PROVE  AnyPlain(t, fs) \/ AnyPacked(t, s)
<1>1. Len(fs) \in Nat /\ Len(fs) + 1 \in Nat
  OBVIOUS
<1>2. s \in Seq(RawBytes) /\ Len(s) > 0
  <2>1. Holds(s, fs) /\ Len(s) \in Nat /\ Len(s) > 4
    BY <1>1, PlainHolds
  <2> QED
    BY <2>1 DEF Holds
<1>3. CASE t = Plain(other, Len(fs), fs) \/ t = Plain(name, Len(fs) + 1, fs)
  BY <1>1, <1>3, PlainHolds
<1>4. CASE t = SubSeq(s, 1, Len(s) - 1)
  BY <1>1, <1>4, CutPlain
<1>5. CASE fs # << >> /\ t = Plain(name, Len(fs) - 1, fs)
  <2>1. Len(fs) - 1 \in Nat
    BY <1>5
  <2> QED
    BY <1>5, <2>1, PlainHolds
<1>6. ASSUME NEW p \in Packings
      PROVE  /\ t = Packed(p, TRUE, s) => AnyPacked(t, s)
             /\ \A n \in {1, 5} : t = CutPacked(s, p, n) => AnyPacked(t, s)
  <2>1. \A tail \in BOOLEAN : \A u : u = Packed(p, tail, s) =>
          /\ AnyPacked(u, s)
          /\ \A n \in {1, 5} : AnyPacked(SubSeq(u, 1, Len(u) - n), s)
    BY <1>2, PackedOpens
  <2> QED
    BY <2>1, Zenon DEF CutPacked
<1> DEFINE A == {Plain(other, Len(fs), fs), Plain(name, Len(fs) + 1, fs), SubSeq(s, 1, Len(s) - 1)}
           B == IF fs = << >> THEN {} ELSE {Plain(name, Len(fs) - 1, fs)}
           C == {CutPacked(s, p, n) : p \in Packings, n \in {1, 5}}
           D == {Packed(p, TRUE, s) : p \in Packings}
<1>7. DamagedArchives(name, other, fs) = A \cup B \cup C \cup D
  BY DEF DamagedArchives, CutPacked
<1>8. t \in A => AnyPlain(t, fs) \/ AnyPacked(t, s)
  BY <1>3, <1>4
<1>9. t \in B => AnyPlain(t, fs) \/ AnyPacked(t, s)
  BY <1>5
<1>10. t \in C => AnyPacked(t, s)
  <2>1. t \in C => \E p \in Packings : \E n \in {1, 5} : t = CutPacked(s, p, n)
    BY SMT
  <2> HIDE DEF C
  <2> SUFFICES ASSUME t \in C PROVE AnyPacked(t, s)
    OBVIOUS
  <2>2. PICK p \in Packings : \E n \in {1, 5} : t = CutPacked(s, p, n)
    BY <2>1, Zenon
  <2>3. PICK n \in {1, 5} : t = CutPacked(s, p, n)
    BY <2>2, Zenon
  <2> QED
    BY <1>6, <2>3, Zenon
<1>11. t \in D => AnyPacked(t, s)
  BY <1>6, Zenon
<1> HIDE DEF A, B, C, D
<1> QED
  BY <1>7, <1>8, <1>9, <1>10, <1>11

LEMMA FirstFour ==
  ASSUME NEW t
  PROVE  /\ \A i \in 1 .. 4 : SubSeq(t, 1, 4)[i] = t[i]
         /\ (\A i \in 1 .. 4 : t[i] \in Bytes) => SubSeq(t, 1, 4) \in Seq(Bytes) /\ Len(SubSeq(t, 1, 4)) = 4
<1>1. PICK z \in Nat : z = 0
  OBVIOUS
<1>2. PICK f \in Nat : f = 4
  OBVIOUS
<1>3. PICK u : u = SubSeq(t, z + 1, z + f)
  OBVIOUS
<1>4. u = SubSeq(t, 1, 4)
  BY <1>1, <1>2, <1>3
<1>5. \A T : (\A i \in z + 1 .. z + f : t[i] \in T) =>
               u \in Seq(T) /\ Len(u) = f /\ \A i \in 1 .. f : u[i] = t[z + i]
  BY <1>3, PartFacts
<1>6. /\ (\A i \in z + 1 .. z + f : t[i] \in Bytes) =>
           u \in Seq(Bytes) /\ Len(u) = f
      /\ \A i \in 1 .. f : u[i] = t[z + i]
  <2> DEFINE T == {t[i] : i \in z + 1 .. z + f}
  <2>1. \A i \in z + 1 .. z + f : t[i] \in T
    OBVIOUS
  <2> HIDE DEF T
  <2>2. \A i \in 1 .. f : u[i] = t[z + i]
    BY <1>5, <2>1
  <2> QED
    BY <1>5, <2>2
<1>7. z + f = 4 /\ z + 1 = 1 /\ \A i \in 1 .. 4 : z + i = i
  BY <1>1, <1>2
<1> QED
  BY <1>2, <1>4, <1>6, <1>7

LEMMA PlainIsNotPacked ==
  ASSUME NEW t, NEW fs, AnyPlain(t, fs)
  PROVE  ~IsPacked(t)
<1>1. PICK m \in Titles : \E n \in Nat : t[1] = Byte("header", n, <<m>>)
  BY DEF AnyPlain
<1>2. PICK n \in Nat : t[1] = Byte("header", n, <<m>>)
  BY <1>1
<1>3. t[1][1] = "header"
  BY <1>2 DEF Byte
<1>4. Magic[1][1] = "oZlB"
  <2>1. Magic[1] = Byte("oZlB", 1, << >>)
    BY MagicFacts
  <2> QED
    BY <2>1 DEF Byte
<1>5. SubSeq(t, 1, 4)[1] = t[1]
  BY FirstFour
<1>6. SubSeq(t, 1, 4) # Magic
  BY <1>3, <1>4, <1>5
<1> QED
  BY <1>6 DEF IsPacked

LEMMA OpenedIsPacked ==
  ASSUME NEW t, NEW s, Opened(t, s)
  PROVE  IsPacked(t) /\ t[5][2] = Len(s) /\ t \in Seq(Bytes) /\ Len(t) >= 8
<1>1. /\ t \in Seq(Bytes) /\ Len(t) >= 8
      /\ \A i \in 1 .. 4 : t[i] = Magic[i]
      /\ t[5] = Byte("word", Len(s), << >>)
  BY DEF Opened
<1>2. \A i \in 1 .. 4 : t[i] \in Bytes
  BY <1>1
<1>3. PICK u : u = SubSeq(t, 1, 4)
  OBVIOUS
<1>4. u \in Seq(Bytes) /\ Len(u) = 4 /\ \A i \in 1 .. 4 : u[i] = t[i]
  BY <1>2, <1>3, FirstFour
<1>5. u = Magic
  <2>1. Len(u) = Len(Magic) /\ \A i \in 1 .. Len(u) : u[i] = Magic[i]
    BY <1>1, <1>4, MagicFacts
  <2> QED
    BY <1>4, <2>1, MagicFacts, SeqEqual
<1>6. t[5][2] = Len(s)
  BY <1>1 DEF Byte
<1> QED
  BY <1>1, <1>3, <1>5, <1>6 DEF IsPacked

-----------------------------------------------------------------------------
(* The invariant of the reader                                              *)

Cur == DgoList[dgo]

Sound == Plain(Cur, Len(archives[Cur]), archives[Cur])

(* The archive is to be opened, and nothing of it has been read. *)
AtOpen ==
  /\ plain = << >> /\ seek = 0 /\ output = 0
  /\ dgo <= Len(DgoList) => onDisk[Cur] = << >>

AtChunks ==
  /\ onDisk[Cur] = << >>
  /\ \E s \in Seq(RawBytes) : \E p \in Packings : \E at, cs : \E k, j \in Nat :
       s = Sound /\ AtChunk(s, p, at, cs, k, j)

AtHeader ==
  /\ onDisk[Cur] = << >> /\ seek = 0 /\ output = 0
  /\ AnyPlain(plain, archives[Cur])
  /\ intact => WholePlain(plain, Cur, archives[Cur])

(* What the database was given are the first files, and the reader is at *)
(* the next one.                                                         *)
AtObject ==
  /\ output = 0
  /\ Holds(plain, archives[Cur])
  /\ Len(onDisk[Cur]) <= Len(archives[Cur])
  /\ onDisk[Cur] = SubSeq(archives[Cur], 1, Len(onDisk[Cur]))
  /\ seek = Place(archives[Cur], Len(onDisk[Cur])) /\ seek <= Len(plain)
  /\ intact => /\ left = Len(archives[Cur]) - Len(onDisk[Cur])
               /\ Len(plain) = Place(archives[Cur], Len(archives[Cur]))

OtherArchives ==
  \A k \in 1 .. Len(DgoList) :
    /\ k < dgo => onDisk[DgoList[k]] = archives[DgoList[k]]
    /\ k > dgo => onDisk[DgoList[k]] = << >>

ReaderType ==
  /\ archives \in [Dgos -> Seq(FileOnDisk)] /\ intact \in BOOLEAN /\ left \in Nat
  /\ step \in {"open", "chunks", "header", "objects"}
  /\ step # "open" => dgo <= Len(DgoList)

AtStep ==
  /\ step = "open" => AtOpen
  /\ step = "chunks" => AtChunks
  /\ step = "header" => AtHeader
  /\ step = "objects" => AtObject

ReaderInv == ReaderType /\ OtherArchives /\ AtStep /\ IntactIsRead

LEMMA CurFacts ==
  ASSUME TypeOK, ReaderType, dgo <= Len(DgoList)
  PROVE  /\ Cur \in Dgos /\ Cur \in Titles /\ dgo \in 1 .. Len(DgoList)
         /\ archives[Cur] \in Seq(FileOnDisk) /\ onDisk[Cur] \in Seq(FileOnDisk)
         /\ \A k \in 1 .. Len(DgoList) : k # dgo => DgoList[k] # Cur
<1>1. dgo \in 1 .. Len(DgoList)
  BY TypeParts, DgoFacts
<1>2. Cur \in Dgos
  BY <1>1, DgoFacts DEF Cur
<1>3. \A k \in 1 .. Len(DgoList) : k # dgo => DgoList[k] # Cur
  BY <1>1, DgoFacts, DatabaseAssumption DEF Cur
<1>4. onDisk[Cur] \in Seq(FileOnDisk)
  BY <1>2, TypeParts DEF StoreType
<1> QED
  BY <1>1, <1>2, <1>3, <1>4 DEF ReaderType, Titles

-----------------------------------------------------------------------------
(* Opening                                                                  *)

LEMMA FileListsType == FileLists \subseteq Seq(FileOnDisk)
<1> SUFFICES ASSUME NEW fs \in FileLists PROVE fs \in Seq(FileOnDisk)
  OBVIOUS
<1>1. PICK m \in 0 .. MaxObjs - stats.total : fs \in [1 .. m -> FileOnDisk]
  BY DEF FileLists, SeqOf, FileOnDisk
<1>2. m \in Nat
  OBVIOUS
<1> QED
  BY <1>1, <1>2

(* Both kinds of bytes an archive may have. *)
LEMMA OpenCases ==
  ASSUME TypeOK, ReaderType, OpenArchive
  PROVE  \E fs \in Seq(FileOnDisk) : \E s \in Seq(RawBytes) :
           /\ archives' = [archives EXCEPT ![Cur] = fs]
           /\ s = Plain(Cur, Len(fs), fs)
           /\ intact' \in BOOLEAN
           /\ AnyPlain(input', fs) \/ AnyPacked(input', s)
           /\ intact' => WholePlain(input', Cur, fs) \/ WholePacked(input', s)
<1>1. dgo <= Len(DgoList)
  BY DEF OpenArchive, Reading
<1>2. Cur \in Titles
  BY <1>1, CurFacts
<1>3. PICK fs \in FileLists :
        /\ archives' = [archives EXCEPT ![Cur] = fs]
        /\ \/ intact' = TRUE /\ input' \in IntactArchives(Cur, fs)
           \/ /\ intact' = FALSE
              /\ \E other \in Dgos \ {Cur} : input' \in DamagedArchives(Cur, other, fs)
  BY Zenon DEF OpenArchive, Cur
<1>4. fs \in Seq(FileOnDisk)
  BY FileListsType
<1>5. PICK s : s = Plain(Cur, Len(fs), fs)
  OBVIOUS
<1>6. s \in Seq(RawBytes)
  <2>1. Len(fs) \in Nat
    BY <1>4
  <2> QED
    BY <1>2, <1>4, <1>5, <2>1, PlainHolds DEF Holds
<1>7. WholePlain(input', Cur, fs) => AnyPlain(input', fs)
  <2>1. Len(fs) \in Nat
    BY <1>4
  <2> QED
    BY <1>2, <2>1, Zenon DEF WholePlain, AnyPlain
<1>8. WholePacked(input', s) => AnyPacked(input', s)
  BY Zenon DEF WholePacked, AnyPacked
<1>9. CASE intact' = TRUE /\ input' \in IntactArchives(Cur, fs)
  <2>1. WholePlain(input', Cur, fs) \/ WholePacked(input', s)
    BY <1>2, <1>4, <1>5, <1>9, IntactOpens
  <2>2. AnyPlain(input', fs) \/ AnyPacked(input', s)
    BY <1>7, <1>8, <2>1
  <2>3. intact' \in BOOLEAN
    BY <1>9
  <2> QED
    BY <1>3, <1>4, <1>5, <1>6, <2>1, <2>2, <2>3, Zenon
<1>10. CASE /\ intact' = FALSE
            /\ \E other \in Dgos \ {Cur} : input' \in DamagedArchives(Cur, other, fs)
  <2>1. PICK other \in Dgos : input' \in DamagedArchives(Cur, other, fs)
    BY <1>10
  <2>2. other \in Titles
    BY DEF Titles
  <2>3. AnyPlain(input', fs) \/ AnyPacked(input', s)
    BY <1>2, <1>4, <1>5, <2>1, <2>2, DamagedOpens
  <2>4. intact' \in BOOLEAN /\ ~intact'
    BY <1>10
  <2> QED
    BY <1>3, <1>4, <1>5, <1>6, <2>3, <2>4, Zenon
<1> QED
  BY <1>3, <1>9, <1>10, Zenon

(* Opened, an archive is at its header or at its first chunk. *)
LEMMA OpenKeepsInv ==
  ASSUME TypeOK, ReaderInv, OpenArchive
  PROVE  ReaderInv'
<1>1. /\ dgo <= Len(DgoList) /\ step = "open" /\ ~failed
      /\ dgo' = dgo /\ onDisk' = onDisk /\ failed' = failed /\ output' = 0 /\ left' = 0
  BY DEF OpenArchive, Reading, vars, store, walk
<1>2. /\ Cur \in Dgos /\ Cur' = Cur
      /\ \A k \in 1 .. Len(DgoList) : k # dgo => DgoList[k] # Cur /\ DgoList[k] \in Dgos
  <2>1. ReaderType
    BY DEF ReaderInv
  <2> QED
    BY <1>1, <2>1, CurFacts, DgoFacts DEF Cur
<1>3. archives \in [Dgos -> Seq(FileOnDisk)]
  BY DEF ReaderInv, ReaderType
<1>4. PICK fs \in Seq(FileOnDisk) : \E s \in Seq(RawBytes) :
           /\ archives' = [archives EXCEPT ![Cur] = fs]
           /\ s = Plain(Cur, Len(fs), fs)
           /\ intact' \in BOOLEAN
           /\ AnyPlain(input', fs) \/ AnyPacked(input', s)
           /\ intact' => WholePlain(input', Cur, fs) \/ WholePacked(input', s)
  <2>1. ReaderType
    BY DEF ReaderInv
  <2> QED
    BY <2>1, OpenCases
<1>5. PICK s \in Seq(RawBytes) :
           /\ archives' = [archives EXCEPT ![Cur] = fs]
           /\ s = Plain(Cur, Len(fs), fs)
           /\ intact' \in BOOLEAN
           /\ AnyPlain(input', fs) \/ AnyPacked(input', s)
           /\ intact' => WholePlain(input', Cur, fs) \/ WholePacked(input', s)
  BY <1>4
<1>6. /\ archives' \in [Dgos -> Seq(FileOnDisk)] /\ archives'[Cur] = fs
      /\ \A d \in Dgos : d # Cur => archives'[d] = archives[d]
  BY <1>2, <1>3, <1>5
<1>7. Sound' = s
  BY <1>2, <1>5, <1>6 DEF Sound
<1>8. onDisk[Cur] = << >>
  BY <1>1 DEF ReaderInv, AtStep, AtOpen
<1>9. OtherArchives'
  <2>1. OtherArchives
    BY DEF ReaderInv
  <2> QED
    BY <1>1, <1>2, <1>6, <2>1 DEF OtherArchives
<1>10. IntactIsRead'
  BY <1>1 DEF IntactIsRead
<1>11. step' \in {"header", "chunks"} => ReaderType'
  BY <1>1, <1>5, <1>6 DEF ReaderType
<1>12. CASE AnyPacked(input', s)
  <2>1. Opened(input', s)
    BY <1>12 DEF AnyPacked
  <2>2. IsPacked(input') /\ input'[5][2] = Len(s) /\ input' \in Seq(Bytes) /\ Len(input') >= 8
    BY <2>1, OpenedIsPacked
  <2>3. step' = "chunks" /\ seek' = 8 /\ plain' = Zeros(Len(s))
    BY <2>2 DEF OpenArchive
  <2>4. \E p \in Packings : \E at, cs : IsPacking(input', p, s, at, cs)
                                        /\ (intact' => IsExact(input', s, at, cs))
    <3>1. CASE ~intact'
      BY <1>12, <3>1 DEF AnyPacked
    <3>2. CASE intact'
      <4>1. ~AnyPlain(input', fs)
        BY <2>2, PlainIsNotPacked
      <4>2. WholePlain(input', Cur, fs) => AnyPlain(input', fs)
        <5>1. Cur \in Titles /\ Len(fs) \in Nat
          BY <1>2 DEF Titles
        <5> QED
          BY <5>1, Zenon DEF WholePlain, AnyPlain
      <4>3. WholePacked(input', s)
        BY <1>5, <3>2, <4>1, <4>2
      <4> QED
        BY <4>3 DEF WholePacked
    <3> QED
      BY <3>1, <3>2
  <2>5. PICK p \in Packings : \E at, cs : IsPacking(input', p, s, at, cs)
                                        /\ (intact' => IsExact(input', s, at, cs))
    BY <2>4
  <2>6. PICK at, cs : IsPacking(input', p, s, at, cs)
                                        /\ (intact' => IsExact(input', s, at, cs))
    BY <2>5
  <2>7. PICK k \in Nat : k = 0
    OBVIOUS
  <2>8. Len(s) \in Nat /\ Len(s) > 4
    <3>1. Cur \in Titles /\ Len(fs) \in Nat
      BY <1>2 DEF Titles
    <3> QED
      BY <1>5, <3>1, PlainHolds
  <2>9. k + 1 \in 1 .. Len(Pieces(s))
    BY <2>7, <2>8, PieceCount, BeforeFacts
  <2>10. p.zeros \in Nat /\ k <= p.zeros
    BY <2>7, ReaderAssumption
  <2>11. plain' \in Seq(RawBytes) /\ Len(plain') = Len(s)
    BY <2>3, <2>8, RawByteFacts, FillFacts
  <2>12. seek' = at[k] + 4 * k /\ seek' <= Len(input') + 3
    <3>1. at[0] = 8
      BY <2>6 DEF IsPacking
    <3>2. Len(input') \in Nat
      BY <2>2
    <3> QED
      BY <2>2, <2>3, <2>7, <3>1, <3>2
  <2>13. output' = Before(k) /\ \A i \in 1 .. output' : plain'[i] = s[i]
    BY <1>1, <2>7, BeforeFacts
  <2>14. AtChunk(s, p, at, cs, k, k)'
    BY <2>2, <2>6, <2>9, <2>10, <2>11, <2>12, <2>13, Zenon DEF AtChunk
  <2>15. AtChunks'
    <3>1. onDisk'[Cur'] = << >>
      BY <1>1, <1>2, <1>8
    <3> QED
      BY <1>7, <2>14, <3>1, Zenon DEF AtChunks
  <2>16. AtStep'
    BY <2>3, <2>15 DEF AtStep
  <2> QED
    BY <1>9, <1>10, <1>11, <2>3, <2>16 DEF ReaderInv
<1>13. CASE ~AnyPacked(input', s)
  <2>1. AnyPlain(input', fs)
    BY <1>5, <1>13
  <2>2. step' = "header" /\ seek' = 0 /\ plain' = input'
    BY <2>1, PlainIsNotPacked DEF OpenArchive
  <2>3. intact' => WholePlain(input', Cur, fs)
    BY <1>5, <1>13 DEF AnyPacked, WholePacked
  <2>4. AtHeader'
    BY <1>1, <1>2, <1>6, <1>8, <2>1, <2>2, <2>3 DEF AtHeader
  <2>5. AtStep'
    BY <2>2, <2>4 DEF AtStep
  <2> QED
    BY <1>9, <1>10, <1>11, <2>2, <2>5 DEF ReaderInv
<1> QED
  BY <1>12, <1>13

(* A step inside an archive that gives nothing to the database. *)
LEMMA InsideKeepsInv ==
  ASSUME ReaderInv, Reading, UNCHANGED <<vars, archives, intact>>,
         left' \in Nat, step' \in {"chunks", "header", "objects"}, AtStep'
  PROVE  ReaderInv'
<1>1. dgo <= Len(DgoList) /\ ~failed /\ dgo' = dgo /\ onDisk' = onDisk /\ failed' = failed
  BY DEF Reading, vars, store, walk
<1>2. ReaderType'
  BY <1>1 DEF ReaderInv, ReaderType
<1>3. OtherArchives'
  BY <1>1 DEF ReaderInv, OtherArchives
<1>4. IntactIsRead'
  BY <1>1 DEF IntactIsRead
<1> QED
  BY <1>2, <1>3, <1>4 DEF ReaderInv

(* What the reader has before it stays. *)
LEMMA SameArchive ==
  ASSUME UNCHANGED <<vars, archives>>
  PROVE  Cur' = Cur /\ Sound' = Sound /\ archives'[Cur'] = archives[Cur] /\ onDisk'[Cur'] = onDisk[Cur]
<1>1. dgo' = dgo /\ onDisk' = onDisk /\ archives' = archives
  BY DEF vars, store, walk
<1>2. Cur' = Cur
  BY <1>1 DEF Cur
<1> QED
  BY <1>1, <1>2 DEF Sound

(* Where the reader is among the chunks. *)
LEMMA ChunksCase ==
  ASSUME ReaderInv, step = "chunks"
  PROVE  /\ onDisk[Cur] = << >>
         /\ \E s \in Seq(RawBytes) : \E p \in Packings : \E at, cs : \E k, j \in Nat :
              s = Sound /\ AtChunk(s, p, at, cs, k, j)
BY DEF ReaderInv, AtStep, AtChunks

LEMMA SkipKeepsInv ==
  ASSUME ReaderInv, SkipZero
  PROVE  ReaderInv'
<1>1. /\ Reading /\ step = "chunks" /\ Ahead(input, 4) /\ WordAt(input) = 0 /\ seek' = seek + 4
      /\ UNCHANGED <<vars, archives, intact, step, input, plain, output, left>>
  BY DEF SkipZero
<1>2. onDisk[Cur] = << >>
  BY <1>1, ChunksCase
<1>3. PICK s \in Seq(RawBytes), p \in Packings : \E at, cs : \E k, j \in Nat :
              s = Sound /\ AtChunk(s, p, at, cs, k, j)
  BY <1>1, ChunksCase
<1>4. PICK at, cs : \E k, j \in Nat : s = Sound /\ AtChunk(s, p, at, cs, k, j)
  BY <1>3
<1>5. PICK k \in Nat, j \in Nat : s = Sound /\ AtChunk(s, p, at, cs, k, j)
  BY <1>4
<1>6. j # p.zeros
  <2>1. ASSUME j = p.zeros PROVE FALSE
    <3>1. HasChunk(cs[k + 1], p, Pieces(s)[k + 1], k)
      BY <1>1, <1>5, <2>1, AtWord
    <3>2. WordAt(input) > 0
      BY <3>1 DEF HasChunk
    <3> QED
      BY <1>1, <3>2
  <2> QED
    BY <2>1
<1>7. /\ seek \in Nat /\ at[k] \in Nat /\ p.zeros \in Nat /\ Len(input) \in Nat
  BY <1>5, PlacesFacts
<1>8. seek + 4 <= Len(input)
  BY <1>1 DEF Ahead
<1>9. PICK i \in Nat : i = j + 1
  OBVIOUS
<1>10. /\ k + 1 \in 1 .. Len(Pieces(s)) /\ j <= p.zeros
       /\ input \in Seq(Bytes) /\ IsPacking(input, p, s, at, cs)
       /\ intact => IsExact(input, s, at, cs)
       /\ seek = at[k] + 4 * j
       /\ output = Before(k)
       /\ plain \in Seq(RawBytes) /\ Len(plain) = Len(s)
       /\ \A n \in 1 .. output : plain[n] = s[n]
  BY <1>5 DEF AtChunk
<1>11. i <= p.zeros
  BY <1>6, <1>7, <1>9, <1>10
<1>12. seek + 4 = at[k] + 4 * i /\ seek + 4 <= Len(input) + 3
  BY <1>7, <1>8, <1>9, <1>10
<1>13. AtChunk(s, p, at, cs, k, i)'
  BY <1>1, <1>10, <1>11, <1>12 DEF AtChunk
<1>14. AtChunks'
  <2>1. s = Sound' /\ onDisk'[Cur'] = << >>
    BY <1>1, <1>2, <1>5, SameArchive
  <2> QED
    BY <1>13, <2>1, Zenon DEF AtChunks
<1>15. AtStep'
  BY <1>1, <1>14 DEF AtStep
<1>16. left' \in Nat /\ step' \in {"chunks", "header", "objects"}
  BY <1>1 DEF ReaderInv, ReaderType
<1> QED
  BY <1>1, <1>15, <1>16, InsideKeepsInv

(* Bytes d over those of t after the first o, as far as t goes. *)
Over(t, o, d) ==
  [i \in DOMAIN t |-> IF i \in o + 1 .. o + Len(d) THEN d[i - o] ELSE t[i]]

(* The first o bytes of t are those of s; the first m of d follow in s, and *)
(* d is no longer, or s ends with them.                                     *)
Fits(s, t, o, m, d) ==
  /\ s \in Seq(RawBytes) /\ t \in Seq(RawBytes) /\ Len(t) = Len(s)
  /\ o \in Nat /\ \A i \in 1 .. o : t[i] = s[i]
  /\ m \in Nat /\ o + m <= Len(s)
  /\ d \in Seq(Bytes) /\ m <= Len(d) /\ \A i \in 1 .. m : d[i] = s[o + i]
  /\ m = Len(d) \/ o + m = Len(s)

(* A piece, or more than the last one, written after the pieces before it. *)
LEMMA OverFacts ==
  ASSUME NEW s, NEW t, NEW o, NEW m, NEW d, Fits(s, t, o, m, d)
  PROVE  /\ Over(t, o, d) \in Seq(RawBytes) /\ Len(Over(t, o, d)) = Len(s)
         /\ \A i \in 1 .. o + Len(d) : i <= Len(s) => Over(t, o, d)[i] = s[i]
         /\ o + Len(d) >= Len(s) => Over(t, o, d) = s
<1> PICK full : full = Over(t, o, d)
  OBVIOUS
<1> USE DEF Fits
<1>1. PICK n \in Nat : n = Len(s)
  OBVIOUS
<1>2. PICK l \in Nat : l = Len(d)
  OBVIOUS
<1>3. full = [i \in 1 .. n |-> IF i \in o + 1 .. o + l THEN d[i - o] ELSE t[i]]
  BY <1>1, <1>2 DEF Over
<1>4. \A i \in 1 .. n : i <= o + l => full[i] = s[i]
  <2> SUFFICES ASSUME NEW i \in 1 .. n, i <= o + l PROVE full[i] = s[i]
    OBVIOUS
  <2>1. CASE i <= o
    <3>1. i \notin o + 1 .. o + l /\ i \in 1 .. o
      BY <2>1
    <3> QED
      BY <1>3, <3>1
  <2>2. CASE i > o
    <3>1. i \in o + 1 .. o + l
      BY <2>2
    <3>2. i - o \in 1 .. m /\ o + (i - o) = i
      BY <1>1, <1>2, <2>2
    <3>3. d[i - o] = s[i]
      BY <3>2
    <3> QED
      BY <1>3, <3>1, <3>3
  <2> QED
    BY <2>1, <2>2
<1>5. \A i \in 1 .. n : full[i] \in RawBytes
  <2> SUFFICES ASSUME NEW i \in 1 .. n PROVE full[i] \in RawBytes
    OBVIOUS
  <2>1. s[i] \in RawBytes /\ t[i] \in RawBytes
    BY <1>1
  <2>2. CASE i <= o + l
    BY <1>4, <2>1, <2>2
  <2>3. CASE i > o + l
    <3>1. i \notin o + 1 .. o + l
      BY <2>3
    <3>2. full[i] = t[i]
      BY <1>3, <3>1
    <3> QED
      BY <2>1, <3>2
  <2> QED
    BY <2>2, <2>3
<1>6. full \in Seq(RawBytes) /\ Len(full) = n
  <2> DEFINE f(i) == IF i \in o + 1 .. o + l THEN d[i - o] ELSE t[i]
  <2>1. full = [i \in 1 .. n |-> f(i)]
    BY <1>3
  <2>2. \A i \in 1 .. n : f(i) \in RawBytes
    BY <1>5, <2>1
  <2> HIDE DEF f
  <2> QED
    BY <2>1, <2>2
<1>7. o + l >= n => full = s
  <2> SUFFICES ASSUME o + l >= n PROVE full = s
    OBVIOUS
  <2>1. \A i \in 1 .. Len(full) : full[i] = s[i]
    BY <1>4, <1>6
  <2> QED
    BY <1>1, <1>6, <2>1, SeqEqual
<1>8. \A i \in 1 .. o + l : i <= n => full[i] = s[i]
  BY <1>4
<1> QED
  BY <1>1, <1>2, <1>6, <1>7, <1>8

(* The chunk at which the reader is. *)
LEMMA CopyCases ==
  ASSUME NEW s \in Seq(RawBytes), NEW p \in Packings, NEW at, NEW cs, NEW k \in Nat, NEW j \in Nat,
         AtChunk(s, p, at, cs, k, j), IsChunk,
         NEW full, full = Over(plain, output, ChunkData)
  PROVE  /\ Len(ChunkData) \in Nat
         /\ output + Len(ChunkData) >= Len(plain) => full = s
         /\ output + Len(ChunkData) < Len(plain) =>
              /\ full \in Seq(RawBytes) /\ Len(full) = Len(s)
              /\ k + 1 + 1 \in 1 .. Len(Pieces(s))
              /\ output + Len(ChunkData) = Before(k + 1)
              /\ \A i \in 1 .. Before(k + 1) : full[i] = s[i]
              /\ AlignUp(seek + 4 + ChunkSize) = at[k + 1]
              /\ at[k + 1] <= Len(input) + 3
<1>1. Ahead(input, 4) /\ WordAt(input) > 0 /\ Ahead(input, 4 + ChunkSize)
  BY DEF IsChunk
<1>2. j = p.zeros
  <2>1. ASSUME j # p.zeros PROVE FALSE
    <3>1. WordAt(input) = 0
      BY <1>1, <2>1, AtZero
    <3> QED
      BY <1>1, <3>1
  <2> QED
    BY <2>1
<1>3. PICK c : c = cs[k + 1]
  OBVIOUS
<1>4. PICK piece : piece = Pieces(s)[k + 1]
  OBVIOUS
<1>5. ChunkSize \in Nat /\ 4 + ChunkSize = Len(c) /\ c \in Seq(Bytes)
  <2>1. HasChunk(cs[k + 1], p, Pieces(s)[k + 1], k)
    BY <1>1, <1>2, AtWord
  <2> QED
    BY <1>3, <2>1 DEF HasChunk
<1>6. AddsPiece(ChunkData, piece, c, k)
  BY <1>1, <1>2, <1>3, <1>4, ChunkRead
<1>7. PICK d : d = ChunkData
  OBVIOUS
<1>8. /\ d \in Seq(Bytes) /\ Len(piece) <= Len(d)
      /\ \A i \in 1 .. Len(piece) : d[i] = piece[i]
      /\ Len(piece) # Len(d) => Len(d) = MAX_CHUNK_SIZE
  BY <1>6, <1>7 DEF AddsPiece
<1>9. /\ k + 1 \in 1 .. Len(Pieces(s)) /\ output = Before(k)
      /\ plain \in Seq(RawBytes) /\ Len(plain) = Len(s)
      /\ \A i \in 1 .. output : plain[i] = s[i]
      /\ seek = at[k] + 4 * j
  BY DEF AtChunk
<1>10. /\ Len(piece) \in 1 .. MAX_CHUNK_SIZE
       /\ Before(k) + Len(piece) <= Len(s)
       /\ Len(piece) < MAX_CHUNK_SIZE => Before(k) + Len(piece) = Len(s)
       /\ \A i \in 1 .. Len(piece) : piece[i] = s[Before(k) + i]
  BY <1>4, <1>9, PieceFacts DEF PieceOf
<1>11. PICK m \in Nat : m = Len(piece)
  <2>1. MAX_CHUNK_SIZE \in Nat
    BY ReaderAssumption
  <2> QED
    BY <1>10, <2>1
<1>12. PICK o \in Nat : o = output
  BY PlacesFacts
<1>13. Len(d) \in Nat /\ Len(s) \in Nat /\ MAX_CHUNK_SIZE \in Nat
  BY <1>8, ReaderAssumption
<1>14. m = Len(d) \/ o + m = Len(s)
  BY <1>8, <1>9, <1>10, <1>11, <1>12, <1>13
<1>15. /\ o + m <= Len(s) /\ m <= Len(d)
       /\ \A i \in 1 .. m : d[i] = s[o + i]
       /\ \A i \in 1 .. o : plain[i] = s[i]
  BY <1>8, <1>9, <1>10, <1>11, <1>12
<1>16. full = Over(plain, o, d)
  BY <1>7, <1>12
<1>17. /\ full \in Seq(RawBytes) /\ Len(full) = Len(s)
       /\ \A i \in 1 .. o + Len(d) : i <= Len(s) => full[i] = s[i]
       /\ o + Len(d) >= Len(s) => full = s
  <2>1. Fits(s, plain, o, m, d)
    BY <1>8, <1>9, <1>14, <1>15 DEF Fits
  <2> QED
    BY <1>16, <2>1, OverFacts
<1>18. ASSUME o + Len(d) < Len(s)
       PROVE  /\ k + 1 + 1 \in 1 .. Len(Pieces(s))
              /\ o + Len(d) = Before(k + 1)
              /\ \A i \in 1 .. Before(k + 1) : full[i] = s[i]
              /\ AlignUp(seek + 4 + ChunkSize) = at[k + 1]
              /\ at[k + 1] <= Len(input) + 3
  <2>1. Len(d) = MAX_CHUNK_SIZE
    BY <1>8, <1>9, <1>10, <1>11, <1>12, <1>13, <1>14, <1>18
  <2>2. Before(k + 1) = o + Len(d) /\ Before(k + 1) \in Nat
    BY <1>9, <1>12, <2>1, BeforeFacts
  <2>3. k + 1 + 1 \in 1 .. Len(Pieces(s))
    BY <1>18, <2>2, PieceCount
  <2>4. \A i \in 1 .. Before(k + 1) : full[i] = s[i]
    BY <1>13, <1>17, <1>18, <2>2
  <2>5. /\ at[k] \in Nat /\ at[k] % 4 = 0 /\ p.zeros \in Nat /\ seek \in Nat
        /\ at[k + 1] = at[k] + 4 * p.zeros + AlignUp(Len(c))
        /\ Len(input) \in Nat
    <3>1. /\ at[k] \in Nat /\ at[k] % 4 = 0 /\ p.zeros \in Nat /\ seek \in Nat
          /\ Len(input) \in Nat /\ GroupIn(input, p, s, at, cs, k)
      BY PlacesFacts
    <3> QED
      BY <1>3, <3>1, Zenon DEF GroupIn
  <2>6. PICK a \in Nat : a = at[k] + 4 * p.zeros /\ a % 4 = 0
    <3>1. (4 * p.zeros) \in Nat /\ (4 * p.zeros) % 4 = 0
      BY <2>5, Fours
    <3>2. PICK y \in Nat : y = 4 * p.zeros
      BY <3>1, Zenon
    <3>3. y % 4 = 0
      BY <3>1, <3>2, Zenon
    <3>4. (at[k] + y) \in Nat /\ (at[k] + y) % 4 = 0
      BY <2>5, <3>3, Fours
    <3>5. (at[k] + 4 * p.zeros) \in Nat /\ (at[k] + 4 * p.zeros) % 4 = 0
      BY <3>2, <3>4, Zenon
    <3> QED
      BY <3>5, Zenon
  <2>7. PICK l \in Nat : l = Len(c)
    BY <1>5
  <2>8. seek + 4 + ChunkSize = a + l
    <3>1. ChunkSize \in Nat /\ 4 + ChunkSize = l
      BY <1>5, <2>7
    <3>2. seek = a
      BY <1>2, <1>9, <2>6, Zenon
    <3> QED
      BY <3>1, <3>2
  <2>9. AlignUp(a + l) = a + AlignUp(l)
    BY <2>6, AlignFacts
  <2>10. AlignUp(a + l) <= a + l + 3
    <3>1. (a + l) \in Nat
      OBVIOUS
    <3> QED
      BY <3>1, AlignUpFacts
  <2>11. a + l <= Len(input)
    BY <1>1, <1>5, <2>5, <2>8 DEF Ahead
  <2>12. at[k + 1] = AlignUp(a + l)
    BY <2>5, <2>6, <2>7, <2>9
  <2>13. at[k + 1] <= Len(input) + 3
    <3>1. (a + l) \in Nat
      OBVIOUS
    <3>2. AlignUp(a + l) \in Nat
      BY <3>1, AlignUpFacts
    <3> QED
      BY <2>5, <2>10, <2>11, <2>12, <3>2
  <2> QED
    BY <2>2, <2>3, <2>4, <2>8, <2>12, <2>13
<1> QED
  BY <1>7, <1>9, <1>12, <1>13, <1>17, <1>18

(* The bytes of the archive when nothing is missing or wrong in them. *)
LEMMA SoundFacts ==
  ASSUME TypeOK, ReaderInv, Reading
  PROVE  /\ AnyPlain(Sound, archives[Cur]) /\ WholePlain(Sound, Cur, archives[Cur])
         /\ Len(Sound) \in Nat /\ Len(Sound) > 4
         /\ archives[Cur] \in Seq(FileOnDisk) /\ Cur \in Titles
<1>1. Cur \in Titles /\ archives[Cur] \in Seq(FileOnDisk)
  BY CurFacts DEF ReaderInv, Reading
<1>2. Len(archives[Cur]) \in Nat
  BY <1>1
<1>3. PICK s : s = Sound
  OBVIOUS
<1>4. PICK fs \in Seq(FileOnDisk) : fs = archives[Cur]
  BY <1>1
<1>5. s = Plain(Cur, Len(fs), fs) /\ Len(fs) \in Nat
  BY <1>2, <1>3, <1>4 DEF Sound
<1>6. /\ Holds(s, fs) /\ Len(s) = Place(fs, Len(fs)) /\ s[1] = Byte("header", Len(fs), <<Cur>>)
      /\ AnyPlain(s, fs) /\ Len(s) \in Nat /\ Len(s) > 4
  BY <1>1, <1>5, PlainHolds
<1> QED
  BY <1>1, <1>3, <1>4, <1>6 DEF WholePlain

LEMMA CopyKeepsInv ==
  ASSUME TypeOK, ReaderInv, CopyChunk
  PROVE  ReaderInv'
<1>1. /\ Reading /\ step = "chunks" /\ IsChunk
      /\ UNCHANGED <<vars, archives, intact, left>>
  BY DEF CopyChunk
<1>2. PICK full : full = Over(plain, output, ChunkData)
  OBVIOUS
<1>3. IF output + Len(ChunkData) >= Len(plain)
      THEN step' = "header" /\ plain' = full /\ seek' = 0 /\ output' = 0
      ELSE /\ seek' = AlignUp(seek + 4 + ChunkSize) /\ plain' = full
           /\ output' = output + Len(ChunkData) /\ UNCHANGED <<step, input>>
  BY <1>2, Zenon DEF CopyChunk, Over
<1>4. onDisk[Cur] = << >>
  BY <1>1, ChunksCase
<1>5. PICK s \in Seq(RawBytes), p \in Packings : \E at, cs : \E k, j \in Nat :
              s = Sound /\ AtChunk(s, p, at, cs, k, j)
  BY <1>1, ChunksCase
<1>6. PICK at, cs : \E k, j \in Nat : s = Sound /\ AtChunk(s, p, at, cs, k, j)
  BY <1>5
<1>7. PICK k \in Nat, j \in Nat : s = Sound /\ AtChunk(s, p, at, cs, k, j)
  BY <1>6
<1>8. /\ Len(ChunkData) \in Nat
      /\ output + Len(ChunkData) >= Len(plain) => full = s
      /\ output + Len(ChunkData) < Len(plain) =>
              /\ full \in Seq(RawBytes) /\ Len(full) = Len(s)
              /\ k + 1 + 1 \in 1 .. Len(Pieces(s))
              /\ output + Len(ChunkData) = Before(k + 1)
              /\ \A i \in 1 .. Before(k + 1) : full[i] = s[i]
              /\ AlignUp(seek + 4 + ChunkSize) = at[k + 1]
              /\ at[k + 1] <= Len(input) + 3
  BY <1>1, <1>2, <1>7, CopyCases
<1>9. left' \in Nat
  BY <1>1 DEF ReaderInv, ReaderType
<1>10. /\ s = Sound' /\ onDisk'[Cur'] = << >> /\ archives'[Cur'] = archives[Cur] /\ Cur' = Cur
  BY <1>1, <1>4, <1>7, SameArchive
<1>11. CASE output + Len(ChunkData) >= Len(plain)
  <2>1. step' = "header" /\ plain' = s /\ seek' = 0 /\ output' = 0
    BY <1>3, <1>8, <1>11
  <2>2. AnyPlain(s, archives[Cur]) /\ WholePlain(s, Cur, archives[Cur])
    BY <1>1, <1>7, SoundFacts
  <2>3. AtHeader'
    BY <1>10, <2>1, <2>2 DEF AtHeader
  <2>4. AtStep'
    BY <2>1, <2>3 DEF AtStep
  <2> QED
    BY <1>1, <1>9, <2>1, <2>4, InsideKeepsInv
<1>12. CASE ~(output + Len(ChunkData) >= Len(plain))
  <2>1. Len(plain) \in Nat /\ output \in Nat /\ at[k + 1] \in Nat /\ p.zeros \in Nat
    BY <1>7, PlacesFacts
  <2>2. output + Len(ChunkData) < Len(plain)
    BY <1>8, <1>12, <2>1
  <2>3. /\ k + 1 + 1 \in 1 .. Len(Pieces(s))
        /\ full \in Seq(RawBytes) /\ Len(full) = Len(s)
        /\ output + Len(ChunkData) = Before(k + 1)
        /\ \A i \in 1 .. Before(k + 1) : full[i] = s[i]
        /\ AlignUp(seek + 4 + ChunkSize) = at[k + 1]
        /\ at[k + 1] <= Len(input) + 3
    BY <1>8, <2>2
  <2>4. /\ seek' = at[k + 1] /\ plain' = full /\ output' = Before(k + 1)
        /\ UNCHANGED <<step, input>>
    BY <1>3, <1>12, <2>3
  <2>5. PICK m \in Nat : m = k + 1
    OBVIOUS
  <2>6. PICK z \in Nat : z = 0
    OBVIOUS
  <2>7. input \in Seq(Bytes) /\ IsPacking(input, p, s, at, cs) /\ (intact => IsExact(input, s, at, cs))
    BY <1>7 DEF AtChunk
  <2>8. seek' = at[m] + 4 * z /\ z <= p.zeros
    BY <2>1, <2>4, <2>5, <2>6
  <2>9. AtChunk(s, p, at, cs, m, z)'
    BY <1>1, <2>3, <2>4, <2>5, <2>7, <2>8 DEF AtChunk
  <2>10. AtChunks'
    BY <1>10, <2>9, Zenon DEF AtChunks
  <2>11. AtStep' /\ step' = "chunks"
    BY <1>1, <2>4, <2>10 DEF AtStep
  <2> QED
    BY <1>1, <1>9, <2>11, InsideKeepsInv
<1> QED
  BY <1>11, <1>12

LEMMA HeaderKeepsInv ==
  ASSUME TypeOK, ReaderInv, ReadHeader
  PROVE  ReaderInv'
<1>1. /\ Reading /\ step = "header" /\ IsHeader /\ Ahead(plain, header_size)
      /\ left' = Here(plain)[2] /\ seek' = seek + header_size /\ step' = "objects"
      /\ UNCHANGED <<vars, archives, intact, input, plain, output>>
  BY DEF ReadHeader, IsHeader
<1>2. AtHeader
  BY <1>1 DEF ReaderInv, AtStep
<1>3. /\ Cur' = Cur /\ archives'[Cur'] = archives[Cur] /\ onDisk'[Cur'] = onDisk[Cur]
  BY <1>1, SameArchive
<1>4. Cur \in Titles /\ archives[Cur] \in Seq(FileOnDisk)
  BY <1>1, SoundFacts
<1>5. PICK fs \in Seq(FileOnDisk) : fs = archives[Cur]
  BY <1>4
<1>6. onDisk[Cur] = << >> /\ seek = 0 /\ output = 0 /\ AnyPlain(plain, fs)
      /\ (intact => WholePlain(plain, Cur, fs))
  BY <1>2, <1>5 DEF AtHeader
<1>7. Holds(plain, fs)
  BY <1>6 DEF AnyPlain
<1>8. Place(fs, 0) = header_size /\ header_size \in Nat
  BY <1>4, PlaceFacts
<1>9. PICK n \in Nat : plain[1][2] = n
  <2>1. PICK m \in Titles : \E n \in Nat : plain[1] = Byte("header", n, <<m>>)
    BY <1>6 DEF AnyPlain
  <2>2. PICK n \in Nat : plain[1] = Byte("header", n, <<m>>)
    BY <2>1
  <2> QED
    BY <2>2 DEF Byte
<1>10. left' = n
  BY <1>1, <1>6, <1>9 DEF Here
<1>11. Len(onDisk[Cur]) = 0 /\ onDisk[Cur] = SubSeq(fs, 1, 0) /\ Len(fs) \in Nat
  BY <1>6
<1>12. seek' = Place(fs, 0) /\ seek' <= Len(plain)
  BY <1>1, <1>6, <1>8 DEF Ahead
<1>13. intact => left' = Len(fs) /\ Len(plain) = Place(fs, Len(fs))
  <2> SUFFICES ASSUME intact PROVE left' = Len(fs) /\ Len(plain) = Place(fs, Len(fs))
    OBVIOUS
  <2>1. plain[1] = Byte("header", Len(fs), <<Cur>>) /\ Len(plain) = Place(fs, Len(fs))
    BY <1>6 DEF WholePlain
  <2>2. plain[1][2] = Len(fs)
    BY <2>1 DEF Byte
  <2> QED
    BY <1>9, <1>10, <2>1, <2>2
<1>14. AtObject'
  <2>1. Len(onDisk'[Cur']) = 0 /\ onDisk'[Cur'] = SubSeq(fs, 1, 0) /\ archives'[Cur'] = fs
    BY <1>3, <1>5, <1>11
  <2>2. intact' => /\ left' = Len(fs) - 0 /\ Len(plain') = Place(fs, Len(fs))
    BY <1>1, <1>11, <1>13
  <2>3. output' = 0 /\ Holds(plain', fs) /\ 0 <= Len(fs) /\ seek' = Place(fs, 0) /\ seek' <= Len(plain')
    BY <1>1, <1>6, <1>7, <1>11, <1>12
  <2> QED
    BY <2>1, <2>2, <2>3, Zenon DEF AtObject
<1>15. AtStep'
  BY <1>1, <1>14 DEF AtStep
<1> QED
  BY <1>1, <1>10, <1>15, InsideKeepsInv

(* The reader is at the k + 1st file of the archive, or after its last one. *)
AtFile(fs, k) ==
  /\ k <= Len(fs)
  /\ seek \in Nat /\ seek = Place(fs, k) /\ seek <= Len(plain)
  /\ plain \in Seq(RawBytes) /\ Len(plain) <= Place(fs, Len(fs))
  /\ Place(fs, Len(fs)) <= Len(plain) + 1 /\ Place(fs, Len(fs)) \in Nat
  /\ header_size \in Nat /\ header_size > 4

(* The file there, and where it ends. *)
NextIs(fs, k, f) ==
  /\ f = fs[k + 1] /\ f \in FileOnDisk
  /\ f.name \in Names /\ f.data \in Contents /\ Size[f.data] \in Nat
  /\ Place(fs, k + 1) = seek + header_size + Size[f.data]
  /\ Place(fs, k + 1) <= Place(fs, Len(fs))
  /\ HoldsFile(plain, seek, f)

LEMMA FileThere ==
  ASSUME NEW m \in Titles, NEW fs \in Seq(FileOnDisk), Holds(plain, fs), NEW k \in Nat, k <= Len(fs),
         seek = Place(fs, k), seek <= Len(plain)
  PROVE  AtFile(fs, k) /\ (k < Len(fs) => NextIs(fs, k, fs[k + 1]))
<1>1. PICK l \in Nat : l = Len(fs)
  OBVIOUS
<1>2. /\ header_size \in Nat /\ header_size > 4
      /\ \A i \in 0 .. l : Place(fs, i) \in Nat /\ Place(fs, i) <= Place(fs, l)
      /\ \A i \in Nat : i + 1 \in 1 .. l =>
              Place(fs, i + 1) = Place(fs, i) + header_size + Size[fs[i + 1].data]
  BY <1>1, PlaceFacts
<1>3. Place(fs, l) \in Nat /\ Place(fs, k) \in Nat
  BY <1>1, <1>2
<1>4. AtFile(fs, k)
  BY <1>1, <1>2, <1>3 DEF AtFile, Holds
<1>5. ASSUME k < l PROVE NextIs(fs, k, fs[k + 1])
  <2>1. k + 1 \in 1 .. l /\ k + 1 \in 0 .. l
    BY <1>5
  <2>2. PICK f : f = fs[k + 1]
    OBVIOUS
  <2>3. f \in FileOnDisk
    BY <1>1, <2>1, <2>2
  <2>4. Size[f.data] \in Nat /\ f.name \in Names /\ f.data \in Contents
    BY <2>3, FileFacts
  <2>5. Place(fs, k + 1) = seek + header_size + Size[f.data]
    BY <1>2, <2>1, <2>2
  <2>6. Place(fs, k + 1) <= Place(fs, l)
    BY <1>2, <2>1
  <2>7. HoldsFile(plain, seek, f)
    BY <1>1, <2>1, <2>2 DEF Holds
  <2> QED
    BY <1>1, <2>2, <2>3, <2>4, <2>5, <2>6, <2>7 DEF NextIs
<1> QED
  BY <1>1, <1>4, <1>5

(* An object file at the reader is the next one of the archive. *)
LEMMA ObjectIsNext ==
  ASSUME NEW fs \in Seq(FileOnDisk), NEW k \in Nat, AtFile(fs, k),
         k < Len(fs) => NextIs(fs, k, fs[k + 1]),
         NEW n \in Names, NEW c \in Contents, ObjectIs(n, c)
  PROVE  /\ k < Len(fs) /\ fs[k + 1] = [name |-> n, data |-> c]
         /\ seek + header_size + Here(plain)[2] = Place(fs, k + 1)
         /\ Place(fs, k + 1) <= Len(plain)
<1>1. /\ k <= Len(fs) /\ Len(fs) \in Nat
      /\ seek \in Nat /\ seek = Place(fs, k)
      /\ plain \in Seq(RawBytes) /\ Len(plain) \in Nat /\ Len(plain) <= Place(fs, Len(fs))
      /\ header_size \in Nat /\ header_size > 4
  BY DEF AtFile
<1>2. /\ seek + header_size <= Len(plain)
      /\ seek + (header_size + Here(plain)[2]) <= Len(plain)
      /\ Here(plain)[3] = <<n>>
      /\ SubSeq(plain, seek + header_size + 1, seek + header_size + Here(plain)[2]) = ObjectBytes(c)
  BY DEF ObjectIs, IsHeader, Ahead
<1>3. k < Len(fs)
  <2>1. ASSUME k = Len(fs) PROVE FALSE
    <3>1. Len(plain) <= seek
      BY <1>1, <2>1
    <3> QED
      BY <1>1, <1>2, <3>1
  <2> QED
    BY <1>1, <2>1
<1>4. PICK f : f = fs[k + 1]
  OBVIOUS
<1>5. /\ f \in FileOnDisk
      /\ f.name \in Names /\ f.data \in Contents /\ Size[f.data] \in Nat
      /\ Place(fs, k + 1) = seek + header_size + Size[f.data]
      /\ InPlace(plain, seek + 1, Byte("header", Size[f.data], <<f.name>>))
      /\ \A i \in 1 .. Size[f.data] : InPlace(plain, seek + header_size + i, Byte("data", i, <<f.data>>))
  BY <1>3, <1>4 DEF NextIs, HoldsFile
<1>6. Here(plain) = Byte("header", Size[f.data], <<f.name>>)
  <2>1. seek + 1 \in 1 .. Len(plain)
    BY <1>1, <1>2
  <2> QED
    BY <1>5, <2>1 DEF InPlace, Here
<1>7. Here(plain)[2] = Size[f.data] /\ f.name = n
  BY <1>2, <1>6 DEF Byte
<1>8. PICK z \in Nat : z = Size[f.data]
  BY <1>5
<1>9. PICK a \in Nat : a = seek + header_size
  BY <1>1
<1>10. a + z <= Len(plain)
  BY <1>1, <1>2, <1>7, <1>8, <1>9
<1>11. PICK u : u = SubSeq(plain, a + 1, a + z)
  OBVIOUS
<1>12. u = ObjectBytes(c)
  BY <1>2, <1>7, <1>8, <1>9, <1>11
<1>13. u \in Seq(RawBytes) /\ Len(u) = z /\ \A i \in 1 .. z : u[i] = plain[a + i]
  <2>1. \A i \in a + 1 .. a + z : plain[i] \in RawBytes
    BY <1>1, <1>10
  <2> QED
    BY <1>11, <2>1, PartFacts
<1>14. Size[c] = z /\ \A i \in 1 .. z : u[i] = Byte("data", i, <<c>>)
  BY <1>12, <1>13, ObjectFacts
<1>15. f.data = c
  <2>1. CASE z = 0
    BY <1>5, <1>8, <1>14, <2>1, ReaderAssumption
  <2>2. CASE z # 0
    <3>1. 1 \in 1 .. z /\ a + 1 \in 1 .. Len(plain)
      BY <1>1, <1>10, <2>2
    <3>2. plain[a + 1] = Byte("data", 1, <<f.data>>)
      BY <1>5, <1>8, <1>9, <3>1 DEF InPlace
    <3>3. u[1] = plain[a + 1] /\ u[1] = Byte("data", 1, <<c>>)
      BY <1>13, <1>14, <3>1
    <3> QED
      BY <3>2, <3>3 DEF Byte
  <2> QED
    BY <2>1, <2>2
<1>16. f = [name |-> n, data |-> c]
  BY <1>5, <1>7, <1>15 DEF FileOnDisk
<1>17. Place(fs, k + 1) <= Len(plain) /\ seek + header_size + Here(plain)[2] = Place(fs, k + 1)
  BY <1>5, <1>7, <1>8, <1>9, <1>10
<1> QED
  BY <1>3, <1>4, <1>16, <1>17

(* An archive that is whole has the next file at the reader. *)
LEMMA NextIsObject ==
  ASSUME NEW fs \in Seq(FileOnDisk), NEW k \in Nat, AtFile(fs, k),
         Len(plain) = Place(fs, Len(fs)), NEW f, NextIs(fs, k, f)
  PROVE  ObjectIs(f.name, f.data)
<1>1. /\ f.name \in Names /\ f.data \in Contents /\ Size[f.data] \in Nat
      /\ Place(fs, k + 1) = seek + header_size + Size[f.data]
      /\ Place(fs, k + 1) <= Len(plain)
      /\ InPlace(plain, seek + 1, Byte("header", Size[f.data], <<f.name>>))
      /\ \A i \in 1 .. Size[f.data] : InPlace(plain, seek + header_size + i, Byte("data", i, <<f.data>>))
  BY DEF NextIs, HoldsFile
<1>2. /\ seek \in Nat /\ plain \in Seq(RawBytes) /\ Len(plain) \in Nat
      /\ header_size \in Nat /\ header_size > 4
  BY DEF AtFile
<1>3. PICK z \in Nat : z = Size[f.data]
  BY <1>1
<1>4. PICK a \in Nat : a = seek + header_size
  BY <1>2
<1>5. a + z <= Len(plain)
  BY <1>1, <1>2, <1>3, <1>4
<1>6. Here(plain) = Byte("header", z, <<f.name>>)
  <2>1. seek + 1 \in 1 .. Len(plain)
    BY <1>2, <1>3, <1>4, <1>5
  <2> QED
    BY <1>1, <1>3, <2>1 DEF InPlace, Here
<1>7. Here(plain)[1] = "header" /\ Here(plain)[2] = z /\ Here(plain)[3] = <<f.name>>
  BY <1>6 DEF Byte
<1>8. PICK u : u = SubSeq(plain, a + 1, a + z)
  OBVIOUS
<1>9. u \in Seq(RawBytes) /\ Len(u) = z /\ \A i \in 1 .. z : u[i] = plain[a + i]
  <2>1. \A i \in a + 1 .. a + z : plain[i] \in RawBytes
    BY <1>2, <1>5
  <2> QED
    BY <1>8, <2>1, PartFacts
<1>10. u = ObjectBytes(f.data)
  <2>1. /\ ObjectBytes(f.data) \in Seq(RawBytes) /\ Len(ObjectBytes(f.data)) = z
        /\ \A i \in 1 .. z : ObjectBytes(f.data)[i] = Byte("data", i, <<f.data>>)
    BY <1>1, <1>3, ObjectFacts
  <2>2. \A i \in 1 .. z : u[i] = Byte("data", i, <<f.data>>)
    <3> SUFFICES ASSUME NEW i \in 1 .. z PROVE u[i] = Byte("data", i, <<f.data>>)
      OBVIOUS
    <3>1. a + i \in 1 .. Len(plain)
      BY <1>2, <1>5
    <3>2. InPlace(plain, a + i, Byte("data", i, <<f.data>>))
      BY <1>1, <1>3, <1>4
    <3> QED
      BY <1>9, <3>1, <3>2 DEF InPlace
  <2>3. \A i \in 1 .. Len(u) : u[i] = ObjectBytes(f.data)[i]
    BY <1>9, <2>1, <2>2
  <2> QED
    BY <1>9, <2>1, <2>3, SeqEqual
<1>11. /\ Ahead(plain, header_size) /\ Ahead(plain, header_size + z)
       /\ SubSeq(plain, seek + header_size + 1, seek + header_size + z) = ObjectBytes(f.data)
  BY <1>2, <1>4, <1>5, <1>8, <1>10 DEF Ahead
<1> QED
  BY <1>7, <1>11 DEF ObjectIs, IsHeader

(* Where the reader is among the files. *)
LEMMA ObjectsCase ==
  ASSUME TypeOK, ReaderInv, Reading, step = "objects"
  PROVE  \E fs \in Seq(FileOnDisk) : \E k \in Nat :
           /\ fs = archives[Cur] /\ k = Len(onDisk[Cur]) /\ k <= Len(fs)
           /\ onDisk[Cur] \in Seq(FileOnDisk) /\ onDisk[Cur] = SubSeq(fs, 1, k)
           /\ output = 0 /\ Holds(plain, fs) /\ Cur \in Titles
           /\ AtFile(fs, k) /\ (k < Len(fs) => NextIs(fs, k, fs[k + 1]))
           /\ intact => left = Len(fs) - k /\ Len(plain) = Place(fs, Len(fs))
<1>1. AtObject /\ ReaderType /\ dgo <= Len(DgoList)
  BY DEF ReaderInv, AtStep, Reading
<1>2. Cur \in Titles /\ archives[Cur] \in Seq(FileOnDisk) /\ onDisk[Cur] \in Seq(FileOnDisk)
  BY <1>1, CurFacts
<1>3. PICK fs \in Seq(FileOnDisk) : fs = archives[Cur]
  BY <1>2
<1>4. PICK k \in Nat : k = Len(onDisk[Cur])
  BY <1>2
<1>5. /\ output = 0 /\ Holds(plain, fs) /\ k <= Len(fs) /\ onDisk[Cur] = SubSeq(fs, 1, k)
      /\ seek = Place(fs, k) /\ seek <= Len(plain)
      /\ intact => left = Len(fs) - k /\ Len(plain) = Place(fs, Len(fs))
  BY <1>1, <1>3, <1>4 DEF AtObject
<1>6. AtFile(fs, k) /\ (k < Len(fs) => NextIs(fs, k, fs[k + 1]))
  BY <1>2, <1>5, FileThere
<1> QED
  BY <1>2, <1>3, <1>4, <1>5, <1>6

LEMMA ObjectKeepsInv ==
  ASSUME TypeOK, ReaderInv, NEW n \in Names, NEW c \in Contents, ReadObject(n, c)
  PROVE  ReaderInv'
<1>1. /\ Reading /\ step = "objects" /\ left > 0 /\ ObjectIs(n, c) /\ Meet(n, c)
      /\ seek' = seek + header_size + Here(plain)[2] /\ left' = left - 1
      /\ UNCHANGED <<archives, intact, step, input, plain, output>>
  BY DEF ReadObject, AddKnown, AddNew
<1>2. PICK g : g = [name |-> n, data |-> c]
  OBVIOUS
<1>3. /\ dgo' = dgo /\ failed' = failed /\ ~failed /\ dgo <= Len(DgoList)
      /\ onDisk' = [onDisk EXCEPT ![Cur] = Append(@, g)]
  BY <1>1, <1>2 DEF Meet, Reading, Cur
<1>4. /\ Cur \in Dgos /\ Cur' = Cur
      /\ \A k \in 1 .. Len(DgoList) : k # dgo => DgoList[k] # Cur /\ DgoList[k] \in Dgos
  <2>1. ReaderType
    BY DEF ReaderInv
  <2> QED
    BY <1>3, <2>1, CurFacts, DgoFacts DEF Cur
<1>5. onDisk \in [Dgos -> Seq(FileOnDisk)]
  BY TypeParts DEF StoreType
<1>6. onDisk'[Cur] = Append(onDisk[Cur], g) /\ \A d \in Dgos : d # Cur => onDisk'[d] = onDisk[d]
  BY <1>3, <1>4, <1>5
<1>7. PICK fs \in Seq(FileOnDisk), k \in Nat :
           /\ fs = archives[Cur] /\ k = Len(onDisk[Cur]) /\ k <= Len(fs)
           /\ onDisk[Cur] \in Seq(FileOnDisk) /\ onDisk[Cur] = SubSeq(fs, 1, k)
           /\ output = 0 /\ Holds(plain, fs) /\ Cur \in Titles
           /\ AtFile(fs, k) /\ (k < Len(fs) => NextIs(fs, k, fs[k + 1]))
           /\ intact => left = Len(fs) - k /\ Len(plain) = Place(fs, Len(fs))
  BY <1>1, ObjectsCase
<1>8. /\ k < Len(fs) /\ fs[k + 1] = g
      /\ seek' = Place(fs, k + 1) /\ Place(fs, k + 1) <= Len(plain)
  BY <1>1, <1>2, <1>7, ObjectIsNext
<1>9. Append(SubSeq(fs, 1, k), fs[k + 1]) = SubSeq(fs, 1, k + 1) /\ Len(SubSeq(fs, 1, k + 1)) = k + 1
  BY <1>8
<1>10. onDisk'[Cur] = SubSeq(fs, 1, k + 1) /\ Len(onDisk'[Cur]) = k + 1
  BY <1>6, <1>7, <1>8, <1>9
<1>11. ReaderType'
  <2>1. left' \in Nat
    BY <1>1 DEF ReaderInv, ReaderType
  <2> QED
    BY <1>1, <1>3, <2>1 DEF ReaderInv, ReaderType
<1>12. OtherArchives'
  <2>1. OtherArchives
    BY DEF ReaderInv
  <2> QED
    BY <1>1, <1>3, <1>4, <1>6, <2>1 DEF OtherArchives
<1>13. IntactIsRead'
  BY <1>3 DEF IntactIsRead
<1>14. AtObject'
  <2>1. archives'[Cur'] = fs /\ onDisk'[Cur'] = SubSeq(fs, 1, k + 1) /\ Len(onDisk'[Cur']) = k + 1
    BY <1>1, <1>4, <1>7, <1>10
  <2>2. output' = 0 /\ Holds(plain', fs) /\ seek' = Place(fs, k + 1) /\ seek' <= Len(plain')
    BY <1>1, <1>7, <1>8
  <2>3. k + 1 <= Len(fs)
    BY <1>8
  <2>4. intact' => left' = Len(fs) - (k + 1) /\ Len(plain') = Place(fs, Len(fs))
    BY <1>1, <1>7
  <2> QED
    BY <2>1, <2>2, <2>3, <2>4, Zenon DEF AtObject
<1>15. AtStep'
  BY <1>1, <1>14 DEF AtStep
<1> QED
  BY <1>11, <1>12, <1>13, <1>15 DEF ReaderInv

(* The end of the bytes comes after the last file. *)
LEMMA EndIsLast ==
  ASSUME NEW fs \in Seq(FileOnDisk), NEW k \in Nat, AtFile(fs, k),
         k < Len(fs) => NextIs(fs, k, fs[k + 1]), seek = Len(plain)
  PROVE  k = Len(fs)
<1>1. ASSUME k < Len(fs) PROVE FALSE
  <2>1. NextIs(fs, k, fs[k + 1])
    BY <1>1
  <2>2. PICK z \in Nat : Place(fs, k + 1) = seek + header_size + z /\ Place(fs, k + 1) <= Place(fs, Len(fs))
    BY <2>1 DEF NextIs
  <2>3. PICK e \in Nat : e = Place(fs, Len(fs)) /\ e <= seek + 1
    BY DEF AtFile
  <2> QED
    BY <2>2, <2>3 DEF AtFile
<1> QED
  BY <1>1 DEF AtFile

LEMMA CloseKeepsInv ==
  ASSUME TypeOK, ReaderInv, CloseArchive
  PROVE  ReaderInv'
<1>1. /\ Reading /\ step = "objects" /\ left = 0 /\ seek = Len(plain)
      /\ dgo' = dgo + 1 /\ onDisk' = onDisk /\ failed' = failed /\ ~failed
      /\ step' = "open" /\ seek' = 0 /\ plain' = << >>
      /\ UNCHANGED <<archives, intact, output, left>>
  BY DEF CloseArchive, NextDgo, Close, Reading
<1>2. dgo <= Len(DgoList)
  BY <1>1 DEF Reading
<1>3. dgo \in 1 .. Len(DgoList) /\ Len(DgoList) \in Nat
  BY <1>2, TypeParts, DgoFacts
<1>4. PICK fs \in Seq(FileOnDisk), k \in Nat :
           /\ fs = archives[Cur] /\ k = Len(onDisk[Cur]) /\ k <= Len(fs)
           /\ onDisk[Cur] \in Seq(FileOnDisk) /\ onDisk[Cur] = SubSeq(fs, 1, k)
           /\ output = 0 /\ Holds(plain, fs) /\ Cur \in Titles
           /\ AtFile(fs, k) /\ (k < Len(fs) => NextIs(fs, k, fs[k + 1]))
           /\ intact => left = Len(fs) - k /\ Len(plain) = Place(fs, Len(fs))
  BY <1>1, ObjectsCase
<1>5. k = Len(fs)
  BY <1>1, <1>4, EndIsLast
<1>6. onDisk[DgoList[dgo]] = archives[DgoList[dgo]]
  BY <1>4, <1>5 DEF Cur
<1>7. OtherArchives
  BY DEF ReaderInv
<1>8. OtherArchives'
  <2>1. \A i \in 1 .. Len(DgoList) : i < dgo + 1 => i < dgo \/ i = dgo
    BY <1>3
  <2>2. \A i \in 1 .. Len(DgoList) : i > dgo + 1 => i > dgo
    BY <1>3
  <2> QED
    BY <1>1, <1>6, <1>7, <2>1, <2>2 DEF OtherArchives
<1>9. AtOpen'
  <2>1. dgo + 1 <= Len(DgoList) => onDisk[DgoList[dgo + 1]] = << >>
    BY <1>3, <1>7 DEF OtherArchives
  <2> QED
    BY <1>1, <1>4, <2>1 DEF AtOpen, Cur
<1>10. AtStep'
  BY <1>1, <1>9 DEF AtStep
<1>11. ReaderType'
  BY <1>1 DEF ReaderInv, ReaderType
<1>12. IntactIsRead'
  BY <1>1 DEF IntactIsRead
<1> QED
  BY <1>8, <1>10, <1>11, <1>12 DEF ReaderInv

(* In an archive that is intact there is always a chunk to read, or a zero *)
(* before it, and what it adds fits.                                       *)
LEMMA IntactChunk ==
  ASSUME ReaderInv, step = "chunks", intact
  PROVE  /\ Ahead(input, 4)
         /\ WordAt(input) = 0 \/ (IsChunk /\ output + Len(ChunkData) <= Len(plain))
<1>1. PICK s \in Seq(RawBytes), p \in Packings : \E at, cs : \E k, j \in Nat :
              s = Sound /\ AtChunk(s, p, at, cs, k, j)
  BY ChunksCase
<1>2. PICK at, cs : \E k, j \in Nat : s = Sound /\ AtChunk(s, p, at, cs, k, j)
  BY <1>1
<1>3. PICK k \in Nat, j \in Nat : s = Sound /\ AtChunk(s, p, at, cs, k, j)
  BY <1>2
<1>4. PICK c : c = cs[k + 1]
  OBVIOUS
<1>5. PICK piece : piece = Pieces(s)[k + 1]
  OBVIOUS
<1>6. /\ seek \in Nat /\ at[k] \in Nat /\ p.zeros \in Nat
      /\ GroupIn(input, p, s, at, cs, k)
      /\ at[k + 1] \in Nat /\ at[k + 1] <= at[Len(Pieces(s))] /\ at[Len(Pieces(s))] \in Nat
      /\ Len(input) \in Nat /\ Len(plain) \in Nat /\ output \in Nat
  BY <1>3, PlacesFacts
<1>7. /\ at[k + 1] = at[k] + 4 * p.zeros + AlignUp(Len(c))
      /\ c \in Seq(Bytes)
      /\ RawChunk(c, k + 1, piece) \/ LzoChunk(c, p, piece)
  BY <1>4, <1>5, <1>6, Zenon DEF GroupIn
<1>8. /\ k + 1 \in 1 .. Len(Pieces(s)) /\ IsExact(input, s, at, cs) /\ j <= p.zeros
      /\ seek = at[k] + 4 * j /\ output = Before(k) /\ Len(plain) = Len(s)
  BY <1>3 DEF AtChunk
<1>9. /\ Len(input) = at[Len(Pieces(s))]
      /\ RawChunk(c, k + 1, piece) => Len(piece) = MAX_CHUNK_SIZE
  BY <1>4, <1>5, <1>8 DEF IsExact
<1>10. PICK l \in Nat : l = Len(c)
  BY <1>7
<1>11. l >= 4
  <2>1. RawChunk(c, k + 1, piece) => l >= 4
    BY <1>10, ReaderAssumption DEF RawChunk
  <2>2. LzoChunk(c, p, piece) => l >= 4
    <3>1. p.chunk \in Nat
      BY ReaderAssumption
    <3> QED
      BY <1>10, <3>1 DEF LzoChunk
  <2> QED
    BY <1>7, <2>1, <2>2
<1>12. PICK g \in Nat : g = AlignUp(l) /\ g >= l
  <2>1. AlignUp(l) \in Nat /\ AlignUp(l) >= l
    BY AlignUpFacts
  <2> QED
    BY <2>1, Zenon
<1>13. at[k] + 4 * p.zeros + g <= Len(input)
  BY <1>6, <1>7, <1>9, <1>10, <1>12
<1>14. Ahead(input, 4)
  <2>1. seek <= at[k] + 4 * p.zeros
    BY <1>6, <1>8
  <2> QED
    BY <1>6, <1>11, <1>12, <1>13, <2>1 DEF Ahead
<1>15. CASE j # p.zeros
  <2>1. WordAt(input) = 0
    BY <1>3, <1>14, <1>15, AtZero
  <2> QED
    BY <1>14, <2>1
<1>16. CASE j = p.zeros
  <2>1. ChunkSize \in Nat /\ 4 + ChunkSize = l
    <3>1. HasChunk(cs[k + 1], p, Pieces(s)[k + 1], k)
      BY <1>3, <1>14, <1>16, AtWord
    <3> QED
      BY <1>4, <1>10, <3>1 DEF HasChunk
  <2>2. Ahead(input, 4 + ChunkSize)
    <3>1. seek + l <= Len(input)
      BY <1>6, <1>8, <1>12, <1>13, <1>16
    <3> QED
      BY <2>1, <3>1 DEF Ahead
  <2>3. IsChunk /\ AddsPiece(ChunkData, piece, c, k)
    BY <1>3, <1>4, <1>5, <1>14, <1>16, <2>2, ChunkRead
  <2>4. Len(ChunkData) = Len(piece)
    BY <1>9, <2>3 DEF AddsPiece
  <2>5. Before(k) + Len(piece) <= Len(s)
    BY <1>5, <1>8, PieceFacts DEF PieceOf
  <2> QED
    BY <1>8, <1>14, <2>3, <2>4, <2>5
<1> QED
  BY <1>15, <1>16

(* Nothing in an archive that is intact makes an assert fail. *)
LEMMA UnreadableIsDamaged ==
  ASSUME TypeOK, ReaderInv, Unreadable
  PROVE  ~intact
<1> SUFFICES ASSUME intact PROVE FALSE
  OBVIOUS
<1>1. Reading
  BY DEF Unreadable
<1>2. CASE /\ step = "chunks"
           /\ IF Ahead(input, 4) /\ WordAt(input) = 0 THEN FALSE
              ELSE IsChunk => output + Len(ChunkData) > Len(plain)
  <2>1. Ahead(input, 4) /\ (WordAt(input) = 0 \/ (IsChunk /\ output + Len(ChunkData) <= Len(plain)))
    BY <1>2, IntactChunk
  <2>2. IsChunk /\ output + Len(ChunkData) <= Len(plain) /\ output + Len(ChunkData) > Len(plain)
    BY <1>2, <2>1
  <2>3. Len(ChunkData) \in Nat /\ output \in Nat /\ Len(plain) \in Nat
    <3>1. PICK s \in Seq(RawBytes), p \in Packings : \E at, cs : \E k, j \in Nat :
                s = Sound /\ AtChunk(s, p, at, cs, k, j)
      BY <1>2, ChunksCase
    <3>2. PICK at, cs : \E k, j \in Nat : s = Sound /\ AtChunk(s, p, at, cs, k, j)
      BY <3>1
    <3>3. PICK k \in Nat, j \in Nat : s = Sound /\ AtChunk(s, p, at, cs, k, j)
      BY <3>2
    <3>4. PICK full : full = Over(plain, output, ChunkData)
      OBVIOUS
    <3>5. Len(ChunkData) \in Nat
      BY <2>2, <3>3, <3>4, CopyCases
    <3>6. output \in Nat /\ Len(plain) \in Nat
      BY <3>3, PlacesFacts
    <3> QED
      BY <3>5, <3>6
  <2> QED
    BY <2>2, <2>3
<1>3. CASE /\ step = "header"
           /\ IsHeader => Here(plain)[3] # <<DgoList[dgo]>>
  <2>1. seek = 0 /\ WholePlain(plain, Cur, archives[Cur]) /\ Cur \in Titles
    BY <1>1, <1>3, SoundFacts DEF ReaderInv, AtStep, AtHeader
  <2>2. PICK fs \in Seq(FileOnDisk) : fs = archives[Cur]
    BY <1>1, SoundFacts
  <2>3. /\ plain \in Seq(RawBytes) /\ Len(plain) = Place(fs, Len(fs))
        /\ plain[1] = Byte("header", Len(fs), <<Cur>>)
    BY <2>1, <2>2 DEF WholePlain, Holds
  <2>4. header_size \in Nat /\ Place(fs, Len(fs)) >= header_size
    <3>1. Len(fs) \in 0 .. Len(fs)
      OBVIOUS
    <3> QED
      BY <2>1, <3>1, PlaceFacts
  <2>5. IsHeader /\ Here(plain)[3] = <<Cur>>
    BY <2>1, <2>3, <2>4 DEF IsHeader, Ahead, Here, Byte
  <2> QED
    BY <1>3, <2>5 DEF Cur
<1>4. CASE /\ step = "objects"
           /\ IF left = 0 THEN seek # Len(plain)
              ELSE ~\E n \in Names, c \in Contents : ObjectIs(n, c)
  <2>1. PICK fs \in Seq(FileOnDisk), k \in Nat :
           /\ fs = archives[Cur] /\ k = Len(onDisk[Cur]) /\ k <= Len(fs)
           /\ onDisk[Cur] \in Seq(FileOnDisk) /\ onDisk[Cur] = SubSeq(fs, 1, k)
           /\ output = 0 /\ Holds(plain, fs) /\ Cur \in Titles
           /\ AtFile(fs, k) /\ (k < Len(fs) => NextIs(fs, k, fs[k + 1]))
           /\ intact => left = Len(fs) - k /\ Len(plain) = Place(fs, Len(fs))
    BY <1>1, <1>4, ObjectsCase
  <2>2. left = Len(fs) - k /\ Len(plain) = Place(fs, Len(fs)) /\ seek = Place(fs, k)
    BY <2>1 DEF AtFile
  <2>3. CASE left = 0
    <3>1. k = Len(fs)
      BY <2>1, <2>2, <2>3
    <3> QED
      BY <1>4, <2>2, <2>3, <3>1
  <2>4. CASE left # 0
    <3>1. PICK f : f = fs[k + 1]
      OBVIOUS
    <3>2. NextIs(fs, k, f)
      BY <2>1, <2>2, <2>4, <3>1
    <3>3. ObjectIs(f.name, f.data)
      BY <2>1, <2>2, <3>2, NextIsObject
    <3>4. f.name \in Names /\ f.data \in Contents
      BY <3>2 DEF NextIs
    <3> QED
      BY <1>4, <2>4, <3>3, <3>4
  <2> QED
    BY <2>3, <2>4
<1> QED
  BY <1>2, <1>3, <1>4 DEF Unreadable

LEMMA InitReader == ReaderInit => ReaderInv
<1> SUFFICES ASSUME ReaderInit PROVE ReaderInv
  OBVIOUS
<1>1. /\ archives = [d \in Dgos |-> << >>] /\ onDisk = [d \in Dgos |-> << >>]
      /\ dgo = 1 /\ intact = TRUE /\ step = "open" /\ failed = FALSE
      /\ seek = 0 /\ plain = << >> /\ output = 0 /\ left = 0
  BY DEF ReaderInit, Init
<1>2. ReaderType
  <2>1. << >> \in Seq(FileOnDisk)
    OBVIOUS
  <2> QED
    BY <1>1, <2>1 DEF ReaderType
<1>3. OtherArchives /\ AtOpen
  BY <1>1, DgoFacts DEF OtherArchives, AtOpen, Cur
<1>4. IntactIsRead
  BY <1>1 DEF IntactIsRead
<1> QED
  BY <1>1, <1>2, <1>3, <1>4 DEF ReaderInv, AtStep

(* The reader is idle, and so are the lists it fills. *)
LEMMA IdleKeepsInv ==
  ASSUME ReaderInv, UNCHANGED <<onDisk, dgo, reader>>, IntactIsRead'
  PROVE  ReaderInv'
<1>1. UNCHANGED <<onDisk, dgo, archives, intact, step, input, seek, plain, output, left>>
  BY DEF reader
<1>2. Cur' = Cur /\ Sound' = Sound
  BY <1>1 DEF Cur, Sound
<1>3. ReaderType' /\ OtherArchives'
  BY <1>1 DEF ReaderInv, ReaderType, OtherArchives
<1>4. \A s, p, at, cs, k, j : AtChunk(s, p, at, cs, k, j) => AtChunk(s, p, at, cs, k, j)'
  BY <1>1 DEF AtChunk
<1>5. AtChunks => AtChunks'
  <2> SUFFICES ASSUME AtChunks PROVE AtChunks'
    OBVIOUS
  <2>1. onDisk[Cur] = << >> /\ onDisk'[Cur'] = << >>
    BY <1>1, <1>2 DEF AtChunks
  <2>2. PICK s \in Seq(RawBytes), p \in Packings : \E at, cs : \E k, j \in Nat :
              s = Sound /\ AtChunk(s, p, at, cs, k, j)
    BY DEF AtChunks
  <2>3. PICK at, cs : \E k, j \in Nat : s = Sound /\ AtChunk(s, p, at, cs, k, j)
    BY <2>2
  <2>4. PICK k \in Nat, j \in Nat : s = Sound /\ AtChunk(s, p, at, cs, k, j)
    BY <2>3
  <2>5. s = Sound' /\ AtChunk(s, p, at, cs, k, j)'
    BY <1>2, <1>4, <2>4
  <2> QED
    BY <2>1, <2>5, Zenon DEF AtChunks
<1>6. /\ AtOpen => AtOpen'
      /\ AtHeader => AtHeader'
      /\ AtObject => AtObject'
  BY <1>1, <1>2 DEF AtOpen, AtHeader, AtObject
<1>7. AtStep'
  BY <1>1, <1>5, <1>6 DEF ReaderInv, AtStep
<1> QED
  BY <1>3, <1>7 DEF ReaderInv

(***************************************************************************)
(* Every step keeps the reader where the bytes have what the database is   *)
(* given next.                                                             *)
(***************************************************************************)
LEMMA NextKeepsReaderInv == DatabaseInv /\ ReaderInv /\ [ReaderNext]_allVars => ReaderInv'
<1> SUFFICES ASSUME TypeOK, ReaderInv, ReaderNext \/ UNCHANGED allVars PROVE ReaderInv'
  BY DEF DatabaseInv, Inv
<1>1. CASE OpenArchive
  BY <1>1, OpenKeepsInv
<1>2. CASE SkipZero
  BY <1>2, SkipKeepsInv
<1>3. CASE CopyChunk
  BY <1>3, CopyKeepsInv
<1>4. CASE ReadHeader
  BY <1>4, HeaderKeepsInv
<1>5. ASSUME NEW n \in Names, NEW c \in Contents, ReadObject(n, c) PROVE ReaderInv'
  BY <1>5, ObjectKeepsInv
<1>6. CASE CloseArchive
  BY <1>6, CloseKeepsInv
<1>7. CASE Unreadable
  <2>1. UNCHANGED <<onDisk, dgo, reader>>
    BY <1>7 DEF Unreadable, Fail
  <2>2. ~intact'
    BY <1>7, UnreadableIsDamaged DEF Unreadable, reader
  <2> QED
    BY <2>1, <2>2, IdleKeepsInv DEF IntactIsRead
<1>8. CASE (WriteListing \/ Visit \/ PassDone) /\ UNCHANGED reader
  <2>1. UNCHANGED <<onDisk, dgo, reader>> /\ ~failed /\ failed' = failed
    BY <1>8 DEF WriteListing, Visit, PassDone, Running, store
  <2> QED
    BY <2>1, IdleKeepsInv DEF IntactIsRead
<1>9. CASE Running /\ Fail /\ UNCHANGED reader
  <2>1. UNCHANGED <<onDisk, dgo, reader>> /\ pass' = pass
    BY <1>9 DEF Fail, walk
  <2>2. pass > 0
    <3>1. Len(Passes) \in Nat
      BY TypeParts, PassesType
    <3> QED
      BY <1>9, <3>1 DEF Running
  <2> QED
    BY <2>1, <2>2, IdleKeepsInv DEF IntactIsRead
<1>10. CASE UNCHANGED allVars
  <2>1. UNCHANGED <<onDisk, dgo, reader>> /\ failed' = failed /\ pass' = pass /\ intact' = intact
    BY <1>10 DEF allVars, vars, walk, reader
  <2>2. IntactIsRead'
    BY <2>1 DEF ReaderInv, IntactIsRead
  <2> QED
    BY <2>1, <2>2, IdleKeepsInv
<1>11. CASE Finished /\ UNCHANGED allVars
  BY <1>10, <1>11
<1> QED
  BY <1>1, <1>2, <1>3, <1>4, <1>5, <1>6, <1>7, <1>8, <1>9, <1>10, <1>11 DEF ReaderNext

-----------------------------------------------------------------------------
(* What the invariant says of the reader                                    *)

LEMMA ReaderInvType == TypeOK /\ ReaderInv => ReaderTypeOK
<1> SUFFICES ASSUME TypeOK, ReaderInv PROVE ReaderTypeOK
  OBVIOUS
<1>1. ReaderType /\ AtStep
  BY DEF ReaderInv
<1> DEFINE Inside == seek \in 0 .. (IF step = "chunks" THEN Len(input) + 3 ELSE Len(plain))
                     /\ output \in 0 .. Len(plain)
<1>2. CASE step = "open"
  <2>1. plain = << >> /\ seek = 0 /\ output = 0
    BY <1>1, <1>2 DEF AtStep, AtOpen
  <2>2. Inside
    BY <1>2, <2>1
  <2> QED
    BY <1>1, <2>2 DEF ReaderType, ReaderTypeOK, FileOnDisk
<1>3. CASE step = "chunks"
  <2>1. PICK s \in Seq(RawBytes), p \in Packings : \E at, cs : \E k, j \in Nat :
              s = Sound /\ AtChunk(s, p, at, cs, k, j)
    BY <1>3, ChunksCase
  <2>2. PICK at, cs : \E k, j \in Nat : s = Sound /\ AtChunk(s, p, at, cs, k, j)
    BY <2>1
  <2>3. PICK k \in Nat, j \in Nat : s = Sound /\ AtChunk(s, p, at, cs, k, j)
    BY <2>2
  <2>4. seek \in Nat /\ Len(input) \in Nat /\ Len(plain) \in Nat /\ output \in Nat
    BY <2>3, PlacesFacts
  <2>5. k + 1 \in 1 .. Len(Pieces(s)) /\ seek <= Len(input) + 3 /\ output = Before(k) /\ Len(plain) = Len(s)
    BY <2>3 DEF AtChunk
  <2>6. Before(k) < Len(s)
    BY <2>5, PieceCount
  <2>7. Inside
    BY <1>3, <2>4, <2>5, <2>6
  <2> QED
    BY <1>1, <2>7 DEF ReaderType, ReaderTypeOK, FileOnDisk
<1>4. CASE step = "header"
  <2>1. seek = 0 /\ output = 0 /\ plain \in Seq(RawBytes)
    BY <1>1, <1>4 DEF AtStep, AtHeader, AnyPlain, Holds
  <2>2. Inside
    BY <1>4, <2>1
  <2> QED
    BY <1>1, <2>2 DEF ReaderType, ReaderTypeOK, FileOnDisk
<1>5. CASE step = "objects"
  <2>1. AtObject /\ dgo <= Len(DgoList)
    BY <1>1, <1>5 DEF AtStep, ReaderType
  <2>2. Cur \in Titles /\ archives[Cur] \in Seq(FileOnDisk) /\ onDisk[Cur] \in Seq(FileOnDisk)
    BY <1>1, <2>1, CurFacts
  <2>3. PICK fs \in Seq(FileOnDisk) : fs = archives[Cur]
    BY <2>2
  <2>4. PICK k \in Nat : k = Len(onDisk[Cur])
    BY <2>2
  <2>5. /\ output = 0 /\ Holds(plain, fs) /\ k <= Len(fs)
        /\ seek = Place(fs, k) /\ seek <= Len(plain)
    BY <2>1, <2>3, <2>4 DEF AtObject
  <2>6. AtFile(fs, k)
    BY <2>2, <2>5, FileThere
  <2>7. seek \in Nat /\ Len(plain) \in Nat
    BY <2>6 DEF AtFile
  <2>8. Inside
    BY <1>5, <2>5, <2>7
  <2> QED
    BY <1>1, <2>8 DEF ReaderType, ReaderTypeOK, FileOnDisk
<1> QED
  BY <1>1, <1>2, <1>3, <1>4, <1>5 DEF ReaderType

LEMMA ReaderInvFiles == TypeOK /\ ReaderInv => ArchivesAreRead
<1> SUFFICES ASSUME TypeOK, ReaderInv, NEW k \in DOMAIN DgoList, NEW d, d = DgoList[k]
             PROVE  /\ Len(onDisk[d]) <= Len(archives[d])
                    /\ onDisk[d] = SubSeq(archives[d], 1, Len(onDisk[d]))
                    /\ dgo > k => onDisk[d] = archives[d]
  BY DEF ArchivesAreRead, FilesOfArchive, ReaderInv
<1>1. ReaderType /\ AtStep /\ OtherArchives
  BY DEF ReaderInv
<1>2. /\ k \in 1 .. Len(DgoList) /\ Len(DgoList) \in Nat /\ d \in Dgos
      /\ dgo \in 1 .. Len(DgoList) + 1
  BY TypeParts, DgoFacts
<1>3. archives[d] \in Seq(FileOnDisk) /\ onDisk[d] \in Seq(FileOnDisk)
  BY <1>1, <1>2, TypeParts DEF ReaderType, StoreType
<1>4. onDisk[d] = << >> => /\ Len(onDisk[d]) <= Len(archives[d])
                           /\ onDisk[d] = SubSeq(archives[d], 1, Len(onDisk[d]))
  BY <1>3
<1>5. CASE k < dgo
  <2>1. onDisk[d] = archives[d]
    BY <1>1, <1>2, <1>5 DEF OtherArchives
  <2> QED
    BY <1>3, <2>1
<1>6. CASE k > dgo
  <2>1. onDisk[d] = << >>
    BY <1>1, <1>2, <1>6 DEF OtherArchives
  <2> QED
    BY <1>2, <1>4, <1>6, <2>1
<1>7. CASE k = dgo
  <2>1. d = Cur /\ dgo <= Len(DgoList) /\ ~(dgo > k)
    BY <1>2, <1>7 DEF Cur
  <2>2. CASE step # "objects"
    <3>1. onDisk[d] = << >>
      BY <1>1, <2>1, <2>2 DEF AtStep, AtOpen, AtChunks, AtHeader, ReaderType
    <3> QED
      BY <1>4, <2>1, <3>1
  <2>3. CASE step = "objects"
    BY <1>1, <2>1, <2>3 DEF AtStep, AtObject
  <2> QED
    BY <2>2, <2>3
<1> QED
  BY <1>2, <1>5, <1>6, <1>7

LEMMA ReaderKeepsInv == ReaderSpec => [](TypeOK /\ ReaderInv)
<1>1. DatabaseInv => TypeOK
  BY DEF DatabaseInv, Inv
<1> QED
  BY <1>1, InitReader, NextKeepsReaderInv, SpecsAreDatabases, DatabaseKeepsInv, PTL DEF ReaderSpec

(***************************************************************************)
(* Whatever the archives hold, however they are packed and whatever damage *)
(* they have, the BinaryReader stays inside the bytes it reads, up to what *)
(* aligning to the next word may skip, and the output offset inside those  *)
(* of the decompressed archive.                                            *)
(***************************************************************************)
THEOREM ReaderStaysInside == ReaderSpec => []ReaderTypeOK
BY ReaderKeepsInv, ReaderInvType, PTL

(***************************************************************************)
(* get_objs_from_dgo gives the database the files of an archive and no     *)
(* others, in their order, all of them when it goes on to the next one,    *)
(* whether the archive is packed or not, with chunks that are compressed   *)
(* or not and any zeros between them; and no assert fails on an archive    *)
(* that is as the format has it.                                           *)
(***************************************************************************)
THEOREM ArchivesAreGiven == ReaderSpec => []ArchivesAreRead
BY ReaderKeepsInv, ReaderInvFiles, PTL
=============================================================================
