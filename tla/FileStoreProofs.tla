--------------------------- MODULE FileStoreProofs ---------------------------
(***************************************************************************)
(* The cache of the file store, for any files, callers and sizes of parts: *)
(* one entry for a file while somebody works on it or it is dirty, and a   *)
(* whole that behaves as the files of StoredFile.                          *)
(***************************************************************************)
EXTENDS FileStore, FiniteSetTheorems, TLAPS

(* Who works on an entry, which is what PinCount counts.                   *)
Users(e) == {t \in Threads : at[t] # "idle" /\ job[t].entry = e}

PinsCounted == \A e \in EntryIds : pins[e] = Cardinality(Users(e))

(* No two files share an entry.                                            *)
EntryPerFile ==
  \A f, g \in Files : cache[f] = cache[g] /\ cache[f] # NoEntry => f = g

(* An entry without its file has nothing else.                             *)
CleanIsCleared == \A e \in EntryIds : entries[e].file = NoFile => entries[e] = Cleared

Inv ==
  /\ TypeOK
  /\ PinnedIsCached /\ CleanEntriesLeave
  /\ PinsCounted /\ EntryPerFile /\ CleanIsCleared

-----------------------------------------------------------------------------
(* Finite sets.                                                            *)

(* Files and threads are finitely many, and there is an entry for each.    *)
LEMMA SizesOfSets ==
  /\ IsFiniteSet(Files) /\ IsFiniteSet(Threads)
  /\ Cardinality(Files) \in Nat /\ Cardinality(Threads) \in Nat
  /\ IsFiniteSet(EntryIds) /\ Cardinality(EntryIds) = Cardinality(Files) + Cardinality(Threads)
  /\ NoEntry \notin EntryIds
<1>1. IsFiniteSet(Files) /\ IsFiniteSet(Threads)
  BY FilesAssumption, CallersAssumption, FS_AddElement DEF Threads
<1>2. Cardinality(Files) \in Nat /\ Cardinality(Threads) \in Nat
  BY <1>1, FS_CardinalityType
<1>3. IsFiniteSet(EntryIds) /\ Cardinality(EntryIds) = Cardinality(Files) + Cardinality(Threads)
  <2>1. Cardinality(Files) + Cardinality(Threads) \in Nat
    BY <1>2
  <2>2. \A n \in Nat : IsFiniteSet(1 .. n) /\ Cardinality(1 .. n) = n
    BY FS_Interval
  <2> QED BY <2>1, <2>2 DEF EntryIds
<1> QED BY <1>1, <1>2, <1>3 DEF EntryIds, NoEntry

(* The users of an entry can be counted.                                   *)
LEMMA UsersFinite ==
  ASSUME NEW e
  PROVE  /\ IsFiniteSet(Users(e)) /\ Cardinality(Users(e)) \in 0 .. Cardinality(Threads)
<1>1. Users(e) \in SUBSET Threads
  BY DEF Users
<1> QED BY <1>1, SizesOfSets, FS_Subset, FS_CardinalityType

(* A function takes no more values than it has arguments.                  *)
LEMMA FewerValues ==
  ASSUME NEW S, IsFiniteSet(S), NEW T, NEW g \in [S -> T]
  PROVE  IsFiniteSet({g[x] : x \in S}) /\ Cardinality({g[x] : x \in S}) <= Cardinality(S)
<1> DEFINE R == {g[x] : x \in S}
<1>1. g \in Surjection(S, R)
  BY DEF Surjection
<1> QED BY <1>1, FS_Surjection

(* makeCacheEntry never lacks an entry: there are enough for all files and *)
(* all threads.                                                            *)
LEMMA FreeEntryExists ==
  ASSUME TypeOK, NEW f \in Files, cache[f] = NoEntry, NEW t \in Threads, at[t] = "idle"
  PROVE  /\ FreeEntry \in EntryIds
         /\ \A g \in Files : cache[g] # FreeEntry
         /\ \A u \in Threads : at[u] = "idle" \/ job[u].entry # FreeEntry
<1> DEFINE F == Files \ {f}
           T == Threads \ {t}
           C == [g \in F |-> cache[g]]
           J == [u \in T |-> job[u].entry]
           U == {C[g] : g \in F}
           V == {J[u] : u \in T}
<1>1. /\ IsFiniteSet(F) /\ Cardinality(F) = Cardinality(Files) - 1
      /\ IsFiniteSet(T) /\ Cardinality(T) = Cardinality(Threads) - 1
  BY SizesOfSets, FS_RemoveElement
<1>2. C \in [F -> U] /\ J \in [T -> V]
  OBVIOUS
<1>3. IsFiniteSet(U) /\ Cardinality(U) <= Cardinality(F)
  <2> HIDE DEF F, C
  <2> QED BY <1>1, <1>2, FewerValues
<1>4. IsFiniteSet(V) /\ Cardinality(V) <= Cardinality(T)
  <2> HIDE DEF T, J
  <2> QED BY <1>1, <1>2, FewerValues
<1>5. Cardinality(U \union V) <= Cardinality(U) + Cardinality(V) /\ IsFiniteSet(U \union V)
  <2>1. U \intersect V \in SUBSET U
    OBVIOUS
  <2>2. Cardinality(U \intersect V) \in Nat /\ Cardinality(U) \in Nat /\ Cardinality(V) \in Nat
    BY <2>1, <1>3, <1>4, FS_Subset, FS_CardinalityType
  <2>3. /\ Cardinality(U \union V) = Cardinality(U) + Cardinality(V) - Cardinality(U \intersect V)
        /\ IsFiniteSet(U \union V)
    BY <1>3, <1>4, FS_Union
  <2> QED BY <2>2, <2>3
<1>6. ~ EntryIds \subseteq U \union V
  <2> SUFFICES ASSUME EntryIds \subseteq U \union V PROVE FALSE
    OBVIOUS
  <2>1. Cardinality(EntryIds) <= Cardinality(U \union V)
    BY <1>5, FS_Subset
  <2>2. Cardinality(U) \in Nat /\ Cardinality(V) \in Nat /\ Cardinality(U \union V) \in Nat
    BY <1>3, <1>4, <1>5, FS_CardinalityType
  <2> QED BY <2>1, <2>2, <1>1, <1>3, <1>4, <1>5, SizesOfSets
<1>7. PICK e \in EntryIds : e \notin U /\ e \notin V
  BY <1>6
<1>8. \A g \in Files : cache[g] # e
  BY <1>7, SizesOfSets
<1>9. \A u \in Threads : at[u] = "idle" \/ job[u].entry # e
  BY <1>7
<1> QED BY <1>8, <1>9 DEF FreeEntry

-----------------------------------------------------------------------------
(* What the callbacks of withLock make of an entry.                        *)

HeaderRecords == [size : 0 .. MaxBytes, meta : Bytes]

(* A loaded file is a record.                                              *)
LEMMA HeaderIs ==
  ASSUME NEW h \in Headers, h # NoFile
  PROVE  /\ h \in HeaderRecords /\ h = [size |-> h.size, meta |-> h.meta]
         /\ h.size \in 0 .. MaxBytes /\ h.meta \in Bytes
  BY DEF Headers, HeaderRecords

(* A record is a file.                                                     *)
LEMMA IsHeader ==
  ASSUME NEW s \in 0 .. MaxBytes, NEW m \in Bytes
  PROVE  /\ [size |-> s, meta |-> m] \in Headers /\ [size |-> s, meta |-> m] # NoFile
  BY NoFileAssumption DEF Headers

(* The fields of an entry.                                                 *)
LEMMA EntryIs ==
  ASSUME NEW e \in Entries
  PROVE  /\ e = [file |-> e.file, parts |-> e.parts, errors |-> e.errors]
         /\ e.file \in Headers /\ e.parts \in PartValues /\ e.errors \in 0 .. MaxFlushErrors - 1
  BY DEF Entries

(* An entry that is cleared or new is one.                                 *)
LEMMA ClearedIs ==
  /\ Cleared \in Entries /\ NoParts \in PartValues
  /\ Cleared.file = NoFile /\ Cleared.errors = 0 /\ Cleared.parts = NoParts
<1>1. NoParts \in PartValues
  BY DEF NoParts, PartValues
<1> QED BY <1>1 DEF Cleared, Entries, Headers, MaxFlushErrors

(* writeToPart fills parts with what is written and what was there.        *)
LEMMA PartsAfterType ==
  ASSUME NEW f, NEW parts \in PartValues, NEW offsets, NEW b \in Bytes
  PROVE  PartsAfter(f, parts, offsets, b) \in PartValues
<1>1. 0 \in Bytes
  BY WritesAssumption DEF Bytes
<1> SUFFICES ASSUME NEW p \in Parts
             PROVE  PartsAfter(f, parts, offsets, b)[p] \in [Slots -> Bytes] \union {NoPart}
  BY DEF PartsAfter, PartValues
<1> DEFINE here == {o \in offsets : PartAt(f, o) = p}
           old == IF parts[p] = NoPart THEN [i \in Slots |-> 0] ELSE parts[p]
           new == [i \in Slots |-> IF \E o \in here : o % PartSize = i THEN b ELSE old[i]]
<1>2. parts[p] \in [Slots -> Bytes] \union {NoPart}
  BY DEF PartValues
<1>3. old \in [Slots -> Bytes]
  BY <1>1, <1>2
<1>4. new \in [Slots -> Bytes]
  <2> HIDE DEF old, here
  <2> QED BY <1>3
<1>5. PartsAfter(f, parts, offsets, b)[p] = IF here = {} THEN parts[p] ELSE new
  BY DEF PartsAfter
<1> QED BY <1>2, <1>4, <1>5

(* writeAt, field by field.                                                *)
LEMMA WriteAtIs ==
  ASSUME NEW f, NEW e \in Entries, e.file # NoFile, NEW offset \in Nat, NEW n \in Nat,
         offset + n <= MaxBytes, NEW b \in Bytes,
         NEW size, size = IF offset + n > e.file.size THEN offset + n ELSE e.file.size
  PROVE  /\ WriteAt(f, e, offset, n, b) =
              [file |-> [size |-> size, meta |-> e.file.meta],
               parts |-> PartsAfter(f, e.parts, OffsetsWritten(f, e.file.size, offset, n), b),
               errors |-> e.errors]
         /\ WriteAt(f, e, offset, n, b) \in Entries
         /\ WriteAt(f, e, offset, n, b).file # NoFile
<1> DEFINE parts == PartsAfter(f, e.parts, OffsetsWritten(f, e.file.size, offset, n), b)
<1>1. /\ e = [file |-> e.file, parts |-> e.parts, errors |-> e.errors]
      /\ e.file = [size |-> e.file.size, meta |-> e.file.meta]
      /\ e.file.size \in 0 .. MaxBytes /\ e.file.meta \in Bytes
      /\ e.parts \in PartValues /\ e.errors \in 0 .. MaxFlushErrors - 1
  BY EntryIs, HeaderIs
<1>2. WriteAt(f, e, offset, n, b) =
        [file |-> [size |-> size, meta |-> e.file.meta], parts |-> parts, errors |-> e.errors]
  <2> HIDE DEF parts
  <2>1. WriteAt(f, e, offset, n, b) = [e EXCEPT !.parts = parts, !.file.size = size]
    BY DEF WriteAt, parts
  <2> QED BY <2>1, <1>1
<1>3. size \in 0 .. MaxBytes
  BY <1>1, WritesAssumption
<1>4. parts \in PartValues
  BY <1>1, PartsAfterType
<1> HIDE DEF parts
<1>5. [size |-> size, meta |-> e.file.meta] \in Headers \ {NoFile}
  BY <1>1, <1>3, IsHeader
<1> QED BY <1>1, <1>2, <1>4, <1>5 DEF Entries, parts

(* writeAt with replace, field by field.                                   *)
LEMMA RewrittenIs ==
  ASSUME NEW f, NEW e \in Entries, e.file # NoFile, NEW n \in 0 .. MaxBytes, NEW b \in Bytes
  PROVE  /\ Rewritten(f, e, n, b) =
              [file |-> [size |-> n, meta |-> e.file.meta],
               parts |-> PartsAfter(f, NoParts, OffsetsWritten(f, 0, 0, n), b),
               errors |-> e.errors]
         /\ Rewritten(f, e, n, b) \in Entries
         /\ Rewritten(f, e, n, b).file # NoFile
<1> DEFINE parts == PartsAfter(f, NoParts, OffsetsWritten(f, 0, 0, n), b)
<1>1. /\ e = [file |-> e.file, parts |-> e.parts, errors |-> e.errors]
      /\ e.file = [size |-> e.file.size, meta |-> e.file.meta]
      /\ e.file.meta \in Bytes /\ e.errors \in 0 .. MaxFlushErrors - 1
  BY EntryIs, HeaderIs
<1>2. parts \in PartValues
  BY ClearedIs, PartsAfterType
<1> HIDE DEF parts
<1>3. Rewritten(f, e, n, b) =
        [file |-> [size |-> n, meta |-> e.file.meta], parts |-> parts, errors |-> e.errors]
  <2>1. Rewritten(f, e, n, b) = [e EXCEPT !.parts = parts, !.file.size = n]
    BY DEF Rewritten, parts
  <2> QED BY <2>1, <1>1
<1>4. [size |-> n, meta |-> e.file.meta] \in Headers \ {NoFile}
  BY <1>1, IsHeader
<1> QED BY <1>1, <1>2, <1>3, <1>4 DEF Entries, parts

(* loadFileIntoCache and loadDataPartsIntoCache, field by field.           *)
LEMMA LoadedIs ==
  ASSUME TypeOK, NEW f \in Files, NEW e \in Entries, e.file = NoFile => e = Cleared
  PROVE  /\ WithFile(f, e) = [file |-> Header(f, e), parts |-> e.parts, errors |-> e.errors]
         /\ WithFile(f, e) \in Entries
         /\ WithFile(f, e).file = NoFile => WithFile(f, e) = Cleared
         /\ \A parts : /\ WithParts(f, e, parts).file = e.file
                        /\ WithParts(f, e, parts).errors = e.errors
                        /\ WithParts(f, e, parts) \in Entries
                        /\ \A p \in Parts : WithParts(f, e, parts).parts[p] =
                             IF p \in parts /\ e.parts[p] = NoPart THEN db[f].parts[p]
                                                                  ELSE e.parts[p]
<1>1. /\ e = [file |-> e.file, parts |-> e.parts, errors |-> e.errors] /\ e.file \in Headers
      /\ e.parts \in PartValues /\ e.errors \in 0 .. MaxFlushErrors - 1
  BY EntryIs
<1>2. db[f].file \in Headers /\ db[f].parts \in PartValues
  BY DEF TypeOK, StoreTypes, Rows
<1>3. WithFile(f, e) = [file |-> Header(f, e), parts |-> e.parts, errors |-> e.errors]
  BY <1>1 DEF WithFile
<1>4. WithFile(f, e) \in Entries
  BY <1>1, <1>2, <1>3 DEF Entries, Header
<1>5. WithFile(f, e).file = NoFile => WithFile(f, e) = Cleared
  BY <1>1, <1>3 DEF Header
<1>6. ASSUME NEW parts
      PROVE  /\ WithParts(f, e, parts).file = e.file
             /\ WithParts(f, e, parts).errors = e.errors
             /\ WithParts(f, e, parts) \in Entries
             /\ \A p \in Parts : WithParts(f, e, parts).parts[p] =
                  IF p \in parts /\ e.parts[p] = NoPart THEN db[f].parts[p] ELSE e.parts[p]
  <2> DEFINE all == [p \in Parts |-> IF p \in parts /\ e.parts[p] = NoPart THEN db[f].parts[p]
                                                                           ELSE e.parts[p]]
  <2>1. WithParts(f, e, parts) = [file |-> e.file, parts |-> all, errors |-> e.errors]
    BY <1>1 DEF WithParts
  <2>2. all \in PartValues
    BY <1>1, <1>2 DEF PartValues
  <2> QED BY <2>1, <2>2, <1>1 DEF Entries
<1> QED BY <1>3, <1>4, <1>5, <1>6

(* flushToDB: what a failure leaves, and what is in the database then.     *)
LEMMA FlushedIs ==
  ASSUME TypeOK, NEW f \in Files, NEW e \in Entries, e.file # NoFile, NEW replace \in BOOLEAN
  PROVE  /\ Failure(e) \in Entries /\ (Failure(e).file = NoFile => Failure(e) = Cleared)
         /\ FlushedEntry(e) = Cleared
         /\ Committed(f, e, replace) \in Rows /\ Committed(f, e, replace).file = e.file
         /\ \A p \in Parts : Committed(f, e, replace).parts[p] =
              IF e.parts[p] # NoPart THEN e.parts[p]
              ELSE IF replace THEN NoPart ELSE db[f].parts[p]
<1>1. /\ e = [file |-> e.file, parts |-> e.parts, errors |-> e.errors] /\ e.file \in Headers
      /\ e.parts \in PartValues /\ e.errors \in 0 .. MaxFlushErrors - 1
  BY EntryIs
<1>2. db[f].parts \in PartValues
  BY DEF TypeOK, StoreTypes, Rows
<1>3. Failure(e) \in Entries /\ (Failure(e).file = NoFile => Failure(e) = Cleared)
  <2>1. CASE e.errors + 1 = MaxFlushErrors
    BY <2>1, ClearedIs DEF Failure
  <2>2. CASE e.errors + 1 # MaxFlushErrors
    <3>1. Failure(e) = [file |-> e.file, parts |-> e.parts, errors |-> e.errors + 1]
      BY <2>2, <1>1 DEF Failure
    <3>2. e.errors + 1 \in 0 .. MaxFlushErrors - 1
      BY <2>2, <1>1 DEF MaxFlushErrors
    <3> QED BY <3>1, <3>2, <1>1 DEF Entries
  <2> QED BY <2>1, <2>2
<1>4. /\ Committed(f, e, replace) \in Rows /\ Committed(f, e, replace).file = e.file
      /\ \A p \in Parts : Committed(f, e, replace).parts[p] =
           IF e.parts[p] # NoPart THEN e.parts[p] ELSE IF replace THEN NoPart ELSE db[f].parts[p]
  <2> DEFINE all == [p \in Parts |-> IF e.parts[p] # NoPart THEN e.parts[p]
                                     ELSE IF replace THEN NoPart ELSE db[f].parts[p]]
  <2>1. Committed(f, e, replace) = [file |-> e.file, parts |-> all]
    BY DEF Committed, Row
  <2>2. all \in PartValues
    BY <1>1, <1>2 DEF PartValues
  <2> QED BY <2>1, <2>2, <1>1 DEF Rows
<1> QED BY <1>3, <1>4 DEF FlushedEntry

-----------------------------------------------------------------------------
(* The callback of withLock: it works on the entry in the cache, and who   *)
(* works on an entry still does.                                           *)
LEMMA WorkKeepsInv ==
  ASSUME Inv, NEW t \in Threads, at[t] = "pinned",
         NEW e \in Entries, e.file = NoFile => e = Cleared,
         at' = [at EXCEPT ![t] = "done"],
         entries' = [entries EXCEPT ![job[t].entry] = e],
         UNCHANGED <<cache, pins, job, flushing>>,
         db' \in [Files -> Rows], toFlush' \subseteq Files, ops' \in 0 .. MaxOps
  PROVE  Inv'
<1> DEFINE i == job[t].entry
           f == job[t].file
<1>1. i \in EntryIds /\ f \in Files /\ cache[f] = i
  BY DEF Inv, TypeOK, ThreadTypes, PinnedIsCached
<1>2. \A u \in Threads : at'[u] = "idle" <=> at[u] = "idle"
  BY DEF Inv, TypeOK, ThreadTypes
<1>3. \A x \in EntryIds : entries'[x] = IF x = i THEN e ELSE entries[x]
  BY DEF Inv, TypeOK, StoreTypes
<1>4. TypeOK'
  <2>1. StoreTypes'
    BY <1>1 DEF Inv, TypeOK, StoreTypes
  <2>2. ThreadTypes'
    BY <1>2 DEF Inv, TypeOK, ThreadTypes
  <2> QED BY <2>1, <2>2 DEF Inv, TypeOK
<1>5. PinnedIsCached'
  BY <1>2 DEF Inv, PinnedIsCached
<1>6. CleanEntriesLeave'
  <2> SUFFICES ASSUME NEW g \in Files, cache[g] # NoEntry, entries'[cache[g]].file = NoFile
               PROVE  \E u \in Threads : at'[u] # "idle" /\ job[u].file = g
    BY DEF CleanEntriesLeave
  <2>1. CASE cache[g] = i
    <3>1. g = f
      BY <2>1, <1>1 DEF Inv, EntryPerFile
    <3> QED BY <3>1, <1>2
  <2>2. CASE cache[g] # i
    <3>1. cache[g] \in EntryIds
      BY DEF Inv, TypeOK, StoreTypes
    <3>2. entries[cache[g]].file = NoFile
      BY <2>2, <3>1, <1>3
    <3> QED BY <3>2, <1>2 DEF Inv, CleanEntriesLeave
  <2> QED BY <2>1, <2>2
<1>7. PinsCounted'
  <2>1. \A x : Users(x)' = Users(x)
    BY <1>2 DEF Users
  <2> QED BY <2>1 DEF Inv, PinsCounted
<1>8. EntryPerFile'
  BY DEF Inv, EntryPerFile
<1>9. CleanIsCleared'
  BY <1>3 DEF Inv, CleanIsCleared
<1> QED BY <1>4, <1>5, <1>6, <1>7, <1>8, <1>9 DEF Inv

(* getEntryAndPin: one more user of the entry of the file, or the first    *)
(* user of one that nobody has.                                            *)
LEMMA PinKeepsInv ==
  ASSUME Inv, NEW t \in Threads, NEW f \in Files, GetEntryAndPin(t, f), UNCHANGED db,
         flushing' \in BOOLEAN, toFlush' \subseteq Files, ops' \in 0 .. MaxOps
  PROVE  /\ Inv'
         /\ \A g \in Files : cache[g] # NoEntry =>
              cache'[g] = cache[g] /\ entries'[cache[g]] = entries[cache[g]]
         /\ \A g \in Files : cache[g] = NoEntry /\ cache'[g] # NoEntry =>
              entries'[cache'[g]] = Cleared
<1> DEFINE e == IF cache[f] = NoEntry THEN FreeEntry ELSE cache[f]
<1>1. /\ at[t] = "idle"
      /\ cache' = [cache EXCEPT ![f] = e]
      /\ entries' = IF cache[f] = NoEntry THEN [entries EXCEPT ![e] = Cleared] ELSE entries
      /\ pins' = [pins EXCEPT ![e] = @ + 1]
      /\ at' = [at EXCEPT ![t] = "pinned"]
      /\ job' = [job EXCEPT ![t] = [file |-> f, entry |-> e]]
  BY DEF GetEntryAndPin, PinCount
<1>2. /\ cache \in [Files -> EntryIds \union {NoEntry}] /\ entries \in [EntryIds -> Entries]
      /\ pins \in [EntryIds -> 0 .. Cardinality(Threads)]
      /\ at \in [Threads -> {"idle", "pinned", "done"}]
      /\ job \in [Threads -> [file : Files \union {NoFile}, entry : EntryIds \union {NoEntry}]]
  BY DEF Inv, TypeOK, StoreTypes, ThreadTypes
<1>3. /\ e \in EntryIds
      /\ \A g \in Files : g # f => cache[g] # e
      /\ \A u \in Threads : at[u] # "idle" /\ job[u].entry = e => job[u].file = f
  <2>1. CASE cache[f] = NoEntry
    BY <2>1, <1>1, FreeEntryExists DEF Inv
  <2>2. CASE cache[f] # NoEntry
    <3>1. \A u \in Threads : at[u] # "idle" => cache[job[u].file] = job[u].entry /\ job[u].file \in Files
      BY DEF Inv, PinnedIsCached, TypeOK, ThreadTypes
    <3> QED BY <2>2, <3>1, <1>2 DEF Inv, EntryPerFile
  <2> QED BY <2>1, <2>2
<1> HIDE DEF e
<1>4. /\ cache'[f] = e /\ \A g \in Files : g # f => cache'[g] = cache[g]
      /\ at'[t] = "pinned" /\ \A u \in Threads : u # t => at'[u] = at[u]
      /\ job'[t] = [file |-> f, entry |-> e] /\ \A u \in Threads : u # t => job'[u] = job[u]
      /\ \A x \in EntryIds : pins'[x] = IF x = e THEN pins[x] + 1 ELSE pins[x]
  BY <1>1, <1>2, <1>3
<1>5. \A x \in EntryIds : x # e => entries'[x] = entries[x]
  BY <1>1, <1>2
<1>6. cache[f] = NoEntry => entries'[e] = Cleared
  BY <1>1, <1>2, <1>3
<1>7. cache[f] # NoEntry => e = cache[f] /\ entries' = entries
  BY <1>1 DEF e
<1>8. /\ \A g \in Files : cache[g] # NoEntry =>
           cache'[g] = cache[g] /\ entries'[cache[g]] = entries[cache[g]]
      /\ \A g \in Files : cache[g] = NoEntry /\ cache'[g] # NoEntry =>
           entries'[cache'[g]] = Cleared
  BY <1>2, <1>3, <1>4, <1>5, <1>6, <1>7
<1>9. PinsCounted'
  <2> SUFFICES ASSUME NEW x \in EntryIds PROVE pins'[x] = Cardinality(Users(x)')
    BY DEF PinsCounted
  <2>1. CASE x = e
    <3>1. Users(x)' = Users(x) \union {t} /\ t \notin Users(x)
      BY <2>1, <1>1, <1>4 DEF Users
    <3>2. Cardinality(Users(x)') = Cardinality(Users(x)) + 1
      BY <3>1, UsersFinite, FS_AddElement
    <3> QED BY <3>2, <2>1, <1>4 DEF Inv, PinsCounted
  <2>2. CASE x # e
    <3>1. Users(x)' = Users(x)
      BY <2>2, <1>1, <1>4 DEF Users
    <3> QED BY <3>1, <2>2, <1>4 DEF Inv, PinsCounted
  <2> QED BY <2>1, <2>2
<1>10. TypeOK'
  <2>1. cache' \in [Files -> EntryIds \union {NoEntry}]
    BY <1>1, <1>2, <1>3
  <2>2. entries' \in [EntryIds -> Entries]
    BY <1>1, <1>2, <1>3, ClearedIs
  <2>3. pins' \in [EntryIds -> 0 .. Cardinality(Threads)]
    <3>1. \A x \in EntryIds : pins'[x] \in 0 .. Cardinality(Threads)
      <4> SUFFICES ASSUME NEW x \in EntryIds PROVE pins'[x] \in 0 .. Cardinality(Threads)
        OBVIOUS
      <4>1. Users(x)' \in SUBSET Threads
        BY DEF Users
      <4>2. Cardinality(Users(x)') \in 0 .. Cardinality(Threads)
        BY <4>1, SizesOfSets, FS_Subset, FS_CardinalityType
      <4> QED BY <4>2, <1>9 DEF PinsCounted
    <3> QED BY <3>1, <1>1, <1>2
  <2>4. StoreTypes'
    BY <2>1, <2>2, <2>3 DEF Inv, TypeOK, StoreTypes
  <2>5. ThreadTypes'
    BY <1>1, <1>2, <1>3, <1>4 DEF Inv, TypeOK, ThreadTypes
  <2> QED BY <2>4, <2>5 DEF TypeOK
<1>11. PinnedIsCached'
  <2> SUFFICES ASSUME NEW u \in Threads, at'[u] # "idle"
               PROVE  cache'[job'[u].file] = job'[u].entry
    BY DEF PinnedIsCached
  <2>1. CASE u = t
    BY <2>1, <1>4
  <2>2. CASE u # t
    <3>1. cache[job[u].file] = job[u].entry /\ job[u].file \in Files /\ job[u].entry # NoEntry
      BY <2>2, <1>4, SizesOfSets DEF Inv, PinnedIsCached, TypeOK, ThreadTypes
    <3> QED BY <2>2, <3>1, <1>4, <1>8
  <2> QED BY <2>1, <2>2
<1>12. CleanEntriesLeave'
  <2> SUFFICES ASSUME NEW g \in Files, cache'[g] # NoEntry, entries'[cache'[g]].file = NoFile
               PROVE  \E u \in Threads : at'[u] # "idle" /\ job'[u].file = g
    BY DEF CleanEntriesLeave
  <2>1. CASE g = f
    BY <2>1, <1>4
  <2>2. CASE g # f
    <3>1. cache[g] # NoEntry /\ entries[cache[g]].file = NoFile
      BY <2>2, <1>4, <1>8
    <3>2. PICK u \in Threads : at[u] # "idle" /\ job[u].file = g
      BY <3>1 DEF Inv, CleanEntriesLeave
    <3> QED BY <3>2, <1>1, <1>4
  <2> QED BY <2>1, <2>2
<1>13. EntryPerFile'
  BY <1>3, <1>4 DEF Inv, EntryPerFile
<1>14. CleanIsCleared'
  BY <1>5, <1>6, <1>7 DEF Inv, CleanIsCleared
<1> QED BY <1>8, <1>9, <1>10, <1>11, <1>12, <1>13, <1>14 DEF Inv

(* unpinEntryAndTryDelete: the last user takes a clean entry out.          *)
LEMMA UnpinKeepsInv ==
  ASSUME Inv, NEW t \in Threads, UnpinEntryAndTryDelete(t)
  PROVE  /\ Inv' /\ UNCHANGED <<db, entries, toFlush, flushing, ops>>
         /\ \A g \in Files : cache'[g] # cache[g] =>
              cache[g] # NoEntry /\ cache'[g] = NoEntry /\ entries[cache[g]] = Cleared
<1>0. PICK f \in Files, e \in EntryIds : f = job[t].file /\ e = job[t].entry /\ e = cache[f]
  BY DEF UnpinEntryAndTryDelete, Inv, PinnedIsCached, TypeOK, ThreadTypes
<1>1. at[t] = "done" /\ e # NoEntry
  BY SizesOfSets DEF UnpinEntryAndTryDelete
<1>2. /\ at' = [at EXCEPT ![t] = "idle"] /\ job' = [job EXCEPT ![t] = NoJob]
      /\ pins' = [pins EXCEPT ![e] = IF @ = 0 THEN 0 ELSE @ - 1]
      /\ cache' = IF Removable(f, e) THEN [cache EXCEPT ![f] = NoEntry] ELSE cache
      /\ UNCHANGED <<db, entries, toFlush, flushing, ops>>
  BY <1>0, <1>1 DEF UnpinEntryAndTryDelete
<1>3. /\ cache \in [Files -> EntryIds \union {NoEntry}]
      /\ pins \in [EntryIds -> 0 .. Cardinality(Threads)]
      /\ at \in [Threads -> {"idle", "pinned", "done"}]
      /\ job \in [Threads -> [file : Files \union {NoFile}, entry : EntryIds \union {NoEntry}]]
  BY DEF Inv, TypeOK, StoreTypes, ThreadTypes
<1>4. \A u \in Threads : at[u] # "idle" =>
        job[u].file \in Files /\ job[u].entry \in EntryIds /\ cache[job[u].file] = job[u].entry
  BY DEF Inv, PinnedIsCached, TypeOK, ThreadTypes
<1>5. \A u \in Threads : at[u] # "idle" /\ job[u].entry = e => job[u].file = f
  BY <1>0, <1>1, <1>4 DEF Inv, EntryPerFile
<1>6. /\ at'[t] = "idle"
      /\ \A u \in Threads : u # t => at'[u] = at[u] /\ job'[u] = job[u]
      /\ \A x \in EntryIds : x # e => pins'[x] = pins[x]
  BY <1>2, <1>3
<1>7. Users(e)' = Users(e) \ {t} /\ t \in Users(e)
  BY <1>0, <1>1, <1>6 DEF Users
<1>8. pins[e] = Cardinality(Users(e)) /\ pins[e] \in Nat \ {0}
      /\ Cardinality(Users(e)') = pins[e] - 1 /\ pins'[e] = pins[e] - 1
  <2>1. IsFiniteSet(Users(e)) /\ Cardinality(Users(e)) \in Nat /\ pins[e] = Cardinality(Users(e))
    BY <1>0, <1>1, UsersFinite, SizesOfSets DEF Inv, PinsCounted
  <2>2. Cardinality(Users(e)) # 0
    BY <2>1, <1>7, FS_EmptySet
  <2>3. Cardinality(Users(e)') = Cardinality(Users(e)) - 1
    BY <2>1, <1>7, FS_RemoveElement
  <2>4. pins'[e] = IF pins[e] = 0 THEN 0 ELSE pins[e] - 1
    BY <1>0, <1>1, <1>2, <1>3
  <2> QED BY <2>1, <2>2, <2>3, <2>4
<1>9. Removable(f, e) => /\ \A u \in Threads : u # t /\ at[u] # "idle" => job[u].entry # e
                         /\ entries[e] = Cleared
  <2> SUFFICES ASSUME Removable(f, e)
               PROVE  /\ \A u \in Threads : u # t /\ at[u] # "idle" => job[u].entry # e
                      /\ entries[e] = Cleared
    OBVIOUS
  <2>1. Cardinality(Users(e)') = 0
    BY <1>8 DEF Removable
  <2>2. Users(e) \ {t} = {}
    BY <2>1, <1>7, UsersFinite, FS_EmptySet, FS_RemoveElement
  <2> QED BY <2>2, <1>0, <1>1 DEF Users, Removable, Inv, CleanIsCleared
<1>10. /\ \A g \in Files : g # f => cache'[g] = cache[g]
       /\ cache'[f] = IF Removable(f, e) THEN NoEntry ELSE cache[f]
  BY <1>0, <1>1, <1>2, <1>3
<1>11. \A g \in Files : cache'[g] # cache[g] =>
         cache[g] # NoEntry /\ cache'[g] = NoEntry /\ entries[cache[g]] = Cleared
  BY <1>0, <1>1, <1>9, <1>10
<1>12. PinsCounted'
  <2> SUFFICES ASSUME NEW x \in EntryIds PROVE pins'[x] = Cardinality(Users(x)')
    BY DEF PinsCounted
  <2>1. CASE x = e
    BY <2>1, <1>8
  <2>2. CASE x # e
    <3>1. Users(x)' = Users(x)
      BY <2>2, <1>0, <1>1, <1>6 DEF Users
    <3> QED BY <3>1, <2>2, <1>6 DEF Inv, PinsCounted
  <2> QED BY <2>1, <2>2
<1>13. TypeOK'
  <2>1. cache' \in [Files -> EntryIds \union {NoEntry}]
    BY <1>2, <1>3
  <2>2. pins' \in [EntryIds -> 0 .. Cardinality(Threads)]
    <3>1. pins[e] - 1 \in 0 .. Cardinality(Threads)
      <4>1. pins[e] \in 0 .. Cardinality(Threads)
        BY <1>0, <1>3
      <4> QED BY <4>1, <1>8, SizesOfSets
    <3>2. \A x \in EntryIds : pins'[x] \in 0 .. Cardinality(Threads)
      BY <3>1, <1>3, <1>6, <1>8
    <3> QED BY <3>2, <1>2, <1>3
  <2>3. StoreTypes'
    BY <2>1, <2>2, <1>2 DEF Inv, TypeOK, StoreTypes
  <2>4. ThreadTypes'
    <3>1. job' \in [Threads -> [file : Files \union {NoFile}, entry : EntryIds \union {NoEntry}]]
      BY <1>2, <1>3 DEF NoJob
    <3>2. at' \in [Threads -> {"idle", "pinned", "done"}]
      BY <1>2, <1>3
    <3> QED BY <3>1, <3>2, <1>4, <1>6 DEF ThreadTypes
  <2> QED BY <2>3, <2>4, <1>2 DEF Inv, TypeOK
<1>14. PinnedIsCached'
  <2> SUFFICES ASSUME NEW u \in Threads, at'[u] # "idle"
               PROVE  cache'[job'[u].file] = job'[u].entry
    BY DEF PinnedIsCached
  <2>1. u # t /\ at[u] # "idle" /\ job'[u] = job[u]
    BY <1>6
  <2>2. job[u].file \in Files /\ cache[job[u].file] = job[u].entry
    BY <2>1, <1>4
  <2>3. CASE job[u].file = f
    <3>1. ~Removable(f, e)
      BY <2>1, <2>2, <2>3, <1>0, <1>9
    <3> QED BY <3>1, <2>1, <2>2, <2>3, <1>10
  <2>4. CASE job[u].file # f
    BY <2>1, <2>2, <2>4, <1>10
  <2> QED BY <2>3, <2>4
<1>15. CleanEntriesLeave'
  <2> SUFFICES ASSUME NEW g \in Files, cache'[g] # NoEntry, entries[cache'[g]].file = NoFile
               PROVE  \E u \in Threads : at'[u] # "idle" /\ job'[u].file = g
    BY <1>2 DEF CleanEntriesLeave
  <2>1. cache'[g] = cache[g]
    BY <1>11
  <2>2. CASE g = f
    <3>1. pins[e] > 1
      BY <2>1, <2>2, <1>0, <1>1, <1>8, <1>10 DEF Removable
    <3>2. Cardinality(Users(e)') # 0
      BY <3>1, <1>8
    <3>3. Users(e)' # {}
      BY <3>2, FS_EmptySet
    <3>4. PICK u \in Threads : u # t /\ at[u] # "idle" /\ job[u].entry = e
      BY <3>3, <1>7 DEF Users
    <3> QED BY <3>4, <2>2, <1>5, <1>6
  <2>3. CASE g # f
    <3>1. PICK u \in Threads : at[u] # "idle" /\ job[u].file = g
      BY <2>1 DEF Inv, CleanEntriesLeave
    <3> QED BY <3>1, <2>3, <1>0, <1>6
  <2> QED BY <2>2, <2>3
<1>16. EntryPerFile'
  BY <1>11 DEF Inv, EntryPerFile
<1>17. CleanIsCleared'
  BY <1>2 DEF Inv, CleanIsCleared
<1> QED BY <1>2, <1>11, <1>12, <1>13, <1>14, <1>15, <1>16, <1>17 DEF Inv

(* What a callback finds: the entry of its file, which the file is loaded  *)
(* into.                                                                   *)
LEMMA FoundIs ==
  ASSUME Inv, NEW t \in Threads, at[t] = "pinned"
  PROVE  /\ job[t].file \in Files /\ job[t].entry \in EntryIds
         /\ cache[job[t].file] = job[t].entry /\ job[t].entry # NoEntry
         /\ Entry(t) \in Entries /\ (Entry(t).file = NoFile => Entry(t) = Cleared)
         /\ FileEntry(t) \in Entries /\ (FileEntry(t).file = NoFile => FileEntry(t) = Cleared)
         /\ FileEntry(t) = [file |-> Header(job[t].file, Entry(t)), parts |-> Entry(t).parts,
                            errors |-> Entry(t).errors]
         /\ ops \in Bytes /\ db[job[t].file] \in Rows
<1>1. /\ job[t].file \in Files /\ job[t].entry \in EntryIds /\ cache[job[t].file] = job[t].entry
      /\ entries \in [EntryIds -> Entries] /\ db \in [Files -> Rows] /\ ops \in Bytes
  BY DEF Inv, TypeOK, StoreTypes, ThreadTypes, PinnedIsCached, Bytes
<1>2. Entry(t) \in Entries /\ (Entry(t).file = NoFile => Entry(t) = Cleared)
  BY <1>1 DEF Entry, Inv, CleanIsCleared
<1>3. TypeOK
  BY DEF Inv
<1> QED BY <1>1, <1>2, <1>3, LoadedIs, SizesOfSets DEF FileEntry

(* The entry that WriteAt and AppendData leave.                            *)
WrittenEntry(t, offset, n) ==
  WriteAt(job[t].file,
          WithParts(job[t].file, FileEntry(t), IncompleteParts(job[t].file, offset, n)),
          offset, n, ops)

(* It is an entry, and the file is loaded in it.                           *)
LEMMA WrittenEntryIs ==
  ASSUME Inv, NEW t \in Threads, at[t] = "pinned", FileEntry(t).file # NoFile,
         NEW offset \in Nat, NEW n \in Nat, offset + n <= MaxBytes
  PROVE  WrittenEntry(t, offset, n) \in Entries /\ WrittenEntry(t, offset, n).file # NoFile
<1> DEFINE f == job[t].file
           e == FileEntry(t)
           c == WithParts(f, e, IncompleteParts(f, offset, n))
<1>1. /\ f \in Files /\ e \in Entries /\ (e.file = NoFile => e = Cleared) /\ ops \in Bytes /\ TypeOK
  BY FoundIs DEF Inv
<1>2. c \in Entries /\ c.file = e.file
  <2> HIDE DEF e, f
  <2> QED BY <1>1, LoadedIs
<1> HIDE DEF c
<1>3. WriteAt(f, c, offset, n, ops) \in Entries /\ WriteAt(f, c, offset, n, ops).file # NoFile
  <2> DEFINE size == IF offset + n > c.file.size THEN offset + n ELSE c.file.size
  <2> HIDE DEF size, f
  <2>1. size = IF offset + n > c.file.size THEN offset + n ELSE c.file.size
    BY DEF size
  <2> QED BY <2>1, <1>1, <1>2, WriteAtIs
<1> QED BY <1>3 DEF WrittenEntry, c

(* What a step of WriteAt or AppendData writes is within the bounds.       *)
LEMMA WriteBounds ==
  ASSUME Inv, NEW t \in Threads, at[t] = "pinned", FileEntry(t).file # NoFile,
         NEW n \in Lengths, NEW offset, offset \in Offsets \union {FileEntry(t).file.size},
         WriteAtOffset(t, offset, n)
  PROVE  /\ offset \in Nat /\ n \in Nat /\ offset + n <= MaxBytes /\ offset <= FileEntry(t).file.size
         /\ Works(t, WrittenEntry(t, offset, n)) /\ UNCHANGED db
<1>1. FileEntry(t).file.size \in 0 .. MaxBytes
  <2>1. FileEntry(t) \in Entries
    BY FoundIs
  <2> QED BY <2>1, EntryIs, HeaderIs
<1>2. offset \in Nat /\ n \in Nat
  BY <1>1, WritesAssumption
<1>3. /\ offset <= FileEntry(t).file.size /\ offset + n <= MaxBytes
      /\ Works(t, WrittenEntry(t, offset, n)) /\ UNCHANGED db
  BY DEF WriteAtOffset, WrittenEntry
<1> QED BY <1>2, <1>3

(* A callback that does not fail leaves an entry and a row.                *)
LEMMA CallKeepsInv ==
  ASSUME Inv, NEW t \in Callers, CallStep(t)
  PROVE  Inv'
<1> DEFINE f == job[t].file
<1>0. t \in Threads /\ at[t] = "pinned"
  BY DEF CallStep, Threads, MakeFile, DeleteFile, WriteMeta, AppendData, WriteAtCall, CompactIJson,
         WriteFile, CallFails, Locked
<1>1. /\ f \in Files /\ Entry(t) \in Entries /\ (Entry(t).file = NoFile => Entry(t) = Cleared)
      /\ FileEntry(t) \in Entries /\ (FileEntry(t).file = NoFile => FileEntry(t) = Cleared)
      /\ ops \in Bytes /\ db[f] \in Rows
  BY <1>0, FoundIs
<1>2. db \in [Files -> Rows] /\ toFlush \subseteq Files /\ ops \in 0 .. MaxOps
  BY DEF Inv, TypeOK, StoreTypes
<1>3. ASSUME NEW e \in Entries, e.file = NoFile => e = Cleared, Works(t, e),
             NEW row \in Rows, db' = db \/ db' = [db EXCEPT ![f] = row]
      PROVE  Inv'
  <2>1. db' \in [Files -> Rows]
    BY <1>2, <1>3
  <2> QED BY <2>1, <1>0, <1>2, <1>3, WorkKeepsInv DEF Works
<1>4. ASSUME NEW e \in Entries, e.file # NoFile, NEW replace \in BOOLEAN
      PROVE  Committed(f, e, replace) \in Rows
  <2> HIDE DEF f
  <2> QED BY <1>1, <1>4, FlushedIs DEF Inv
<1> HIDE DEF f
<1>5. CASE MakeFile(t)
  <2> DEFINE row == [file |-> [size |-> 0, meta |-> ops], parts |-> db[f].parts]
  <2>1. row \in Rows
    <3>1. db[f].parts \in PartValues /\ [size |-> 0, meta |-> ops] \in Headers
      BY <1>1, WritesAssumption, IsHeader DEF Rows
    <3> QED BY <3>1 DEF Rows
  <2>2. [db EXCEPT ![f].file = [size |-> 0, meta |-> ops]] = [db EXCEPT ![f] = row]
    <3>1. db[f] = [file |-> db[f].file, parts |-> db[f].parts]
      BY <1>1 DEF Rows
    <3> DEFINE h == [size |-> 0, meta |-> ops]
    <3> HIDE DEF h
    <3>2. [db[f] EXCEPT !.file = h] = [file |-> h, parts |-> db[f].parts]
      BY <3>1
    <3>3. [db EXCEPT ![f].file = h] = [db EXCEPT ![f] = [file |-> h, parts |-> db[f].parts]]
      BY <3>2
    <3> QED BY <3>3 DEF h
  <2>3. Works(t, Entry(t)) /\ (db' = db \/ db' = [db EXCEPT ![f] = row])
    BY <1>5, <2>2 DEF MakeFile, f
  <2> HIDE DEF row
  <2> QED BY <2>1, <2>3, <1>1, <1>3
<1>6. CASE DeleteFile(t)
  <2>1. Row(NoFile, NoParts) \in Rows
    BY ClearedIs DEF Row, Rows, Headers
  <2>2. Works(t, Cleared) /\ db' = [db EXCEPT ![f] = Row(NoFile, NoParts)]
    BY <1>6 DEF DeleteFile, f
  <2> QED BY <2>1, <2>2, <1>3, ClearedIs
<1>7. CASE WriteMeta(t)
  <2> DEFINE e == [FileEntry(t) EXCEPT !.file.meta = ops]
  <2>1. FileEntry(t).file # NoFile /\ Works(t, e) /\ db' = db
    BY <1>7 DEF WriteMeta
  <2>2. e = [file |-> [size |-> FileEntry(t).file.size, meta |-> ops],
             parts |-> FileEntry(t).parts, errors |-> FileEntry(t).errors]
    BY <1>1, <2>1, EntryIs, HeaderIs
  <2>3. [size |-> FileEntry(t).file.size, meta |-> ops] \in Headers \ {NoFile}
    BY <1>1, <2>1, EntryIs, HeaderIs, IsHeader
  <2>4. e \in Entries /\ e.file # NoFile
    BY <2>2, <2>3, <1>1 DEF Entries
  <2> HIDE DEF e
  <2> QED BY <2>1, <2>4, <1>1, <1>3
<1>8. CASE AppendData(t)
  <2>1. FileEntry(t).file # NoFile
    BY <1>8 DEF AppendData
  <2>2. PICK n \in Lengths : WriteAtOffset(t, FileEntry(t).file.size, n)
    BY <1>8 DEF AppendData
  <2> DEFINE offset == FileEntry(t).file.size
  <2>3. /\ offset \in Nat /\ n \in Nat /\ offset + n <= MaxBytes
        /\ Works(t, WrittenEntry(t, offset, n)) /\ db' = db
    BY <2>1, <2>2, <1>0, WriteBounds
  <2>4. WrittenEntry(t, offset, n) \in Entries /\ WrittenEntry(t, offset, n).file # NoFile
    BY <2>1, <2>3, <1>0, WrittenEntryIs
  <2> QED BY <2>3, <2>4, <1>1, <1>3
<1>9. CASE WriteAtCall(t)
  <2>1. FileEntry(t).file # NoFile
    BY <1>9 DEF WriteAtCall
  <2>2. PICK offset \in Offsets, n \in Lengths : WriteAtOffset(t, offset, n)
    BY <1>9 DEF WriteAtCall
  <2>3. /\ offset \in Nat /\ n \in Nat /\ offset + n <= MaxBytes
        /\ Works(t, WrittenEntry(t, offset, n)) /\ db' = db
    BY <2>1, <2>2, <1>0, WriteBounds
  <2>4. WrittenEntry(t, offset, n) \in Entries /\ WrittenEntry(t, offset, n).file # NoFile
    BY <2>1, <2>3, <1>0, WrittenEntryIs
  <2> QED BY <2>3, <2>4, <1>1, <1>3
<1>10. CASE CompactIJson(t)
  <2>1. PICK n \in Lengths \union {0} : Works(t, Rewritten(f, FileEntry(t), n, ops))
    BY <1>10 DEF CompactIJson, f
  <2>2. FileEntry(t).file # NoFile /\ db' = db /\ n \in 0 .. MaxBytes
    BY <1>10, WritesAssumption DEF CompactIJson
  <2>3. /\ Rewritten(f, FileEntry(t), n, ops) \in Entries
        /\ Rewritten(f, FileEntry(t), n, ops).file # NoFile
    BY <2>2, <1>1, RewrittenIs
  <2> QED BY <2>1, <2>2, <2>3, <1>1, <1>3
<1>11. CASE WriteFile(t)
  <2>1. FileEntry(t).file # NoFile
    BY <1>11 DEF WriteFile
  <2>2. PICK n \in Lengths \union {0} :
          LET e == Rewritten(f, FileEntry(t), n, ops)
          IN Saved(t, e, TRUE) \/ CutOff(t, e, TRUE) \/ Refused(t, e)
    BY <1>11 DEF WriteFile, f
  <2> DEFINE e == Rewritten(f, FileEntry(t), n, ops)
  <2>3. e \in Entries /\ e.file # NoFile
    <3>1. n \in 0 .. MaxBytes
      BY WritesAssumption
    <3> QED BY <3>1, <2>1, <1>1, RewrittenIs
  <2> HIDE DEF e
  <2>4. /\ Failure(e) \in Entries /\ (Failure(e).file = NoFile => Failure(e) = Cleared)
        /\ FlushedEntry(e) = Cleared
    BY <2>3, <1>1, FlushedIs DEF Inv
  <2>5. Committed(f, e, TRUE) \in Rows
    BY <2>3, <1>4
  <2>6. CASE Saved(t, e, TRUE)
    BY <2>4, <2>5, <2>6, <1>3, ClearedIs DEF Saved, f
  <2>7. CASE CutOff(t, e, TRUE)
    BY <2>3, <2>5, <2>7, <1>3 DEF CutOff, f
  <2>8. CASE Refused(t, e)
    BY <2>4, <2>8, <1>1, <1>3 DEF Refused
  <2> QED BY <2>2, <2>6, <2>7, <2>8 DEF e
<1>12. CASE CallFails(t)
  BY <1>1, <1>3, <1>12 DEF CallFails
<1> QED BY <1>5, <1>6, <1>7, <1>8, <1>9, <1>10, <1>11, <1>12 DEF CallStep

(* FlushCache.                                                             *)
LEMMA FlushKeepsInv ==
  ASSUME Inv,
         FlushStart \/ FlushClean \/ FlushFails \/ FlushEnd \/ \E f \in Files : FlushNext(f) \/ FlushSaves(f)
  PROVE  Inv'
<1> DEFINE f == job[Flusher].file
           e == Entry(Flusher)
<1>0. Flusher \in Threads
  BY DEF Threads
<1>1. db \in [Files -> Rows] /\ toFlush \subseteq Files /\ ops \in 0 .. MaxOps
  BY DEF Inv, TypeOK, StoreTypes
<1>2. at[Flusher] = "pinned" =>
        f \in Files /\ e \in Entries /\ (e.file = NoFile => e = Cleared)
        /\ entries[job[Flusher].entry] = e
  BY <1>0, FoundIs DEF Entry
<1>3. at[Flusher] = "pinned" /\ e.file # NoFile =>
        /\ Failure(e) \in Entries /\ (Failure(e).file = NoFile => Failure(e) = Cleared)
        /\ FlushedEntry(e) = Cleared
        /\ Committed(f, e, FALSE) \in Rows
        /\ [db EXCEPT ![f] = Committed(f, e, FALSE)] \in [Files -> Rows]
  <2> HIDE DEF e, f
  <2> QED BY <1>1, <1>2, FlushedIs DEF Inv
<1>4. CASE FlushStart \/ FlushEnd
  <2>1. DirtyKeys \subseteq Files
    BY DEF DirtyKeys
  <2>2. /\ UNCHANGED <<db, cache, entries, pins, at, job, ops>>
        /\ toFlush' \subseteq Files /\ flushing' \in BOOLEAN
    BY <1>1, <1>4, <2>1 DEF FlushStart, FlushEnd
  <2>3. \A x : Users(x)' = Users(x)
    BY <2>2 DEF Users
  <2> QED BY <2>2, <2>3 DEF Inv, TypeOK, StoreTypes, ThreadTypes, PinnedIsCached, CleanEntriesLeave,
                           PinsCounted, EntryPerFile, CleanIsCleared
<1>5. CASE FlushClean
  BY <1>0, <1>1, <1>2, <1>5, WorkKeepsInv DEF FlushClean, Works, Locked
<1>6. CASE FlushFails
  <2>1. /\ at[Flusher] = "pinned" /\ e.file # NoFile /\ at' = [at EXCEPT ![Flusher] = "done"]
        /\ toFlush' = {} /\ UNCHANGED <<cache, pins, job, flushing, ops>>
    BY <1>6 DEF FlushFails, Locked
  <2>2. \/ entries' = [entries EXCEPT ![job[Flusher].entry] = Failure(e)] /\ db' = db
        \/ entries' = entries /\ db' \in [Files -> Rows]
    BY <1>1, <1>3, <1>6, <2>1 DEF FlushFails
  <2>3. entries = [entries EXCEPT ![job[Flusher].entry] = e]
    BY <1>2, <2>1 DEF Inv, TypeOK, StoreTypes
  <2>4. CASE entries' = [entries EXCEPT ![job[Flusher].entry] = Failure(e)] /\ db' = db
    <3> HIDE DEF e
    <3> QED BY <1>0, <1>1, <1>3, <2>1, <2>4, WorkKeepsInv
  <2>5. CASE entries' = entries /\ db' \in [Files -> Rows]
    <3> HIDE DEF e
    <3> QED BY <1>0, <1>1, <1>2, <2>1, <2>3, <2>5, WorkKeepsInv
  <2> QED BY <2>2, <2>4, <2>5
<1>7. CASE \E g \in Files : FlushNext(g)
  <2>1. PICK g \in Files : FlushNext(g)
    BY <1>7
  <2>2. /\ GetEntryAndPin(Flusher, g) /\ UNCHANGED <<db, flushing, ops>> /\ toFlush' \subseteq Files
        /\ flushing' \in BOOLEAN /\ ops' \in 0 .. MaxOps
    BY <1>1, <2>1 DEF FlushNext, Inv, TypeOK
  <2> QED BY <1>0, <2>2, PinKeepsInv
<1>8. CASE \E g \in Files : FlushSaves(g)
  <2>1. /\ at[Flusher] = "pinned" /\ e.file # NoFile /\ Works(Flusher, FlushedEntry(e))
        /\ db' = [db EXCEPT ![f] = Committed(f, e, FALSE)]
    BY <1>8 DEF FlushSaves, Saved, Locked
  <2> HIDE DEF e, f
  <2>2. Works(Flusher, Cleared) /\ db' \in [Files -> Rows]
    BY <1>3, <2>1
  <2> QED BY <1>0, <1>1, <2>1, <2>2, ClearedIs, WorkKeepsInv DEF Works
<1> QED BY <1>4, <1>5, <1>6, <1>7, <1>8

(* An empty cache, at the start and after a crash.                         *)
LEMMA EmptyCacheInv ==
  ASSUME cache = [f \in Files |-> NoEntry], entries = [e \in EntryIds |-> Cleared],
         pins = [e \in EntryIds |-> 0], at = [t \in Threads |-> "idle"],
         job = [t \in Threads |-> NoJob], toFlush = {}, flushing = FALSE,
         db \in [Files -> Rows], ops \in 0 .. MaxOps
  PROVE  Inv
<1>1. TypeOK
  <2>1. 0 \in 0 .. Cardinality(Threads)
    BY SizesOfSets
  <2>2. StoreTypes
    BY <2>1, ClearedIs DEF StoreTypes
  <2>3. ThreadTypes
    BY DEF ThreadTypes, NoJob
  <2> QED BY <2>2, <2>3 DEF TypeOK
<1>2. PinsCounted
  <2>1. \A e \in EntryIds : Users(e) = {}
    BY DEF Users
  <2> QED BY <2>1, FS_EmptySet DEF PinsCounted
<1> QED BY <1>1, <1>2 DEF Inv, PinnedIsCached, CleanEntriesLeave, EntryPerFile, CleanIsCleared

(* Every step keeps the invariant.                                         *)
LEMMA NextKeepsInv == Inv /\ [Next]_vars => Inv'
<1> SUFFICES ASSUME Inv, [Next]_vars PROVE Inv'
  OBVIOUS
<1>1. CASE \E t \in Callers : CallStep(t)
  BY <1>1, CallKeepsInv
<1>2. CASE \E t \in Callers, f \in Files : Call(t, f)
  <2>1. PICK t \in Callers, f \in Files : Call(t, f)
    BY <1>2
  <2>2. t \in Threads /\ GetEntryAndPin(t, f) /\ UNCHANGED <<db, toFlush, flushing>>
    BY <2>1 DEF Call, Threads
  <2>3. toFlush' \subseteq Files /\ flushing' \in BOOLEAN /\ ops' \in 0 .. MaxOps
    BY <2>1, WritesAssumption DEF Call, Inv, TypeOK
  <2> QED BY <2>2, <2>3, PinKeepsInv
<1>3. CASE \E t \in Threads : UnpinEntryAndTryDelete(t)
  BY <1>3, UnpinKeepsInv
<1>4. CASE FlushStart \/ FlushClean \/ FlushFails \/ FlushEnd \/ \E f \in Files : FlushNext(f) \/ FlushSaves(f)
  BY <1>4, FlushKeepsInv
<1>5. CASE Crash
  <2>1. db' \in [Files -> Rows] /\ ops' \in 0 .. MaxOps
    BY <1>5 DEF Crash, Inv, TypeOK, StoreTypes
  <2>2. (cache = [f \in Files |-> NoEntry] /\ entries = [e \in EntryIds |-> Cleared]
         /\ pins = [e \in EntryIds |-> 0] /\ at = [t \in Threads |-> "idle"]
         /\ job = [t \in Threads |-> NoJob] /\ toFlush = {} /\ flushing = FALSE
         /\ db \in [Files -> Rows] /\ ops \in 0 .. MaxOps)'
    BY <1>5, <2>1 DEF Crash
  <2> QED BY <2>2, EmptyCacheInv, PTL
<1>6. CASE UNCHANGED vars
  <2>1. \A x : Users(x)' = Users(x)
    BY <1>6 DEF vars, Users
  <2> QED BY <1>6, <2>1 DEF vars, Inv, TypeOK, StoreTypes, ThreadTypes, PinnedIsCached, CleanEntriesLeave,
                           PinsCounted, EntryPerFile, CleanIsCleared
<1> QED BY <1>1, <1>2, <1>3, <1>4, <1>5, <1>6 DEF Next

(* The store starts with an empty cache.                                   *)
LEMMA InitInv == Init => Inv
<1> SUFFICES ASSUME Init PROVE Inv
  OBVIOUS
<1>1. db \in [Files -> Rows]
  <2>1. Row([size |-> 0, meta |-> 0], NoParts) \in Rows /\ Row(NoFile, NoParts) \in Rows
    <3>1. 0 \in 0 .. MaxBytes /\ 0 \in Bytes
      BY WritesAssumption DEF Bytes
    <3>2. [size |-> 0, meta |-> 0] \in Headers /\ NoFile \in Headers
      BY <3>1, IsHeader DEF Headers
    <3> QED BY <3>2, ClearedIs DEF Rows, Row
  <2> QED BY <2>1 DEF Init
<1>2. ops \in 0 .. MaxOps
  BY WritesAssumption DEF Init
<1> QED BY <1>1, <1>2, EmptyCacheInv DEF Init

(* The invariant of the cache.                                             *)
THEOREM InvHolds == Spec => []Inv
  BY InitInv, NextKeepsInv, PTL DEF Spec

(* The cache, its entries, their pin counts and what the goroutines hold   *)
(* keep their types: withLock never lacks an entry, and unpinning never    *)
(* takes a count below zero.                                               *)
THEOREM Types == Spec => []TypeOK
<1>1. Inv => TypeOK
  BY DEF Inv
<1> QED BY <1>1, InvHolds, PTL

(* withLock works because the entry a goroutine has pinned stays the one   *)
(* in the cache; a clean entry goes with its last user.                    *)
THEOREM CachedExactlyWhileNeeded == Spec => []CachedWhileNeeded
<1>1. Inv => CachedWhileNeeded
  BY DEF Inv, CachedWhileNeeded
<1> QED BY <1>1, InvHolds, PTL

-----------------------------------------------------------------------------
(* Parts and offsets.                                                      *)

(* Quotient and remainder.                                                 *)
LEMMA Division ==
  ASSUME NEW d \in Nat \ {0}, NEW o \in Nat
  PROVE  o \div d \in Nat /\ o % d \in 0 .. d - 1 /\ o = (o \div d) * d + (o % d)
  OBVIOUS

(* The quotient and the remainder of a multiple and something less.        *)
LEMMA DivisionIs ==
  ASSUME NEW d \in Nat \ {0}, NEW q \in Nat, NEW r \in 0 .. d - 1
  PROVE  (q * d + r) \div d = q /\ (q * d + r) % d = r
  OBVIOUS

(* A larger number has no smaller quotient.                                *)
LEMMA DivisionGrows ==
  ASSUME NEW d \in Nat \ {0}, NEW a \in Nat, NEW b \in Nat, a <= b
  PROVE  a \div d <= b \div d
<1> DEFINE p == a \div d
           q == b \div d
<1>1. /\ p \in Nat /\ q \in Nat /\ a % d \in 0 .. d - 1 /\ b % d \in 0 .. d - 1
      /\ a = p * d + (a % d) /\ b = q * d + (b % d)
  BY Division
<1> HIDE DEF p, q
<1>2. p > q => p * d >= (q + 1) * d
  <2> SUFFICES ASSUME p > q PROVE p * d >= (q + 1) * d
    OBVIOUS
  <2>1. PICK j \in Nat : p = q + 1 + j
    <3>1. p - (q + 1) \in Nat /\ p = q + 1 + (p - (q + 1))
      BY <1>1
    <3> QED BY <3>1
  <2>2. p * d = (q + 1) * d + j * d /\ j * d \in Nat /\ (q + 1) * d \in Nat
    BY <2>1, <1>1
  <2> QED BY <2>2
<1>3. (q + 1) * d = q * d + d /\ p * d \in Nat /\ q * d \in Nat
  BY <1>1
<1>4. p <= q
  BY <1>1, <1>2, <1>3
<1> QED BY <1>4 DEF p, q

(* The parts of a circular file.                                           *)
MaxPart == MaxSize \div PartSize

(* MakeFile rounds the size of a circular file up to whole parts.          *)
LEMMA Ring == MaxPart \in Nat \ {0} /\ MaxSize = MaxPart * PartSize
<1>1. MaxPart \in Nat /\ MaxSize = MaxPart * PartSize + 0
  BY PartSizeAssumption, Division DEF MaxPart
<1> QED BY <1>1, PartSizeAssumption

(* The block of an offset, counted from the beginning of the file.         *)
LEMMA BlockOf ==
  ASSUME NEW o \in Nat
  PROVE  /\ o \div PartSize \in Nat /\ o % PartSize \in Slots
         /\ o = (o \div PartSize) * PartSize + (o % PartSize)
         /\ (o \div PartSize) * PartSize \in Nat
<1>1. o \div PartSize \in Nat /\ o % PartSize \in 0 .. PartSize - 1
  BY PartSizeAssumption
<1>2. o = (o \div PartSize) * PartSize + (o % PartSize)
  BY PartSizeAssumption
<1>3. (o \div PartSize) * PartSize \in Nat
  BY <1>1, PartSizeAssumption
<1> QED BY <1>1, <1>2, <1>3 DEF Slots

(* The offsets of a block are all in the part of the block.                *)
LEMMA PartOfBlock ==
  ASSUME NEW f \in Files, NEW k \in Nat, NEW i \in Slots
  PROVE  /\ PartAt(f, k * PartSize + i) = IF f \in Circular THEN k % MaxPart ELSE k
         /\ PartAt(f, k * PartSize) = IF f \in Circular THEN k % MaxPart ELSE k
         /\ (k * PartSize + i) \div PartSize = k /\ (k * PartSize + i) % PartSize = i
         /\ k * PartSize + i \in Nat /\ (k * PartSize) \div PartSize = k
<1>1. \A r \in Slots : /\ (k * PartSize + r) \div PartSize = k /\ (k * PartSize + r) % PartSize = r
                        /\ k * PartSize + r \in Nat
  BY PartSizeAssumption, DivisionIs DEF Slots
<1>2. 0 \in Slots /\ k * PartSize + 0 = k * PartSize
  BY PartSizeAssumption DEF Slots
<1>3. (k * PartSize) \div PartSize = k
  BY <1>1, <1>2
<1> QED BY <1>1, <1>3 DEF PartAt, MaxPart

(* Every offset within the bounds has a part and a place in it.            *)
LEMMA PartIs ==
  ASSUME NEW f \in Files, NEW o \in 0 .. MaxBytes
  PROVE  PartAt(f, o) \in Parts /\ o % PartSize \in Slots
<1> DEFINE k == o \div PartSize
           m == MaxBytes \div PartSize
<1>1. o \in Nat /\ MaxBytes \in Nat /\ o <= MaxBytes
  BY WritesAssumption
<1>2. k \in Nat /\ m \in Nat /\ o % PartSize \in Slots
  BY <1>1, BlockOf
<1>3. k <= m
  BY <1>1, PartSizeAssumption, DivisionGrows
<1>4. k % MaxPart \in Nat /\ k % MaxPart <= k
  <2> HIDE DEF k
  <2>1. /\ k % MaxPart \in Nat /\ k \div MaxPart \in Nat /\ k = (k \div MaxPart) * MaxPart + (k % MaxPart)
    BY <1>2, Ring
  <2>2. (k \div MaxPart) * MaxPart \in Nat
    BY <2>1, Ring
  <2> QED BY <2>1, <2>2, <1>2
<1> QED BY <1>2, <1>3, <1>4 DEF PartAt, MaxPart, Parts

(* Numbers with the same remainder are multiples apart.                    *)
LEMMA SameRemainder ==
  ASSUME NEW d \in Nat \ {0}, NEW a \in Nat, NEW b \in Nat, a % d = b % d
  PROVE  \E j \in Int : a = b + j * d
<1> DEFINE p == a \div d
           q == b \div d
<1>1. p \in Nat /\ q \in Nat /\ a % d \in Nat /\ a = p * d + (a % d) /\ b = q * d + (a % d)
  <2>1. p \in Nat /\ a % d \in Nat /\ a = p * d + (a % d)
    OBVIOUS
  <2>2. q \in Nat /\ b = q * d + (b % d)
    OBVIOUS
  <2> HIDE DEF p, q
  <2> QED BY <2>1, <2>2
<1> HIDE DEF p, q
<1>2. p - q \in Int /\ (p - q) * d = p * d - q * d
  BY <1>1
<1>3. p * d \in Nat /\ q * d \in Nat
  BY <1>1
<1>4. a = b + (p - q) * d
  BY <1>1, <1>2, <1>3
<1> QED BY <1>2, <1>4

(* Two offsets at the same place of the same part are the same offset, or  *)
(* in a circular file, whole turns apart.                                  *)
LEMMA SamePlace ==
  ASSUME NEW f \in Files, NEW o \in Nat, NEW x \in Nat,
         PartAt(f, o) = PartAt(f, x), o % PartSize = x % PartSize
  PROVE  \/ o = x
         \/ f \in Circular /\ (o >= x + MaxSize \/ o <= x - MaxSize)
<1> DEFINE k == o \div PartSize
           m == x \div PartSize
           i == o % PartSize
<1>1. /\ k \in Nat /\ m \in Nat /\ i \in Slots /\ i \in Nat
      /\ o = k * PartSize + i /\ x = m * PartSize + i
  BY BlockOf, PartSizeAssumption DEF Slots
<1>2. /\ PartAt(f, o) = IF f \in Circular THEN k % MaxPart ELSE k
      /\ PartAt(f, x) = IF f \in Circular THEN m % MaxPart ELSE m
  BY DEF PartAt, MaxPart
<1> HIDE DEF k, m, i
<1>3. CASE f \notin Circular
  BY <1>1, <1>2, <1>3
<1>4. CASE f \in Circular
  <2>1. PICK j \in Int : k = m + j * MaxPart
    <3>1. k % MaxPart = m % MaxPart
      BY <1>2, <1>4
    <3>2. MaxPart \in Nat \ {0} /\ k \in Nat /\ m \in Nat
      BY <1>1, Ring
    <3> QED BY <3>1, <3>2, SameRemainder
  <2>2. o = x + j * MaxSize
    <3>1. k * PartSize = m * PartSize + (j * MaxPart) * PartSize
      <4>1. j * MaxPart \in Int
        BY Ring
      <4> QED BY <2>1, <4>1, <1>1, PartSizeAssumption
    <3>2. (j * MaxPart) * PartSize = j * (MaxPart * PartSize)
      BY Ring, PartSizeAssumption
    <3>3. m * PartSize \in Int /\ j * MaxSize \in Int
      BY <1>1, PartSizeAssumption
    <3> QED BY <3>1, <3>2, <3>3, <1>1, Ring
  <2>3. j = 0 \/ j >= 1 \/ j <= -1
    OBVIOUS
  <2>4. j >= 1 => j * MaxSize >= MaxSize
    BY PartSizeAssumption
  <2>5. j <= -1 => j * MaxSize <= -MaxSize
    BY PartSizeAssumption
  <2>6. j = 0 => j * MaxSize = 0
    BY PartSizeAssumption
  <2>7. j * MaxSize \in Int /\ MaxSize \in Int
    BY PartSizeAssumption
  <2> QED BY <2>2, <2>3, <2>4, <2>5, <2>6, <2>7, <1>4
<1> QED BY <1>3, <1>4

(* computePartMap: the last block of a write that goes to the part of an   *)
(* earlier one.  In a circular file the next such block is MaxPart away.   *)
LEMMA LastBlock ==
  ASSUME NEW f \in Files, NEW hi \in Nat, NEW k \in 0 .. hi
  PROVE  \E c \in k .. hi :
           /\ PartAt(f, c * PartSize) = PartAt(f, k * PartSize)
           /\ \A d \in Nat : d > c /\ d <= hi => PartAt(f, d * PartSize) # PartAt(f, c * PartSize)
           /\ f \in Circular => c + MaxPart > hi
<1>0. \A b \in Nat : PartAt(f, b * PartSize) = IF f \in Circular THEN b % MaxPart ELSE b
  <2>1. 0 \in Slots
    BY PartSizeAssumption DEF Slots
  <2> QED BY <2>1, PartOfBlock
<1>1. CASE f \notin Circular
  BY <1>0, <1>1
<1>2. CASE f \in Circular
  <2> DEFINE q == (hi - k) \div MaxPart
             r == (hi - k) % MaxPart
             c == hi - r
  <2>1. /\ q \in Nat /\ r \in 0 .. MaxPart - 1 /\ hi - k = q * MaxPart + r
    <3>1. hi - k \in Nat
      OBVIOUS
    <3> QED BY <3>1, Ring
  <2> HIDE DEF q, r
  <2>2. q * MaxPart \in Nat /\ c = k + q * MaxPart
    BY <2>1, Ring
  <2>3. c \in k .. hi /\ c + MaxPart > hi
    BY <2>1, <2>2, Ring
  <2>4. c % MaxPart = k % MaxPart
    <3> DEFINE a == k \div MaxPart
               b == k % MaxPart
    <3>1. a \in Nat /\ b \in 0 .. MaxPart - 1 /\ k = a * MaxPart + b
      BY Ring
    <3> HIDE DEF a, b
    <3>2. c = (a + q) * MaxPart + b
      <4>1. (a + q) * MaxPart = a * MaxPart + q * MaxPart
        BY <2>1, <3>1, Ring
      <4>2. a * MaxPart \in Nat
        BY <3>1, Ring
      <4> QED BY <4>1, <4>2, <3>1, <2>2
    <3>3. c % MaxPart = b
      <4>1. a + q \in Nat
        BY <2>1, <3>1
      <4>2. ((a + q) * MaxPart + b) % MaxPart = b
        BY <4>1, <3>1, Ring, DivisionIs
      <4> QED BY <4>2, <3>2
    <3> QED BY <3>3 DEF b
  <2>5. ASSUME NEW d \in Nat, d > c, d <= hi PROVE d % MaxPart # c % MaxPart
    <3> SUFFICES ASSUME d % MaxPart = c % MaxPart PROVE FALSE
      OBVIOUS
    <3>1. c \in Nat
      BY <2>3
    <3>2. PICK j \in Int : d = c + j * MaxPart
      BY <3>1, Ring, SameRemainder
    <3>3. j >= 1 \/ j <= 0
      OBVIOUS
    <3>4. j >= 1 => j * MaxPart >= MaxPart
      BY Ring
    <3>5. j <= 0 => j * MaxPart <= 0
      BY Ring
    <3>6. j * MaxPart \in Int
      BY Ring
    <3> QED BY <2>3, <2>5, <3>1, <3>2, <3>3, <3>4, <3>5, <3>6, Ring
  <2> HIDE DEF c
  <2> QED BY <2>3, <2>4, <2>5, <1>0, <1>2
<1> QED BY <1>1, <1>2

(* What a file keeps.                                                      *)
First(f, size) == IF f \in Circular /\ size > MaxSize THEN size - MaxSize ELSE 0

(* In a file it is all, in a circular one what is within MaxSize of the    *)
(* end.                                                                    *)
LEMMA KeptIs ==
  ASSUME NEW f \in Files, NEW size \in Nat
  PROVE  /\ Promise!Kept(f, size) = First(f, size) .. size - 1 /\ First(f, size) \in Nat
         /\ \A o : o \in Promise!Kept(f, size) <=>
              o \in Nat /\ o < size /\ (f \in Circular => o >= size - MaxSize)
<1>1. MaxSize \in Nat
  BY PartSizeAssumption
<1> QED BY <1>1 DEF Promise!Kept, First

(* The one write that breaks it: a WriteAt that covers whole the part in   *)
(* the middle of which a circular file begins.  WriteAt does not load such *)
(* a part, writeAt then leaves away what is before the beginning, and the  *)
(* newest bytes of the file, which are in the same part, are lost.         *)
CoversBeginning(f, size, offset, n) ==
  /\ f \in Circular
  /\ \E k \in Parts : /\ k * PartSize \in offset .. size - MaxSize - 1
                       /\ (k + 1) * PartSize \in size - MaxSize + 1 .. offset + n

(* No call does so.  Nothing in the program calls WriteAt, the tests apart; *)
(* what is appended begins at the end.                                     *)
SparesBeginning ==
  \A t \in Callers, offset \in Offsets, n \in Lengths :
    Locked(t) /\ FileEntry(t).file # NoFile /\ WriteAtOffset(t, offset, n)
      => ~CoversBeginning(job[t].file, FileEntry(t).file.size, offset, n)

(* A write either covers a place of a part, or has the part completed: if  *)
(* it writes a part and leaves a byte of it that the file keeps, the part  *)
(* is one of those it loads.                                               *)
LEMMA PartIsCompleted ==
  ASSUME NEW f \in Files, NEW size \in Nat, NEW offset \in Nat, NEW n \in Nat,
         offset <= size, offset + n <= MaxBytes, size <= MaxBytes,
         ~CoversBeginning(f, size, offset, n),
         NEW after, after = (IF offset + n > size THEN offset + n ELSE size),
         NEW o \in Promise!Kept(f, after), o \notin offset .. offset + n - 1,
         NEW x \in OffsetsWritten(f, size, offset, n), PartAt(f, x) = PartAt(f, o)
  PROVE  PartAt(f, o) \in IncompleteParts(f, offset, n)
<1> DEFINE lo == offset \div PartSize
           hi == (offset + n - 1) \div PartSize
           k == x \div PartSize
           i == o % PartSize
<1>1. /\ x \in Nat /\ x >= offset /\ x <= offset + n - 1 /\ n > 0 /\ offset + n - 1 \in Nat
      /\ f \in Circular => x >= size - MaxSize
      /\ after \in Nat /\ after <= MaxBytes /\ after >= size /\ after >= offset + n
  BY WritesAssumption DEF OffsetsWritten
<1>2. /\ o \in Nat /\ o < after /\ (f \in Circular => o >= after - MaxSize) /\ o \in 0 .. MaxBytes
  <2>1. o \in Nat /\ o < after /\ (f \in Circular => o >= after - MaxSize)
    BY <1>1, KeptIs
  <2> QED BY <2>1, <1>1, WritesAssumption
<1>3. /\ lo \in Nat /\ hi \in Nat /\ k \in Nat /\ i \in Slots /\ lo <= k /\ k <= hi
      /\ x = k * PartSize + (x % PartSize) /\ x % PartSize \in Slots
  <2>1. lo \in Nat /\ hi \in Nat /\ i \in Slots
    BY <1>1, <1>2, BlockOf
  <2>2. k \in Nat /\ x = k * PartSize + (x % PartSize) /\ x % PartSize \in Slots
    BY <1>1, BlockOf
  <2>3. lo <= k /\ k <= hi
    BY <1>1, PartSizeAssumption, DivisionGrows
  <2> QED BY <2>1, <2>2, <2>3
<1>4. /\ offset + n - 1 = hi * PartSize + ((offset + n - 1) % PartSize)
      /\ (offset + n - 1) % PartSize \in 0 .. PartSize - 1
  BY <1>1, BlockOf DEF Slots
<1> HIDE DEF lo, hi, k, i
<1>5. PartAt(f, k * PartSize) = PartAt(f, o)
  <2>1. PartAt(f, k * PartSize) = PartAt(f, k * PartSize + (x % PartSize))
    BY <1>3, PartOfBlock
  <2> QED BY <2>1, <1>3
<1>6. PICK c \in k .. hi :
        /\ PartAt(f, c * PartSize) = PartAt(f, k * PartSize)
        /\ \A d \in Nat : d > c /\ d <= hi => PartAt(f, d * PartSize) # PartAt(f, c * PartSize)
        /\ f \in Circular => c + MaxPart > hi
  <2>1. k \in 0 .. hi
    BY <1>3
  <2> QED BY <2>1, <1>3, LastBlock
<1>7. c \in Nat /\ c \in lo .. hi /\ c * PartSize \in Nat /\ (c + 1) * PartSize = c * PartSize + PartSize
      /\ (c + 1) * PartSize \in Nat
  BY <1>3, <1>6, PartSizeAssumption
<1>8. offset > c * PartSize \/ offset + n < (c + 1) * PartSize
  <2> SUFFICES ASSUME offset <= c * PartSize, (c + 1) * PartSize <= offset + n
               PROVE  FALSE
    BY <1>7, <1>1
  <2> DEFINE y == c * PartSize + i
  <2>1. /\ y \in Nat /\ y % PartSize = i /\ PartAt(f, y) = PartAt(f, o)
    BY <1>3, <1>5, <1>6, <1>7, PartOfBlock
  <2>2. c * PartSize <= y /\ y < (c + 1) * PartSize /\ y \in offset .. offset + n - 1
    BY <1>1, <1>3, <1>7, PartSizeAssumption DEF Slots
  <2> HIDE DEF y
  <2>3. y # o
    BY <2>2
  <2>4. f \in Circular /\ (o >= y + MaxSize \/ o <= y - MaxSize)
    BY <2>1, <2>3, <1>2, SamePlace DEF i
  <2>5. o >= y + MaxSize
    BY <2>1, <2>2, <2>4, <1>1, <1>2, PartSizeAssumption
  <2>6. y < after - MaxSize
    BY <2>1, <2>5, <1>1, <1>2, PartSizeAssumption
  <2>7. CASE after = offset + n
    <3>1. y + MaxSize <= offset + n - 1 /\ c * PartSize + MaxSize <= offset + n - 1
      BY <2>1, <2>2, <2>6, <2>7, <1>1, <1>7, PartSizeAssumption
    <3>2. c * PartSize + MaxSize = (c + MaxPart) * PartSize /\ c + MaxPart \in Nat
      BY <1>7, Ring, PartSizeAssumption
    <3>3. c + MaxPart <= hi
      <4>1. c + MaxPart >= hi + 1 => (c + MaxPart) * PartSize >= (hi + 1) * PartSize
        BY <3>2, <1>3, PartSizeAssumption
      <4>2. (hi + 1) * PartSize = hi * PartSize + PartSize /\ hi * PartSize \in Nat
        BY <1>3, PartSizeAssumption
      <4>3. (hi + 1) * PartSize > offset + n - 1
        BY <4>2, <1>4, <1>1, PartSizeAssumption
      <4> QED BY <4>1, <4>3, <4>2, <3>1, <3>2, <1>1, <1>3, PartSizeAssumption
    <3> QED BY <3>2, <3>3, <2>4, <1>6, <1>3
  <2>8. CASE after = size
    <3>1. x < (c + 1) * PartSize
      <4>1. k + 1 <= c + 1 /\ (k + 1) * PartSize = k * PartSize + PartSize /\ k * PartSize \in Nat
        BY <1>3, <1>6, <1>7, PartSizeAssumption
      <4>2. (k + 1) * PartSize <= (c + 1) * PartSize
        BY <4>1, <1>3, <1>7, PartSizeAssumption
      <4> QED BY <4>1, <4>2, <1>3, <1>7, PartSizeAssumption DEF Slots
    <3>2. c * PartSize \in offset .. size - MaxSize - 1
      BY <2>1, <2>2, <2>6, <2>8, <1>1, <1>7, PartSizeAssumption
    <3>3. (c + 1) * PartSize \in size - MaxSize + 1 .. offset + n
      BY <3>1, <2>4, <1>1, <1>7, PartSizeAssumption
    <3>4. c \in Parts
      <4>1. (c * PartSize) \div PartSize = c
        BY <1>3, <1>7, PartOfBlock
      <4>2. c * PartSize <= MaxBytes /\ MaxBytes \in Nat
        BY <3>2, <1>1, <1>7, PartSizeAssumption, WritesAssumption
      <4>3. (c * PartSize) \div PartSize <= MaxBytes \div PartSize
        BY <4>2, <1>7, PartSizeAssumption, DivisionGrows
      <4> QED BY <4>1, <4>3, <1>7 DEF Parts
    <3> QED BY <3>2, <3>3, <3>4, <2>4 DEF CoversBeginning
  <2> QED BY <2>7, <2>8, <1>1
<1>9. \A d \in lo .. hi : d > c => PartAt(f, d * PartSize) # PartAt(f, c * PartSize)
  BY <1>3, <1>6
<1>10. n # 0
  BY <1>1
<1> QED BY <1>5, <1>6, <1>7, <1>8, <1>9, <1>10 DEF IncompleteParts, lo, hi

-----------------------------------------------------------------------------
(* What is read of a file, of a row of the database under an entry.        *)

HeaderIn(row, e) == IF e.file # NoFile THEN e.file ELSE row.file
PartIn(row, e, p) == IF e.parts[p] # NoPart THEN e.parts[p] ELSE row.parts[p]
ByteIn(f, row, e, o) ==
  IF PartIn(row, e, PartAt(f, o)) = NoPart THEN 0
  ELSE PartIn(row, e, PartAt(f, o))[o % PartSize]

Reading(f, row, e) ==
  IF HeaderIn(row, e) = NoFile THEN NoFile
  ELSE [size |-> HeaderIn(row, e).size, meta |-> HeaderIn(row, e).meta,
        at |-> [o \in Promise!Kept(f, HeaderIn(row, e).size) |-> ByteIn(f, row, e, o)]]

(* Contents reads the row that is in the database.                         *)
LEMMA ContentsIs ==
  ASSUME NEW f, NEW e
  PROVE  Contents(f, e) = Reading(f, db[f], e)
  BY DEF Contents, Reading, HeaderIn, Header, PartIn, ByteIn, Promise!Kept

(* The offsets of what a file keeps have parts.                            *)
LEMMA KeptParts ==
  ASSUME NEW f \in Files, NEW size \in 0 .. MaxBytes, NEW o \in Promise!Kept(f, size)
  PROVE  o \in 0 .. MaxBytes /\ PartAt(f, o) \in Parts /\ o % PartSize \in Slots
<1>1. o \in 0 .. MaxBytes
  BY KeptIs, WritesAssumption
<1> QED BY <1>1, PartIs

(* What is read of a file is not NoFile.                                   *)
LEMMA IsContent ==
  ASSUME NEW size \in 0 .. MaxBytes, NEW meta \in Bytes, NEW lo \in 0 .. MaxBytes,
         NEW bytes \in [lo .. size - 1 -> Bytes]
  PROVE  [size |-> size, meta |-> meta, at |-> bytes] # NoFile
<1> DEFINE S == SUBSET (0 .. MaxBytes)
<1>1. lo .. size - 1 \in S
  <2>1. \A o \in lo .. size - 1 : o \in 0 .. MaxBytes
    BY WritesAssumption
  <2> QED BY <2>1
<1> DEFINE D == lo .. size - 1
<1> HIDE DEF S, D
<1>2. D \in S /\ bytes \in [D -> Bytes]
  BY <1>1 DEF D
<1>3. bytes \in UNION {[offsets -> Bytes] : offsets \in S}
  BY <1>2
<1>4. [size |-> size, meta |-> meta, at |-> bytes] \in ReadValues
  BY <1>3 DEF ReadValues, S
<1> QED BY <1>4, NoFileAssumption

(* A reading is a file if a file is loaded or has a row.                   *)
LEMMA ReadingIs ==
  ASSUME NEW f \in Files, NEW row \in Rows, NEW e \in Entries
  PROVE  /\ HeaderIn(row, e) \in Headers
         /\ Reading(f, row, e) = NoFile <=> HeaderIn(row, e) = NoFile
<1>1. HeaderIn(row, e) \in Headers
  BY DEF HeaderIn, Rows, Entries
<1>2. ASSUME HeaderIn(row, e) # NoFile PROVE Reading(f, row, e) # NoFile
  <2> DEFINE h == HeaderIn(row, e)
             bytes == [o \in Promise!Kept(f, h.size) |-> ByteIn(f, row, e, o)]
  <2>1. h.size \in 0 .. MaxBytes /\ h.meta \in Bytes
    BY <1>1, <1>2, HeaderIs
  <2>2. \A o \in Promise!Kept(f, h.size) : ByteIn(f, row, e, o) \in Bytes
    <3> SUFFICES ASSUME NEW o \in Promise!Kept(f, h.size) PROVE ByteIn(f, row, e, o) \in Bytes
      OBVIOUS
    <3>1. PartAt(f, o) \in Parts /\ o % PartSize \in Slots
      BY <2>1, KeptParts
    <3>2. /\ e.parts[PartAt(f, o)] \in [Slots -> Bytes] \union {NoPart}
          /\ row.parts[PartAt(f, o)] \in [Slots -> Bytes] \union {NoPart}
      BY <3>1 DEF Entries, Rows, PartValues
    <3>3. 0 \in Bytes
      BY WritesAssumption DEF Bytes
    <3> QED BY <3>1, <3>2, <3>3 DEF ByteIn, PartIn
  <2>3. Promise!Kept(f, h.size) = First(f, h.size) .. h.size - 1 /\ First(f, h.size) \in 0 .. MaxBytes
    BY <2>1, PartSizeAssumption, WritesAssumption DEF Promise!Kept, First
  <2> HIDE DEF h
  <2>4. bytes \in [First(f, h.size) .. h.size - 1 -> Bytes]
    BY <2>2, <2>3
  <2> HIDE DEF bytes
  <2>6. [size |-> h.size, meta |-> h.meta, at |-> bytes] # NoFile
    BY <2>1, <2>3, <2>4, IsContent
  <2> QED BY <2>6, <1>2 DEF Reading, h, bytes
<1> QED BY <1>1, <1>2 DEF Reading

(* The same header and the same parts, where it counts: the same file.     *)
LEMMA SameReading ==
  ASSUME NEW f \in Files, NEW row, NEW e, NEW row2, NEW e2,
         HeaderIn(row2, e2) = HeaderIn(row, e),
         HeaderIn(row, e) # NoFile =>
           \A o \in Promise!Kept(f, HeaderIn(row, e).size) :
             PartIn(row2, e2, PartAt(f, o)) = PartIn(row, e, PartAt(f, o))
  PROVE  Reading(f, row2, e2) = Reading(f, row, e)
<1>1. CASE HeaderIn(row, e) = NoFile
  BY <1>1 DEF Reading
<1>2. CASE HeaderIn(row, e) # NoFile
  <2>1. \A o \in Promise!Kept(f, HeaderIn(row, e).size) : ByteIn(f, row2, e2, o) = ByteIn(f, row, e, o)
    BY <1>2 DEF ByteIn
  <2> QED BY <2>1 DEF Reading
<1> QED BY <1>1, <1>2

(* The offsets of a part that are written, and the places written to.      *)
OffsetsIn(f, offsets, p) == {o \in offsets : PartAt(f, o) = p}
PlaceWritten(f, offsets, p, i) == \E o \in OffsetsIn(f, offsets, p) : o % PartSize = i

(* A place of a part, new, where b was written at these offsets over old.  *)
Overwritten(f, new, old, offsets, b, p, i) ==
  /\ OffsetsIn(f, offsets, p) = {} => new = old
  /\ OffsetsIn(f, offsets, p) # {} =>
       /\ new # NoPart
       /\ PlaceWritten(f, offsets, p, i) => new[i] = b
       /\ ~PlaceWritten(f, offsets, p, i) => new[i] = IF old = NoPart THEN 0 ELSE old[i]

(* What writeToPart makes of the places of a part.                         *)
LEMMA PlaceAfter ==
  ASSUME NEW f, NEW parts \in PartValues, NEW offsets, NEW b \in Bytes, NEW p \in Parts,
         NEW i \in Slots
  PROVE  Overwritten(f, PartsAfter(f, parts, offsets, b)[p], parts[p], offsets, b, p, i)
<1> DEFINE new == PartsAfter(f, parts, offsets, b)[p]
           here == OffsetsIn(f, offsets, p)
           old == IF parts[p] = NoPart THEN [j \in Slots |-> 0] ELSE parts[p]
<1>1. new = IF here = {} THEN parts[p]
            ELSE [j \in Slots |-> IF \E o \in here : o % PartSize = j THEN b ELSE old[j]]
  BY DEF PartsAfter, OffsetsIn
<1>2. old \in [Slots -> Bytes]
  BY WritesAssumption DEF PartValues, Bytes
<1>3. old[i] = IF parts[p] = NoPart THEN 0 ELSE parts[p][i]
  OBVIOUS
<1>4. PlaceWritten(f, offsets, p, i) <=> \E o \in here : o % PartSize = i
  BY DEF PlaceWritten
<1> HIDE DEF old, here, new
<1>5. CASE here = {}
  BY <1>1, <1>5 DEF here, new, Overwritten
<1>6. CASE here # {}
  <2>1. new = [j \in Slots |-> IF \E o \in here : o % PartSize = j THEN b ELSE old[j]]
    BY <1>1, <1>6
  <2>2. new \in [Slots -> Bytes]
    BY <1>2, <2>1
  <2>3. new # NoPart
    BY <2>2, NoPartAssumption
  <2>4. new[i] = IF \E o \in here : o % PartSize = i THEN b ELSE old[i]
    BY <2>1
  <2> QED BY <2>3, <2>4, <1>3, <1>4, <1>6 DEF here, new, Overwritten
<1> QED BY <1>5, <1>6

(* A write of parts that were completed before is a write of the file.     *)
LEMMA ReadAfterWrite ==
  ASSUME NEW f \in Files, NEW row \in Rows, NEW e \in Entries, e.file # NoFile,
         NEW offset \in Nat, NEW n \in Nat, offset <= e.file.size, offset + n <= MaxBytes,
         ~CoversBeginning(f, e.file.size, offset, n), NEW b \in Bytes,
         NEW c \in Entries, c.file = e.file,
         \A p \in Parts : c.parts[p] = IF p \in IncompleteParts(f, offset, n) /\ e.parts[p] = NoPart
                                       THEN row.parts[p] ELSE e.parts[p]
  PROVE  Reading(f, row, WriteAt(f, c, offset, n, b)) =
           Promise!Written(f, Reading(f, row, e), offset, n, b)
<1> DEFINE size == e.file.size
           after == IF offset + n > size THEN offset + n ELSE size
           w == WriteAt(f, c, offset, n, b)
           W == OffsetsWritten(f, size, offset, n)
<1>1. size \in 0 .. MaxBytes /\ size \in Nat /\ e.file.meta \in Bytes
  BY EntryIs, HeaderIs, WritesAssumption
<1>2. after \in 0 .. MaxBytes /\ after \in Nat /\ after >= size /\ after >= offset + n
  BY <1>1, WritesAssumption
<1>3. /\ w.file = [size |-> after, meta |-> e.file.meta] /\ w.file # NoFile
      /\ w.parts = PartsAfter(f, c.parts, W, b) /\ c.parts \in PartValues
  <2>1. /\ w = [file |-> [size |-> after, meta |-> c.file.meta],
                parts |-> PartsAfter(f, c.parts, OffsetsWritten(f, c.file.size, offset, n), b),
                errors |-> c.errors]
        /\ w.file # NoFile
    <3> HIDE DEF after
    <3>1. after = IF offset + n > c.file.size THEN offset + n ELSE c.file.size
      BY DEF after
    <3> QED BY <3>1, WriteAtIs
  <2> QED BY <2>1, EntryIs
<1> HIDE DEF after, w
<1>4. ASSUME NEW o \in Promise!Kept(f, after)
      PROVE  ByteIn(f, row, w, o) = IF o \in offset .. offset + n - 1 THEN b ELSE ByteIn(f, row, e, o)
  <2> DEFINE p == PartAt(f, o)
             i == o % PartSize
             here == OffsetsIn(f, W, p)
  <2>1. /\ o \in Nat /\ o < after /\ (f \in Circular => o >= after - MaxSize)
        /\ p \in Parts /\ i \in Slots
    BY <1>2, KeptIs, KeptParts
  <2>2. /\ here = {} => w.parts[p] = c.parts[p]
        /\ here # {} => /\ w.parts[p] # NoPart
                        /\ PlaceWritten(f, W, p, i) => w.parts[p][i] = b
                        /\ ~PlaceWritten(f, W, p, i) =>
                             w.parts[p][i] = IF c.parts[p] = NoPart THEN 0 ELSE c.parts[p][i]
    <3>1. Overwritten(f, PartsAfter(f, c.parts, W, b)[p], c.parts[p], W, b, p, i)
      <4> HIDE DEF W, p, i
      <4> QED BY <1>3, <2>1, PlaceAfter
    <3> HIDE DEF W, p, i
    <3> QED BY <3>1, <1>3 DEF Overwritten
  <2>3. c.parts[p] = IF p \in IncompleteParts(f, offset, n) /\ e.parts[p] = NoPart
                     THEN row.parts[p] ELSE e.parts[p]
    BY <2>1
  <2>4. CASE o \in offset .. offset + n - 1
    <3>1. o \in W
      <4>1. f \in Circular => o >= size - MaxSize /\ o >= offset + n - MaxSize
        BY <1>1, <1>2, <2>1, PartSizeAssumption
      <4> QED BY <4>1, <2>4 DEF OffsetsWritten
    <3>2. here # {} /\ PlaceWritten(f, W, p, i)
      BY <3>1 DEF PlaceWritten, OffsetsIn
    <3>3. w.parts[p] # NoPart /\ w.parts[p][i] = b
      BY <3>2, <2>2
    <3> HIDE DEF here
    <3> QED BY <3>3, <2>4 DEF ByteIn, PartIn
  <2>5. CASE o \notin offset .. offset + n - 1
    <3>1. ~PlaceWritten(f, W, p, i)
      <4> SUFFICES ASSUME NEW x \in W, PartAt(f, x) = p, x % PartSize = i PROVE FALSE
        BY DEF PlaceWritten, OffsetsIn
      <4>1. /\ x \in Nat /\ x >= offset /\ x <= offset + n - 1 /\ PartAt(f, x) = p
            /\ f \in Circular => x >= size - MaxSize /\ x >= offset + n - MaxSize
        BY DEF OffsetsWritten
      <4>2. x # o
        BY <4>1, <2>5
      <4>3. f \in Circular => x >= after - MaxSize
        BY <4>1, <1>1, PartSizeAssumption DEF after
      <4>4. x < after
        BY <4>1, <1>2
      <4>5. f \in Circular /\ (o >= x + MaxSize \/ o <= x - MaxSize)
        BY <4>1, <4>2, <2>1, SamePlace
      <4> QED BY <4>1, <4>3, <4>4, <4>5, <2>1, <1>2, PartSizeAssumption
    <3>2. CASE here = {}
      <4>1. PartIn(row, w, p) = PartIn(row, e, p)
        BY <3>2, <2>2, <2>3 DEF PartIn
      <4> QED BY <4>1, <2>5 DEF ByteIn
    <3>3. CASE here # {}
      <4>1. PICK x \in W : PartAt(f, x) = p
        BY <3>3 DEF OffsetsIn
      <4>2. p \in IncompleteParts(f, offset, n)
        <5> HIDE DEF W
        <5>1. x \in OffsetsWritten(f, size, offset, n)
          BY DEF W
        <5>2. after = IF offset + n > size THEN offset + n ELSE size
          BY DEF after
        <5>3. size <= MaxBytes
          BY <1>1
        <5> HIDE DEF size
        <5>4. offset <= size /\ ~CoversBeginning(f, size, offset, n)
          BY DEF size
        <5> QED BY <4>1, <5>1, <5>2, <5>3, <5>4, <2>5, <1>1, PartIsCompleted
      <4>3. c.parts[p] = PartIn(row, e, p)
        BY <4>2, <2>3 DEF PartIn
      <4>4. w.parts[p] # NoPart /\ w.parts[p][i] = IF c.parts[p] = NoPart THEN 0 ELSE c.parts[p][i]
        BY <3>1, <3>3, <2>2
      <4>5. ByteIn(f, row, w, o) = w.parts[p][i]
        BY <4>4 DEF ByteIn, PartIn
      <4>6. ByteIn(f, row, e, o) = IF PartIn(row, e, p) = NoPart THEN 0 ELSE PartIn(row, e, p)[i]
        BY DEF ByteIn
      <4> HIDE DEF here, p, i
      <4> QED BY <4>3, <4>4, <4>5, <4>6, <2>5
    <3> QED BY <3>2, <3>3
  <2> QED BY <2>4, <2>5
<1>5. \A o \in Promise!Kept(f, after) : o \notin offset .. offset + n - 1 => o \in Promise!Kept(f, size)
  <2> SUFFICES ASSUME NEW o \in Promise!Kept(f, after), o \notin offset .. offset + n - 1
               PROVE  o \in Promise!Kept(f, size)
    OBVIOUS
  <2>1. o \in Nat /\ o < after /\ (f \in Circular => o >= after - MaxSize)
    BY <1>2, KeptIs
  <2>2. o < size
    BY <2>1, <1>1 DEF after
  <2>3. f \in Circular => o >= size - MaxSize
    BY <2>1, <1>1, <1>2, PartSizeAssumption
  <2> HIDE DEF size
  <2> QED BY <2>1, <2>2, <2>3, <1>1, KeptIs
<1> DEFINE r == Reading(f, row, e)
           bytes == [o \in Promise!Kept(f, size) |-> ByteIn(f, row, e, o)]
<1>6. r = [size |-> size, meta |-> e.file.meta, at |-> bytes]
  BY DEF Reading, HeaderIn
<1>7. Reading(f, row, w) = [size |-> after, meta |-> e.file.meta,
                            at |-> [o \in Promise!Kept(f, after) |-> ByteIn(f, row, w, o)]]
  BY <1>3 DEF Reading, HeaderIn
<1>8. [o \in Promise!Kept(f, after) |-> ByteIn(f, row, w, o)] =
      [o \in Promise!Kept(f, after) |-> IF o \in offset .. offset + n - 1 THEN b ELSE bytes[o]]
  BY <1>4, <1>5
<1>9. Promise!Written(f, r, offset, n, b) =
        [r EXCEPT !.size = after,
                  !.at = [o \in Promise!Kept(f, after) |-> IF o \in offset .. offset + n - 1
                                                           THEN b ELSE r.at[o]]]
  BY <1>6 DEF Promise!Written, after
<1> HIDE DEF r, bytes
<1>10. Promise!Written(f, r, offset, n, b) =
        [size |-> after, meta |-> e.file.meta,
         at |-> [o \in Promise!Kept(f, after) |-> IF o \in offset .. offset + n - 1 THEN b ELSE bytes[o]]]
  BY <1>6, <1>9
<1> QED BY <1>7, <1>8, <1>10 DEF r, w

(* A file that is replaced has nothing of what was there, and all that is  *)
(* kept of it is in the entry.                                             *)
LEMMA ReadAfterRewrite ==
  ASSUME NEW f \in Files, NEW row \in Rows, NEW e \in Entries, e.file # NoFile,
         NEW n \in 0 .. MaxBytes, NEW b \in Bytes
  PROVE  /\ Reading(f, row, Rewritten(f, e, n, b)) =
              Promise!Written(f, Promise!Empty(e.file.meta), 0, n, b)
         /\ \A o \in Promise!Kept(f, n) : Rewritten(f, e, n, b).parts[PartAt(f, o)] # NoPart
<1> DEFINE w == Rewritten(f, e, n, b)
           W == OffsetsWritten(f, 0, 0, n)
           all == [o \in Promise!Kept(f, n) |-> b]
<1>1. w.file = [size |-> n, meta |-> e.file.meta] /\ w.parts = PartsAfter(f, NoParts, W, b)
  BY RewrittenIs
<1>2. n \in Nat
  BY WritesAssumption
<1>3. w.file # NoFile
  BY RewrittenIs
<1> HIDE DEF w
<1>4. ASSUME NEW o \in Promise!Kept(f, n)
      PROVE  w.parts[PartAt(f, o)] # NoPart /\ w.parts[PartAt(f, o)][o % PartSize] = b
             /\ o \in 0 .. 0 + n - 1
  <2>1. o \in Nat /\ o < n /\ (f \in Circular => o >= n - MaxSize)
    BY <1>2, KeptIs
  <2>2. PartAt(f, o) \in Parts /\ o % PartSize \in Slots
    BY KeptParts
  <2>3. o \in W
    BY <2>1, <1>2, PartSizeAssumption DEF OffsetsWritten
  <2> HIDE DEF W
  <2>4. OffsetsIn(f, W, PartAt(f, o)) # {} /\ PlaceWritten(f, W, PartAt(f, o), o % PartSize)
    BY <2>3 DEF OffsetsIn, PlaceWritten
  <2>5. /\ PartsAfter(f, NoParts, W, b)[PartAt(f, o)] # NoPart
        /\ PartsAfter(f, NoParts, W, b)[PartAt(f, o)][o % PartSize] = b
    <3> DEFINE p == PartAt(f, o)
               i == o % PartSize
    <3>1. NoParts \in PartValues
      BY ClearedIs
    <3>2. p \in Parts /\ i \in Slots /\ OffsetsIn(f, W, p) # {} /\ PlaceWritten(f, W, p, i)
      BY <2>2, <2>4
    <3> HIDE DEF p, i
    <3>3. Overwritten(f, PartsAfter(f, NoParts, W, b)[p], NoParts[p], W, b, p, i)
      BY <3>1, <3>2, PlaceAfter
    <3> QED BY <3>2, <3>3 DEF Overwritten, p, i
  <2>6. o \in 0 .. 0 + n - 1
    BY <2>1, <1>2
  <2> QED BY <2>5, <2>6, <1>1
<1>5. \A o \in Promise!Kept(f, n) : ByteIn(f, row, w, o) = b
  BY <1>4 DEF ByteIn, PartIn
<1>6. Reading(f, row, w) = [size |-> n, meta |-> e.file.meta, at |-> all]
  BY <1>1, <1>3, <1>5 DEF Reading, HeaderIn
<1> DEFINE c == Promise!Empty(e.file.meta)
<1>7. c = [size |-> 0, meta |-> e.file.meta, at |-> [o \in {} |-> 0]]
  BY DEF Promise!Empty
<1>8. Promise!Written(f, c, 0, n, b) =
        [c EXCEPT !.size = n, !.at = [o \in Promise!Kept(f, n) |-> IF o \in 0 .. 0 + n - 1
                                                                   THEN b ELSE c.at[o]]]
  <2> HIDE DEF c
  <2> DEFINE size == IF 0 + n > c.size THEN 0 + n ELSE c.size
  <2>1. size = n
    BY <1>2, <1>7
  <2>2. Promise!Written(f, c, 0, n, b) =
          [c EXCEPT !.size = size,
                    !.at = [o \in Promise!Kept(f, size) |-> IF o \in 0 .. 0 + n - 1 THEN b ELSE c.at[o]]]
    BY DEF Promise!Written
  <2> HIDE DEF size
  <2> QED BY <2>1, <2>2
<1>9. [o \in Promise!Kept(f, n) |-> IF o \in 0 .. 0 + n - 1 THEN b ELSE c.at[o]] = all
  BY <1>4
<1> HIDE DEF c, all
<1>10. Promise!Written(f, c, 0, n, b) = [size |-> n, meta |-> e.file.meta, at |-> all]
  BY <1>7, <1>8, <1>9
<1> QED BY <1>4, <1>6, <1>10 DEF c, w

(* dbWriteCacheEntry saves what is read: from the entry and from the row   *)
(* it is saved over, or, replacing the row, from the entry alone.          *)
LEMMA ReadCommitted ==
  ASSUME TypeOK, NEW f \in Files, NEW e \in Entries, e.file # NoFile, NEW replace \in BOOLEAN,
         replace => \A o \in Promise!Kept(f, e.file.size) : e.parts[PartAt(f, o)] # NoPart
  PROVE  /\ Committed(f, e, replace) \in Rows
         /\ Reading(f, Committed(f, e, replace), e) = Reading(f, db[f], e)
         /\ Reading(f, Committed(f, e, replace), Cleared) = Reading(f, db[f], e)
<1> DEFINE row == Committed(f, e, replace)
<1>1. /\ row \in Rows /\ row.file = e.file
      /\ \A p \in Parts : row.parts[p] = IF e.parts[p] # NoPart THEN e.parts[p]
                                         ELSE IF replace THEN NoPart ELSE db[f].parts[p]
  BY FlushedIs
<1>2. e.file.size \in 0 .. MaxBytes
  BY EntryIs, HeaderIs
<1> HIDE DEF row
<1>3. HeaderIn(row, e) = HeaderIn(db[f], e) /\ HeaderIn(row, Cleared) = HeaderIn(db[f], e)
      /\ HeaderIn(db[f], e) = e.file
  BY <1>1, ClearedIs DEF HeaderIn
<1>4. ASSUME NEW o \in Promise!Kept(f, e.file.size)
      PROVE  /\ PartIn(row, e, PartAt(f, o)) = PartIn(db[f], e, PartAt(f, o))
             /\ PartIn(row, Cleared, PartAt(f, o)) = PartIn(db[f], e, PartAt(f, o))
  <2>1. PartAt(f, o) \in Parts
    BY <1>2, KeptParts
  <2>2. Cleared.parts[PartAt(f, o)] = NoPart
    BY <2>1 DEF Cleared, NoParts
  <2> QED BY <2>1, <2>2, <1>1 DEF PartIn
<1>5. Reading(f, row, e) = Reading(f, db[f], e)
  BY <1>3, <1>4, SameReading
<1>6. Reading(f, row, Cleared) = Reading(f, db[f], e)
  BY <1>3, <1>4, SameReading
<1> QED BY <1>1, <1>5, <1>6 DEF row

(* Loading a file does not change what is read of it.                      *)
LEMMA ReadLoaded ==
  ASSUME NEW f \in Files, NEW row \in Rows, NEW e \in Entries,
         NEW c \in Entries, c.file = HeaderIn(row, e), c.parts = e.parts
  PROVE  Reading(f, row, c) = Reading(f, row, e)
<1>1. HeaderIn(row, c) = HeaderIn(row, e)
  BY DEF HeaderIn
<1>2. \A p : PartIn(row, c, p) = PartIn(row, e, p)
  BY DEF PartIn
<1> QED BY <1>1, <1>2, SameReading

(* Only its header knows the meta data of a file.                          *)
LEMMA ReadAfterMeta ==
  ASSUME NEW f \in Files, NEW row \in Rows, NEW e \in Entries, e.file # NoFile, NEW b \in Bytes,
         NEW c \in Entries, c.file = [size |-> e.file.size, meta |-> b], c.file # NoFile,
         c.parts = e.parts
  PROVE  Reading(f, row, c) = [Reading(f, row, e) EXCEPT !.meta = b]
<1> DEFINE old == [o \in Promise!Kept(f, e.file.size) |-> ByteIn(f, row, e, o)]
           new == [o \in Promise!Kept(f, e.file.size) |-> ByteIn(f, row, c, o)]
<1>1. \A o : ByteIn(f, row, c, o) = ByteIn(f, row, e, o)
  BY DEF ByteIn, PartIn
<1>2. old = new
  BY <1>1
<1>3. Reading(f, row, e) = [size |-> e.file.size, meta |-> e.file.meta, at |-> old]
  BY DEF Reading, HeaderIn
<1>4. Reading(f, row, c) = [size |-> e.file.size, meta |-> b, at |-> new]
  BY DEF Reading, HeaderIn
<1> HIDE DEF old, new
<1> QED BY <1>2, <1>3, <1>4

(* A file just made is empty, whatever parts there still are.              *)
LEMMA ReadEmpty ==
  ASSUME NEW f \in Files, NEW row, NEW b \in Bytes, row.file = [size |-> 0, meta |-> b]
  PROVE  Reading(f, row, Cleared) = Promise!Empty(b)
<1>1. row.file # NoFile
  BY WritesAssumption, IsHeader
<1>2. HeaderIn(row, Cleared) = row.file
  BY ClearedIs DEF HeaderIn
<1>3. Promise!Kept(f, 0) = {}
  BY KeptIs
<1>4. [o \in Promise!Kept(f, 0) |-> ByteIn(f, row, Cleared, o)] = [o \in {} |-> 0]
  BY <1>3
<1> DEFINE h == HeaderIn(row, Cleared)
<1>5. h # NoFile /\ h.size = 0 /\ h.meta = b
  BY <1>1, <1>2
<1>6. Reading(f, row, Cleared) =
        [size |-> h.size, meta |-> h.meta,
         at |-> [o \in Promise!Kept(f, h.size) |-> ByteIn(f, row, Cleared, o)]]
  BY <1>5 DEF Reading
<1> HIDE DEF h
<1> QED BY <1>4, <1>5, <1>6 DEF Promise!Empty

-----------------------------------------------------------------------------
(* The steps of StoredFile.                                                *)

(* A step for the file f, and what is read, saved and counted of it then.  *)
Changes(f, now, onRestart, errors) ==
  /\ ReadNow' = [ReadNow EXCEPT ![f] = now]
  /\ ReadOnRestart' = [ReadOnRestart EXCEPT ![f] = onRestart]
  /\ FlushErrors' = [FlushErrors EXCEPT ![f] = errors]

Unread == UNCHANGED <<ReadNow, ReadOnRestart, FlushErrors>>

(* What Changes leaves alone.                                              *)
LEMMA ChangesOne ==
  ASSUME NEW f \in Files, NEW now, NEW onRestart, NEW errors, Changes(f, now, onRestart, errors)
  PROVE  /\ ReadNow'[f] = now /\ ReadOnRestart'[f] = onRestart
         /\ now = ReadNow[f] => ReadNow' = ReadNow
         /\ onRestart = ReadOnRestart[f] => ReadOnRestart' = ReadOnRestart
         /\ errors = FlushErrors[f] => FlushErrors' = FlushErrors
  BY DEF Changes, ReadNow, ReadOnRestart, FlushErrors

(* MakeFile.                                                               *)
LEMMA StepCreate ==
  ASSUME NEW f \in Files, NEW b \in Bytes, ReadNow[f] = NoFile,
         Changes(f, Promise!Empty(b), Promise!Empty(b), FlushErrors[f])
  PROVE  Promise!Create(f)
  BY ChangesOne DEF Changes, Promise!Create, Promise!BecomesOneOf, Promise!SavesOneOf

(* DeleteFile.                                                             *)
LEMMA StepRemove ==
  ASSUME NEW f \in Files, Changes(f, NoFile, NoFile, 0)
  PROVE  Promise!Remove(f)
  BY ChangesOne DEF Changes, Promise!Remove, Promise!BecomesOneOf, Promise!SavesOneOf, Promise!Fails

(* AppendData and WriteAt.                                                 *)
LEMMA StepWrite ==
  ASSUME NEW f \in Files, ReadNow[f] # NoFile, NEW offset \in 0 .. ReadNow[f].size,
         NEW n \in Lengths, NEW b \in Bytes,
         NEW now, now = Promise!Written(f, ReadNow[f], offset, n, b),
         Changes(f, now, ReadOnRestart[f], FlushErrors[f])
  PROVE  Promise!Write(f)
<1> DEFINE W == (0 .. ReadNow[f].size) \X Lengths \X Bytes
           w == <<offset, n, b>>
<1>1. w \in W /\ w[1] = offset /\ w[2] = n /\ w[3] = b
  OBVIOUS
<1>2. ReadNow'[f] = Promise!Written(f, ReadNow[f], w[1], w[2], w[3])
  BY <1>1, ChangesOne
<1> HIDE DEF w
<1>3. ReadNow'[f] \in {Promise!Written(f, ReadNow[f], v[1], v[2], v[3]) : v \in W}
  BY <1>1, <1>2
<1>4. ReadNow' = [ReadNow EXCEPT ![f] = ReadNow'[f]]
  BY ChangesOne DEF Changes
<1>5. ReadOnRestart' = ReadOnRestart /\ FlushErrors' = FlushErrors
  BY ChangesOne
<1> QED BY <1>3, <1>4, <1>5 DEF Promise!Write, Promise!BecomesOneOf

(* WriteMeta.                                                              *)
LEMMA StepSetMeta ==
  ASSUME NEW f \in Files, ReadNow[f] # NoFile, NEW b \in Bytes,
         Changes(f, [ReadNow[f] EXCEPT !.meta = b], ReadOnRestart[f], FlushErrors[f])
  PROVE  Promise!SetMeta(f)
<1>1. ReadNow'[f] \in {[ReadNow[f] EXCEPT !.meta = v] : v \in Bytes}
  BY ChangesOne
<1>2. ReadNow' = [ReadNow EXCEPT ![f] = ReadNow'[f]]
  BY ChangesOne DEF Changes
<1>3. ReadOnRestart' = ReadOnRestart /\ FlushErrors' = FlushErrors
  BY ChangesOne
<1> QED BY <1>1, <1>2, <1>3 DEF Promise!SetMeta, Promise!BecomesOneOf

(* WriteFile and compactIJson.                                             *)
LEMMA StepReplace ==
  ASSUME NEW f \in Files, ReadNow[f] # NoFile, NEW n \in Lengths \union {0}, NEW b \in Bytes,
         NEW now, now = Promise!Written(f, Promise!Empty(ReadNow[f].meta), 0, n, b),
         \/ Changes(f, now, ReadOnRestart[f], FlushErrors[f])
         \/ Changes(f, now, now, 0)
         \/ Changes(f, now, now, FlushErrors[f])
         \/ Changes(f, now, ReadOnRestart[f], FlushErrors[f] + 1)
              /\ FlushErrors[f] + 1 < MaxFlushErrors
  PROVE  Promise!Replace(f)
<1> DEFINE W == (Lengths \union {0}) \X Bytes
           w == <<n, b>>
           fresh == Promise!Empty(ReadNow[f].meta)
<1>1. w \in W /\ w[1] = n /\ w[2] = b
  OBVIOUS
<1>2. ReadNow'[f] = now /\ now = Promise!Written(f, fresh, 0, w[1], w[2])
  BY <1>1, ChangesOne
<1> HIDE DEF w
<1>3. ReadNow'[f] \in {Promise!Written(f, fresh, 0, v[1], v[2]) : v \in W}
  BY <1>1, <1>2
<1>4. ReadNow' = [ReadNow EXCEPT ![f] = ReadNow'[f]]
  BY <1>2 DEF Changes
<1>5. \/ ReadOnRestart' = ReadOnRestart /\ FlushErrors' = FlushErrors
      \/ /\ ReadOnRestart'[f] = ReadNow'[f]
         /\ ReadOnRestart' = [ReadOnRestart EXCEPT ![f] = ReadOnRestart'[f]]
         /\ FlushErrors' = [FlushErrors EXCEPT ![f] = 0] \/ FlushErrors' = FlushErrors
      \/ /\ ReadOnRestart' = ReadOnRestart
         /\ FlushErrors[f] + 1 < MaxFlushErrors
         /\ FlushErrors' = [FlushErrors EXCEPT ![f] = FlushErrors[f] + 1]
  BY ChangesOne DEF Changes
<1>6. Promise!BecomesOneOf(f, {Promise!Written(f, fresh, 0, v[1], v[2]) : v \in W})
  BY <1>3, <1>4 DEF Promise!BecomesOneOf
<1>7. \/ UNCHANGED <<ReadOnRestart, FlushErrors>>
      \/ Promise!SavesOneOf(f, {ReadNow'[f]}) /\ (Promise!Fails(f, 0) \/ UNCHANGED FlushErrors)
      \/ UNCHANGED ReadOnRestart /\ FlushErrors[f] + 1 < MaxFlushErrors /\ Promise!Fails(f, FlushErrors[f] + 1)
  BY <1>5 DEF Promise!SavesOneOf, Promise!Fails
<1> QED BY <1>6, <1>7 DEF Promise!Replace

(* FlushCache: the file is saved.                                          *)
LEMMA StepSave ==
  ASSUME NEW f \in Files, ReadNow[f] # NoFile,
         Changes(f, ReadNow[f], ReadNow[f], 0) \/ Changes(f, ReadNow[f], ReadNow[f], FlushErrors[f])
  PROVE  Promise!Save(f)
<1>1. ReadNow' = ReadNow /\ ReadOnRestart'[f] = ReadNow[f]
  BY ChangesOne
<1>2. ReadOnRestart' = [ReadOnRestart EXCEPT ![f] = ReadOnRestart'[f]]
  BY <1>1 DEF Changes
<1>3. FlushErrors' = [FlushErrors EXCEPT ![f] = 0] \/ FlushErrors' = FlushErrors
  BY ChangesOne DEF Changes
<1> QED BY <1>1, <1>2, <1>3 DEF Promise!Save, Promise!SavesOneOf, Promise!Fails

(* flushToDB fails, once more or for the last time.                        *)
LEMMA StepSaveFails ==
  ASSUME NEW f \in Files, ReadNow[f] # NoFile,
         \/ FlushErrors[f] + 1 < MaxFlushErrors
              /\ Changes(f, ReadNow[f], ReadOnRestart[f], FlushErrors[f] + 1)
         \/ FlushErrors[f] + 1 = MaxFlushErrors
              /\ Changes(f, ReadOnRestart[f], ReadOnRestart[f], 0)
  PROVE  Promise!SaveFails(f)
<1>1. ReadOnRestart' = ReadOnRestart
  BY ChangesOne
<1>2. CASE FlushErrors[f] + 1 < MaxFlushErrors
             /\ Changes(f, ReadNow[f], ReadOnRestart[f], FlushErrors[f] + 1)
  <2>1. ReadNow' = ReadNow /\ FlushErrors' = [FlushErrors EXCEPT ![f] = FlushErrors[f] + 1]
    BY <1>2, ChangesOne DEF Changes
  <2> QED BY <1>1, <1>2, <2>1 DEF Promise!SaveFails, Promise!Fails
<1>3. CASE FlushErrors[f] + 1 = MaxFlushErrors
             /\ Changes(f, ReadOnRestart[f], ReadOnRestart[f], 0)
  <2>1. /\ ReadNow'[f] = ReadOnRestart[f] /\ ReadNow' = [ReadNow EXCEPT ![f] = ReadNow'[f]]
        /\ FlushErrors' = [FlushErrors EXCEPT ![f] = 0]
    BY <1>3, ChangesOne DEF Changes
  <2> QED BY <1>1, <1>3, <2>1 DEF Promise!SaveFails, Promise!Fails, Promise!BecomesOneOf
<1> QED BY <1>2, <1>3

(* What is read of each file, and after a restart.                         *)
LEMMA ReadsAre ==
  /\ ReadNow = [g \in Files |-> Reading(g, db[g], CachedEntry(g))]
  /\ ReadOnRestart = [g \in Files |-> Reading(g, db[g], Cleared)]
  /\ FlushErrors = [g \in Files |-> CachedEntry(g).errors]
  BY ContentsIs DEF ReadNow, ReadOnRestart, FlushErrors

(* What the callback of withLock makes of the files: it works for one, and *)
(* leaves it as its row and its entry then say.                            *)
LEMMA WorkChanges ==
  ASSUME Inv, NEW t \in Threads, at[t] = "pinned", NEW e \in Entries, NEW row \in Rows,
         NEW f, f = job[t].file,
         entries' = [entries EXCEPT ![job[t].entry] = e], cache' = cache,
         db' = [db EXCEPT ![f] = row]
  PROVE  /\ f \in Files /\ Changes(f, Reading(f, row, e), Reading(f, row, Cleared), e.errors)
         /\ ReadNow[f] = Reading(f, db[f], Entry(t))
         /\ ReadOnRestart[f] = Reading(f, db[f], Cleared)
         /\ FlushErrors[f] = Entry(t).errors
<1> DEFINE i == job[t].entry
<1>1. f \in Files /\ i \in EntryIds /\ cache[f] = i /\ i # NoEntry
  BY FoundIs
<1>2. /\ db \in [Files -> Rows] /\ entries \in [EntryIds -> Entries]
      /\ \A g \in Files : cache[g] \in EntryIds \union {NoEntry}
  BY DEF Inv, TypeOK, StoreTypes
<1>3. \A g \in Files : g # f /\ cache[g] # NoEntry => cache[g] # i
  BY <1>1 DEF Inv, EntryPerFile
<1>4. /\ db'[f] = row /\ CachedEntry(f)' = e /\ CachedEntry(f) = Entry(t)
      /\ \A g \in Files : g # f => db'[g] = db[g] /\ CachedEntry(g)' = CachedEntry(g)
  BY <1>1, <1>2, <1>3 DEF CachedEntry, Entry
<1>5. /\ ReadNow' = [g \in Files |-> Reading(g, db'[g], CachedEntry(g)')]
      /\ ReadOnRestart' = [g \in Files |-> Reading(g, db'[g], Cleared)]
      /\ FlushErrors' = [g \in Files |-> CachedEntry(g)'.errors]
  <2>1. (/\ ReadNow = [g \in Files |-> Reading(g, db[g], CachedEntry(g))]
         /\ ReadOnRestart = [g \in Files |-> Reading(g, db[g], Cleared)]
         /\ FlushErrors = [g \in Files |-> CachedEntry(g).errors])'
    BY ReadsAre, PTL
  <2> QED BY <2>1 DEF Cleared
<1>6. \A g \in Files : g # f =>
        /\ ReadNow'[g] = ReadNow[g] /\ ReadOnRestart'[g] = ReadOnRestart[g]
        /\ FlushErrors'[g] = FlushErrors[g]
  BY <1>4, <1>5, ReadsAre
<1>7. ReadNow'[f] = Reading(f, row, e) /\ ReadOnRestart'[f] = Reading(f, row, Cleared)
      /\ FlushErrors'[f] = e.errors
  BY <1>1, <1>4, <1>5
<1>8. Changes(f, Reading(f, row, e), Reading(f, row, Cleared), e.errors)
  <2> DEFINE now == Reading(f, row, e)
             onRestart == Reading(f, row, Cleared)
  <2> HIDE DEF now, onRestart
  <2>1. ReadNow' = [ReadNow EXCEPT ![f] = now]
    BY <1>1, <1>5, <1>6, <1>7, ReadsAre DEF now
  <2>2. ReadOnRestart' = [ReadOnRestart EXCEPT ![f] = onRestart]
    BY <1>1, <1>5, <1>6, <1>7, ReadsAre DEF onRestart
  <2>3. FlushErrors' = [FlushErrors EXCEPT ![f] = e.errors]
    BY <1>1, <1>5, <1>6, <1>7, ReadsAre
  <2> QED BY <2>1, <2>2, <2>3 DEF Changes, now, onRestart
<1> QED BY <1>1, <1>4, <1>8, ReadsAre

(* What a callback finds, as a file.                                       *)
LEMMA FoundReads ==
  ASSUME Inv, NEW t \in Threads, at[t] = "pinned", NEW f, f = job[t].file
  PROVE  /\ f \in Files
         /\ ReadNow[f] = Reading(f, db[f], Entry(t)) /\ ReadNow[f] = Reading(f, db[f], FileEntry(t))
         /\ ReadOnRestart[f] = Reading(f, db[f], Cleared)
         /\ FlushErrors[f] = Entry(t).errors /\ FlushErrors[f] = FileEntry(t).errors
         /\ FlushErrors[f] \in 0 .. MaxFlushErrors - 1
         /\ FileEntry(t).file = HeaderIn(db[f], Entry(t))
         /\ FileEntry(t).file = NoFile => ReadNow[f] = NoFile
         /\ FileEntry(t).file # NoFile =>
              /\ ReadNow[f] # NoFile /\ ReadNow[f].size = FileEntry(t).file.size
              /\ ReadNow[f].meta = FileEntry(t).file.meta
<1>1. /\ f \in Files /\ cache[f] = job[t].entry /\ job[t].entry # NoEntry
      /\ Entry(t) \in Entries /\ FileEntry(t) \in Entries /\ db[f] \in Rows
      /\ FileEntry(t) = [file |-> Header(f, Entry(t)), parts |-> Entry(t).parts, errors |-> Entry(t).errors]
  BY FoundIs
<1>2. CachedEntry(f) = Entry(t)
  BY <1>1 DEF CachedEntry, Entry
<1>3. FileEntry(t).file = HeaderIn(db[f], Entry(t)) /\ FileEntry(t).parts = Entry(t).parts
      /\ FileEntry(t).errors = Entry(t).errors
  BY <1>1 DEF Header, HeaderIn
<1>4. Reading(f, db[f], FileEntry(t)) = Reading(f, db[f], Entry(t))
  BY <1>1, <1>3, ReadLoaded
<1>5. /\ ReadNow[f] = Reading(f, db[f], Entry(t)) /\ ReadOnRestart[f] = Reading(f, db[f], Cleared)
      /\ FlushErrors[f] = Entry(t).errors
  BY <1>1, <1>2, ReadsAre
<1>6. Entry(t).errors \in 0 .. MaxFlushErrors - 1
  BY <1>1, EntryIs
<1>7. ReadNow[f] = NoFile <=> FileEntry(t).file = NoFile
  BY <1>1, <1>3, <1>5, ReadingIs
<1>8. FileEntry(t).file # NoFile =>
        ReadNow[f].size = FileEntry(t).file.size /\ ReadNow[f].meta = FileEntry(t).file.meta
  BY <1>3, <1>5 DEF Reading
<1> QED BY <1>1, <1>3, <1>4, <1>5, <1>6, <1>7, <1>8

(* A step of a call that leaves what is read alone.                        *)
LEMMA ChangesNothing ==
  ASSUME NEW f \in Files, Changes(f, ReadNow[f], ReadOnRestart[f], FlushErrors[f])
  PROVE  Unread
  BY ChangesOne DEF Unread

(* An entry is written to the cache, and the database stays as it is.      *)
LEMMA CachedChanges ==
  ASSUME Inv, NEW t \in Threads, at[t] = "pinned", NEW f, f = job[t].file,
         NEW e \in Entries, Works(t, e), UNCHANGED db
  PROVE  Changes(f, Reading(f, db[f], e), ReadOnRestart[f], e.errors)
<1>1. db[f] \in Rows /\ db = [db EXCEPT ![f] = db[f]]
  BY FoundIs DEF Inv, TypeOK, StoreTypes
<1>2. Changes(f, Reading(f, db[f], e), Reading(f, db[f], Cleared), e.errors)
  <2> DEFINE row == db[f]
  <2> HIDE DEF row
  <2>1. row \in Rows /\ db' = [db EXCEPT ![f] = row]
    BY <1>1 DEF row
  <2>2. Changes(f, Reading(f, row, e), Reading(f, row, Cleared), e.errors)
    BY <2>1, WorkChanges DEF Works
  <2> QED BY <2>2 DEF row
<1> QED BY <1>2, FoundReads

(* ... or the row is saved, too, and the entry cleared or kept.            *)
LEMMA SavedChanges ==
  ASSUME Inv, NEW t \in Threads, at[t] = "pinned", NEW f, f = job[t].file,
         NEW e \in Entries, e.file # NoFile, NEW replace \in BOOLEAN,
         replace => \A o \in Promise!Kept(f, e.file.size) : e.parts[PartAt(f, o)] # NoPart,
         NEW left \in {e, Cleared},
         entries' = [entries EXCEPT ![job[t].entry] = left], cache' = cache,
         db' = [db EXCEPT ![f] = Committed(f, e, replace)],
         NEW now, now = Reading(f, db[f], e)
  PROVE  Changes(f, now, now, left.errors)
<1>1. f \in Files /\ TypeOK
  BY FoundIs DEF Inv
<1> DEFINE row == Committed(f, e, replace)
<1>2. row \in Rows /\ Reading(f, row, e) = now /\ Reading(f, row, Cleared) = now
  BY <1>1, ReadCommitted
<1>3. left \in Entries
  BY ClearedIs
<1> HIDE DEF row
<1>4. Changes(f, Reading(f, row, left), Reading(f, row, Cleared), left.errors)
  <2>1. db' = [db EXCEPT ![f] = row]
    BY DEF row
  <2> QED BY <2>1, <1>2, <1>3, WorkChanges
<1> QED BY <1>2, <1>4

(* flushToDB fails: the entry counts it, or is cleared.                    *)
LEMMA RefusedChanges ==
  ASSUME Inv, NEW t \in Threads, at[t] = "pinned", NEW f, f = job[t].file,
         NEW e \in Entries, e.file # NoFile, e.errors = FlushErrors[f],
         entries' = [entries EXCEPT ![job[t].entry] = Failure(e)], cache' = cache, UNCHANGED db,
         NEW now, now = Reading(f, db[f], e)
  PROVE  \/ FlushErrors[f] + 1 < MaxFlushErrors
              /\ Changes(f, now, ReadOnRestart[f], FlushErrors[f] + 1)
         \/ FlushErrors[f] + 1 = MaxFlushErrors
              /\ Changes(f, ReadOnRestart[f], ReadOnRestart[f], 0)
<1>1. /\ f \in Files /\ TypeOK /\ db[f] \in Rows /\ db = [db EXCEPT ![f] = db[f]]
  BY FoundIs DEF Inv, TypeOK, StoreTypes
<1>2. e.errors \in 0 .. MaxFlushErrors - 1
  BY EntryIs
<1>3. Failure(e) \in Entries
  BY <1>1, FlushedIs
<1>4. ReadOnRestart[f] = Reading(f, db[f], Cleared)
  BY FoundReads
<1>5. Changes(f, Reading(f, db[f], Failure(e)), ReadOnRestart[f], Failure(e).errors)
  <2> DEFINE row == db[f]
             c == Failure(e)
  <2> HIDE DEF row, c
  <2>1. row \in Rows /\ db' = [db EXCEPT ![f] = row] /\ c \in Entries
    BY <1>1, <1>3 DEF row, c
  <2>2. Changes(f, Reading(f, row, c), Reading(f, row, Cleared), c.errors)
    BY <2>1, WorkChanges DEF c
  <2> QED BY <2>2, <1>4 DEF row, c
<1>6. CASE e.errors + 1 = MaxFlushErrors
  <2>1. Failure(e) = Cleared
    BY <1>6 DEF Failure
  <2> QED BY <2>1, <1>4, <1>5, <1>6, ClearedIs
<1>7. CASE e.errors + 1 # MaxFlushErrors
  <2>1. Failure(e) = [e EXCEPT !.errors = e.errors + 1]
    BY <1>7 DEF Failure
  <2>2. /\ Failure(e).file = e.file /\ Failure(e).parts = e.parts
        /\ Failure(e).errors = e.errors + 1
    BY <2>1, EntryIs
  <2>3. HeaderIn(db[f], e) = e.file
    BY DEF HeaderIn
  <2>4. Reading(f, db[f], Failure(e)) = now
    BY <2>2, <2>3, <1>1, <1>3, ReadLoaded
  <2>5. FlushErrors[f] + 1 < MaxFlushErrors
    BY <1>2, <1>7 DEF MaxFlushErrors
  <2> QED BY <2>2, <2>4, <2>5, <1>5
<1> QED BY <1>6, <1>7

(* WriteAt and AppendData are a write of the file, unless it covers whole  *)
(* the part in which a circular file begins.                               *)
LEMMA WriteRefines ==
  ASSUME Inv, NEW t \in Threads, at[t] = "pinned", NEW f, f = job[t].file,
         FileEntry(t).file # NoFile, NEW n \in Lengths, NEW offset,
         offset \in Offsets \union {FileEntry(t).file.size}, WriteAtOffset(t, offset, n),
         ~CoversBeginning(f, FileEntry(t).file.size, offset, n)
  PROVE  Promise!Write(f)
<1> DEFINE e == FileEntry(t)
           c == WithParts(f, e, IncompleteParts(f, offset, n))
<1>1. /\ offset \in Nat /\ n \in Nat /\ offset + n <= MaxBytes /\ offset <= e.file.size
      /\ Works(t, WrittenEntry(t, offset, n)) /\ UNCHANGED db
  BY WriteBounds
<1>2. /\ f \in Files /\ e \in Entries /\ (e.file = NoFile => e = Cleared) /\ db[f] \in Rows
      /\ ops \in Bytes /\ TypeOK
  BY FoundIs DEF Inv
<1>3. /\ ReadNow[f] # NoFile /\ ReadNow[f].size = e.file.size
      /\ ReadNow[f] = Reading(f, db[f], e) /\ FlushErrors[f] = e.errors
  BY FoundReads
<1>4. WrittenEntry(t, offset, n) = WriteAt(f, c, offset, n, ops)
  BY DEF WrittenEntry
<1>5. e.file.size \in 0 .. MaxBytes
  BY <1>2, EntryIs, HeaderIs
<1> HIDE DEF e
<1>6. /\ c \in Entries /\ c.file = e.file /\ c.errors = e.errors
      /\ \A p \in Parts : c.parts[p] = IF p \in IncompleteParts(f, offset, n) /\ e.parts[p] = NoPart
                                       THEN db[f].parts[p] ELSE e.parts[p]
  BY <1>2, LoadedIs
<1>7. e.file # NoFile /\ ~CoversBeginning(f, e.file.size, offset, n)
  BY DEF e
<1> HIDE DEF c
<1> DEFINE w == WriteAt(f, c, offset, n, ops)
<1>8. Reading(f, db[f], w) = Promise!Written(f, ReadNow[f], offset, n, ops)
  <2> DEFINE row == db[f]
  <2>1. row \in Rows /\ ReadNow[f] = Reading(f, row, e)
    BY <1>2, <1>3
  <2>2. \A p \in Parts : c.parts[p] = IF p \in IncompleteParts(f, offset, n) /\ e.parts[p] = NoPart
                                      THEN row.parts[p] ELSE e.parts[p]
    BY <1>6
  <2> HIDE DEF row
  <2>3. Reading(f, row, w) = Promise!Written(f, Reading(f, row, e), offset, n, ops)
    BY <2>1, <2>2, <1>1, <1>2, <1>6, <1>7, ReadAfterWrite
  <2> QED BY <2>1, <2>3 DEF row
<1>9. w \in Entries /\ w.errors = FlushErrors[f]
  <2>1. w \in Entries
    BY <1>1, <1>4, <1>7, WrittenEntryIs DEF e
  <2>2. w.errors = c.errors
    BY DEF WriteAt
  <2> QED BY <2>1, <2>2, <1>3, <1>6
<1> DEFINE now == Reading(f, db[f], w)
<1>10. Works(t, w)
  BY <1>1, <1>4
<1> HIDE DEF w
<1>11. Changes(f, now, ReadOnRestart[f], FlushErrors[f])
  BY <1>1, <1>9, <1>10, CachedChanges
<1>12. offset \in 0 .. ReadNow[f].size
  BY <1>1, <1>3, <1>5
<1>13. now = Promise!Written(f, ReadNow[f], offset, n, ops)
  BY <1>8
<1> HIDE DEF now
<1> QED BY <1>2, <1>3, <1>11, <1>12, <1>13, StepWrite

(* What WriteFile and compactIJson write is empty or has a length a write  *)
(* may have.                                                               *)
LEMMA LengthsAre == \A n \in Lengths \union {0} : n \in 0 .. MaxBytes
<1>1. 0 \in 0 .. MaxBytes
  BY WritesAssumption
<1> QED BY <1>1, WritesAssumption

(* WriteFile, and compactIJson, which only writes to the cache, replace    *)
(* the file; WriteFile may fail to save it, once more or too often.        *)
LEMMA RewriteRefines ==
  ASSUME Inv, NEW t \in Threads, at[t] = "pinned", NEW f, f = job[t].file,
         FileEntry(t).file # NoFile, NEW n \in Lengths \union {0},
         NEW e, e = Rewritten(f, FileEntry(t), n, ops),
         \/ Works(t, e) /\ UNCHANGED db
         \/ Saved(t, e, TRUE) \/ CutOff(t, e, TRUE) \/ Refused(t, e)
  PROVE  Promise!Replace(f) \/ Promise!SaveFails(f)
<1>1. /\ f \in Files /\ FileEntry(t) \in Entries /\ db[f] \in Rows /\ ops \in Bytes
  BY FoundIs
<1>2. n \in 0 .. MaxBytes
  BY LengthsAre
<1>3. /\ ReadNow[f] # NoFile /\ ReadNow[f].meta = FileEntry(t).file.meta
      /\ FlushErrors[f] = FileEntry(t).errors
  BY FoundReads
<1>4. /\ e \in Entries /\ e.file # NoFile /\ e.file.size = n /\ e.errors = FlushErrors[f]
  BY <1>1, <1>2, <1>3, RewrittenIs
<1> DEFINE now == Reading(f, db[f], e)
<1>5. /\ now = Promise!Written(f, Promise!Empty(ReadNow[f].meta), 0, n, ops)
      /\ \A o \in Promise!Kept(f, e.file.size) : e.parts[PartAt(f, o)] # NoPart
  BY <1>1, <1>2, <1>3, <1>4, ReadAfterRewrite
<1>6. CASE Works(t, e) /\ UNCHANGED db
  <2>1. Changes(f, now, ReadOnRestart[f], FlushErrors[f])
    BY <1>4, <1>6, CachedChanges
  <2> HIDE DEF now
  <2> QED BY <2>1, <1>1, <1>3, <1>5, StepReplace
<1>7. ASSUME NEW left \in {e, Cleared}, Works(t, left), db' = [db EXCEPT ![f] = Committed(f, e, TRUE)]
      PROVE  Promise!Replace(f)
  <2>1. Changes(f, now, now, left.errors)
    BY <1>4, <1>5, <1>7, SavedChanges DEF Works
  <2>2. left.errors = 0 \/ left.errors = FlushErrors[f]
    BY <1>4, ClearedIs
  <2> HIDE DEF now
  <2> QED BY <2>1, <2>2, <1>1, <1>3, <1>5, StepReplace
<1>8. CASE Saved(t, e, TRUE)
  BY <1>7, <1>8 DEF Saved, FlushedEntry
<1>9. CASE CutOff(t, e, TRUE)
  BY <1>6, <1>7, <1>9 DEF CutOff
<1>10. CASE Refused(t, e)
  <2>1. \/ FlushErrors[f] + 1 < MaxFlushErrors
             /\ Changes(f, now, ReadOnRestart[f], FlushErrors[f] + 1)
        \/ FlushErrors[f] + 1 = MaxFlushErrors
             /\ Changes(f, ReadOnRestart[f], ReadOnRestart[f], 0)
    BY <1>4, <1>10, RefusedChanges DEF Refused, Works
  <2> HIDE DEF now
  <2>2. CASE FlushErrors[f] + 1 < MaxFlushErrors
               /\ Changes(f, now, ReadOnRestart[f], FlushErrors[f] + 1)
    BY <2>2, <1>1, <1>3, <1>5, StepReplace
  <2>3. CASE FlushErrors[f] + 1 = MaxFlushErrors
               /\ Changes(f, ReadOnRestart[f], ReadOnRestart[f], 0)
    BY <2>3, <1>1, <1>3, StepSaveFails
  <2> QED BY <2>1, <2>2, <2>3
<1> QED BY <1>6, <1>8, <1>9, <1>10

(* Every step of a call is one of the file, or nothing to its readers.     *)
LEMMA CallRefines ==
  ASSUME Inv, NEW t \in Callers, CallStep(t), SparesBeginning
  PROVE  Promise!Next \/ Unread
<1> DEFINE f == job[t].file
<1>1. t \in Threads /\ at[t] = "pinned"
  BY DEF CallStep, Threads, MakeFile, DeleteFile, WriteMeta, AppendData, WriteAtCall, CompactIJson,
         WriteFile, CallFails, Locked
<1>2. /\ f \in Files /\ Entry(t) \in Entries /\ (Entry(t).file = NoFile => Entry(t) = Cleared)
      /\ FileEntry(t) \in Entries /\ ops \in Bytes /\ db[f] \in Rows
  BY <1>1, FoundIs
<1>3. db = [db EXCEPT ![f] = db[f]]
  BY <1>2 DEF Inv, TypeOK, StoreTypes
<1>4. /\ ReadNow[f] = Reading(f, db[f], Entry(t)) /\ ReadNow[f] = Reading(f, db[f], FileEntry(t))
      /\ ReadOnRestart[f] = Reading(f, db[f], Cleared)
      /\ FlushErrors[f] = Entry(t).errors /\ FlushErrors[f] = FileEntry(t).errors
      /\ FileEntry(t).file = HeaderIn(db[f], Entry(t))
      /\ FileEntry(t).file = NoFile => ReadNow[f] = NoFile
      /\ FileEntry(t).file # NoFile => ReadNow[f] # NoFile
  BY <1>1, FoundReads
<1>5. ASSUME NEW e \in {Entry(t), FileEntry(t)}, Works(t, e), UNCHANGED db PROVE Unread
  <2> HIDE DEF f
  <2>1. Changes(f, Reading(f, db[f], e), ReadOnRestart[f], e.errors)
    BY <1>1, <1>2, <1>5, CachedChanges DEF f
  <2>2. Reading(f, db[f], e) = ReadNow[f] /\ e.errors = FlushErrors[f]
    BY <1>4
  <2> QED BY <2>1, <2>2, <1>2, ChangesNothing
<1> HIDE DEF f
<1>6. CASE MakeFile(t)
  <2>1. CASE Entry(t).file = NoFile /\ db[f].file = NoFile
    <3> DEFINE row == [file |-> [size |-> 0, meta |-> ops], parts |-> db[f].parts]
    <3>1. row \in Rows
      <4>1. db[f].parts \in PartValues /\ [size |-> 0, meta |-> ops] \in Headers
        BY <1>2, WritesAssumption, IsHeader DEF Rows
      <4> QED BY <4>1 DEF Rows
    <3>2. db' = [db EXCEPT ![f] = row]
      <4>1. db[f] = [file |-> db[f].file, parts |-> db[f].parts]
        BY <1>2 DEF Rows
      <4> DEFINE h == [size |-> 0, meta |-> ops]
      <4>2. db' = [db EXCEPT ![f].file = h]
        BY <1>6, <2>1 DEF MakeFile, f
      <4> HIDE DEF h
      <4>3. [db[f] EXCEPT !.file = h] = [file |-> h, parts |-> db[f].parts]
        BY <4>1
      <4>4. db' = [db EXCEPT ![f] = [file |-> h, parts |-> db[f].parts]]
        BY <4>2, <4>3
      <4> QED BY <4>4 DEF h
    <3>3. row.file = [size |-> 0, meta |-> ops]
      OBVIOUS
    <3>4. Entry(t) = Cleared /\ Cleared.errors = 0
      BY <1>2, <2>1, ClearedIs
    <3>5. Works(t, Cleared)
      BY <1>6, <3>4 DEF MakeFile
    <3> HIDE DEF row
    <3>6. Reading(f, row, Cleared) = Promise!Empty(ops)
      BY <3>3, <1>2, ReadEmpty
    <3>7. Changes(f, Reading(f, row, Cleared), Reading(f, row, Cleared), Cleared.errors)
      BY <3>1, <3>2, <3>5, <1>1, ClearedIs, WorkChanges DEF Works, f
    <3>8. Changes(f, Promise!Empty(ops), Promise!Empty(ops), FlushErrors[f])
      BY <3>4, <3>6, <3>7, <1>4
    <3>9. ReadNow[f] = NoFile
      BY <2>1, <1>4 DEF HeaderIn
    <3> QED BY <3>8, <3>9, <1>2, StepCreate DEF Promise!Next
  <2>2. CASE ~(Entry(t).file = NoFile /\ db[f].file = NoFile)
    BY <2>2, <1>5, <1>6 DEF MakeFile, f
  <2> QED BY <2>1, <2>2
<1>7. CASE DeleteFile(t)
  <2> DEFINE row == Row(NoFile, NoParts)
  <2>1. row \in Rows /\ row.file = NoFile
    BY ClearedIs DEF Row, Rows, Headers
  <2>2. Works(t, Cleared) /\ db' = [db EXCEPT ![f] = row]
    BY <1>7 DEF DeleteFile, f
  <2> HIDE DEF row
  <2>3. Changes(f, Reading(f, row, Cleared), Reading(f, row, Cleared), Cleared.errors)
    BY <2>1, <2>2, <1>1, ClearedIs, WorkChanges DEF Works, f
  <2>4. Reading(f, row, Cleared) = NoFile
    BY <2>1, ClearedIs DEF Reading, HeaderIn
  <2>5. Changes(f, NoFile, NoFile, 0)
    BY <2>3, <2>4, ClearedIs
  <2> QED BY <2>5, <1>2, StepRemove DEF Promise!Next
<1>8. CASE WriteMeta(t)
  <2> DEFINE e == [FileEntry(t) EXCEPT !.file.meta = ops]
  <2>1. FileEntry(t).file # NoFile /\ Works(t, e) /\ db' = db
    BY <1>8 DEF WriteMeta
  <2>2. e = [file |-> [size |-> FileEntry(t).file.size, meta |-> ops],
             parts |-> FileEntry(t).parts, errors |-> FileEntry(t).errors]
    BY <1>2, <2>1, EntryIs, HeaderIs
  <2>3. [size |-> FileEntry(t).file.size, meta |-> ops] \in Headers \ {NoFile}
    BY <1>2, <2>1, EntryIs, HeaderIs, IsHeader
  <2>4. /\ e \in Entries /\ e.file # NoFile /\ e.file = [size |-> FileEntry(t).file.size, meta |-> ops]
        /\ e.parts = FileEntry(t).parts /\ e.errors = FlushErrors[f]
    BY <2>2, <2>3, <1>2, <1>4 DEF Entries
  <2> HIDE DEF e
  <2>5. Changes(f, Reading(f, db[f], e), ReadOnRestart[f], e.errors)
    BY <2>1, <2>4, <1>1, CachedChanges DEF f
  <2>6. Reading(f, db[f], e) = [Reading(f, db[f], FileEntry(t)) EXCEPT !.meta = ops]
    BY <2>1, <2>4, <1>2, ReadAfterMeta
  <2>7. Changes(f, [ReadNow[f] EXCEPT !.meta = ops], ReadOnRestart[f], FlushErrors[f])
    BY <2>4, <2>5, <2>6, <1>4
  <2> QED BY <2>1, <2>7, <1>2, <1>4, StepSetMeta DEF Promise!Next
<1>9. CASE AppendData(t)
  <2>1. FileEntry(t).file # NoFile
    BY <1>9 DEF AppendData
  <2> DEFINE offset == FileEntry(t).file.size
  <2>2. PICK n \in Lengths : WriteAtOffset(t, offset, n)
    BY <1>9 DEF AppendData
  <2>3. offset \in Nat
    BY <1>2, <2>1, EntryIs, HeaderIs
  <2>4. ~CoversBeginning(f, offset, offset, n)
    BY <2>3, PartSizeAssumption DEF CoversBeginning
  <2> QED BY <2>1, <2>2, <2>4, <1>1, <1>2, WriteRefines DEF Promise!Next, f
<1>10. CASE WriteAtCall(t)
  <2>1. FileEntry(t).file # NoFile
    BY <1>10 DEF WriteAtCall
  <2>2. PICK offset \in Offsets, n \in Lengths : WriteAtOffset(t, offset, n)
    BY <1>10 DEF WriteAtCall
  <2>3. ~CoversBeginning(f, FileEntry(t).file.size, offset, n)
    BY <2>1, <2>2, <1>10 DEF SparesBeginning, WriteAtCall, f
  <2>4. Promise!Write(f)
    BY <2>1, <2>2, <2>3, <1>1, WriteRefines DEF f
  <2> QED BY <2>4, <1>2 DEF Promise!Next
<1>11. CASE CompactIJson(t)
  <2>1. PICK n \in Lengths \union {0} : Works(t, Rewritten(f, FileEntry(t), n, ops))
    BY <1>11 DEF CompactIJson, f
  <2>2. FileEntry(t).file # NoFile /\ UNCHANGED db
    BY <1>11 DEF CompactIJson
  <2>3. Promise!Replace(f) \/ Promise!SaveFails(f)
    BY <2>1, <2>2, <1>1, RewriteRefines DEF f
  <2> QED BY <2>3, <1>2 DEF Promise!Next
<1>12. CASE WriteFile(t)
  <2>1. FileEntry(t).file # NoFile
    BY <1>12 DEF WriteFile
  <2>2. PICK n \in Lengths \union {0} :
          LET e == Rewritten(f, FileEntry(t), n, ops)
          IN Saved(t, e, TRUE) \/ CutOff(t, e, TRUE) \/ Refused(t, e)
    BY <1>12 DEF WriteFile, f
  <2>3. Promise!Replace(f) \/ Promise!SaveFails(f)
    BY <2>1, <2>2, <1>1, RewriteRefines DEF f
  <2> QED BY <2>3, <1>2 DEF Promise!Next
<1>13. CASE CallFails(t)
  BY <1>5, <1>13 DEF CallFails
<1> QED BY <1>6, <1>7, <1>8, <1>9, <1>10, <1>11, <1>12, <1>13 DEF CallStep

(* Pinning, unpinning and the rounds of the flusher are nothing to the     *)
(* readers: a clean entry is as good as none.                              *)
LEMMA SameEntries ==
  ASSUME db' = db, \A g \in Files : CachedEntry(g)' = CachedEntry(g)
  PROVE  Unread
<1>1. /\ ReadNow' = [g \in Files |-> Reading(g, db'[g], CachedEntry(g)')]
      /\ ReadOnRestart' = [g \in Files |-> Reading(g, db'[g], Cleared)]
      /\ FlushErrors' = [g \in Files |-> CachedEntry(g)'.errors]
  <2>1. (/\ ReadNow = [g \in Files |-> Reading(g, db[g], CachedEntry(g))]
         /\ ReadOnRestart = [g \in Files |-> Reading(g, db[g], Cleared)]
         /\ FlushErrors = [g \in Files |-> CachedEntry(g).errors])'
    BY ReadsAre, PTL
  <2> QED BY <2>1 DEF Cleared
<1> QED BY <1>1, ReadsAre DEF Unread

(* getEntryAndPin.                                                         *)
LEMMA PinReads ==
  ASSUME Inv, NEW t \in Threads, NEW f \in Files, GetEntryAndPin(t, f), UNCHANGED db,
         flushing' \in BOOLEAN, toFlush' \subseteq Files, ops' \in 0 .. MaxOps
  PROVE  Unread
<1>1. /\ \A g \in Files : cache[g] # NoEntry =>
           cache'[g] = cache[g] /\ entries'[cache[g]] = entries[cache[g]]
      /\ \A g \in Files : cache[g] = NoEntry /\ cache'[g] # NoEntry => entries'[cache'[g]] = Cleared
  BY PinKeepsInv
<1>2. \A g \in Files : CachedEntry(g)' = CachedEntry(g)
  BY <1>1 DEF CachedEntry, Cleared, NoParts
<1> QED BY <1>2, SameEntries

(* unpinEntryAndTryDelete.                                                 *)
LEMMA UnpinReads ==
  ASSUME Inv, NEW t \in Threads, UnpinEntryAndTryDelete(t)
  PROVE  Unread
<1>1. /\ UNCHANGED <<db, entries>>
      /\ \A g \in Files : cache'[g] # cache[g] =>
           cache[g] # NoEntry /\ cache'[g] = NoEntry /\ entries[cache[g]] = Cleared
  BY UnpinKeepsInv
<1>2. \A g \in Files : CachedEntry(g)' = CachedEntry(g)
  BY <1>1 DEF CachedEntry, Cleared, NoParts
<1> QED BY <1>1, <1>2, SameEntries

(* The flusher saves files, or fails to.                                   *)
LEMMA FlushRefines ==
  ASSUME Inv,
         FlushStart \/ FlushClean \/ FlushFails \/ FlushEnd \/ \E f \in Files : FlushNext(f) \/ FlushSaves(f)
  PROVE  Promise!Next \/ Unread
<1> DEFINE f == job[Flusher].file
           e == Entry(Flusher)
<1>0. Flusher \in Threads
  BY DEF Threads
<1>1. CASE FlushStart \/ FlushEnd
  <2>1. db' = db /\ cache' = cache /\ entries' = entries
    BY <1>1 DEF FlushStart, FlushEnd
  <2>2. \A g \in Files : CachedEntry(g)' = CachedEntry(g)
    BY <2>1 DEF CachedEntry, Cleared, NoParts
  <2> QED BY <2>1, <2>2, SameEntries
<1>2. CASE \E g \in Files : FlushNext(g)
  <2>1. PICK g \in Files : FlushNext(g)
    BY <1>2
  <2>2. /\ GetEntryAndPin(Flusher, g) /\ UNCHANGED db /\ toFlush' \subseteq Files
        /\ flushing' \in BOOLEAN /\ ops' \in 0 .. MaxOps
    BY <2>1 DEF FlushNext, Inv, TypeOK
  <2> QED BY <2>2, <1>0, PinReads
<1>3. CASE FlushClean
  <2>1. at[Flusher] = "pinned" /\ Works(Flusher, e) /\ UNCHANGED db
    BY <1>3 DEF FlushClean, Locked
  <2>2. f \in Files /\ e \in Entries
    BY <2>1, <1>0, FoundIs
  <2>3. ReadNow[f] = Reading(f, db[f], e) /\ FlushErrors[f] = e.errors
    BY <2>1, <1>0, FoundReads
  <2> HIDE DEF e
  <2>4. Changes(f, Reading(f, db[f], e), ReadOnRestart[f], e.errors)
    BY <2>1, <2>2, <1>0, CachedChanges
  <2> HIDE DEF f
  <2> QED BY <2>2, <2>3, <2>4, ChangesNothing
<1>4. ASSUME at[Flusher] = "pinned", e.file # NoFile
      PROVE  /\ f \in Files /\ e \in Entries /\ db[f] \in Rows /\ db = [db EXCEPT ![f] = db[f]]
             /\ ReadNow[f] = Reading(f, db[f], e) /\ ReadNow[f] # NoFile /\ FlushErrors[f] = e.errors
             /\ entries = [entries EXCEPT ![job[Flusher].entry] = e]
  <2>1. f \in Files /\ e \in Entries /\ db[f] \in Rows
    BY <1>0, <1>4, FoundIs
  <2>2. HeaderIn(db[f], e) # NoFile
    BY <1>4 DEF HeaderIn
  <2>3. Reading(f, db[f], e) # NoFile
    <3> HIDE DEF e, f
    <3> QED BY <2>1, <2>2, ReadingIs
  <2>4. ReadNow[f] = Reading(f, db[f], e) /\ FlushErrors[f] = e.errors
    BY <1>0, <1>4, FoundReads
  <2>5. db = [db EXCEPT ![f] = db[f]] /\ entries = [entries EXCEPT ![job[Flusher].entry] = e]
    BY DEF Inv, TypeOK, StoreTypes, Entry
  <2> QED BY <2>1, <2>3, <2>4, <2>5
<1>5. ASSUME at[Flusher] = "pinned", e.file # NoFile, cache' = cache,
             NEW left \in {e, Cleared}, entries' = [entries EXCEPT ![job[Flusher].entry] = left],
             db' = [db EXCEPT ![f] = Committed(f, e, FALSE)]
      PROVE  Promise!Next
  <2>1. /\ f \in Files /\ e \in Entries /\ ReadNow[f] = Reading(f, db[f], e) /\ ReadNow[f] # NoFile
        /\ FlushErrors[f] = e.errors
    BY <1>4, <1>5
  <2> HIDE DEF e
  <2>2. Changes(f, ReadNow[f], ReadNow[f], left.errors)
    BY <2>1, <1>0, <1>5, SavedChanges
  <2>3. left.errors = 0 \/ left.errors = FlushErrors[f]
    BY <2>1, ClearedIs
  <2> HIDE DEF f
  <2>4. Promise!Save(f)
    BY <2>1, <2>2, <2>3, StepSave
  <2> QED BY <2>1, <2>4 DEF Promise!Next
<1>6. CASE \E g \in Files : FlushSaves(g)
  <2>1. /\ at[Flusher] = "pinned" /\ e.file # NoFile /\ Works(Flusher, Cleared)
        /\ db' = [db EXCEPT ![f] = Committed(f, e, FALSE)]
    BY <1>6 DEF FlushSaves, Saved, Locked, FlushedEntry
  <2> QED BY <2>1, <1>5 DEF Works
<1>7. CASE FlushFails
  <2>1. at[Flusher] = "pinned" /\ e.file # NoFile /\ cache' = cache
    BY <1>7 DEF FlushFails, Locked
  <2>2. /\ f \in Files /\ e \in Entries /\ ReadNow[f] = Reading(f, db[f], e) /\ ReadNow[f] # NoFile
        /\ FlushErrors[f] = e.errors /\ entries = [entries EXCEPT ![job[Flusher].entry] = e]
    BY <2>1, <1>4
  <2>3. \/ entries' = [entries EXCEPT ![job[Flusher].entry] = Failure(e)] /\ db' = db
        \/ entries' = entries /\ db' = db
        \/ entries' = entries /\ db' = [db EXCEPT ![f] = Committed(f, e, FALSE)]
    BY <1>7 DEF FlushFails
  <2>4. CASE entries' = [entries EXCEPT ![job[Flusher].entry] = Failure(e)] /\ db' = db
    <3> HIDE DEF e
    <3>1. \/ FlushErrors[f] + 1 < MaxFlushErrors
               /\ Changes(f, ReadNow[f], ReadOnRestart[f], FlushErrors[f] + 1)
          \/ FlushErrors[f] + 1 = MaxFlushErrors
               /\ Changes(f, ReadOnRestart[f], ReadOnRestart[f], 0)
      BY <2>1, <2>2, <2>4, <1>0, RefusedChanges
    <3> HIDE DEF f
    <3>2. Promise!SaveFails(f)
      BY <3>1, <2>2, StepSaveFails
    <3> QED BY <3>2, <2>2 DEF Promise!Next
  <2>5. CASE entries' = entries /\ db' = db
    <3>1. \A g \in Files : CachedEntry(g)' = CachedEntry(g)
      BY <2>1, <2>5 DEF CachedEntry, Cleared, NoParts
    <3> QED BY <3>1, <2>5, SameEntries
  <2>6. CASE entries' = entries /\ db' = [db EXCEPT ![f] = Committed(f, e, FALSE)]
    <3>1. entries' = [entries EXCEPT ![job[Flusher].entry] = e]
      BY <2>2, <2>6
    <3> HIDE DEF e
    <3> QED BY <3>1, <2>1, <2>6, <1>5
  <2> QED BY <2>3, <2>4, <2>5, <2>6
<1> QED BY <1>1, <1>2, <1>3, <1>6, <1>7

(* A crash takes every file back to what is saved of it.                   *)
LEMMA CrashRefines ==
  ASSUME Crash
  PROVE  Promise!Crash
<1>1. db' = db /\ cache' = [g \in Files |-> NoEntry]
  BY DEF Crash
<1>2. \A g \in Files : CachedEntry(g)' = Cleared
  BY <1>1 DEF CachedEntry, Cleared, NoParts
<1>3. /\ ReadNow' = [g \in Files |-> Reading(g, db'[g], CachedEntry(g)')]
      /\ ReadOnRestart' = [g \in Files |-> Reading(g, db'[g], Cleared)]
      /\ FlushErrors' = [g \in Files |-> CachedEntry(g)'.errors]
  <2>1. (/\ ReadNow = [g \in Files |-> Reading(g, db[g], CachedEntry(g))]
         /\ ReadOnRestart = [g \in Files |-> Reading(g, db[g], Cleared)]
         /\ FlushErrors = [g \in Files |-> CachedEntry(g).errors])'
    BY ReadsAre, PTL
  <2> QED BY <2>1 DEF Cleared
<1>4. FlushErrors' = [g \in Files |-> 0]
  BY <1>2, <1>3, ClearedIs
<1> QED BY <1>1, <1>2, <1>3, <1>4, ReadsAre DEF Promise!Crash

(* The files that exist when the server starts are empty.                  *)
LEMMA InitRefines == Init => Promise!Init
<1> SUFFICES ASSUME Init PROVE Promise!Init
  OBVIOUS
<1>1. \A g \in Files : CachedEntry(g) = Cleared
  BY DEF CachedEntry, Init
<1>2. ASSUME NEW g \in Files
      PROVE  Reading(g, db[g], Cleared) = IF g \in Made THEN Promise!Empty(0) ELSE NoFile
  <2>1. CASE g \in Made
    <3>1. db[g].file = [size |-> 0, meta |-> 0] /\ 0 \in Bytes
      BY <2>1, WritesAssumption DEF Init, Row, Bytes
    <3> QED BY <3>1, <2>1, ReadEmpty
  <2>2. CASE g \notin Made
    <3>1. db[g].file = NoFile
      BY <2>2 DEF Init, Row
    <3> QED BY <3>1, <2>2, ClearedIs DEF Reading, HeaderIn
  <2> QED BY <2>1, <2>2
<1>3. ReadOnRestart = [g \in Files |-> IF g \in Made THEN Promise!Empty(0) ELSE NoFile]
  BY <1>2, ReadsAre
<1>4. ReadNow = ReadOnRestart
  BY <1>1, ReadsAre
<1>5. FlushErrors = [g \in Files |-> 0]
  BY <1>1, ReadsAre, ClearedIs
<1> QED BY <1>3, <1>4, <1>5 DEF Promise!Init

(* Every step of the store is one of its files, or nothing to them.        *)
LEMMA NextRefines == Inv /\ [Next]_vars /\ [SparesBeginning]_vars => [Promise!Next]_(Promise!vars)
<1> SUFFICES ASSUME Inv, [Next]_vars, [SparesBeginning]_vars PROVE Promise!Next \/ Unread
  BY DEF Unread, Promise!vars
<1>1. CASE \E t \in Callers : CallStep(t)
  <2>1. PICK t \in Callers : CallStep(t)
    BY <1>1
  <2>2. CASE SparesBeginning
    BY <2>1, <2>2, CallRefines
  <2>3. CASE UNCHANGED vars
    <3>1. \A g \in Files : CachedEntry(g)' = CachedEntry(g)
      BY <2>3 DEF vars, CachedEntry, Cleared, NoParts
    <3> QED BY <2>3, <3>1, SameEntries DEF vars
  <2> QED BY <2>2, <2>3
<1>2. CASE \E t \in Callers, f \in Files : Call(t, f)
  <2>1. PICK t \in Callers, f \in Files : Call(t, f)
    BY <1>2
  <2>2. t \in Threads /\ GetEntryAndPin(t, f) /\ UNCHANGED <<db, toFlush, flushing>>
    BY <2>1 DEF Call, Threads
  <2>3. toFlush' \subseteq Files /\ flushing' \in BOOLEAN /\ ops' \in 0 .. MaxOps
    BY <2>1, WritesAssumption DEF Call, Inv, TypeOK
  <2> QED BY <2>2, <2>3, PinReads
<1>3. CASE \E t \in Threads : UnpinEntryAndTryDelete(t)
  BY <1>3, UnpinReads
<1>4. CASE FlushStart \/ FlushClean \/ FlushFails \/ FlushEnd \/ \E f \in Files : FlushNext(f) \/ FlushSaves(f)
  BY <1>4, FlushRefines
<1>5. CASE Crash
  BY <1>5, CrashRefines DEF Promise!Next
<1>6. CASE UNCHANGED vars
  <2>1. \A g \in Files : CachedEntry(g)' = CachedEntry(g)
    BY <1>6 DEF vars, CachedEntry, Cleared, NoParts
  <2> QED BY <1>6, <2>1, SameEntries DEF vars
<1> QED BY <1>1, <1>2, <1>3, <1>4, <1>5, <1>6 DEF Next

(* The cache, the parts and the transactions behave as files do, as long   *)
(* as no WriteAt covers whole the part in which a circular file begins.    *)
THEOREM StoresFiles == Spec /\ [][SparesBeginning]_vars => ReadsAndRestarts
<1>1. Spec => []Inv
  BY InvHolds
<1> QED BY <1>1, InitRefines, NextRefines, PTL DEF Spec, ReadsAndRestarts, Promise!Spec

(* As the program calls it they always do: it appends to files and         *)
(* replaces them, and does not call WriteAt.                               *)
THEOREM StoresWhatTheProgramWrites ==
  ASSUME Offsets = {}
  PROVE  Spec => ReadsAndRestarts
<1>1. SparesBeginning
  BY DEF SparesBeginning
<1> QED BY <1>1, StoresFiles, PTL
=============================================================================
