----------------------------- MODULE FileStore ------------------------------
(***************************************************************************)
(* pkg/filestore: the files of blocks and jobs, a write-back cache over    *)
(* SQLite.  Every call pins the cache entry of its file, works on it under *)
(* the entry's lock, and unpins it, which removes a clean entry; the       *)
(* flusher writes dirty entries to the database, one transaction each.     *)
(*                                                                         *)
(* A file is cut into parts of PartSize bytes; the cache holds the parts   *)
(* that were written, and those a write needed to complete.  A write       *)
(* writes the number of the latest call, so that a read shows whose bytes  *)
(* it returns.  The transactions of the database are the environment's:    *)
(* each may fail, or be cut off by the caller's context.                   *)
(***************************************************************************)
EXTENDS Integers, FiniteSets

CONSTANTS
  Files, Circular,
  Made,          (* the files that exist when the server starts             *)
  Callers, Flusher,
  PartSize,
  MaxSize,       (* of a circular file: a multiple of PartSize              *)
  Lengths, Offsets,   (* of the writes                                      *)
  MaxBytes,      (* bound: offsets written                                  *)
  MaxOps,        (* bound: calls                                            *)
  NoFile, NoPart

(* MakeFile refuses a circular file without a size and rounds the size up. *)
ASSUME PartSizeAssumption ==
  PartSize \in Nat \ {0} /\ MaxSize \in Nat \ {0} /\ MaxSize % PartSize = 0
ASSUME FilesAssumption ==
  IsFiniteSet(Files) /\ Circular \subseteq Files /\ Made \subseteq Files
ASSUME CallersAssumption == IsFiniteSet(Callers) /\ Flusher \notin Callers
ASSUME WritesAssumption ==
  /\ MaxBytes \in Nat /\ MaxOps \in Nat
  /\ Lengths \subseteq 0 .. MaxBytes /\ Offsets \subseteq Nat

VARIABLES
  db,            (* by file: its row in db_wave_file and its data parts     *)
  cache,         (* s.Cache: by file, the entry, or NoEntry                 *)
  entries,       (* the entries: File, DataEntries, FlushErrors             *)
  pins,          (* PinCount of each                                        *)
  at,            (* what each goroutine is doing ...                        *)
  job,           (* ... with which file and entry; what a call does to them *)
                 (* is chosen when it has the lock                          *)
  toFlush,       (* FlushCache: dirty keys not yet flushed                  *)
  flushing,      (* s.IsFlushing                                            *)
  ops

vars == <<db, cache, entries, pins, at, job, toFlush, flushing, ops>>

Threads  == Callers \union {Flusher}
Parts    == 0 .. MaxBytes \div PartSize
Slots    == 0 .. PartSize - 1
EntryIds == 1 .. Cardinality(Files) + Cardinality(Threads)
NoEntry  == 0
Bytes    == 0 .. MaxOps                        \* 0: never written
MaxFlushErrors == 4

NoParts    == [p \in Parts |-> NoPart]
Cleared    == [file |-> NoFile, parts |-> NoParts, errors |-> 0]   \* entry.clear
Row(header, parts) == [file |-> header, parts |-> parts]
NoJob      == [file |-> NoFile, entry |-> NoEntry]

Headers    == [size : 0 .. MaxBytes, meta : Bytes] \union {NoFile}
PartValues == [Parts -> [Slots -> Bytes] \union {NoPart}]
Rows       == [file : Headers, parts : PartValues]
Entries    == [file : Headers, parts : PartValues, errors : 0 .. MaxFlushErrors - 1]

ReadValues == [size : 0 .. MaxBytes, meta : Bytes,
               at : UNION {[offsets -> Bytes] : offsets \in SUBSET (0 .. MaxBytes)}]

ASSUME NoPartAssumption == NoPart \notin [Slots -> Bytes]
ASSUME NoFileAssumption ==
  /\ NoFile \notin [size : 0 .. MaxBytes, meta : Bytes]
  /\ NoFile \notin ReadValues

StoreTypes ==
  /\ db \in [Files -> Rows] /\ entries \in [EntryIds -> Entries]
  /\ cache \in [Files -> EntryIds \union {NoEntry}]
  /\ pins \in [EntryIds -> 0 .. Cardinality(Threads)]

ThreadTypes ==
  /\ at \in [Threads -> {"idle", "pinned", "done"}]
  /\ job \in [Threads -> [file : Files \union {NoFile}, entry : EntryIds \union {NoEntry}]]
  /\ \A t \in Threads : at[t] # "idle" => job[t].file \in Files /\ job[t].entry \in EntryIds

TypeOK ==
  /\ StoreTypes /\ ThreadTypes
  /\ toFlush \subseteq Files /\ flushing \in BOOLEAN /\ ops \in 0 .. MaxOps

Init ==
  /\ db = [f \in Files |-> IF f \in Made THEN Row([size |-> 0, meta |-> 0], NoParts)
                                       ELSE Row(NoFile, NoParts)]
  /\ cache = [f \in Files |-> NoEntry]
  /\ entries = [e \in EntryIds |-> Cleared]
  /\ pins = [e \in EntryIds |-> 0]
  /\ at = [t \in Threads |-> "idle"]
  /\ job = [t \in Threads |-> NoJob]
  /\ toFlush = {} /\ flushing = FALSE /\ ops = 0

-----------------------------------------------------------------------------
(* Parts and offsets.                                                      *)

PartAt(f, offset) ==
  IF f \in Circular THEN (offset \div PartSize) % (MaxSize \div PartSize)
                    ELSE offset \div PartSize

IncompletePartsNone(f, offset, n) == {}        \* a mutant: nothing is loaded
(* computePartMap, incompletePartsFromMap: what a write covers of a part,  *)
(* the last time it meets it, is less than the part.                       *)
IncompleteParts(f, offset, n) ==
  LET blocks == IF n = 0 THEN {} ELSE offset \div PartSize .. (offset + n - 1) \div PartSize
      partial(k) == offset > k * PartSize \/ offset + n < (k + 1) * PartSize
  IN {PartAt(f, k * PartSize) : k \in {b \in blocks : partial(b) /\
        \A c \in blocks : c > b => PartAt(f, c * PartSize) # PartAt(f, b * PartSize)}}

(* writeAt: a circular file ignores what would be overwritten anyway.      *)
OffsetsWritten(f, size, offset, n) ==
  {o \in offset .. offset + n - 1 :
     f \in Circular => o >= size - MaxSize /\ o >= offset + n - MaxSize}

PartsAfter(f, parts, offsets, byte) ==
  [p \in Parts |->
     LET here == {o \in offsets : PartAt(f, o) = p}
         old == IF parts[p] = NoPart THEN [i \in Slots |-> 0] ELSE parts[p]
     IN IF here = {} THEN parts[p]
        ELSE [i \in Slots |-> IF \E o \in here : o % PartSize = i THEN byte ELSE old[i]]]

WriteAt(f, e, offset, n, byte) ==
  LET end == offset + n
      old == e.file.size
  IN [e EXCEPT !.parts = PartsAfter(f, @, OffsetsWritten(f, old, offset, n), byte),
               !.file.size = IF end > old THEN end ELSE old]

(* writeAt with replace.                                                   *)
Rewritten(f, e, n, byte) ==
  [e EXCEPT !.parts = PartsAfter(f, NoParts, OffsetsWritten(f, 0, 0, n), byte),
            !.file.size = n]

(* loadFileIntoCache, loadDataPartsIntoCache.                              *)
Header(f, e) == IF e.file # NoFile THEN e.file ELSE db[f].file
WithFile(f, e) == [e EXCEPT !.file = Header(f, e)]
WithParts(f, e, parts) ==
  [e EXCEPT !.parts = [p \in Parts |-> IF p \in parts /\ @[p] = NoPart
                                       THEN db[f].parts[p] ELSE @[p]]]

(* dbWriteCacheEntry.                                                      *)
Committed(f, e, replace) ==
  Row(e.file, [p \in Parts |-> IF e.parts[p] # NoPart THEN e.parts[p]
                               ELSE IF replace THEN NoPart ELSE db[f].parts[p]])

-----------------------------------------------------------------------------
(* withLock.                                                               *)

FreeEntry == CHOOSE e \in EntryIds :
  /\ \A f \in Files : cache[f] # e
  /\ \A t \in Threads : at[t] = "idle" \/ job[t].entry # e

PinCountLost(e) == pins                        \* a mutant
PinCount(e) == [pins EXCEPT ![e] = @ + 1]

GetEntryAndPin(t, f) ==
  LET e == IF cache[f] = NoEntry THEN FreeEntry ELSE cache[f] IN
  /\ at[t] = "idle"
  /\ cache' = [cache EXCEPT ![f] = e]
  /\ entries' = IF cache[f] = NoEntry THEN [entries EXCEPT ![e] = Cleared] ELSE entries
  /\ pins' = PinCount(e)
  /\ at' = [at EXCEPT ![t] = "pinned"]
  /\ job' = [job EXCEPT ![t] = [file |-> f, entry |-> e]]

Removable(f, e) == pins[e] <= 1 /\ entries[e].file = NoFile

UnpinEntryAndTryDelete(t) ==
  LET f == job[t].file
      e == cache[f]
  IN
  /\ at[t] = "done"
  /\ at' = [at EXCEPT ![t] = "idle"]
  /\ job' = [job EXCEPT ![t] = NoJob]
  /\ IF e = NoEntry THEN UNCHANGED <<pins, cache>>
     ELSE /\ pins' = [pins EXCEPT ![e] = IF @ = 0 THEN 0 ELSE @ - 1]
          /\ cache' = IF Removable(f, e) THEN [cache EXCEPT ![f] = NoEntry] ELSE cache
  /\ UNCHANGED <<db, entries, toFlush, flushing, ops>>

(* A caller enters the store.                                              *)
Call(t, f) ==
  /\ t \in Callers /\ ops < MaxOps
  /\ ops' = ops + 1
  /\ GetEntryAndPin(t, f)
  /\ UNCHANGED <<db, toFlush, flushing>>

(* The callback of withLock, which leaves the entry as e.                  *)
Locked(t) == at[t] = "pinned"
Works(t, e) ==
  /\ at' = [at EXCEPT ![t] = "done"]
  /\ entries' = [entries EXCEPT ![job[t].entry] = e]
  /\ UNCHANGED <<cache, pins, job, toFlush, flushing, ops>>

Entry(t) == entries[job[t].entry]
FileEntry(t) == WithFile(job[t].file, Entry(t))

MakeFile(t) ==
  LET f == job[t].file IN
  /\ Locked(t)
  /\ Works(t, Entry(t))
  /\ db' = IF Entry(t).file = NoFile /\ db[f].file = NoFile
           THEN [db EXCEPT ![f].file = [size |-> 0, meta |-> ops]] ELSE db

DeleteFile(t) ==
  /\ Locked(t)
  /\ Works(t, Cleared)
  /\ db' = [db EXCEPT ![job[t].file] = Row(NoFile, NoParts)]

WriteMeta(t) ==
  /\ Locked(t) /\ FileEntry(t).file # NoFile
  /\ Works(t, [FileEntry(t) EXCEPT !.file.meta = ops])
  /\ UNCHANGED db

(* WriteAt, and AppendData, which writes at the end.  An offset past the   *)
(* end is an error.                                                        *)
WriteAtOffset(t, offset, n) ==
  LET f == job[t].file
      e == FileEntry(t)
  IN
  /\ offset <= e.file.size /\ offset + n <= MaxBytes
  /\ Works(t, WriteAt(f, WithParts(f, e, IncompleteParts(f, offset, n)), offset, n, ops))
  /\ UNCHANGED db

AppendData(t) ==
  /\ Locked(t) /\ FileEntry(t).file # NoFile
  /\ \E n \in Lengths : WriteAtOffset(t, FileEntry(t).file.size, n)

WriteAtCall(t) ==
  /\ Locked(t) /\ FileEntry(t).file # NoFile
  /\ \E offset \in Offsets, n \in Lengths : WriteAtOffset(t, offset, n)

(* compactIJson, at the end of AppendIJson or called: what it writes stays *)
(* in the cache.                                                           *)
CompactIJson(t) ==
  /\ Locked(t) /\ FileEntry(t).file # NoFile /\ job[t].file \notin Circular
  /\ \E n \in Lengths \union {0} : Works(t, Rewritten(job[t].file, FileEntry(t), n, ops))
  /\ UNCHANGED db

(* The call ends with an error: there is no such file, the offset is past  *)
(* the end (or MaxBytes), or the database does not answer, before or after *)
(* the file entered the cache.                                             *)
CallFails(t) ==
  /\ Locked(t)
  /\ Works(t, Entry(t)) \/ Works(t, FileEntry(t))
  /\ UNCHANGED db

(* A mutant: one failure more.                                             *)
FailureOneLate(e) == IF e.errors = MaxFlushErrors THEN Cleared ELSE [e EXCEPT !.errors = @ + 1]
Failure(e) == IF e.errors + 1 = MaxFlushErrors THEN Cleared ELSE [e EXCEPT !.errors = @ + 1]

FlushedStays(e) == e                           \* a mutant
FlushedEntry(e) == Cleared

(* flushToDB of the entry e: done; the context is over, before or after    *)
(* the commit; or the database refuses.                                    *)
Saved(t, e, replace) ==
  /\ Works(t, FlushedEntry(e))
  /\ db' = [db EXCEPT ![job[t].file] = Committed(job[t].file, e, replace)]
CutOff(t, e, replace) ==
  /\ Works(t, e)
  /\ db' = db \/ db' = [db EXCEPT ![job[t].file] = Committed(job[t].file, e, replace)]
Refused(t, e) ==
  /\ Works(t, Failure(e))
  /\ UNCHANGED db

WriteFile(t) ==
  /\ Locked(t) /\ FileEntry(t).file # NoFile
  /\ \E n \in Lengths \union {0} :
       LET e == Rewritten(job[t].file, FileEntry(t), n, ops) IN
       Saved(t, e, TRUE) \/ CutOff(t, e, TRUE) \/ Refused(t, e)

-----------------------------------------------------------------------------
(* FlushCache by the flusher.                                              *)

DirtyKeys == {f \in Files : cache[f] # NoEntry /\ entries[cache[f]].file # NoFile}

FlushStart ==
  /\ ~flushing
  /\ flushing' = TRUE
  /\ toFlush' = DirtyKeys
  /\ UNCHANGED <<db, cache, entries, pins, at, job, ops>>

FlushNext(f) ==
  /\ flushing /\ f \in toFlush
  /\ toFlush' = toFlush \ {f}
  /\ GetEntryAndPin(Flusher, f)
  /\ UNCHANGED <<db, flushing, ops>>

(* Changed or removed since getDirtyCacheKeys: nothing to flush.           *)
FlushClean ==
  /\ Locked(Flusher) /\ Entry(Flusher).file = NoFile
  /\ Works(Flusher, Entry(Flusher))
  /\ UNCHANGED db

FlushSaves(f) ==
  /\ Locked(Flusher) /\ job[Flusher].file = f /\ Entry(Flusher).file # NoFile
  /\ Saved(Flusher, Entry(Flusher), FALSE)

(* An error ends the round.                                                *)
FlushFails ==
  LET e == Entry(Flusher) IN
  /\ Locked(Flusher) /\ e.file # NoFile
  /\ at' = [at EXCEPT ![Flusher] = "done"]
  /\ toFlush' = {}
  /\ \/ /\ entries' = [entries EXCEPT ![job[Flusher].entry] = Failure(e)]
        /\ UNCHANGED db
     \/ /\ UNCHANGED entries
        /\ \/ UNCHANGED db
           \/ db' = [db EXCEPT ![job[Flusher].file] = Committed(job[Flusher].file, e, FALSE)]
  /\ UNCHANGED <<cache, pins, job, flushing, ops>>

FlushEnd ==
  /\ flushing /\ toFlush = {} /\ at[Flusher] = "idle"
  /\ flushing' = FALSE
  /\ UNCHANGED <<db, cache, entries, pins, at, job, toFlush, ops>>

(* The process ends, with whatever the cache holds.                        *)
Crash ==
  /\ cache' = [f \in Files |-> NoEntry]
  /\ entries' = [e \in EntryIds |-> Cleared]
  /\ pins' = [e \in EntryIds |-> 0]
  /\ at' = [t \in Threads |-> "idle"]
  /\ job' = [t \in Threads |-> NoJob]
  /\ toFlush' = {} /\ flushing' = FALSE
  /\ UNCHANGED <<db, ops>>

-----------------------------------------------------------------------------
CallStep(t) ==
  \/ MakeFile(t) \/ DeleteFile(t) \/ WriteMeta(t) \/ AppendData(t) \/ WriteAtCall(t)
  \/ CompactIJson(t) \/ WriteFile(t) \/ CallFails(t)

Next ==
  \/ \E t \in Callers : CallStep(t) \/ \E f \in Files : Call(t, f)
  \/ \E t \in Threads : UnpinEntryAndTryDelete(t)
  \/ FlushStart \/ FlushClean \/ FlushFails \/ FlushEnd
  \/ \E f \in Files : FlushNext(f) \/ FlushSaves(f)
  \/ Crash

Spec == Init /\ [][Next]_vars

(* The flusher goes its rounds and the callers' goroutines run; the        *)
(* database takes a file in the end, if it is tried often enough.          *)
FairSpec ==
  /\ Spec
  /\ WF_vars(FlushStart) /\ WF_vars(FlushClean \/ FlushFails \/ \E f \in Files : FlushSaves(f))
  /\ WF_vars(FlushEnd)
  /\ \A f \in Files : WF_vars(FlushNext(f)) /\ SF_vars(FlushSaves(f))
  /\ \A t \in Threads : WF_vars(UnpinEntryAndTryDelete(t))
  /\ \A t \in Callers : WF_vars(CallStep(t))

-----------------------------------------------------------------------------
(* readAt: the cached part, or the one in the database.                    *)
Contents(f, e) ==
  LET header == Header(f, e)
      first == IF f \in Circular /\ header.size > MaxSize THEN header.size - MaxSize ELSE 0
      part(p) == IF e.parts[p] # NoPart THEN e.parts[p] ELSE db[f].parts[p]
      byte(o) == IF part(PartAt(f, o)) = NoPart THEN 0 ELSE part(PartAt(f, o))[o % PartSize]
  IN IF header = NoFile THEN NoFile
     ELSE [size |-> header.size, meta |-> header.meta,
           at |-> [o \in first .. header.size - 1 |-> byte(o)]]

CachedEntry(f) == IF cache[f] = NoEntry THEN Cleared ELSE entries[cache[f]]

ReadNow       == [f \in Files |-> Contents(f, CachedEntry(f))]
ReadOnRestart == [f \in Files |-> Contents(f, Cleared)]
FlushErrors   == [f \in Files |-> CachedEntry(f).errors]

Promise == INSTANCE StoredFile WITH
  MaxFailures <- MaxFlushErrors,
  file <- ReadNow, saved <- ReadOnRestart, failures <- FlushErrors

(* Cache, parts and transactions together behave as files: a read returns  *)
(* what was written last, whatever was loaded, flushed, cut off or refused *)
(* before; what a restart finds is a whole content the file had; and       *)
(* changes go back to it only after a crash or four refusals.  There is    *)
(* one write that breaks it, SparesBeginning in FileStoreProofs, which     *)
(* nothing in the program does.                                            *)
ReadsAndRestarts == Promise!Spec

(* A goroutine that has pinned an entry works on the one in the cache: the *)
(* entry's lock is of use only if there is one entry for a file.           *)
PinnedIsCached ==
  \A t \in Threads : at[t] # "idle" => cache[job[t].file] = job[t].entry

(* What is in the cache is dirty or in use: clean entries do not pile up.  *)
CleanEntriesLeave ==
  \A f \in Files : cache[f] # NoEntry =>
    \/ entries[cache[f]].file # NoFile
    \/ \E t \in Threads : at[t] # "idle" /\ job[t].file = f

(* A file has its entry in the cache while the entry is dirty or somebody  *)
(* works on it, and no longer.                                             *)
CachedWhileNeeded == PinnedIsCached /\ CleanEntriesLeave

(* A dirty file does not stay in memory for ever.                          *)
DirtyIsFlushed ==
  \A f \in Files : f \in DirtyKeys ~> f \notin DirtyKeys
=============================================================================
