----------------------------- MODULE StoredFile -----------------------------
(***************************************************************************)
(* What pkg/filestore promises of its files, without cache and parts: a    *)
(* file has a content, which reads return, and a content that is saved,    *)
(* which a restart brings back.  The saved content is always one the file  *)
(* had as a whole; the current one falls back to it after a crash, or when *)
(* saving has failed four times.                                           *)
(***************************************************************************)
EXTENDS Integers

CONSTANTS
  Files,
  Made,          (* the files that exist at first                           *)
  Circular,      (* the files that keep only their last MaxSize bytes       *)
  MaxSize,
  Bytes,         (* what is written                                         *)
  Lengths,       (* how much of it                                          *)
  MaxFailures,   (* failed attempts to save after which the change is given *)
                 (* up                                                      *)
  NoFile

VARIABLES
  file,          (* by file: NoFile, or its size, meta data and bytes       *)
  saved,
  failures

vars == <<file, saved, failures>>

Kept(f, size) == (IF f \in Circular /\ size > MaxSize THEN size - MaxSize ELSE 0) .. size - 1

Empty(meta) == [size |-> 0, meta |-> meta, at |-> [o \in {} |-> 0]]

Written(f, c, offset, n, b) ==
  LET size == IF offset + n > c.size THEN offset + n ELSE c.size
  IN [c EXCEPT !.size = size,
               !.at = [o \in Kept(f, size) |-> IF o \in offset .. offset + n - 1
                                               THEN b ELSE c.at[o]]]

Init ==
  /\ file = [f \in Files |-> IF f \in Made THEN Empty(0) ELSE NoFile]
  /\ saved = file
  /\ failures = [f \in Files |-> 0]

(* The content of f becomes one of cs, those of other files stay.          *)
BecomesOneOf(f, cs) == file'[f] \in cs /\ file' = [file EXCEPT ![f] = file'[f]]
SavesOneOf(f, cs)   == saved'[f] \in cs /\ saved' = [saved EXCEPT ![f] = saved'[f]]
Fails(f, n)         == failures' = [failures EXCEPT ![f] = n]

Create(f) ==
  /\ file[f] = NoFile
  /\ BecomesOneOf(f, {Empty(b) : b \in Bytes})
  /\ SavesOneOf(f, {file'[f]})
  /\ UNCHANGED failures

Remove(f) == BecomesOneOf(f, {NoFile}) /\ SavesOneOf(f, {NoFile}) /\ Fails(f, 0)

Write(f) ==
  LET c == file[f] IN
  /\ c # NoFile
  /\ BecomesOneOf(f, {Written(f, c, w[1], w[2], w[3]) : w \in (0 .. c.size) \X Lengths \X Bytes})
  /\ UNCHANGED <<saved, failures>>

SetMeta(f) ==
  /\ file[f] # NoFile
  /\ BecomesOneOf(f, {[file[f] EXCEPT !.meta = b] : b \in Bytes})
  /\ UNCHANGED <<saved, failures>>

(* The whole content is replaced, and saved at once or not.                *)
Replace(f) ==
  LET fresh == Empty(file[f].meta) IN
  /\ file[f] # NoFile
  /\ BecomesOneOf(f, {Written(f, fresh, 0, w[1], w[2]) : w \in (Lengths \union {0}) \X Bytes})
  /\ \/ UNCHANGED <<saved, failures>>
     \/ SavesOneOf(f, {file'[f]}) /\ (Fails(f, 0) \/ UNCHANGED failures)
     \/ UNCHANGED saved /\ failures[f] + 1 < MaxFailures /\ Fails(f, failures[f] + 1)

(* Saving may succeed without the caller's knowing it.                     *)
Save(f) ==
  /\ file[f] # NoFile
  /\ SavesOneOf(f, {file[f]})
  /\ Fails(f, 0) \/ UNCHANGED failures
  /\ UNCHANGED file

SaveFails(f) ==
  /\ file[f] # NoFile
  /\ \/ failures[f] + 1 < MaxFailures /\ Fails(f, failures[f] + 1) /\ UNCHANGED file
     \/ failures[f] + 1 = MaxFailures /\ Fails(f, 0) /\ BecomesOneOf(f, {saved[f]})
  /\ UNCHANGED saved

Crash ==
  /\ file' = saved
  /\ failures' = [f \in Files |-> 0]
  /\ UNCHANGED saved

Next ==
  \/ \E f \in Files : \/ Create(f) \/ Remove(f) \/ Write(f) \/ SetMeta(f)
                      \/ Replace(f) \/ Save(f) \/ SaveFails(f)
  \/ Crash

Spec == Init /\ [][Next]_vars
=============================================================================
