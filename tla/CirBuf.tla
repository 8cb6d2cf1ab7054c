------------------------------- MODULE CirBuf -------------------------------
(***************************************************************************)
(* pkg/jobmanager/cirbuf.go in full: the ring of bytes between the PTY     *)
(* read loop and the packet sender.  A byte is identified by its position  *)
(* in the output stream, so that what a reader of the ring gets can be     *)
(* compared with what it should get.                                       *)
(*                                                                         *)
(* Every method runs under cb.lock and is one action.  The read loop is    *)
(* the only writer; it keeps the rest of a chunk it could not store in     *)
(* pending and calls WriteAvailable again when its channel is closed.      *)
(***************************************************************************)
EXTENDS Integers, FiniteSetsExt

CONSTANTS
  CirBufSize,     (* len(cb.buf)                                            *)
  MaxPacketSize,  (* the largest chunk the read loop brings                 *)
  MaxBytes,       (* bound: output bytes the modelled program writes        *)
  Nothing         (* the content of a slot never written                    *)

ASSUME RingSizeAssumption  == CirBufSize \in Nat \ {0}
ASSUME ChunkSizeAssumption == MaxPacketSize \in Nat \ {0}
ASSUME MaxBytesAssumption  == MaxBytes \in Nat

VARIABLES buf, readPos, writePos, count, totalSize, syncMode, windowSize,
          waiterChan,  (* a blocked writer has put its channel in waiterChan *)
          pending      (* bytes of the current chunk not stored yet          *)

vars == <<buf, readPos, writePos, count, totalSize, syncMode, windowSize,
          waiterChan, pending>>

Slots == 0 .. CirBufSize - 1
WrapPastEnd(i) == i % (CirBufSize + 1)     \* a mutant
Wrap(i) == i % CirBufSize

TypeOK ==
  /\ buf \in [Slots -> 0 .. MaxBytes \union {Nothing}]
  /\ readPos \in Slots /\ writePos \in Slots
  /\ count \in 0 .. CirBufSize
  /\ totalSize \in 0 .. MaxBytes
  /\ syncMode \in BOOLEAN /\ waiterChan \in BOOLEAN
  /\ windowSize \in 0 .. CirBufSize
  /\ pending \in 0 .. MaxPacketSize

Init ==
  /\ buf = [s \in Slots |-> Nothing]
  /\ readPos = 0 /\ writePos = 0 /\ count = 0 /\ totalSize = 0
  /\ syncMode = TRUE
  /\ windowSize = CirBufSize
  /\ waiterChan = FALSE
  /\ pending = 0

-----------------------------------------------------------------------------
(* The read loop gets its next chunk from the PTY.                         *)
ReadChunk(n) ==
  /\ pending = 0
  /\ totalSize + n <= MaxBytes
  /\ pending' = n
  /\ UNCHANGED <<buf, readPos, writePos, count, totalSize, syncMode,
                 windowSize, waiterChan>>

Blocked == syncMode /\ count >= windowSize

(* A mutant: every byte lands one slot too far.                            *)
StoredOneLate(n) ==
  [s \in Slots |->
     LET mine == {i \in 0 .. n - 1 : Wrap(writePos + i + 1) = s}
     IN IF mine = {} THEN buf[s] ELSE totalSize + Max(mine)]

(* The slot at distance d from writePos is written by the bytes d, d+size, *)
(* ... of the call; the last of them stays.                                *)
Stored(n) ==
  [s \in Slots |->
     LET mine == {i \in 0 .. n - 1 : Wrap(writePos + i) = s}
     IN IF mine = {} THEN buf[s] ELSE totalSize + Max(mine)]

(* WriteAvailable stores what fits: everything in async mode, where the    *)
(* read position moves over the oldest bytes, and up to the window in sync *)
(* mode.  A call that can store nothing leaves a channel instead.          *)
WriteAvailable ==
  /\ pending > 0
  /\ ~waiterChan
  /\ \/ /\ ~Blocked
        /\ LET n == IF syncMode THEN Min({pending, windowSize - count}) ELSE pending
               overwritten == Max({0, count + n - windowSize})
           IN /\ buf' = Stored(n)
              /\ writePos' = Wrap(writePos + n)
              /\ readPos' = Wrap(readPos + overwritten)
              /\ count' = count + n - overwritten
              /\ totalSize' = totalSize + n
              /\ pending' = pending - n
        /\ UNCHANGED waiterChan
     \/ /\ Blocked
        /\ waiterChan' = TRUE
        /\ UNCHANGED <<buf, readPos, writePos, count, totalSize, pending>>
  /\ UNCHANGED <<syncMode, windowSize>>

(* A mutant: the blocked writer is left alone.                             *)
ConsumeNoWake(n) ==
  /\ n <= count
  /\ readPos' = Wrap(readPos + n)
  /\ count' = count - n
  /\ UNCHANGED <<buf, writePos, totalSize, syncMode, windowSize, waiterChan, pending>>

(* tryWakeWriter closes the channel of the blocked writer, if there is one. *)
Consume(n) ==
  /\ n <= count
  /\ readPos' = Wrap(readPos + n)
  /\ count' = count - n
  /\ waiterChan' = FALSE
  /\ UNCHANGED <<buf, writePos, totalSize, syncMode, windowSize, pending>>

SetEffectiveWindow(sync, newSize) ==
  LET window == Min({newSize, CirBufSize})
      excess == IF sync THEN 0 ELSE Max({0, count - window})
  IN /\ windowSize' = window
     /\ syncMode' = sync
     /\ readPos' = Wrap(readPos + excess)
     /\ count' = count - excess
     /\ waiterChan' = (waiterChan /\ ~(syncMode /\ (window > windowSize \/ ~sync)))
     /\ UNCHANGED <<buf, writePos, totalSize, pending>>

Next ==
  \/ \E n \in 1 .. MaxPacketSize : ReadChunk(n)
  \/ WriteAvailable
  \/ \E n \in 0 .. CirBufSize : Consume(n)
  \/ \E sync \in BOOLEAN, newSize \in 0 .. CirBufSize + 1 :
       SetEffectiveWindow(sync, newSize)

Spec == Init /\ [][Next]_vars

-----------------------------------------------------------------------------
HeadPos == totalSize - count

(* What PeekDataAt(offset, data) copies out for len(data) = n.             *)
PeekDataAt(offset, n) ==
  IF offset >= count
  THEN <<>>
  ELSE [i \in 1 .. Min({n, count - offset}) |-> buf[Wrap(readPos + offset + i - 1)]]

(* The sender labels a packet HeadPos + offset and fills it with           *)
(* PeekDataAt(offset): whatever mix of overwriting, truncating, consuming  *)
(* and window changes came before, the bytes in the packet are the bytes   *)
(* of the stream at the positions its label says.                          *)
PeekedBytesMatchLabel ==
  \A offset \in 0 .. count :
    LET peeked == PeekDataAt(offset, MaxPacketSize)
    IN \A i \in DOMAIN peeked : peeked[i] = HeadPos + offset + i - 1

(* The ring behaves as the counters the stream manager relies on.          *)
Counters == INSTANCE OutputBuffer WITH
  cb <- [total |-> totalSize, count |-> count, window |-> windowSize,
         sync |-> syncMode, waiter |-> waiterChan]
ImplementsOutputBuffer == Counters!BufSpec

=============================================================================
