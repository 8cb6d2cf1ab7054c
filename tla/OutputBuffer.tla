---------------------------- MODULE OutputBuffer ----------------------------
(***************************************************************************)
(* What pkg/jobmanager/cirbuf.go promises to the stream manager, with the  *)
(* bytes left out: how much terminal output has been written, how much of  *)
(* it is still held, the flow-control window and whether the one writer    *)
(* (the PTY read loop) is parked on the wait channel.                      *)
(*                                                                         *)
(* The methods are operators on the buffer record, because a stream        *)
(* manager handler applies several of them in one critical section.        *)
(* CirBuf refines this module with the ring of bytes.                      *)
(***************************************************************************)
EXTENDS Integers

CONSTANTS
  CirBufSize,    (* len(cb.buf): the capacity of the ring, in bytes         *)
  MaxPacketSize  (* the most bytes one read of the PTY or one packet holds  *)

ASSUME CirBufSizeAssumption    == CirBufSize \in Nat \ {0}
ASSUME MaxPacketSizeAssumption == MaxPacketSize \in Nat \ {0}

VARIABLE cb      (* the CirBuf of the stream manager                        *)

Least(a, b)    == IF a <= b THEN a ELSE b
Greatest(a, b) == IF a >= b THEN a ELSE b

(* total: bytes ever written; count: bytes held (the last count of them);  *)
(* window: effective window; sync: writers block instead of overwriting;   *)
(* waiter: a blocked writer has left its channel in waiterChan.            *)
Buffer == [total : Nat, count : Nat, window : Nat, sync : BOOLEAN, waiter : BOOLEAN]

MakeCirBuf ==
  [total |-> 0, count |-> 0, window |-> CirBufSize, sync |-> TRUE, waiter |-> FALSE]

HeadPos(b) == b.total - b.count

(* A write would block: WriteAvailable returns a channel to wait on.       *)
Full(b) == b.sync /\ b.count >= b.window

(* How many of n bytes WriteAvailable takes when it does not block.        *)
Accepts(b, n) == IF b.sync THEN Least(n, b.window - b.count) ELSE n


(* n bytes are stored; in async mode the oldest bytes make room for them.  *)
Written(b, n) == [b EXCEPT !.total = @ + n, !.count = Least(b.window, @ + n)]

(* The blocked writer registers its wait channel.                          *)
Parked(b) == [b EXCEPT !.waiter = TRUE]

(* A mutant: one byte too many is dropped.                                 *)
ConsumedOneMore(b, n) == [b EXCEPT !.count = @ - n - 1, !.waiter = FALSE]

(* Consume drops n bytes and always wakes the writer.                      *)
Consumed(b, n) == [b EXCEPT !.count = @ - n, !.waiter = FALSE]

(* SetEffectiveWindow: async mode truncates to the window; a writer parked *)
(* in sync mode is woken when the window grows or sync mode ends.          *)
WithWindow(b, sync, windowSize) ==
  LET window == Least(windowSize, CirBufSize)
      wakes  == b.sync /\ (window > b.window \/ ~sync)
  IN [b EXCEPT !.window = window,
               !.sync   = sync,
               !.count  = IF sync THEN @ ELSE Least(@, window),
               !.waiter = @ /\ ~wakes]

-----------------------------------------------------------------------------
(***************************************************************************)
(* The buffer on its own: one writer, and a manager that consumes and      *)
(* changes the window as it likes.                                         *)
(***************************************************************************)

BufWrite ==
  \E n \in 1 .. MaxPacketSize :
    /\ ~cb.waiter
    /\ ~Full(cb)
    /\ Accepts(cb, n) = n
    /\ cb' = Written(cb, n)

BufPark == /\ ~cb.waiter
           /\ Full(cb)
           /\ cb' = Parked(cb)

BufConsume == \E n \in 0 .. cb.count : cb' = Consumed(cb, n)

BufSetEffectiveWindow ==
  \E sync \in BOOLEAN, windowSize \in 0 .. CirBufSize :
    cb' = WithWindow(cb, sync, windowSize)

BufInit == cb = MakeCirBuf
BufNext == BufWrite \/ BufPark \/ BufConsume \/ BufSetEffectiveWindow
BufSpec == BufInit /\ [][BufNext]_cb

(* Nothing is stranded: a writer sits on the wait channel only while the   *)
(* buffer really has no room for it (cirbuf.go SetEffectiveWindow and      *)
(* Consume wake it on every path that makes room).                         *)
WriterNotStranded == cb.waiter => Full(cb)

(* The buffer never holds more than it may: the ring capacity always, and  *)
(* the window too once it runs in overwrite mode.                          *)
HoldsAtMost == /\ cb.count <= CirBufSize
               /\ cb.count <= cb.total
               /\ ~cb.sync => cb.count <= cb.window

(* While the buffer stays in sync mode a write never pushes out a byte     *)
(* that nobody has consumed.                                               *)
SyncWritesKeepHead ==
  [][cb.sync /\ cb'.total > cb.total => HeadPos(cb') = HeadPos(cb)]_cb

=============================================================================
