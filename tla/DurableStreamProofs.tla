------------------------ MODULE DurableStreamProofs -------------------------
(***************************************************************************)
(* The durable session, for any buffer, windows, packet and read sizes,    *)
(* and any number of reconnects, crashes and timeouts.                     *)
(*                                                                         *)
(* The first part is about the stream manager alone and its every client:  *)
(* it keeps each unacknowledged byte.  The second is about the whole path: *)
(* no reader is sent more than its window, and the file is the output.     *)
(* The third is about what the job manager drops while a reader runs.      *)
(***************************************************************************)
EXTENDS DurableStream, FiniteSetTheorems, WellFoundedInduction, TLAPS

-----------------------------------------------------------------------------
(* What every method of CirBuf preserves, one lemma per operator, and what *)
(* follows for the buffer on its own: a stream manager step is made of     *)
(* these operators.                                                        *)

(* The inductive invariant, of one buffer: the window never exceeds the    *)
(* ring, the bounds of HoldsAtMost, and a parked writer really has no room.*)
BufferOK(b) ==
  /\ b \in Buffer
  /\ b.window <= CirBufSize
  /\ b.count <= CirBufSize
  /\ b.count <= b.total
  /\ ~b.sync => b.count <= b.window
  /\ b.waiter => Full(b)

(* A fresh CirBuf satisfies the invariant.                                 *)
LEMMA MakeCirBufOK == BufferOK(MakeCirBuf)
  BY CirBufSizeAssumption DEF BufferOK, MakeCirBuf, Buffer, Full

(* How much WriteAvailable takes fits the window of a buffer in sync mode. *)
LEMMA AcceptsFits ==
  ASSUME NEW b, BufferOK(b), ~Full(b), NEW n \in Nat
  PROVE  /\ Accepts(b, n) \in Nat
         /\ b.sync => b.count + Accepts(b, n) <= b.window
  BY DEF BufferOK, Buffer, Full, Accepts, Least

(* WriteAvailable stores what the mode and the window allow.               *)
LEMMA WrittenOK ==
  ASSUME NEW b, BufferOK(b), ~b.waiter, NEW m \in Nat, b.sync => b.count + m <= b.window
  PROVE  BufferOK(Written(b, m))
<1> DEFINE c == Least(b.window, b.count + m)
<1>1. c \in Nat /\ c <= b.window /\ c <= b.total + m
  BY DEF BufferOK, Buffer, Least
<1>2. b.total + m \in Nat
  BY DEF BufferOK, Buffer
<1>3. Written(b, m) \in Buffer
  BY <1>1, <1>2 DEF BufferOK, Buffer, Written
<1>4. /\ Written(b, m).total = b.total + m
      /\ Written(b, m).count = c
      /\ Written(b, m).window = b.window
      /\ Written(b, m).sync = b.sync
      /\ Written(b, m).waiter = b.waiter
  BY DEF BufferOK, Buffer, Written
<1> HIDE DEF c
<1>5. QED
  BY <1>1, <1>3, <1>4, CirBufSizeAssumption DEF BufferOK, Buffer

(* WriteAvailable parks the writer of a full buffer.                       *)
LEMMA ParkedOK ==
  ASSUME NEW b, BufferOK(b), Full(b)
  PROVE  BufferOK(Parked(b))
  BY DEF BufferOK, Buffer, Full, Parked

(* Consume drops bytes that are held.                                      *)
LEMMA ConsumedOK ==
  ASSUME NEW b, BufferOK(b), NEW n \in 0 .. b.count
  PROVE  BufferOK(Consumed(b, n))
<1>1. b.count - n \in Nat /\ b.count - n <= b.count
  BY DEF BufferOK, Buffer
<1>2. Consumed(b, n) \in Buffer
  BY <1>1 DEF BufferOK, Buffer, Consumed
<1>3. /\ Consumed(b, n).total = b.total
      /\ Consumed(b, n).count = b.count - n
      /\ Consumed(b, n).window = b.window
      /\ Consumed(b, n).sync = b.sync
      /\ ~Consumed(b, n).waiter
  BY DEF BufferOK, Buffer, Consumed
<1>4. QED
  BY <1>1, <1>2, <1>3, CirBufSizeAssumption DEF BufferOK, Buffer

(* SetEffectiveWindow, in either direction and either mode.                *)
LEMMA WithWindowOK ==
  ASSUME NEW b, BufferOK(b), NEW sync \in BOOLEAN, NEW windowSize \in Nat
  PROVE  BufferOK(WithWindow(b, sync, windowSize))
<1> DEFINE w == Least(windowSize, CirBufSize)
           c == IF sync THEN b.count ELSE Least(b.count, w)
           k == b.waiter /\ ~(b.sync /\ (w > b.window \/ ~sync))
<1>1. w \in Nat /\ w <= CirBufSize
  BY CirBufSizeAssumption DEF Least
<1>2. c \in Nat /\ c <= b.count /\ (~sync => c <= w) /\ (sync => c = b.count)
  BY <1>1 DEF BufferOK, Buffer, Least
<1>3. k \in BOOLEAN /\ (k => sync /\ c >= w)
  BY <1>1, <1>2 DEF BufferOK, Buffer, Full
<1>4. WithWindow(b, sync, windowSize) \in Buffer
  BY <1>1, <1>2, <1>3 DEF BufferOK, Buffer, WithWindow
<1>5. /\ WithWindow(b, sync, windowSize).total = b.total
      /\ WithWindow(b, sync, windowSize).count = c
      /\ WithWindow(b, sync, windowSize).window = w
      /\ WithWindow(b, sync, windowSize).sync = sync
      /\ WithWindow(b, sync, windowSize).waiter = k
  BY DEF BufferOK, Buffer, WithWindow
<1> HIDE DEF w, c, k
<1>6. QED
  BY <1>1, <1>2, <1>3, <1>4, <1>5, CirBufSizeAssumption DEF BufferOK, Buffer, Full

-----------------------------------------------------------------------------

(* The buffer on its own keeps its invariant.                              *)
THEOREM BufferInvariant == BufSpec => []BufferOK(cb)
<1>1. BufInit => BufferOK(cb)
  BY MakeCirBufOK DEF BufInit
<1>2. BufferOK(cb) /\ [BufNext]_cb => BufferOK(cb)'
  <2> SUFFICES ASSUME BufferOK(cb), [BufNext]_cb
               PROVE  BufferOK(cb')
    OBVIOUS
  <2>1. CASE BufWrite
    BY <2>1, AcceptsFits, WrittenOK, MaxPacketSizeAssumption DEF BufWrite
  <2>2. CASE BufPark
    BY <2>2, ParkedOK DEF BufPark
  <2>3. CASE BufConsume
    BY <2>3, ConsumedOK DEF BufConsume
  <2>4. CASE BufSetEffectiveWindow
    BY <2>4, WithWindowOK DEF BufSetEffectiveWindow
  <2>5. CASE UNCHANGED cb
    BY <2>5
  <2>6. QED
    BY <2>1, <2>2, <2>3, <2>4, <2>5 DEF BufNext
<1>3. QED
  BY <1>1, <1>2, PTL DEF BufSpec

(* No blocked writer is left behind, and the buffer holds what it may.     *)
THEOREM BufferSafe == BufSpec => [](WriterNotStranded /\ HoldsAtMost)
<1>1. BufferOK(cb) => WriterNotStranded /\ HoldsAtMost
  BY DEF BufferOK, WriterNotStranded, HoldsAtMost
<1>2. QED
  BY <1>1, BufferInvariant, PTL

(* A write in sync mode never moves the head: nothing is overwritten.      *)
THEOREM BufferKeepsHead == BufSpec => SyncWritesKeepHead
<1>1. BufferOK(cb) /\ [BufNext]_cb =>
        [cb.sync /\ cb'.total > cb.total => HeadPos(cb') = HeadPos(cb)]_cb
  <2> SUFFICES ASSUME BufferOK(cb), BufNext, cb.sync, cb'.total > cb.total
               PROVE  HeadPos(cb') = HeadPos(cb)
    OBVIOUS
  <2>1. BufWrite
    <3>1. ASSUME cb'.total = cb.total PROVE FALSE
      BY <3>1 DEF BufferOK, Buffer
    <3>2. ~BufPark
      BY <3>1 DEF BufferOK, Buffer, BufPark, Parked
    <3>3. ~BufConsume
      BY <3>1 DEF BufferOK, Buffer, BufConsume, Consumed
    <3>4. ~BufSetEffectiveWindow
      BY <3>1 DEF BufferOK, Buffer, BufSetEffectiveWindow, WithWindow
    <3>5. QED
      BY <3>2, <3>3, <3>4 DEF BufNext
  <2>2. QED
    BY <2>1, MaxPacketSizeAssumption
    DEF BufWrite, BufferOK, Buffer, Full, Accepts, Written, HeadPos, Least
<1>2. QED
  BY <1>1, BufferInvariant, PTL DEF BufSpec, SyncWritesKeepHead

-----------------------------------------------------------------------------
(* The stream manager.                                                     *)

(* What holds of a ClientConnected call under way: nobody is connected, so *)
(* sm.lock keeps acks and the sender loop out until it returns.            *)
CallOK ==
  /\ call.pc = "none" => call = NoCall
  /\ call.pc # "none" => ~connected /\ ~terminalEventAcked /\ call.id \in StreamIds
  /\ call.pc = "check" => call.seq > call.head

(* What holds of the connection and the bytes in flight.                   *)
ConnOK ==
  /\ ConnectedIsSync
  /\ UnackedHeld
  /\ connected => streamId \in StreamIds
  /\ ~connected => sentNotAcked = 0

(* The inductive invariant.  UnackedHeld alone is not inductive: it needs  *)
(* that the buffer is in sync mode while connected (a write would drop the *)
(* head otherwise) and that an ack never consumes more than is in flight.  *)
Inv == SMTypeOK /\ BufferOK(cb) /\ ConnOK /\ CallOK

(* The windows the handlers compute are natural numbers.                   *)
LEMMA WindowType ==
  ASSUME NEW rwnd \in Nat
  PROVE  EffectiveWindow(rwnd) \in Nat /\ EffectiveWindow(rwnd) <= CwndSize
  BY CwndSizeAssumption DEF EffectiveWindow, Least

(* Positions are natural numbers.                                          *)
LEMMA HeadPosType ==
  ASSUME NEW b, BufferOK(b)
  PROVE  HeadPos(b) \in Nat
  BY DEF BufferOK, Buffer, HeadPos

(* What the buffer operators do to the head and to the number of bytes.    *)
LEMMA ConsumedFields ==
  ASSUME NEW b, BufferOK(b), NEW n \in Nat
  PROVE  /\ Consumed(b, n).count = b.count - n
         /\ Consumed(b, n).sync = b.sync
         /\ HeadPos(Consumed(b, n)) = HeadPos(b) + n
  BY DEF BufferOK, Buffer, Consumed, HeadPos

LEMMA WithWindowFields ==
  ASSUME NEW b, BufferOK(b), NEW w \in Nat
  PROVE  /\ WithWindow(b, TRUE, w).count = b.count
         /\ WithWindow(b, TRUE, w).sync = TRUE
         /\ HeadPos(WithWindow(b, TRUE, w)) = HeadPos(b)
  BY DEF BufferOK, Buffer, WithWindow, HeadPos

(* Acks carry natural numbers.                                             *)
LEMMA AckType ==
  ASSUME NEW ack \in Acks
  PROVE  /\ ack.seq \in Nat /\ ack.rwnd \in Nat
         /\ [seq |-> ack.seq, rwnd |-> ack.rwnd] \in [seq : Nat, rwnd : Nat]
<1>1. ack.seq \in 0 .. MaxBytes + 1 /\ ack.rwnd \in Rwnds
  BY DEF Acks
<1>2. ack.rwnd \in Nat
  BY <1>1, RwndsAssumption
<1>3. ack.seq \in Nat
  BY <1>1, MaxBytesAssumption
<1>4. QED
  BY <1>2, <1>3

LEMMA InitInv == SMInit => Inv
<1> SUFFICES ASSUME SMInit PROVE Inv
  OBVIOUS
<1>1. BufferOK(cb)
  BY MakeCirBufOK DEF SMInit
<1>2. SMTypeOK
  <2>1. call \in Calls
    BY DEF SMInit, Calls, NoCall
  <2>2. maxAcked \in [seq : Nat, rwnd : Nat]
    BY DEF SMInit
  <2>3. 0 \in 0 .. MaxPacketSize
    BY MaxPacketSizeAssumption
  <2>4. QED
    BY <1>1, <2>1, <2>2, <2>3, CwndSizeAssumption
    DEF SMTypeOK, SMInit, BufferOK, ReadPcs
<1>3. ConnOK
  BY CwndSizeAssumption DEF ConnOK, ConnectedIsSync, UnackedHeld, SMInit, MakeCirBuf
<1>4. CallOK
  BY DEF CallOK, SMInit, NoCall
<1>5. QED
  BY <1>1, <1>2, <1>3, <1>4 DEF Inv

-----------------------------------------------------------------------------
(* The PTY read loop.                                                      *)

LEMMA WriteKeepsInv == Inv /\ WriteAvailable => Inv'
<1> SUFFICES ASSUME Inv, WriteAvailable PROVE Inv'
  OBVIOUS
<1> USE DEF WriteAvailable
<1>1. pending \in Nat
  BY MaxPacketSizeAssumption DEF Inv, SMTypeOK
<1>2. CASE Full(cb)
  <2>1. BufferOK(cb') /\ cb'.sync = cb.sync /\ cb'.count = cb.count
    BY <1>2, ParkedOK DEF Inv, BufferOK, Buffer, Parked
  <2>2. readPc' = readPc /\ pending' = pending
    BY <1>2
  <2>3. SMTypeOK'
    BY <2>1, <2>2 DEF Inv, SMTypeOK, BufferOK, termVars, connVars, ackVars, outVars
  <2>4. ConnOK' /\ CallOK'
    BY <2>1 DEF Inv, ConnOK, CallOK, ConnectedIsSync, UnackedHeld, termVars, connVars,
                ackVars
  <2>5. QED
    BY <2>1, <2>3, <2>4 DEF Inv
<1>3. CASE ~Full(cb)
  <2> DEFINE m == Accepts(cb, pending)
  <2>1. m \in Nat /\ m <= pending /\ (cb.sync => cb.count + m <= cb.window)
    BY <1>1, <1>3, AcceptsFits DEF Inv, Accepts, Least, BufferOK, Buffer
  <2>2. cb' = Written(cb, m) /\ pending' = pending - m /\ readPc' = "signal"
    BY <1>3
  <2>3. pending - m \in 0 .. MaxPacketSize
    BY <1>1, <2>1, MaxPacketSizeAssumption DEF Inv, SMTypeOK
  <2> HIDE DEF m
  <2>4. BufferOK(cb')
    BY <2>1, <2>2, WrittenOK DEF Inv
  <2>5. cb'.sync = cb.sync /\ (cb.sync => cb'.count >= cb.count)
    BY <2>1, <2>2 DEF Inv, BufferOK, Buffer, Written, Least
  <2>6. SMTypeOK'
    BY <2>2, <2>3, <2>4
    DEF Inv, SMTypeOK, BufferOK, ReadPcs, termVars, connVars, ackVars, outVars
  <2>7. cb.count \in Nat /\ cb'.count \in Nat /\ sentNotAcked \in Nat
    BY <2>4 DEF Inv, SMTypeOK, BufferOK, Buffer
  <2>8. ConnOK'
    BY <2>5, <2>7 DEF Inv, ConnOK, ConnectedIsSync, UnackedHeld, connVars, ackVars
  <2>9. CallOK'
    BY DEF Inv, CallOK, termVars, connVars
  <2>10. QED
    BY <2>4, <2>6, <2>8, <2>9 DEF Inv
<1>4. QED
  BY <1>2, <1>3

LEMMA ReaderKeepsInv == Inv /\ ReaderStep => Inv'
<1> SUFFICES ASSUME Inv, ReaderStep PROVE Inv'
  OBVIOUS
<1> USE DEF Inv, SMTypeOK, ConnOK, CallOK, ConnectedIsSync, UnackedHeld, ReadPcs,
            readVars, termVars, connVars, ackVars, outVars
<1>1. CASE AttachReader
  BY <1>1 DEF AttachReader
<1>2. CASE CheckClosed
  BY <1>2 DEF CheckClosed
<1>3. CASE WriteAvailable
  BY <1>3, WriteKeepsInv
<1>4. CASE SignalWritten
  BY <1>4 DEF SignalWritten, Signal
<1>5. ASSUME NEW n \in 1 .. MaxPacketSize, ReadPty(n) PROVE Inv'
  <2>1. n \in 0 .. MaxPacketSize
    BY MaxPacketSizeAssumption
  <2>2. QED
    BY <1>5, <2>1 DEF ReadPty
<1>6. ASSUME NEW event \in {"eof", "error"}, HandleEnd(event) PROVE Inv'
  <2>1. cb.total \in Nat
    BY DEF Buffer
  <2>2. QED
    BY <1>6, <2>1 DEF HandleEnd, Signal
<1>7. QED
  BY <1>1, <1>2, <1>3, <1>4, <1>5, <1>6 DEF ReaderStep

-----------------------------------------------------------------------------
(* The sender loop.                                                        *)

(* prepareNextPacket: the packet is not empty and fits what is held.       *)
LEMMA NextPacketType ==
  ASSUME Inv, SendData
  PROVE  /\ NextPacket \in DataPackets /\ NextPacket.len = NextPacketSize
         /\ NextPacketSize \in Nat \ {0}
         /\ NextPacketSize <= EffectiveWindow(rwndSize) - sentNotAcked
         /\ NextPacketSize <= cb.count - sentNotAcked
<1>1. /\ cb \in Buffer /\ cb.count \in Nat /\ cb.total \in Nat
      /\ sentNotAcked \in Nat /\ rwndSize \in Nat
      /\ connected /\ streamId \in StreamIds /\ HeadPos(cb) \in Nat
  BY HeadPosType
  DEF Inv, SMTypeOK, ConnOK, BufferOK, Buffer, SendData, MaySendData, MaySend
<1>2. EffectiveWindow(rwndSize) \in Nat /\ EffectiveWindow(rwndSize) <= CwndSize
  BY <1>1, WindowType
<1> DEFINE e == EffectiveWindow(rwndSize)
           n == NextPacketSize
<1>3. cb.count > sentNotAcked /\ e - sentNotAcked > 0
  BY DEF SendData, MaySendData, AvailableToSend
<1>4. n = Least(Least(e - sentNotAcked, MaxPacketSize), cb.count - sentNotAcked)
  BY DEF NextPacketSize, AvailableToSend
<1> HIDE DEF e, n
<1>5. n \in Nat \ {0} /\ n <= e - sentNotAcked /\ n <= cb.count - sentNotAcked
  BY <1>1, <1>2, <1>3, <1>4, MaxPacketSizeAssumption DEF Least, e
<1>6. NextPacket \in DataPackets /\ NextPacket.len = n
  BY <1>1, <1>5 DEF NextPacket, DataPackets, n
<1>7. QED
  BY <1>5, <1>6 DEF e, n

LEMMA SendDataKeepsInv == Inv /\ SendData => Inv'
<1> SUFFICES ASSUME Inv, SendData PROVE Inv'
  OBVIOUS
<1>1. /\ cb \in Buffer /\ cb.count \in Nat /\ cb.total \in Nat
      /\ sentNotAcked \in Nat /\ rwndSize \in Nat
      /\ connected /\ streamId \in StreamIds /\ HeadPos(cb) \in Nat
  BY HeadPosType
  DEF Inv, SMTypeOK, ConnOK, BufferOK, Buffer, SendData, MaySendData, MaySend
<1> DEFINE e == EffectiveWindow(rwndSize)
           n == NextPacketSize
<1>2. e \in Nat /\ e <= CwndSize
  BY <1>1, WindowType
<1>5. sentNotAcked' = sentNotAcked + n /\ packets' = packets \union {NextPacket}
  BY DEF SendData
<1>6. n \in Nat \ {0} /\ n <= e - sentNotAcked /\ n <= cb.count - sentNotAcked
  BY NextPacketType
<1>7. NextPacket \in DataPackets
  BY NextPacketType
<1> HIDE DEF e, n
<1>8. /\ sentNotAcked' \in Nat
      /\ sentNotAcked' <= cb.count
      /\ sentNotAcked' <= CwndSize
  BY <1>1, <1>2, <1>5, <1>6, CwndSizeAssumption
<1>9. SMTypeOK'
  BY <1>5, <1>7, <1>8 DEF Inv, SMTypeOK, SendData, readVars, termVars, connVars
<1>10. ConnOK' /\ CallOK' /\ BufferOK(cb)'
  BY <1>1, <1>8
  DEF Inv, ConnOK, CallOK, ConnectedIsSync, UnackedHeld, SendData, connVars, termVars
<1>11. QED
  BY <1>9, <1>10 DEF Inv

LEMMA SenderKeepsInv == Inv /\ SenderStep => Inv'
<1> SUFFICES ASSUME Inv, SenderStep PROVE Inv'
  OBVIOUS
<1>1. CASE SendData
  BY <1>1, SendDataKeepsInv
<1>2. CASE SendTerminal
  <2> DEFINE p == [kind |-> terminalEvent, id |-> streamId, seq |-> eofPos, len |-> 0]
  <2>1. p \in TerminalPackets
    BY <1>2 DEF Inv, SMTypeOK, ConnOK, SendTerminal, MaySendTerminal, MaySend,
                TerminalPackets
  <2>2. packets' = packets \union {p}
    BY <1>2 DEF SendTerminal
  <2> HIDE DEF p
  <2>3. SMTypeOK'
    BY <1>2, <2>1, <2>2
    DEF Inv, SMTypeOK, SendTerminal, readVars, connVars, ackVars
  <2>4. ConnOK' /\ CallOK' /\ BufferOK(cb)'
    BY <1>2 DEF Inv, ConnOK, CallOK, ConnectedIsSync, UnackedHeld, SendTerminal,
                connVars, ackVars
  <2>5. QED
    BY <2>3, <2>4 DEF Inv
<1>3. CASE SenderWait
  BY <1>3 DEF Inv, SMTypeOK, ConnOK, CallOK, ConnectedIsSync, UnackedHeld, SenderWait,
              readVars, termVars, connVars, ackVars, outVars
<1>4. QED
  BY <1>1, <1>2, <1>3 DEF SenderStep

-----------------------------------------------------------------------------
(* ClientConnected, under way.                                             *)

LEMMA CallKeepsInv == Inv /\ CallStep => Inv'
<1> SUFFICES ASSUME Inv, CallStep PROVE Inv'
  OBVIOUS
<1>0. /\ HeadPos(cb) \in Nat /\ cb \in Buffer /\ cb.count \in Nat
      /\ call.seq \in Nat /\ call.head \in Nat /\ call.rwnd \in Nat
      /\ call.id \in StreamIds \union {NoStream}
  BY HeadPosType DEF Inv, SMTypeOK, BufferOK, Buffer, Calls
<1>1. NoCall \in Calls
  BY DEF Calls, NoCall
<1>2. CASE ConnectConsume
  <2> DEFINE ahead == call.seq - call.head
  <2>1. call.pc = "check" /\ ahead \in Nat
    BY <1>0, <1>2 DEF ConnectConsume, Inv, CallOK
  <2>2. ~connected /\ sentNotAcked = 0
    BY <2>1 DEF Inv, CallOK, ConnOK
  <2>3. CASE call' = NoCall /\ UNCHANGED cb
    BY <1>1, <1>2, <2>2, <2>3
    DEF Inv, SMTypeOK, ConnOK, CallOK, ConnectedIsSync, UnackedHeld, ConnectConsume,
        NoCall, readVars, termVars, connVars, ackVars, outVars
  <2>4. CASE /\ ahead <= cb.count
             /\ cb' = Consumed(cb, ahead)
             /\ call' = [call EXCEPT !.pc = "reread"]
    <3>1. ahead \in 0 .. cb.count
      BY <1>0, <2>1, <2>4
    <3> HIDE DEF ahead
    <3>2. BufferOK(cb')
      BY <2>4, <3>1, ConsumedOK DEF Inv
    <3>3. call' \in Calls /\ call'.pc = "reread" /\ call'.id = call.id
      BY <2>4 DEF Inv, SMTypeOK, Calls
    <3>4. SMTypeOK'
      BY <1>2, <3>2, <3>3
      DEF Inv, SMTypeOK, ConnectConsume, BufferOK, readVars, termVars, connVars, ackVars,
          outVars
    <3>5. sentNotAcked' = 0 /\ ~connected'
      BY <1>2, <2>2 DEF ConnectConsume, connVars, ackVars
    <3>6. ConnOK'
      BY <3>2, <3>5, CwndSizeAssumption
      DEF ConnOK, ConnectedIsSync, UnackedHeld, BufferOK, Buffer
    <3>7. CallOK'
      BY <1>2, <2>1, <3>3 DEF Inv, CallOK, ConnectConsume, termVars, connVars
    <3>8. QED
      BY <3>2, <3>4, <3>6, <3>7 DEF Inv
  <2>5. QED
    BY <1>2, <2>3, <2>4 DEF ConnectConsume
<1>3. CASE ConnectReread
  <2>1. call' \in Calls /\ call'.pc = "set" /\ call'.id = call.id
    BY <1>0, <1>3 DEF ConnectReread, Inv, SMTypeOK, Calls
  <2>2. SMTypeOK'
    BY <1>3, <2>1
    DEF Inv, SMTypeOK, ConnectReread, readVars, termVars, connVars, ackVars, outVars
  <2>3. ConnOK' /\ CallOK' /\ BufferOK(cb)'
    BY <1>3, <2>1
    DEF Inv, ConnOK, CallOK, ConnectedIsSync, UnackedHeld, ConnectReread, termVars,
        connVars, ackVars
  <2>4. QED
    BY <2>2, <2>3 DEF Inv
<1>4. CASE ConnectReturn
  <2> DEFINE w == EffectiveWindow(call.rwnd)
             s == Greatest(call.head, call.seq)
  <2>1. call.pc = "set" /\ call.id \in StreamIds
    BY <1>4 DEF ConnectReturn, Inv, CallOK
  <2>2. w \in Nat /\ s \in Nat
    BY <1>0, WindowType DEF Greatest
  <2>3. cb' = WithWindow(cb, TRUE, w)
    BY <1>4 DEF ConnectReturn
  <2>4. startSeq' = [startSeq EXCEPT ![call.id] = s]
    BY <1>4 DEF ConnectReturn
  <2> HIDE DEF w, s
  <2>5. BufferOK(cb') /\ cb'.sync = TRUE
    BY <2>2, <2>3, WithWindowOK, WithWindowFields DEF Inv
  <2>6. startSeq' \in [StreamIds -> Nat \union {-1}]
    BY <2>1, <2>2, <2>4 DEF Inv, SMTypeOK
  <2>7. SMTypeOK'
    BY <1>0, <1>1, <1>4, <2>5, <2>6
    DEF Inv, SMTypeOK, ConnectReturn, Signal, BufferOK, readVars, termVars
  <2>8. ConnOK'
    <3>1. sentNotAcked' = 0 /\ connected' /\ streamId' = call.id
      BY <1>4 DEF ConnectReturn
    <3>2. 0 <= cb'.count /\ 0 <= CwndSize
      BY <2>5, CwndSizeAssumption DEF BufferOK, Buffer
    <3>3. QED
      BY <2>1, <2>5, <3>1, <3>2 DEF ConnOK, ConnectedIsSync, UnackedHeld
  <2>9. CallOK'
    BY <1>4 DEF CallOK, ConnectReturn, NoCall
  <2>10. QED
    BY <2>5, <2>7, <2>8, <2>9 DEF Inv
<1>5. QED
  BY <1>2, <1>3, <1>4 DEF CallStep

-----------------------------------------------------------------------------
(* The main server's calls.                                                *)

LEMMA ConnectKeepsInv ==
  ASSUME Inv, NEW id \in StreamIds, NEW rwnd \in Nat, NEW seq \in Nat,
         ClientConnected(id, rwnd, seq)
  PROVE  Inv'
<1>1. HeadPos(cb) \in Nat
  BY HeadPosType DEF Inv
<1>2. /\ call' \in Calls
      /\ call'.pc \in {"check", "set"} /\ call'.id = id
      /\ call'.pc = "check" => call'.seq > call'.head
  BY <1>1 DEF ClientConnected, Calls
<1>3. SMTypeOK'
  BY <1>2
  DEF Inv, SMTypeOK, ClientConnected, readVars, termVars, connVars, ackVars, outVars
<1>4. ConnOK' /\ CallOK' /\ BufferOK(cb)'
  BY <1>2
  DEF Inv, ConnOK, CallOK, ConnectedIsSync, UnackedHeld, ClientConnected, Connectable,
      termVars, connVars, ackVars
<1>5. QED
  BY <1>3, <1>4 DEF Inv

LEMMA DisconnectKeepsInv == Inv /\ ClientDisconnected => Inv'
<1> SUFFICES ASSUME Inv, ClientDisconnected PROVE Inv'
  OBVIOUS
<1>1. BufferOK(cb')
  BY WithWindowOK, CirBufSizeAssumption DEF ClientDisconnected, Inv
<1>2. [seq |-> 0, rwnd |-> 0] \in [seq : Nat, rwnd : Nat]
  OBVIOUS
<1>3. SMTypeOK'
  BY <1>1, <1>2
  DEF Inv, SMTypeOK, ClientDisconnected, StillSent, Signal, BufferOK, readVars, outVars
<1>4. ConnOK'
  <2>1. sentNotAcked' = 0 /\ ~connected'
    BY DEF ClientDisconnected
  <2>2. 0 <= cb'.count /\ 0 <= CwndSize
    BY <1>1, CwndSizeAssumption DEF BufferOK, Buffer
  <2>3. QED
    BY <2>1, <2>2 DEF ConnOK, ConnectedIsSync, UnackedHeld
<1>5. CallOK'
  BY DEF Inv, CallOK, ClientDisconnected, Unlocked, NoCall
<1>6. QED
  BY <1>1, <1>3, <1>4, <1>5 DEF Inv

LEMMA SetRwndKeepsInv ==
  ASSUME Inv, NEW rwnd \in Nat, SetRwndSize(rwnd)
  PROVE  Inv'
<1>1. BufferOK(cb') /\ cb'.count = cb.count /\ cb'.sync = TRUE
  BY WindowType, WithWindowOK, WithWindowFields DEF SetRwndSize, Inv
<1>2. SMTypeOK'
  BY <1>1
  DEF Inv, SMTypeOK, SetRwndSize, Signal, BufferOK, readVars, termVars, ackVars, outVars
<1>3. ConnOK'
  BY <1>1 DEF Inv, ConnOK, ConnectedIsSync, UnackedHeld, SetRwndSize, ackVars
<1>4. CallOK'
  BY DEF Inv, CallOK, SetRwndSize, termVars
<1>5. QED
  BY <1>1, <1>2, <1>3, <1>4 DEF Inv

(* An ack only consumes bytes that are in flight.                          *)
LEMMA ProgressKeepsInv ==
  ASSUME Inv, NEW ack, ack.seq \in Nat, ack.rwnd \in Nat, RecvAck(ack), RecvProgress(ack)
  PROVE  /\ Inv'
         /\ HeadPos(cb') - HeadPos(cb) <= sentNotAcked
         /\ HeadPos(cb') + sentNotAcked' = HeadPos(cb) + sentNotAcked
<1> DEFINE n == ack.seq - HeadPos(cb)
           b == IF n > 0 THEN Consumed(cb, n) ELSE cb
           w == EffectiveWindow(ack.rwnd)
<1>1. ack.seq \in Nat /\ ack.rwnd \in Nat
  OBVIOUS
<1>2. /\ cb \in Buffer /\ cb.count \in Nat /\ sentNotAcked \in Nat
      /\ sentNotAcked <= cb.count /\ sentNotAcked <= CwndSize
  BY DEF Inv, SMTypeOK, ConnOK, UnackedHeld, Buffer
<1>3. HeadPos(cb) \in Nat
  BY HeadPosType DEF Inv
<1>4. n \in 0 .. sentNotAcked
  BY DEF RecvProgress, AcksInFlight
<1>5. sentNotAcked' = sentNotAcked - n /\ cb' = WithWindow(b, TRUE, w)
  BY DEF RecvProgress
<1>6. w \in Nat
  BY <1>1, WindowType
<1> HIDE DEF n, w
<1>7. BufferOK(b) /\ b.count = cb.count - n /\ HeadPos(b) = HeadPos(cb) + n
  <2>1. n \in 0 .. cb.count /\ n \in Nat
    BY <1>2, <1>4
  <2>2. CASE n > 0
    <3>1. BufferOK(Consumed(cb, n))
      BY <2>1, ConsumedOK DEF Inv
    <3>2. QED
      BY <2>1, <2>2, <3>1, ConsumedFields DEF Inv
  <2>3. CASE n = 0
    BY <1>2, <1>3, <2>3 DEF Inv
  <2>4. QED
    BY <2>1, <2>2, <2>3
<1> HIDE DEF b
<1>8. /\ BufferOK(cb') /\ cb'.count = cb.count - n /\ cb'.sync = TRUE
      /\ HeadPos(cb') = HeadPos(cb) + n
  BY <1>5, <1>6, <1>7, WithWindowOK, WithWindowFields
<1>9. sentNotAcked' \in Nat /\ sentNotAcked' <= cb'.count /\ sentNotAcked' <= CwndSize
  <2>1. /\ sentNotAcked - n \in Nat
        /\ sentNotAcked - n <= cb.count - n
        /\ sentNotAcked - n <= CwndSize
    BY <1>2, <1>4, CwndSizeAssumption
  <2>2. QED
    BY <1>5, <1>8, <2>1
<1>10. [seq |-> ack.seq, rwnd |-> ack.rwnd] \in [seq : Nat, rwnd : Nat]
  BY AckType
<1>11. senderWaits' \in BOOLEAN
  BY DEF RecvProgress
<1>12. SMTypeOK'
  BY <1>1, <1>8, <1>9, <1>10, <1>11
  DEF Inv, SMTypeOK, RecvAck, RecvProgress, BufferOK, readVars, termVars, outVars
<1>13. ConnOK'
  BY <1>8, <1>9 DEF Inv, ConnOK, ConnectedIsSync, UnackedHeld, RecvAck, RecvProgress
<1>14. CallOK'
  BY DEF Inv, CallOK, RecvAck, RecvProgress, termVars
<1>15. /\ HeadPos(cb') - HeadPos(cb) <= sentNotAcked
       /\ HeadPos(cb') + sentNotAcked' = HeadPos(cb) + sentNotAcked
  <2>1. n \in Nat /\ n <= sentNotAcked
    BY <1>2, <1>4
  <2>2. HeadPos(cb') = HeadPos(cb) + n /\ sentNotAcked' = sentNotAcked - n
    BY <1>5, <1>8
  <2>3. QED
    BY <1>2, <1>3, <2>1, <2>2
<1>16. QED
  BY <1>8, <1>12, <1>13, <1>14, <1>15 DEF Inv

LEMMA AckKeepsInv ==
  ASSUME Inv, NEW ack, ack.seq \in Nat, ack.rwnd \in Nat, RecvAck(ack)
  PROVE  Inv'
<1>1. CASE RecvFin(ack)
  BY <1>1
  DEF Inv, SMTypeOK, ConnOK, CallOK, ConnectedIsSync, UnackedHeld, RecvAck, RecvFin,
      Signal, Unlocked, NoCall, readVars, connVars, ackVars, outVars
<1>2. CASE RecvUseless(ack)
  <2>1. [seq |-> ack.seq, rwnd |-> ack.rwnd] \in [seq : Nat, rwnd : Nat]
    BY AckType
  <2>2. QED
    BY <1>2, <2>1
    DEF Inv, SMTypeOK, ConnOK, CallOK, ConnectedIsSync, UnackedHeld, RecvAck,
        RecvUseless, readVars, termVars, connVars, outVars
<1>3. CASE RecvProgress(ack)
  BY <1>3, ProgressKeepsInv
<1>4. QED
  BY <1>1, <1>2, <1>3 DEF RecvAck

LEMMA ClientKeepsInv == Inv /\ ClientStep => Inv'
<1> SUFFICES ASSUME Inv, ClientStep PROVE Inv'
  OBVIOUS
<1>1. ASSUME NEW id \in StreamIds, NEW rwnd \in Rwnds, NEW seq \in 0 .. MaxBytes + 1,
             ClientConnected(id, rwnd, seq)
      PROVE  Inv'
  <2>1. rwnd \in Nat /\ seq \in Nat
    BY MaxBytesAssumption, RwndsAssumption
  <2>2. QED
    BY <1>1, <2>1, ConnectKeepsInv
<1>2. CASE ClientDisconnected
  BY <1>2, DisconnectKeepsInv
<1>3. ASSUME NEW ack \in Acks, RecvAck(ack) PROVE Inv'
  BY <1>3, AckType, AckKeepsInv
<1>4. ASSUME NEW rwnd \in Rwnds, SetRwndSize(rwnd) PROVE Inv'
  BY <1>4, RwndsAssumption, SetRwndKeepsInv
<1>5. CASE Close
  BY <1>5
  DEF Inv, SMTypeOK, ConnOK, CallOK, ConnectedIsSync, UnackedHeld, Close, Signal,
      readVars, connVars, ackVars, outVars
<1>6. QED
  BY <1>1, <1>2, <1>3, <1>4, <1>5 DEF ClientStep

-----------------------------------------------------------------------------
(* Every step keeps the invariant.                                         *)
LEMMA NextInv == Inv /\ [SMNext]_smVars => Inv'
<1> SUFFICES ASSUME Inv, [SMNext]_smVars PROVE Inv'
  OBVIOUS
<1>1. CASE ReaderStep
  BY <1>1, ReaderKeepsInv
<1>2. CASE SenderStep
  BY <1>2, SenderKeepsInv
<1>3. CASE CallStep
  BY <1>3, CallKeepsInv
<1>4. CASE ClientStep
  BY <1>4, ClientKeepsInv
<1>5. CASE UNCHANGED smVars
  BY <1>5
  DEF Inv, SMTypeOK, ConnOK, CallOK, ConnectedIsSync, UnackedHeld, smVars, readVars,
      termVars, connVars, ackVars, outVars
<1>6. QED
  BY <1>1, <1>2, <1>3, <1>4, <1>5 DEF SMNext

(* It is an invariant under any client.                                    *)
THEOREM Invariant == SMSpec => []Inv
  BY InitInv, NextInv, PTL DEF SMSpec

(* Every variable keeps its type.                                          *)
THEOREM TypeCorrect == SMSpec => []SMTypeOK
<1>1. Inv => SMTypeOK
  BY DEF Inv
<1>2. QED
  BY <1>1, Invariant, PTL

(* Whatever acks arrive and however the windows change, everything sent    *)
(* and not acked is still in the buffer, at most a congestion window of it.*)
THEOREM UnackedIsHeld == SMSpec => []UnackedHeld
<1>1. Inv => UnackedHeld
  BY DEF Inv, ConnOK
<1>2. QED
  BY <1>1, Invariant, PTL

(* The buffer of a connected client blocks the PTY, never overwrites.      *)
THEOREM SyncWhileConnected == SMSpec => []ConnectedIsSync
<1>1. Inv => ConnectedIsSync
  BY DEF Inv, ConnOK
<1>2. QED
  BY <1>1, Invariant, PTL

(* The PTY read loop is parked only while its buffer has no room.          *)
THEOREM PtyNotStranded == SMSpec => [](WriterNotStranded /\ HoldsAtMost)
<1>1. Inv => WriterNotStranded /\ HoldsAtMost
  BY DEF Inv, BufferOK, WriterNotStranded, HoldsAtMost
<1>2. QED
  BY <1>1, Invariant, PTL

-----------------------------------------------------------------------------
(* Only bytes that were sent leave the buffer of a connected client.       *)

LEMMA StepMovesHead ==
  ASSUME Inv, SMNext, connected, connected'
  PROVE  HeadPos(cb') - HeadPos(cb) <= sentNotAcked
<1>0. /\ cb \in Buffer /\ cb.sync /\ HeadPos(cb) \in Nat
      /\ sentNotAcked \in Nat /\ call.pc = "none"
  BY HeadPosType DEF Inv, SMTypeOK, ConnOK, ConnectedIsSync, CallOK
<1>1. ASSUME HeadPos(cb') = HeadPos(cb)
      PROVE  HeadPos(cb') - HeadPos(cb) <= sentNotAcked
  BY <1>0, <1>1
<1>2. ASSUME cb' = cb
      PROVE  HeadPos(cb') - HeadPos(cb) <= sentNotAcked
  BY <1>1, <1>2
<1>3. CASE ReaderStep
  <2>1. CASE WriteAvailable
    <3>1. CASE Full(cb)
      <4>1. cb' = Parked(cb)
        BY <2>1, <3>1 DEF WriteAvailable
      <4>2. QED
        BY <1>0, <1>1, <4>1 DEF Parked, HeadPos, Buffer
    <3>2. CASE ~Full(cb)
      <4> DEFINE m == Accepts(cb, pending)
      <4>1. m \in Nat /\ cb.count + m <= cb.window
        BY <1>0, <3>2, AcceptsFits, MaxPacketSizeAssumption DEF Inv, SMTypeOK
      <4>2. cb' = Written(cb, m)
        BY <2>1, <3>2 DEF WriteAvailable
      <4> HIDE DEF m
      <4>3. HeadPos(cb') = HeadPos(cb)
        BY <1>0, <4>1, <4>2 DEF Written, HeadPos, Buffer, Least
      <4>4. QED
        BY <1>1, <4>3
    <3>3. QED
      BY <3>1, <3>2
  <2>2. CASE ~WriteAvailable
    BY <1>2, <1>3, <2>2
    DEF ReaderStep, AttachReader, CheckClosed, SignalWritten, ReadPty, HandleEnd
  <2>3. QED
    BY <2>1, <2>2
<1>4. CASE SenderStep
  BY <1>2, <1>4 DEF SenderStep, SendData, SendTerminal, SenderWait
<1>5. ~CallStep
  BY <1>0 DEF CallStep, ConnectConsume, ConnectReread, ConnectReturn
<1>6. CASE ClientStep
  <2>1. ~ClientDisconnected
    BY DEF ClientDisconnected
  <2>2. \A id \in StreamIds, rwnd \in Rwnds, seq \in 0 .. MaxBytes + 1 :
          ~ClientConnected(id, rwnd, seq)
    BY DEF ClientConnected
  <2>3. CASE Close
    BY <1>2, <2>3 DEF Close
  <2>4. ASSUME NEW rwnd \in Rwnds, SetRwndSize(rwnd)
        PROVE  HeadPos(cb') - HeadPos(cb) <= sentNotAcked
    <3>1. EffectiveWindow(rwnd) \in Nat
      BY WindowType, RwndsAssumption
    <3>2. HeadPos(cb') = HeadPos(cb)
      BY <2>4, <3>1, WithWindowFields DEF SetRwndSize, Inv
    <3>3. QED
      BY <1>1, <3>2
  <2>5. ASSUME NEW ack \in Acks, RecvAck(ack)
        PROVE  HeadPos(cb') - HeadPos(cb) <= sentNotAcked
    <3>1. CASE RecvProgress(ack)
      BY <2>5, <3>1, AckType, ProgressKeepsInv
    <3>2. CASE RecvFin(ack) \/ RecvUseless(ack)
      BY <1>2, <3>2 DEF RecvFin, RecvUseless
    <3>3. QED
      BY <2>5, <3>1, <3>2 DEF RecvAck
  <2>6. QED
    BY <1>6, <2>1, <2>2, <2>3, <2>4, <2>5 DEF ClientStep
<1>7. QED
  BY <1>3, <1>4, <1>5, <1>6 DEF SMNext

(* A step of a connected manager drops at most what is in flight: no byte  *)
(* leaves the buffer before it was sent to this client.                    *)
THEOREM SentBeforeDropped == SMSpec => OnlySentBytesLeave
<1>1. Inv /\ [SMNext]_smVars =>
        [connected /\ connected' => HeadPos(cb') - HeadPos(cb) <= sentNotAcked]_smVars
  BY StepMovesHead
<1>2. QED
  BY <1>1, Invariant, PTL DEF SMSpec, OnlySentBytesLeave

(* Once the end is acked nothing is sent and nobody connects.              *)
THEOREM EndIsFinal == SMSpec => DoneIsFinal
<1>1. Inv /\ [SMNext]_smVars =>
        [terminalEventAcked => /\ terminalEventAcked'
                               /\ packets' = packets
                               /\ startSeq' = startSeq]_smVars
  <2> SUFFICES ASSUME Inv, SMNext, terminalEventAcked
               PROVE  terminalEventAcked' /\ packets' = packets /\ startSeq' = startSeq
    OBVIOUS
  <2> USE DEF termVars, outVars
  <2>1. call.pc = "none"
    BY DEF Inv, CallOK
  <2>2. CASE ReaderStep
    BY <2>2 DEF ReaderStep, AttachReader, CheckClosed, ReadPty, WriteAvailable,
                SignalWritten, HandleEnd
  <2>3. CASE SenderStep
    BY <2>3 DEF SenderStep, SendData, SendTerminal, SenderWait, MaySendData,
                MaySendTerminal, MaySend
  <2>4. CASE CallStep
    BY <2>1, <2>4 DEF CallStep, ConnectConsume, ConnectReread, ConnectReturn
  <2>5. CASE ClientStep
    BY <2>5 DEF ClientStep, ClientConnected, ClientDisconnected, RecvAck, RecvFin,
                RecvUseless, RecvProgress, SetRwndSize, Close
  <2>6. QED
    BY <2>2, <2>3, <2>4, <2>5 DEF SMNext
<1>2. QED
  BY <1>1, Invariant, PTL DEF SMSpec, DoneIsFinal

-----------------------------------------------------------------------------
(* The sender loop is never left waiting with something to send.           *)

(* A progress ack that leaves the sender waiting acks nothing and does not *)
(* widen the window.                                                       *)
LEMMA QuietAck ==
  ASSUME Inv, SenderNotStranded, NEW ack \in Acks, RecvAck(ack), RecvProgress(ack),
         senderWaits', readPc' # "signal"
  PROVE  ~MaySendData' /\ ~MaySendTerminal'
<1> DEFINE w == EffectiveWindow(ack.rwnd)
<1>1. /\ senderWaits /\ ~(ack.rwnd > rwndSize) /\ ~(ack.seq - HeadPos(cb) > 0)
      /\ rwndSize' = ack.rwnd
      /\ ack.seq - HeadPos(cb) \in 0 .. sentNotAcked
      /\ UNCHANGED <<termVars, connected, readVars>>
  BY DEF RecvAck, RecvProgress, AcksInFlight
<1>2. sentNotAcked \in Nat /\ rwndSize \in Nat /\ ack.rwnd \in Nat /\ ack.seq \in Nat
      /\ HeadPos(cb) \in Nat /\ cb.count \in Nat
  BY AckType, HeadPosType DEF Inv, SMTypeOK, Buffer
<1>3. ack.seq - HeadPos(cb) = 0
  BY <1>1, <1>2
<1>4. sentNotAcked' = sentNotAcked /\ cb' = WithWindow(cb, TRUE, w)
  <2>1. sentNotAcked' = sentNotAcked - (ack.seq - HeadPos(cb))
    BY DEF RecvProgress
  <2>2. cb' = WithWindow(cb, TRUE, w)
    BY <1>1 DEF RecvProgress
  <2>3. QED
    BY <1>2, <1>3, <2>1, <2>2
<1>5. w \in Nat /\ w <= EffectiveWindow(rwndSize) /\ EffectiveWindow(rwndSize) \in Nat
  BY <1>1, <1>2, CwndSizeAssumption DEF EffectiveWindow, Least
<1>6. EffectiveWindow(rwndSize)' = w
  BY <1>1 DEF EffectiveWindow
<1> HIDE DEF w
<1>7. cb'.count = cb.count
  BY <1>4, <1>5, WithWindowFields DEF Inv
<1>8. ~MaySendData /\ ~MaySendTerminal
  BY <1>1 DEF SenderNotStranded, readVars
<1>9. AvailableToSend' <= AvailableToSend
      /\ AvailableToSend' \in Int /\ AvailableToSend \in Int
  BY <1>2, <1>4, <1>5, <1>6 DEF AvailableToSend
<1>10. cb'.count > 0 /\ AvailableToSend' > 0 /\ cb'.count > sentNotAcked'
       => cb.count > 0 /\ AvailableToSend > 0 /\ cb.count > sentNotAcked
  <2>1. AvailableToSend' > 0 => AvailableToSend > 0
    BY <1>9
  <2>2. cb'.count > 0 => cb.count > 0
    BY <1>7
  <2>3. cb'.count > sentNotAcked' => cb.count > sentNotAcked
    BY <1>4, <1>7
  <2>4. QED
    BY <2>1, <2>2, <2>3
<1>11. MaySend' => MaySend
  BY <1>1 DEF MaySend, termVars
<1>12. QED
  BY <1>1, <1>7, <1>8, <1>10, <1>11 DEF MaySendData, MaySendTerminal, termVars

LEMMA StepKeepsSenderAwake ==
  ASSUME Inv, SenderNotStranded, [SMNext]_smVars, senderWaits', readPc' # "signal"
  PROVE  ~MaySendData' /\ ~MaySendTerminal'
<1> USE DEF readVars, termVars, connVars, ackVars, outVars
(* A step that changes nothing prepareNextPacket looks at.                 *)
<1>0. ASSUME /\ senderWaits /\ readPc # "signal"
             /\ cb'.count = cb.count
             /\ UNCHANGED <<rwndSize, sentNotAcked, closed, terminalEventAcked, connected,
                            terminalEvent, terminalEventSent>>
      PROVE  ~MaySendData' /\ ~MaySendTerminal'
  BY <1>0 DEF SenderNotStranded, MaySendData, MaySendTerminal, MaySend, AvailableToSend,
              EffectiveWindow
<1>1. CASE ReaderStep
  <2>1. CASE WriteAvailable
    <3>1. Full(cb) /\ cb' = Parked(cb) /\ readPc = "write" /\ senderWaits
      BY <2>1 DEF WriteAvailable
    <3>2. cb'.count = cb.count
      BY <3>1 DEF Parked, Inv, SMTypeOK, Buffer
    <3>3. QED
      BY <1>0, <2>1, <3>1, <3>2 DEF WriteAvailable
  <2>2. CASE ~WriteAvailable
    BY <1>0, <1>1, <2>2
    DEF ReaderStep, AttachReader, CheckClosed, ReadPty, SignalWritten, HandleEnd, Signal
  <2>3. QED
    BY <2>1, <2>2
<1>2. CASE SenderStep
  <2>1. SenderWait
    BY <1>2 DEF SenderStep, SendData, SendTerminal
  <2>2. QED
    BY <2>1 DEF SenderWait, MaySendData, MaySendTerminal, MaySend, AvailableToSend,
                EffectiveWindow
<1>3. CASE CallStep
  <2>1. ~ConnectReturn
    BY DEF ConnectReturn, Signal
  <2>2. ~connected'
    BY <1>3, <2>1 DEF CallStep, ConnectConsume, ConnectReread, Inv, CallOK
  <2>3. QED
    BY <2>2 DEF MaySendData, MaySendTerminal, MaySend
<1>4. CASE ClientStep
  <2>1. ASSUME NEW ack \in Acks, RecvAck(ack)
        PROVE  ~MaySendData' /\ ~MaySendTerminal'
    <3>1. ~RecvFin(ack)
      BY DEF RecvFin, Signal
    <3>2. CASE RecvUseless(ack)
      BY <1>0, <2>1, <3>2 DEF RecvAck, RecvUseless
    <3>3. CASE RecvProgress(ack)
      BY <2>1, <3>3, QuietAck
    <3>4. QED
      BY <2>1, <3>1, <3>2, <3>3 DEF RecvAck
  <2>2. ASSUME NEW id \in StreamIds, NEW rwnd \in Rwnds, NEW seq \in 0 .. MaxBytes + 1,
               ClientConnected(id, rwnd, seq)
        PROVE  ~MaySendData' /\ ~MaySendTerminal'
    BY <1>0, <2>2 DEF ClientConnected
  <2>3. ~ClientDisconnected /\ ~Close /\ \A rwnd \in Rwnds : ~SetRwndSize(rwnd)
    BY DEF ClientDisconnected, Close, SetRwndSize, Signal
  <2>4. QED
    BY <1>4, <2>1, <2>2, <2>3 DEF ClientStep
<1>5. CASE UNCHANGED smVars
  BY <1>0, <1>5 DEF smVars
<1>6. QED
  BY <1>1, <1>2, <1>3, <1>4, <1>5 DEF SMNext

(* No lost wakeup: the sender loop sits in drainCond.Wait only while       *)
(* prepareNextPacket has nothing for it, or the read loop, which writes    *)
(* without the lock, is about to signal.                                   *)
THEOREM SenderAwake == SMSpec => []SenderNotStranded
<1>1. SMInit => SenderNotStranded
  BY DEF SMInit, SenderNotStranded
<1>2. Inv /\ SenderNotStranded /\ [SMNext]_smVars => SenderNotStranded'
  BY StepKeepsSenderAwake DEF SenderNotStranded
<1>3. QED
  BY <1>1, <1>2, Invariant, PTL DEF SMSpec

(* Neither the PTY read loop nor the sender loop sleeps while it has work, *)
(* whatever handler ran last.                                              *)
THEOREM NobodyStranded == SMSpec => []NothingStranded
<1>1. SenderNotStranded /\ WriterNotStranded => NothingStranded
  BY DEF NothingStranded
<1>2. QED
  BY <1>1, PtyNotStranded, SenderAwake, PTL

-----------------------------------------------------------------------------
(* The end of the stream is announced behind all output, and only once all *)
(* of it is acked.                                                         *)

(* EndAfterAllAcked is inductive with what handleEOF and handleError leave *)
(* behind: the read loop is done, so that nothing is written after eofPos. *)
EndOK ==
  /\ EndAfterAllAcked
  /\ terminalEvent # "none" => readPc = "done" /\ eofPos = cb.total

(* A step that writes nothing, does not fill an empty buffer and adds only *)
(* data packets keeps EndOK.                                               *)
LEMMA HarmlessStep ==
  ASSUME EndOK, readPc = "done" => readPc' = "done",
         cb'.total = cb.total, cb.count = 0 => cb'.count = 0,
         terminalEvent' = terminalEvent, eofPos' = eofPos,
         \A p \in packets' : p \in packets \/ p.kind = "data"
  PROVE  EndOK'
  BY DEF EndOK, EndAfterAllAcked

LEMMA ReaderKeepsEnd == Inv /\ EndOK /\ ReaderStep => EndOK'
<1> SUFFICES ASSUME Inv, EndOK, ReaderStep PROVE EndOK'
  OBVIOUS
<1> USE DEF termVars, outVars
<1>1. readPc # "done"
  BY DEF ReaderStep, AttachReader, CheckClosed, ReadPty, WriteAvailable, SignalWritten,
         HandleEnd
<1>2. terminalEvent = "none" /\ \A p \in packets : p.kind = "data"
  BY <1>1 DEF EndOK, EndAfterAllAcked
<1>3. packets' = packets
  BY DEF ReaderStep, AttachReader, CheckClosed, ReadPty, WriteAvailable, SignalWritten,
         HandleEnd
<1>4. EndAfterAllAcked'
  BY <1>2, <1>3 DEF EndAfterAllAcked
<1>5. terminalEvent' # "none" => readPc' = "done" /\ eofPos' = cb'.total
  BY <1>2 DEF ReaderStep, AttachReader, CheckClosed, ReadPty, WriteAvailable,
              SignalWritten, HandleEnd
<1>6. QED
  BY <1>4, <1>5 DEF EndOK

LEMMA SenderKeepsEnd == Inv /\ EndOK /\ SenderStep => EndOK'
<1> SUFFICES ASSUME Inv, EndOK, SenderStep PROVE EndOK'
  OBVIOUS
<1> USE DEF readVars, termVars, outVars
<1>1. CASE SendData
  <2>1. \A p \in packets' : p \in packets \/ p.kind = "data"
    BY <1>1 DEF SendData, NextPacket
  <2>2. QED
    BY <1>1, <2>1, HarmlessStep DEF SendData
<1>2. CASE SendTerminal
  <2>1. /\ readPc = "done" /\ eofPos = cb.total /\ cb.count = 0
        /\ UNCHANGED <<readPc, cb, terminalEvent, eofPos>>
    BY <1>2 DEF SendTerminal, MaySendTerminal, EndOK
  <2>2. \A p \in packets' : p \in packets \/ p.seq = eofPos
    BY <1>2 DEF SendTerminal
  <2>3. QED
    BY <2>1, <2>2 DEF EndOK, EndAfterAllAcked
<1>3. CASE SenderWait
  BY <1>3, HarmlessStep DEF SenderWait
<1>4. QED
  BY <1>1, <1>2, <1>3 DEF SenderStep

(* What a handler does to the buffer: it takes bytes from the head and     *)
(* never adds any.                                                         *)
LEMMA ConsumedKeepsEmpty ==
  ASSUME NEW b, BufferOK(b), NEW n \in 0 .. b.count
  PROVE  /\ Consumed(b, n).total = b.total
         /\ b.count = 0 => Consumed(b, n).count = 0
  BY DEF BufferOK, Buffer, Consumed

LEMMA WithWindowKeepsEmpty ==
  ASSUME NEW b, BufferOK(b), NEW sync \in BOOLEAN, NEW windowSize \in Nat
  PROVE  /\ WithWindow(b, sync, windowSize).total = b.total
         /\ b.count = 0 => WithWindow(b, sync, windowSize).count = 0
  BY CirBufSizeAssumption DEF BufferOK, Buffer, WithWindow, Least

LEMMA CallKeepsEnd == Inv /\ EndOK /\ CallStep => EndOK'
<1> SUFFICES ASSUME Inv, EndOK, CallStep PROVE EndOK'
  OBVIOUS
<1> USE DEF readVars, termVars, outVars
<1>1. CASE ConnectConsume
  <2> DEFINE ahead == call.seq - call.head
  <2>1. call.seq \in Nat /\ call.head \in Nat /\ call.seq > call.head /\ cb.count \in Nat
    BY <1>1 DEF ConnectConsume, Inv, SMTypeOK, CallOK, Calls, Buffer
  <2>2. cb'.total = cb.total /\ (cb.count = 0 => cb'.count = 0)
    <3>1. CASE cb' = cb
      BY <3>1
    <3>2. CASE ahead <= cb.count /\ cb' = Consumed(cb, ahead)
      <4>1. ahead \in 0 .. cb.count
        BY <2>1, <3>2
      <4> HIDE DEF ahead
      <4>2. QED
        BY <3>2, <4>1, ConsumedKeepsEmpty DEF Inv
    <3>3. QED
      BY <1>1, <3>1, <3>2 DEF ConnectConsume
  <2>3. QED
    BY <1>1, <2>2, HarmlessStep DEF ConnectConsume
<1>2. CASE ConnectReread
  BY <1>2, HarmlessStep DEF ConnectReread
<1>3. CASE ConnectReturn
  <2>1. EffectiveWindow(call.rwnd) \in Nat
    BY WindowType DEF Inv, SMTypeOK, Calls
  <2>2. cb'.total = cb.total /\ (cb.count = 0 => cb'.count = 0)
    BY <1>3, <2>1, WithWindowKeepsEmpty DEF ConnectReturn, Inv
  <2>3. QED
    BY <1>3, <2>2, HarmlessStep DEF ConnectReturn
<1>4. QED
  BY <1>1, <1>2, <1>3 DEF CallStep

LEMMA AckKeepsEnd ==
  ASSUME Inv, EndOK, NEW ack, ack.seq \in Nat, ack.rwnd \in Nat, RecvAck(ack)
  PROVE  EndOK'
<1> USE DEF readVars, termVars, outVars
<1>1. CASE RecvFin(ack) \/ RecvUseless(ack)
  BY <1>1, HarmlessStep DEF RecvAck, RecvFin, RecvUseless
<1>2. CASE RecvProgress(ack)
  <2> DEFINE n == ack.seq - HeadPos(cb)
             b == IF n > 0 THEN Consumed(cb, n) ELSE cb
  <2>1. n \in 0 .. cb.count
    <3>1. n \in 0 .. sentNotAcked /\ sentNotAcked \in Nat /\ cb.count \in Nat
          /\ sentNotAcked <= cb.count
      BY <1>2 DEF RecvProgress, AcksInFlight, Inv, SMTypeOK, ConnOK, UnackedHeld, Buffer
    <3> HIDE DEF n
    <3>2. QED
      BY <3>1
  <2>2. EffectiveWindow(ack.rwnd) \in Nat
    BY AckType, WindowType
  <2>3. cb' = WithWindow(b, TRUE, EffectiveWindow(ack.rwnd))
    BY <1>2 DEF RecvProgress
  <2> HIDE DEF n
  <2>4. BufferOK(b) /\ b.total = cb.total /\ (cb.count = 0 => b.count = 0)
    BY <2>1, ConsumedOK, ConsumedKeepsEmpty DEF Inv
  <2> HIDE DEF b
  <2>5. cb'.total = cb.total /\ (cb.count = 0 => cb'.count = 0)
    BY <2>2, <2>3, <2>4, WithWindowKeepsEmpty
  <2>6. QED
    BY <1>2, <2>5, HarmlessStep DEF RecvAck, RecvProgress
<1>3. QED
  BY <1>1, <1>2 DEF RecvAck

LEMMA ClientKeepsEnd == Inv /\ EndOK /\ ClientStep => EndOK'
<1> SUFFICES ASSUME Inv, EndOK, ClientStep PROVE EndOK'
  OBVIOUS
<1> USE DEF readVars, termVars, outVars
<1>1. ASSUME NEW id \in StreamIds, NEW rwnd \in Rwnds, NEW seq \in 0 .. MaxBytes + 1,
             ClientConnected(id, rwnd, seq)
      PROVE  EndOK'
  BY <1>1, HarmlessStep DEF ClientConnected
<1>2. CASE ClientDisconnected
  <2>1. cb'.total = cb.total /\ (cb.count = 0 => cb'.count = 0)
    BY <1>2, CirBufSizeAssumption, WithWindowKeepsEmpty DEF ClientDisconnected, Inv
  <2>2. QED
    BY <1>2, <2>1, HarmlessStep DEF ClientDisconnected
<1>3. ASSUME NEW ack \in Acks, RecvAck(ack) PROVE EndOK'
  BY <1>3, AckType, AckKeepsEnd
<1>4. ASSUME NEW rwnd \in Rwnds, SetRwndSize(rwnd) PROVE EndOK'
  <2>1. EffectiveWindow(rwnd) \in Nat
    BY WindowType, RwndsAssumption
  <2>2. cb'.total = cb.total /\ (cb.count = 0 => cb'.count = 0)
    BY <1>4, <2>1, WithWindowKeepsEmpty DEF SetRwndSize, Inv
  <2>3. QED
    BY <1>4, <2>2, HarmlessStep DEF SetRwndSize
<1>5. CASE Close
  BY <1>5, HarmlessStep DEF Close
<1>6. QED
  BY <1>1, <1>2, <1>3, <1>4, <1>5 DEF ClientStep

(* prepareTerminalPacket announces the end at the position where the       *)
(* output ends, and only after the client has acked all of it: a packet    *)
(* with the end is proof that nothing was lost behind it.                  *)
THEOREM EndIsLast == SMSpec => []EndAfterAllAcked
<1>1. SMInit => EndOK
  BY DEF SMInit, EndOK, EndAfterAllAcked
<1>2. Inv /\ EndOK /\ [SMNext]_smVars => EndOK'
  <2> SUFFICES ASSUME Inv, EndOK, [SMNext]_smVars PROVE EndOK'
    OBVIOUS
  <2>1. CASE UNCHANGED smVars
    BY <2>1 DEF smVars, readVars, termVars, outVars, EndOK, EndAfterAllAcked
  <2>2. QED
    BY <2>1, ReaderKeepsEnd, SenderKeepsEnd, CallKeepsEnd, ClientKeepsEnd DEF SMNext
<1>3. EndOK => EndAfterAllAcked
  BY DEF EndOK
<1>4. QED
  BY <1>1, <1>2, <1>3, Invariant, PTL DEF SMSpec

-----------------------------------------------------------------------------
(* The packets of a stream cover a stretch of the output, no byte twice.   *)

(* The position of the next byte to send.                                  *)
SendPos == HeadPos(cb) + sentNotAcked

(* PacketsTile, of the packets of one stream.                              *)
BytesIn(P) == UNION {BytesOf(p) : p \in P}
Tiles(P) ==
  /\ \A p, q \in P : p # q => BytesOf(p) \cap BytesOf(q) = {}
  /\ \A i, j \in BytesIn(P) : i .. j \subseteq BytesIn(P)

(* What was sent, if anything, ends where the next packet will begin.      *)
EndsAt(P, pos) ==
  /\ \A p \in P : p.seq + p.len <= pos
  /\ P # {} => pos - 1 \in BytesIn(P)

(* PacketsTile is inductive with where the stream of the connected client  *)
(* stands, and with what makes its id new: nothing was sent on an id that  *)
(* ClientConnected has not answered for.                                   *)
TileOK ==
  /\ \A id \in StreamIds : Tiles(DataOn(id))
  /\ \A id \in StreamIds : startSeq[id] = -1 => DataOn(id) = {}
  /\ call.pc # "none" => startSeq[call.id] = -1
  /\ connected => startSeq[streamId] # -1 /\ EndsAt(DataOn(streamId), SendPos)

(* One more packet at the end keeps the stretch without a hole.            *)
LEMMA OneMorePacket ==
  ASSUME NEW P \in SUBSET DataPackets, NEW pos \in Nat, Tiles(P), EndsAt(P, pos),
         NEW q \in DataPackets, q.seq = pos
  PROVE  Tiles(P \union {q}) /\ EndsAt(P \union {q}, pos + q.len)
<1>1. \A p \in P \union {q} : p.seq \in Nat /\ p.len \in Nat \ {0}
  BY DEF DataPackets
<1>2. BytesOf(q) = pos .. pos + q.len - 1
  BY DEF BytesOf
<1>3. \A p \in P : BytesOf(p) \subseteq 0 .. pos - 1
  BY <1>1 DEF EndsAt, BytesOf
<1>4. BytesIn(P \union {q}) = BytesIn(P) \union BytesOf(q)
  BY DEF BytesIn
<1>5. BytesIn(P) \subseteq 0 .. pos - 1
  BY <1>3 DEF BytesIn
<1>6. ASSUME NEW p \in P \union {q}, NEW r \in P \union {q}, p # r
      PROVE  BytesOf(p) \cap BytesOf(r) = {}
  <2>1. BytesOf(q) \cap (0 .. pos - 1) = {}
    BY <1>1, <1>2
  <2>2. CASE p \in P /\ r \in P
    BY <1>6, <2>2 DEF Tiles
  <2>3. QED
    BY <1>3, <1>6, <2>1, <2>2
<1>7. ASSUME NEW i \in BytesIn(P) \union BytesOf(q), NEW j \in BytesIn(P) \union BytesOf(q)
      PROVE  i .. j \subseteq BytesIn(P) \union BytesOf(q)
  <2>1. CASE i \in BytesIn(P) /\ j \in BytesIn(P)
    BY <2>1 DEF Tiles
  <2>2. CASE i \in BytesIn(P) /\ j \in BytesOf(q)
    <3>1. pos - 1 \in BytesIn(P)
      BY <2>2 DEF EndsAt, BytesIn
    <3>2. i .. pos - 1 \subseteq BytesIn(P)
      BY <2>2, <3>1 DEF Tiles
    <3>3. i \in Nat /\ j \in pos .. pos + q.len - 1
      BY <1>2, <1>5, <2>2
    <3>4. i .. j \subseteq (i .. pos - 1) \union (pos .. pos + q.len - 1)
      BY <1>1, <3>3
    <3>5. QED
      BY <1>2, <3>2, <3>4
  <2>3. CASE i \in BytesOf(q) /\ j \in BytesOf(q)
    BY <1>1, <1>2, <2>3
  <2>4. CASE i \in BytesOf(q) /\ j \in BytesIn(P)
    <3>1. i .. j = {}
      BY <1>1, <1>2, <1>5, <2>4
    <3>2. QED
      BY <3>1
  <2>5. QED
    BY <2>1, <2>2, <2>3, <2>4
<1>8. Tiles(P \union {q})
  BY <1>4, <1>6, <1>7 DEF Tiles
<1>9. EndsAt(P \union {q}, pos + q.len)
  <2>1. pos + q.len - 1 \in BytesOf(q)
    BY <1>1, <1>2
  <2>2. \A p \in P \union {q} : p.seq + p.len <= pos + q.len
    BY <1>1 DEF EndsAt
  <2>3. pos + q.len - 1 \in BytesIn(P \union {q})
    BY <1>4, <2>1
  <2> DEFINE Q == P \union {q}
             e == pos + q.len
  <2>4. \A p \in Q : p.seq + p.len <= e
    BY <2>2
  <2>e. e - 1 \in BytesIn(Q)
    <3>1. e - 1 = pos + q.len - 1
      BY <1>1
    <3>2. QED
      BY <2>3, <3>1
  <2> HIDE DEF Q, e
  <2>5. EndsAt(Q, e)
    BY <2>4, <2>e DEF EndsAt
  <2>6. QED
    BY <2>5 DEF Q, e
<1>10. QED
  BY <1>8, <1>9

(* A step that sends no data, answers no client and leaves the position of *)
(* the connected client's stream alone keeps TileOK.                       *)
LEMMA NothingSent ==
  ASSUME TileOK,
         \A p : p.kind = "data" => (p \in packets' <=> p \in packets),
         startSeq' = startSeq,
         call'.pc # "none" => startSeq[call'.id] = -1,
         connected' => connected /\ streamId' = streamId /\ SendPos' = SendPos
  PROVE  TileOK'
<1>1. \A id \in StreamIds : DataOn(id)' = DataOn(id)
  BY DEF DataOn
<1>2. DataOn(streamId)' = {p \in packets' : p.id = streamId' /\ p.kind = "data"}
  BY DEF DataOn
<1>3. connected' => DataOn(streamId)' = DataOn(streamId)
  BY <1>2 DEF DataOn
<1>4. \A id \in StreamIds : Tiles(DataOn(id))'
  BY <1>1 DEF TileOK, Tiles, BytesIn, BytesOf
<1>5. connected' => EndsAt(DataOn(streamId), SendPos)'
  BY <1>3 DEF TileOK, EndsAt, BytesIn, BytesOf
<1>6. QED
  BY <1>1, <1>4, <1>5 DEF TileOK

LEMMA ReaderKeepsTiles == Inv /\ TileOK /\ ReaderStep => TileOK'
<1> SUFFICES ASSUME Inv, TileOK, ReaderStep PROVE TileOK'
  OBVIOUS
<1> USE DEF connVars, ackVars, outVars
<1>1. UNCHANGED <<packets, startSeq, call, connected, streamId, sentNotAcked>>
  BY DEF ReaderStep, AttachReader, CheckClosed, ReadPty, WriteAvailable, SignalWritten,
         HandleEnd
<1>2. connected => HeadPos(cb') = HeadPos(cb)
  <2>1. CASE ~WriteAvailable
    <3>1. cb' = cb
      BY <2>1 DEF ReaderStep, AttachReader, CheckClosed, ReadPty, SignalWritten, HandleEnd
    <3>2. QED
      BY <3>1
  <2>2. CASE WriteAvailable /\ Full(cb)
    <3>1. cb' = Parked(cb) /\ cb \in Buffer
      BY <2>2 DEF WriteAvailable, Inv, SMTypeOK
    <3>2. QED
      BY <3>1 DEF Parked, HeadPos, Buffer
  <2>3. CASE WriteAvailable /\ ~Full(cb) /\ connected
    <3> DEFINE m == Accepts(cb, pending)
    <3>1. cb \in Buffer /\ cb.sync
      BY <2>3 DEF Inv, SMTypeOK, ConnOK, ConnectedIsSync
    <3>2. m \in Nat /\ cb.count + m <= cb.window
      BY <2>3, <3>1, AcceptsFits, MaxPacketSizeAssumption DEF Inv, SMTypeOK
    <3>3. cb' = Written(cb, m)
      BY <2>3 DEF WriteAvailable
    <3> HIDE DEF m
    <3>4. QED
      BY <3>1, <3>2, <3>3 DEF Written, HeadPos, Buffer, Least
  <2>4. QED
    BY <2>1, <2>2, <2>3
<1>3. connected => SendPos' = SendPos
  BY <1>1, <1>2 DEF SendPos, HeadPos
<1>4. call.pc # "none" => startSeq[call.id] = -1
  BY DEF TileOK
<1>5. QED
  BY <1>1, <1>3, <1>4, NothingSent

LEMMA SenderKeepsTiles == Inv /\ TileOK /\ SenderStep => TileOK'
<1> SUFFICES ASSUME Inv, TileOK, SenderStep PROVE TileOK'
  OBVIOUS
<1> USE DEF readVars, termVars, connVars
<1>1. CASE SendData
  <2> DEFINE n == NextPacketSize
             P == DataOn(streamId)
  <2>1. /\ connected /\ streamId \in StreamIds /\ sentNotAcked \in Nat
        /\ HeadPos(cb) \in Nat /\ SendPos \in Nat
    BY <1>1, HeadPosType DEF Inv, SMTypeOK, ConnOK, SendData, MaySendData, MaySend, SendPos
  <2>2. NextPacket \in DataPackets /\ NextPacket.len = n /\ n \in Nat
    BY <1>1, NextPacketType
  <2>3. /\ NextPacket.seq = SendPos /\ NextPacket.id = streamId
        /\ NextPacket.kind = "data"
    BY DEF NextPacket, SendPos
  <2>4. /\ packets' = packets \union {NextPacket}
        /\ sentNotAcked' = sentNotAcked + n
        /\ UNCHANGED <<startSeq, call, connected, streamId, cb>>
    BY <1>1 DEF SendData
  <2> HIDE DEF n
  <2>5. SendPos' = SendPos + n
    BY <2>1, <2>2, <2>4 DEF SendPos, HeadPos
  <2>6. P \in SUBSET DataPackets
    BY DEF Inv, SMTypeOK, DataOn, TerminalPackets
  <2>7. /\ DataOn(streamId)' = P \union {NextPacket}
        /\ \A id \in StreamIds : id # streamId => DataOn(id)' = DataOn(id)
        /\ \A id \in StreamIds : id = streamId => DataOn(id)' = P \union {NextPacket}
    BY <2>3, <2>4 DEF DataOn
  <2>8. Tiles(P) /\ EndsAt(P, SendPos)
    BY <2>1 DEF TileOK
  <2> HIDE DEF P
  <2>9. Tiles(P \union {NextPacket}) /\ EndsAt(P \union {NextPacket}, SendPos + n)
    BY <2>1, <2>2, <2>3, <2>6, <2>8, OneMorePacket
  <2>10. EndsAt(DataOn(streamId), SendPos)'
    BY <2>5, <2>7, <2>9 DEF EndsAt, BytesIn, BytesOf
  <2>11. ASSUME NEW id \in StreamIds PROVE Tiles(DataOn(id))'
    <3>1. CASE id = streamId
      BY <2>7, <2>9, <3>1 DEF Tiles, BytesIn, BytesOf
    <3>2. CASE id # streamId
      BY <2>7, <3>2 DEF TileOK, Tiles, BytesIn, BytesOf
    <3>3. QED
      BY <3>1, <3>2
  <2>12. \A id \in StreamIds : startSeq'[id] = -1 => DataOn(id)' = {}
    BY <2>1, <2>4, <2>7 DEF TileOK
  <2>13. QED
    BY <2>1, <2>4, <2>10, <2>11, <2>12 DEF TileOK
<1>2. CASE SendTerminal
  <2>1. \A p : p.kind = "data" => (p \in packets' <=> p \in packets)
    BY <1>2 DEF SendTerminal, MaySendTerminal, Inv, SMTypeOK
  <2>2. UNCHANGED <<startSeq, call, connected, streamId, sentNotAcked, cb>>
    BY <1>2 DEF SendTerminal, ackVars
  <2>3. QED
    BY <2>1, <2>2, NothingSent DEF TileOK, SendPos, HeadPos
<1>3. CASE SenderWait
  BY <1>3, NothingSent DEF SenderWait, ackVars, outVars, TileOK, SendPos, HeadPos
<1>4. QED
  BY <1>1, <1>2, <1>3 DEF SenderStep

LEMMA CallKeepsTiles == Inv /\ TileOK /\ CallStep => TileOK'
<1> SUFFICES ASSUME Inv, TileOK, CallStep PROVE TileOK'
  OBVIOUS
<1> USE DEF connVars, outVars
<1>1. ~connected /\ call.pc # "none" /\ startSeq[call.id] = -1 /\ call.id \in StreamIds
  BY DEF CallStep, ConnectConsume, ConnectReread, ConnectReturn, Inv, CallOK, TileOK
<1>2. CASE ConnectConsume \/ ConnectReread
  <2>1. call'.pc # "none" => call'.id = call.id
    <3>1. call \in Calls
      BY DEF Inv, SMTypeOK
    <3>2. CASE call' = NoCall
      BY <3>2 DEF NoCall
    <3>3. CASE call' = [call EXCEPT !.pc = "reread"]
      BY <3>1, <3>3 DEF Calls
    <3>4. CASE call' = [call EXCEPT !.pc = "set", !.head = HeadPos(cb)]
      BY <3>1, <3>4 DEF Calls
    <3>5. QED
      BY <1>2, <3>2, <3>3, <3>4 DEF ConnectConsume, ConnectReread
  <2>2. UNCHANGED <<packets, startSeq, connected>>
    BY <1>2 DEF ConnectConsume, ConnectReread
  <2>3. QED
    BY <1>1, <2>1, <2>2, NothingSent
<1>3. CASE ConnectReturn
  <2>1. packets' = packets /\ streamId' = call.id /\ call' = NoCall
        /\ startSeq' = [startSeq EXCEPT ![call.id] = Greatest(call.head, call.seq)]
    BY <1>3 DEF ConnectReturn
  <2>2. Greatest(call.head, call.seq) \in Nat
    BY DEF Inv, SMTypeOK, Calls, Greatest
  <2>3. \A id \in StreamIds : startSeq'[id] = -1 => startSeq[id] = -1
    BY <2>1, <2>2 DEF Inv, SMTypeOK
  <2>4. startSeq'[call.id] # -1
    BY <1>1, <2>1, <2>2 DEF Inv, SMTypeOK
  <2>5. DataOn(streamId)' = {}
    BY <1>1, <2>1 DEF TileOK, DataOn
  <2>6. EndsAt(DataOn(streamId), SendPos)'
    BY <2>5 DEF EndsAt
  <2>7. \A id \in StreamIds : DataOn(id)' = DataOn(id)
    BY <2>1 DEF DataOn
  <2>8. \A id \in StreamIds : Tiles(DataOn(id))'
    BY <2>7 DEF TileOK, Tiles, BytesIn, BytesOf
  <2>9. QED
    BY <2>1, <2>3, <2>4, <2>6, <2>7, <2>8 DEF TileOK, NoCall
<1>4. QED
  BY <1>2, <1>3 DEF CallStep

LEMMA ClientKeepsTiles == Inv /\ TileOK /\ ClientStep => TileOK'
<1> SUFFICES ASSUME Inv, TileOK, ClientStep PROVE TileOK'
  OBVIOUS
<1> USE DEF connVars, ackVars, outVars
<1>0. call.pc # "none" => startSeq[call.id] = -1
  BY DEF TileOK
<1>1. ASSUME NEW id \in StreamIds, NEW rwnd \in Rwnds, NEW seq \in 0 .. MaxBytes + 1,
             Fresh(id), ClientConnected(id, rwnd, seq)
      PROVE  TileOK'
  <2>1. UNCHANGED <<packets, startSeq, connected>> /\ ~connected
    BY <1>1 DEF ClientConnected
  <2>2. call'.id = id /\ startSeq[id] = -1
    BY <1>1 DEF ClientConnected, Fresh
  <2>3. QED
    BY <2>1, <2>2, NothingSent
<1>2. CASE ClientDisconnected
  BY <1>0, <1>2, NothingSent DEF ClientDisconnected
<1>3. ASSUME NEW ack \in Acks, RecvAck(ack) PROVE TileOK'
  <2>1. UNCHANGED <<packets, startSeq, call, connected, streamId>>
    BY <1>3 DEF RecvAck, RecvFin, RecvUseless, RecvProgress
  <2>2. SendPos' = SendPos
    <3>1. CASE RecvFin(ack) \/ RecvUseless(ack)
      BY <3>1 DEF RecvFin, RecvUseless, SendPos, HeadPos
    <3>2. CASE RecvProgress(ack)
      <4>1. HeadPos(cb') + sentNotAcked' = HeadPos(cb) + sentNotAcked
        BY <1>3, <3>2, AckType, ProgressKeepsInv
      <4>2. QED
        BY <4>1 DEF SendPos, HeadPos
    <3>3. QED
      BY <1>3, <3>1, <3>2 DEF RecvAck
  <2>3. QED
    BY <1>0, <2>1, <2>2, NothingSent
<1>4. ASSUME NEW rwnd \in Rwnds, SetRwndSize(rwnd) PROVE TileOK'
  <2>1. EffectiveWindow(rwnd) \in Nat
    BY WindowType, RwndsAssumption
  <2>2. HeadPos(cb') = HeadPos(cb)
    BY <1>4, <2>1, WithWindowFields DEF SetRwndSize, Inv
  <2>3. SendPos' = SendPos
    BY <1>4, <2>2 DEF SetRwndSize, SendPos, HeadPos
  <2>4. QED
    BY <1>0, <1>4, <2>3, NothingSent DEF SetRwndSize
<1>5. CASE Close
  BY <1>0, <1>5, NothingSent DEF Close, SendPos, HeadPos
<1>6. QED
  BY <1>1, <1>2, <1>3, <1>4, <1>5 DEF ClientStep

(* There is no retransmission within a stream and no gap: whatever acks    *)
(* arrive and however the windows change, the data packets of one stream   *)
(* cover a stretch of the output exactly once.                             *)
THEOREM PacketsCover == SMSpec => []PacketsTile
<1>1. SMInit => TileOK
  <2> SUFFICES ASSUME SMInit PROVE TileOK
    OBVIOUS
  <2>1. \A id \in StreamIds : DataOn(id) = {}
    BY DEF SMInit, DataOn
  <2>2. \A id \in StreamIds : Tiles(DataOn(id))
    BY <2>1 DEF Tiles, BytesIn
  <2>3. QED
    BY <2>1, <2>2 DEF SMInit, TileOK, NoCall
<1>2. Inv /\ TileOK /\ [SMNext]_smVars => TileOK'
  <2> SUFFICES ASSUME Inv, TileOK, [SMNext]_smVars PROVE TileOK'
    OBVIOUS
  <2>1. CASE UNCHANGED smVars
    BY <2>1, NothingSent DEF smVars, connVars, ackVars, outVars, TileOK, SendPos, HeadPos
  <2>2. QED
    BY <2>1, ReaderKeepsTiles, SenderKeepsTiles, CallKeepsTiles, ClientKeepsTiles DEF SMNext
<1>3. TileOK => PacketsTile
  BY DEF TileOK, Tiles, BytesIn, PacketsTile
<1>4. QED
  BY <1>1, <1>2, <1>3, Invariant, PTL DEF SMSpec

-----------------------------------------------------------------------------
(* The whole path.  Sound is its inductive invariant: Inv and EndOK of the *)
(* stream manager, and one conjunct for each part of the system.           *)

(* What has been handed on by the reader of a stream lies before Base; the *)
(* reader may be sent what lies before Limit.                              *)
Base(id)  == readers[id].nextSeq - Len(readers[id].buffer)
Limit(id) == Base(id) + ReadWindow

-----------------------------------------------------------------------------
(* Readers and their loops.                                                *)

Readers == [nextSeq : Nat, buffer : Seq(Nat), eof : BOOLEAN, err : BOOLEAN,
            closed : BOOLEAN, lastRwndSent : Nat,
            ooo : SUBSET (DataPackets \union TerminalPackets)]

(* Bytes follow each other up to a position.                               *)
EndsIn(bytes, pos) ==
  /\ Len(bytes) <= pos
  /\ \A i \in DOMAIN bytes : bytes[i] = pos - Len(bytes) + i - 1

(* An end a reader has seen is the end of the output.                      *)
ReaderOK(id) ==
  LET r == readers[id] IN
  /\ IsFiniteSet(r.ooo)
  /\ Len(r.buffer) <= ReadWindow /\ EndsIn(r.buffer, r.nextSeq)
  /\ \A p \in r.ooo : p.kind # "data" => p.kind = "eof" /\ readPc = "done" /\ p.seq = cb.total
  /\ r.eof => readPc = "done" /\ r.nextSeq = cb.total /\ (r.err => r.closed)
  /\ r.err => r.closed \/ (readPc = "done" /\ cb.count = 0)

LoopStates == [pc : {"none", "read", "append", "done"}, chunk : Seq(Nat)]
LoopOK(id) ==
  /\ loops[id].pc # "append" => loops[id].chunk = <<>>
  /\ EndsIn(loops[id].chunk, Base(id))
  /\ loops[id].pc \in {"read", "append"} => ~readers[id].closed
  /\ loops[id].pc = "done" => readers[id].closed

ReadersOK ==
  /\ readers \in [StreamIds -> Readers] /\ loops \in [StreamIds -> LoopStates]
  /\ \A id \in StreamIds : ReaderOK(id) /\ LoopOK(id)
  /\ \A id \in known : ~Finished(readers[id])

-----------------------------------------------------------------------------
(* Streams get fresh ids.                                                  *)

Used == 1 .. used
IdsOK ==
  /\ used \in Nat \ {0}
  /\ carried \subseteq Used /\ known \subseteq Used /\ attached \subseteq carried
  /\ {rpc.id, jm.id, ctl.id, pendingMeta, current, streamId, call.id}
       \subseteq Used \union {NoStream}
  /\ \A p \in packets : p.id \in Used
  /\ \A ack \in acks : ack.id \in Used
  /\ \A id \in StreamIds \ Used : loops[id].pc = "none"

(* Every stream but the first has cost a connection, and MaxStreams of     *)
(* them are enough.                                                        *)
Opening == IF ctl.pc \in {"connected", "statted"} THEN 1 ELSE 0
BoundOK ==
  /\ link \in BOOLEAN /\ drops \in 0 .. MaxStreams - 1
  /\ used + Opening + (IF link THEN 0 ELSE 1) <= drops + 1

-----------------------------------------------------------------------------
(* The handler of PrepareConnect and the RPC it answers.                   *)

CallHeads ==
  /\ call.pc # "none" => call.head <= HeadPos(cb)
  /\ call.pc \in {"reread", "set"} => call.seq <= HeadPos(cb)
HandlerOK ==
  /\ jm \in [pc : {"idle", "connect", "called"}, id : StreamIds \union {NoStream}, seq : Nat]
  /\ jm.pc # "idle" => jm.id \in StreamIds
  /\ call.pc # "none" => jm.pc = "called" /\ call.id = jm.id /\ call.rwnd = 0
  /\ call.pc # "none" => call.seq = jm.seq
  /\ CallHeads

(* A request is answered for the stream and the position it was made for,  *)
(* and a stream that was prepared is the connected and pending one.        *)
Prepared == rpc.op \in {"prepared", "start"}
RpcOK ==
  /\ rpc \in Rpcs
  /\ rpc.op # "none" => rpc.id \in StreamIds
  /\ rpc.op \notin {"none", "prepare"} => rpc.id \in carried
  /\ rpc.op = "taken" => jm.pc # "idle" /\ jm.id = rpc.id /\ jm.seq = rpc.seq
  /\ Prepared =>
       /\ jm.pc = "idle" /\ connected /\ streamId = rpc.id /\ pendingMeta = rpc.id
       /\ rpc.seq <= HeadPos(cb)

-----------------------------------------------------------------------------
(* restartStreaming.                                                       *)

CtlTypes ==
  /\ ctl \in [pc : {"idle", "connected", "statted", "preparing", "starting"},
              id : StreamIds \union {NoStream}, seq : Nat, gap : Nat]
  /\ current \in StreamIds \union {NoStream} /\ pendingMeta \in StreamIds \union {NoStream}
RestartOK ==
  /\ CtlTypes
  /\ ctl.pc \in {"preparing", "starting"} =>
       /\ ctl.id \in StreamIds /\ current = ctl.id /\ rpc.id \in {ctl.id, NoStream}
       /\ loops[ctl.id].pc = "none" /\ ~readers[ctl.id].closed
  /\ ctl.pc = "preparing" =>
       /\ readers[ctl.id].nextSeq = ctl.seq /\ rpc.op \notin {"start", "started"}
       /\ rpc.op \in {"prepare", "taken"} => rpc.seq = ctl.seq
       /\ rpc.op = "prepared" => rpc.seq >= ctl.seq
  /\ rpc.op = "start" =>
       \/ rpc.id \notin known /\ ~(ctl.pc = "starting" /\ ctl.id = rpc.id)
       \/ readers[rpc.id].nextSeq = rpc.seq

-----------------------------------------------------------------------------
(* Flow control.                                                           *)

OnData(id)  == {p \in packets : p.id = id /\ p.kind = "data"}
Sending(id) == connected /\ streamId = id
Acking(id)  == id \in known /\ \E ack \in acks : ack.id = id

(* Nothing has been sent on a stream but, perhaps, that it is over: its    *)
(* window is closed until StartStream opens it.                            *)
Quiet(id) ==
  /\ OnData(id) = {} /\ readers[id].buffer = <<>>
  /\ \A p \in readers[id].ooo : p.kind # "data"
  /\ id \notin attached /\ ~Acking(id)
  /\ Sending(id) => rwndSize = 0 /\ sentNotAcked = 0

(* Everything under way, and everything that may be sent before the next   *)
(* ack, fits into the reader's window.                                     *)
Bounded(id) ==
  /\ \A p \in OnData(id) : p.seq + p.len <= Limit(id)
  /\ \A p \in readers[id].ooo : p.kind = "data" => p.seq + p.len <= Limit(id)
  /\ Sending(id) => HeadPos(cb) + rwndSize <= Limit(id) /\ HeadPos(cb) + sentNotAcked <= Limit(id)

(* The head had passed the position the reader was told: everything waits  *)
(* for a byte that is gone.                                                *)
Blocked(id) ==
  /\ \A p \in packets : p.id = id => p.kind = "error" \/ p.seq > readers[id].nextSeq
  /\ \A p \in readers[id].ooo : p.seq > readers[id].nextSeq
  /\ readers[id].buffer = <<>> /\ ~Acking(id)
  /\ Sending(id) => HeadPos(cb) > readers[id].nextSeq

(* Streams that StartStream has yet to start.                              *)
Unstarted(id) ==
  \/ pendingMeta = id
  \/ jm.pc # "idle" /\ jm.id = id
  \/ rpc.op \in {"prepare", "taken", "prepared", "start"} /\ rpc.id = id
  \/ ctl.pc = "preparing" /\ ctl.id = id

(* What a reader that is not done has acked.                               *)
AckOK(ack) ==
  /\ ack \in [id : StreamIds, seq : Nat, rwnd : Nat, fin : BOOLEAN, cancel : BOOLEAN]
  /\ ack.id \in known =>
       ~ack.fin /\ ack.seq <= readers[ack.id].nextSeq /\ ack.seq + ack.rwnd <= Limit(ack.id)

FlowOK ==
  /\ \A ack \in acks : AckOK(ack)
  /\ \A id \in StreamIds : Unstarted(id) => Quiet(id)
  /\ \A id \in carried \cap known : Quiet(id) \/ Bounded(id) \/ Blocked(id)

-----------------------------------------------------------------------------
(* The file.                                                               *)

(* Bytes rise, and stay below a position.                                  *)
RisesBelow(bytes, n, pos) ==
  /\ \A i, j \in 1 .. n : i < j => bytes[i] < bytes[j]
  /\ \A i \in 1 .. n : bytes[i] < pos

Recorded == Len(file) + totalGap
FileTypes ==
  /\ file \in Seq(Nat) /\ totalGap \in Nat
  /\ disk \in [size : Nat, gap : Nat] /\ disk.size <= Len(file)
  /\ streamDone \in BOOLEAN /\ lateAppend \in BOOLEAN
InFile ==
  /\ RisesBelow(file, Len(file), Recorded)
  /\ RisesBelow(file, disk.size, disk.size + disk.gap)
  /\ ctl.pc \in {"statted", "preparing"} => ctl.seq = Recorded /\ ctl.gap = totalGap
  /\ current # NoStream => Base(current) = Recorded + Len(loops[current].chunk)
DoneIsRead ==
  current # NoStream /\ loops[current].pc = "done" /\ readers[current].eof
    => readers[current].buffer = <<>>
FileOK == FileTypes /\ DoneIsRead /\ (~lateAppend => InFile)

Sound ==
  /\ Inv /\ EndOK
  /\ ReadersOK /\ IdsOK /\ BoundOK /\ HandlerOK /\ RpcOK /\ RestartOK /\ FlowOK /\ FileOK

-----------------------------------------------------------------------------
(* The reader.                                                             *)

(* A set of natural numbers has a least one.                               *)
LEMMA LeastNumber ==
  ASSUME NEW T \in SUBSET Nat, T # {}
  PROVE  \E x \in T : \A y \in T : x <= y
<1>1. PICK m \in T : TRUE
  OBVIOUS
<1> DEFINE S == 0 .. m
           Below(n) == 0 .. n - 1
           F == {Below(n) : n \in {k \in T : k <= m}}
           R == StrictSubsetOrdering(S)
<1>2. IsFiniteSet(S)
  BY <1>1, FS_Interval
<1>3. F # {} /\ F \subseteq FiniteSubsetsOf(S)
  <2>1. F # {}
    BY <1>1
  <2>2. ASSUME NEW n \in T, n <= m PROVE Below(n) \subseteq S
    BY <1>1, <2>2
  <2>3. F \subseteq SUBSET S
    BY <2>2
  <2>4. QED
    BY <2>1, <2>3, <1>2, FS_Subset DEF FiniteSubsetsOf
<1>4. PICK X \in F : \A Y \in F : <<Y, X>> \notin R
  <2>1. IsWellFoundedOn(R, FiniteSubsetsOf(S))
    BY FS_StrictSubsetOrderingWellFounded
  <2> HIDE DEF R, F
  <2>2. QED
    BY <2>1, <1>3, WFMin
<1>5. PICK x \in T : x <= m /\ X = Below(x)
  BY <1>4
<1>6. ASSUME NEW y \in T, y < x PROVE FALSE
  <2>1. Below(y) \in F
    BY <1>5, <1>6
  <2>2. Below(y) \subseteq Below(x) /\ Below(y) # Below(x)
    <3>1. y \in Below(x) /\ y \notin Below(y)
      BY <1>6
    <3>2. QED
      BY <3>1, <1>6
  <2>3. Below(x) \subseteq S /\ Below(y) \subseteq S
    BY <1>3, <1>5, <2>1, <2>2 DEF FiniteSubsetsOf
  <2>4. QED
    BY <1>4, <1>5, <2>1, <2>2, <2>3 DEF StrictSubsetOrdering
<1>7. QED
  BY <1>6

(* There is a longest run: none is longer than there are packets.          *)
LEMMA LongestRunIs ==
  ASSUME NEW r \in Readers, IsFiniteSet(r.ooo)
  PROVE  /\ LongestRun(r) \in Seq(r.ooo) /\ Continues(r, LongestRun(r))
<1> DEFINE n == Cardinality(r.ooo)
           T == {n - Len(s) : s \in Runs(r)}
<1>1. n \in Nat
  BY FS_CardinalityType
<1>2. ASSUME NEW s \in Runs(r)
      PROVE  s \in Seq(r.ooo) /\ Len(s) \in 0 .. n
  <2>1. PICK m \in 0 .. n : s \in [1 .. m -> r.ooo]
    BY <1>2 DEF Runs, SeqOf
  <2>2. QED
    BY <1>1, <2>1
<1>3. <<>> \in Runs(r)
  <2>1. <<>> \in [1 .. 0 -> r.ooo]
    OBVIOUS
  <2>2. <<>> \in SeqOf(r.ooo, n)
    BY <1>1, <2>1 DEF SeqOf
  <2>3. QED
    BY <2>2 DEF Runs, Continues
<1>4. T \in SUBSET Nat /\ T # {}
  <2> HIDE DEF n
  <2>1. QED
    BY <1>1, <1>2, <1>3
<1>5. PICK x \in T : \A y \in T : x <= y
  <2> HIDE DEF T
  <2>1. QED
    BY <1>4, LeastNumber
<1>6. PICK s \in Runs(r) : x = n - Len(s)
  BY <1>5
<1>7. ASSUME NEW t \in Runs(r) PROVE Len(t) <= Len(s)
  <2>1. n - Len(s) <= n - Len(t)
    BY <1>5, <1>6
  <2> HIDE DEF n, T
  <2>2. QED
    BY <2>1, <1>1, <1>2
<1>8. LongestRun(r) \in Runs(r)
  BY <1>7 DEF LongestRun
<1>9. QED
  BY <1>2, <1>8 DEF Runs

(* A run goes on from where the reader is.                                 *)
LEMMA RunAdvances ==
  ASSUME NEW r \in Readers, NEW s \in Seq(r.ooo), Continues(r, s)
  PROVE  \A i \in DOMAIN s : s[i].seq >= r.nextSeq
<1>1. \A p \in r.ooo : p.seq \in Int /\ p.len \in Nat
  BY DEF Readers, DataPackets, TerminalPackets
<1>2. r.nextSeq \in Nat
  BY DEF Readers
<1> DEFINE T == {i \in DOMAIN s : s[i].seq < r.nextSeq}
<1>3. SUFFICES ASSUME T # {} PROVE FALSE
  BY <1>1, <1>2
<1>4. T \in SUBSET Nat
  OBVIOUS
<1>5. PICK i \in T : \A j \in T : i <= j
  BY <1>3, <1>4, LeastNumber
<1>6. i > 1 /\ i - 1 \in DOMAIN s
  BY <1>1, <1>2, <1>5 DEF Continues
<1>7. s[i].seq = s[i - 1].seq + s[i - 1].len
  BY <1>5, <1>6 DEF Continues
<1>8. s[i - 1].seq >= r.nextSeq
  BY <1>1, <1>2, <1>5, <1>6
<1>9. s[i - 1] \in r.ooo /\ s[i] \in r.ooo
  BY <1>5, <1>6
<1>10. QED
  BY <1>1, <1>2, <1>5, <1>7, <1>8, <1>9

(* Bytes that follow each other can be continued, and split.               *)
LEMMA EndsInMore ==
  ASSUME NEW bytes \in Seq(Nat), NEW pos \in Nat, EndsIn(bytes, pos), NEW n \in Nat
  PROVE  LET more == bytes \o [i \in 1 .. n |-> pos + i - 1] IN
         more \in Seq(Nat) /\ Len(more) = Len(bytes) + n /\ EndsIn(more, pos + n)
<1> DEFINE tail == [i \in 1 .. n |-> pos + i - 1]
           more == bytes \o tail
<1>1. tail \in Seq(Nat) /\ Len(tail) = n
  <2>1. \A i \in 1 .. n : pos + i - 1 \in Nat
    OBVIOUS
  <2>2. QED
    BY <2>1
<1>2. more \in Seq(Nat) /\ Len(more) = Len(bytes) + n
  <2> HIDE DEF tail
  <2>1. QED
    BY <1>1
<1>3. \A i \in 1 .. Len(bytes) + n :
        more[i] = IF i <= Len(bytes) THEN bytes[i] ELSE tail[i - Len(bytes)]
  <2> HIDE DEF tail
  <2>1. QED
    BY <1>1
<1>4. \A i \in 1 .. n : tail[i] = pos + i - 1
  OBVIOUS
<1> HIDE DEF tail
<1>5. DOMAIN more = 1 .. Len(bytes) + n /\ DOMAIN bytes = 1 .. Len(bytes) /\ Len(bytes) \in Nat
  BY <1>1, <1>2
<1>6. ASSUME NEW i \in DOMAIN more
      PROVE  more[i] = pos + n - (Len(bytes) + n) + i - 1
  <2>1. CASE i <= Len(bytes)
    <3>1. more[i] = bytes[i] /\ i \in DOMAIN bytes
      BY <1>3, <1>5, <1>6, <2>1
    <3>2. QED
      BY <3>1, <1>5 DEF EndsIn
  <2>2. CASE ~(i <= Len(bytes))
    <3>1. more[i] = tail[i - Len(bytes)] /\ i - Len(bytes) \in 1 .. n
      BY <1>3, <1>5, <1>6, <2>2
    <3>2. QED
      BY <3>1, <1>4, <1>5
  <2>3. QED
    BY <2>1, <2>2
<1>7. Len(more) <= pos + n
  BY <1>2, <1>5 DEF EndsIn
<1> HIDE DEF more
<1>8. EndsIn(more, pos + n)
  BY <1>2, <1>6, <1>7 DEF EndsIn
<1>9. QED
  BY <1>2, <1>8 DEF more, tail

(* Both halves of a cut keep their places.                                 *)
LEMMA EndsInSplit ==
  ASSUME NEW bytes \in Seq(Nat), NEW pos \in Nat, EndsIn(bytes, pos),
         NEW k \in 0 .. Len(bytes)
  PROVE  LET head == SubSeq(bytes, 1, k)
             tail == SubSeq(bytes, k + 1, Len(bytes))
         IN /\ head \in Seq(Nat) /\ Len(head) = k /\ EndsIn(head, pos - Len(bytes) + k)
            /\ tail \in Seq(Nat) /\ Len(tail) = Len(bytes) - k /\ EndsIn(tail, pos)
<1> DEFINE head == SubSeq(bytes, 1, k)
           tail == SubSeq(bytes, k + 1, Len(bytes))
<1>1. head \in Seq(Nat) /\ Len(head) = k /\ \A i \in 1 .. k : head[i] = bytes[i]
  OBVIOUS
<1>2. /\ tail \in Seq(Nat) /\ Len(tail) = Len(bytes) - k
      /\ \A i \in 1 .. Len(bytes) - k : tail[i] = bytes[k + i]
  OBVIOUS
<1>3. DOMAIN bytes = 1 .. Len(bytes) /\ DOMAIN head = 1 .. k
      /\ DOMAIN tail = 1 .. Len(bytes) - k /\ Len(bytes) \in Nat
  BY <1>1, <1>2
<1> HIDE DEF head, tail
<1>4. EndsIn(head, pos - Len(bytes) + k)
  BY <1>1, <1>3 DEF EndsIn
<1>5. EndsIn(tail, pos)
  <2>1. Len(tail) <= pos
    BY <1>2, <1>3 DEF EndsIn
  <2>2. ASSUME NEW i \in DOMAIN tail PROVE tail[i] = pos - Len(tail) + i - 1
    <3>1. k + i \in DOMAIN bytes
      BY <1>3, <2>2
    <3>2. tail[i] = pos - Len(bytes) + (k + i) - 1
      BY <3>1, <1>2, <1>3, <2>2 DEF EndsIn
    <3>3. QED
      BY <3>2, <1>2, <1>3, <2>2
  <2>3. QED
    BY <2>1, <2>2 DEF EndsIn
<1>6. QED
  BY <1>1, <1>2, <1>4, <1>5 DEF head, tail

(* A reader in itself.                                                     *)
Receiving(r) ==
  /\ r \in Readers /\ IsFiniteSet(r.ooo) /\ EndsIn(r.buffer, r.nextSeq)
  /\ \A q \in r.ooo : q.kind # "error"

(* What d, a later state of r, owes to the packets of a set: it stands at  *)
(* the end of one of them, and has reached the end of the output there.    *)
Grown(r, d, P) ==
  /\ Receiving(d)
  /\ d.closed = r.closed /\ d.nextSeq >= r.nextSeq
  /\ d.nextSeq - Len(d.buffer) = r.nextSeq - Len(r.buffer)
  /\ \/ d.nextSeq = r.nextSeq
     \/ \E q \in P : q.kind = "data" /\ d.nextSeq = q.seq + q.len
  /\ d.eof => \/ r.eof /\ d.nextSeq = r.nextSeq
              \/ \E q \in P : q.kind = "eof" /\ d.nextSeq = q.seq
  /\ d.ooo \subseteq P

(* The fields of a reader that took bytes in order.                        *)
LEMMA InOrderIs ==
  ASSUME NEW r, Receiving(r), NEW p, p.len \in Nat, p.seq = r.nextSeq
  PROVE  LET d == InOrder(r, p) IN
         /\ Receiving(d) /\ d.ooo = r.ooo
         /\ d.closed = r.closed /\ d.err = r.err /\ (d.eof <=> p.kind = "eof")
         /\ d.nextSeq = r.nextSeq + p.len
         /\ d.nextSeq - Len(d.buffer) = r.nextSeq - Len(r.buffer)
<1> DEFINE d == InOrder(r, p)
           b == r.buffer \o [i \in 1 .. p.len |-> r.nextSeq + i - 1]
<1>1. r.buffer \in Seq(Nat) /\ r.nextSeq \in Nat /\ EndsIn(r.buffer, r.nextSeq)
  BY DEF Receiving, Readers
<1>2. b \in Seq(Nat) /\ Len(b) = Len(r.buffer) + p.len /\ EndsIn(b, r.nextSeq + p.len)
  <2> HIDE DEF b
  <2>1. QED
    BY <1>1, EndsInMore DEF b
<1> HIDE DEF b
<1>3. d = [r EXCEPT !.buffer = b, !.nextSeq = @ + p.len, !.eof = (p.kind = "eof")]
  <2>1. [i \in 1 .. p.len |-> p.seq + i - 1] = [i \in 1 .. p.len |-> r.nextSeq + i - 1]
    OBVIOUS
  <2>2. QED
    BY <2>1 DEF InOrder, b
<1>4. r = [nextSeq |-> r.nextSeq, buffer |-> r.buffer, eof |-> r.eof, err |-> r.err,
           closed |-> r.closed, lastRwndSent |-> r.lastRwndSent, ooo |-> r.ooo]
  BY DEF Receiving, Readers
<1>5. /\ d.nextSeq = r.nextSeq + p.len /\ d.buffer = b /\ d.eof = (p.kind = "eof")
      /\ d.err = r.err /\ d.closed = r.closed /\ d.lastRwndSent = r.lastRwndSent
      /\ d.ooo = r.ooo
  BY <1>3, <1>4
<1>6. d \in Readers
  <2>1. (p.kind = "eof") \in BOOLEAN
    OBVIOUS
  <2>2. r.nextSeq + p.len \in Nat
    BY <1>1
  <2>3. QED
    BY <1>2, <1>3, <2>1, <2>2 DEF Receiving, Readers
<1> HIDE DEF d
<1>7. Len(r.buffer) \in Nat
  BY <1>1
<1>8. Receiving(d)
  BY <1>2, <1>5, <1>6 DEF Receiving
<1>9. d.nextSeq - Len(d.buffer) = r.nextSeq - Len(r.buffer)
  BY <1>1, <1>2, <1>5, <1>7
<1>10. d.eof <=> p.kind = "eof"
  BY <1>5
<1>11. QED
  BY <1>5, <1>8, <1>9, <1>10 DEF d

(* processOOOPacketsLocked.                                                *)
LEMMA DrainedIs ==
  ASSUME NEW r, Receiving(r)
  PROVE  LET d == Drained(r) IN
         Grown(r, d, r.ooo) /\ d.err = r.err /\ (r.eof => d.eof)
<1> DEFINE d == Drained(r)
           run == LongestRun(r)
           last == Last(run)
           len == last.seq + last.len - r.nextSeq
           more == InOrder(r, [last EXCEPT !.seq = r.nextSeq, !.len = len])
<1>1. run \in Seq(r.ooo) /\ Continues(r, run)
  BY LongestRunIs DEF Receiving
<1>2. r.nextSeq \in Nat /\ Len(r.buffer) \in Nat
  BY DEF Receiving, Readers
<1>3. CASE r.eof
  <2>1. d = [r EXCEPT !.ooo = {}]
    BY <1>3 DEF Drained
  <2>2. d \in Readers /\ IsFiniteSet(d.ooo) /\ d.ooo = {}
    BY <2>1, FS_EmptySet DEF Receiving, Readers
  <2>3. /\ d.nextSeq = r.nextSeq /\ d.buffer = r.buffer /\ d.eof = r.eof
        /\ d.err = r.err /\ d.closed = r.closed
    BY <2>1 DEF Receiving, Readers
  <2> HIDE DEF d
  <2>4. QED
    BY <1>2, <1>3, <2>2, <2>3 DEF Receiving, Grown, d
<1>4. CASE ~r.eof /\ run = <<>>
  <2>1. d = r
    BY <1>4 DEF Drained
  <2>2. QED
    BY <1>2, <1>4, <2>1 DEF Grown, Receiving
<1>5. CASE ~r.eof /\ run # <<>>
  <2> DEFINE n == Len(run)
  <2>1. n \in Nat \ {0} /\ last = run[n] /\ n \in DOMAIN run /\ last \in r.ooo
    BY <1>1, <1>5 DEF Last
  <2>2. \A q \in r.ooo : q \in DataPackets \union TerminalPackets /\ q.kind # "error"
    BY DEF Receiving, Readers
  <2>3. \A q \in r.ooo : q.seq \in Int /\ q.len \in Nat /\ (q.kind # "data" => q.kind = "eof" /\ q.len = 0)
    BY <2>2 DEF DataPackets, TerminalPackets
  <2>4. last.seq >= r.nextSeq
    BY <1>1, <2>1, RunAdvances DEF Receiving
  <2>5. len \in Nat
    BY <1>2, <2>1, <2>3, <2>4
  <2> DEFINE q0 == [last EXCEPT !.seq = r.nextSeq, !.len = len]
  <2>6. q0.len = len /\ q0.seq = r.nextSeq /\ q0.kind = last.kind
    BY <2>1, <2>2 DEF DataPackets, TerminalPackets
  <2>7. /\ Receiving(more) /\ more.ooo = r.ooo
        /\ more.closed = r.closed /\ more.err = r.err /\ (more.eof <=> last.kind = "eof")
        /\ more.nextSeq = last.seq + last.len
        /\ more.nextSeq - Len(more.buffer) = r.nextSeq - Len(r.buffer)
    <3> HIDE DEF q0, len, last
    <3>0. last.seq \in Int /\ last.len \in Int
      BY <2>1, <2>3
    <3>1. /\ Receiving(InOrder(r, q0)) /\ InOrder(r, q0).ooo = r.ooo
          /\ InOrder(r, q0).closed = r.closed /\ InOrder(r, q0).err = r.err
          /\ (InOrder(r, q0).eof <=> q0.kind = "eof")
          /\ InOrder(r, q0).nextSeq = r.nextSeq + q0.len
          /\ InOrder(r, q0).nextSeq - Len(InOrder(r, q0).buffer) = r.nextSeq - Len(r.buffer)
      BY <2>5, <2>6, InOrderIs
    <3>4. more = InOrder(r, q0)
      BY DEF q0
    <3>2. r.nextSeq + len = last.seq + last.len
      BY <1>2, <3>0 DEF len
    <3>3. QED
      BY <2>6, <3>1, <3>2, <3>4
  <2> HIDE DEF more
  <2> DEFINE rest == IF last.kind = "eof" THEN {} ELSE more.ooo \ ToSet(run)
  <2>8. d = [more EXCEPT !.ooo = rest]
    <3>1. d = [more EXCEPT !.ooo = IF last.kind = "eof" THEN {} ELSE @ \ ToSet(run)]
      BY <1>5 DEF Drained, more
    <3>2. QED
      BY <3>1
  <2>9. rest \subseteq r.ooo /\ IsFiniteSet(rest)
    <3>1. rest \subseteq r.ooo
      BY <2>7
    <3>2. QED
      BY <3>1, FS_Subset DEF Receiving
  <2> HIDE DEF rest, last
  <2>10. /\ d \in Readers /\ d.ooo = rest
         /\ d.nextSeq = more.nextSeq /\ d.buffer = more.buffer /\ d.eof = more.eof
         /\ d.err = more.err /\ d.closed = more.closed
    BY <2>7, <2>8, <2>9 DEF Receiving, Readers
  <2> HIDE DEF d
  <2>11. Receiving(d)
    BY <2>2, <2>7, <2>9, <2>10 DEF Receiving
  <2>12. d.nextSeq = last.seq + last.len /\ d.nextSeq >= r.nextSeq
    BY <1>2, <2>1, <2>3, <2>4, <2>7, <2>10
  <2>13. d.nextSeq = r.nextSeq \/ \E q \in r.ooo : q.kind = "data" /\ d.nextSeq = q.seq + q.len
    <3>1. CASE last.kind = "data"
      BY <2>1, <2>12, <3>1
    <3>2. CASE last.kind # "data" /\ n = 1
      <4>1. last.seq = r.nextSeq /\ last.len = 0
        BY <1>1, <2>1, <2>3, <3>2 DEF Continues
      <4>2. QED
        BY <1>2, <2>12, <4>1
    <3>3. CASE last.kind # "data" /\ n > 1
      <4>1. n - 1 \in DOMAIN run /\ run[n - 1] \in r.ooo
        BY <1>1, <2>1, <3>3
      <4>6. n \in DOMAIN run /\ n > 1 /\ last = run[n]
        BY <2>1, <3>3
      <4>2. /\ last.seq = run[n - 1].seq + run[n - 1].len /\ run[n - 1].kind # "eof"
            /\ last.len = 0
        BY <1>1, <2>1, <2>3, <3>3, <4>6 DEF Continues
      <4>3. last.seq \in Int /\ run[n - 1].kind = "data"
        BY <2>1, <2>3, <4>1, <4>2
      <4>4. d.nextSeq = run[n - 1].seq + run[n - 1].len
        BY <2>12, <4>2, <4>3
      <4>5. QED
        BY <4>1, <4>3, <4>4
    <3>4. n = 1 \/ n > 1
      <4> HIDE DEF n
      <4>1. QED
        BY <2>1
    <3> HIDE DEF n, run
    <3>5. QED
      BY <3>1, <3>2, <3>3, <3>4
  <2>14. d.eof => \E q \in r.ooo : q.kind = "eof" /\ d.nextSeq = q.seq
    <3>1. ASSUME d.eof PROVE last.kind = "eof" /\ last.len = 0 /\ last.seq \in Int
      BY <2>1, <2>3, <2>7, <2>10, <3>1
    <3>2. QED
      BY <2>1, <2>12, <3>1
  <2>15. QED
    BY <1>5, <2>7, <2>9, <2>10, <2>11, <2>12, <2>13, <2>14 DEF Grown, d
<1>6. QED
  BY <1>3, <1>4, <1>5 DEF Receiving, Readers

(* Announcing the window changes nothing else.                             *)
LEMMA AckedIs ==
  ASSUME NEW r, Receiving(r)
  PROVE  /\ Receiving(Acked(r)) /\ Acked(r).nextSeq = r.nextSeq
         /\ Acked(r).buffer = r.buffer /\ Acked(r).eof = r.eof /\ Acked(r).err = r.err
         /\ Acked(r).closed = r.closed /\ Acked(r).ooo = r.ooo
<1>1. Rwnd(r) \in Nat
  <2>1. Len(r.buffer) \in Nat
    BY DEF Receiving, Readers
  <2>2. QED
    BY <2>1, ReadWindowAssumption DEF Rwnd
<1>2. Acked(r) = [r EXCEPT !.lastRwndSent = Rwnd(r)]
  BY DEF Acked
<1>3. /\ Acked(r) \in Readers /\ Acked(r).nextSeq = r.nextSeq
      /\ Acked(r).buffer = r.buffer /\ Acked(r).eof = r.eof /\ Acked(r).err = r.err
      /\ Acked(r).closed = r.closed /\ Acked(r).ooo = r.ooo
  BY <1>1, <1>2 DEF Receiving, Readers
<1>4. QED
  BY <1>3 DEF Receiving

(* RecvData.                                                               *)
LEMMA RecvDataIs ==
  ASSUME NEW r, Receiving(r), NEW p \in DataPackets \union TerminalPackets
  PROVE  LET d == RecvData(r, p) IN
         /\ Grown(r, d, r.ooo \union {p})
         /\ d.eof /\ d.err => r.eof /\ r.err
         /\ p.kind # "error" => d.err = r.err
         /\ p.kind = "error" =>
              d.nextSeq = r.nextSeq /\ d.buffer = r.buffer /\ d.eof = r.eof
         /\ p.kind = "error" => d.ooo = r.ooo
         /\ ~AcksData(r, p) =>
              /\ d.nextSeq = r.nextSeq /\ d.buffer = r.buffer
              /\ d.eof = r.eof /\ d.err = r.err
         /\ AcksData(r, p) => ~Finished(r) /\ (p.kind # "error" => p.seq = r.nextSeq)
         /\ AcksData(r, p) /\ p.kind # "data" => d.eof \/ d.err
<1> DEFINE d == RecvData(r, p)
<1>1. p.len \in Nat /\ p.seq \in Int /\ r.nextSeq \in Nat /\ Len(r.buffer) \in Nat
  BY DEF DataPackets, TerminalPackets, Receiving, Readers
<1>2. CASE Ignores(r, p)
  <2>1. d = r /\ ~AcksData(r, p)
    <3>1. d = r
      <4>1. ~Defers(r, p)
        BY <1>1, <1>2 DEF Ignores, Defers
      <4>2. QED
        BY <1>2, <4>1 DEF RecvData
    <3>2. QED
      BY <1>2, <3>1 DEF AcksData
  <2> HIDE DEF d
  <2>2. Grown(r, d, r.ooo \union {p})
    BY <1>1, <2>1 DEF Grown
  <2>3. QED
    BY <2>1, <2>2 DEF d
<1>3. CASE Defers(r, p)
  <2> DEFINE o == IF \E q \in r.ooo : q.seq = p.seq THEN r.ooo ELSE r.ooo \union {p}
  <2>1. d = [r EXCEPT !.ooo = o] /\ ~AcksData(r, p) /\ p.kind # "error"
    <3>1. ~Ignores(r, p)
      BY <1>1, <1>3 DEF Ignores, Defers
    <3>2. QED
      BY <1>3, <3>1 DEF RecvData, Waiting, AcksData, Defers
  <2>2. o \subseteq r.ooo \union {p} /\ IsFiniteSet(o)
    BY FS_AddElement DEF Receiving
  <2> HIDE DEF o
  <2>3. /\ d \in Readers /\ d.nextSeq = r.nextSeq /\ d.buffer = r.buffer /\ d.eof = r.eof
        /\ d.err = r.err /\ d.closed = r.closed /\ d.ooo = o
    BY <2>1, <2>2 DEF Receiving, Readers
  <2> HIDE DEF d
  <2>4. Receiving(d)
    BY <2>1, <2>2, <2>3 DEF Receiving
  <2>5. Grown(r, d, r.ooo \union {p})
    BY <1>1, <2>2, <2>3, <2>4 DEF Grown
  <2>6. QED
    BY <2>1, <2>3, <2>5 DEF d
<1>4. CASE ~Ignores(r, p) /\ ~Defers(r, p) /\ p.kind = "error"
  <2> DEFINE e == [r EXCEPT !.err = TRUE]
  <2>1. d = Acked(e) /\ ~Finished(r)
    BY <1>4 DEF RecvData, Ignores
  <2>2. /\ Receiving(e) /\ e.nextSeq = r.nextSeq /\ e.buffer = r.buffer /\ e.eof = r.eof
        /\ e.err = TRUE /\ e.closed = r.closed /\ e.ooo = r.ooo
    BY DEF Receiving, Readers
  <2> HIDE DEF e, d
  <2>3. /\ Receiving(d) /\ d.nextSeq = r.nextSeq /\ d.buffer = r.buffer /\ d.eof = r.eof
        /\ d.err /\ d.closed = r.closed /\ d.ooo = r.ooo
    BY <2>1, <2>2, AckedIs
  <2>4. ~r.eof
    BY <2>1 DEF Finished
  <2>5. Grown(r, d, r.ooo \union {p})
    BY <1>1, <2>3, <2>4 DEF Grown
  <2>6. AcksData(r, p)
    BY <1>4 DEF AcksData
  <2>7. QED
    BY <1>4, <2>1, <2>3, <2>4, <2>5, <2>6 DEF d
<1>5. CASE ~Ignores(r, p) /\ ~Defers(r, p) /\ p.kind # "error"
  <2> DEFINE m == InOrder(r, p)
             e == Drained(m)
  <2>1. d = Acked(e) /\ ~Finished(r) /\ p.seq = r.nextSeq
    <3>1. ~Finished(r) /\ p.seq = r.nextSeq
      BY <1>1, <1>5 DEF Ignores, Defers
    <3>2. QED
      BY <1>5, <3>1 DEF RecvData
  <2>2. /\ Receiving(m) /\ m.ooo = r.ooo
        /\ m.closed = r.closed /\ m.err = r.err /\ (m.eof <=> p.kind = "eof")
        /\ m.nextSeq = r.nextSeq + p.len
        /\ m.nextSeq - Len(m.buffer) = r.nextSeq - Len(r.buffer)
    BY <1>1, <2>1, InOrderIs
  <2> HIDE DEF m
  <2>3. Grown(m, e, r.ooo) /\ e.err = r.err /\ (m.eof => e.eof)
    BY <2>2, DrainedIs
  <2> HIDE DEF e, d
  <2>4. Receiving(e)
    BY <2>3 DEF Grown
  <2>5. /\ Receiving(d) /\ d.nextSeq = e.nextSeq /\ d.buffer = e.buffer /\ d.eof = e.eof
        /\ d.err = r.err /\ d.closed = e.closed /\ d.ooo = e.ooo
    BY <2>1, <2>3, <2>4, AckedIs
  <2>6. p.kind = "data" \/ (p.kind = "eof" /\ p.len = 0)
    BY <1>5 DEF DataPackets, TerminalPackets
  <2>7. e.nextSeq \in Nat
    BY <2>4 DEF Receiving, Readers
  <2>8. \/ d.nextSeq = r.nextSeq
        \/ \E q \in r.ooo \union {p} : q.kind = "data" /\ d.nextSeq = q.seq + q.len
    BY <1>1, <2>1, <2>2, <2>3, <2>5, <2>6 DEF Grown
  <2>9. d.eof => \E q \in r.ooo \union {p} : q.kind = "eof" /\ d.nextSeq = q.seq
    <3>1. CASE \E q \in r.ooo : q.kind = "eof" /\ e.nextSeq = q.seq
      BY <2>5, <3>1
    <3>2. CASE m.eof /\ e.nextSeq = m.nextSeq
      <4>1. p.kind = "eof" /\ p.len = 0
        BY <2>2, <2>6, <3>2
      <4>2. d.nextSeq = p.seq
        BY <1>1, <2>1, <2>2, <2>5, <3>2, <4>1
      <4>3. QED
        BY <4>1, <4>2
    <3>3. QED
      BY <2>3, <2>5, <3>1, <3>2 DEF Grown
  <2>10. Grown(r, d, r.ooo \union {p})
    <3>1. d.ooo \subseteq r.ooo \union {p} /\ d.closed = r.closed
      BY <2>2, <2>3, <2>5 DEF Grown
    <3>2. d.nextSeq >= r.nextSeq
      BY <1>1, <2>2, <2>3, <2>5, <2>7 DEF Grown
    <3>3. d.nextSeq - Len(d.buffer) = r.nextSeq - Len(r.buffer)
      BY <2>2, <2>3, <2>5 DEF Grown
    <3>4. QED
      BY <2>5, <2>8, <2>9, <3>1, <3>2, <3>3 DEF Grown
  <2>11. ~r.err
    BY <2>1 DEF Finished
  <2>12. AcksData(r, p)
    BY <1>5 DEF AcksData
  <2>13. p.kind # "data" => d.eof
    BY <2>2, <2>3, <2>5, <2>6
  <2>14. QED
    BY <1>5, <2>1, <2>5, <2>10, <2>11, <2>12, <2>13 DEF d
<1>6. QED
  BY <1>2, <1>3, <1>4, <1>5

(* Read.                                                                   *)
LEMMA ReadIs ==
  ASSUME NEW r, Receiving(r), ReadsBytes(r)
  PROVE  LET chunk == ReadBytes(r, ReadSize)
             next  == AfterRead(r, ReadSize)
             d     == IF AcksRead(r, next) THEN Acked(next) ELSE next
         IN /\ Receiving(next) /\ Receiving(d)
            /\ chunk \in Seq(Nat) /\ Len(chunk) > 0
            /\ EndsIn(chunk, r.nextSeq - Len(r.buffer) + Len(chunk))
            /\ next.nextSeq = r.nextSeq
            /\ Len(next.buffer) = Len(r.buffer) - Len(chunk)
            /\ d.nextSeq = r.nextSeq /\ d.buffer = next.buffer /\ d.eof = r.eof
            /\ d.err = r.err /\ d.closed = r.closed /\ d.ooo = r.ooo
<1> DEFINE k     == IF ReadSize <= Len(r.buffer) THEN ReadSize ELSE Len(r.buffer)
           chunk == SubSeq(r.buffer, 1, k)
           rest  == SubSeq(r.buffer, k + 1, Len(r.buffer))
           next  == AfterRead(r, ReadSize)
           d     == IF AcksRead(r, next) THEN Acked(next) ELSE next
<1>1. r.buffer \in Seq(Nat) /\ r.nextSeq \in Nat /\ Len(r.buffer) \in Nat \ {0}
      /\ EndsIn(r.buffer, r.nextSeq)
  BY DEF Receiving, Readers, ReadsBytes
<1>2. k \in 0 .. Len(r.buffer) /\ k > 0
  BY <1>1, ReadSizeAssumption
<1> HIDE DEF k
<1>3. /\ chunk \in Seq(Nat) /\ Len(chunk) = k /\ EndsIn(chunk, r.nextSeq - Len(r.buffer) + k)
      /\ rest \in Seq(Nat) /\ Len(rest) = Len(r.buffer) - k /\ EndsIn(rest, r.nextSeq)
  BY <1>1, <1>2, EndsInSplit
<1>4. ReadBytes(r, ReadSize) = chunk
  BY DEF ReadBytes, k
<1> HIDE DEF chunk, rest
<1>5. next = [r EXCEPT !.buffer = rest]
  BY <1>3, <1>4 DEF AfterRead, rest
<1>6. /\ next \in Readers /\ next.nextSeq = r.nextSeq /\ next.buffer = rest
      /\ next.eof = r.eof /\ next.err = r.err /\ next.closed = r.closed /\ next.ooo = r.ooo
  BY <1>3, <1>5 DEF Receiving, Readers
<1> HIDE DEF next
<1>7. Receiving(next)
  BY <1>3, <1>6 DEF Receiving
<1>8. /\ Receiving(d) /\ d.nextSeq = r.nextSeq /\ d.buffer = next.buffer /\ d.eof = r.eof
      /\ d.err = r.err /\ d.closed = r.closed /\ d.ooo = r.ooo
  BY <1>6, <1>7, AckedIs
<1> HIDE DEF d
<1>9. QED
  BY <1>2, <1>3, <1>4, <1>6, <1>7, <1>8 DEF d, next

(* Close.                                                                  *)
LEMMA ClosedIs ==
  ASSUME NEW r, Receiving(r)
  PROVE  LET d == Closed(r) IN
         /\ Receiving(d) /\ d.closed /\ d.err /\ d.eof = r.eof
         /\ d.nextSeq = r.nextSeq /\ d.buffer = r.buffer /\ d.ooo = r.ooo
<1> DEFINE e == [r EXCEPT !.closed = TRUE, !.err = TRUE]
<1>1. /\ Receiving(e) /\ e.nextSeq = r.nextSeq /\ e.buffer = r.buffer /\ e.eof = r.eof
      /\ e.err = TRUE /\ e.closed = TRUE /\ e.ooo = r.ooo
  BY DEF Receiving, Readers
<1>2. Closed(r) = Acked(e)
  BY DEF Closed
<1> HIDE DEF e
<1>3. QED
  BY <1>1, <1>2, AckedIs

(* UpdateNextSeq, of a reader that holds nothing.                          *)
LEMMA UpdatedIs ==
  ASSUME NEW r, Receiving(r), r.buffer = <<>>, NEW seq \in Nat
  PROVE  LET d == UpdateNextSeq(r, seq) IN
         /\ Receiving(d) /\ d.nextSeq = seq /\ d.buffer = r.buffer
         /\ d.closed = r.closed /\ d.err = r.err /\ d.eof = r.eof /\ d.ooo = r.ooo
<1> DEFINE d == UpdateNextSeq(r, seq)
<1>1. /\ d \in Readers /\ d.nextSeq = seq /\ d.buffer = r.buffer /\ d.eof = r.eof
      /\ d.err = r.err /\ d.closed = r.closed /\ d.ooo = r.ooo
  BY DEF Receiving, Readers, UpdateNextSeq
<1> HIDE DEF d
<1>2. EndsIn(d.buffer, d.nextSeq)
  BY <1>1 DEF EndsIn
<1>3. QED
  BY <1>1, <1>2 DEF Receiving, d

(* A new reader.                                                           *)
LEMMA NewReaderIs ==
  ASSUME NEW seq \in Nat
  PROVE  LET d == NewReaderWithSeq(seq) IN
         /\ Receiving(d) /\ d.nextSeq = seq /\ d.buffer = <<>> /\ d.ooo = {}
         /\ ~d.closed /\ ~d.err /\ ~d.eof
<1> DEFINE d == NewReaderWithSeq(seq)
<1>1. /\ d \in Readers /\ d.nextSeq = seq /\ d.buffer = <<>> /\ d.ooo = {}
      /\ ~d.closed /\ ~d.err /\ ~d.eof
  BY ReadWindowAssumption DEF Readers, NewReaderWithSeq
<1> HIDE DEF d
<1>2. EndsIn(d.buffer, d.nextSeq) /\ IsFiniteSet(d.ooo)
  BY <1>1, FS_EmptySet DEF EndsIn
<1>3. QED
  BY <1>1, <1>2 DEF Receiving, d

(* A window offered reaches just to the limit of the reader.               *)
LEMMA AckFromIs ==
  ASSUME NEW r, Receiving(r), Len(r.buffer) <= ReadWindow,
         NEW id \in StreamIds, NEW fin \in BOOLEAN, NEW cancel \in BOOLEAN
  PROVE  LET ack == AckFrom(id, r, fin, cancel) IN
         /\ ack \in [id : StreamIds, seq : Nat, rwnd : Nat, fin : BOOLEAN, cancel : BOOLEAN]
         /\ ack.id = id /\ ack.seq = r.nextSeq /\ ack.fin = fin
         /\ ack.seq + ack.rwnd = r.nextSeq - Len(r.buffer) + ReadWindow
<1>1. r.nextSeq \in Nat /\ Len(r.buffer) \in Nat
  BY DEF Receiving, Readers
<1> DEFINE n == Len(r.buffer)
<1>2. Rwnd(r) \in Nat /\ Rwnd(r) = ReadWindow - Len(r.buffer)
  <2>1. Rwnd(r) = IF n >= ReadWindow THEN 0 ELSE ReadWindow - n
    BY DEF Rwnd
  <2>2. n \in Nat /\ n <= ReadWindow
    BY <1>1
  <2> HIDE DEF n
  <2>3. Rwnd(r) \in Nat /\ Rwnd(r) = ReadWindow - n
    BY <2>1, <2>2, ReadWindowAssumption
  <2>4. QED
    BY <2>3 DEF n
<1>3. QED
  BY <1>1, <1>2, ReadWindowAssumption DEF AckFrom

-----------------------------------------------------------------------------
(* The stream manager's part of every step: its own invariants hold, its   *)
(* head never goes back, and its end stays where it is.                    *)
Moved ==
  /\ Inv' /\ EndOK'
  /\ HeadPos(cb') >= HeadPos(cb)
  /\ readPc = "done" =>
       readPc' = "done" /\ cb'.total = cb.total /\ (cb.count = 0 => cb'.count = 0)

(* Numbers of a buffer.                                                    *)
LEMMA BufferNumbers ==
  ASSUME NEW b, BufferOK(b)
  PROVE  /\ b.total \in Nat /\ b.count \in Nat /\ b.window \in Nat /\ b.sync \in BOOLEAN
         /\ HeadPos(b) \in Nat /\ HeadPos(b) = b.total - b.count
  BY DEF BufferOK, Buffer, HeadPos

(* A write moves the head over what it overwrites, in sync mode nothing.   *)
LEMMA WriteHead ==
  ASSUME Inv, WriteAvailable
  PROVE  /\ HeadPos(cb') >= HeadPos(cb)
         /\ connected => HeadPos(cb') = HeadPos(cb)
<1>1. BufferOK(cb) /\ cb \in Buffer /\ pending \in Nat /\ (connected => cb.sync)
  BY MaxPacketSizeAssumption DEF Inv, SMTypeOK, ConnOK, ConnectedIsSync
<1>2. CASE Full(cb)
  BY <1>1, <1>2 DEF WriteAvailable, Parked, HeadPos, Buffer
<1>3. CASE ~Full(cb)
  <2> DEFINE m == Accepts(cb, pending)
  <2>1. m \in Nat /\ (cb.sync => cb.count + m <= cb.window)
    BY <1>1, <1>3, AcceptsFits
  <2>2. cb' = Written(cb, m)
    BY <1>3 DEF WriteAvailable
  <2> HIDE DEF m
  <2>3. cb'.total = cb.total + m /\ cb'.count = Least(cb.window, cb.count + m)
    BY <1>1, <2>2 DEF Written, Buffer
  <2>4. QED
    BY <1>1, <2>1, <2>3 DEF HeadPos, Buffer, Least
<1>4. QED
  BY <1>2, <1>3

(* The PTY read loop moves the head of nobody who is connected.            *)
LEMMA ReaderStepIs ==
  ASSUME Inv, EndOK, ReaderStep
  PROVE  /\ Moved /\ (connected => HeadPos(cb') = HeadPos(cb))
         /\ UNCHANGED <<connVars, ackVars, call, outVars>>
<1>1. Inv' /\ EndOK'
  BY ReaderKeepsInv, ReaderKeepsEnd
<1>2. readPc # "done"
  BY DEF ReaderStep, AttachReader, CheckClosed, ReadPty, WriteAvailable, SignalWritten,
         HandleEnd
<1>3. UNCHANGED <<connVars, ackVars, call, outVars>>
  BY DEF ReaderStep, AttachReader, CheckClosed, ReadPty, WriteAvailable, SignalWritten,
         HandleEnd
<1>4. HeadPos(cb) \in Nat
  BY BufferNumbers DEF Inv
<1>5. HeadPos(cb') >= HeadPos(cb) /\ (connected => HeadPos(cb') = HeadPos(cb))
  <2>1. CASE WriteAvailable
    BY <2>1, WriteHead
  <2>2. CASE ~WriteAvailable
    <3>1. cb' = cb
      BY <2>2 DEF ReaderStep, AttachReader, CheckClosed, ReadPty, SignalWritten, HandleEnd
    <3>2. QED
      BY <1>4, <3>1
  <2>3. QED
    BY <2>1, <2>2
<1>6. QED
  BY <1>1, <1>2, <1>3, <1>5 DEF Moved

(* A step that leaves the buffer and the PTY read loop alone.              *)
LEMMA StaysMoved ==
  ASSUME Inv, Inv', EndOK', cb' = cb, readPc' = readPc
  PROVE  Moved
<1>1. HeadPos(cb) \in Nat
  BY BufferNumbers DEF Inv
<1>2. QED
  BY <1>1 DEF Moved

(* The sender loop leaves the buffer alone.                                *)
LEMMA SenderStepIs ==
  ASSUME Inv, EndOK, SenderStep
  PROVE  Moved /\ cb' = cb /\ UNCHANGED <<connVars, call>>
<1>1. Inv' /\ EndOK'
  BY SenderKeepsInv, SenderKeepsEnd
<1>2. cb' = cb /\ readPc' = readPc /\ UNCHANGED <<connVars, call>>
  BY DEF SenderStep, SendData, SendTerminal, SenderWait, readVars, connVars
<1>3. QED
  BY <1>1, <1>2, StaysMoved

(* ClientConnected drops what the client has; the first position it looked *)
(* at and then the one it was given are behind the head.                   *)
LEMMA CallStepIs ==
  ASSUME Inv, EndOK, CallHeads, ConnectConsume \/ ConnectReread
  PROVE  /\ Moved /\ CallHeads' /\ ~connected
         /\ call'.pc # "none" => call.pc # "none" /\ call'.seq = call.seq
                                 /\ call'.id = call.id /\ call'.rwnd = call.rwnd
         /\ UNCHANGED <<connVars, ackVars, outVars>>
<1>1. Inv' /\ EndOK'
  BY CallKeepsInv, CallKeepsEnd DEF CallStep
<1>2. /\ call \in Calls /\ call.seq \in Nat /\ call.head \in Nat /\ call.pc # "none"
      /\ ~connected /\ call.id = call.id
  BY DEF Inv, SMTypeOK, CallOK, Calls, ConnectConsume, ConnectReread
<1>3. BufferOK(cb) /\ cb \in Buffer /\ HeadPos(cb) \in Nat
  BY BufferNumbers DEF Inv, BufferOK
<1>4. UNCHANGED <<connVars, ackVars, outVars>> /\ readPc' = readPc
  BY DEF ConnectConsume, ConnectReread, readVars
<1>5. CASE ConnectConsume
  <2> DEFINE ahead == call.seq - call.head
  <2>1. call.pc = "check" /\ call.seq > call.head /\ call.head <= HeadPos(cb)
    BY <1>2, <1>5 DEF ConnectConsume, Inv, CallOK, CallHeads
  <2>2. ahead \in Nat
    BY <1>2, <2>1
  <2>3. CASE call' = NoCall /\ cb' = cb
    BY <1>1, <1>2, <1>4, <2>3, StaysMoved DEF CallHeads, NoCall
  <2>4. CASE /\ ahead <= cb.count /\ cb' = Consumed(cb, ahead)
             /\ call' = [call EXCEPT !.pc = "reread"]
    <3>1. /\ call'.pc = "reread" /\ call'.seq = call.seq /\ call'.id = call.id
          /\ call'.rwnd = call.rwnd /\ call'.head = call.head
      BY <1>2, <2>4 DEF Calls
    <3>2. /\ HeadPos(cb') = HeadPos(cb) + ahead
          /\ cb'.total = cb.total /\ (cb.count = 0 => cb'.count = 0)
      <4> HIDE DEF ahead
      <4>1. ahead \in 0 .. cb.count
        BY <2>2, <2>4
      <4>2. QED
        BY <1>3, <2>2, <2>4, <4>1, ConsumedFields, ConsumedKeepsEmpty
    <3>3. HeadPos(cb') >= HeadPos(cb) /\ call.seq <= HeadPos(cb')
          /\ call.head <= HeadPos(cb')
      BY <1>2, <1>3, <2>1, <3>2
    <3>4. QED
      BY <1>1, <1>2, <1>4, <3>1, <3>2, <3>3 DEF Moved, CallHeads
  <2>5. QED
    BY <1>5, <2>3, <2>4 DEF ConnectConsume
<1>6. CASE ConnectReread
  <2>1. /\ call'.pc = "set" /\ call'.seq = call.seq /\ call'.id = call.id
        /\ call'.rwnd = call.rwnd /\ call'.head = HeadPos(cb) /\ cb' = cb
        /\ call.seq <= HeadPos(cb)
    BY <1>2, <1>6 DEF ConnectReread, Calls, CallHeads
  <2>2. QED
    BY <1>1, <1>2, <1>3, <1>4, <2>1, StaysMoved DEF CallHeads
<1>7. QED
  BY <1>5, <1>6

(* The client's calls as this system makes them.                           *)
LEMMA DisconnectIs ==
  ASSUME Inv, EndOK, ClientDisconnected
  PROVE  Moved /\ UNCHANGED <<call, outVars>> /\ streamId' = streamId /\ ~connected'
<1>1. Inv' /\ EndOK'
  BY DisconnectKeepsInv, ClientKeepsEnd DEF ClientStep
<1>2. /\ UNCHANGED <<call, outVars>> /\ streamId' = streamId /\ ~connected' /\ readPc' = readPc
      /\ cb' = WithWindow(cb, FALSE, CirBufSize)
  BY DEF ClientDisconnected, readVars
<1>3. BufferOK(cb) /\ BufferOK(cb')
  BY <1>1 DEF Inv
<1>4. cb'.total = cb.total /\ cb'.count <= cb.count
  <2>1. cb'.total = cb.total /\ cb'.count = Least(cb.count, Least(CirBufSize, CirBufSize))
    BY <1>2, <1>3 DEF WithWindow, BufferOK, Buffer
  <2>2. QED
    BY <1>3, <2>1, CirBufSizeAssumption DEF Least, BufferOK, Buffer
<1>5. HeadPos(cb') >= HeadPos(cb) /\ (cb.count = 0 => cb'.count = 0)
  BY <1>3, <1>4, BufferNumbers
<1>6. QED
  BY <1>1, <1>2, <1>4, <1>5 DEF Moved

(* ClientConnected only takes note of the call.                            *)
LEMMA ConnectIs ==
  ASSUME Inv, EndOK, NEW id \in StreamIds, NEW seq \in Nat, ClientConnected(id, 0, seq)
  PROVE  /\ Moved /\ CallHeads' /\ ~connected /\ ~connected'
         /\ call'.pc # "none" /\ call'.id = id /\ call'.seq = seq /\ call'.rwnd = 0
         /\ cb' = cb /\ UNCHANGED <<connVars, ackVars, outVars>>
<1>1. /\ cb' = cb /\ readPc' = readPc /\ UNCHANGED <<connVars, ackVars, outVars>> /\ ~connected
      /\ ~connected'
  BY DEF ClientConnected, readVars, connVars
<1>2. Inv' /\ EndOK'
  <2>1. EndOK'
    BY HarmlessStep DEF ClientConnected, readVars, termVars, outVars
  <2>2. QED
    BY <2>1, ConnectKeepsInv
<1>3. /\ call'.pc = (IF seq > HeadPos(cb) THEN "check" ELSE "set")
      /\ call'.id = id /\ call'.rwnd = 0 /\ call'.seq = seq /\ call'.head = HeadPos(cb)
  BY DEF ClientConnected
<1>4. HeadPos(cb) \in Nat
  BY BufferNumbers DEF Inv
<1>5. CallHeads'
  BY <1>1, <1>3, <1>4 DEF CallHeads
<1>6. QED
  BY <1>1, <1>2, <1>3, <1>5, StaysMoved

(* When it returns, the client is connected with nothing in flight.        *)
LEMMA ReturnIs ==
  ASSUME Inv, EndOK, ConnectReturn
  PROVE  /\ Moved /\ HeadPos(cb') = HeadPos(cb) /\ call' = NoCall /\ call.pc = "set"
         /\ connected' /\ streamId' = call.id /\ rwndSize' = call.rwnd /\ sentNotAcked' = 0
         /\ packets' = packets
<1>1. Inv' /\ EndOK'
  BY CallKeepsInv, CallKeepsEnd DEF CallStep
<1>2. /\ call' = NoCall /\ call.pc = "set" /\ connected' /\ streamId' = call.id
      /\ rwndSize' = call.rwnd /\ sentNotAcked' = 0 /\ packets' = packets
      /\ readPc' = readPc /\ cb' = WithWindow(cb, TRUE, EffectiveWindow(call.rwnd))
  BY DEF ConnectReturn, readVars
<1>3. EffectiveWindow(call.rwnd) \in Nat /\ BufferOK(cb)
  BY WindowType DEF Inv, SMTypeOK, Calls
<1>4. /\ HeadPos(cb') = HeadPos(cb) /\ cb'.total = cb.total
      /\ (cb.count = 0 => cb'.count = 0)
  BY <1>2, <1>3, WithWindowFields, WithWindowKeepsEmpty
<1>5. HeadPos(cb') >= HeadPos(cb)
  BY <1>3, <1>4, BufferNumbers
<1>6. QED
  BY <1>1, <1>2, <1>4, <1>5 DEF Moved

(* A new window moves nothing.                                             *)
LEMMA SetRwndIs ==
  ASSUME Inv, EndOK, NEW rwnd \in Nat, SetRwndSize(rwnd)
  PROVE  /\ Moved /\ HeadPos(cb') = HeadPos(cb) /\ connected /\ rwndSize' = rwnd
         /\ call = NoCall
         /\ UNCHANGED <<connected, streamId, ackVars, call, outVars>>
<1>1. /\ UNCHANGED <<connected, streamId, ackVars, call, outVars>> /\ readPc' = readPc
      /\ connected /\ rwndSize' = rwnd /\ call = NoCall
      /\ cb' = WithWindow(cb, TRUE, EffectiveWindow(rwnd))
  BY DEF SetRwndSize, readVars, Unlocked
<1>2. EffectiveWindow(rwnd) \in Nat /\ BufferOK(cb)
  BY WindowType DEF Inv
<1>3. /\ HeadPos(cb') = HeadPos(cb) /\ cb'.total = cb.total
      /\ (cb.count = 0 => cb'.count = 0)
  BY <1>1, <1>2, WithWindowFields, WithWindowKeepsEmpty
<1>4. EndOK'
  BY <1>1, <1>3, HarmlessStep DEF SetRwndSize, readVars, termVars, outVars
<1>5. Inv' /\ HeadPos(cb') >= HeadPos(cb)
  BY <1>2, <1>3, BufferNumbers, SetRwndKeepsInv
<1>6. QED
  BY <1>1, <1>3, <1>4, <1>5 DEF Moved

(* An ack moves the head up to its position at most, and the send position *)
(* not at all.                                                             *)
LEMMA AckIs ==
  ASSUME Inv, EndOK, NEW ack, ack.seq \in Nat, ack.rwnd \in Nat, RecvAck(ack)
  PROVE  /\ Moved
         /\ connected /\ streamId = ack.id
         /\ UNCHANGED <<connected, streamId, call, outVars>>
         /\ \/ cb' = cb /\ UNCHANGED <<rwndSize, sentNotAcked>>
            \/ /\ HeadPos(cb') = ack.seq /\ rwndSize' = ack.rwnd
               /\ HeadPos(cb') + sentNotAcked' = HeadPos(cb) + sentNotAcked
<1>1. Inv' /\ EndOK'
  BY AckKeepsInv, AckKeepsEnd
<1>2. /\ connected /\ streamId = ack.id /\ readPc' = readPc
      /\ UNCHANGED <<connected, streamId, call, outVars>>
  BY DEF RecvAck, RecvFin, RecvUseless, RecvProgress, readVars, connVars
<1>3. CASE RecvFin(ack) \/ RecvUseless(ack)
  <2>1. cb' = cb /\ UNCHANGED <<rwndSize, sentNotAcked>>
    BY <1>3 DEF RecvFin, RecvUseless, connVars, ackVars
  <2>2. QED
    BY <1>1, <1>2, <2>1, StaysMoved
<1>4. CASE RecvProgress(ack)
  <2> DEFINE n == ack.seq - HeadPos(cb)
             b == IF n > 0 THEN Consumed(cb, n) ELSE cb
             w == EffectiveWindow(ack.rwnd)
  <2>1. BufferOK(cb) /\ HeadPos(cb) \in Nat /\ sentNotAcked \in Nat /\ cb.count \in Nat
        /\ sentNotAcked <= cb.count
    BY BufferNumbers DEF Inv, SMTypeOK, ConnOK, UnackedHeld
  <2>2. n \in 0 .. sentNotAcked /\ rwndSize' = ack.rwnd /\ cb' = WithWindow(b, TRUE, w)
    BY <1>4 DEF RecvProgress, AcksInFlight
  <2>3. w \in Nat
    BY WindowType
  <2> HIDE DEF n, w
  <2>4. n \in 0 .. cb.count /\ n \in Nat
    BY <2>1, <2>2
  <2>5. BufferOK(b) /\ HeadPos(b) = HeadPos(cb) + n /\ b.total = cb.total
        /\ (cb.count = 0 => b.count = 0)
    <3>1. CASE n > 0
      BY <2>1, <2>4, <3>1, ConsumedOK, ConsumedFields, ConsumedKeepsEmpty
    <3>2. CASE ~(n > 0)
      BY <2>1, <2>4, <3>2
    <3>3. QED
      BY <3>1, <3>2
  <2> HIDE DEF b
  <2>6. HeadPos(cb') = HeadPos(cb) + n /\ cb'.total = cb.total /\ (cb.count = 0 => cb'.count = 0)
    BY <2>2, <2>3, <2>5, WithWindowFields, WithWindowKeepsEmpty
  <2>7. HeadPos(cb') = ack.seq /\ HeadPos(cb') >= HeadPos(cb)
    BY <2>1, <2>4, <2>6 DEF n
  <2>8. HeadPos(cb') + sentNotAcked' = HeadPos(cb) + sentNotAcked
    BY <1>4, ProgressKeepsInv
  <2>9. QED
    BY <1>1, <1>2, <2>2, <2>6, <2>7, <2>8 DEF Moved
<1>5. QED
  BY <1>3, <1>4 DEF RecvAck

(* Packets are delivered or lost.                                          *)
LEMMA DeliveryIs ==
  ASSUME Inv, EndOK, UNCHANGED smButPackets, packets' \subseteq packets
  PROVE  Moved
<1>1. Inv'
  BY DEF Inv, SMTypeOK, ConnOK, CallOK, ConnectedIsSync, UnackedHeld, smButPackets,
         readVars, termVars, connVars, ackVars
<1>2. EndOK'
  BY DEF EndOK, EndAfterAllAcked, smButPackets, readVars, termVars
<1>3. QED
  BY <1>1, <1>2, StaysMoved DEF smButPackets, readVars

(* The manager may have nothing to do with a step.                         *)
LEMMA UnmovedIs ==
  ASSUME Inv, EndOK, UNCHANGED smVars
  PROVE  Moved
  BY DeliveryIs DEF smVars, smButPackets, outVars

-----------------------------------------------------------------------------
(* Every step, one conjunct of Sound at a time.                            *)

(* The ids that were used are stream ids.                                  *)
LEMMA UsedIds ==
  ASSUME Sound
  PROVE  /\ used \in Nat \ {0} /\ Used \subseteq StreamIds /\ NoStream \notin Used
         /\ \A id \in StreamIds : ReaderOK(id) /\ LoopOK(id) /\ Receiving(readers[id])
<1>1. used \in Nat \ {0} /\ drops \in 0 .. MaxStreams - 1 /\ link \in BOOLEAN
      /\ used + Opening + (IF link THEN 0 ELSE 1) <= drops + 1
  BY DEF Sound, IdsOK, BoundOK
<1>2. Opening \in Nat
  BY DEF Opening
<1>3. used <= MaxStreams
  BY <1>1, <1>2, StreamIdsAssumption
<1>4. Used \subseteq StreamIds
  BY <1>1, <1>3, StreamIdsAssumption DEF Used
<1>5. ASSUME NEW id \in StreamIds PROVE ReaderOK(id) /\ LoopOK(id) /\ Receiving(readers[id])
  <2>1. ReaderOK(id) /\ LoopOK(id) /\ readers[id] \in Readers
    BY DEF Sound, ReadersOK
  <2>2. QED
    BY <2>1 DEF ReaderOK, Receiving
<1>6. QED
  BY <1>1, <1>4, <1>5, NoStreamAssumption

(* There is an id for the stream that a restart is about to open.          *)
LEMMA FreshId ==
  ASSUME Sound, ctl.pc = "statted"
  PROVE  used + 1 \in StreamIds \ Used
<1>1. used \in Nat \ {0} /\ drops \in 0 .. MaxStreams - 1 /\ link \in BOOLEAN
      /\ used + Opening + (IF link THEN 0 ELSE 1) <= drops + 1
  BY DEF Sound, IdsOK, BoundOK
<1>2. Opening = 1
  BY DEF Opening
<1>3. used + 1 <= MaxStreams
  BY <1>1, <1>2, StreamIdsAssumption
<1>4. QED
  BY <1>1, <1>3, StreamIdsAssumption DEF Used

(* What moves the stream manager.                                          *)
LEMMA StepMoves ==
  ASSUME Sound, Next
  PROVE  Moved
<1> USE DEF Sound
<1>1. CASE ManagerStep
  <2>1. CASE ReaderStep
    BY <2>1, ReaderStepIs
  <2>2. CASE SenderStep
    BY <2>2, SenderStepIs
  <2>3. CASE ConnectConsume \/ ConnectReread
    BY <2>3, CallStepIs DEF HandlerOK
  <2>4. QED
    BY <1>1, <2>1, <2>2, <2>3 DEF ManagerStep
<1>2. ASSUME NEW p, DeliverData(p) \/ DeliverStray(p) PROVE Moved
  BY <1>2, DeliveryIs DEF DeliverData, DeliverStray
<1>3. ASSUME NEW ack, DeliverAck(ack) PROVE Moved
  <2>1. ack.seq \in Nat /\ ack.rwnd \in Nat
    BY <1>3 DEF FlowOK, AckOK, DeliverAck
  <2>2. CASE RecvAck(ack)
    BY <2>1, <2>2, AckIs
  <2>3. CASE UNCHANGED smVars
    BY <2>3, UnmovedIs
  <2>4. QED
    BY <1>3, <2>2, <2>3 DEF DeliverAck
<1>4. ASSUME NEW id \in StreamIds, LoopStep(id) PROVE Moved
  <2>1. UNCHANGED smVars
    BY <1>4 DEF LoopStep, LoopRead, LoopSuperseded, LoopAppend, LoopEnd
  <2>2. QED
    BY <2>1, UnmovedIs
<1>5. CASE Flush \/ RestartStep
  <2>1. UNCHANGED smVars
    BY <1>5 DEF Flush, RestartStep, RestartStat, RestartCreateReader, RestartPrepared,
                RestartStarted, RestartFails
  <2>2. QED
    BY <2>1, UnmovedIs
<1>6. CASE Reconnect \/ LinkDown \/ Crash
  <2>1. UNCHANGED smButPackets /\ packets' = {}
    BY <1>6 DEF Reconnect, LinkDown, Crash, LoseLink
  <2>2. QED
    BY <2>1, DeliveryIs
<1>7. CASE PrepareConnect
  BY <1>7, DisconnectIs, UnmovedIs DEF PrepareConnect
<1>8. CASE PrepareCall
  <2>1. jm.id \in StreamIds /\ jm.seq \in Nat
    BY <1>8 DEF PrepareCall, HandlerOK
  <2>2. QED
    BY <1>8, <2>1, ConnectIs DEF PrepareCall
<1>9. CASE PrepareReply
  BY <1>9, ReturnIs, UnmovedIs DEF PrepareReply
<1>10. CASE StartStream
  <2>1. ReadWindow \in Nat
    BY ReadWindowAssumption
  <2>2. QED
    BY <1>10, <2>1, SetRwndIs DEF StartStream
<1>11. QED
  BY <1>1, <1>2, <1>3, <1>4, <1>5, <1>6, <1>7, <1>8, <1>9, <1>10
  DEF Next, LinkStep, HandlerStep

(* Every loss of the connection pays for one more stream.                  *)
LEMMA StepKeepsBound ==
  ASSUME Sound, Next
  PROVE  BoundOK'
<1>1. used \in Nat /\ drops \in 0 .. MaxStreams - 1 /\ link \in BOOLEAN
      /\ used + Opening + (IF link THEN 0 ELSE 1) <= drops + 1
  BY DEF Sound, IdsOK, BoundOK
<1>0. used \in Nat /\ drops \in Nat /\ MaxStreams \in Nat
  BY <1>1, StreamIdsAssumption
<1> USE DEF histVars, linkVars, mainVars, Idle
<1>2. CASE UNCHANGED <<used, drops, link>> /\ Opening' = Opening
  BY <1>1, <1>2 DEF BoundOK
<1>3. CASE UNCHANGED <<used, drops, link, ctl>>
  BY <1>2, <1>3 DEF Opening
<1>4. CASE ManagerStep \/ Flush \/ HandlerStep
  BY <1>3, <1>4 DEF ManagerStep, dsVars, Flush, HandlerStep, PrepareConnect, PrepareCall,
                    PrepareReply, StartStream
<1>5. CASE LinkStep
  BY <1>3, <1>5 DEF LinkStep, DeliverData, DeliverStray, DeliverAck
<1>6. ASSUME NEW id \in StreamIds, LoopStep(id) PROVE BoundOK'
  BY <1>3, <1>6 DEF LoopStep, LoopRead, LoopSuperseded, LoopAppend, LoopEnd
<1>7. CASE Reconnect
  BY <1>1, <1>7 DEF Reconnect, BoundOK, Opening
<1>8. CASE RestartStat
  BY <1>2, <1>8 DEF RestartStat, Opening
<1>9. CASE RestartCreateReader
  <2>1. ctl \in [pc : {"idle", "connected", "statted", "preparing", "starting"},
                 id : StreamIds \union {NoStream}, seq : Nat, gap : Nat]
    BY DEF Sound, RestartOK, CtlTypes
  <2>2. ctl'.pc = "preparing"
    BY <1>9, <2>1 DEF RestartCreateReader
  <2>3. Opening = 1 /\ Opening' = 0
    BY <1>9, <2>2 DEF RestartCreateReader, Opening
  <2>4. used' = used + 1 /\ UNCHANGED <<drops, link>>
    BY <1>9 DEF RestartCreateReader
  <2>5. QED
    BY <1>1, <2>3, <2>4 DEF BoundOK
<1>10. CASE RestartPrepared \/ RestartStarted \/ RestartFails
  <2>1. ctl \in [pc : {"idle", "connected", "statted", "preparing", "starting"},
                 id : StreamIds \union {NoStream}, seq : Nat, gap : Nat]
    BY DEF Sound, RestartOK, CtlTypes
  <2>2. ctl'.pc \in {"idle", "starting"} /\ ctl.pc \in {"preparing", "starting"}
    BY <1>10, <2>1 DEF RestartPrepared, RestartStarted, RestartFails
  <2>3. Opening' = 0 /\ Opening = 0
    BY <2>2 DEF Opening
  <2>4. UNCHANGED <<used, drops, link>>
    BY <1>10 DEF RestartPrepared, RestartStarted, RestartFails
  <2>5. QED
    BY <1>2, <2>3, <2>4
<1>11. CASE LinkDown \/ Crash
  <2>1. LoseLink /\ used' = used
    BY <1>11 DEF LinkDown, Crash
  <2>2. link' = FALSE
    BY <2>1 DEF LoseLink
  <2>3. PICK m \in Nat, n \in Nat : m = Opening /\ n = Opening' /\ n <= m
    <3>1. ctl' = ctl \/ ctl' = Idle
      BY <1>11 DEF LinkDown, Crash
    <3>2. QED
      BY <3>1 DEF Opening
  <2>7. n <= m
    BY <2>3
  <2>4. CASE link
    <3>1. drops' = drops + 1 /\ drops < MaxStreams - 1
      BY <2>1, <2>4 DEF LoseLink
    <3>2. used + m <= drops + 1
      BY <1>1, <2>3, <2>4
    <3> HIDE DEF Opening
    <3>3. drops' \in 0 .. MaxStreams - 1 /\ used + n + 1 <= drops' + 1
      BY <1>0, <2>7, <3>1, <3>2
    <3>4. QED
      BY <2>1, <2>2, <2>3, <3>3 DEF BoundOK
  <2>5. CASE ~link
    <3>1. drops' = drops
      BY <2>1, <2>5 DEF LoseLink
    <3>2. used + m + 1 <= drops + 1
      BY <1>1, <2>3, <2>5
    <3>3. used + n + 1 <= drops' + 1
      BY <1>0, <2>7, <3>1, <3>2
    <3>4. QED
      BY <1>1, <2>1, <2>2, <2>3, <3>1, <3>3 DEF BoundOK
  <2>6. QED
    BY <2>4, <2>5
<1>12. QED
  BY <1>4, <1>5, <1>6, <1>7, <1>8, <1>9, <1>10, <1>11 DEF Next, RestartStep

(* Streams get fresh ids.                                                  *)
LEMMA StepKeepsIds ==
  ASSUME Sound, Next
  PROVE  IdsOK'
<1> USE DEF histVars, linkVars, mainVars, jmVars, Idle, NoRpc, NoHandler
<1>1. /\ used \in Nat \ {0} /\ Used \subseteq StreamIds /\ NoStream \notin Used
      /\ IdsOK /\ Inv
  BY UsedIds DEF Sound
<1>2. \A id \in StreamIds : loops[id].pc # "none" => id \in Used
  BY DEF Sound, IdsOK
<1>3. loops \in [StreamIds -> LoopStates] /\ ctl.id \in StreamIds \union {NoStream}
  BY DEF Sound, ReadersOK, RestartOK, CtlTypes
<1>4. rpc \in Rpcs /\ jm.id \in StreamIds \union {NoStream}
  BY DEF Sound, RpcOK, HandlerOK
(* Those steps that open no stream.                                        *)
<1>5. ASSUME used' = used,
             carried' \subseteq Used, known' \subseteq known, attached' \subseteq carried',
             rpc'.id \in {rpc.id, NoStream, jm.id}, jm'.id \in {jm.id, rpc.id, NoStream},
             ctl'.id \in {ctl.id, NoStream}, pendingMeta' \in {pendingMeta, jm.id, NoStream},
             current' \in {current, NoStream},
             streamId' \in {streamId, call.id}, call'.id \in {call.id, jm.id, NoStream},
             \A p \in packets' : p.id \in Used, \A ack \in acks' : ack.id \in Used,
             \A id \in StreamIds \ Used : loops'[id].pc = "none"
      PROVE  IdsOK'
  BY <1>1, <1>5 DEF IdsOK, Used
<1>6. ASSUME UNCHANGED <<used, carried, known, attached, rpc, jm, ctl, pendingMeta, current,
                         streamId, call, loops, acks>>,
             \A p \in packets' : p.id \in Used
      PROVE  IdsOK'
  BY <1>1, <1>6 DEF IdsOK, Used
<1>7. CASE ManagerStep
  <2>1. UNCHANGED dsVars
    BY <1>7 DEF ManagerStep
  <2>2. CASE ReaderStep
    BY <1>1, <1>6, <2>1, <2>2, ReaderStepIs DEF Sound, IdsOK, dsVars, connVars, outVars
  <2>3. CASE SenderStep
    <3>1. \A p \in packets' : p \in packets \/ (p.id = streamId /\ connected)
      <4>1. CASE SendData
        BY <4>1 DEF SendData, NextPacket, MaySendData, MaySend
      <4>2. CASE SendTerminal
        BY <4>2 DEF SendTerminal, MaySendTerminal, MaySend
      <4>3. CASE SenderWait
        BY <4>3 DEF SenderWait, outVars
      <4>4. QED
        BY <2>3, <4>1, <4>2, <4>3 DEF SenderStep
    <3>2. connected => streamId \in Used
      BY <1>1, NoStreamAssumption DEF Inv, ConnOK, IdsOK
    <3>3. UNCHANGED <<streamId, call>>
      BY <2>3, SenderStepIs DEF Sound, connVars
    <3>4. QED
      BY <1>1, <1>6, <2>1, <3>1, <3>2, <3>3 DEF IdsOK, dsVars
  <2>4. CASE ConnectConsume \/ ConnectReread
    <3>1. UNCHANGED <<streamId, packets>>
      BY <2>4 DEF ConnectConsume, ConnectReread, connVars, outVars
    <3>2. call'.id \in {call.id, NoStream}
      <4>1. call \in Calls
        BY <1>1 DEF Inv, SMTypeOK
      <4>2. call' = NoCall \/ call'.id = call.id
        BY <2>4, <4>1 DEF ConnectConsume, ConnectReread, Calls
      <4>3. QED
        BY <4>2 DEF NoCall
    <3>3. QED
      BY <1>1, <2>1, <3>1, <3>2 DEF IdsOK, Used, dsVars
  <2>5. QED
    BY <1>7, <2>2, <2>3, <2>4 DEF ManagerStep
<1>8. ASSUME NEW p, DeliverData(p) PROVE IdsOK'
  <2>1. UNCHANGED <<used, carried, attached, rpc, jm, ctl, pendingMeta, current, streamId,
                    call, loops>>
    BY <1>8 DEF DeliverData, smButPackets, connVars
  <2>2. packets' \subseteq packets /\ known' \subseteq known /\ p.id \in Used
    BY <1>1, <1>8 DEF DeliverData, IdsOK
  <2>3. \A ack \in acks' : ack \in acks \/ ack.id = p.id
    BY <1>8 DEF DeliverData, Sent, AckFrom
  <2>4. QED
    BY <1>1, <2>1, <2>2, <2>3 DEF IdsOK, Used
<1>9. ASSUME NEW p, DeliverStray(p) PROVE IdsOK'
  <2>1. UNCHANGED <<used, carried, known, attached, rpc, jm, ctl, pendingMeta, current,
                    streamId, call, loops>>
    BY <1>9 DEF DeliverStray, smButPackets, connVars
  <2>2. packets' \subseteq packets /\ p.id \in Used
    BY <1>1, <1>9 DEF DeliverStray, IdsOK
  <2>3. \A ack \in acks' : ack \in acks \/ ack.id = p.id
    BY <1>9 DEF DeliverStray
  <2>4. QED
    BY <1>1, <2>1, <2>2, <2>3 DEF IdsOK, Used
<1>10. ASSUME NEW ack, DeliverAck(ack) PROVE IdsOK'
  <2>1. UNCHANGED <<used, carried, known, rpc, jm, ctl, pendingMeta, current, loops>>
    BY <1>10 DEF DeliverAck
  <2>2. UNCHANGED <<streamId, call, packets>>
    BY <1>10 DEF DeliverAck, RecvAck, RecvFin, RecvUseless, RecvProgress, smVars, connVars,
                 outVars
  <2>3. acks' \subseteq acks /\ attached' \subseteq attached
    BY <1>10 DEF DeliverAck
  <2>4. QED
    BY <1>1, <2>1, <2>2, <2>3 DEF IdsOK, Used
<1>11. ASSUME NEW id \in StreamIds, LoopStep(id) PROVE IdsOK'
  <2>1. UNCHANGED <<used, carried, attached, rpc, jm, ctl, pendingMeta, current, smVars>>
    BY <1>11 DEF LoopStep, LoopRead, LoopSuperseded, LoopAppend, LoopEnd
  <2>2. UNCHANGED <<streamId, call, packets>>
    BY <2>1 DEF smVars, connVars, outVars
  <2>3. known' \subseteq known /\ \A ack \in acks' : ack \in acks \/ ack.id = id
    BY <1>11 DEF LoopStep, LoopRead, LoopSuperseded, LoopAppend, LoopEnd, CloseReader,
                 Sent, AckFrom
  <2>4. id \in Used
    BY <1>2, <1>11 DEF LoopStep, LoopRead, LoopSuperseded, LoopAppend, LoopEnd
  <2>5. \A j \in StreamIds : j # id => loops'[j] = loops[j]
    BY <1>3, <1>11 DEF LoopStep, LoopRead, LoopSuperseded, LoopAppend, LoopEnd
  <2>6. \A j \in StreamIds \ Used : loops'[j].pc = "none"
    BY <1>2, <2>4, <2>5
  <2>7. QED
    BY <1>1, <2>1, <2>2, <2>3, <2>4, <2>6 DEF IdsOK, Used
<1>12. CASE Flush
  <2>1. UNCHANGED smVars
    BY <1>12 DEF Flush
  <2>2. UNCHANGED <<packets, streamId, call>>
    BY <2>1 DEF smVars, connVars, outVars
  <2>3. QED
    BY <1>1, <1>6, <1>12, <2>2 DEF Flush, IdsOK
<1>13. CASE Reconnect
  <2>1. packets' = {} /\ ctl'.id = NoStream /\ UNCHANGED <<streamId, call>>
    BY <1>13 DEF Reconnect, smButPackets, connVars
  <2>2. QED
    BY <1>1, <1>13, <2>1 DEF Reconnect, IdsOK, Used
<1>14. CASE RestartStat \/ RestartStarted
  <2>1. UNCHANGED smVars
    BY <1>14 DEF RestartStat, RestartStarted
  <2>2. UNCHANGED <<packets, streamId, call>>
    BY <2>1 DEF smVars, connVars, outVars
  <2>3. ctl'.id = NoStream /\ (rpc'.id \in {rpc.id, NoStream})
    BY <1>14 DEF RestartStat, RestartStarted
  <2>4. \A j \in StreamIds \ Used : loops'[j].pc = "none"
    <3>1. CASE RestartStat
      BY <1>2, <3>1 DEF RestartStat
    <3>2. CASE RestartStarted
      <4>1. ctl.id \in Used
        BY <1>1, <3>2, NoStreamAssumption DEF RestartStarted, Sound, RestartOK, IdsOK
      <4>2. QED
        BY <1>2, <1>3, <3>2, <4>1 DEF RestartStarted
    <3>3. QED
      BY <1>14, <3>1, <3>2
  <2>5. QED
    BY <1>1, <1>14, <2>2, <2>3, <2>4 DEF RestartStat, RestartStarted, IdsOK, Used
<1>15. CASE RestartCreateReader
  <2>1. UNCHANGED smVars
    BY <1>15 DEF RestartCreateReader
  <2>2. UNCHANGED <<packets, streamId, call, carried, attached, jm, pendingMeta, loops, acks>>
    BY <1>15, <2>1 DEF RestartCreateReader, smVars, connVars, outVars
  <2>3. /\ used' = used + 1 /\ known' = known \union {used + 1} /\ current' = used + 1
        /\ rpc'.id \in {used + 1, NoStream}
    BY <1>15 DEF RestartCreateReader
  <2>4. ctl'.id = used + 1
    <3>1. ctl \in [pc : {"idle", "connected", "statted", "preparing", "starting"},
                   id : StreamIds \union {NoStream}, seq : Nat, gap : Nat]
      BY DEF Sound, RestartOK, CtlTypes
    <3>2. QED
      BY <1>15, <3>1 DEF RestartCreateReader
  <2>5. Used' = Used \union {used + 1}
    BY <1>1, <2>3 DEF Used
  <2> HIDE DEF Used
  <2>6. QED
    BY <1>1, <2>2, <2>3, <2>4, <2>5 DEF IdsOK
<1>16. CASE RestartPrepared \/ RestartFails
  <2>1. UNCHANGED smVars
    BY <1>16 DEF RestartPrepared, RestartFails
  <2>2. UNCHANGED <<packets, streamId, call>>
    BY <2>1 DEF smVars, connVars, outVars
  <2>3. UNCHANGED <<used, carried, attached, jm, pendingMeta, current, loops>>
    BY <1>16 DEF RestartPrepared, RestartFails
  <2>4. ctl \in [pc : {"idle", "connected", "statted", "preparing", "starting"},
                 id : StreamIds \union {NoStream}, seq : Nat, gap : Nat]
    BY DEF Sound, RestartOK, CtlTypes
  <2>5. ctl'.id \in {ctl.id, NoStream} /\ rpc'.id \in {rpc.id, NoStream}
    BY <1>4, <1>16, <2>4 DEF RestartPrepared, RestartFails, Rpcs
  <2>6. ctl.id \in Used
    BY <1>1, <1>16, NoStreamAssumption
    DEF RestartPrepared, RestartFails, Sound, RestartOK, IdsOK
  <2>7. known' \subseteq known /\ \A ack \in acks' : ack \in acks \/ ack.id = ctl.id
    BY <1>16 DEF RestartPrepared, RestartFails, CloseReader, Sent, AckFrom
  <2>8. QED
    BY <1>1, <2>2, <2>3, <2>5, <2>6, <2>7 DEF IdsOK, Used
<1>17. CASE PrepareConnect
  <2>1. UNCHANGED <<packets, streamId, call>>
    BY <1>17 DEF PrepareConnect, ClientDisconnected, smVars, connVars, outVars
  <2>2. rpc.id \in Used
    BY <1>1, <1>17, NoStreamAssumption DEF PrepareConnect, Sound, RpcOK, IdsOK
  <2>3. /\ rpc'.id = rpc.id /\ jm'.id \in {jm.id, rpc.id}
        /\ carried' = carried \union {rpc.id} /\ attached' \subseteq attached
    BY <1>4, <1>17 DEF PrepareConnect, Rpcs
  <2>4. UNCHANGED <<used, known, ctl, pendingMeta, current, loops, acks>>
    BY <1>17 DEF PrepareConnect
  <2>5. QED
    BY <1>1, <2>1, <2>2, <2>3, <2>4 DEF IdsOK, Used
<1>18. CASE PrepareCall
  <2>1. UNCHANGED <<packets, streamId>> /\ call'.id = jm.id
    BY <1>18 DEF PrepareCall, ClientConnected, connVars, outVars
  <2>2. jm'.id = jm.id
    BY <1>18 DEF PrepareCall, Sound, HandlerOK
  <2>3. UNCHANGED <<used, carried, attached, rpc, known, ctl, pendingMeta, current, loops, acks>>
    BY <1>18 DEF PrepareCall
  <2>4. QED
    BY <1>1, <2>1, <2>2, <2>3 DEF IdsOK, Used
<1>19. CASE PrepareReply
  <2>1. packets' = packets /\ streamId' \in {streamId, call.id} /\ call'.id \in {call.id, NoStream}
    <3>1. CASE ConnectReturn
      BY <3>1 DEF ConnectReturn, NoCall
    <3>2. CASE UNCHANGED smVars
      BY <3>2 DEF smVars, connVars, outVars
    <3>3. QED
      BY <1>19, <3>1, <3>2 DEF PrepareReply
  <2>2. /\ rpc'.id \in {rpc.id, jm.id} /\ jm'.id = NoStream
        /\ pendingMeta' \in {pendingMeta, jm.id}
    BY <1>19 DEF PrepareReply, Reply
  <2>3. UNCHANGED <<used, carried, attached, known, ctl, current, loops, acks>>
    BY <1>19 DEF PrepareReply
  <2>4. QED
    BY <1>1, <2>1, <2>2, <2>3 DEF IdsOK, Used
<1>20. CASE StartStream
  <2>1. UNCHANGED <<packets, streamId, call>>
    BY <1>20 DEF StartStream, SetRwndSize, outVars
  <2>2. /\ rpc'.id = rpc.id /\ pendingMeta' = NoStream
        /\ attached' = attached \union {pendingMeta}
    BY <1>4, <1>20 DEF StartStream, Rpcs
  <2>3. pendingMeta \in carried
    BY <1>20 DEF StartStream, Sound, RpcOK, Prepared
  <2>4. UNCHANGED <<used, carried, known, ctl, current, loops, acks, jm>>
    BY <1>20 DEF StartStream
  <2>5. QED
    BY <1>1, <2>1, <2>2, <2>3, <2>4 DEF IdsOK, Used
<1>21. CASE LinkDown \/ Crash
  <2>1. UNCHANGED <<streamId, call, jm, pendingMeta, used>>
    BY <1>21 DEF LinkDown, Crash, smButPackets, connVars
  <2>2. /\ carried' = {} /\ attached' = {} /\ packets' = {} /\ acks' = {}
        /\ rpc'.id = NoStream
    BY <1>21 DEF LinkDown, Crash, LoseLink
  <2>3. known' \subseteq known /\ ctl'.id \in {ctl.id, NoStream} /\ current' \in {current, NoStream}
    BY <1>21 DEF LinkDown, Crash
  <2>4. \A j \in StreamIds \ Used : loops'[j].pc = "none"
    BY <1>2, <1>21 DEF LinkDown, Crash, NoLoop
  <2>5. QED
    BY <1>1, <2>1, <2>2, <2>3, <2>4 DEF IdsOK, Used
<1>22. QED
  BY <1>7, <1>8, <1>9, <1>10, <1>11, <1>12, <1>13, <1>14, <1>15, <1>16, <1>17, <1>18, <1>19,
     <1>20, <1>21
  DEF Next, LinkStep, RestartStep, HandlerStep

(* The handler of PrepareConnect.                                          *)
LEMMA StepKeepsHandler ==
  ASSUME Sound, Next
  PROVE  HandlerOK'
<1>1. Inv /\ EndOK /\ HandlerOK /\ Moved
  BY StepMoves DEF Sound
<1>2. /\ jm \in [pc : {"idle", "connect", "called"}, id : StreamIds \union {NoStream}, seq : Nat]
      /\ call \in Calls
  BY <1>1 DEF HandlerOK, Inv, SMTypeOK
<1>3. HeadPos(cb) \in Nat /\ HeadPos(cb') \in Nat /\ HeadPos(cb') >= HeadPos(cb)
  BY <1>1, BufferNumbers DEF Inv, Moved
<1> USE DEF jmVars, mainVars, histVars
<1>4. ASSUME UNCHANGED <<call, jm>> PROVE HandlerOK'
  <2>1. CallHeads'
    BY <1>1, <1>2, <1>3, <1>4 DEF HandlerOK, CallHeads, Calls
  <2>2. QED
    BY <1>1, <1>4, <2>1 DEF HandlerOK
<1>5. CASE ManagerStep
  <2>1. jm' = jm
    BY <1>5 DEF ManagerStep, dsVars
  <2>2. CASE ReaderStep \/ SenderStep
    BY <1>1, <1>4, <2>1, <2>2, ReaderStepIs, SenderStepIs
  <2>3. CASE ConnectConsume \/ ConnectReread
    <3>1. /\ CallHeads'
          /\ call'.pc # "none" => call.pc # "none" /\ call'.seq = call.seq
                                  /\ call'.id = call.id /\ call'.rwnd = call.rwnd
      BY <1>1, <2>3, CallStepIs DEF HandlerOK
    <3>2. QED
      BY <1>1, <2>1, <3>1 DEF HandlerOK
  <2>4. QED
    BY <1>5, <2>2, <2>3 DEF ManagerStep
<1>6. CASE LinkStep
  <2>1. UNCHANGED <<call, jm>>
    BY <1>6 DEF LinkStep, DeliverData, DeliverStray, DeliverAck, RecvAck, smVars, smButPackets
  <2>2. QED
    BY <1>4, <2>1
<1>7. ASSUME NEW id \in StreamIds, LoopStep(id) PROVE HandlerOK'
  <2>1. UNCHANGED <<call, jm>>
    BY <1>7 DEF LoopStep, LoopRead, LoopSuperseded, LoopAppend, LoopEnd, smVars
  <2>2. QED
    BY <1>4, <2>1
<1>8. CASE Flush \/ RestartStep
  <2>1. UNCHANGED <<call, jm>>
    BY <1>8 DEF Flush, RestartStep, RestartStat, RestartCreateReader, RestartPrepared,
                RestartStarted, RestartFails, smVars
  <2>2. QED
    BY <1>4, <2>1
<1>9. CASE Reconnect \/ LinkDown \/ Crash
  <2>1. UNCHANGED <<call, jm>>
    BY <1>9 DEF Reconnect, LinkDown, Crash, smButPackets
  <2>2. QED
    BY <1>4, <2>1
<1>10. CASE PrepareConnect
  <2>1. call' = call /\ call.pc = "none"
    BY <1>10 DEF PrepareConnect, ClientDisconnected, Unlocked, NoCall, smVars
  <2>2. jm' = jm \/ jm' = [pc |-> "connect", id |-> rpc.id, seq |-> rpc.seq]
    BY <1>10 DEF PrepareConnect
  <2>3. rpc.id \in StreamIds /\ rpc.seq \in Nat
    BY <1>10 DEF PrepareConnect, Sound, RpcOK, Rpcs
  <2>4. QED
    BY <1>1, <1>4, <2>1, <2>2, <2>3 DEF HandlerOK, CallHeads
<1>11. CASE PrepareCall
  <2>1. jm.id \in StreamIds /\ jm.seq \in Nat /\ jm'.pc = "called" /\ jm'.id = jm.id
        /\ jm'.seq = jm.seq
        /\ jm' \in [pc : {"idle", "connect", "called"}, id : StreamIds \union {NoStream}, seq : Nat]
    BY <1>1, <1>2, <1>11 DEF PrepareCall, HandlerOK
  <2>2. /\ CallHeads' /\ call'.id = jm.id /\ call'.seq = jm.seq /\ call'.rwnd = 0
    BY <1>1, <1>11, <2>1, ConnectIs DEF PrepareCall
  <2>3. QED
    BY <2>1, <2>2 DEF HandlerOK
<1>12. CASE PrepareReply
  <2>1. jm' = NoHandler
    BY <1>12 DEF PrepareReply
  <2>2. call'.pc = "none"
    <3>1. CASE ConnectReturn
      BY <3>1 DEF ConnectReturn, NoCall
    <3>2. CASE call = NoCall /\ UNCHANGED smVars
      BY <3>2 DEF NoCall, smVars
    <3>3. QED
      BY <1>12, <3>1, <3>2 DEF PrepareReply, Unlocked
  <2>3. QED
    BY <2>1, <2>2 DEF HandlerOK, CallHeads, NoHandler
<1>13. CASE StartStream
  <2>1. UNCHANGED <<call, jm>>
    BY <1>13 DEF StartStream, SetRwndSize
  <2>2. QED
    BY <1>4, <2>1
<1>14. QED
  BY <1>5, <1>6, <1>7, <1>8, <1>9, <1>10, <1>11, <1>12, <1>13 DEF Next, HandlerStep

(* The RPC.                                                                *)
LEMMA StepKeepsRpc ==
  ASSUME Sound, Next
  PROVE  RpcOK'
<1>1. Inv /\ EndOK /\ HandlerOK /\ RpcOK /\ Moved
  BY StepMoves DEF Sound
<1>2. /\ jm \in [pc : {"idle", "connect", "called"}, id : StreamIds \union {NoStream}, seq : Nat]
      /\ call \in Calls /\ rpc \in Rpcs /\ rpc.seq \in Nat
  BY <1>1 DEF HandlerOK, Inv, SMTypeOK, RpcOK, Rpcs
<1>3. HeadPos(cb) \in Nat /\ HeadPos(cb') \in Nat /\ HeadPos(cb') >= HeadPos(cb)
  BY <1>1, BufferNumbers DEF Inv, Moved
<1> USE DEF jmVars, mainVars, histVars, linkVars, Prepared
<1>4. ASSUME UNCHANGED <<rpc, jm, connected, streamId, pendingMeta, carried>> PROVE RpcOK'
  BY <1>1, <1>2, <1>3, <1>4 DEF RpcOK
<1>5. ASSUME rpc' = NoRpc PROVE RpcOK'
  BY <1>5 DEF RpcOK, NoRpc, Rpcs
<1>6. CASE ManagerStep
  <2>1. UNCHANGED <<rpc, jm, pendingMeta, carried>>
    BY <1>6 DEF ManagerStep, dsVars
  <2>2. UNCHANGED <<connected, streamId>>
    BY <1>1, <1>6, ReaderStepIs, SenderStepIs, CallStepIs DEF ManagerStep, HandlerOK, connVars
  <2>3. QED
    BY <1>4, <2>1, <2>2
<1>7. CASE LinkStep
  <2>1. UNCHANGED <<rpc, jm, pendingMeta, carried>>
    BY <1>7 DEF LinkStep, DeliverData, DeliverStray, DeliverAck
  <2>2. UNCHANGED <<connected, streamId>>
    BY <1>7 DEF LinkStep, DeliverData, DeliverStray, DeliverAck, RecvAck, RecvFin,
                RecvUseless, RecvProgress, smVars, smButPackets, connVars
  <2>3. QED
    BY <1>4, <2>1, <2>2
<1>8. ASSUME NEW id \in StreamIds, LoopStep(id) PROVE RpcOK'
  <2>1. UNCHANGED <<rpc, jm, pendingMeta, carried, connected, streamId>>
    BY <1>8 DEF LoopStep, LoopRead, LoopSuperseded, LoopAppend, LoopEnd, smVars, connVars
  <2>2. QED
    BY <1>4, <2>1
<1>9. CASE Flush \/ RestartStat \/ RestartFails
  <2>1. UNCHANGED <<rpc, jm, pendingMeta, carried, connected, streamId>>
    BY <1>9 DEF Flush, RestartStat, RestartFails, smVars, connVars
  <2>2. QED
    BY <1>4, <2>1
<1>10. CASE Reconnect
  <2>1. UNCHANGED <<rpc, jm, pendingMeta, carried, connected, streamId>>
    BY <1>10 DEF Reconnect, smButPackets, connVars
  <2>2. QED
    BY <1>4, <2>1
<1>11. CASE LinkDown \/ Crash
  BY <1>5, <1>11 DEF LinkDown, Crash, LoseLink
<1>12. CASE RestartCreateReader
  <2>1. ctl.seq \in Nat
    BY DEF Sound, RestartOK, CtlTypes
  <2>2. used + 1 \in StreamIds
    BY <1>12, FreshId DEF RestartCreateReader
  <2>3. rpc' = NoRpc \/ rpc' = [op |-> "prepare", id |-> used + 1, seq |-> ctl.seq]
    BY <1>12 DEF RestartCreateReader
  <2>4. QED
    BY <1>5, <2>1, <2>2, <2>3 DEF RpcOK, Rpcs
<1>13. CASE RestartPrepared
  <2>1. CASE rpc' = NoRpc
    BY <1>5, <2>1
  <2>2. CASE rpc.op = "prepared" /\ rpc' = [rpc EXCEPT !.op = "start"]
    <3>1. rpc' \in Rpcs /\ rpc'.op = "start" /\ rpc'.id = rpc.id /\ rpc'.seq = rpc.seq
      BY <1>2, <2>2 DEF Rpcs
    <3>2. UNCHANGED <<jm, pendingMeta, carried, connected, streamId, cb>>
      BY <1>13 DEF RestartPrepared, smVars, connVars
    <3>3. QED
      BY <1>1, <2>2, <3>1, <3>2 DEF RpcOK
  <2>3. QED
    BY <1>13, <2>1, <2>2 DEF RestartPrepared
<1>14. CASE RestartStarted
  BY <1>5, <1>14 DEF RestartStarted
<1>15. CASE PrepareConnect
  <2>1. rpc'.op \in {"finished", "taken"} /\ rpc'.id = rpc.id /\ rpc'.seq = rpc.seq
        /\ rpc' \in Rpcs /\ rpc.id \in StreamIds /\ carried' = carried \union {rpc.id}
    BY <1>1, <1>2, <1>15 DEF PrepareConnect, RpcOK, Rpcs
  <2>2. rpc'.op = "taken" => jm'.pc = "connect" /\ jm'.id = rpc.id /\ jm'.seq = rpc.seq
    BY <1>2, <1>15 DEF PrepareConnect, Rpcs
  <2>3. QED
    BY <2>1, <2>2 DEF RpcOK
<1>16. CASE PrepareCall
  <2>1. jm.pc = "connect" /\ jm'.pc = "called" /\ jm'.id = jm.id /\ jm'.seq = jm.seq
        /\ UNCHANGED <<rpc, carried>>
    BY <1>2, <1>16 DEF PrepareCall
  <2>2. QED
    BY <1>1, <2>1 DEF RpcOK
<1>17. CASE PrepareReply
  <2>1. jm.pc = "called" /\ jm' = NoHandler /\ carried' = carried /\ jm.id \in StreamIds
        /\ jm.seq \in Nat
    BY <1>1, <1>2, <1>17 DEF PrepareReply, HandlerOK
  <2>2. ~Prepared /\ (rpc.op = "taken" => rpc.id = jm.id /\ rpc.id \in carried)
    BY <1>1, <2>1 DEF RpcOK
  <2>3. CASE rpc.op # "taken"
    <3>1. rpc' = rpc
      BY <1>17, <2>3 DEF PrepareReply, Reply
    <3>2. QED
      BY <1>1, <2>1, <2>2, <2>3, <3>1 DEF RpcOK
  <2>4. CASE rpc.op = "taken" /\ rpc' = [op |-> "failed", id |-> jm.id, seq |-> 0]
    BY <2>1, <2>2, <2>4 DEF RpcOK, Rpcs
  <2>5. CASE /\ rpc.op = "taken" /\ ConnectReturn /\ pendingMeta' = jm.id
             /\ rpc' = [op |-> "prepared", id |-> jm.id, seq |-> Greatest(call.head, call.seq)]
    <3>1. /\ call.pc = "set" /\ connected' /\ streamId' = call.id
          /\ HeadPos(cb') = HeadPos(cb)
      BY <1>1, <2>5, ReturnIs
    <3>2. /\ call.id = jm.id /\ call.head \in Nat /\ call.seq \in Nat
          /\ call.head <= HeadPos(cb) /\ call.seq <= HeadPos(cb)
      BY <1>1, <1>2, <3>1 DEF HandlerOK, CallHeads, Calls
    <3>3. Greatest(call.head, call.seq) \in Nat /\ Greatest(call.head, call.seq) <= HeadPos(cb)
      BY <1>3, <3>2 DEF Greatest
    <3>4. QED
      BY <2>1, <2>2, <2>5, <3>1, <3>2, <3>3 DEF RpcOK, Rpcs, NoHandler
  <2>6. QED
    BY <1>17, <2>2, <2>3, <2>4, <2>5 DEF PrepareReply, Reply
<1>18. CASE StartStream
  <2>1. rpc'.op = "started" /\ rpc'.id = rpc.id /\ rpc' \in Rpcs /\ carried' = carried
    BY <1>2, <1>18 DEF StartStream, Rpcs
  <2>2. rpc.id \in StreamIds /\ rpc.id \in carried
    BY <1>1, <1>18 DEF StartStream, RpcOK
  <2>3. QED
    BY <2>1, <2>2 DEF RpcOK
<1>19. QED
  BY <1>6, <1>7, <1>8, <1>9, <1>10, <1>11, <1>12, <1>13, <1>14, <1>15, <1>16, <1>17, <1>18
  DEF Next, RestartStep, HandlerStep

(* The readers.  What an end says of a reader stays true.                  *)
LEMMA SameReader ==
  ASSUME Inv, Moved, NEW id \in StreamIds, ReaderOK(id), readers'[id] = readers[id]
  PROVE  ReaderOK(id)'
<1>1. readPc = "done" => readPc' = "done" /\ cb'.total = cb.total /\ (cb.count = 0 => cb'.count = 0)
  BY DEF Moved
<1>2. QED
  BY <1>1 DEF ReaderOK

(* A step that touches one reader and its loop.                            *)
LEMMA OneReader ==
  ASSUME Inv, Moved, ReadersOK, NEW id \in StreamIds,
         readers' \in [StreamIds -> Readers], loops' \in [StreamIds -> LoopStates],
         \A j \in StreamIds : j # id => readers'[j] = readers[j] /\ loops'[j] = loops[j],
         ReaderOK(id)', LoopOK(id)',
         known' \subseteq known \union {id},
         id \in known' => ~Finished(readers'[id]),
         known \subseteq StreamIds
  PROVE  ReadersOK'
<1>1. ASSUME NEW j \in StreamIds, j # id PROVE ReaderOK(j)' /\ LoopOK(j)'
  <2>1. ReaderOK(j) /\ LoopOK(j)
    BY DEF ReadersOK
  <2>2. ReaderOK(j)'
    BY <1>1, <2>1, SameReader
  <2>3. LoopOK(j)'
    BY <1>1, <2>1 DEF LoopOK, Base
  <2>4. QED
    BY <2>2, <2>3
<1>2. ASSUME NEW j \in known' PROVE ~Finished(readers'[j])
  <2>1. CASE j = id
    BY <1>2, <2>1
  <2>2. CASE j # id
    BY <1>2, <2>2 DEF ReadersOK
  <2>3. QED
    BY <2>1, <2>2
<1>3. QED
  BY <1>1, <1>2 DEF ReadersOK

(* Base, of a reader that is what it should be.                            *)
LEMMA BaseIs ==
  ASSUME Sound, NEW id \in StreamIds
  PROVE  /\ Base(id) \in Nat /\ readers[id].nextSeq \in Nat /\ Len(readers[id].buffer) \in Nat
         /\ readers[id].buffer \in Seq(Nat) /\ Limit(id) = Base(id) + ReadWindow
         /\ Limit(id) \in Nat /\ readers[id].nextSeq <= Limit(id)
<1> DEFINE r == readers[id]
<1>1. Receiving(r) /\ ReaderOK(id)
  BY UsedIds
<1>2. r.nextSeq \in Nat /\ r.buffer \in Seq(Nat) /\ Len(r.buffer) \in Nat
      /\ Len(r.buffer) <= r.nextSeq
  BY <1>1 DEF Receiving, Readers, EndsIn
<1>3. Len(r.buffer) <= ReadWindow
  BY <1>1 DEF ReaderOK
<1>4. Base(id) = r.nextSeq - Len(r.buffer)
  BY DEF Base
<1>5. Base(id) \in Nat
  BY <1>2, <1>4
<1>6. Limit(id) = Base(id) + ReadWindow
  BY DEF Limit
<1> HIDE DEF Base, Limit
<1>7. Limit(id) \in Nat /\ r.nextSeq <= Limit(id)
  BY <1>2, <1>3, <1>4, <1>5, <1>6, ReadWindowAssumption
<1>8. QED
  BY <1>2, <1>5, <1>6, <1>7

(* reader.Close().                                                         *)
LEMMA ClosedKeepsReaders ==
  ASSUME Sound, Moved, NEW id \in StreamIds, CloseReader(id),
         \/ loops' = loops /\ loops[id].pc = "none"
         \/ loops' = [loops EXCEPT ![id] = [pc |-> "done", chunk |-> <<>>]]
  PROVE  ReadersOK'
<1> DEFINE r == readers[id]
           d == Closed(r)
<1>1. Receiving(r) /\ ReaderOK(id) /\ LoopOK(id) /\ ReadersOK /\ Inv /\ known \subseteq StreamIds
  BY UsedIds DEF Sound, IdsOK
<1>2. readers \in [StreamIds -> Readers] /\ loops \in [StreamIds -> LoopStates]
  BY <1>1 DEF ReadersOK
<1>3. /\ Receiving(d) /\ d.closed /\ d.err /\ d.eof = r.eof
      /\ d.nextSeq = r.nextSeq /\ d.buffer = r.buffer /\ d.ooo = r.ooo
  BY <1>1, ClosedIs
<1>4. readers' = [readers EXCEPT ![id] = d] /\ known' = known \ {id}
  BY DEF CloseReader
<1> HIDE DEF d
<1>5. /\ readers' \in [StreamIds -> Readers] /\ readers'[id] = d
      /\ \A j \in StreamIds : j # id => readers'[j] = readers[j]
  BY <1>2, <1>3, <1>4 DEF Receiving
<1>6. ReaderOK(id)'
  <2>1. readPc = "done" => readPc' = "done" /\ cb'.total = cb.total
    BY DEF Moved
  <2>2. QED
    BY <1>1, <1>3, <1>5, <2>1 DEF ReaderOK
<1>7. /\ loops' \in [StreamIds -> LoopStates] /\ loops'[id].pc \in {"none", "done"}
      /\ loops'[id].chunk = <<>>
      /\ \A j \in StreamIds : j # id => loops'[j] = loops[j]
  <2>1. [pc |-> "done", chunk |-> <<>>] \in LoopStates
    BY DEF LoopStates
  <2>2. QED
    BY <1>1, <1>2, <2>1 DEF LoopOK
<1>8. LoopOK(id)'
  <2>1. Base(id)' \in Nat
    <3>1. Base(id) \in Nat
      BY BaseIs
    <3>2. QED
      BY <1>3, <1>5, <3>1 DEF Base
  <2>2. EndsIn(<<>>, Base(id)')
    BY <2>1 DEF EndsIn
  <2>3. QED
    BY <1>3, <1>5, <1>7, <2>2 DEF LoopOK
<1>9. QED
  BY <1>1, <1>4, <1>5, <1>6, <1>7, <1>8, OneReader

(* A packet takes a reader up to its limit at most.                        *)
LEMMA DeliveryFits ==
  ASSUME Sound, NEW p \in packets, p.id \in carried \cap known
  PROVE  LET d == RecvData(readers[p.id], p) IN
         d.nextSeq <= Limit(p.id) /\ (Quiet(p.id) => d.nextSeq = readers[p.id].nextSeq)
<1> DEFINE id == p.id
           r == readers[p.id]
           d == RecvData(r, p)
<1>1. p \in DataPackets \union TerminalPackets /\ id \in StreamIds
  BY UsedIds DEF Sound, Inv, SMTypeOK, IdsOK
<1>2. Receiving(r)
  BY <1>1, UsedIds
<1>3. /\ Grown(r, d, r.ooo \union {p})
      /\ p.kind = "error" => d.nextSeq = r.nextSeq
      /\ ~AcksData(r, p) => d.nextSeq = r.nextSeq
      /\ AcksData(r, p) => (p.kind # "error" => p.seq = r.nextSeq)
  BY <1>1, <1>2, RecvDataIs
<1>4. r.nextSeq \in Nat /\ r.nextSeq <= Limit(id) /\ Limit(id) \in Nat
  BY <1>1, BaseIs
<1>5. \/ d.nextSeq = r.nextSeq
      \/ \E q \in r.ooo \union {p} : q.kind = "data" /\ d.nextSeq = q.seq + q.len
  BY <1>3 DEF Grown
<1>6. Quiet(id) \/ Bounded(id) \/ Blocked(id)
  BY DEF Sound, FlowOK
<1> HIDE DEF d, r
<1>7. CASE Quiet(id)
  <2>1. \A q \in r.ooo \union {p} : q.kind # "data"
    BY <1>7 DEF Quiet, OnData, r
  <2>2. d.nextSeq = r.nextSeq
    BY <1>5, <2>1
  <2>3. QED
    BY <1>4, <2>2 DEF d, r
<1>8. CASE ~Quiet(id) /\ Bounded(id)
  <2>1. \A q \in r.ooo \union {p} : q.kind = "data" => q.seq + q.len <= Limit(id)
    BY <1>8 DEF Bounded, OnData, r
  <2>2. d.nextSeq <= Limit(id)
    BY <1>4, <1>5, <2>1
  <2>3. QED
    BY <1>8, <2>2 DEF d, r
<1>9. CASE ~Quiet(id) /\ Blocked(id)
  <2>1. p.kind = "error" \/ p.seq > r.nextSeq
    BY <1>9 DEF Blocked, r
  <2>2. p.seq \in Int
    BY <1>1 DEF DataPackets, TerminalPackets
  <2>3. d.nextSeq = r.nextSeq
    BY <1>3, <1>4, <2>1, <2>2
  <2>4. QED
    BY <1>4, <1>9, <2>3 DEF d, r
<1>10. QED
  BY <1>6, <1>7, <1>8, <1>9

(* A packet that fits keeps its reader as it should be.                    *)
LEMMA DeliveryKeepsReaders ==
  ASSUME Sound, Moved, NEW p, DeliverData(p)
  PROVE  ReadersOK'
<1> DEFINE id == p.id
           r == readers[p.id]
           d == RecvData(r, p)
<1>1. /\ p \in packets /\ p.id \in carried \cap known /\ UNCHANGED <<loops, cb, readPc>>
      /\ readers' = [readers EXCEPT ![id] = d]
      /\ known' = IF AcksData(r, p) /\ (d.eof \/ d.err) THEN known \ {id} ELSE known
  BY DEF DeliverData, smButPackets, readVars
<1>2. /\ p \in DataPackets \union TerminalPackets /\ id \in StreamIds /\ known \subseteq StreamIds
      /\ ReadersOK /\ Inv /\ EndOK
  BY <1>1, UsedIds DEF Sound, Inv, SMTypeOK, IdsOK
<1>3. Receiving(r) /\ ReaderOK(id) /\ LoopOK(id) /\ ~Finished(r)
  BY <1>1, <1>2, UsedIds DEF ReadersOK
<1>4. /\ Grown(r, d, r.ooo \union {p})
      /\ d.eof /\ d.err => r.eof /\ r.err
      /\ p.kind # "error" => d.err = r.err
      /\ p.kind = "error" => d.ooo = r.ooo
      /\ ~AcksData(r, p) => d.eof = r.eof /\ d.err = r.err
  BY <1>2, <1>3, RecvDataIs
<1>5. d.nextSeq <= Limit(id)
  BY <1>1, DeliveryFits
<1>6. readers \in [StreamIds -> Readers] /\ loops \in [StreamIds -> LoopStates]
  BY <1>2 DEF ReadersOK
<1>7. Receiving(d) /\ d.closed = r.closed
  BY <1>4 DEF Grown
<1> HIDE DEF d
<1>8. /\ readers' \in [StreamIds -> Readers] /\ readers'[id] = d
      /\ \A j \in StreamIds : j # id => readers'[j] = readers[j]
  BY <1>1, <1>2, <1>6, <1>7 DEF Receiving
<1>9. d.nextSeq - Len(d.buffer) = Base(id)
  BY <1>4 DEF Grown, Base
<1>10. Len(d.buffer) <= ReadWindow
  <2>1. Base(id) \in Nat /\ Limit(id) = Base(id) + ReadWindow
    BY <1>2, BaseIs
  <2>2. d.nextSeq \in Nat /\ Len(d.buffer) \in Nat
    BY <1>7 DEF Receiving, Readers
  <2> HIDE DEF Base
  <2>3. QED
    BY <1>5, <1>9, <2>1, <2>2, ReadWindowAssumption
<1>11. \A q \in d.ooo : q.kind # "data" => q.kind = "eof" /\ readPc = "done" /\ q.seq = cb.total
  <2>1. \A q \in d.ooo : q \in r.ooo \/ (q = p /\ q \in packets)
    BY <1>1, <1>4 DEF Grown
  <2>2. \A q \in d.ooo : q.kind # "error"
    BY <1>7 DEF Receiving
  <2>3. \A q \in d.ooo : q.kind \in {"data", "eof", "error"}
    BY <1>7 DEF Receiving, Readers, DataPackets, TerminalPackets
  <2>4. QED
    BY <1>2, <1>3, <2>1, <2>2, <2>3 DEF ReaderOK, EndOK, EndAfterAllAcked
<1>12. d.eof => readPc = "done" /\ d.nextSeq = cb.total
  <2>1. ~r.eof
    BY <1>3 DEF Finished
  <2>2. d.eof => \E q \in r.ooo \union {p} : q.kind = "eof" /\ d.nextSeq = q.seq
    BY <1>4, <2>1 DEF Grown
  <2>3. QED
    BY <1>1, <1>2, <1>3, <2>2 DEF ReaderOK, EndOK, EndAfterAllAcked
<1>13. d.err => readPc = "done" /\ cb.count = 0
  <2>1. ~r.err
    BY <1>3 DEF Finished
  <2>2. d.err => p.kind = "error"
    BY <1>4, <2>1
  <2>3. QED
    BY <1>1, <1>2, <2>2 DEF EndOK, EndAfterAllAcked
<1>14. ~(d.eof /\ d.err)
  BY <1>3, <1>4 DEF Finished
<1>15. ReaderOK(id)'
  <2>1. IsFiniteSet(d.ooo) /\ EndsIn(d.buffer, d.nextSeq)
    BY <1>7 DEF Receiving
  <2>2. QED
    BY <1>1, <1>8, <1>10, <1>11, <1>12, <1>13, <1>14, <2>1 DEF ReaderOK
<1>16. LoopOK(id)'
  BY <1>1, <1>3, <1>7, <1>8, <1>9 DEF LoopOK, Base
<1>17. id \in known' => ~Finished(d)
  BY <1>1, <1>3, <1>4, <1>7 DEF Finished
<1>18. loops' \in [StreamIds -> LoopStates] /\ known' \subseteq known
  BY <1>1, <1>6
<1> HIDE DEF id
<1>19. QED
  BY <1>1, <1>2, <1>8, <1>15, <1>16, <1>17, <1>18, OneReader

(* Every step keeps the readers and the loops as they should be.           *)
LEMMA StepKeepsReaders ==
  ASSUME Sound, Next
  PROVE  ReadersOK'
<1>1. Inv /\ EndOK /\ ReadersOK /\ Moved /\ known \subseteq StreamIds
      /\ readers \in [StreamIds -> Readers] /\ loops \in [StreamIds -> LoopStates]
      /\ ctl \in [pc : {"idle", "connected", "statted", "preparing", "starting"},
                  id : StreamIds \union {NoStream}, seq : Nat, gap : Nat]
  BY StepMoves, UsedIds DEF Sound, ReadersOK, IdsOK, RestartOK, CtlTypes
<1>2. \A id \in StreamIds : ReaderOK(id) /\ LoopOK(id) /\ Receiving(readers[id])
  BY UsedIds
<1> USE DEF mainVars
<1>3. ASSUME UNCHANGED <<readers, loops, known>> PROVE ReadersOK'
  <2>1. \A id \in StreamIds : ReaderOK(id)'
    BY <1>1, <1>2, <1>3, SameReader
  <2>2. \A id \in StreamIds : LoopOK(id)'
    BY <1>2, <1>3 DEF LoopOK, Base
  <2>3. QED
    BY <1>1, <1>3, <2>1, <2>2 DEF ReadersOK
<1>4. CASE ManagerStep \/ Flush \/ HandlerStep \/ Reconnect \/ LinkDown \/ RestartStat
  BY <1>3, <1>4 DEF ManagerStep, dsVars, Flush, HandlerStep, PrepareConnect, PrepareCall,
     PrepareReply, StartStream, Reconnect, LinkDown, RestartStat
<1>5. CASE LinkStep
  BY <1>1, <1>3, <1>5, DeliveryKeepsReaders DEF LinkStep, DeliverStray, DeliverAck
<1>6. ASSUME NEW id \in StreamIds, LoopRead(id) PROVE ReadersOK'
  <2> DEFINE r     == readers[id]
             chunk == ReadBytes(r, ReadSize)
             next  == AfterRead(r, ReadSize)
             d     == IF AcksRead(r, next) THEN Acked(next) ELSE next
  <2>1. ReadsBytes(r) /\ known' = known
        /\ readers' = [readers EXCEPT ![id] = d]
        /\ loops' = [loops EXCEPT ![id] = [pc |-> "append", chunk |-> chunk]]
    BY <1>6 DEF LoopRead
  <2>2. Receiving(r) /\ ReaderOK(id)
    BY <1>2
  <2>3. /\ Receiving(d) /\ chunk \in Seq(Nat) /\ Len(chunk) > 0
        /\ EndsIn(chunk, r.nextSeq - Len(r.buffer) + Len(chunk))
        /\ Len(d.buffer) = Len(r.buffer) - Len(chunk)
        /\ d.nextSeq = r.nextSeq /\ d.eof = r.eof /\ d.err = r.err /\ d.closed = r.closed
        /\ d.ooo = r.ooo
    BY <2>1, <2>2, ReadIs
  <2>4. ~r.closed /\ ~r.err
    BY <2>1 DEF ReadsBytes
  <2> HIDE DEF d, chunk
  <2>5. /\ readers' \in [StreamIds -> Readers] /\ loops' \in [StreamIds -> LoopStates]
        /\ readers'[id] = d /\ loops'[id] = [pc |-> "append", chunk |-> chunk]
        /\ \A j \in StreamIds : j # id => readers'[j] = readers[j] /\ loops'[j] = loops[j]
    BY <1>1, <2>1, <2>3 DEF LoopStates, Receiving
  <2>6. Len(d.buffer) <= ReadWindow
    <3>1. Len(r.buffer) \in Nat /\ Len(chunk) \in Nat /\ Len(r.buffer) <= ReadWindow
      BY <2>2, <2>3 DEF Receiving, Readers, ReaderOK
    <3>2. QED
      BY <2>3, <3>1, ReadWindowAssumption
  <2>7. ReaderOK(id)'
    <3>1. IsFiniteSet(d.ooo) /\ EndsIn(d.buffer, d.nextSeq)
      BY <2>3 DEF Receiving
    <3>2. readPc = "done" => readPc' = "done" /\ cb'.total = cb.total
      BY <1>1 DEF Moved
    <3>3. QED
      BY <2>2, <2>3, <2>4, <2>5, <2>6, <3>1, <3>2 DEF ReaderOK
  <2>8. LoopOK(id)'
    <3>1. d.nextSeq - Len(d.buffer) = r.nextSeq - Len(r.buffer) + Len(chunk)
      <4>1. PICK m \in Nat, k \in Nat, n \in Nat :
              m = r.nextSeq /\ k = Len(r.buffer) /\ n = Len(chunk)
        BY <2>2, <2>3 DEF Receiving, Readers
      <4>2. d.nextSeq = m /\ Len(d.buffer) = k - n
        BY <2>3, <4>1
      <4>3. d.nextSeq - Len(d.buffer) = m - (k - n)
        BY <4>2
      <4>4. m - (k - n) = m - k + n
        OBVIOUS
      <4>5. QED
        BY <4>1, <4>3, <4>4
    <3>2. QED
      BY <2>3, <2>4, <2>5, <3>1 DEF LoopOK, Base
  <2>9. id \in known' => ~Finished(readers'[id])
    BY <1>1, <2>1, <2>3, <2>5 DEF ReadersOK, Finished
  <2>10. QED
    BY <1>1, <2>1, <2>5, <2>7, <2>8, <2>9, OneReader
<1>7. ASSUME NEW id \in StreamIds, LoopAppend(id) PROVE ReadersOK'
  <2>1. /\ loops[id].pc = "append" /\ UNCHANGED <<readers, known>>
        /\ loops' = [loops EXCEPT ![id] = [pc |-> "read", chunk |-> <<>>]]
    BY <1>7 DEF LoopAppend
  <2>2. /\ loops' \in [StreamIds -> LoopStates] /\ loops'[id] = [pc |-> "read", chunk |-> <<>>]
        /\ \A j \in StreamIds : j # id => loops'[j] = loops[j]
    BY <1>1, <2>1 DEF LoopStates
  <2>3. ReaderOK(id)'
    BY <1>1, <1>2, <2>1, SameReader
  <2>4. Base(id) \in Nat
    BY BaseIs
  <2>5. Base(id)' = Base(id)
    BY <2>1 DEF Base
  <2>6. EndsIn(<<>>, Base(id))
    BY <2>4 DEF EndsIn
  <2> HIDE DEF Base
  <2>7. LoopOK(id)'
    BY <1>2, <2>1, <2>2, <2>5, <2>6 DEF LoopOK
  <2>8. QED
    BY <1>1, <2>1, <2>2, <2>3, <2>7, OneReader DEF ReadersOK
<1>8. ASSUME NEW id \in StreamIds, LoopSuperseded(id) \/ LoopEnd(id) PROVE ReadersOK'
  BY <1>1, <1>8, ClosedKeepsReaders DEF LoopSuperseded, LoopEnd
<1>9. CASE RestartFails
  <2>1. ctl.id \in StreamIds /\ loops[ctl.id].pc = "none"
    BY <1>9 DEF RestartFails, Sound, RestartOK
  <2>2. QED
    BY <1>1, <1>9, <2>1, ClosedKeepsReaders DEF RestartFails
<1>10. CASE RestartCreateReader
  <2>9. PICK id \in StreamIds : id = used + 1 /\ loops[id].pc = "none"
    BY <1>10, FreshId DEF RestartCreateReader, Sound, IdsOK
  <2>1. id \in StreamIds /\ loops[id].pc = "none"
    BY <2>9
  <2> DEFINE d == NewReaderWithSeq(ctl.seq)
  <2>2. /\ readers' = [readers EXCEPT ![id] = d] /\ loops' = loops
        /\ known' = known \union {id}
    BY <1>10, <2>9 DEF RestartCreateReader
  <2>3. /\ Receiving(d) /\ d.nextSeq = ctl.seq /\ d.buffer = <<>> /\ d.ooo = {}
        /\ ~d.closed /\ ~d.err /\ ~d.eof /\ ctl.seq \in Nat
    BY <1>1, NewReaderIs
  <2> HIDE DEF d
  <2>4. /\ readers' \in [StreamIds -> Readers] /\ readers'[id] = d
        /\ \A j \in StreamIds : j # id => readers'[j] = readers[j]
    BY <1>1, <2>1, <2>2, <2>3 DEF Receiving
  <2>5. ReaderOK(id)'
    <3>1. Len(d.buffer) = 0
      BY <2>3
    <3>2. Len(d.buffer) <= ReadWindow /\ IsFiniteSet(d.ooo) /\ EndsIn(d.buffer, d.nextSeq)
          /\ \A p \in d.ooo : FALSE
      BY <2>3, <3>1, ReadWindowAssumption DEF Receiving
    <3>3. QED
      BY <2>3, <2>4, <3>2, Zenon DEF ReaderOK
  <2>6. LoopOK(id)'
    <3>1. Base(id)' = ctl.seq
      BY <2>3, <2>4 DEF Base
    <3>2. loops'[id].chunk = <<>>
      BY <1>2, <2>1, <2>2 DEF LoopOK
    <3>3. EndsIn(<<>>, ctl.seq)
      BY <2>3 DEF EndsIn
    <3>4. QED
      BY <2>1, <2>2, <3>1, <3>2, <3>3 DEF LoopOK
  <2>7. ~Finished(readers'[id])
    BY <2>3, <2>4 DEF Finished
  <2>8. QED
    BY <1>1, <2>1, <2>2, <2>4, <2>5, <2>6, <2>7, OneReader
<1>11. CASE RestartPrepared
  <2>1. /\ ctl.pc = "preparing" /\ rpc.id = ctl.id /\ ctl.id \in StreamIds
        /\ loops[ctl.id].pc = "none" /\ ~readers[ctl.id].closed /\ loops' = loops
        /\ readers[ctl.id].nextSeq = ctl.seq
    BY <1>11 DEF RestartPrepared, Sound, RestartOK
  <2>2. CASE CloseReader(ctl.id)
    BY <1>1, <2>1, <2>2, ClosedKeepsReaders
  <2>3. CASE ~CloseReader(ctl.id)
    <3>0. PICK id \in StreamIds : id = ctl.id
      BY <2>1
    <3> DEFINE r  == readers[id]
               d  == UpdateNextSeq(r, rpc.seq)
    <3>1. rpc.op = "prepared" /\ known' = known
          /\ readers' = [readers EXCEPT ![id] = IF rpc.seq > ctl.seq THEN d ELSE @]
      BY <1>11, <2>3, <3>0 DEF RestartPrepared
    <3>2. CASE ~(rpc.seq > ctl.seq)
      BY <1>1, <1>3, <2>1, <3>0, <3>1, <3>2
    <3>3. CASE rpc.seq > ctl.seq
      <4>1. Quiet(id)
        BY <2>1, <3>0 DEF Sound, FlowOK, Unstarted
      <4>2. r.buffer = <<>> /\ rpc.seq \in Nat /\ rpc.seq <= HeadPos(cb)
        BY <3>1, <4>1 DEF Quiet, Sound, RpcOK, Rpcs, Prepared
      <4>3. ~r.eof
        <5>1. r.eof => r.nextSeq = cb.total
          BY <1>2, <2>1, <3>0 DEF ReaderOK
        <5>2. HeadPos(cb) <= cb.total /\ HeadPos(cb) \in Nat /\ cb.total \in Nat
          BY <1>1, BufferNumbers DEF Inv
        <5>3. QED
          BY <1>1, <2>1, <3>0, <3>3, <4>2, <5>1, <5>2
      <4>4. Receiving(r) /\ ReaderOK(id)
        BY <1>2, <2>1, <3>0
      <4>5. /\ Receiving(d) /\ d.nextSeq = rpc.seq /\ d.buffer = <<>>
            /\ d.closed = r.closed /\ d.err = r.err /\ d.eof = r.eof /\ d.ooo = r.ooo
        BY <4>2, <4>4, UpdatedIs
      <4> HIDE DEF d
      <4>6. /\ readers' \in [StreamIds -> Readers] /\ readers'[id] = d
            /\ \A j \in StreamIds : j # id => readers'[j] = readers[j]
        BY <1>1, <2>1, <3>0, <3>1, <3>3, <4>5 DEF Receiving
      <4>7. ReaderOK(id)'
        <5>1. readPc = "done" => readPc' = "done" /\ cb'.total = cb.total
                                 /\ (cb.count = 0 => cb'.count = 0)
          BY <1>1 DEF Moved
        <5>2. Len(d.buffer) = 0
          BY <4>5
        <5>3. QED
          BY <4>3, <4>4, <4>5, <4>6, <5>1, <5>2, ReadWindowAssumption DEF ReaderOK, Receiving
      <4>8. LoopOK(id)'
        <5>1. Base(id)' = rpc.seq
          BY <4>2, <4>5, <4>6 DEF Base
        <5>2. loops'[id].chunk = <<>>
          BY <1>2, <2>1, <3>0 DEF LoopOK
        <5>3. EndsIn(<<>>, rpc.seq)
          BY <4>2 DEF EndsIn
        <5>4. QED
          BY <2>1, <3>0, <5>1, <5>2, <5>3 DEF LoopOK
      <4>9. id \in known' => ~Finished(readers'[id])
        BY <1>1, <3>1, <4>5, <4>6 DEF ReadersOK, Finished
      <4>10. QED
        BY <1>1, <2>1, <3>0, <3>1, <4>6, <4>7, <4>8, <4>9, OneReader
    <3>4. QED
      BY <3>2, <3>3
  <2>4. QED
    BY <2>2, <2>3
<1>12. CASE RestartStarted
  <2>9. PICK id \in StreamIds : id = ctl.id
    BY <1>12 DEF RestartStarted, Sound, RestartOK
  <2>1. /\ id \in StreamIds /\ ~readers[id].closed /\ UNCHANGED <<readers, known>>
        /\ loops' = [loops EXCEPT ![id] = [pc |-> "read", chunk |-> <<>>]]
    BY <1>12, <2>9 DEF RestartStarted, Sound, RestartOK
  <2>2. /\ loops' \in [StreamIds -> LoopStates] /\ loops'[id] = [pc |-> "read", chunk |-> <<>>]
        /\ \A j \in StreamIds : j # id => loops'[j] = loops[j]
    BY <1>1, <2>1 DEF LoopStates
  <2>3. ReaderOK(id)'
    BY <1>1, <1>2, <2>1, SameReader
  <2>4. Base(id) \in Nat
    BY <2>1, BaseIs
  <2>5. Base(id)' = Base(id)
    BY <2>1 DEF Base
  <2>6. EndsIn(<<>>, Base(id))
    BY <2>4 DEF EndsIn
  <2> HIDE DEF Base
  <2>7. LoopOK(id)'
    BY <2>1, <2>2, <2>5, <2>6 DEF LoopOK
  <2>8. QED
    BY <1>1, <2>1, <2>2, <2>3, <2>7, OneReader DEF ReadersOK
<1>13. CASE Crash
  <2> DEFINE d == NewReaderWithSeq(0)
  <2>1. /\ readers' = [id \in StreamIds |-> d] /\ loops' = [id \in StreamIds |-> NoLoop]
        /\ known' = {}
    BY <1>13 DEF Crash
  <2>2. /\ Receiving(d) /\ d.nextSeq = 0 /\ d.buffer = <<>> /\ d.ooo = {}
        /\ ~d.closed /\ ~d.err /\ ~d.eof
    BY NewReaderIs
  <2> HIDE DEF d
  <2>3. readers' \in [StreamIds -> Readers] /\ loops' \in [StreamIds -> LoopStates]
    BY <2>1, <2>2 DEF Receiving, LoopStates, NoLoop
  <2>4. ASSUME NEW id \in StreamIds PROVE ReaderOK(id)' /\ LoopOK(id)'
    <3>1. readers'[id] = d /\ loops'[id] = NoLoop
      BY <2>1
    <3>2. ReaderOK(id)'
      <4>1. Len(d.buffer) = 0
        BY <2>2
      <4>2. Len(d.buffer) <= ReadWindow /\ IsFiniteSet(d.ooo) /\ EndsIn(d.buffer, d.nextSeq)
            /\ \A p \in d.ooo : FALSE
        BY <2>2, <4>1, ReadWindowAssumption DEF Receiving
      <4>3. QED
        BY <2>2, <3>1, <4>2, Zenon DEF ReaderOK
    <3>3. Base(id)' = 0
      BY <2>2, <3>1 DEF Base
    <3>4. LoopOK(id)'
      BY <3>1, <3>3 DEF LoopOK, NoLoop, EndsIn
    <3>5. QED
      BY <3>2, <3>4
  <2>5. QED
    BY <2>1, <2>3, <2>4 DEF ReadersOK
<1>14. QED
  BY <1>4, <1>5, <1>6, <1>7, <1>8, <1>9, <1>10, <1>11, <1>12, <1>13
  DEF Next, LoopStep, RestartStep

(* restartStreaming.                                                       *)
LEMMA StepKeepsRestart ==
  ASSUME Sound, Next
  PROVE  RestartOK'
<1>1. /\ RestartOK /\ RpcOK /\ HandlerOK /\ Inv /\ known \subseteq StreamIds
      /\ ctl \in [pc : {"idle", "connected", "statted", "preparing", "starting"},
                  id : StreamIds \union {NoStream}, seq : Nat, gap : Nat]
      /\ current \in StreamIds \union {NoStream} /\ pendingMeta \in StreamIds \union {NoStream}
      /\ readers \in [StreamIds -> Readers] /\ loops \in [StreamIds -> LoopStates]
      /\ rpc \in Rpcs
  BY UsedIds DEF Sound, ReadersOK, IdsOK, RestartOK, CtlTypes, RpcOK
<1>2. \A id \in StreamIds : Receiving(readers[id])
  BY UsedIds
<1> DEFINE Restarting == ctl.pc \in {"preparing", "starting"}
<1>3. /\ Restarting => /\ ctl.id \in StreamIds /\ current = ctl.id
                       /\ rpc.id \in {ctl.id, NoStream}
                       /\ loops[ctl.id].pc = "none" /\ ~readers[ctl.id].closed
      /\ rpc.op = "start" => rpc.id \in StreamIds
  BY <1>1 DEF RestartOK, RpcOK
<1> USE DEF mainVars, jmVars
<1>4. ASSUME UNCHANGED <<ctl, current, rpc>>,
             pendingMeta' \in StreamIds \union {NoStream}, known' \subseteq known,
             Restarting => /\ loops'[ctl.id].pc = loops[ctl.id].pc
                           /\ readers'[ctl.id].closed <=> readers[ctl.id].closed,
             \A id \in StreamIds :
               Unstarted(id) => readers'[id].nextSeq = readers[id].nextSeq
      PROVE  RestartOK'
  <2>1. rpc.op = "start" => Unstarted(rpc.id)
    BY DEF Unstarted
  <2>2. ctl.pc = "preparing" => Unstarted(ctl.id)
    BY DEF Unstarted
  <2>3. CtlTypes'
    BY <1>1, <1>4 DEF CtlTypes
  <2>4. rpc.op = "start" => readers'[rpc.id].nextSeq = readers[rpc.id].nextSeq
    BY <1>3, <1>4, <2>1
  <2>5. ctl.pc = "preparing" => readers'[ctl.id].nextSeq = readers[ctl.id].nextSeq
    BY <1>3, <1>4, <2>2
  <2>6. QED
    BY <1>1, <1>3, <1>4, <2>3, <2>4, <2>5 DEF RestartOK
<1>5. ASSUME UNCHANGED <<ctl, current, rpc, pendingMeta, readers, loops, known>> PROVE RestartOK'
  BY <1>1, <1>4, <1>5
<1>6. CASE ManagerStep \/ Flush \/ PrepareCall
  BY <1>5, <1>6 DEF ManagerStep, dsVars, Flush, PrepareCall
<1>7. CASE LinkStep
  <2>1. ASSUME NEW p, DeliverData(p) PROVE RestartOK'
    <3> DEFINE d == RecvData(readers[p.id], p)
    <3>1. /\ p \in packets /\ p.id \in carried \cap known /\ p.id \in StreamIds
          /\ readers' = [readers EXCEPT ![p.id] = d] /\ known' \subseteq known
          /\ UNCHANGED <<ctl, current, rpc, pendingMeta, loops>>
      BY <1>1, <2>1 DEF DeliverData
    <3>2. p \in DataPackets \union TerminalPackets
      BY <1>1, <3>1 DEF Inv, SMTypeOK
    <3>3. d.closed = readers[p.id].closed
      BY <1>2, <3>1, <3>2, RecvDataIs DEF Grown
    <3>4. Unstarted(p.id) => d.nextSeq = readers[p.id].nextSeq
      BY <3>1, DeliveryFits DEF Sound, FlowOK
    <3> HIDE DEF d
    <3>5. /\ readers'[p.id] = d
          /\ \A j \in StreamIds : j # p.id => readers'[j] = readers[j]
      BY <1>1, <3>1
    <3>6. \A id \in StreamIds : Unstarted(id) => readers'[id].nextSeq = readers[id].nextSeq
      BY <3>4, <3>5
    <3>7. Restarting => readers'[ctl.id].closed = readers[ctl.id].closed
      BY <1>3, <3>3, <3>5
    <3>8. QED
      BY <1>1, <1>4, <3>1, <3>6, <3>7
  <2>2. QED
    BY <1>5, <1>7, <2>1 DEF LinkStep, DeliverStray, DeliverAck
<1>8. ASSUME NEW id \in StreamIds, LoopStep(id) PROVE RestartOK'
  <2>1. loops[id].pc \in {"read", "append"}
    BY <1>8 DEF LoopStep, LoopRead, LoopSuperseded, LoopAppend, LoopEnd
  <2>2. Restarting => ctl.id # id
    BY <1>3, <2>1
  <2>3. UNCHANGED <<ctl, current, rpc, pendingMeta>> /\ known' \subseteq known
    BY <1>8 DEF LoopStep, LoopRead, LoopSuperseded, LoopAppend, LoopEnd, CloseReader
  <2>4. \A j \in StreamIds : j # id => readers'[j] = readers[j] /\ loops'[j] = loops[j]
    BY <1>1, <1>8 DEF LoopStep, LoopRead, LoopSuperseded, LoopAppend, LoopEnd, CloseReader
  <2>5. readers'[id].nextSeq = readers[id].nextSeq
    <3>1. CASE LoopRead(id)
      <4> DEFINE r    == readers[id]
                 next == AfterRead(r, ReadSize)
                 d    == IF AcksRead(r, next) THEN Acked(next) ELSE next
      <4>1. ReadsBytes(r) /\ readers' = [readers EXCEPT ![id] = d]
        BY <3>1 DEF LoopRead
      <4>2. d.nextSeq = r.nextSeq
        BY <1>2, <4>1, ReadIs
      <4> HIDE DEF d
      <4>3. QED
        BY <1>1, <4>1, <4>2
    <3>2. CASE CloseReader(id)
      <4>1. readers'[id] = Closed(readers[id])
        BY <1>1, <3>2 DEF CloseReader
      <4>2. QED
        BY <1>2, <4>1, ClosedIs
    <3>3. CASE UNCHANGED readers
      BY <3>3
    <3>4. QED
      BY <1>8, <3>1, <3>2, <3>3 DEF LoopStep, LoopSuperseded, LoopAppend, LoopEnd
  <2>6. QED
    BY <1>1, <1>3, <1>4, <2>2, <2>3, <2>4, <2>5
<1>9. CASE RestartStat
  <2>1. /\ ctl' = [pc |-> "statted", id |-> NoStream, seq |-> Len(file) + totalGap,
                   gap |-> totalGap]
        /\ UNCHANGED <<current, rpc, pendingMeta, readers, loops, known>>
    BY <1>9 DEF RestartStat
  <2>2. Len(file) + totalGap \in Nat /\ totalGap \in Nat
    BY DEF Sound, FileOK, FileTypes
  <2>3. CtlTypes'
    BY <1>1, <2>1, <2>2 DEF CtlTypes
  <2>4. QED
    BY <1>1, <1>9, <2>1, <2>3 DEF RestartOK
<1>10. CASE Reconnect
  <2>1. /\ ctl' = [pc |-> "connected", id |-> NoStream, seq |-> 0, gap |-> 0]
        /\ UNCHANGED <<current, rpc, pendingMeta, readers, loops, known>>
    BY <1>10 DEF Reconnect, Idle
  <2>2. CtlTypes'
    BY <1>1, <2>1 DEF CtlTypes
  <2>3. QED
    BY <1>1, <1>10, <2>1, <2>2 DEF RestartOK
<1>11. CASE RestartCreateReader
  <2>1. PICK id \in StreamIds : id = used + 1 /\ loops[id].pc = "none"
    BY <1>11, FreshId DEF RestartCreateReader, Sound, IdsOK
  <2> DEFINE d == NewReaderWithSeq(ctl.seq)
  <2>2. /\ ctl.pc = "statted" /\ readers' = [readers EXCEPT ![id] = d] /\ current' = id
        /\ ctl' = [ctl EXCEPT !.pc = "preparing", !.id = id]
        /\ rpc' = (IF link THEN [op |-> "prepare", id |-> id, seq |-> ctl.seq] ELSE NoRpc)
        /\ UNCHANGED <<pendingMeta, loops>>
    BY <1>11, <2>1 DEF RestartCreateReader
  <2>3. d.nextSeq = ctl.seq /\ ~d.closed
    BY <1>1, NewReaderIs
  <2> HIDE DEF d
  <2>4. /\ ctl'.pc = "preparing" /\ ctl'.id = id /\ ctl'.seq = ctl.seq /\ CtlTypes'
        /\ readers'[id] = d
    BY <1>1, <2>2 DEF CtlTypes
  <2>5. /\ rpc'.id \in {id, NoStream} /\ rpc'.op \in {"prepare", "none"}
        /\ rpc'.op = "prepare" => rpc'.seq = ctl.seq
    BY <2>2 DEF NoRpc
  <2>6. QED
    BY <2>1, <2>2, <2>3, <2>4, <2>5 DEF RestartOK
<1>12. ASSUME ctl' = Idle, rpc' = NoRpc, UNCHANGED pendingMeta,
              current' \in StreamIds \union {NoStream}
       PROVE  RestartOK'
  BY <1>1, <1>12 DEF RestartOK, CtlTypes, Idle, NoRpc
<1>13. CASE RestartPrepared
  <2>1. CASE ctl' = Idle /\ rpc' = NoRpc
    BY <1>1, <1>12, <1>13, <2>1 DEF RestartPrepared
  <2>2. CASE ~(ctl' = Idle /\ rpc' = NoRpc)
    <3>1. PICK id \in StreamIds : id = ctl.id
      BY <1>3, <1>13 DEF RestartPrepared
    <3> DEFINE r == readers[id]
               d == IF rpc.seq > ctl.seq THEN UpdateNextSeq(r, rpc.seq) ELSE r
    <3>2. /\ ctl.pc = "preparing" /\ rpc.op = "prepared" /\ rpc.id = id
          /\ readers' = [readers EXCEPT ![id] = d]
          /\ ctl' = [ctl EXCEPT !.pc = "starting"] /\ rpc' = [rpc EXCEPT !.op = "start"]
          /\ UNCHANGED <<pendingMeta, loops, current>>
      BY <1>13, <2>2, <3>1 DEF RestartPrepared
    <3>3. rpc.seq >= ctl.seq /\ r.nextSeq = ctl.seq /\ rpc.seq \in Nat /\ ctl.seq \in Nat
      BY <1>1, <3>1, <3>2 DEF RestartOK, Rpcs
    <3>4. d.nextSeq = rpc.seq /\ d.closed = r.closed
      <4>1. CASE rpc.seq > ctl.seq
        <5>1. Quiet(id)
          BY <3>1, <3>2 DEF Sound, FlowOK, Unstarted
        <5>2. QED
          BY <1>2, <3>3, <4>1, <5>1, UpdatedIs DEF Quiet
      <4>2. CASE ~(rpc.seq > ctl.seq)
        BY <3>3, <4>2
      <4>3. QED
        BY <4>1, <4>2
    <3> HIDE DEF d
    <3>5. /\ readers'[id] = d /\ ctl'.pc = "starting" /\ ctl'.id = id /\ rpc'.op = "start"
          /\ rpc'.id = id /\ rpc'.seq = rpc.seq /\ CtlTypes'
      BY <1>1, <3>1, <3>2 DEF CtlTypes, Rpcs
    <3>6. QED
      BY <1>3, <3>1, <3>2, <3>4, <3>5 DEF RestartOK
  <2>3. QED
    BY <2>1, <2>2
<1>14. CASE RestartStarted
  BY <1>1, <1>12, <1>14 DEF RestartStarted
<1>15. CASE RestartFails
  <2>1. /\ ctl.id \in StreamIds /\ CloseReader(ctl.id) /\ ctl' = Idle
        /\ UNCHANGED <<rpc, pendingMeta, current>>
    BY <1>3, <1>15 DEF RestartFails
  <2>2. \A j \in StreamIds : readers'[j].nextSeq = readers[j].nextSeq
    <3>1. Closed(readers[ctl.id]).nextSeq = readers[ctl.id].nextSeq
      BY <1>2, <2>1, ClosedIs
    <3>2. readers' = [readers EXCEPT ![ctl.id] = Closed(readers[ctl.id])]
      BY <2>1 DEF CloseReader
    <3>3. QED
      BY <1>1, <2>1, <3>1, <3>2
  <2>3. known' \subseteq known
    BY <2>1 DEF CloseReader
  <2>4. CtlTypes' /\ ctl'.pc = "idle"
    BY <1>1, <2>1 DEF CtlTypes, Idle
  <2>5. QED
    BY <1>1, <1>3, <2>1, <2>2, <2>3, <2>4 DEF RestartOK
<1>16. ASSUME UNCHANGED <<ctl, current, readers, loops, known>>,
              pendingMeta' \in StreamIds \union {NoStream},
              rpc'.id \in {rpc.id, NoStream}, rpc'.op # "start",
              ctl.pc = "preparing" =>
                /\ rpc'.op # "started"
                /\ rpc'.op \in {"prepare", "taken"} => rpc'.seq = ctl.seq
                /\ rpc'.op = "prepared" => rpc'.seq >= ctl.seq
       PROVE  RestartOK'
  <2>1. CtlTypes'
    BY <1>1, <1>16 DEF CtlTypes
  <2>2. QED
    BY <1>1, <1>3, <1>16, <2>1 DEF RestartOK
<1>17. CASE PrepareConnect
  <2>1. /\ rpc.op = "prepare" /\ rpc'.op \in {"finished", "taken"} /\ rpc'.id = rpc.id
        /\ rpc'.seq = rpc.seq /\ UNCHANGED <<ctl, current, readers, loops, known, pendingMeta>>
    BY <1>1, <1>17 DEF PrepareConnect, Rpcs
  <2>2. ctl.pc = "preparing" => rpc.seq = ctl.seq
    BY <1>1, <2>1 DEF RestartOK
  <2>3. QED
    BY <1>1, <1>16, <2>1, <2>2
<1>18. CASE PrepareReply
  <2>1. /\ jm.pc = "called" /\ jm.id \in StreamIds
        /\ UNCHANGED <<ctl, current, readers, loops, known>>
        /\ pendingMeta' \in StreamIds \union {NoStream}
    BY <1>1, <1>18 DEF PrepareReply, HandlerOK
  <2>2. CASE rpc' = rpc
    BY <1>1, <1>4, <2>1, <2>2
  <2>3. CASE rpc.op = "taken" /\ rpc' = [op |-> "failed", id |-> jm.id, seq |-> 0]
    BY <1>1, <1>16, <2>1, <2>3 DEF RpcOK
  <2>4. CASE /\ rpc.op = "taken" /\ ConnectReturn
             /\ rpc' = [op |-> "prepared", id |-> jm.id, seq |-> Greatest(call.head, call.seq)]
    <3>1. call.pc = "set" /\ call.seq = jm.seq /\ call.head \in Nat /\ call.seq \in Nat
      BY <1>1, <2>4 DEF ConnectReturn, HandlerOK, Inv, SMTypeOK, Calls
    <3>2. rpc.id = jm.id /\ rpc.seq = jm.seq
      BY <1>1, <2>4 DEF RpcOK
    <3>3. Greatest(call.head, call.seq) >= call.seq
      BY <3>1 DEF Greatest
    <3>4. ctl.pc = "preparing" => rpc.seq = ctl.seq
      BY <1>1, <2>4 DEF RestartOK
    <3>5. QED
      BY <1>16, <2>1, <2>4, <3>1, <3>2, <3>3, <3>4
  <2>5. QED
    BY <1>18, <2>2, <2>3, <2>4 DEF PrepareReply, Reply
<1>19. CASE StartStream
  <2>1. /\ rpc.op = "start" /\ rpc'.op = "started" /\ rpc'.id = rpc.id
        /\ pendingMeta' = NoStream /\ UNCHANGED <<ctl, current, readers, loops, known>>
    BY <1>1, <1>19 DEF StartStream, Rpcs
  <2>2. ctl.pc # "preparing"
    BY <1>1, <2>1 DEF RestartOK
  <2>3. QED
    BY <1>16, <2>1, <2>2
<1>20. CASE LinkDown
  BY <1>1, <1>16, <1>20 DEF LinkDown, LoseLink, NoRpc
<1>21. CASE Crash
  BY <1>1, <1>12, <1>21 DEF Crash, LoseLink
<1>22. QED
  BY <1>6, <1>7, <1>8, <1>9, <1>10, <1>11, <1>13, <1>14, <1>15, <1>17, <1>18, <1>19, <1>20, <1>21
  DEF Next, RestartStep, HandlerStep

(* Flow control.  A step that leaves a stream as it is, or only takes from *)
(* what is under way on it.                                                *)
Calm(id) ==
  /\ \A p \in packets' : p.id = id => p \in packets
  /\ Acking(id)' => Acking(id)
  /\ id \in attached' => id \in attached
  /\ readers'[id].nextSeq = readers[id].nextSeq
  /\ readers'[id].buffer = readers[id].buffer /\ readers'[id].ooo = readers[id].ooo
  /\ Sending(id)' =>
       /\ Sending(id) /\ rwndSize' = rwndSize /\ sentNotAcked' = sentNotAcked
       /\ HeadPos(cb') = HeadPos(cb)

(* A calm step keeps what flow control says of the stream.                 *)
LEMMA CalmKeeps ==
  ASSUME NEW id, Calm(id)
  PROVE  /\ Quiet(id) => Quiet(id)'
         /\ Bounded(id) => Bounded(id)'
         /\ Blocked(id) => Blocked(id)'
         /\ Limit(id)' = Limit(id)
<1>1. Limit(id)' = Limit(id) /\ OnData(id)' \subseteq OnData(id)
  BY DEF Calm, Limit, Base, OnData
<1>2. Quiet(id) => Quiet(id)'
  BY <1>1 DEF Calm, Quiet
<1>3. Bounded(id) => Bounded(id)'
  BY <1>1 DEF Calm, Bounded
<1>4. Blocked(id) => Blocked(id)'
  BY DEF Calm, Blocked
<1>5. QED
  BY <1>1, <1>2, <1>3, <1>4

(* An ack stays good while its reader goes on.                             *)
LEMMA AcksStay ==
  ASSUME Sound, NEW ack \in acks, ack.id \in known' => ack.id \in known,
         ack.id \in known' =>
           /\ readers'[ack.id].nextSeq \in Nat /\ Limit(ack.id)' \in Nat
           /\ readers'[ack.id].nextSeq >= readers[ack.id].nextSeq
           /\ Limit(ack.id)' >= Limit(ack.id)
  PROVE  AckOK(ack)'
<1>1. AckOK(ack) /\ ack.id \in StreamIds /\ ack.seq \in Nat /\ ack.rwnd \in Nat
  BY DEF Sound, FlowOK, AckOK
<1>2. readers[ack.id].nextSeq \in Nat /\ Limit(ack.id) \in Nat
  BY <1>1, BaseIs
<1> HIDE DEF Limit
<1>3. CASE ack.id \in known'
  <2>1. ~ack.fin /\ ack.seq <= readers[ack.id].nextSeq /\ ack.seq + ack.rwnd <= Limit(ack.id)
    BY <1>1, <1>3 DEF AckOK
  <2>2. ack.seq <= readers'[ack.id].nextSeq
    BY <1>1, <1>2, <1>3, <2>1
  <2>3. ack.seq + ack.rwnd <= Limit(ack.id)'
    BY <1>1, <1>2, <1>3, <2>1
  <2>4. QED
    BY <1>1, <1>3, <2>1, <2>2, <2>3 DEF AckOK
<1>4. CASE ack.id \notin known'
  BY <1>1, <1>4 DEF AckOK
<1>5. QED
  BY <1>3, <1>4

(* An ack that was right stays right while its reader stays.               *)
LEMMA CalmAck ==
  ASSUME Sound, NEW ack \in acks, ack.id \in known' => ack.id \in known, Calm(ack.id)
  PROVE  AckOK(ack)'
<1>1. ack.id \in StreamIds
  BY DEF Sound, FlowOK, AckOK
<1>2. readers[ack.id].nextSeq \in Nat /\ Limit(ack.id) \in Nat
  BY <1>1, BaseIs
<1>3. Limit(ack.id)' = Limit(ack.id) /\ readers'[ack.id].nextSeq = readers[ack.id].nextSeq
  BY CalmKeeps DEF Calm
<1> HIDE DEF Limit
<1>4. QED
  BY <1>2, <1>3, AcksStay

(* What is left to show of a step that starts no stream.                   *)
LEMMA FlowFrom ==
  ASSUME Sound, \A ack \in acks' : AckOK(ack)',
         \A id \in StreamIds : Unstarted(id)' => Unstarted(id),
         \A id \in carried' \cap known' : id \in carried \cap known \/ Unstarted(id),
         carried' \subseteq StreamIds,
         \A id \in StreamIds : Quiet(id) => Quiet(id)',
         \A id \in carried \cap known :
           id \in known' => (Bounded(id) => Bounded(id)') /\ (Blocked(id) => Blocked(id)')
  PROVE  FlowOK'
<1>1. FlowOK
  BY DEF Sound
<1>2. \A id \in StreamIds : Unstarted(id)' => Quiet(id)'
  BY <1>1 DEF FlowOK
<1>3. \A id \in carried' \cap known' : Quiet(id)' \/ Bounded(id)' \/ Blocked(id)'
  BY <1>1 DEF FlowOK
<1>4. QED
  BY <1>2, <1>3 DEF FlowOK

(* A step that is calm for every stream.                                   *)
LEMMA CalmFlow ==
  ASSUME Sound, acks' \subseteq acks, known' \subseteq known,
         \A id \in StreamIds : Calm(id),
         \A id \in StreamIds : Unstarted(id)' => Unstarted(id),
         \A id \in carried' : id \in carried \/ Unstarted(id),
         carried' \subseteq StreamIds
  PROVE  FlowOK'
<1>1. \A ack \in acks' : AckOK(ack)'
  <2>1. \A ack \in acks : ack.id \in StreamIds
    BY DEF Sound, FlowOK, AckOK
  <2>2. QED
    BY <2>1, CalmAck
<1>2. carried \subseteq StreamIds
  BY UsedIds DEF Sound, IdsOK
<1>3. \A id \in StreamIds : /\ Quiet(id) => Quiet(id)'
                            /\ Bounded(id) => Bounded(id)'
                            /\ Blocked(id) => Blocked(id)'
  BY CalmKeeps
<1>4. \A id \in carried \cap known :
        id \in known' => (Bounded(id) => Bounded(id)') /\ (Blocked(id) => Blocked(id)')
  BY <1>2, <1>3
<1>5. \A id \in carried' \cap known' : id \in carried \cap known \/ Unstarted(id)
  OBVIOUS
<1>6. QED
  BY <1>1, <1>3, <1>4, <1>5, FlowFrom

(* reader.Close().                                                         *)
LEMMA CloseFlow ==
  ASSUME Sound, Moved, NEW id \in StreamIds, CloseReader(id),
         UNCHANGED <<smVars, attached, carried>>,
         \A j \in StreamIds : Unstarted(j)' => Unstarted(j)
  PROVE  FlowOK'
<1> DEFINE r == readers[id]
           d == Closed(r)
<1>1. Receiving(r) /\ ReaderOK(id) /\ carried \subseteq StreamIds
      /\ readers \in [StreamIds -> Readers]
  BY UsedIds DEF Sound, IdsOK, ReadersOK
<1>2. d.nextSeq = r.nextSeq /\ d.buffer = r.buffer /\ d.ooo = r.ooo
  BY <1>1, ClosedIs
<1>3. /\ readers' = [readers EXCEPT ![id] = d] /\ known' = known \ {id}
      /\ acks' \subseteq acks \union {AckFrom(id, r, FALSE, TRUE)}
  BY DEF CloseReader, Sent
<1> HIDE DEF d
<1>4. LET ack == AckFrom(id, r, FALSE, TRUE) IN
      /\ ack \in [id : StreamIds, seq : Nat, rwnd : Nat, fin : BOOLEAN, cancel : BOOLEAN]
      /\ ack.id = id
  <2>1. Len(r.buffer) <= ReadWindow
    BY <1>1 DEF ReaderOK
  <2>2. QED
    BY <1>1, <2>1, AckFromIs
<1>5. \A j \in StreamIds : /\ readers'[j].nextSeq = readers[j].nextSeq
                           /\ readers'[j].buffer = readers[j].buffer
                           /\ readers'[j].ooo = readers[j].ooo
  BY <1>1, <1>2, <1>3
<1>6. ASSUME NEW j \in StreamIds PROVE Calm(j)
  <2>1. Acking(j)' => Acking(j)
    BY <1>3, <1>4 DEF Acking
  <2>2. QED
    BY <1>5, <2>1 DEF Calm, Sending, smVars, connVars, ackVars, outVars
<1>7. ASSUME NEW ack \in acks' PROVE AckOK(ack)'
  <2>1. CASE ack \in acks
    <3>1. ack.id \in StreamIds
      BY <2>1 DEF Sound, FlowOK, AckOK
    <3>2. QED
      BY <1>3, <1>6, <2>1, <3>1, CalmAck
  <2>2. CASE ack \notin acks
    BY <1>3, <1>4, <2>2 DEF AckOK
  <2>3. QED
    BY <2>1, <2>2
<1>8. \A j \in StreamIds : /\ Quiet(j) => Quiet(j)'
                           /\ Bounded(j) => Bounded(j)'
                           /\ Blocked(j) => Blocked(j)'
  BY <1>6, CalmKeeps
<1>9. \A j \in carried \cap known :
        j \in known' => (Bounded(j) => Bounded(j)') /\ (Blocked(j) => Blocked(j)')
  BY <1>1, <1>8
<1>10. \A j \in carried' \cap known' : j \in carried \cap known \/ Unstarted(j)
  BY <1>3
<1>11. carried' \subseteq StreamIds
  BY <1>1
<1>12. QED
  BY <1>7, <1>8, <1>9, <1>10, <1>11, FlowFrom

(* What is sent next comes after everything sent, and within the window.   *)
LEMMA SentIs ==
  ASSUME Sound, Moved, SendData \/ SendTerminal
  PROVE  /\ cb' = cb /\ connected /\ UNCHANGED <<connected, streamId, rwndSize>>
         /\ HeadPos(cb) \in Nat /\ sentNotAcked \in Nat /\ rwndSize \in Nat
         /\ cb.total \in Nat /\ HeadPos(cb) <= cb.total
         /\ \E q : /\ packets' = packets \union {q} /\ q.id = streamId
                   /\ \/ /\ q.kind = "data" /\ q.seq = HeadPos(cb) + sentNotAcked
                         /\ q.len \in Nat /\ q.len > 0
                         /\ sentNotAcked + q.len <= rwndSize
                         /\ sentNotAcked' = sentNotAcked + q.len
                      \/ /\ q.kind = "error" \/ (q.kind = "eof" /\ q.seq = cb.total)
                         /\ sentNotAcked' = sentNotAcked
<1>1. /\ Inv /\ HeadPos(cb) \in Nat /\ sentNotAcked \in Nat /\ rwndSize \in Nat
      /\ cb.total \in Nat /\ HeadPos(cb) <= cb.total
      /\ terminalEvent \in {"none", "eof", "error"} /\ EndOK'
  <2>1. Inv /\ EndOK'
    BY DEF Sound, Moved
  <2>2. BufferOK(cb) /\ cb.count \in Nat /\ cb.total \in Nat
        /\ HeadPos(cb) \in Nat /\ HeadPos(cb) = cb.total - cb.count
    BY <2>1, BufferNumbers DEF Inv
  <2>3. QED
    BY <2>1, <2>2 DEF Inv, SMTypeOK
<1>2. cb' = cb /\ connected /\ UNCHANGED <<connected, streamId, rwndSize>>
  BY DEF SendData, SendTerminal, MaySendData, MaySendTerminal, MaySend, connVars
<1>3. CASE SendData
  <2> DEFINE q == NextPacket
  <2>1. /\ q.len = NextPacketSize /\ q.len \in Nat /\ q.len > 0
        /\ q.len <= EffectiveWindow(rwndSize) - sentNotAcked
    BY <1>1, <1>3, NextPacketType
  <2>2. /\ q.kind = "data" /\ q.id = streamId /\ q.seq = HeadPos(cb) + sentNotAcked
        /\ packets' = packets \union {q} /\ sentNotAcked' = sentNotAcked + NextPacketSize
    BY <1>3 DEF SendData, NextPacket
  <2>3. EffectiveWindow(rwndSize) \in Nat /\ EffectiveWindow(rwndSize) <= rwndSize
    BY <1>1, CwndSizeAssumption DEF EffectiveWindow, Least
  <2> HIDE DEF q
  <2>4. sentNotAcked + q.len <= rwndSize
    BY <1>1, <2>1, <2>3
  <2>5. QED
    BY <1>1, <1>2, <2>1, <2>2, <2>4
<1>4. CASE SendTerminal
  <2> DEFINE q == [kind |-> terminalEvent, id |-> streamId, seq |-> eofPos, len |-> 0]
  <2>1. packets' = packets \union {q} /\ sentNotAcked' = sentNotAcked /\ terminalEvent # "none"
    BY <1>4 DEF SendTerminal, MaySendTerminal, ackVars
  <2>2. q.kind \in {"eof", "error"} /\ q.id = streamId
    BY <1>1, <2>1
  <2> HIDE DEF q
  <2>3. q.seq = cb'.total
    BY <1>1, <2>1, <2>2 DEF EndOK, EndAfterAllAcked
  <2>4. QED
    BY <1>1, <1>2, <2>1, <2>2, <2>3
<1>5. QED
  BY <1>3, <1>4

(* The sender loop stays within the window.                                *)
LEMMA SendFlow ==
  ASSUME Sound, Moved, SendData \/ SendTerminal, UNCHANGED dsVars
  PROVE  FlowOK'
<1>1. /\ cb' = cb /\ connected /\ UNCHANGED <<connected, streamId, rwndSize>>
      /\ HeadPos(cb) \in Nat /\ sentNotAcked \in Nat /\ rwndSize \in Nat
      /\ cb.total \in Nat /\ HeadPos(cb) <= cb.total
  BY SentIs
<1>2. PICK q :
        /\ packets' = packets \union {q} /\ q.id = streamId
        /\ \/ /\ q.kind = "data" /\ q.seq = HeadPos(cb) + sentNotAcked
              /\ q.len \in Nat /\ q.len > 0 /\ sentNotAcked + q.len <= rwndSize
              /\ sentNotAcked' = sentNotAcked + q.len
           \/ /\ q.kind = "error" \/ (q.kind = "eof" /\ q.seq = cb.total)
              /\ sentNotAcked' = sentNotAcked
  BY SentIs
<1> USE DEF linkVars, jmVars, mainVars, dsVars
<1>3. ASSUME NEW id \in StreamIds, id # streamId PROVE Calm(id)
  BY <1>1, <1>2, <1>3 DEF Calm, Sending, Acking
<1>4. ASSUME NEW id \in StreamIds, id = streamId
      PROVE  /\ Quiet(id) => Quiet(id)'
             /\ Bounded(id) => Bounded(id)'
             /\ Blocked(id) => Blocked(id)'
  <2>1. /\ Limit(id)' = Limit(id) /\ Limit(id) \in Nat /\ Sending(id)
        /\ readers[id].nextSeq \in Nat
        /\ OnData(id)' \subseteq OnData(id) \union {q}
        /\ q.kind # "data" => OnData(id)' \subseteq OnData(id)
    BY <1>1, <1>2, <1>4, BaseIs DEF Limit, Base, Sending, OnData
  <2> HIDE DEF Limit
  <2>2. Quiet(id) => Quiet(id)'
    <3>1. Quiet(id) => q.kind # "data" /\ sentNotAcked' = sentNotAcked
      BY <1>1, <1>2, <2>1 DEF Quiet
    <3>2. QED
      BY <1>1, <2>1, <3>1 DEF Quiet, Acking, Sending
  <2>3. Bounded(id) => Bounded(id)'
    <3>1. ASSUME Bounded(id)
          PROVE  /\ q.kind = "data" => q.seq + q.len <= Limit(id)
                 /\ HeadPos(cb) + rwndSize <= Limit(id) /\ HeadPos(cb) + sentNotAcked' <= Limit(id)
      <4>1. HeadPos(cb) + rwndSize <= Limit(id) /\ HeadPos(cb) + sentNotAcked <= Limit(id)
        BY <2>1, <3>1 DEF Bounded
      <4>2. QED
        BY <1>1, <1>2, <2>1, <4>1
    <3>2. QED
      BY <1>1, <2>1, <3>1 DEF Bounded, Sending
  <2>4. Blocked(id) => Blocked(id)'
    <3>1. ASSUME Blocked(id) PROVE q.kind = "error" \/ q.seq > readers[id].nextSeq
      <4>1. HeadPos(cb) > readers[id].nextSeq
        BY <2>1, <3>1 DEF Blocked
      <4>2. QED
        BY <1>1, <1>2, <2>1, <4>1
    <3>2. QED
      BY <1>1, <1>2, <2>1, <3>1 DEF Blocked, Acking, Sending
  <2>5. QED
    BY <2>2, <2>3, <2>4
<1>5. \A id \in StreamIds : /\ Quiet(id) => Quiet(id)'
                            /\ Bounded(id) => Bounded(id)'
                            /\ Blocked(id) => Blocked(id)'
  BY <1>3, <1>4, CalmKeeps
<1>6. carried \subseteq StreamIds
  BY UsedIds DEF Sound, IdsOK
<1>7. \A ack \in acks' : AckOK(ack)'
  <2>1. \A ack \in acks : AckOK(ack)
    BY DEF Sound, FlowOK
  <2>2. QED
    BY <2>1 DEF AckOK, Limit, Base
<1>8. \A id \in StreamIds : Unstarted(id)' => Unstarted(id)
  BY DEF Unstarted
<1>9. \A id \in carried \cap known :
        id \in known' => (Bounded(id) => Bounded(id)') /\ (Blocked(id) => Blocked(id)')
  BY <1>5, <1>6
<1>10. \A id \in carried' \cap known' : id \in carried \cap known \/ Unstarted(id)
  OBVIOUS
<1>11. carried' \subseteq StreamIds
  BY <1>6
<1>12. QED
  BY <1>5, <1>7, <1>8, <1>9, <1>10, <1>11, FlowFrom

(* A packet is delivered.                                                  *)
LEMMA DataFlow ==
  ASSUME Sound, Moved, ReadersOK', NEW p, DeliverData(p)
  PROVE  FlowOK'
<1>1. PICK id \in StreamIds : id = p.id
  BY UsedIds DEF DeliverData, Sound, IdsOK
<1> DEFINE r   == readers[id]
           d   == RecvData(r, p)
           fin == d.eof \/ d.err
<1>2. /\ p \in packets /\ id \in carried \cap known /\ packets' = packets \ {p}
      /\ readers' = [readers EXCEPT ![id] = d]
      /\ acks' \subseteq acks \union {AckFrom(id, d, fin, FALSE)}
      /\ ~AcksData(r, p) => acks' = acks
      /\ known' \subseteq known /\ (AcksData(r, p) /\ fin => id \notin known')
      /\ UNCHANGED smButPackets
      /\ UNCHANGED <<linkVars, rpc, jmVars, loops, ctl>>
  BY <1>1 DEF DeliverData, Sent
<1>3. /\ Receiving(r) /\ ReaderOK(id) /\ p \in DataPackets \union TerminalPackets
      /\ carried \subseteq StreamIds /\ known \subseteq StreamIds
      /\ readers \in [StreamIds -> Readers]
  BY <1>2, UsedIds DEF Sound, Inv, SMTypeOK, IdsOK, ReadersOK
<1>4. /\ Grown(r, d, r.ooo \union {p})
      /\ ~AcksData(r, p) => d.nextSeq = r.nextSeq /\ d.buffer = r.buffer
      /\ AcksData(r, p) => (p.kind # "error" => p.seq = r.nextSeq)
      /\ AcksData(r, p) /\ p.kind # "data" => fin
  BY <1>3, RecvDataIs
<1>5. d.nextSeq <= Limit(id) /\ (Quiet(id) => d.nextSeq = r.nextSeq)
  BY <1>1, <1>2, DeliveryFits
<1>6. fin \in BOOLEAN /\ Receiving(d) /\ d \in Readers
  BY <1>4 DEF Grown, Receiving
<1> HIDE DEF d, fin
<1>7. /\ readers'[id] = d /\ \A j \in StreamIds : j # id => readers'[j] = readers[j]
  BY <1>2, <1>3
<1>8. /\ r.nextSeq \in Nat /\ d.nextSeq \in Nat /\ d.nextSeq >= r.nextSeq
      /\ d.nextSeq - Len(d.buffer) = r.nextSeq - Len(r.buffer)
      /\ Len(r.buffer) \in Nat /\ Len(d.buffer) \in Nat /\ Len(d.buffer) <= ReadWindow
      /\ d.buffer \in Seq(Nat) /\ d.ooo \subseteq r.ooo \union {p}
      /\ \A q \in d.ooo : q.kind # "error"
  BY <1>3, <1>4, <1>6, <1>7 DEF Grown, Receiving, Readers, ReadersOK, ReaderOK
<1>9. Limit(id)' = Limit(id) /\ Limit(id) \in Nat
      /\ Limit(id) = d.nextSeq - Len(d.buffer) + ReadWindow
  BY <1>7, <1>8, BaseIs DEF Limit, Base
<1> HIDE DEF Limit
<1>10. LET ack == AckFrom(id, d, fin, FALSE) IN
       /\ ack \in [id : StreamIds, seq : Nat, rwnd : Nat, fin : BOOLEAN, cancel : BOOLEAN]
       /\ ack.id = id /\ ack.seq = d.nextSeq /\ ack.fin = fin
       /\ ack.seq + ack.rwnd = Limit(id)
  <2>1. Receiving(d) /\ Len(d.buffer) <= ReadWindow /\ FALSE \in BOOLEAN
    BY <1>6, <1>8
  <2>2. LET ack == AckFrom(id, d, fin, FALSE) IN
        /\ ack \in [id : StreamIds, seq : Nat, rwnd : Nat, fin : BOOLEAN, cancel : BOOLEAN]
        /\ ack.id = id /\ ack.seq = d.nextSeq /\ ack.fin = fin
        /\ ack.seq + ack.rwnd = d.nextSeq - Len(d.buffer) + ReadWindow
    BY <1>6, <2>1, AckFromIs
  <2>3. QED
    BY <1>9, <2>2
<1>11. ASSUME NEW j \in StreamIds, j # id PROVE Calm(j)
  <2>1. Acking(j)' => Acking(j)
    BY <1>2, <1>10, <1>11 DEF Acking
  <2>2. QED
    BY <1>2, <1>7, <1>11, <2>1
    DEF Calm, Sending, smButPackets, connVars, ackVars, jmVars
<1>12. ASSUME NEW ack \in acks' PROVE AckOK(ack)'
  <2>1. CASE ack \in acks
    <3>1. ack.id \in StreamIds
      BY <2>1 DEF Sound, FlowOK, AckOK
    <3>2. CASE ack.id = id
      BY <1>2, <1>7, <1>8, <1>9, <2>1, <3>2, AcksStay
    <3>3. CASE ack.id # id
      BY <1>2, <1>11, <2>1, <3>1, <3>3, CalmAck
    <3>4. QED
      BY <3>2, <3>3
  <2>2. CASE ack \notin acks
    <3>1. ack = AckFrom(id, d, fin, FALSE) /\ AcksData(r, p)
      BY <1>2, <2>2
    <3>2. id \in known' => ~fin
      BY <1>2, <3>1
    <3>3. ack.seq <= readers'[id].nextSeq /\ ack.seq + ack.rwnd <= Limit(id)'
      <4>1. ack.seq = d.nextSeq /\ ack.seq + ack.rwnd = Limit(id)
        BY <1>10, <3>1
      <4>2. QED
        BY <1>7, <1>8, <1>9, <4>1
    <3>4. QED
      BY <1>10, <3>1, <3>2, <3>3 DEF AckOK
  <2>3. QED
    BY <2>1, <2>2
<1>13. OnData(id)' \subseteq OnData(id) /\ (p.kind = "data" => p \in OnData(id))
  BY <1>1, <1>2 DEF OnData
<1>14. UNCHANGED <<attached, connected, streamId, rwndSize, sentNotAcked, cb>>
  BY <1>2 DEF smButPackets, connVars, ackVars, jmVars
<1>15. Quiet(id) => Quiet(id)'
  <2>1. ASSUME Quiet(id) PROVE d.buffer = <<>> /\ p.kind # "data"
    <3>1. d.nextSeq = r.nextSeq /\ Len(r.buffer) = 0
      BY <1>5, <2>1 DEF Quiet
    <3>2. Len(d.buffer) = 0
      BY <1>8, <3>1
    <3>3. QED
      BY <1>8, <1>13, <2>1, <3>2 DEF Quiet
  <2>2. ASSUME Quiet(id) PROVE ~Acking(id)'
    <3>1. CASE ~AcksData(r, p)
      BY <1>2, <2>2, <3>1 DEF Quiet, Acking
    <3>2. CASE AcksData(r, p)
      BY <1>2, <1>4, <2>1, <2>2, <3>2 DEF Acking
    <3>3. QED
      BY <3>1, <3>2
  <2>3. QED
    BY <1>7, <1>8, <1>13, <1>14, <2>1, <2>2 DEF Quiet, Sending
<1>16. Bounded(id) => Bounded(id)'
  <2>1. ASSUME Bounded(id) PROVE \A q \in d.ooo : q.kind = "data" => q.seq + q.len <= Limit(id)
    BY <1>8, <1>13, <2>1 DEF Bounded
  <2>2. QED
    BY <1>7, <1>9, <1>13, <1>14, <2>1 DEF Bounded, Sending
<1>17. id \in known' => (Blocked(id) => Blocked(id)')
  <2>1. SUFFICES ASSUME id \in known', Blocked(id) PROVE Blocked(id)'
    OBVIOUS
  <2>2. p.kind = "error" \/ p.seq > r.nextSeq
    BY <1>1, <1>2, <2>1 DEF Blocked
  <2>3. ~AcksData(r, p)
    <3>1. p.seq \in Int
      BY <1>3 DEF DataPackets, TerminalPackets
    <3>2. AcksData(r, p) => p.kind = "error"
      BY <1>4, <1>8, <2>2, <3>1
    <3>3. QED
      BY <1>2, <1>4, <2>1, <3>2
  <2>4. d.nextSeq = r.nextSeq /\ d.buffer = r.buffer /\ acks' = acks
    BY <1>2, <1>4, <2>3
  <2>5. \A q \in d.ooo : q.seq > r.nextSeq
    BY <1>8, <2>1, <2>2 DEF Blocked
  <2>6. QED
    BY <1>2, <1>7, <1>14, <2>1, <2>4, <2>5 DEF Blocked, Acking, Sending
<1>18. ASSUME NEW j \in StreamIds
       PROVE  /\ Quiet(j) => Quiet(j)'
              /\ j \in known' => (Bounded(j) => Bounded(j)') /\ (Blocked(j) => Blocked(j)')
  <2>1. CASE j = id
    BY <1>15, <1>16, <1>17, <2>1
  <2>2. CASE j # id
    BY <1>11, <2>2, CalmKeeps
  <2>3. QED
    BY <2>1, <2>2
<1>19. \A j \in StreamIds : Unstarted(j)' => Unstarted(j)
  BY <1>2 DEF Unstarted, jmVars
<1>20. \A j \in carried' \cap known' : j \in carried \cap known \/ Unstarted(j)
  BY <1>2 DEF linkVars
<1>21. carried' \subseteq StreamIds
  BY <1>2, <1>3 DEF linkVars
<1>22. \A j \in carried \cap known :
         j \in known' => (Bounded(j) => Bounded(j)') /\ (Blocked(j) => Blocked(j)')
  BY <1>3, <1>18
<1>23. \A j \in StreamIds : Quiet(j) => Quiet(j)'
  BY <1>18
<1>24. QED
  BY <1>12, <1>19, <1>20, <1>21, <1>22, <1>23, FlowFrom

(* An ack is delivered.                                                    *)
LEMMA AckFlow ==
  ASSUME Sound, Moved, NEW ack, DeliverAck(ack)
  PROVE  FlowOK'
<1>1. /\ ack \in acks /\ acks' \subseteq acks /\ attached' \subseteq attached
      /\ UNCHANGED <<readers, known, carried, rpc, jm, pendingMeta, ctl>>
  BY DEF DeliverAck, linkVars, mainVars
<1>2. /\ ack.seq \in Nat /\ ack.rwnd \in Nat /\ Inv /\ EndOK /\ carried \subseteq StreamIds
      /\ ack.id \in known => ack.seq + ack.rwnd <= Limit(ack.id)
  BY <1>1, UsedIds DEF Sound, FlowOK, AckOK, IdsOK
<1>3. /\ HeadPos(cb) \in Nat /\ rwndSize \in Nat /\ sentNotAcked \in Nat
      /\ HeadPos(cb') \in Nat /\ rwndSize' \in Nat /\ sentNotAcked' \in Nat
  BY <1>2, BufferNumbers DEF Inv, SMTypeOK, Moved
<1>4. \A id \in StreamIds : Unstarted(id)' => Unstarted(id)
  BY <1>1 DEF Unstarted
<1>5. CASE UNCHANGED smVars
  <2>1. \A id \in StreamIds : Calm(id)
    BY <1>1, <1>5 DEF Calm, Acking, Sending, smVars, connVars, ackVars, outVars
  <2>2. QED
    BY <1>1, <1>2, <1>4, <2>1, CalmFlow
<1>6. CASE Effective(ack) /\ RecvAck(ack)
  <2>1. /\ connected /\ streamId = ack.id /\ packets' = packets
        /\ UNCHANGED <<connected, streamId>>
        /\ \/ cb' = cb /\ UNCHANGED <<rwndSize, sentNotAcked>>
           \/ /\ HeadPos(cb') = ack.seq /\ rwndSize' = ack.rwnd
              /\ HeadPos(cb') + sentNotAcked' = HeadPos(cb) + sentNotAcked
    BY <1>2, <1>6, AckIs DEF outVars
  <2>2. ASSUME NEW id \in StreamIds, id # ack.id PROVE Calm(id)
    BY <1>1, <2>1, <2>2 DEF Calm, Acking, Sending
  <2>3. ASSUME NEW a \in acks' PROVE AckOK(a)'
    <3>1. AckOK(a)
      BY <1>1 DEF Sound, FlowOK
    <3>2. QED
      BY <1>1, <3>1 DEF AckOK, Limit, Base
  <2>4. Quiet(ack.id) => FALSE
    BY <1>6 DEF Effective, Quiet
  <2>5. ASSUME NEW id \in carried \cap known, id = ack.id
        PROVE  (Bounded(id) => Bounded(id)') /\ ~Blocked(id)
    <3>1. ~Blocked(id)
      BY <1>1, <2>5 DEF Blocked, Acking
    <3>2. Limit(id)' = Limit(id) /\ OnData(id)' = OnData(id) /\ Limit(id) \in Nat
      BY <1>1, <1>2, <2>1, BaseIs DEF Limit, Base, OnData
    <3> HIDE DEF Limit
    <3>3. ASSUME Bounded(id)
          PROVE  HeadPos(cb') + rwndSize' <= Limit(id) /\ HeadPos(cb') + sentNotAcked' <= Limit(id)
      <4>1. HeadPos(cb) + rwndSize <= Limit(id) /\ HeadPos(cb) + sentNotAcked <= Limit(id)
        BY <2>1, <2>5, <3>3 DEF Bounded, Sending
      <4>2. ack.seq + ack.rwnd <= Limit(id)
        BY <1>2, <2>5
      <4>3. CASE cb' = cb /\ UNCHANGED <<rwndSize, sentNotAcked>>
        BY <4>1, <4>3
      <4>4. CASE /\ HeadPos(cb') = ack.seq /\ rwndSize' = ack.rwnd
                 /\ HeadPos(cb') + sentNotAcked' = HeadPos(cb) + sentNotAcked
        BY <4>1, <4>2, <4>4
      <4>5. QED
        BY <2>1, <4>3, <4>4
    <3>4. QED
      BY <1>1, <3>1, <3>2, <3>3 DEF Bounded
  <2>6. \A id \in StreamIds : Quiet(id) => Quiet(id)'
    BY <2>2, <2>4, CalmKeeps
  <2>7. \A id \in carried \cap known :
          id \in known' => (Bounded(id) => Bounded(id)') /\ (Blocked(id) => Blocked(id)')
    BY <1>2, <2>2, <2>5, CalmKeeps
  <2>8. \A id \in carried' \cap known' : id \in carried \cap known \/ Unstarted(id)
    BY <1>1
  <2>9. carried' \subseteq StreamIds
    BY <1>1, <1>2
  <2>10. QED
    BY <1>4, <2>3, <2>6, <2>7, <2>8, <2>9, FlowFrom
<1>7. QED
  BY <1>5, <1>6 DEF DeliverAck

(* Read.                                                                   *)
LEMMA ReadFlow ==
  ASSUME Sound, Moved, NEW id \in StreamIds, LoopRead(id)
  PROVE  FlowOK'
<1> DEFINE r    == readers[id]
           next == AfterRead(r, ReadSize)
           d    == IF AcksRead(r, next) THEN Acked(next) ELSE next
           chunk == ReadBytes(r, ReadSize)
<1>1. /\ ReadsBytes(r) /\ readers' = [readers EXCEPT ![id] = d]
      /\ acks' \subseteq acks \union {AckFrom(id, next, FALSE, FALSE)}
      /\ UNCHANGED <<smVars, carried, known, rpc, jm, pendingMeta, attached, ctl>>
  BY DEF LoopRead, Sent, linkVars, jmVars
<1>2. Receiving(r) /\ ReaderOK(id) /\ readers \in [StreamIds -> Readers]
      /\ carried \subseteq StreamIds /\ known \subseteq StreamIds
  BY UsedIds DEF Sound, IdsOK, ReadersOK
<1>3. /\ Receiving(next) /\ Receiving(d) /\ chunk \in Seq(Nat) /\ Len(chunk) > 0
      /\ next.nextSeq = r.nextSeq /\ Len(next.buffer) = Len(r.buffer) - Len(chunk)
      /\ d.nextSeq = r.nextSeq /\ d.buffer = next.buffer /\ d.eof = r.eof
      /\ d.err = r.err /\ d.closed = r.closed /\ d.ooo = r.ooo
  BY <1>1, <1>2, ReadIs
<1>4. ~r.closed /\ ~r.err /\ r.buffer # <<>>
  BY <1>1 DEF ReadsBytes
<1> HIDE DEF next, d, chunk
<1>5. readers'[id] = d /\ \A j \in StreamIds : j # id => readers'[j] = readers[j]
  BY <1>1, <1>2
<1>6. PICK n \in Nat, k \in Nat, c \in Nat :
        n = r.nextSeq /\ k = Len(r.buffer) /\ c = Len(chunk) /\ c > 0 /\ k - c \in Nat
        /\ k <= ReadWindow
  <2>1. Len(next.buffer) \in Nat /\ Len(r.buffer) \in Nat /\ r.nextSeq \in Nat
    BY <1>2, <1>3 DEF Receiving, Readers
  <2>2. Len(chunk) \in Nat /\ Len(r.buffer) <= ReadWindow
    BY <1>2, <1>3 DEF ReaderOK
  <2>3. QED
    BY <1>3, <2>1, <2>2
<1>7. Limit(id) = n - k + ReadWindow /\ Limit(id)' = n - (k - c) + ReadWindow
  BY <1>3, <1>5, <1>6 DEF Limit, Base
<1>8. /\ Limit(id) \in Nat /\ Limit(id)' \in Nat /\ Limit(id)' >= Limit(id)
      /\ readers'[id].nextSeq = readers[id].nextSeq /\ readers[id].nextSeq \in Nat
  <2>1. Limit(id) \in Nat
    BY BaseIs
  <2>2. n - (k - c) + ReadWindow = n - k + ReadWindow + c
    BY ReadWindowAssumption
  <2> HIDE DEF Limit
  <2>3. Limit(id)' = Limit(id) + c
    BY <1>7, <2>2
  <2>4. QED
    BY <1>3, <1>5, <1>6, <2>1, <2>3
<1> HIDE DEF Limit
<1>9. LET ack == AckFrom(id, next, FALSE, FALSE) IN
      /\ ack \in [id : StreamIds, seq : Nat, rwnd : Nat, fin : BOOLEAN, cancel : BOOLEAN]
      /\ ack.id = id /\ ack.seq = r.nextSeq /\ ack.fin = FALSE
      /\ ack.seq + ack.rwnd = Limit(id)'
  <2>1. Len(next.buffer) <= ReadWindow /\ Len(next.buffer) = k - c /\ next.nextSeq = n
    BY <1>3, <1>6, ReadWindowAssumption
  <2>2. LET ack == AckFrom(id, next, FALSE, FALSE) IN
        /\ ack \in [id : StreamIds, seq : Nat, rwnd : Nat, fin : BOOLEAN, cancel : BOOLEAN]
        /\ ack.id = id /\ ack.seq = next.nextSeq /\ ack.fin = FALSE
        /\ ack.seq + ack.rwnd = next.nextSeq - Len(next.buffer) + ReadWindow
    BY <1>3, <2>1, AckFromIs
  <2>3. QED
    BY <1>3, <1>7, <2>1, <2>2
<1>10. ASSUME NEW j \in StreamIds, j # id PROVE Calm(j)
  <2>1. Acking(j)' => Acking(j)
    BY <1>1, <1>9, <1>10 DEF Acking
  <2>2. QED
    BY <1>1, <1>5, <1>10, <2>1 DEF Calm, Sending, smVars, connVars, ackVars, outVars
<1>11. ASSUME NEW ack \in acks' PROVE AckOK(ack)'
  <2>1. CASE ack \in acks
    <3>1. ack.id \in StreamIds
      BY <2>1 DEF Sound, FlowOK, AckOK
    <3>2. CASE ack.id = id
      <4>1. readers[id].nextSeq >= readers[id].nextSeq
        BY <1>8
      <4>2. QED
        BY <1>1, <1>8, <2>1, <3>2, <4>1, AcksStay
    <3>3. CASE ack.id # id
      BY <1>1, <1>10, <2>1, <3>1, <3>3, CalmAck
    <3>4. QED
      BY <3>2, <3>3
  <2>2. CASE ack \notin acks
    <3>1. ack = AckFrom(id, next, FALSE, FALSE)
      BY <1>1, <2>2
    <3>2. ack.seq = readers'[id].nextSeq /\ ack.seq + ack.rwnd = Limit(id)'
      BY <1>3, <1>5, <1>9, <3>1
    <3>3. ack.seq <= readers'[id].nextSeq /\ ack.seq + ack.rwnd <= Limit(id)'
      BY <1>8, <3>2
    <3>4. QED
      BY <1>9, <3>1, <3>3 DEF AckOK
  <2>3. QED
    BY <2>1, <2>2
<1>12. ~Quiet(id) /\ ~Blocked(id)
  BY <1>4 DEF Quiet, Blocked
<1>13. Bounded(id) => Bounded(id)'
  <2>1. OnData(id)' = OnData(id) /\ d.ooo = r.ooo
        /\ UNCHANGED <<connected, streamId, rwndSize, sentNotAcked, cb, packets>>
    BY <1>1, <1>3 DEF OnData, smVars, connVars, ackVars, outVars
  <2>2. \A x \in Int : x <= Limit(id) => x <= Limit(id)'
    BY <1>8
  <2>3. ASSUME NEW q, q \in OnData(id) \/ (q \in r.ooo /\ q.kind = "data")
        PROVE q.seq + q.len \in Int
    <3>1. q \in DataPackets \union TerminalPackets
      BY <1>2, <2>3 DEF OnData, Receiving, Readers, Sound, Inv, SMTypeOK
    <3>2. QED
      BY <3>1 DEF DataPackets, TerminalPackets
  <2>4. HeadPos(cb) + rwndSize \in Int /\ HeadPos(cb) + sentNotAcked \in Int
    BY BufferNumbers DEF Sound, Inv, SMTypeOK
  <2>5. ASSUME Bounded(id) PROVE Bounded(id)'
    <3>1. \A p \in OnData(id) : p.seq + p.len <= Limit(id)'
      BY <2>2, <2>3, <2>5 DEF Bounded
    <3>2. \A p \in r.ooo : p.kind = "data" => p.seq + p.len <= Limit(id)'
      BY <2>2, <2>3, <2>5 DEF Bounded
    <3>3. Sending(id) => HeadPos(cb) + rwndSize <= Limit(id)'
                         /\ HeadPos(cb) + sentNotAcked <= Limit(id)'
      BY <2>2, <2>4, <2>5 DEF Bounded
    <3>4. QED
      BY <1>5, <2>1, <3>1, <3>2, <3>3 DEF Bounded, Sending
  <2>6. QED
    BY <2>5
<1>14. \A j \in StreamIds : Unstarted(j)' => Unstarted(j)
  BY <1>1 DEF Unstarted
<1>15. \A j \in StreamIds : Quiet(j) => Quiet(j)'
  BY <1>10, <1>12, CalmKeeps
<1>16. \A j \in carried \cap known :
         j \in known' => (Bounded(j) => Bounded(j)') /\ (Blocked(j) => Blocked(j)')
  BY <1>2, <1>10, <1>12, <1>13, CalmKeeps
<1>17. \A j \in carried' \cap known' : j \in carried \cap known \/ Unstarted(j)
  BY <1>1
<1>18. carried' \subseteq StreamIds
  BY <1>1, <1>2
<1>19. QED
  BY <1>11, <1>14, <1>15, <1>16, <1>17, <1>18, FlowFrom

(* A stream is opened.                                                     *)
LEMMA CreateFlow ==
  ASSUME Sound, Moved, RestartCreateReader
  PROVE  FlowOK'
<1>1. PICK new \in StreamIds : new = used + 1 /\ new \notin Used
  BY FreshId DEF RestartCreateReader
<1> DEFINE d == NewReaderWithSeq(ctl.seq)
<1>2. /\ readers' = [readers EXCEPT ![new] = d] /\ known' = known \union {new}
      /\ ctl' = [ctl EXCEPT !.pc = "preparing", !.id = new]
      /\ rpc' = (IF link THEN [op |-> "prepare", id |-> new, seq |-> ctl.seq] ELSE NoRpc)
      /\ UNCHANGED <<smVars, acks, attached, jm, pendingMeta, carried>>
  BY <1>1 DEF RestartCreateReader, linkVars, jmVars
<1>3. /\ readers \in [StreamIds -> Readers] /\ carried \subseteq Used /\ known \subseteq Used
      /\ attached \subseteq carried /\ streamId \in Used \union {NoStream}
      /\ \A p \in packets : p.id \in Used
      /\ \A ack \in acks : ack.id \in Used
      /\ Used \subseteq StreamIds /\ NoStream \notin StreamIds
      /\ ctl \in [pc : {"idle", "connected", "statted", "preparing", "starting"},
                  id : StreamIds \union {NoStream}, seq : Nat, gap : Nat]
  BY UsedIds, NoStreamAssumption DEF Sound, ReadersOK, IdsOK, RestartOK, CtlTypes
<1>4. d.buffer = <<>> /\ d.ooo = {}
  BY <1>3, NewReaderIs
<1> HIDE DEF d
<1>5. readers'[new] = d /\ \A j \in StreamIds : j # new => readers'[j] = readers[j]
  BY <1>2, <1>3
<1>6. ASSUME NEW j \in StreamIds, j # new PROVE Calm(j)
  BY <1>2, <1>5, <1>6 DEF Calm, Acking, Sending, smVars, connVars, ackVars, outVars
<1>7. Quiet(new)'
  <2>1. OnData(new)' = {} /\ ~Acking(new)' /\ new \notin attached' /\ ~Sending(new)'
    BY <1>1, <1>2, <1>3 DEF OnData, Acking, Sending, smVars, connVars, outVars
  <2>2. QED
    BY <1>4, <1>5, <2>1 DEF Quiet
<1>8. \A ack \in acks' : AckOK(ack)'
  <2>1. ASSUME NEW ack \in acks PROVE AckOK(ack)'
    <3>1. ack.id \in StreamIds /\ ack.id # new
      BY <1>1, <1>3
    <3>2. QED
      BY <1>2, <1>6, <3>1, CalmAck
  <2>2. QED
    BY <1>2, <2>1
<1>9. ASSUME NEW j \in StreamIds, Unstarted(j)', j # new PROVE Unstarted(j)
  BY <1>2, <1>3, <1>9 DEF Unstarted, NoRpc
<1>10. \A j \in StreamIds : Unstarted(j)' => Quiet(j)'
  BY <1>6, <1>7, <1>9, CalmKeeps DEF Sound, FlowOK
<1>11. ASSUME NEW j \in carried' \cap known' PROVE Quiet(j)' \/ Bounded(j)' \/ Blocked(j)'
  <2>1. j \in carried \cap known /\ j \in StreamIds /\ j # new
    BY <1>1, <1>2, <1>3
  <2>2. Quiet(j) \/ Bounded(j) \/ Blocked(j)
    BY <2>1 DEF Sound, FlowOK
  <2>3. QED
    BY <1>6, <2>1, <2>2, CalmKeeps
<1>12. QED
  BY <1>8, <1>10, <1>11 DEF FlowOK

(* It was prepared: nothing was sent on it yet, whatever its position.     *)
LEMMA PreparedFlow ==
  ASSUME Sound, Moved, RestartPrepared, ~CloseReader(ctl.id)
  PROVE  FlowOK'
<1>1. PICK id \in StreamIds : id = ctl.id
  BY DEF RestartPrepared, Sound, RestartOK
<1> DEFINE r == readers[id]
           d == IF rpc.seq > ctl.seq THEN UpdateNextSeq(r, rpc.seq) ELSE r
<1>2. /\ ctl.pc = "preparing" /\ rpc.op = "prepared" /\ rpc.id = id
      /\ readers' = [readers EXCEPT ![id] = d] /\ rpc' = [rpc EXCEPT !.op = "start"]
      /\ ctl' = [ctl EXCEPT !.pc = "starting"]
      /\ UNCHANGED <<smVars, acks, attached, jm, pendingMeta, carried, known>>
  BY <1>1 DEF RestartPrepared, linkVars, jmVars
<1>3. /\ Receiving(r) /\ Quiet(id) /\ rpc \in Rpcs /\ readers \in [StreamIds -> Readers]
      /\ carried \subseteq StreamIds
      /\ ctl \in [pc : {"idle", "connected", "statted", "preparing", "starting"},
                  id : StreamIds \union {NoStream}, seq : Nat, gap : Nat]
  BY <1>1, <1>2, UsedIds
  DEF Sound, FlowOK, Unstarted, RpcOK, ReadersOK, IdsOK, RestartOK, CtlTypes
<1>4. d.buffer = r.buffer /\ d.ooo = r.ooo
  BY <1>3, UpdatedIs DEF Quiet, Rpcs
<1> HIDE DEF d
<1>5. readers'[id] = d /\ \A j \in StreamIds : j # id => readers'[j] = readers[j]
  BY <1>2, <1>3
<1>6. ASSUME NEW j \in StreamIds, j # id PROVE Calm(j)
  BY <1>2, <1>5, <1>6 DEF Calm, Acking, Sending, smVars, connVars, ackVars, outVars
<1>7. Quiet(id)'
  BY <1>2, <1>3, <1>4, <1>5 DEF Quiet, OnData, Acking, Sending, smVars, connVars, ackVars, outVars
<1>8. ASSUME NEW ack \in acks PROVE AckOK(ack)'
  <2>1. AckOK(ack) /\ ack.id \in StreamIds
    BY DEF Sound, FlowOK, AckOK
  <2>2. CASE ack.id = id
    <3>1. id \notin known'
      BY <1>2, <1>3, <2>2 DEF Quiet, Acking
    <3>2. QED
      BY <2>1, <2>2, <3>1 DEF AckOK
  <2>3. CASE ack.id # id
    BY <1>2, <1>6, <2>1, <2>3, CalmAck
  <2>4. QED
    BY <2>2, <2>3
<1>9. ASSUME NEW j \in StreamIds, Unstarted(j)' PROVE Unstarted(j)
  BY <1>2, <1>3, <1>9 DEF Unstarted, Rpcs
<1>10. \A j \in StreamIds : Unstarted(j)' => Quiet(j)'
  BY <1>6, <1>7, <1>9, CalmKeeps DEF Sound, FlowOK
<1>11. ASSUME NEW j \in carried' \cap known' PROVE Quiet(j)' \/ Bounded(j)' \/ Blocked(j)'
  <2>1. j \in carried \cap known /\ j \in StreamIds
    BY <1>2, <1>3
  <2>2. Quiet(j) \/ Bounded(j) \/ Blocked(j)
    BY <2>1 DEF Sound, FlowOK
  <2>3. QED
    BY <1>6, <1>7, <2>1, <2>2, CalmKeeps
<1>12. QED
  BY <1>2, <1>8, <1>10, <1>11 DEF FlowOK

(* PrepareConnect answers: the stream is connected with a closed window.   *)
LEMMA ReplyFlow ==
  ASSUME Sound, Moved, PrepareReply
  PROVE  FlowOK'
<1>1. PICK new \in StreamIds : new = jm.id /\ jm.pc = "called"
  BY DEF PrepareReply, Sound, HandlerOK
<1>2. jm' = NoHandler /\ UNCHANGED <<acks, attached, readers, known, carried, ctl>>
  BY DEF PrepareReply, linkVars, mainVars
<1>3. Quiet(new)
  BY <1>1 DEF Sound, FlowOK, Unstarted
<1>4. carried \subseteq StreamIds
  BY UsedIds DEF Sound, IdsOK
<1>5. ASSUME NEW id \in StreamIds, Unstarted(id)' PROVE Unstarted(id)
  <2>1. pendingMeta' = jm.id \/ pendingMeta' = pendingMeta
    BY DEF PrepareReply
  <2>2. rpc' = rpc \/ rpc'.id = jm.id
    BY DEF PrepareReply, Reply
  <2>3. QED
    BY <1>1, <1>2, <1>5, <2>1, <2>2 DEF Unstarted, NoHandler
<1>6. CASE UNCHANGED smVars
  <2>1. \A id \in StreamIds : Calm(id)
    BY <1>2, <1>6 DEF Calm, Acking, Sending, smVars, connVars, ackVars, outVars
  <2>2. QED
    BY <1>2, <1>4, <1>5, <2>1, CalmFlow
<1>7. CASE ConnectReturn
  <2>1. /\ connected' /\ streamId' = new /\ rwndSize' = 0 /\ sentNotAcked' = 0
        /\ packets' = packets
    <3>1. /\ call.pc = "set" /\ connected' /\ streamId' = call.id /\ rwndSize' = call.rwnd
          /\ sentNotAcked' = 0 /\ packets' = packets
      BY <1>7, ReturnIs DEF Sound
    <3>2. call.id = new /\ call.rwnd = 0
      BY <1>1, <3>1 DEF Sound, HandlerOK
    <3>3. QED
      BY <3>1, <3>2
  <2>2. ASSUME NEW id \in StreamIds, id # new PROVE Calm(id)
    BY <1>2, <2>1, <2>2 DEF Calm, Acking, Sending
  <2>3. Quiet(new)'
    BY <1>2, <1>3, <2>1 DEF Quiet, OnData, Acking, Sending
  <2>4. \A ack \in acks' : AckOK(ack)'
    BY <1>2 DEF Sound, FlowOK, AckOK, Limit, Base
  <2>5. \A id \in StreamIds : Unstarted(id)' => Quiet(id)'
    BY <1>5, <2>2, <2>3, CalmKeeps DEF Sound, FlowOK
  <2>6. ASSUME NEW id \in carried' \cap known' PROVE Quiet(id)' \/ Bounded(id)' \/ Blocked(id)'
    <3>1. id \in carried \cap known /\ id \in StreamIds
      BY <1>2, <1>4
    <3>2. Quiet(id) \/ Bounded(id) \/ Blocked(id)
      BY <3>1 DEF Sound, FlowOK
    <3>3. QED
      BY <2>2, <2>3, <3>1, <3>2, CalmKeeps
  <2>7. QED
    BY <2>4, <2>5, <2>6 DEF FlowOK
<1>8. QED
  BY <1>6, <1>7 DEF PrepareReply

(* The stream starts: from the position the reader waits for, or past it.  *)
LEMMA StartFlow ==
  ASSUME Sound, Moved, StartStream
  PROVE  FlowOK'
<1>1. PICK new \in StreamIds : new = rpc.id
  BY DEF StartStream, Sound, RpcOK
<1>2. /\ rpc.op = "start" /\ jm.pc = "idle" /\ SetRwndSize(ReadWindow)
      /\ pendingMeta' = NoStream /\ rpc' = [rpc EXCEPT !.op = "started"]
      /\ UNCHANGED <<acks, jm, readers, known, carried, ctl>>
      /\ attached' = attached \union {pendingMeta}
  BY DEF StartStream, linkVars, mainVars
<1>3. /\ connected /\ streamId = new /\ pendingMeta = new /\ rpc \in Rpcs
      /\ rpc.seq \in Nat /\ rpc.seq <= HeadPos(cb) /\ Inv /\ EndOK
      /\ HeadPos(cb) \in Nat /\ cb.total \in Nat /\ HeadPos(cb) <= cb.total
  <2>1. /\ connected /\ streamId = new /\ pendingMeta = new /\ rpc \in Rpcs
        /\ rpc.seq \in Nat /\ rpc.seq <= HeadPos(cb) /\ Inv /\ EndOK
    BY <1>1, <1>2 DEF Sound, RpcOK, Prepared, Rpcs
  <2>2. cb.count \in Nat /\ cb.total \in Nat
        /\ HeadPos(cb) \in Nat /\ HeadPos(cb) = cb.total - cb.count
    BY <2>1, BufferNumbers DEF Inv
  <2>3. QED
    BY <2>1, <2>2
<1>4. /\ HeadPos(cb') = HeadPos(cb) /\ rwndSize' = ReadWindow
      /\ UNCHANGED <<connected, streamId, sentNotAcked, packets>>
  BY <1>2, <1>3, SetRwndIs, ReadWindowAssumption DEF ackVars, outVars
<1>5. /\ Quiet(new) /\ Receiving(readers[new]) /\ ReaderOK(new)
      /\ carried \subseteq StreamIds
  BY <1>1, <1>2, UsedIds DEF Sound, FlowOK, Unstarted, IdsOK
<1>6. ASSUME NEW id \in StreamIds PROVE ~Unstarted(id)'
  <2>1. ctl.pc # "preparing"
    BY <1>2 DEF Sound, RestartOK
  <2>2. rpc'.op = "started"
    BY <1>2, <1>3 DEF Rpcs
  <2>3. QED
    BY <1>2, <2>1, <2>2, NoStreamAssumption DEF Unstarted
<1>7. ASSUME NEW id \in StreamIds, id # new PROVE Calm(id)
  BY <1>2, <1>3, <1>4, <1>7 DEF Calm, Acking, Sending
<1>8. ASSUME new \in known PROVE Bounded(new)' \/ Blocked(new)'
  <2>1. readers[new].nextSeq = rpc.seq
    BY <1>1, <1>2, <1>8 DEF Sound, RestartOK
  <2>2. /\ OnData(new) = {} /\ readers[new].buffer = <<>>
        /\ \A p \in readers[new].ooo : p.kind # "data"
        /\ ~Acking(new) /\ sentNotAcked = 0
    BY <1>3, <1>5 DEF Quiet, Sending
  <2>3. Limit(new)' = rpc.seq + ReadWindow
    BY <1>2, <1>3, <2>1, <2>2 DEF Limit, Base
  <2> HIDE DEF Limit
  <2>4. CASE HeadPos(cb) = rpc.seq
    <3>1. HeadPos(cb') + rwndSize' <= Limit(new)' /\ HeadPos(cb') + sentNotAcked' <= Limit(new)'
      BY <1>3, <1>4, <2>2, <2>3, <2>4, ReadWindowAssumption
    <3>2. OnData(new)' = {} /\ \A p \in readers'[new].ooo : p.kind # "data"
      BY <1>2, <1>4, <2>2 DEF OnData
    <3>3. QED
      BY <3>1, <3>2 DEF Bounded
  <2>5. CASE HeadPos(cb) # rpc.seq
    <3>1. HeadPos(cb) > rpc.seq /\ cb.total > rpc.seq
      BY <1>3, <2>5
    <3>2. \A p \in packets : p.id = new => p.kind = "error" \/ p.seq > rpc.seq
      BY <1>3, <2>2, <3>1 DEF OnData, EndOK, EndAfterAllAcked
    <3>3. \A p \in readers[new].ooo : p.seq > rpc.seq
      BY <1>5, <2>2, <3>1 DEF ReaderOK
    <3>4. QED
      BY <1>2, <1>4, <2>1, <2>2, <3>1, <3>2, <3>3 DEF Blocked, Acking, Sending
  <2>6. QED
    BY <2>4, <2>5
<1>9. \A ack \in acks' : AckOK(ack)'
  BY <1>2 DEF Sound, FlowOK, AckOK, Limit, Base
<1>10. ASSUME NEW id \in carried' \cap known'
       PROVE  Quiet(id)' \/ Bounded(id)' \/ Blocked(id)'
  <2>1. id \in carried \cap known /\ id \in StreamIds
    BY <1>2, <1>5
  <2>2. Quiet(id) \/ Bounded(id) \/ Blocked(id)
    BY <2>1 DEF Sound, FlowOK
  <2>3. QED
    BY <1>7, <1>8, <2>1, <2>2, CalmKeeps
<1>11. QED
  BY <1>6, <1>9, <1>10 DEF FlowOK

(* The main server starts again.                                           *)
LEMMA CrashFlow ==
  ASSUME Sound, Crash
  PROVE  FlowOK'
<1> DEFINE d == NewReaderWithSeq(0)
<1>1. /\ acks' = {} /\ packets' = {} /\ attached' = {} /\ known' = {} /\ rpc' = NoRpc
      /\ readers' = [id \in StreamIds |-> d] /\ ctl' = Idle
      /\ UNCHANGED <<jm, pendingMeta, connected, streamId, rwndSize, sentNotAcked>>
  BY DEF Crash, LoseLink, smButPackets, connVars, ackVars
<1>2. d.buffer = <<>> /\ d.ooo = {}
  BY NewReaderIs
<1> HIDE DEF d
<1>3. ASSUME NEW id \in StreamIds, Unstarted(id)' PROVE Quiet(id)'
  <2>1. Quiet(id)
    BY <1>1, <1>3 DEF Unstarted, NoRpc, Idle, Sound, FlowOK
  <2>2. readers'[id] = d
    BY <1>1
  <2>3. QED
    BY <1>1, <1>2, <2>1, <2>2 DEF Quiet, OnData, Acking, Sending
<1>4. QED
  BY <1>1, <1>3 DEF FlowOK

(* Every step keeps flow control.                                          *)
LEMMA StepKeepsFlow ==
  ASSUME Sound, Next
  PROVE  FlowOK'
<1>1. /\ Inv /\ EndOK /\ HandlerOK /\ Moved /\ carried \subseteq StreamIds
      /\ known \subseteq StreamIds
      /\ ctl \in [pc : {"idle", "connected", "statted", "preparing", "starting"},
                  id : StreamIds \union {NoStream}, seq : Nat, gap : Nat]
  BY StepMoves, UsedIds DEF Sound, IdsOK, RestartOK, CtlTypes
<1> USE DEF linkVars, jmVars, mainVars
<1>2. ASSUME UNCHANGED <<packets, acks, readers, known, carried, rpc, jm, pendingMeta, ctl>>,
             attached' \subseteq attached,
             connected' => /\ connected /\ UNCHANGED <<streamId, rwndSize, sentNotAcked>>
                           /\ HeadPos(cb') = HeadPos(cb)
      PROVE  FlowOK'
  <2>1. \A id \in StreamIds : Calm(id)
    BY <1>2 DEF Calm, Acking, Sending
  <2>2. \A id \in StreamIds : Unstarted(id)' => Unstarted(id)
    BY <1>2 DEF Unstarted
  <2>3. QED
    BY <1>1, <1>2, <2>1, <2>2, CalmFlow
<1>3. CASE ManagerStep
  <2>1. UNCHANGED dsVars
    BY <1>3 DEF ManagerStep
  <2>2. CASE ReaderStep
    <3>1. /\ connected => HeadPos(cb') = HeadPos(cb)
          /\ UNCHANGED <<connVars, ackVars, outVars>>
      BY <1>1, <2>2, ReaderStepIs
    <3>2. QED
      BY <1>2, <2>1, <3>1 DEF dsVars, connVars, ackVars, outVars
  <2>3. CASE SendData \/ SendTerminal
    BY <1>1, <2>1, <2>3, SendFlow
  <2>4. CASE SenderWait
    <3>1. UNCHANGED <<cb, connVars, ackVars, outVars>>
      BY <2>4 DEF SenderWait
    <3>2. QED
      BY <1>2, <2>1, <3>1 DEF dsVars, connVars, ackVars, outVars
  <2>5. CASE ConnectConsume \/ ConnectReread
    <3>1. ~connected /\ UNCHANGED <<connVars, ackVars, outVars>>
      BY <1>1, <2>5, CallStepIs DEF HandlerOK
    <3>2. QED
      BY <1>2, <2>1, <3>1 DEF dsVars, connVars, ackVars, outVars
  <2>6. QED
    BY <1>3, <2>2, <2>3, <2>4, <2>5 DEF ManagerStep, SenderStep
<1>4. CASE LinkStep
  <2>1. ASSUME NEW p, DeliverData(p) PROVE FlowOK'
    BY <1>1, <2>1, DataFlow, StepKeepsReaders
  <2>2. ASSUME NEW p, DeliverStray(p) PROVE FlowOK'
    <3>1. /\ p \in packets /\ p.id \in carried \ known /\ packets' = packets \ {p}
          /\ UNCHANGED <<readers, known, carried, rpc, jm, pendingMeta, ctl, attached>>
          /\ UNCHANGED smButPackets
          /\ acks' \subseteq acks \union {[id |-> p.id, seq |-> p.seq, rwnd |-> 0,
                                           fin |-> FALSE, cancel |-> TRUE]}
      BY <2>2 DEF DeliverStray
    <3>2. p.id \in StreamIds /\ p.seq \in Nat
      <4>1. p \in DataPackets \union TerminalPackets /\ cb.total \in Nat
        BY <1>1, <3>1, BufferNumbers DEF Inv, SMTypeOK
      <4>2. p.kind # "data" => p.seq = cb.total
        BY <1>1, <3>1 DEF EndOK, EndAfterAllAcked
      <4>3. QED
        BY <4>1, <4>2 DEF DataPackets, TerminalPackets
    <3>3. ASSUME NEW id \in StreamIds PROVE Calm(id)
      <4>1. Acking(id)' => Acking(id)
        BY <3>1 DEF Acking
      <4>2. QED
        BY <3>1, <4>1 DEF Calm, Sending, smButPackets, connVars, ackVars
    <3>4. ASSUME NEW ack \in acks' PROVE AckOK(ack)'
      <4>1. CASE ack \in acks
        <5>1. ack.id \in StreamIds
          BY <4>1 DEF Sound, FlowOK, AckOK
        <5>2. QED
          BY <3>1, <3>3, <4>1, <5>1, CalmAck
      <4>2. CASE ack \notin acks
        <5>1. ack = [id |-> p.id, seq |-> p.seq, rwnd |-> 0, fin |-> FALSE, cancel |-> TRUE]
          BY <3>1, <4>2
        <5>2. /\ ack \in [id : StreamIds, seq : Nat, rwnd : Nat, fin : BOOLEAN, cancel : BOOLEAN]
              /\ ack.id \notin known'
          BY <3>1, <3>2, <5>1
        <5>3. QED
          BY <5>2 DEF AckOK
      <4>3. QED
        BY <4>1, <4>2
    <3>5. \A id \in StreamIds : Unstarted(id)' => Unstarted(id)
      BY <3>1 DEF Unstarted
    <3>6. \A id \in StreamIds : /\ Quiet(id) => Quiet(id)'
                                /\ Bounded(id) => Bounded(id)'
                                /\ Blocked(id) => Blocked(id)'
      BY <3>3, CalmKeeps
    <3>7. \A id \in carried \cap known :
            id \in known' => (Bounded(id) => Bounded(id)') /\ (Blocked(id) => Blocked(id)')
      BY <1>1, <3>6
    <3>8. \A id \in carried' \cap known' : id \in carried \cap known \/ Unstarted(id)
      BY <3>1
    <3>9. carried' \subseteq StreamIds
      BY <1>1, <3>1
    <3>10. QED
      BY <3>4, <3>5, <3>6, <3>7, <3>8, <3>9, FlowFrom
  <2>3. QED
    BY <1>1, <1>4, <2>1, <2>2, AckFlow DEF LinkStep
<1>5. ASSUME NEW id \in StreamIds, LoopStep(id) PROVE FlowOK'
  <2>1. CASE LoopRead(id)
    BY <1>1, <2>1, ReadFlow
  <2>2. CASE LoopAppend(id)
    BY <1>2, <2>2 DEF LoopAppend, smVars, connVars, ackVars, outVars
  <2>3. CASE LoopSuperseded(id) \/ LoopEnd(id)
    <3>1. /\ CloseReader(id)
          /\ UNCHANGED <<smVars, attached, carried, rpc, jm, pendingMeta, ctl>>
      BY <2>3 DEF LoopSuperseded, LoopEnd
    <3>2. \A j \in StreamIds : Unstarted(j)' => Unstarted(j)
      BY <3>1 DEF Unstarted
    <3>3. QED
      BY <1>1, <3>1, <3>2, CloseFlow
  <2>4. QED
    BY <1>5, <2>1, <2>2, <2>3 DEF LoopStep
<1>6. CASE Flush
  BY <1>2, <1>6 DEF Flush, smVars, connVars, ackVars, outVars
<1>7. ASSUME UNCHANGED smButPackets, packets' \subseteq packets, acks' \subseteq acks,
             UNCHANGED <<readers, known, jm, pendingMeta>>,
             attached' \subseteq attached, carried' \subseteq carried,
             \A id \in StreamIds : Unstarted(id)' => Unstarted(id)
      PROVE  FlowOK'
  <2>1. \A id \in StreamIds : Calm(id)
    BY <1>7 DEF Calm, Acking, Sending, smButPackets, connVars, ackVars
  <2>2. QED
    BY <1>1, <1>7, <2>1, CalmFlow
<1>8. CASE RestartStat \/ Reconnect
  <2>1. ctl'.pc # "preparing" /\ rpc' = rpc /\ UNCHANGED <<jm, pendingMeta>>
    BY <1>8 DEF RestartStat, Reconnect, Idle
  <2>2. \A id \in StreamIds : Unstarted(id)' => Unstarted(id)
    BY <2>1 DEF Unstarted
  <2>3. QED
    BY <1>7, <1>8, <2>2 DEF RestartStat, Reconnect, smVars, smButPackets, outVars
<1>9. CASE RestartCreateReader
  BY <1>1, <1>9, CreateFlow
<1>10. CASE RestartPrepared
  <2>1. CASE CloseReader(ctl.id)
    <3>1. /\ ctl.id \in StreamIds /\ UNCHANGED <<smVars, attached, carried, jm, pendingMeta>>
          /\ ctl.pc = "preparing" /\ rpc.id = ctl.id /\ rpc.op \in {"finished", "prepared"}
      BY <1>10 DEF RestartPrepared, Sound, RestartOK
    <3>2. ctl'.pc # "preparing" /\ (rpc' = NoRpc \/ rpc'.id = ctl.id)
      BY <1>1, <1>10, <3>1 DEF RestartPrepared, Idle, Rpcs, Sound, RpcOK
    <3>3. \A j \in StreamIds : Unstarted(j)' => Unstarted(j)
      BY <3>1, <3>2 DEF Unstarted, NoRpc
    <3>4. QED
      BY <1>1, <2>1, <3>1, <3>3, CloseFlow
  <2>2. CASE ~CloseReader(ctl.id)
    BY <1>1, <1>10, <2>2, PreparedFlow
  <2>3. QED
    BY <2>1, <2>2
<1>11. CASE RestartStarted
  <2>1. \A id \in StreamIds : Unstarted(id)' => Unstarted(id)
    BY <1>11 DEF RestartStarted, Unstarted, Idle, NoRpc
  <2>2. QED
    BY <1>7, <1>11, <2>1 DEF RestartStarted, smVars, smButPackets, outVars
<1>12. CASE RestartFails
  <2>1. /\ ctl.id \in StreamIds /\ CloseReader(ctl.id) /\ ctl' = Idle
        /\ UNCHANGED <<smVars, attached, carried, rpc, jm, pendingMeta>>
    BY <1>12 DEF RestartFails, Sound, RestartOK
  <2>2. \A j \in StreamIds : Unstarted(j)' => Unstarted(j)
    BY <2>1 DEF Unstarted, Idle
  <2>3. QED
    BY <1>1, <2>1, <2>2, CloseFlow
<1>13. CASE PrepareConnect
  <2>1. /\ rpc.op = "prepare" /\ jm.pc = "idle" /\ carried' = carried \union {rpc.id}
        /\ rpc.id \in StreamIds /\ rpc'.id = rpc.id /\ attached' \subseteq attached
        /\ UNCHANGED <<acks, readers, known, pendingMeta, ctl>>
        /\ jm' = jm \/ jm'.id = rpc.id
    BY <1>13 DEF PrepareConnect, Sound, RpcOK, Rpcs
  <2>2. \/ UNCHANGED smVars
        \/ packets' = packets /\ ~connected'
    BY <1>1, <1>13, DisconnectIs DEF PrepareConnect, outVars
  <2>3. \A id \in StreamIds : Calm(id)
    BY <2>1, <2>2 DEF Calm, Acking, Sending, smVars, connVars, ackVars, outVars
  <2>4. \A id \in StreamIds : Unstarted(id)' => Unstarted(id)
    BY <2>1 DEF Unstarted
  <2>5. \A id \in carried' : id \in carried \/ Unstarted(id)
    BY <2>1 DEF Unstarted
  <2>6. carried' \subseteq StreamIds
    BY <1>1, <2>1
  <2>7. QED
    BY <2>1, <2>3, <2>4, <2>5, <2>6, CalmFlow
<1>14. CASE PrepareCall
  <2>1. jm.pc = "connect" /\ jm'.id = jm.id /\ jm.id \in StreamIds /\ jm.seq \in Nat
        /\ UNCHANGED <<acks, rpc, attached, pendingMeta, readers, known, carried, ctl>>
    BY <1>1, <1>14 DEF PrepareCall, HandlerOK
  <2>2. ~connected /\ UNCHANGED <<connVars, outVars>>
    BY <1>1, <1>14, <2>1, ConnectIs DEF PrepareCall
  <2>3. \A id \in StreamIds : Calm(id)
    BY <2>1, <2>2 DEF Calm, Acking, Sending, connVars, outVars
  <2>4. \A id \in StreamIds : Unstarted(id)' => Unstarted(id)
    BY <2>1 DEF Unstarted
  <2>5. QED
    BY <1>1, <2>1, <2>3, <2>4, CalmFlow
<1>15. CASE PrepareReply
  BY <1>1, <1>15, ReplyFlow
<1>16. CASE StartStream
  BY <1>1, <1>16, StartFlow
<1>17. CASE LinkDown
  <2>1. \A id \in StreamIds : Unstarted(id)' => Unstarted(id)
    BY <1>17 DEF LinkDown, LoseLink, Unstarted, NoRpc
  <2>2. QED
    BY <1>7, <1>17, <2>1 DEF LinkDown, LoseLink
<1>18. CASE Crash
  BY <1>18, CrashFlow
<1>19. QED
  BY <1>3, <1>4, <1>5, <1>6, <1>8, <1>9, <1>10, <1>11, <1>12, <1>13, <1>14, <1>15, <1>16, <1>17, <1>18
  DEF Next, RestartStep, HandlerStep

(* The file.  Bytes appended right after the others.                       *)
LEMMA AppendRises ==
  ASSUME NEW bytes \in Seq(Nat), NEW chunk \in Seq(Nat), NEW pos \in Nat,
         RisesBelow(bytes, Len(bytes), pos), EndsIn(chunk, pos + Len(chunk))
  PROVE  RisesBelow(bytes \o chunk, Len(bytes \o chunk), pos + Len(chunk))
<1> DEFINE m == Len(bytes)
           n == Len(chunk)
           all == bytes \o chunk
<1>1. m \in Nat /\ n \in Nat /\ all \in Seq(Nat) /\ Len(all) = m + n
  OBVIOUS
<1>2. \A i \in 1 .. m : all[i] = bytes[i] /\ bytes[i] \in Nat
  OBVIOUS
<1>3. ASSUME NEW i \in 1 .. m + n, i > m PROVE all[i] = pos + i - m - 1
  <2>1. i - m \in 1 .. n /\ all[i] = chunk[i - m]
    BY <1>1, <1>3
  <2>2. chunk[i - m] = pos + n - n + (i - m) - 1
    BY <1>1, <2>1 DEF EndsIn
  <2> HIDE DEF m, n
  <2>3. QED
    BY <1>1, <2>1, <2>2
<1>4. /\ \A i, j \in 1 .. m : i < j => bytes[i] < bytes[j]
      /\ \A i \in 1 .. m : bytes[i] < pos
  BY DEF RisesBelow
<1> HIDE DEF m, n, all
<1>5. ASSUME NEW i \in 1 .. m + n PROVE all[i] < pos + n
  <2>1. CASE i <= m
    <3>1. i \in 1 .. m
      BY <1>1, <2>1
    <3>2. all[i] \in Nat /\ all[i] < pos
      BY <1>2, <1>4, <3>1
    <3>3. QED
      BY <1>1, <3>2
  <2>2. CASE i > m
    BY <1>1, <1>3, <2>2
  <2>3. QED
    BY <1>1, <2>1, <2>2
<1>6. ASSUME NEW i \in 1 .. m + n, NEW j \in 1 .. m + n, i < j PROVE all[i] < all[j]
  <2>1. CASE j <= m
    <3>1. i \in 1 .. m /\ j \in 1 .. m
      BY <1>1, <1>6, <2>1
    <3>2. QED
      BY <1>2, <1>4, <1>6, <3>1
  <2>2. CASE i <= m /\ j > m
    <3>1. i \in 1 .. m /\ all[j] = pos + j - m - 1
      BY <1>1, <1>3, <2>2
    <3>2. all[i] < pos /\ all[i] \in Nat
      BY <1>2, <1>4, <3>1
    <3>3. QED
      BY <1>1, <2>2, <3>1, <3>2
  <2>3. CASE i > m
    <3>1. all[i] = pos + i - m - 1 /\ all[j] = pos + j - m - 1
      BY <1>1, <1>3, <1>6, <2>3
    <3>2. QED
      BY <1>1, <1>6, <3>1
  <2>4. QED
    BY <1>1, <2>1, <2>2, <2>3
<1>7. RisesBelow(all, m + n, pos + n)
  BY <1>5, <1>6 DEF RisesBelow
<1>8. QED
  BY <1>1, <1>7 DEF m, n, all

(* Bytes below a position are below any later one.                         *)
LEMMA RisesHigher ==
  ASSUME NEW bytes \in Seq(Nat), NEW n \in Nat, n <= Len(bytes), NEW pos \in Nat,
         NEW higher \in Nat, pos <= higher, RisesBelow(bytes, n, pos)
  PROVE  RisesBelow(bytes, n, higher)
<1>1. \A i \in 1 .. n : bytes[i] \in Nat /\ bytes[i] < pos
  BY DEF RisesBelow
<1>2. \A i \in 1 .. n : bytes[i] < higher
  BY <1>1
<1>3. QED
  BY <1>2 DEF RisesBelow

(* The same stretch of another file.                                       *)
LEMMA RisesThere ==
  ASSUME NEW bytes, NEW others, NEW n \in Nat, NEW pos, RisesBelow(bytes, n, pos),
         \A i \in 1 .. n : others[i] = bytes[i]
  PROVE  RisesBelow(others, n, pos)
  BY DEF RisesBelow

(* Every step keeps the file, the gap and the restart in agreement.        *)
LEMMA StepKeepsFile ==
  ASSUME Sound, Next
  PROVE  FileOK'
<1>1. /\ FileTypes /\ DoneIsRead /\ (~lateAppend => InFile)
      /\ file \in Seq(Nat) /\ totalGap \in Nat /\ Len(file) \in Nat
      /\ disk \in [size : Nat, gap : Nat] /\ disk.size <= Len(file)
      /\ streamDone \in BOOLEAN /\ lateAppend \in BOOLEAN
  BY DEF Sound, FileOK, FileTypes
<1>2. /\ ctl \in [pc : {"idle", "connected", "statted", "preparing", "starting"},
                  id : StreamIds \union {NoStream}, seq : Nat, gap : Nat]
      /\ current \in StreamIds \union {NoStream}
      /\ readers \in [StreamIds -> Readers] /\ loops \in [StreamIds -> LoopStates]
      /\ rpc \in Rpcs /\ known \subseteq StreamIds
  BY UsedIds DEF Sound, ReadersOK, IdsOK, RestartOK, CtlTypes, RpcOK
<1>3. \A id \in StreamIds : ReaderOK(id) /\ LoopOK(id) /\ Receiving(readers[id])
  BY UsedIds
<1>4. \A id \in StreamIds : Base(id) \in Nat
  BY BaseIs
<1>5. Recorded \in Nat /\ Recorded = Len(file) + totalGap
  BY <1>1 DEF Recorded
<1> USE DEF mainVars, jmVars, linkVars, histVars
<1>6. ASSUME UNCHANGED <<file, totalGap, disk, lateAppend, current>>,
             streamDone' \in BOOLEAN,
             ctl' = ctl \/ ctl'.pc \notin {"statted", "preparing"},
             \A id \in StreamIds : Base(id)' = Base(id),
             \A id \in StreamIds :
               id = current => Len(loops'[id].chunk) = Len(loops[id].chunk),
             \A id \in StreamIds :
               id = current /\ loops'[id].pc = "done" =>
                 \/ /\ loops[id].pc = "done" /\ readers'[id].eof = readers[id].eof
                    /\ readers'[id].buffer = readers[id].buffer
                 \/ readers'[id].eof => readers'[id].buffer = <<>>
      PROVE  FileOK'
  <2>1. FileTypes'
    BY <1>1, <1>6 DEF FileTypes
  <2>2. DoneIsRead'
    BY <1>1, <1>2, <1>6 DEF DoneIsRead
  <2>3. Recorded' = Recorded
    BY <1>6 DEF Recorded
  <2>4. ASSUME current # NoStream, InFile
        PROVE  Base(current)' = Recorded + Len(loops'[current].chunk)
    <3>1. PICK id \in StreamIds : id = current
      BY <1>2, <2>4
    <3>2. Base(id)' = Base(id) /\ Len(loops'[id].chunk) = Len(loops[id].chunk)
      BY <1>6, <3>1
    <3>3. Base(id) = Recorded + Len(loops[id].chunk)
      BY <2>4, <3>1 DEF InFile
    <3>4. Base(current)' = Base(id)'
      BY <1>6, <3>1 DEF Base
    <3> HIDE DEF Base
    <3>5. QED
      BY <3>1, <3>2, <3>3, <3>4
  <2>5. ~lateAppend' => InFile'
    <3> HIDE DEF Base
    <3>1. SUFFICES ASSUME InFile PROVE InFile'
      BY <1>1, <1>6
    <3>2. current' # NoStream => Base(current)' = Recorded' + Len(loops'[current'].chunk)
      BY <1>6, <2>3, <2>4, <3>1
    <3>3. RisesBelow(file', Len(file'), Recorded')
      BY <1>6, <2>3, <3>1 DEF InFile
    <3>4. RisesBelow(file', disk'.size, disk'.size + disk'.gap)
      BY <1>6, <3>1 DEF InFile
    <3>5. ctl'.pc \in {"statted", "preparing"} => ctl'.seq = Recorded' /\ ctl'.gap = totalGap'
      BY <1>6, <2>3, <3>1 DEF InFile
    <3>6. QED
      BY <3>2, <3>3, <3>4, <3>5 DEF InFile
  <2>6. QED
    BY <2>1, <2>2, <2>5 DEF FileOK
<1>7. ASSUME UNCHANGED <<file, totalGap, disk, lateAppend, current, streamDone, readers, loops>>,
             ctl' = ctl \/ ctl'.pc \notin {"statted", "preparing"}
      PROVE  FileOK'
  <2>1. \A id \in StreamIds : Base(id)' = Base(id)
    BY <1>7 DEF Base
  <2>2. QED
    BY <1>1, <1>6, <1>7, <2>1
<1>8. CASE ManagerStep \/ HandlerStep \/ Reconnect \/ LinkDown
  BY <1>7, <1>8 DEF ManagerStep, dsVars, HandlerStep, PrepareConnect, PrepareCall, PrepareReply,
     StartStream, Reconnect, LinkDown, Idle
<1>9. CASE LinkStep
  <2>1. ASSUME NEW p, DeliverData(p) PROVE FileOK'
    <3>1. PICK id \in StreamIds : id = p.id
      BY <1>2, <2>1 DEF DeliverData
    <3> DEFINE d == RecvData(readers[id], p)
    <3>2. /\ p \in packets /\ id \in known /\ readers' = [readers EXCEPT ![id] = d]
          /\ UNCHANGED <<file, totalGap, disk, lateAppend, current, streamDone, loops, ctl>>
      BY <2>1, <3>1 DEF DeliverData
    <3>3. p \in DataPackets \union TerminalPackets
      BY <3>2 DEF Sound, Inv, SMTypeOK
    <3>4. d.nextSeq - Len(d.buffer) = readers[id].nextSeq - Len(readers[id].buffer)
      BY <1>3, <3>3, RecvDataIs DEF Grown
    <3> HIDE DEF d
    <3>5. /\ readers'[id] = d /\ \A j \in StreamIds : j # id => readers'[j] = readers[j]
      BY <1>2, <3>2
    <3>6. \A j \in StreamIds : Base(j)' = Base(j)
      BY <3>4, <3>5 DEF Base
    <3>7. loops[id].pc # "done"
      BY <1>3, <3>2 DEF LoopOK, Sound, ReadersOK, Finished
    <3>8. QED
      BY <1>1, <1>6, <3>2, <3>5, <3>6, <3>7
  <2>2. QED
    BY <1>7, <1>9, <2>1 DEF LinkStep, DeliverStray, DeliverAck
<1>10. ASSUME NEW id \in StreamIds, CloseReader(id)
       PROVE  /\ \A j \in StreamIds : /\ Base(j)' = Base(j) /\ readers'[j].eof = readers[j].eof
                                      /\ readers'[j].buffer = readers[j].buffer
  <2> DEFINE d == Closed(readers[id])
  <2>1. /\ d.nextSeq = readers[id].nextSeq /\ d.buffer = readers[id].buffer
        /\ d.eof = readers[id].eof
    BY <1>3, ClosedIs
  <2>2. readers' = [readers EXCEPT ![id] = d]
    BY <1>10 DEF CloseReader
  <2> HIDE DEF d
  <2>3. QED
    BY <1>2, <2>1, <2>2 DEF Base
<1>11. ASSUME NEW id \in StreamIds, LoopRead(id) PROVE FileOK'
  <2> DEFINE r     == readers[id]
             next  == AfterRead(r, ReadSize)
             d     == IF AcksRead(r, next) THEN Acked(next) ELSE next
             chunk == ReadBytes(r, ReadSize)
  <2>1. /\ ReadsBytes(r) /\ readers' = [readers EXCEPT ![id] = d] /\ current = id
        /\ loops[id].pc = "read"
        /\ loops' = [loops EXCEPT ![id] = [pc |-> "append", chunk |-> chunk]]
        /\ UNCHANGED <<file, totalGap, disk, lateAppend, current, streamDone, ctl>>
    BY <1>11 DEF LoopRead
  <2>2. /\ chunk \in Seq(Nat) /\ Len(d.buffer) = Len(r.buffer) - Len(chunk)
        /\ d.nextSeq = r.nextSeq
    BY <1>3, <2>1, ReadIs
  <2> HIDE DEF d, chunk
  <2>3. readers'[id] = d /\ loops'[id].chunk = chunk /\ loops'[id].pc = "append"
    BY <1>2, <2>1
  <2>4. PICK n \in Nat, k \in Nat, c \in Nat :
          n = r.nextSeq /\ k = Len(r.buffer) /\ c = Len(chunk)
    <3>1. r.nextSeq \in Nat
      BY <1>2 DEF Readers
    <3>2. Len(r.buffer) \in Nat
      <4>1. r.buffer \in Seq(Nat)
        BY <1>2 DEF Readers
      <4>2. QED
        BY <4>1
    <3>3. Len(chunk) \in Nat
      BY <2>2
    <3>4. QED
      BY <3>1, <3>2, <3>3
  <2>5. Base(id) = n - k /\ Base(id)' = n - (k - c)
    BY <2>2, <2>3, <2>4 DEF Base
  <2>6. Base(id)' = Base(id) + c
    BY <2>4, <2>5
  <2>7. current' = id /\ Base(current)' = Base(id)'
    BY <2>1 DEF Base
  <2> HIDE DEF Base
  <2>8. FileTypes' /\ DoneIsRead'
    BY <1>1, <2>1, <2>3 DEF FileTypes, DoneIsRead
  <2>9. ASSUME InFile PROVE InFile'
    <3>1. Recorded' = Recorded
      BY <2>1 DEF Recorded
    <3>2. Base(id) = Recorded
      <4>1. id # NoStream /\ Len(loops[id].chunk) = 0
        BY <1>3, <2>1, NoStreamAssumption DEF LoopOK
      <4>2. QED
        BY <1>5, <2>1, <2>9, <4>1 DEF InFile
    <3>3. Base(current)' = Recorded' + Len(loops'[current'].chunk)
      BY <2>3, <2>4, <2>6, <2>7, <3>1, <3>2
    <3>4. RisesBelow(file', Len(file'), Recorded')
      BY <2>1, <2>9, <3>1 DEF InFile
    <3>5. RisesBelow(file', disk'.size, disk'.size + disk'.gap)
      BY <2>1, <2>9 DEF InFile
    <3>6. ctl'.pc \in {"statted", "preparing"} => ctl'.seq = Recorded' /\ ctl'.gap = totalGap'
      BY <2>1, <2>9, <3>1 DEF InFile
    <3>7. QED
      BY <3>3, <3>4, <3>5, <3>6 DEF InFile
  <2>10. QED
    BY <1>1, <2>1, <2>8, <2>9 DEF FileOK
<1>12. ASSUME NEW id \in StreamIds, LoopSuperseded(id) PROVE FileOK'
  <2>1. /\ current # id /\ CloseReader(id)
        /\ loops' = [loops EXCEPT ![id] = [pc |-> "done", chunk |-> <<>>]]
        /\ UNCHANGED <<file, totalGap, disk, lateAppend, current, streamDone, ctl>>
    BY <1>12 DEF LoopSuperseded
  <2>2. \A j \in StreamIds : j # id => loops'[j] = loops[j]
    BY <1>2, <2>1
  <2>3. QED
    BY <1>1, <1>6, <1>10, <2>1, <2>2
<1>13. ASSUME NEW id \in StreamIds, LoopEnd(id) PROVE FileOK'
  <2>1. /\ current = id /\ CloseReader(id) /\ ReadEnds(readers[id]) /\ loops[id].pc = "read"
        /\ loops' = [loops EXCEPT ![id] = [pc |-> "done", chunk |-> <<>>]]
        /\ UNCHANGED <<file, totalGap, disk, lateAppend, current, ctl>> /\ streamDone' = TRUE
    BY <1>13 DEF LoopEnd
  <2>2. readers[id].eof => readers[id].buffer = <<>>
    BY <1>3, <2>1 DEF ReadEnds, ReaderOK, LoopOK
  <2>3. loops[id].chunk = <<>> /\ loops'[id].chunk = <<>>
    BY <1>2, <1>3, <2>1 DEF LoopOK
  <2>4. \A j \in StreamIds : /\ Base(j)' = Base(j) /\ readers'[j].eof = readers[j].eof
                             /\ readers'[j].buffer = readers[j].buffer
    BY <1>10, <2>1
  <2>5. \A j \in StreamIds : j = current => Len(loops'[j].chunk) = Len(loops[j].chunk)
    BY <2>1, <2>3
  <2>6. \A j \in StreamIds :
          j = current /\ loops'[j].pc = "done" => (readers'[j].eof => readers'[j].buffer = <<>>)
    BY <2>1, <2>2, <2>4
  <2>7. QED
    BY <1>1, <1>6, <2>1, <2>4, <2>5, <2>6
<1>14. ASSUME NEW id \in StreamIds, LoopAppend(id) PROVE FileOK'
  <2> DEFINE chunk == loops[id].chunk
  <2>1. /\ loops[id].pc = "append" /\ file' = file \o chunk
        /\ loops' = [loops EXCEPT ![id] = [pc |-> "read", chunk |-> <<>>]]
        /\ lateAppend' = (lateAppend \/ current # id \/ ctl.pc = "statted")
        /\ UNCHANGED <<totalGap, disk, current, streamDone, ctl, readers>>
    BY <1>14 DEF LoopAppend
  <2>2. chunk \in Seq(Nat) /\ EndsIn(chunk, Base(id)) /\ Len(chunk) \in Nat
    BY <1>2, <1>3 DEF LoopOK, LoopStates
  <2> HIDE DEF chunk
  <2>3. file' \in Seq(Nat) /\ Len(file') = Len(file) + Len(chunk)
        /\ \A i \in 1 .. Len(file) : file'[i] = file[i]
    BY <1>1, <2>1, <2>2
  <2>4. FileTypes'
    BY <1>1, <2>1, <2>2, <2>3 DEF FileTypes
  <2>5. /\ loops'[id].pc = "read" /\ loops'[id].chunk = <<>>
        /\ \A j \in StreamIds : j # id => loops'[j] = loops[j]
    BY <1>2, <2>1
  <2>6. DoneIsRead'
    BY <1>1, <1>2, <2>1, <2>5 DEF DoneIsRead
  <2>7. ASSUME ~lateAppend' PROVE InFile'
    <3>1. InFile /\ current = id /\ ctl.pc # "statted"
      BY <1>1, <2>1, <2>7
    <3>2. ctl.pc # "preparing"
      BY <2>1, <3>1 DEF Sound, RestartOK
    <3>3. id # NoStream
      BY NoStreamAssumption
    <3>4. Base(id) = Recorded + Len(chunk)
      BY <3>1, <3>3 DEF InFile, chunk
    <3>5. Recorded' = Recorded + Len(chunk)
      BY <1>1, <2>1, <2>2, <2>3 DEF Recorded
    <3>6. Base(current)' = Base(id)
      BY <2>1, <3>1 DEF Base
    <3> HIDE DEF Base, Recorded
    <3>7. RisesBelow(file', Len(file'), Recorded')
      <4>1. RisesBelow(file, Len(file), Recorded)
        BY <3>1 DEF InFile
      <4>2. QED
        BY <1>1, <1>5, <2>1, <2>2, <3>4, <3>5, <4>1, AppendRises
    <3>8. RisesBelow(file', disk.size, disk.size + disk.gap)
      <4>1. RisesBelow(file, disk.size, disk.size + disk.gap)
        BY <3>1 DEF InFile
      <4>2. disk.size \in Nat /\ \A i \in 1 .. disk.size : file'[i] = file[i]
        BY <1>1, <2>3
      <4>3. QED
        BY <4>1, <4>2, RisesThere
    <3>9. Base(current)' = Recorded' + Len(loops'[current'].chunk)
      <4>1. Len(loops'[current'].chunk) = 0
        BY <2>1, <2>5, <3>1
      <4>2. QED
        BY <1>5, <2>2, <3>4, <3>5, <3>6, <4>1
    <3>10. QED
      BY <2>1, <3>1, <3>2, <3>7, <3>8, <3>9 DEF InFile
  <2>8. QED
    BY <2>4, <2>6, <2>7 DEF FileOK
<1>15. CASE Flush
  <2>1. /\ disk' = [size |-> Len(file), gap |-> totalGap]
        /\ UNCHANGED <<file, totalGap, lateAppend, current, streamDone, readers, loops, ctl>>
    BY <1>15 DEF Flush
  <2>2. FileTypes' /\ DoneIsRead'
    BY <1>1, <2>1 DEF FileTypes, DoneIsRead
  <2>3. ASSUME InFile PROVE InFile'
    BY <1>1, <2>1, <2>3 DEF InFile, Recorded, Base
  <2>4. QED
    BY <1>1, <2>1, <2>2, <2>3 DEF FileOK
<1>16. CASE RestartStat
  <2>1. /\ ctl' = [pc |-> "statted", id |-> NoStream, seq |-> Len(file) + totalGap,
                   gap |-> totalGap]
        /\ UNCHANGED <<file, totalGap, lateAppend, current, streamDone, readers, loops, disk>>
    BY <1>16 DEF RestartStat
  <2>2. FileTypes' /\ DoneIsRead'
    BY <1>1, <2>1 DEF FileTypes, DoneIsRead
  <2>3. ASSUME InFile PROVE InFile'
    BY <1>1, <2>1, <2>3 DEF InFile, Recorded, Base
  <2>4. QED
    BY <1>1, <2>1, <2>2, <2>3 DEF FileOK
<1>17. CASE RestartCreateReader
  <2>1. PICK new \in StreamIds : new = used + 1 /\ loops[new].pc = "none"
    BY <1>17, FreshId DEF RestartCreateReader, Sound, IdsOK
  <2> DEFINE d == NewReaderWithSeq(ctl.seq)
  <2>2. /\ ctl.pc = "statted" /\ readers' = [readers EXCEPT ![new] = d] /\ current' = new
        /\ ctl' = [ctl EXCEPT !.pc = "preparing", !.id = new]
        /\ UNCHANGED <<file, totalGap, lateAppend, streamDone, loops, disk>>
    BY <1>17, <2>1 DEF RestartCreateReader
  <2>3. d.nextSeq = ctl.seq /\ d.buffer = <<>>
    BY <1>2, NewReaderIs
  <2> HIDE DEF d
  <2>4. readers'[new] = d /\ ctl'.pc = "preparing" /\ ctl'.seq = ctl.seq /\ ctl'.gap = ctl.gap
        /\ loops'[new].chunk = <<>>
    BY <1>2, <1>3, <2>1, <2>2 DEF LoopOK
  <2>5. FileTypes' /\ DoneIsRead'
    BY <1>1, <2>1, <2>2 DEF FileTypes, DoneIsRead
  <2>6. ASSUME InFile PROVE InFile'
    <3>1. Recorded' = Recorded
      BY <2>2 DEF Recorded
    <3>2. ctl.seq = Recorded /\ ctl.gap = totalGap
      BY <2>2, <2>6 DEF InFile
    <3>3. Base(current)' = ctl.seq
      BY <1>2, <2>2, <2>3, <2>4 DEF Base
    <3> HIDE DEF Base
    <3>4. Base(current)' = Recorded' + Len(loops'[current'].chunk)
      BY <1>5, <2>2, <2>4, <3>1, <3>2, <3>3
    <3>5. QED
      BY <2>2, <2>4, <2>6, <3>1, <3>2, <3>4 DEF InFile
  <2>7. QED
    BY <1>1, <2>2, <2>5, <2>6 DEF FileOK
<1>18. CASE RestartPrepared
  <2>1. CASE CloseReader(ctl.id) /\ totalGap' = totalGap
    <3>1. ctl.id \in StreamIds
      BY <1>18 DEF RestartPrepared, Sound, RestartOK
    <3>2. ctl' = Idle \/ ctl' = [ctl EXCEPT !.pc = "starting"]
      BY <1>18 DEF RestartPrepared
    <3>3. ctl'.pc \notin {"statted", "preparing"}
      BY <1>2, <3>2 DEF Idle
    <3>4. streamDone' = TRUE \/ streamDone' = streamDone
      BY <1>18 DEF RestartPrepared
    <3>5. UNCHANGED <<file, lateAppend, loops, disk, current>>
      BY <1>18 DEF RestartPrepared
    <3>6. QED
      BY <1>1, <1>6, <1>10, <2>1, <3>1, <3>3, <3>4, <3>5
  <2>2. CASE ~(CloseReader(ctl.id) /\ totalGap' = totalGap)
    <3>1. PICK id \in StreamIds : id = ctl.id /\ id = current /\ loops[id].pc = "none"
      BY <1>18 DEF RestartPrepared, Sound, RestartOK
    <3> DEFINE r == readers[id]
               d == IF rpc.seq > ctl.seq THEN UpdateNextSeq(r, rpc.seq) ELSE r
    <3>2. /\ ctl.pc = "preparing" /\ rpc.op = "prepared"
          /\ readers' = [readers EXCEPT ![id] = d] /\ totalGap' = GapAfter(rpc.seq)
          /\ ctl' = [ctl EXCEPT !.pc = "starting"]
          /\ UNCHANGED <<file, lateAppend, streamDone, loops, disk, current>>
      BY <1>18, <2>2, <3>1 DEF RestartPrepared
    <3>3. /\ rpc.seq >= ctl.seq /\ r.nextSeq = ctl.seq /\ rpc.seq \in Nat /\ ctl.seq \in Nat
          /\ ctl.gap \in Nat /\ Quiet(id)
      BY <1>2, <3>1, <3>2 DEF Sound, RestartOK, Rpcs, FlowOK, Unstarted
    <3>4. d.nextSeq = rpc.seq /\ d.buffer = <<>>
      <4>1. CASE rpc.seq > ctl.seq
        BY <1>3, <3>3, <4>1, UpdatedIs DEF Quiet
      <4>2. CASE ~(rpc.seq > ctl.seq)
        BY <3>3, <4>2 DEF Quiet
      <4>3. QED
        BY <4>1, <4>2
    <3>5. totalGap' \in Nat /\ totalGap' = ctl.gap + (rpc.seq - ctl.seq)
      BY <3>2, <3>3 DEF GapAfter, Greatest
    <3> HIDE DEF d
    <3>6. readers'[id] = d /\ ctl'.pc = "starting" /\ loops[id].chunk = <<>>
      BY <1>2, <1>3, <3>1, <3>2 DEF LoopOK
    <3>7. FileTypes' /\ DoneIsRead'
      BY <1>1, <3>1, <3>2, <3>5 DEF FileTypes, DoneIsRead
    <3>8. ASSUME InFile PROVE InFile'
      <4>1. ctl.seq = Recorded /\ ctl.gap = totalGap
        BY <3>2, <3>8 DEF InFile
      <4>2. Recorded' = rpc.seq
        BY <1>1, <1>5, <3>2, <3>3, <3>5, <4>1 DEF Recorded
      <4>3. Base(current)' = rpc.seq
        BY <3>1, <3>2, <3>3, <3>4, <3>6 DEF Base
      <4> HIDE DEF Base, Recorded
      <4>4. Base(current)' = Recorded' + Len(loops'[current'].chunk)
        BY <3>1, <3>2, <3>3, <3>6, <4>2, <4>3
      <4>5. RisesBelow(file', Len(file'), Recorded')
        <5>1. RisesBelow(file, Len(file), Recorded)
          BY <3>8 DEF InFile
        <5>2. Recorded <= rpc.seq /\ Len(file) <= Len(file)
          BY <1>1, <3>3, <4>1
        <5>3. QED
          BY <1>1, <1>5, <3>2, <3>3, <4>2, <5>1, <5>2, RisesHigher
      <4>6. RisesBelow(file', disk'.size, disk'.size + disk'.gap)
        BY <3>2, <3>8 DEF InFile
      <4>7. QED
        BY <3>6, <4>4, <4>5, <4>6 DEF InFile
    <3>9. QED
      BY <1>1, <3>2, <3>7, <3>8 DEF FileOK
  <2>3. QED
    BY <2>1, <2>2
<1>19. CASE RestartStarted
  <2>1. PICK id \in StreamIds : id = ctl.id /\ loops[id].pc = "none"
    BY <1>19 DEF RestartStarted, Sound, RestartOK
  <2>2. /\ loops' = [loops EXCEPT ![id] = [pc |-> "read", chunk |-> <<>>]] /\ ctl' = Idle
        /\ UNCHANGED <<file, totalGap, lateAppend, streamDone, disk, current, readers>>
    BY <1>19, <2>1 DEF RestartStarted
  <2>3. /\ loops'[id].pc = "read" /\ loops'[id].chunk = <<>> /\ loops[id].chunk = <<>>
        /\ \A j \in StreamIds : j # id => loops'[j] = loops[j]
    BY <1>2, <1>3, <2>1, <2>2 DEF LoopOK
  <2>4. \A j \in StreamIds : Base(j)' = Base(j)
    BY <2>2 DEF Base
  <2>5. ctl'.pc = "idle"
    BY <2>2 DEF Idle
  <2>6. QED
    BY <1>1, <1>6, <2>2, <2>3, <2>4, <2>5
<1>20. CASE RestartFails
  <2>1. /\ ctl.id \in StreamIds /\ CloseReader(ctl.id) /\ ctl'.pc = "idle"
        /\ UNCHANGED <<file, totalGap, lateAppend, streamDone, disk, current, loops>>
    BY <1>20 DEF RestartFails, Idle, Sound, RestartOK
  <2>2. QED
    BY <1>1, <1>6, <1>10, <2>1
<1>21. CASE Crash
  <2>1. /\ file' = SubSeq(file, 1, disk.size) /\ totalGap' = disk.gap /\ current' = NoStream
        /\ ctl' = Idle /\ UNCHANGED <<disk, streamDone, lateAppend>>
    BY <1>21 DEF Crash
  <2>2. /\ file' \in Seq(Nat) /\ Len(file') = disk.size
        /\ \A i \in 1 .. disk.size : file'[i] = file[i]
    BY <1>1, <2>1
  <2>3. FileTypes' /\ DoneIsRead'
    BY <1>1, <2>1, <2>2 DEF FileTypes, DoneIsRead
  <2>4. ASSUME InFile PROVE InFile'
    <3>1. Recorded' = disk.size + disk.gap
      BY <2>1, <2>2 DEF Recorded
    <3>2. RisesBelow(file', disk.size, disk.size + disk.gap)
      <4>1. RisesBelow(file, disk.size, disk.size + disk.gap)
        BY <2>4 DEF InFile
      <4>2. disk.size \in Nat
        BY <1>1
      <4>3. QED
        BY <2>2, <4>1, <4>2, RisesThere
    <3>3. QED
      BY <2>1, <2>2, <3>1, <3>2 DEF InFile, Idle
  <2>5. QED
    BY <1>1, <2>1, <2>3, <2>4 DEF FileOK
<1>22. QED
  BY <1>8, <1>9, <1>11, <1>12, <1>13, <1>14, <1>15, <1>16, <1>17, <1>18, <1>19, <1>20, <1>21
  DEF Next, LoopStep, RestartStep

(* The initial state, a stream that is connected and attached.             *)
LEMMA InitSound == Init => Sound
<1> SUFFICES ASSUME Init PROVE Sound
  OBVIOUS
<1> DEFINE w == EffectiveWindow(ReadWindow)
           b == WithWindow(MakeCirBuf, TRUE, w)
           r == NewReaderWithSeq(0)
<1>1. /\ 1 \in StreamIds /\ 1 # NoStream /\ MaxStreams \in Nat \ {0}
      /\ ReadWindow \in Nat /\ w \in Nat
  BY StreamIdsAssumption, NoStreamAssumption, ReadWindowAssumption, WindowType
<1>2. BufferOK(b) /\ b.sync = TRUE /\ b.count = 0 /\ HeadPos(b) = 0 /\ b.total = 0
  <2>1. /\ MakeCirBuf.count = 0 /\ MakeCirBuf.total = 0 /\ HeadPos(MakeCirBuf) = 0
    BY DEF MakeCirBuf, HeadPos
  <2>2. /\ BufferOK(b) /\ b.sync = TRUE /\ b.count = 0 /\ HeadPos(b) = 0
    BY <1>1, <2>1, MakeCirBufOK, WithWindowOK, WithWindowFields
  <2> HIDE DEF b
  <2>3. b.total \in Nat /\ HeadPos(b) = b.total - b.count
    BY <2>2, BufferNumbers
  <2>4. b.total = 0
    BY <2>2, <2>3
  <2>5. QED
    BY <2>2, <2>4
<1>3. /\ Receiving(r) /\ r.nextSeq = 0 /\ r.buffer = <<>> /\ r.ooo = {}
      /\ ~r.closed /\ ~r.err /\ ~r.eof
  BY NewReaderIs
<1>4. cb = b /\ \A id \in StreamIds : readers[id] = r
  BY DEF Init
<1> HIDE DEF b, r
<1>5. /\ readers \in [StreamIds -> Readers] /\ loops \in [StreamIds -> LoopStates]
      /\ loops[1] = [pc |-> "read", chunk |-> <<>>]
      /\ \A id \in StreamIds : id # 1 => loops[id] = [pc |-> "none", chunk |-> <<>>]
  <2>1. r \in Readers
    BY <1>3 DEF Receiving
  <2>2. readers = [id \in StreamIds |-> r]
    BY DEF Init, r
  <2>3. loops = [id \in StreamIds |-> IF id = 1 THEN [pc |-> "read", chunk |-> <<>>]
                                      ELSE [pc |-> "none", chunk |-> <<>>]]
    BY DEF Init, NoLoop
  <2>4. <<>> \in Seq(Nat)
    OBVIOUS
  <2>5. QED
    BY <1>1, <2>1, <2>2, <2>3, <2>4 DEF LoopStates
<1>6. Inv /\ EndOK
  <2>1. SMTypeOK
    <3>1. NoCall \in Calls
      BY DEF NoCall, Calls
    <3>2. /\ cb \in Buffer
      BY <1>2, <1>4 DEF BufferOK
    <3>3. startSeq \in [StreamIds -> Nat \union {-1}]
      BY DEF Init
    <3>4. /\ pending \in 0 .. MaxPacketSize /\ maxAcked \in [seq : Nat, rwnd : Nat]
      BY MaxPacketSizeAssumption DEF Init
    <3>5. QED
      BY <1>1, <3>1, <3>2, <3>3, <3>4 DEF Init, SMTypeOK, ReadPcs
  <2>2. ConnOK
    <3>1. UnackedHeld
      <4>1. sentNotAcked = 0 /\ cb.count = 0 /\ CwndSize \in Nat
        BY <1>2, <1>4, CwndSizeAssumption DEF Init
      <4>2. QED
        BY <4>1 DEF UnackedHeld
    <3>2. QED
      BY <1>1, <1>2, <1>4, <3>1 DEF Init, ConnOK, ConnectedIsSync
  <2>3. CallOK
    BY DEF Init, CallOK, NoCall
  <2>4. EndOK
    BY DEF Init, EndOK, EndAfterAllAcked
  <2>5. QED
    BY <1>2, <1>4, <2>1, <2>2, <2>3, <2>4 DEF Inv
<1>7. ReadersOK
  <2>1. Len(<<>>) = 0 /\ DOMAIN <<>> = {}
    OBVIOUS
  <2>2. \A id \in StreamIds : Base(id) = 0
    BY <1>3, <1>4, <2>1 DEF Base
  <2>3. \A pos \in Nat : EndsIn(<<>>, pos)
    BY <2>1 DEF EndsIn
  <2> HIDE DEF Base
  <2>4. \A id \in StreamIds : ReaderOK(id)
    <3>1. EndsIn(<<>>, 0) /\ Len(<<>>) <= ReadWindow /\ IsFiniteSet({})
      BY <1>1, <2>1, <2>3, FS_EmptySet
    <3>2. QED
      BY <1>3, <1>4, <3>1 DEF ReaderOK
  <2>5. \A id \in StreamIds : LoopOK(id)
    BY <1>3, <1>4, <1>5, <2>2, <2>3 DEF LoopOK
  <2>6. \A id \in known : ~Finished(readers[id])
    BY <1>1, <1>3, <1>4 DEF Init, Finished
  <2>7. QED
    BY <1>5, <2>4, <2>5, <2>6 DEF ReadersOK
<1>8. IdsOK
  <2>1. used = 1 /\ Used = {1}
    BY DEF Init, Used
  <2>2. \A id \in StreamIds \ Used : loops[id].pc = "none"
    BY <1>5, <2>1
  <2>3. QED
    BY <2>1, <2>2 DEF Init, IdsOK, NoRpc, NoHandler, NoCall, Idle
<1>9. BoundOK
  BY <1>1 DEF Init, BoundOK, Opening, Idle
<1>10. HandlerOK /\ RpcOK
  BY DEF Init, HandlerOK, CallHeads, RpcOK, Rpcs, NoHandler, NoRpc, NoCall, Prepared
<1>11. RestartOK
  BY <1>1 DEF Init, RestartOK, CtlTypes, Idle, NoRpc
<1>12. FlowOK
  <2>1. /\ \A id \in StreamIds : ~Unstarted(id)
        /\ acks = {}
    BY NoStreamAssumption DEF Init, Unstarted, NoHandler, NoRpc, Idle
  <2>2. Limit(1) = ReadWindow
    <3>1. Len(<<>>) = 0
      OBVIOUS
    <3>2. QED
      BY <1>1, <1>3, <1>4, <3>1 DEF Limit, Base
  <2>3. Bounded(1)
    <3>1. packets = {} /\ readers[1].ooo = {} /\ OnData(1) = {}
      BY <1>1, <1>3, <1>4 DEF Init, OnData
    <3>2. rwndSize = ReadWindow /\ sentNotAcked = 0 /\ HeadPos(cb) = 0
      BY <1>2, <1>4 DEF Init
    <3> HIDE DEF Limit
    <3>3. QED
      BY <1>1, <2>2, <3>1, <3>2 DEF Bounded
  <2>4. QED
    BY <2>1, <2>3 DEF FlowOK, Init
<1>13. FileOK
  <2>1. Len(<<>>) = 0 /\ <<>> \in Seq(Nat)
    OBVIOUS
  <2>2. FileTypes
    <3>1. file = <<>> /\ disk = [size |-> 0, gap |-> 0] /\ totalGap = 0
          /\ streamDone = FALSE /\ lateAppend = FALSE
      BY DEF Init
    <3>2. disk.size <= Len(file)
      BY <2>1, <3>1
    <3>3. disk \in [size : Nat, gap : Nat]
      BY <3>1
    <3>4. QED
      BY <2>1, <3>1, <3>2, <3>3 DEF FileTypes
  <2>3. DoneIsRead
    BY <1>1, <1>3, <1>4 DEF Init, DoneIsRead
  <2>4. InFile
    <3>1. Recorded = 0
      BY <2>1 DEF Init, Recorded
    <3>2. RisesBelow(file, 0, 0)
      BY DEF RisesBelow
    <3>3. Base(current) = 0 /\ Len(loops[current].chunk) = 0
      BY <1>1, <1>3, <1>4, <1>5, <2>1 DEF Init, Base
    <3>4. Len(file) = 0 /\ disk.size = 0 /\ disk.gap = 0 /\ ctl.pc = "idle"
      BY <2>1 DEF Init, Idle
    <3> HIDE DEF Base, Recorded
    <3>5. QED
      BY <3>1, <3>2, <3>3, <3>4 DEF InFile
  <2>5. QED
    BY <2>2, <2>3, <2>4 DEF FileOK
<1>14. QED
  BY <1>6, <1>7, <1>8, <1>9, <1>10, <1>11, <1>12, <1>13 DEF Sound

(* Nothing changes, nothing breaks.                                        *)
LEMMA StutterSound == Sound /\ UNCHANGED vars => Sound'
<1> SUFFICES ASSUME Sound, UNCHANGED vars PROVE Sound'
  OBVIOUS
<1> USE DEF vars, smVars, dsVars, linkVars, jmVars, mainVars, histVars, readVars, termVars,
            connVars, ackVars, outVars
<1>1. Inv' /\ EndOK'
  BY UnmovedIs DEF Sound, Moved
<1>2. ReadersOK'
  BY DEF Sound, ReadersOK, ReaderOK, LoopOK, Base
<1>3. IdsOK' /\ BoundOK'
  BY DEF Sound, IdsOK, Used, BoundOK, Opening
<1>4. HandlerOK' /\ RpcOK' /\ RestartOK'
  BY DEF Sound, HandlerOK, CallHeads, RpcOK, Prepared, RestartOK, CtlTypes
<1>5. FlowOK'
  <2>1. \A id \in StreamIds : Limit(id)' = Limit(id)
    BY DEF Limit, Base
  <2>2. /\ \A ack : AckOK(ack)' <=> AckOK(ack)
        /\ \A id : Unstarted(id)' <=> Unstarted(id)
        /\ \A id : Quiet(id)' <=> Quiet(id)
        /\ \A id : Bounded(id)' <=> Bounded(id)
        /\ \A id : Blocked(id)' <=> Blocked(id)
    BY DEF AckOK, Unstarted, Quiet, OnData, Acking, Sending, Bounded, Blocked, Limit, Base
  <2>3. QED
    BY <2>2 DEF Sound, FlowOK
<1>6. FileOK'
  BY DEF Sound, FileOK, FileTypes, DoneIsRead, InFile, Recorded, Base
<1>7. QED
  BY <1>1, <1>2, <1>3, <1>4, <1>5, <1>6 DEF Sound

(* The inductive invariant.                                                *)
THEOREM SoundAlways == Spec => []Sound
<1>1. Sound /\ [Next]_vars => Sound'
  <2> SUFFICES ASSUME Sound, [Next]_vars PROVE Sound'
    OBVIOUS
  <2>1. CASE Next
    <3>1. Inv' /\ EndOK'
      BY <2>1, StepMoves DEF Moved
    <3>2. ReadersOK' /\ IdsOK' /\ BoundOK'
      BY <2>1, StepKeepsReaders, StepKeepsIds, StepKeepsBound
    <3>3. HandlerOK' /\ RpcOK' /\ RestartOK'
      BY <2>1, StepKeepsHandler, StepKeepsRpc, StepKeepsRestart
    <3>4. FlowOK' /\ FileOK'
      BY <2>1, StepKeepsFlow, StepKeepsFile
    <3>5. QED
      BY <3>1, <3>2, <3>3, <3>4 DEF Sound
  <2>2. CASE UNCHANGED vars
    BY <2>2, StutterSound
  <2>3. QED
    BY <2>1, <2>2
<1>2. QED
  BY <1>1, InitSound, PTL DEF Spec

(* Every variable keeps its type, and no reader ever holds more than its   *)
(* window, whatever packets and acks are lost, late or out of order.       *)
THEOREM Types == Spec => []TypeOK
<1>1. Sound => TypeOK
  <2> SUFFICES ASSUME Sound PROVE TypeOK
    OBVIOUS
  <2>1. ReaderWithinWindow
    BY DEF Sound, ReadersOK, ReaderOK, ReaderWithinWindow
  <2>2. SMTypeOK
    BY DEF Sound, Inv
  <2>3. /\ carried \subseteq StreamIds /\ attached \subseteq carried /\ known \subseteq StreamIds
        /\ {pendingMeta, current} \subseteq StreamIds \union {NoStream}
    BY UsedIds DEF Sound, IdsOK
  <2>4. acks \subseteq [id : StreamIds, seq : Nat, rwnd : Nat, fin : BOOLEAN, cancel : BOOLEAN]
    BY DEF Sound, FlowOK, AckOK
  <2>5. link \in BOOLEAN /\ rpc \in Rpcs
        /\ jm \in [pc : {"idle", "connect", "called"}, id : StreamIds \union {NoStream}, seq : Nat]
        /\ loops \in [StreamIds -> [pc : {"none", "read", "append", "done"}, chunk : Seq(Nat)]]
        /\ ctl \in [pc : {"idle", "connected", "statted", "preparing", "starting"},
                    id : StreamIds \union {NoStream}, seq : Nat, gap : Nat]
    BY DEF Sound, BoundOK, RpcOK, HandlerOK, ReadersOK, LoopStates, RestartOK, CtlTypes
  <2>6. file \in Seq(Nat) /\ totalGap \in Nat
        /\ disk \in [size : Nat, gap : Nat] /\ streamDone \in BOOLEAN
    BY DEF Sound, FileOK, FileTypes
  <2>7. QED
    BY <2>1, <2>2, <2>3, <2>4, <2>5, <2>6 DEF TypeOK
<1>2. QED
  BY <1>1, SoundAlways, PTL

(* The file is the output: in order, every byte accounted for on the way,  *)
(* and whole at the end, across reconnects, crashes and timeouts.          *)
THEOREM OutputInFile == Spec => []FileIsOutput
<1>1. Sound => FileIsOutput
  <2> SUFFICES ASSUME Sound PROVE FileIsOutput
    OBVIOUS
  <2>1. FileInOrder
    BY DEF Sound, FileOK, InFile, RisesBelow, FileInOrder
  <2>2. ASSUME ~lateAppend, NEW id \in StreamIds, id = current
        PROVE  readers[id].nextSeq
                 = Len(file) + totalGap + Len(loops[id].chunk) + Len(readers[id].buffer)
    <3>1. Base(id) = Recorded + Len(loops[id].chunk)
      BY <2>2, NoStreamAssumption DEF Sound, FileOK, InFile
    <3>2. readers[id].nextSeq \in Nat /\ Len(readers[id].buffer) \in Nat
      BY BaseIs
    <3>3. Len(loops[id].chunk) \in Nat
      <4>1. loops[id].chunk \in Seq(Nat)
        BY DEF Sound, ReadersOK, LoopStates
      <4>2. QED
        BY <4>1
    <3>4. Len(file) \in Nat /\ totalGap \in Nat
      BY DEF Sound, FileOK, FileTypes
    <3>5. Base(id) = readers[id].nextSeq - Len(readers[id].buffer)
          /\ Recorded = Len(file) + totalGap
      BY DEF Base, Recorded
    <3> HIDE DEF Base, Recorded
    <3>6. PICK n \in Nat, k \in Nat, c \in Nat, f \in Nat, g \in Nat :
            /\ n = readers[id].nextSeq /\ k = Len(readers[id].buffer)
            /\ c = Len(loops[id].chunk) /\ f = Len(file) /\ g = totalGap
      BY <3>2, <3>3, <3>4
    <3>7. n - k = f + g + c
      BY <3>1, <3>5, <3>6
    <3>8. n = f + g + c + k
      BY <3>7
    <3>9. QED
      BY <3>6, <3>8
  <2>3. current \in StreamIds \union {NoStream}
    BY DEF Sound, RestartOK, CtlTypes
  <2>4. Accounted
    BY <2>2, <2>3 DEF Accounted
  <2>5. EndComplete
    <3>1. SUFFICES ASSUME ~lateAppend, NEW id \in StreamIds, id = current,
                          loops[id].pc = "done", readers[id].eof
                   PROVE  Len(file) + totalGap = cb.total
      BY <2>3 DEF EndComplete
    <3>2. readers[id].buffer = <<>>
      BY <3>1, NoStreamAssumption DEF Sound, FileOK, DoneIsRead
    <3>3. loops[id].chunk = <<>> /\ readers[id].nextSeq = cb.total
      BY <3>1, UsedIds DEF LoopOK, ReaderOK
    <3>4. Len(<<>>) = 0
      OBVIOUS
    <3>5. readers[id].nextSeq = Len(file) + totalGap + 0 + 0
      BY <2>2, <3>1, <3>2, <3>3, <3>4
    <3>6. Len(file) \in Nat /\ totalGap \in Nat
      BY DEF Sound, FileOK, FileTypes
    <3>7. QED
      BY <3>3, <3>5, <3>6
  <2>6. QED
    BY <2>1, <2>4, <2>5 DEF FileIsOutput
<1>2. QED
  BY <1>1, SoundAlways, PTL

-----------------------------------------------------------------------------
(* What the job manager drops.  It may overwrite old output while it is    *)
(* disconnected, drop what ClientConnected skips, and what an ack covers;  *)
(* NoneDropped says that, as long as the output fits the buffer, only the  *)
(* last two happen, and neither passes the reader that is running.         *)

(* Output that fits the buffer never leaves it under a write: in overwrite *)
(* mode the window is the whole buffer.                                    *)
AllFits == cb.total <= CirBufSize
Fits ==
  /\ ~cb.sync => cb.window = CirBufSize
  /\ cb.total <= MaxBytes
  /\ readPc \in {"write", "signal"} => cb.total + pending <= MaxBytes

(* So nothing moves the head behind the back of ClientConnected, and the   *)
(* main server is told where it stands.                                    *)
ToldExactly ==
  /\ call.pc \in {"check", "set"} => call.head = HeadPos(cb)
  /\ call.pc = "reread" => call.seq = HeadPos(cb)
  /\ Prepared => rpc.seq = HeadPos(cb)

(* The broker forgets a reader that somebody still reads, or is about to,  *)
(* only when it has heard the end.                                         *)
Opened(id) ==
  \/ loops[id].pc \in {"read", "append"}
  \/ ctl.pc \in {"preparing", "starting"} /\ ctl.id = id
HeardToTheEnd ==
  \A id \in StreamIds : Opened(id) => id \in known \/ readers[id].eof \/ readers[id].err

(* The loop of a stream starts after StartStream, and then nothing else of *)
(* that stream is to come.                                                 *)
StartedOnce ==
  /\ rpc.op = "started" => jm.pc = "idle" /\ pendingMeta = NoStream
  /\ \A id \in StreamIds : Unstarted(id) => loops[id].pc = "none"

(* The loop of a stream runs, or is about to.                              *)
Wanted(id) ==
  \/ loops[id].pc \in {"read", "append"}
  \/ ctl.pc = "starting" /\ ctl.id = id /\ rpc.op = "started" /\ rpc.id = id
HeadBehind ==
  connected /\ streamId \in carried /\ Wanted(streamId) =>
    HeadPos(cb) <= readers[streamId].nextSeq

NoneDropped ==
  Fits /\ HeardToTheEnd /\ StartedOnce /\ (AllFits => ToldExactly /\ HeadBehind)

(* A write that fits leaves the head alone.                                *)
LEMMA WriteFits ==
  ASSUME Inv, Fits, WriteAvailable
  PROVE  Fits' /\ cb'.total >= cb.total /\ (AllFits' => HeadPos(cb') = HeadPos(cb))
<1>1. /\ BufferOK(cb) /\ cb \in Buffer /\ pending \in Nat /\ cb.total + pending <= MaxBytes
      /\ cb.total <= MaxBytes /\ cb.count <= cb.total /\ MaxBytes \in Nat /\ CirBufSize \in Nat
      /\ (~cb.sync => cb.window = CirBufSize)
  BY MaxPacketSizeAssumption, MaxBytesAssumption, CirBufSizeAssumption
  DEF Inv, SMTypeOK, Fits, WriteAvailable, BufferOK
<1>2. CASE Full(cb)
  <2>1. cb' = Parked(cb) /\ UNCHANGED <<pending, readPc>>
    BY <1>2 DEF WriteAvailable
  <2>2. UNCHANGED <<cb.total, cb.count, cb.sync, cb.window>>
    BY <1>1, <2>1 DEF Parked, Buffer
  <2>3. QED
    BY <1>1, <2>1, <2>2 DEF Fits, HeadPos, Buffer
<1>3. CASE ~Full(cb)
  <2> DEFINE m == Accepts(cb, pending)
  <2>1. m \in Nat /\ m <= pending /\ (cb.sync => cb.count + m <= cb.window)
    BY <1>1, <1>3 DEF Full, Accepts, Least, Buffer
  <2>2. cb' = Written(cb, m) /\ pending' = pending - m
    BY <1>3 DEF WriteAvailable
  <2> HIDE DEF m
  <2>3. /\ cb'.total = cb.total + m /\ cb'.count = Least(cb.window, cb.count + m)
        /\ cb'.sync = cb.sync /\ cb'.window = cb.window
    BY <1>1, <2>2 DEF Written, Buffer
  <2>4. ASSUME AllFits' PROVE HeadPos(cb') = HeadPos(cb)
    <3>1. cb.count + m <= cb.window
      BY <1>1, <2>1, <2>3, <2>4 DEF Buffer, AllFits
    <3>2. cb'.count = cb.count + m
      BY <1>1, <2>1, <2>3, <3>1 DEF Least, Buffer
    <3>3. QED
      BY <1>1, <2>1, <2>3, <3>2 DEF HeadPos, Buffer
  <2>5. cb'.total <= MaxBytes /\ cb'.total + pending' <= MaxBytes /\ cb'.total >= cb.total
    BY <1>1, <2>1, <2>2, <2>3 DEF Buffer
  <2>6. QED
    BY <1>1, <2>3, <2>4, <2>5 DEF Fits
<1>4. QED
  BY <1>2, <1>3

(* The PTY read loop moves no head.                                        *)
LEMMA ReaderFits ==
  ASSUME Inv, Fits, ReaderStep
  PROVE  Fits' /\ cb'.total >= cb.total /\ (AllFits' => HeadPos(cb') = HeadPos(cb))
<1>0. cb.total \in Nat
  BY BufferNumbers DEF Inv
<1>1. CASE WriteAvailable
  BY <1>1, WriteFits
<1>2. CASE AttachReader \/ CheckClosed \/ \E event \in {"eof", "error"} : HandleEnd(event)
  BY <1>0, <1>2 DEF AttachReader, CheckClosed, HandleEnd, Fits
<1>3. CASE SignalWritten
  BY <1>0, <1>3 DEF SignalWritten, Fits
<1>4. ASSUME NEW n \in 1 .. MaxPacketSize, ReadPty(n)
      PROVE  Fits' /\ cb'.total >= cb.total /\ HeadPos(cb') = HeadPos(cb)
  BY <1>0, <1>4 DEF ReadPty, Fits
<1>5. QED
  BY <1>1, <1>2, <1>3, <1>4 DEF ReaderStep

(* What any other step does to the buffer: it writes nothing, and leaves   *)
(* it in sync mode, with the whole buffer as its window, or as it was.     *)
Unwritten ==
  /\ UNCHANGED readVars /\ cb'.total = cb.total
  /\ cb'.sync \/ cb'.window = CirBufSize \/ UNCHANGED <<cb.sync, cb.window>>

(* Then what is left to write fits as before.                              *)
LEMMA UnwrittenFits ==
  ASSUME Inv, Fits, Unwritten
  PROVE  Fits' /\ cb'.total >= cb.total
<1>1. cb.total \in Nat
  BY BufferNumbers DEF Inv
<1>2. QED
  BY <1>1 DEF Fits, Unwritten, readVars

(* An ack moves the head to its position, or not at all.                   *)
LEMMA AckUnwritten ==
  ASSUME Inv, EndOK, NEW ack, ack.seq \in Nat, ack.rwnd \in Nat, RecvAck(ack)
  PROVE  Unwritten
<1>1. UNCHANGED readVars
  BY DEF RecvAck
<1>2. CASE RecvFin(ack) \/ RecvUseless(ack)
  BY <1>1, <1>2 DEF RecvFin, RecvUseless, Unwritten
<1>3. CASE RecvProgress(ack)
  <2> DEFINE n == ack.seq - HeadPos(cb)
             b == IF n > 0 THEN Consumed(cb, n) ELSE cb
             w == EffectiveWindow(ack.rwnd)
  <2>1. cb' = WithWindow(b, TRUE, w)
    BY <1>3 DEF RecvProgress
  <2>2. BufferOK(cb) /\ HeadPos(cb) \in Nat /\ n \in Int
    BY BufferNumbers DEF Inv
  <2> HIDE DEF n, w
  <2>3. b.total = cb.total /\ DOMAIN b = DOMAIN cb /\ DOMAIN cb = {"total", "count", "window", "sync", "waiter"}
    BY <2>2 DEF Consumed, BufferOK, Buffer
  <2> HIDE DEF b
  <2>4. cb'.total = cb.total /\ cb'.sync
    BY <2>1, <2>3 DEF WithWindow
  <2>5. QED
    BY <1>1, <2>4 DEF Unwritten
<1>4. QED
  BY <1>2, <1>3 DEF RecvAck

(* Who moves the head: a client that connects ahead of it, and an ack of   *)
(* the connected stream that was started.                                  *)
HeadStays == HeadPos(cb') = HeadPos(cb)
Consumes  == ConnectConsume /\ UNCHANGED dsVars
AckedBy(ack) ==
  DeliverAck(ack) /\ Effective(ack) /\ RecvAck(ack) /\ HeadPos(cb') = ack.seq

(* As long as the output fits, nothing else does.                          *)
LEMMA WhatMovesHead ==
  ASSUME Sound, Fits, Next
  PROVE  /\ Fits' /\ cb'.total >= cb.total
         /\ AllFits' => HeadStays \/ Consumes \/ \E ack \in acks : AckedBy(ack)
<1>1. Inv /\ EndOK /\ BufferOK(cb) /\ cb \in Buffer /\ cb.total \in Nat /\ cb.count \in Nat
      /\ cb.count <= CirBufSize /\ CirBufSize \in Nat
  BY CirBufSizeAssumption, BufferNumbers DEF Sound, Inv, BufferOK
<1> DEFINE Grows == Fits' /\ cb'.total >= cb.total
<1>2. ASSUME UNCHANGED <<cb, readVars>> PROVE Grows /\ HeadStays
  BY <1>1, <1>2 DEF Fits, HeadStays, readVars
<1>3. CASE ManagerStep
  <2>1. CASE ReaderStep
    BY <1>1, <2>1, ReaderFits DEF HeadStays
  <2>2. CASE SenderStep \/ ConnectReread
    BY <1>2, <2>2 DEF SenderStep, SendData, SendTerminal, SenderWait, ConnectReread
  <2>3. CASE ConnectConsume
    <3>1. UNCHANGED readVars
          /\ (cb' = cb \/ \E n : cb' = Consumed(cb, n))
      BY <2>3 DEF ConnectConsume
    <3>2. UNCHANGED <<cb.total, cb.sync, cb.window>>
      BY <1>1, <3>1 DEF Consumed, Buffer
    <3>3. QED
      BY <1>1, <1>3, <2>3, <3>1, <3>2, UnwrittenFits DEF Unwritten, Consumes, ManagerStep
  <2>4. QED
    BY <1>3, <2>1, <2>2, <2>3 DEF ManagerStep
<1>4. ASSUME NEW p, DeliverData(p) \/ DeliverStray(p) PROVE Grows /\ HeadStays
  BY <1>2, <1>4 DEF DeliverData, DeliverStray, smButPackets
<1>5. ASSUME NEW ack \in acks, DeliverAck(ack) PROVE Grows /\ (HeadStays \/ AckedBy(ack))
  <2>1. ack.seq \in Nat /\ ack.rwnd \in Nat
    BY DEF Sound, FlowOK, AckOK
  <2>2. CASE Effective(ack)
    <3>1. RecvAck(ack)
      BY <1>5, <2>2 DEF DeliverAck
    <3>2. cb' = cb \/ HeadPos(cb') = ack.seq
      BY <1>1, <2>1, <3>1, AckIs
    <3>3. Grows
      BY <1>1, <2>1, <3>1, AckUnwritten, UnwrittenFits
    <3>4. QED
      BY <1>5, <2>2, <3>1, <3>2, <3>3 DEF HeadStays, AckedBy
  <2>3. CASE ~Effective(ack)
    BY <1>2, <1>5, <2>3 DEF DeliverAck, smVars
  <2>4. QED
    BY <2>2, <2>3
<1>6. ASSUME NEW id \in StreamIds, LoopStep(id) PROVE Grows /\ HeadStays
  BY <1>2, <1>6 DEF LoopStep, LoopRead, LoopSuperseded, LoopAppend, LoopEnd, smVars
<1>7. CASE Flush \/ RestartStep
  BY <1>2, <1>7 DEF Flush, RestartStep, RestartStat, RestartCreateReader, RestartPrepared,
                    RestartStarted, RestartFails, smVars
<1>8. CASE Reconnect \/ LinkDown \/ Crash
  BY <1>2, <1>8 DEF Reconnect, LinkDown, Crash, smButPackets
<1>9. CASE PrepareConnect
  <2>1. CASE ClientDisconnected
    <3>1. UNCHANGED readVars /\ cb' = WithWindow(cb, FALSE, CirBufSize)
      BY <2>1 DEF ClientDisconnected
    <3>2. cb'.total = cb.total /\ cb'.count = cb.count /\ cb'.window = CirBufSize
      BY <1>1, <3>1 DEF WithWindow, Buffer, Least
    <3>3. QED
      BY <1>1, <3>1, <3>2, UnwrittenFits DEF Unwritten, HeadStays, HeadPos
  <2>2. CASE UNCHANGED smVars
    BY <1>2, <2>2 DEF smVars
  <2>3. QED
    BY <1>9, <2>1, <2>2 DEF PrepareConnect
<1>10. CASE PrepareCall
  BY <1>2, <1>10 DEF PrepareCall, ClientConnected
<1>11. CASE PrepareReply
  <2>1. CASE ConnectReturn
    <3>1. UNCHANGED readVars /\ cb' = WithWindow(cb, TRUE, EffectiveWindow(call.rwnd))
      BY <2>1 DEF ConnectReturn
    <3>2. cb'.total = cb.total /\ cb'.sync
      BY <1>1, <3>1 DEF WithWindow, Buffer
    <3>3. QED
      BY <1>1, <2>1, <3>1, <3>2, ReturnIs, UnwrittenFits DEF Unwritten, HeadStays
  <2>2. CASE UNCHANGED smVars
    BY <1>2, <2>2 DEF smVars
  <2>3. QED
    BY <1>11, <2>1, <2>2 DEF PrepareReply
<1>12. CASE StartStream
  <2>1. SetRwndSize(ReadWindow) /\ ReadWindow \in Nat
    BY <1>12, ReadWindowAssumption DEF StartStream
  <2>2. UNCHANGED readVars /\ cb' = WithWindow(cb, TRUE, EffectiveWindow(ReadWindow))
    BY <2>1 DEF SetRwndSize
  <2>3. cb'.total = cb.total /\ cb'.sync
    BY <1>1, <2>2 DEF WithWindow, Buffer
  <2>4. QED
    BY <1>1, <2>1, <2>2, <2>3, SetRwndIs, UnwrittenFits DEF Unwritten, HeadStays
<1>13. QED
  BY <1>3, <1>4, <1>5, <1>6, <1>7, <1>8, <1>9, <1>10, <1>11, <1>12
  DEF Next, LinkStep, HandlerStep

(* While a prepared stream waits for StartStream nobody passes its acks on. *)
LEMMA PreparedStays ==
  ASSUME Sound, Prepared
  PROVE  ~Consumes /\ \A ack \in acks : ~AckedBy(ack)
<1>1. connected /\ streamId = rpc.id /\ rpc.id \in StreamIds
  BY DEF Sound, RpcOK, Prepared
<1>2. Unstarted(rpc.id)
  BY DEF Prepared, Unstarted
<1>3. rpc.id \notin attached
  BY <1>1, <1>2 DEF Sound, FlowOK, Quiet
<1>4. ~Consumes
  BY <1>1 DEF Consumes, ConnectConsume, Sound, Inv, CallOK
<1>5. QED
  BY <1>1, <1>3, <1>4 DEF AckedBy, Effective

(* The call and the reply keep telling where the head is.                  *)
LEMMA StepTells ==
  ASSUME Sound, Fits, AllFits', ToldExactly, Next
  PROVE  ToldExactly'
<1>1. Inv /\ EndOK /\ HandlerOK /\ RpcOK /\ call \in Calls /\ rpc \in Rpcs
      /\ HeadPos(cb) \in Nat
      /\ (call.pc # "none" => ~connected)
  BY BufferNumbers DEF Sound, Inv, SMTypeOK, CallOK, RpcOK
<1>2. HeadStays \/ Consumes \/ \E ack \in acks : AckedBy(ack)
  BY WhatMovesHead
<1> DEFINE CallTold == /\ call.pc \in {"check", "set"} => call.head = HeadPos(cb)
                       /\ call.pc = "reread" => call.seq = HeadPos(cb)
           RpcTold  == Prepared => rpc.seq = HeadPos(cb)
<1>3. CallTold /\ RpcTold
  BY DEF ToldExactly
<1>4. ASSUME call' = call PROVE CallTold'
  <2>1. CASE HeadStays
    BY <1>3, <1>4, <2>1 DEF HeadStays
  <2>2. CASE Consumes
    BY <1>1, <1>4, <2>2 DEF Consumes, ConnectConsume, NoCall, Calls
  <2>3. ASSUME NEW ack \in acks, AckedBy(ack) PROVE call'.pc = "none"
    BY <1>1, <1>4, <2>3 DEF AckedBy, Effective
  <2>4. QED
    BY <1>2, <2>1, <2>2, <2>3
<1>5. ASSUME UNCHANGED rpc PROVE RpcTold'
  <2>1. CASE Prepared
    <3>1. HeadPos(cb') = HeadPos(cb)
      BY <1>2, <2>1, PreparedStays DEF HeadStays
    <3>2. QED
      BY <1>3, <1>5, <2>1, <3>1
  <2>2. CASE ~Prepared
    BY <1>5, <2>2 DEF Prepared
  <2>3. QED
    BY <2>1, <2>2
<1>6. ASSUME rpc'.op \notin {"prepared", "start"} PROVE RpcTold'
  BY <1>6 DEF Prepared
<1>7. ASSUME CallTold', RpcTold' PROVE ToldExactly'
  BY <1>7 DEF ToldExactly
<1> HIDE DEF CallTold, RpcTold
<1>8. CASE ManagerStep
  <2>1. rpc' = rpc
    BY <1>8 DEF ManagerStep, dsVars
  <2>2. CASE ReaderStep \/ SenderStep
    BY <1>1, <1>4, <1>5, <1>7, <2>1, <2>2, ReaderStepIs, SenderStepIs
  <2>3. CASE ConnectConsume
    <3>1. CASE call' = NoCall
      BY <1>5, <1>7, <2>1, <3>1 DEF CallTold, NoCall
    <3>2. CASE /\ call.seq - call.head <= cb.count
               /\ cb' = Consumed(cb, call.seq - call.head)
               /\ call' = [call EXCEPT !.pc = "reread"]
      <4> DEFINE n == call.seq - call.head
      <4>1. call.pc = "check" /\ call.head = HeadPos(cb) /\ call.seq > call.head
            /\ call.head \in Nat /\ call.seq \in Nat /\ BufferOK(cb)
        BY <1>1, <1>3, <2>3 DEF ConnectConsume, Inv, CallOK, CallTold, Calls
      <4>2. n \in Nat /\ call.seq = HeadPos(cb) + n
        BY <4>1
      <4> HIDE DEF n
      <4>3. HeadPos(cb') = HeadPos(cb) + n
        BY <3>2, <4>1, <4>2, ConsumedFields DEF n
      <4>4. call'.pc = "reread" /\ call'.seq = call.seq
        BY <1>1, <3>2 DEF Calls
      <4>5. CallTold'
        BY <4>2, <4>3, <4>4 DEF CallTold
      <4>6. QED
        BY <1>5, <1>7, <2>1, <4>5
    <3>3. QED
      BY <2>3, <3>1, <3>2 DEF ConnectConsume
  <2>4. CASE ConnectReread
    <3>1. call'.pc = "set" /\ call'.head = HeadPos(cb) /\ cb' = cb
      BY <1>1, <2>4 DEF ConnectReread, Calls
    <3>2. QED
      BY <1>5, <1>7, <2>1, <3>1 DEF CallTold
  <2>5. QED
    BY <1>8, <2>2, <2>3, <2>4 DEF ManagerStep
<1>9. CASE LinkStep \/ Flush \/ Reconnect
  <2>1. UNCHANGED <<call, rpc>>
    BY <1>9 DEF LinkStep, DeliverData, DeliverStray, DeliverAck, RecvAck, Flush, Reconnect,
                smVars, smButPackets
  <2>2. QED
    BY <1>4, <1>5, <1>7, <2>1
<1>10. ASSUME NEW id \in StreamIds, LoopStep(id) PROVE ToldExactly'
  <2>1. UNCHANGED <<call, rpc>>
    BY <1>10 DEF LoopStep, LoopRead, LoopSuperseded, LoopAppend, LoopEnd, smVars
  <2>2. QED
    BY <1>4, <1>5, <1>7, <2>1
<1>11. CASE LinkDown \/ Crash
  <2>1. call' = call /\ rpc' = NoRpc
    BY <1>11 DEF LinkDown, Crash, LoseLink, smButPackets
  <2>2. QED
    BY <1>4, <1>6, <1>7, <2>1 DEF NoRpc
<1>12. CASE RestartStep
  <2>1. UNCHANGED smVars
    BY <1>12 DEF RestartStep, RestartStat, RestartCreateReader, RestartPrepared,
                 RestartStarted, RestartFails
  <2>2. CallTold'
    BY <1>4, <2>1 DEF smVars
  <2>3. CASE RestartStat \/ RestartFails
    BY <1>5, <1>7, <2>2, <2>3 DEF RestartStat, RestartFails
  <2>4. CASE RestartCreateReader
    <3>1. rpc'.op \in {"prepare", "none"}
      BY <2>4 DEF RestartCreateReader, NoRpc
    <3>2. QED
      BY <1>6, <1>7, <2>2, <3>1
  <2>5. CASE RestartPrepared
    <3>1. CASE rpc' = NoRpc
      BY <1>6, <1>7, <2>2, <3>1 DEF NoRpc
    <3>2. CASE rpc.op = "prepared" /\ rpc' = [rpc EXCEPT !.op = "start"]
      <4>1. rpc'.seq = rpc.seq /\ rpc.seq = HeadPos(cb) /\ cb' = cb
        BY <1>1, <1>3, <2>1, <3>2 DEF RpcTold, Prepared, Rpcs, smVars
      <4>2. QED
        BY <1>7, <2>2, <4>1 DEF RpcTold
    <3>3. QED
      BY <2>5, <3>1, <3>2 DEF RestartPrepared
  <2>6. CASE RestartStarted
    BY <1>6, <1>7, <2>2, <2>6 DEF RestartStarted, NoRpc
  <2>7. QED
    BY <1>12, <2>3, <2>4, <2>5, <2>6 DEF RestartStep
<1>13. CASE PrepareConnect
  <2>1. call' = call
    BY <1>13 DEF PrepareConnect, ClientDisconnected, smVars
  <2>2. rpc'.op \in {"finished", "taken"}
    BY <1>1, <1>13 DEF PrepareConnect, Rpcs
  <2>3. QED
    BY <1>4, <1>6, <1>7, <2>1, <2>2
<1>14. CASE PrepareCall
  <2>1. rpc' = rpc /\ ClientConnected(jm.id, 0, jm.seq)
    BY <1>14 DEF PrepareCall
  <2>2. call'.pc \in {"check", "set"} /\ call'.head = HeadPos(cb) /\ cb' = cb
    BY <2>1 DEF ClientConnected
  <2>3. QED
    BY <1>5, <1>7, <2>1, <2>2 DEF CallTold
<1>15. CASE PrepareReply
  <2>1. jm.pc = "called"
    BY <1>15 DEF PrepareReply
  <2>2. CASE rpc.op = "taken" /\ ConnectReturn
             /\ rpc' = [op |-> "prepared", id |-> jm.id, seq |-> Greatest(call.head, call.seq)]
    <3>1. call.pc = "set" /\ call' = NoCall /\ HeadPos(cb') = HeadPos(cb)
      BY <1>1, <2>2, ReturnIs
    <3>2. call.head = HeadPos(cb) /\ call.seq <= HeadPos(cb) /\ call.seq \in Nat
      BY <1>1, <1>3, <3>1 DEF CallTold, HandlerOK, CallHeads, Calls
    <3>3. rpc'.seq = HeadPos(cb)
      BY <1>1, <2>2, <3>2 DEF Greatest
    <3>4. QED
      BY <1>7, <3>1, <3>3 DEF CallTold, RpcTold, NoCall
  <2>3. CASE call' = NoCall /\ (rpc' = rpc \/ rpc' = [op |-> "failed", id |-> jm.id, seq |-> 0])
    <3>1. CallTold'
      BY <2>3 DEF CallTold, NoCall
    <3>2. RpcTold'
      BY <1>5, <1>6, <2>3
    <3>3. QED
      BY <1>7, <3>1, <3>2
  <2>4. call' = NoCall
    BY <1>15 DEF PrepareReply, ConnectReturn, Unlocked, smVars
  <2>5. QED
    BY <1>15, <2>2, <2>3, <2>4 DEF PrepareReply, Reply
<1>16. CASE StartStream
  <2>1. call' = call
    BY <1>16 DEF StartStream, SetRwndSize
  <2>2. rpc'.op = "started"
    BY <1>1, <1>16 DEF StartStream, Rpcs
  <2>3. QED
    BY <1>4, <1>6, <1>7, <2>1, <2>2
<1>17. QED
  BY <1>8, <1>9, <1>10, <1>11, <1>12, <1>13, <1>14, <1>15, <1>16 DEF Next, HandlerStep

(* What becomes of the readers: a loop that is open stays with its reader, *)
(* which only goes on, and the broker forgets it only at its end.          *)
Onward(id) ==
  /\ readers'[id].nextSeq >= readers[id].nextSeq
  /\ readers[id].eof => readers'[id].eof
  /\ readers[id].err => readers'[id].err
  /\ id \in known => id \in known' \/ readers'[id].eof \/ readers'[id].err

(* A reader that is closed.                                                *)
LEMMA CloseOnward ==
  ASSUME Sound, NEW id \in StreamIds, CloseReader(id)
  PROVE  \A i \in StreamIds : Onward(i)
<1>1. /\ readers \in [StreamIds -> Readers] /\ readers' = [readers EXCEPT ![id] = Closed(@)]
      /\ known' = known \ {id}
      /\ \A i \in StreamIds : Receiving(readers[i]) /\ readers[i].nextSeq \in Nat
  BY UsedIds DEF Sound, ReadersOK, CloseReader, Readers
<1>2. /\ readers'[id].err /\ readers'[id].nextSeq = readers[id].nextSeq
      /\ readers'[id].eof = readers[id].eof
  BY <1>1, ClosedIs
<1>3. QED
  BY <1>1, <1>2 DEF Onward

(* Every step but a crash and the opening of a reader.                     *)
LEMMA StepOnward ==
  ASSUME Sound, Next, ~Crash, NEW id \in StreamIds,
         ~(RestartCreateReader /\ id \notin Used)
  PROVE  Onward(id)
<1>1. /\ readers \in [StreamIds -> Readers] /\ ctl.id \in StreamIds \union {NoStream}
      /\ \A i \in StreamIds : Receiving(readers[i]) /\ readers[i].nextSeq \in Nat
      /\ used \in Nat
  BY UsedIds DEF Sound, ReadersOK, RestartOK, CtlTypes, Readers
<1> USE DEF mainVars
<1>2. ASSUME UNCHANGED readers, known \subseteq known' PROVE Onward(id)
  BY <1>1, <1>2 DEF Onward
<1>3. CASE ManagerStep \/ Flush \/ HandlerStep \/ Reconnect \/ LinkDown \/ RestartStat
           \/ RestartStarted
  BY <1>2, <1>3 DEF ManagerStep, dsVars, Flush, HandlerStep, PrepareConnect, PrepareCall,
     PrepareReply, StartStream, Reconnect, LinkDown, RestartStat, RestartStarted
<1>4. ASSUME NEW p, DeliverData(p) PROVE Onward(id)
  <2> DEFINE r == readers[p.id]
             d == RecvData(r, p)
  <2>1. p \in DataPackets \union TerminalPackets /\ p.id \in StreamIds
    BY <1>4, UsedIds DEF DeliverData, Sound, Inv, SMTypeOK, IdsOK
  <2>2. Receiving(r) /\ readers' = [readers EXCEPT ![p.id] = d]
        /\ known' = IF AcksData(r, p) /\ (d.eof \/ d.err) THEN known \ {p.id} ELSE known
    BY <1>1, <1>4, <2>1 DEF DeliverData
  <2>3. d.nextSeq >= r.nextSeq
    BY <2>1, <2>2, RecvDataIs DEF Grown
  <2>4. (r.eof => d.eof) /\ (r.err => d.err)
    <3>1. CASE AcksData(r, p)
      BY <2>1, <2>2, <3>1, RecvDataIs DEF Finished
    <3>2. CASE ~AcksData(r, p)
      BY <2>1, <2>2, <3>2, RecvDataIs
    <3>3. QED
      BY <3>1, <3>2
  <2> HIDE DEF d
  <2>5. CASE id = p.id
    <3>1. readers'[id] = d /\ readers[id] = r
      BY <1>1, <2>2, <2>5
    <3>2. QED
      BY <2>2, <2>3, <2>4, <2>5, <3>1 DEF Onward
  <2>6. CASE id # p.id
    BY <1>1, <2>2, <2>6 DEF Onward
  <2>7. QED
    BY <2>5, <2>6
<1>5. ASSUME NEW p, DeliverStray(p) \/ DeliverAck(p) PROVE Onward(id)
  BY <1>2, <1>5 DEF DeliverStray, DeliverAck
<1>6. ASSUME NEW i \in StreamIds, LoopRead(i) PROVE Onward(id)
  <2> DEFINE r    == readers[i]
             next == AfterRead(r, ReadSize)
             d    == IF AcksRead(r, next) THEN Acked(next) ELSE next
  <2>1. ReadsBytes(r) /\ known' = known /\ readers' = [readers EXCEPT ![i] = d]
    BY <1>6 DEF LoopRead
  <2>2. d.nextSeq = r.nextSeq /\ d.eof = r.eof /\ d.err = r.err
    BY <1>1, <2>1, ReadIs
  <2> HIDE DEF d
  <2>3. CASE id = i
    <3>1. readers'[id] = d
      BY <1>1, <2>1, <2>3
    <3>2. QED
      BY <1>1, <2>1, <2>2, <2>3, <3>1 DEF Onward
  <2>4. CASE id # i
    BY <1>1, <2>1, <2>4 DEF Onward
  <2>5. QED
    BY <2>3, <2>4
<1>7. ASSUME NEW i \in StreamIds, LoopSuperseded(i) \/ LoopEnd(i) PROVE Onward(id)
  BY <1>7, CloseOnward DEF LoopSuperseded, LoopEnd
<1>8. ASSUME NEW i \in StreamIds, LoopAppend(i) PROVE Onward(id)
  BY <1>2, <1>8 DEF LoopAppend
<1>9. CASE RestartCreateReader
  <2>1. id \in Used /\ id # used + 1
    BY <1>1, <1>9 DEF Used
  <2>2. readers'[id] = readers[id] /\ known' = known \union {used + 1}
    BY <1>1, <1>9, <2>1 DEF RestartCreateReader
  <2>3. QED
    BY <1>1, <2>2 DEF Onward
<1>10. CASE RestartPrepared
  <2>1. ctl.id \in StreamIds
    BY <1>10 DEF RestartPrepared, Sound, RestartOK
  <2>2. CASE CloseReader(ctl.id)
    BY <2>1, <2>2, CloseOnward
  <2>3. CASE known' = known
             /\ readers' = [readers EXCEPT ![ctl.id] =
                  IF rpc.seq > ctl.seq THEN UpdateNextSeq(@, rpc.seq) ELSE @]
    <3>1. readers[ctl.id].nextSeq = ctl.seq /\ ctl.seq \in Nat /\ rpc.seq \in Nat
      BY <1>10 DEF RestartPrepared, Sound, RestartOK, CtlTypes, RpcOK, Rpcs
    <3>2. CASE id = ctl.id /\ rpc.seq > ctl.seq
      <4>1. readers'[id] = [readers[id] EXCEPT !.nextSeq = rpc.seq]
        BY <1>1, <2>3, <3>2 DEF UpdateNextSeq
      <4>2. /\ readers'[id].nextSeq = rpc.seq /\ readers'[id].eof = readers[id].eof
            /\ readers'[id].err = readers[id].err
        BY <1>1, <4>1 DEF Readers
      <4>3. QED
        BY <2>3, <3>1, <3>2, <4>2 DEF Onward
    <3>3. CASE ~(id = ctl.id /\ rpc.seq > ctl.seq)
      <4>1. readers'[id] = readers[id]
        BY <1>1, <2>3, <3>3
      <4>2. QED
        BY <1>1, <2>3, <4>1 DEF Onward
    <3>4. QED
      BY <3>2, <3>3
  <2>4. QED
    BY <1>10, <2>2, <2>3 DEF RestartPrepared
<1>11. CASE RestartFails
  <2>1. ctl.id \in StreamIds
    BY <1>11 DEF RestartFails, Sound, RestartOK
  <2>2. QED
    BY <1>11, <2>1, CloseOnward DEF RestartFails
<1>12. QED
  BY <1>3, <1>4, <1>5, <1>6, <1>7, <1>8, <1>9, <1>10, <1>11
  DEF Next, LinkStep, LoopStep, RestartStep

(* The loops.                                                              *)
LEMMA StepKeepsStarted ==
  ASSUME Sound, StartedOnce, Next
  PROVE  StartedOnce'
<1>1. /\ rpc \in Rpcs /\ loops \in [StreamIds -> LoopStates]
      /\ ctl \in [pc : {"idle", "connected", "statted", "preparing", "starting"},
                  id : StreamIds \union {NoStream}, seq : Nat, gap : Nat]
      /\ jm \in [pc : {"idle", "connect", "called"}, id : StreamIds \union {NoStream}, seq : Nat]
  BY DEF Sound, RpcOK, ReadersOK, RestartOK, CtlTypes, HandlerOK
<1> USE DEF mainVars, jmVars
<1> DEFINE Once == rpc.op = "started" => jm.pc = "idle" /\ pendingMeta = NoStream
           Yet  == \A id \in StreamIds : Unstarted(id) => loops[id].pc = "none"
<1>2. Once /\ Yet
  BY DEF StartedOnce
<1>3. ASSUME Once', Yet' PROVE StartedOnce'
  BY <1>3 DEF StartedOnce
<1>4. ASSUME UNCHANGED <<rpc, jm, pendingMeta>> PROVE Once'
  BY <1>2, <1>4
<1>5. ASSUME rpc'.op # "started" PROVE Once'
  BY <1>5
<1>6. ASSUME UNCHANGED loops, \A id \in StreamIds : Unstarted(id)' => Unstarted(id) PROVE Yet'
  BY <1>2, <1>6
<1> HIDE DEF Once, Yet
<1>7. ASSUME UNCHANGED <<rpc, jm, pendingMeta, ctl, loops>> PROVE StartedOnce'
  BY <1>3, <1>4, <1>6, <1>7 DEF Unstarted
<1>8. CASE ManagerStep \/ LinkStep \/ Flush
  BY <1>7, <1>8 DEF ManagerStep, dsVars, LinkStep, DeliverData, DeliverStray, DeliverAck, Flush
<1>9. ASSUME NEW i \in StreamIds, LoopStep(i) PROVE StartedOnce'
  <2>1. UNCHANGED <<rpc, jm, pendingMeta, ctl>>
    BY <1>9 DEF LoopStep, LoopRead, LoopSuperseded, LoopAppend, LoopEnd
  <2>2. loops[i].pc # "none" /\ \A id \in StreamIds : id # i => loops'[id] = loops[id]
    BY <1>1, <1>9 DEF LoopStep, LoopRead, LoopSuperseded, LoopAppend, LoopEnd
  <2>3. \A id \in StreamIds : Unstarted(id)' => Unstarted(id)
    BY <2>1 DEF Unstarted
  <2>4. Yet'
    BY <1>2, <2>2, <2>3 DEF Yet
  <2>5. QED
    BY <1>3, <1>4, <2>1, <2>4
<1>10. CASE Reconnect \/ RestartStat \/ RestartFails
  <2>1. UNCHANGED <<rpc, jm, pendingMeta, loops>> /\ ctl'.pc # "preparing"
    BY <1>1, <1>10 DEF Reconnect, RestartStat, RestartFails, Idle
  <2>2. QED
    BY <1>3, <1>4, <1>6, <2>1 DEF Unstarted
<1>11. CASE LinkDown
  <2>1. rpc' = NoRpc /\ UNCHANGED <<jm, pendingMeta, loops, ctl>>
    BY <1>11 DEF LinkDown, LoseLink
  <2>2. QED
    BY <1>3, <1>5, <1>6, <2>1 DEF Unstarted, NoRpc
<1>12. CASE Crash
  <2>1. rpc' = NoRpc /\ loops' = [id \in StreamIds |-> NoLoop]
    BY <1>12 DEF Crash, LoseLink
  <2>2. QED
    BY <1>3, <1>5, <2>1 DEF Yet, NoRpc, NoLoop
<1>13. CASE RestartCreateReader
  <2>1. used + 1 \in StreamIds \ Used
    BY <1>13, FreshId DEF RestartCreateReader
  <2>2. loops[used + 1].pc = "none"
    BY <2>1 DEF Sound, IdsOK
  <2>3. /\ UNCHANGED <<jm, pendingMeta, loops>> /\ rpc'.op \in {"prepare", "none"}
        /\ rpc'.id \in {used + 1, NoStream} /\ ctl'.id = used + 1
    BY <1>1, <1>13 DEF RestartCreateReader, NoRpc
  <2>4. \A id \in StreamIds : Unstarted(id)' => Unstarted(id) \/ id = used + 1
    BY <2>3, NoStreamAssumption DEF Unstarted
  <2>5. Yet'
    BY <1>2, <2>2, <2>3, <2>4 DEF Yet
  <2>6. QED
    BY <1>3, <1>5, <2>3, <2>5
<1>14. CASE RestartPrepared
  <2>1. UNCHANGED <<jm, pendingMeta, loops>> /\ ctl'.pc # "preparing"
        /\ (rpc' = NoRpc \/ (rpc.op = "prepared" /\ rpc'.op = "start" /\ rpc'.id = rpc.id))
    BY <1>1, <1>14 DEF RestartPrepared, Idle, Rpcs
  <2>2. \A id \in StreamIds : Unstarted(id)' => Unstarted(id)
    BY <2>1 DEF Unstarted, NoRpc
  <2>3. QED
    BY <1>3, <1>5, <1>6, <2>1, <2>2 DEF NoRpc
<1>15. CASE RestartStarted
  <2>1. /\ rpc.op = "started" /\ rpc' = NoRpc /\ ctl' = Idle /\ UNCHANGED <<jm, pendingMeta>>
    BY <1>15 DEF RestartStarted
  <2>2. \A id \in StreamIds : ~Unstarted(id)'
    BY <1>2, <2>1, NoStreamAssumption DEF Once, Unstarted, NoRpc, Idle
  <2>3. QED
    BY <1>3, <1>5, <2>1, <2>2 DEF Yet, NoRpc
<1>16. CASE PrepareConnect
  <2>1. /\ rpc.op = "prepare" /\ rpc'.op \in {"finished", "taken"} /\ rpc'.id = rpc.id
        /\ UNCHANGED <<pendingMeta, loops, ctl>>
        /\ jm' = jm \/ jm'.id = rpc.id
    BY <1>1, <1>16 DEF PrepareConnect, Rpcs
  <2>2. \A id \in StreamIds : Unstarted(id)' => Unstarted(id)
    BY <2>1 DEF Unstarted
  <2>3. QED
    BY <1>3, <1>5, <1>6, <2>1, <2>2
<1>17. CASE PrepareCall
  <2>1. /\ jm.pc = "connect" /\ jm'.id = jm.id /\ UNCHANGED <<rpc, pendingMeta, loops, ctl>>
    BY <1>1, <1>17 DEF PrepareCall
  <2>2. \A id \in StreamIds : Unstarted(id)' => Unstarted(id)
    BY <2>1 DEF Unstarted
  <2>3. QED
    BY <1>2, <1>3, <1>5, <1>6, <2>1, <2>2 DEF Once
<1>18. CASE PrepareReply
  <2>1. /\ jm.pc = "called" /\ jm' = NoHandler /\ UNCHANGED <<loops, ctl>>
        /\ pendingMeta' \in {jm.id, pendingMeta}
        /\ rpc' = rpc \/ (rpc'.op \in {"prepared", "failed"} /\ rpc'.id = jm.id)
    BY <1>18 DEF PrepareReply, Reply
  <2>2. \A id \in StreamIds : Unstarted(id)' => Unstarted(id)
    BY <2>1 DEF Unstarted, NoHandler
  <2>3. QED
    BY <1>2, <1>3, <1>5, <1>6, <2>1, <2>2 DEF Once
<1>19. CASE StartStream
  <2>1. /\ jm.pc = "idle" /\ pendingMeta' = NoStream /\ UNCHANGED <<jm, loops, ctl>>
        /\ rpc'.op = "started"
    BY <1>1, <1>19 DEF StartStream, Rpcs
  <2>2. \A id \in StreamIds : Unstarted(id)' => Unstarted(id)
    BY <2>1, NoStreamAssumption DEF Unstarted
  <2>3. Once'
    BY <2>1 DEF Once
  <2>4. QED
    BY <1>3, <1>6, <2>1, <2>2, <2>3
<1>20. QED
  BY <1>8, <1>9, <1>10, <1>11, <1>12, <1>13, <1>14, <1>15, <1>16, <1>17, <1>18, <1>19
  DEF Next, RestartStep, HandlerStep

(* Only restartStreaming opens a stream.                                   *)
LEMMA StepOpens ==
  ASSUME Sound, Next, NEW id \in StreamIds, Opened(id)', ~Opened(id)
  PROVE  RestartCreateReader /\ id = used + 1
<1>1. /\ loops \in [StreamIds -> LoopStates]
      /\ ctl \in [pc : {"idle", "connected", "statted", "preparing", "starting"},
                  id : StreamIds \union {NoStream}, seq : Nat, gap : Nat]
  BY DEF Sound, ReadersOK, RestartOK, CtlTypes
<1> USE DEF mainVars
<1>2. ~UNCHANGED <<loops, ctl>>
  BY DEF Opened
<1>3. ASSUME NEW i \in StreamIds, LoopStep(i) PROVE FALSE
  <2>1. /\ ctl' = ctl /\ loops[i].pc \in {"read", "append"}
        /\ \A j \in StreamIds : j # i => loops'[j] = loops[j]
    BY <1>1, <1>3 DEF LoopStep, LoopRead, LoopSuperseded, LoopAppend, LoopEnd
  <2>2. QED
    BY <2>1 DEF Opened
<1>4. ~Reconnect /\ ~RestartStat /\ ~RestartFails
  BY <1>1 DEF Reconnect, RestartStat, RestartFails, Idle, Opened
<1>5. ~Crash
  BY DEF Crash, Opened, NoLoop, Idle
<1>6. ~RestartPrepared
  BY <1>1 DEF RestartPrepared, Idle, Opened
<1>7. ~RestartStarted
  <2>1. ASSUME RestartStarted PROVE FALSE
    <3>1. ctl' = Idle /\ loops' = [loops EXCEPT ![ctl.id] = [pc |-> "read", chunk |-> <<>>]]
          /\ ctl.pc = "starting"
      BY <2>1 DEF RestartStarted
    <3>2. id # ctl.id => loops'[id] = loops[id]
      BY <1>1, <3>1
    <3>3. QED
      BY <3>1, <3>2 DEF Opened, Idle
  <2>2. QED
    BY <2>1
<1>8. ~LinkDown /\ ~Flush /\ ~ManagerStep /\ ~HandlerStep /\ ~LinkStep
  BY <1>2 DEF LinkDown, Flush, ManagerStep, dsVars, HandlerStep, PrepareConnect, PrepareCall,
     PrepareReply, StartStream, LinkStep, DeliverData, DeliverStray, DeliverAck
<1>9. RestartCreateReader
  BY <1>3, <1>4, <1>5, <1>6, <1>7, <1>8 DEF Next, RestartStep
<1>10. ctl' = [ctl EXCEPT !.pc = "preparing", !.id = used + 1] /\ loops' = loops
  BY <1>9 DEF RestartCreateReader
<1>11. QED
  BY <1>1, <1>9, <1>10 DEF Opened

(* The broker forgets no reader before its end.                            *)
LEMMA StepHears ==
  ASSUME Sound, HeardToTheEnd, Next
  PROVE  HeardToTheEnd'
<1> SUFFICES ASSUME NEW id \in StreamIds, Opened(id)'
             PROVE  id \in known' \/ readers'[id].eof \/ readers'[id].err
  BY DEF HeardToTheEnd
<1>1. CASE Opened(id)
  <2>1. ~Crash
    BY DEF Crash, Opened, NoLoop, Idle
  <2>2. ~(RestartCreateReader /\ id \notin Used)
    <3>1. ASSUME RestartCreateReader, id \notin Used PROVE FALSE
      <4>1. loops[id].pc = "none" /\ ctl.pc = "statted"
        BY <3>1 DEF Sound, IdsOK, RestartCreateReader
      <4>2. QED
        BY <1>1, <4>1 DEF Opened
    <3>2. QED
      BY <3>1
  <2>3. Onward(id)
    BY <2>1, <2>2, StepOnward
  <2>4. QED
    BY <1>1, <2>3 DEF Onward, HeardToTheEnd
<1>2. CASE ~Opened(id)
  <2>1. RestartCreateReader /\ id = used + 1
    BY <1>2, StepOpens
  <2>2. QED
    BY <2>1 DEF RestartCreateReader
<1>3. QED
  BY <1>1, <1>2

(* Only StartStream makes a stream wanted.                                 *)
LEMMA StepWants ==
  ASSUME Sound, StartedOnce, Next, NEW id \in StreamIds, Wanted(id)', ~Wanted(id)
  PROVE  StartStream /\ ctl.pc = "starting" /\ ctl.id = id /\ rpc.id = id
<1>1. /\ loops \in [StreamIds -> LoopStates] /\ rpc \in Rpcs
      /\ ctl \in [pc : {"idle", "connected", "statted", "preparing", "starting"},
                  id : StreamIds \union {NoStream}, seq : Nat, gap : Nat]
  BY DEF Sound, ReadersOK, RestartOK, CtlTypes, RpcOK
<1> USE DEF mainVars
<1>2. ~UNCHANGED <<loops, ctl, rpc>>
  BY DEF Wanted
<1>3. ASSUME NEW i \in StreamIds, LoopStep(i) PROVE FALSE
  <2>1. /\ UNCHANGED <<ctl, rpc>> /\ loops[i].pc \in {"read", "append"}
        /\ \A j \in StreamIds : j # i => loops'[j] = loops[j]
    BY <1>1, <1>3 DEF LoopStep, LoopRead, LoopSuperseded, LoopAppend, LoopEnd
  <2>2. QED
    BY <2>1 DEF Wanted
<1>4. ~Reconnect /\ ~RestartStat /\ ~RestartFails
  BY <1>1 DEF Reconnect, RestartStat, RestartFails, Idle, Wanted
<1>5. ~LinkDown /\ ~Crash
  BY DEF LinkDown, Crash, LoseLink, Wanted, NoLoop, NoRpc
<1>6. ~RestartCreateReader
  BY <1>1 DEF RestartCreateReader, Wanted, NoRpc
<1>7. ~RestartPrepared
  BY <1>1 DEF RestartPrepared, Idle, NoRpc, Rpcs, Wanted
<1>8. ~RestartStarted
  <2>1. ASSUME RestartStarted PROVE FALSE
    <3>1. /\ ctl' = Idle /\ loops' = [loops EXCEPT ![ctl.id] = [pc |-> "read", chunk |-> <<>>]]
          /\ ctl.pc = "starting" /\ rpc.op = "started" /\ rpc.id = ctl.id
      BY <2>1 DEF RestartStarted
    <3>2. id # ctl.id => loops'[id] = loops[id]
      BY <1>1, <3>1
    <3>3. QED
      BY <3>1, <3>2 DEF Wanted, Idle
  <2>2. QED
    BY <2>1
<1>9. ~Flush /\ ~ManagerStep /\ ~LinkStep /\ ~PrepareCall
  BY <1>2 DEF Flush, ManagerStep, dsVars, PrepareCall,
     LinkStep, DeliverData, DeliverStray, DeliverAck
<1>10. ~PrepareConnect
  BY <1>1 DEF PrepareConnect, Rpcs, Wanted
<1>11. ~PrepareReply
  BY DEF PrepareReply, Reply, Wanted
<1>12. StartStream
  BY <1>3, <1>4, <1>5, <1>6, <1>7, <1>8, <1>9, <1>10, <1>11 DEF Next, RestartStep, HandlerStep
<1>13. UNCHANGED <<loops, ctl>> /\ rpc'.id = rpc.id
  BY <1>1, <1>12 DEF StartStream, Rpcs
<1>14. QED
  BY <1>12, <1>13 DEF Wanted

(* Only ClientConnected connects, a stream that nobody wants yet.          *)
LEMMA StepConnects ==
  ASSUME Sound, StartedOnce, Next, connected', Wanted(streamId)'
  PROVE  connected /\ streamId' = streamId
<1>1. Inv /\ EndOK /\ HandlerOK
  BY DEF Sound
<1> SUFFICES ASSUME ~(connected /\ streamId' = streamId) PROVE FALSE
  OBVIOUS
<1>2. PrepareReply /\ ConnectReturn
  <2>1. ~ManagerStep
    BY <1>1, ReaderStepIs, SenderStepIs, CallStepIs DEF ManagerStep, HandlerOK, connVars
  <2>2. ~LinkStep
    BY DEF LinkStep, DeliverData, DeliverStray, DeliverAck, RecvAck, RecvFin, RecvUseless,
           RecvProgress, smVars, smButPackets, connVars
  <2>3. ASSUME NEW i \in StreamIds, LoopStep(i) PROVE FALSE
    BY <2>3 DEF LoopStep, LoopRead, LoopSuperseded, LoopAppend, LoopEnd, smVars, connVars
  <2>4. ~Flush /\ ~RestartStep /\ ~Reconnect /\ ~LinkDown /\ ~Crash
    BY DEF Flush, RestartStep, RestartStat, RestartCreateReader, RestartPrepared,
           RestartStarted, RestartFails, Reconnect, LinkDown, Crash, smVars, smButPackets,
           connVars
  <2>5. ~PrepareConnect /\ ~PrepareCall /\ ~StartStream
    BY DEF PrepareConnect, ClientDisconnected, PrepareCall, ClientConnected, StartStream,
           SetRwndSize, smVars, connVars
  <2>6. PrepareReply
    BY <2>1, <2>2, <2>3, <2>4, <2>5 DEF Next, HandlerStep
  <2>7. QED
    BY <2>6 DEF PrepareReply, smVars, connVars
<1>3. jm.pc = "called" /\ call.pc = "set" /\ streamId' = call.id
  BY <1>1, <1>2, ReturnIs DEF PrepareReply
<1>4. streamId' = jm.id /\ jm.id \in StreamIds /\ Unstarted(jm.id)
  BY <1>1, <1>3 DEF HandlerOK, Unstarted
<1>5. loops'[streamId'].pc = "none"
  BY <1>2, <1>4 DEF StartedOnce, PrepareReply, mainVars
<1>6. rpc'.op # "started"
  BY <1>2, <1>3 DEF StartedOnce, PrepareReply, Reply
<1>7. QED
  BY <1>5, <1>6 DEF Wanted

(* The head stays behind the reader: an ack is for what the reader took,   *)
(* or the reader has heard the end.                                        *)
LEMMA AckStaysBehind ==
  ASSUME Sound, HeardToTheEnd, NEW ack \in acks, AckedBy(ack), Moved,
         Wanted(streamId), HeadPos(cb) <= readers[streamId].nextSeq
  PROVE  HeadPos(cb') <= readers[streamId].nextSeq
<1>1. ack.id = streamId /\ streamId \in StreamIds /\ HeadPos(cb') = ack.seq
      /\ BufferOK(cb) /\ BufferOK(cb')
  BY DEF AckedBy, Effective, Sound, Inv, ConnOK, Moved
<1> DEFINE r == readers[streamId]
<1>2. streamId \in known \/ r.eof \/ r.err
  BY <1>1 DEF HeardToTheEnd, Opened, Wanted
<1>3. ~r.closed
  <2>1. CASE loops[streamId].pc \in {"read", "append"}
    BY <1>1, <2>1, UsedIds DEF LoopOK
  <2>2. CASE ctl.pc = "starting" /\ ctl.id = streamId
    BY <2>2 DEF Sound, RestartOK
  <2>3. QED
    BY <2>1, <2>2 DEF Wanted
<1>4. CASE streamId \in known
  BY <1>1, <1>4 DEF Sound, FlowOK, AckOK
<1>5. CASE r.eof \/ r.err
  <2>1. /\ r.eof => readPc = "done" /\ r.nextSeq = cb.total
        /\ r.err => readPc = "done" /\ cb.count = 0
    BY <1>1, <1>3, UsedIds DEF ReaderOK
  <2>2. cb'.total = cb.total /\ (cb.count = 0 => cb'.count = 0)
    BY <1>5, <2>1 DEF Moved
  <2> HIDE DEF r
  <2>3. QED
    BY <1>1, <1>5, <2>1, <2>2, BufferNumbers DEF r
<1>6. QED
  BY <1>2, <1>4, <1>5

(* Every step keeps the head behind.                                       *)
LEMMA StepKeepsBehind ==
  ASSUME Sound, NoneDropped, AllFits, AllFits', Next
  PROVE  HeadBehind'
<1>1. Inv /\ EndOK /\ Moved /\ Fits /\ ToldExactly /\ HeardToTheEnd /\ StartedOnce /\ HeadBehind
  BY StepMoves DEF Sound, NoneDropped
<1> SUFFICES ASSUME connected', streamId' \in carried', Wanted(streamId)'
             PROVE  HeadPos(cb') <= readers'[streamId'].nextSeq
  BY DEF HeadBehind
<1>2. connected /\ streamId' = streamId
  BY <1>1, StepConnects
<1>3. PICK id \in StreamIds : id = streamId
  BY <1>1, <1>2 DEF Inv, ConnOK
<1>4. Wanted(id)'
  BY <1>2, <1>3
<1>5. ~Crash /\ ~LinkDown
  BY DEF Crash, LinkDown, LoseLink
<1>6. id \in Used
  BY <1>3, NoStreamAssumption DEF Sound, IdsOK
<1>7. Onward(id)
  BY <1>5, <1>6, StepOnward
<1>8. CASE ~Wanted(id)
  <2>1. StartStream /\ ctl.pc = "starting" /\ ctl.id = id /\ rpc.id = id
    BY <1>1, <1>4, <1>8, StepWants
  <2>2. rpc.op = "start" /\ readers' = readers /\ SetRwndSize(ReadWindow) /\ ReadWindow \in Nat
    BY <2>1, ReadWindowAssumption DEF StartStream, mainVars
  <2>3. readers[id].nextSeq = rpc.seq
    BY <2>1, <2>2 DEF Sound, RestartOK
  <2>4. HeadPos(cb') = HeadPos(cb) /\ HeadPos(cb) \in Nat
    BY <1>1, <2>2, SetRwndIs, BufferNumbers DEF Inv
  <2>5. rpc.seq = HeadPos(cb)
    BY <1>1, <2>2 DEF ToldExactly, Prepared
  <2>6. QED
    BY <1>2, <1>3, <2>2, <2>3, <2>4, <2>5
<1>9. CASE Wanted(id)
  <2>1. id \in carried
    <3>1. ASSUME id \notin carried PROVE FALSE
      <4>1. PrepareConnect
        BY <1>2, <1>3, <1>5, <3>1
        DEF Next, ManagerStep, dsVars, LinkStep, DeliverData, DeliverStray, DeliverAck, Flush,
            LoopStep, LoopRead, LoopSuperseded, LoopAppend, LoopEnd, Reconnect, RestartStep,
            RestartStat, RestartCreateReader, RestartPrepared, RestartStarted, RestartFails,
            HandlerStep, PrepareCall, PrepareReply, StartStream, linkVars
      <4>2. rpc.op = "prepare" /\ rpc.id = id
        BY <1>2, <1>3, <3>1, <4>1 DEF PrepareConnect
      <4>3. loops[id].pc = "none"
        BY <1>1, <4>2 DEF StartedOnce, Unstarted
      <4>4. QED
        BY <1>9, <4>2, <4>3 DEF Wanted
    <3>2. QED
      BY <3>1
  <2>2. HeadPos(cb) <= readers[id].nextSeq
    BY <1>1, <1>2, <1>3, <1>9, <2>1 DEF HeadBehind
  <2>3. HeadPos(cb') <= readers[id].nextSeq
    <3>1. CASE HeadStays
      BY <2>2, <3>1 DEF HeadStays
    <3>2. ~Consumes
      BY <1>1, <1>2 DEF Consumes, ConnectConsume, Inv, CallOK
    <3>3. ASSUME NEW ack \in acks, AckedBy(ack) PROVE HeadPos(cb') <= readers[id].nextSeq
      BY <1>1, <1>3, <1>9, <2>2, <3>3, AckStaysBehind
    <3>4. QED
      BY <1>1, <3>1, <3>2, <3>3, WhatMovesHead
  <2>4. readers[id].nextSeq \in Nat /\ readers'[id].nextSeq \in Nat
        /\ HeadPos(cb') \in Nat
    <3>1. ReadersOK' /\ readers \in [StreamIds -> Readers]
      BY StepKeepsReaders DEF Sound, ReadersOK
    <3>2. QED
      BY <1>1, <3>1, BufferNumbers DEF ReadersOK, Readers, Moved, Inv
  <2>5. QED
    BY <1>2, <1>3, <1>7, <2>3, <2>4 DEF Onward
<1>10. QED
  BY <1>8, <1>9

(* It holds at the beginning.                                              *)
LEMMA InitNoneDropped == Init => NoneDropped
<1> SUFFICES ASSUME Init PROVE NoneDropped
  OBVIOUS
<1>1. CirBufSize \in Nat /\ MaxBytes \in Nat /\ 1 \in StreamIds
  BY CirBufSizeAssumption, MaxBytesAssumption, StreamIdsAssumption
<1>2. cb.total = 0 /\ cb.sync /\ HeadPos(cb) = 0
  <2>1. MakeCirBuf \in Buffer /\ MakeCirBuf.total = 0 /\ MakeCirBuf.count = 0
    BY <1>1 DEF MakeCirBuf, Buffer
  <2>2. cb = WithWindow(MakeCirBuf, TRUE, EffectiveWindow(ReadWindow))
    BY DEF Init
  <2>3. cb.total = 0 /\ cb.count = 0 /\ cb.sync
    BY <2>1, <2>2 DEF WithWindow, Buffer
  <2>4. QED
    BY <2>3 DEF HeadPos
<1>3. Fits
  <2>1. readPc = "top"
    BY DEF Init
  <2>2. QED
    BY <1>1, <1>2, <2>1 DEF Fits
<1>4. ToldExactly
  BY DEF Init, ToldExactly, NoCall, Prepared, NoRpc
<1>5. HeardToTheEnd
  BY DEF Init, HeardToTheEnd, Opened, NoLoop, Idle
<1>6. StartedOnce
  BY NoStreamAssumption DEF Init, StartedOnce, NoRpc, Unstarted, NoHandler, Idle
<1>7. HeadBehind
  <2>1. streamId = 1 /\ readers[1].nextSeq = 0
    BY <1>1 DEF Init, NewReaderWithSeq
  <2>2. QED
    BY <1>2, <2>1 DEF HeadBehind
<1>8. QED
  BY <1>3, <1>4, <1>5, <1>6, <1>7 DEF NoneDropped

(* As long as all output so far fits the buffer, the job manager drops     *)
(* only what the running reader has, across reconnects and crashes.        *)
THEOREM NothingDropped == Spec => [](AllFits => HeadBehindReader)
<1>1. Sound /\ NoneDropped /\ [Next]_vars => NoneDropped'
  <2> SUFFICES ASSUME Sound, NoneDropped, [Next]_vars PROVE NoneDropped'
    OBVIOUS
  <2>1. CASE Next
    <3>1. Fits' /\ HeardToTheEnd' /\ StartedOnce'
      BY <2>1, WhatMovesHead, StepHears, StepKeepsStarted DEF NoneDropped
    <3>2. ASSUME AllFits' PROVE ToldExactly' /\ HeadBehind'
      <4>1. AllFits
        <5>1. cb.total \in Nat /\ cb'.total \in Nat /\ cb'.total >= cb.total
          BY <2>1, WhatMovesHead, StepMoves, BufferNumbers DEF NoneDropped, Sound, Inv, Moved
        <5>2. QED
          BY <3>2, <5>1, CirBufSizeAssumption DEF AllFits
      <4>2. QED
        BY <2>1, <3>2, <4>1, StepTells, StepKeepsBehind DEF NoneDropped
    <3>3. QED
      BY <3>1, <3>2 DEF NoneDropped
  <2>2. CASE UNCHANGED vars
    BY <2>2 DEF vars, smVars, dsVars, linkVars, jmVars, mainVars, readVars, connVars,
                NoneDropped, AllFits, Fits, ToldExactly, Prepared, HeardToTheEnd, Opened,
                StartedOnce, Unstarted, HeadBehind, Wanted
  <2>3. QED
    BY <2>1, <2>2
<1>2. NoneDropped => (AllFits => HeadBehindReader)
  BY DEF NoneDropped, HeadBehind, Wanted, HeadBehindReader
<1>3. QED
  BY <1>1, <1>2, InitNoneDropped, SoundAlways, PTL DEF Spec

(* So it is in every run whose output fits.                                *)
COROLLARY NothingDroppedThatFits ==
  ASSUME MaxBytes <= CirBufSize
  PROVE  Spec => []HeadBehindReader
<1>1. Sound /\ Fits => AllFits
  BY BufferNumbers, MaxBytesAssumption, CirBufSizeAssumption DEF Sound, Inv, Fits, AllFits
<1>2. Sound /\ Fits /\ [Next]_vars => Fits'
  BY WhatMovesHead DEF Fits, vars, smVars, readVars
<1>3. Init => Fits
  BY InitNoneDropped DEF NoneDropped
<1>4. QED
  BY <1>1, <1>2, <1>3, SoundAlways, NothingDropped, PTL DEF Spec

=============================================================================
