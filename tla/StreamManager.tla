---------------------------- MODULE StreamManager ----------------------------
(***************************************************************************)
(* pkg/jobmanager/streammanager.go: the job manager's side of a durable    *)
(* session.  Three goroutines share it: the PTY read loop (fills the       *)
(* buffer), the sender loop (turns the buffer into packets) and whoever    *)
(* calls its methods (RPC handlers for the main server).                   *)
(*                                                                         *)
(* Methods run under sm.lock and are one action each, except that the read *)
(* loop writes into the buffer without sm.lock: where a method reads the   *)
(* buffer and acts on it later, and a write in between can matter, it is   *)
(* split (ClientConnected, whose buffer may still be in overwrite mode).   *)
(* While a client is connected the buffer is in sync mode, its head does   *)
(* not move under a write, and a method's buffer calls act as one.         *)
(***************************************************************************)
EXTENDS OutputBuffer, FiniteSets

CONSTANTS
  CwndSize,      (* congestion window: most bytes in flight                 *)
  MaxBytes,      (* bound: output bytes the modelled program writes         *)
  StreamIds,     (* ids of the streams a main server may open               *)
  NoStream,      (* no id yet: the empty string                             *)
  Rwnds          (* receive windows a client may advertise                  *)

ASSUME CwndSizeAssumption == CwndSize \in Nat \ {0}
ASSUME MaxBytesAssumption == MaxBytes \in Nat
ASSUME RwndsAssumption == Rwnds \subseteq Nat
ASSUME NoStreamAssumption == NoStream \notin StreamIds

VARIABLES
  (* the PTY read loop *)
  readPc,             (* where its goroutine is, see ReadPcs                 *)
  pending,            (* bytes of the chunk not yet in the buffer            *)
  (* the fields of StreamManager *)
  connected, streamId, rwndSize, sentNotAcked,
  maxAcked,           (* the tuple (maxAckedSeq, maxAckedRwnd)               *)
  terminalEvent,      (* "none", "eof" or "error"                            *)
  eofPos, terminalEventSent, terminalEventAcked, closed,
  (* the sender loop *)
  senderWaits,        (* it sits in drainCond.Wait                           *)
  (* a ClientConnected call under way *)
  call,
  (* the outside *)
  packets,            (* packets handed to the data sender                   *)
  startSeq            (* what ClientConnected returned, per stream           *)

readVars == <<readPc, pending>>
termVars == <<terminalEvent, eofPos, terminalEventSent, terminalEventAcked, closed>>
connVars == <<connected, streamId, rwndSize>>
ackVars  == <<sentNotAcked, maxAcked>>
outVars  == <<packets, startSeq>>
smVars == <<cb, readVars, termVars, connVars, ackVars, senderWaits, call, outVars>>

ReadPcs == {"none", "top", "read", "write", "signal", "done"}

NoCall == [pc |-> "none", id |-> NoStream, rwnd |-> 0, seq |-> 0, head |-> 0]
Calls  == [pc : {"none", "check", "reread", "set"}, id : StreamIds \union {NoStream},
           rwnd : Nat, seq : Nat, head : Nat]

DataPackets     == [kind : {"data"}, id : StreamIds, seq : Nat, len : Nat \ {0}]
TerminalPackets == [kind : {"eof", "error"}, id : StreamIds, seq : Int, len : {0}]

SMTypeOK ==
  /\ cb \in Buffer
  /\ readPc \in ReadPcs
  /\ pending \in 0 .. MaxPacketSize
  /\ connected \in BOOLEAN
  /\ streamId \in StreamIds \union {NoStream}
  /\ rwndSize \in Nat
  /\ sentNotAcked \in Nat
  /\ maxAcked \in [seq : Nat, rwnd : Nat]
  /\ terminalEvent \in {"none", "eof", "error"}
  /\ eofPos \in Nat \union {-1}
  /\ terminalEventSent \in BOOLEAN
  /\ terminalEventAcked \in BOOLEAN
  /\ closed \in BOOLEAN
  /\ senderWaits \in BOOLEAN
  /\ call \in Calls
  /\ packets \subseteq (DataPackets \union TerminalPackets)
  /\ startSeq \in [StreamIds -> Nat \union {-1}]

SMInit ==
  /\ cb = MakeCirBuf
  /\ readPc = "none" /\ pending = 0
  /\ connected = FALSE /\ streamId = NoStream /\ rwndSize = CwndSize
  /\ sentNotAcked = 0 /\ maxAcked = [seq |-> 0, rwnd |-> 0]
  /\ terminalEvent = "none" /\ eofPos = -1
  /\ terminalEventSent = FALSE /\ terminalEventAcked = FALSE
  /\ closed = FALSE
  /\ senderWaits = FALSE
  /\ call = NoCall
  /\ packets = {} /\ startSeq = [id \in StreamIds |-> -1]

(* sm.lock is free: no handler is in the middle of its critical section.   *)
Unlocked == call = NoCall

SignalForgotten == UNCHANGED senderWaits       \* a mutant

(* drainCond.Signal wakes the only waiter, the sender loop.                *)
Signal == senderWaits' = FALSE

EffectiveWindowCwnd(rwnd) == CwndSize          \* a mutant: no receive window
EffectiveWindow(rwnd) == Least(CwndSize, rwnd)

-----------------------------------------------------------------------------
(* The PTY read loop.                                                      *)

AttachReader ==
  /\ Unlocked
  /\ readPc = "none"
  /\ readPc' = "top"
  /\ UNCHANGED <<cb, pending, termVars, connVars, ackVars, senderWaits, call, outVars>>

(* The top of readLoop looks at closed, under sm.lock.                     *)
CheckClosed ==
  /\ readPc = "top" /\ Unlocked
  /\ readPc' = IF closed THEN "done" ELSE "read"
  /\ UNCHANGED <<cb, pending, termVars, connVars, ackVars, senderWaits, call, outVars>>

(* The PTY delivers a chunk.                                               *)
ReadPty(n) ==
  /\ readPc = "read"
  /\ cb.total + n <= MaxBytes
  /\ readPc' = "write"
  /\ pending' = n
  /\ UNCHANGED <<cb, termVars, connVars, ackVars, senderWaits, call, outVars>>

(* handleReadData calls WriteAvailable, without sm.lock: it stores what    *)
(* fits, or parks on the channel until the buffer closes it.               *)
WriteAvailable ==
  /\ readPc = "write" /\ ~cb.waiter
  /\ \/ /\ ~Full(cb)
        /\ cb' = Written(cb, Accepts(cb, pending))
        /\ pending' = pending - Accepts(cb, pending)
        /\ readPc' = "signal"
     \/ /\ Full(cb)
        /\ cb' = Parked(cb)
        /\ UNCHANGED <<pending, readPc>>
  /\ UNCHANGED <<termVars, connVars, ackVars, senderWaits, call, outVars>>

(* It then takes sm.lock to tell the sender loop.                          *)
SignalWritten ==
  /\ readPc = "signal" /\ Unlocked
  /\ readPc' = IF pending > 0 THEN "write" ELSE "top"
  /\ Signal
  /\ UNCHANGED <<cb, pending, termVars, connVars, ackVars, call, outVars>>

(* The PTY reports io.EOF or an error; readLoop ends.                      *)
HandleEnd(event) ==
  /\ readPc = "read" /\ Unlocked
  /\ readPc' = "done"
  /\ eofPos' = cb.total
  /\ terminalEvent' = event
  /\ Signal
  /\ UNCHANGED <<cb, pending, terminalEventSent, terminalEventAcked, closed,
                 connVars, ackVars, call, outVars>>

-----------------------------------------------------------------------------
(* The sender loop.                                                        *)

AvailableToSend == EffectiveWindow(rwndSize) - sentNotAcked

MaySend == ~closed /\ ~terminalEventAcked /\ connected
MaySendData ==
  MaySend /\ cb.count > 0 /\ AvailableToSend > 0 /\ cb.count > sentNotAcked
MaySendTerminalEarly ==                        \* a mutant: sent, not yet acked
  MaySend /\ cb.count = sentNotAcked /\ terminalEvent # "none" /\ ~terminalEventSent
MaySendTerminal ==
  MaySend /\ cb.count = 0 /\ terminalEvent # "none" /\ ~terminalEventSent

NextPacketSizeFull == Least(AvailableToSend, MaxPacketSize)       \* a mutant
NextPacketSize ==
  Least(Least(AvailableToSend, MaxPacketSize), cb.count - sentNotAcked)

NextPacketFromHead ==                          \* a mutant: forgets what was sent
  [kind |-> "data", id |-> streamId, seq |-> HeadPos(cb), len |-> NextPacketSize]
NextPacket ==
  [kind |-> "data", id |-> streamId, seq |-> HeadPos(cb) + sentNotAcked,
   len |-> NextPacketSize]

(* prepareNextPacket takes the next unsent bytes the windows allow.        *)
SendData ==
  /\ Unlocked /\ ~senderWaits
  /\ MaySendData
  /\ packets' = packets \union {NextPacket}
  /\ sentNotAcked' = sentNotAcked + NextPacketSize
  /\ UNCHANGED <<cb, readVars, termVars, connVars, maxAcked, senderWaits, call, startSeq>>

(* prepareTerminalPacket: only once the buffer is empty, that is, acked.   *)
SendTerminal ==
  /\ Unlocked /\ ~senderWaits
  /\ MaySendTerminal
  /\ packets' = packets \union
       {[kind |-> terminalEvent, id |-> streamId, seq |-> eofPos, len |-> 0]}
  /\ terminalEventSent' = TRUE
  /\ UNCHANGED <<cb, readVars, terminalEvent, eofPos, terminalEventAcked, closed,
                 connVars, ackVars, senderWaits, call, startSeq>>

(* With nothing to send it waits; after the end of the stream it is gone.  *)
SenderWait ==
  /\ Unlocked /\ ~senderWaits
  /\ ~closed /\ ~terminalEventAcked
  /\ ~MaySendData /\ ~MaySendTerminal
  /\ senderWaits' = TRUE
  /\ UNCHANGED <<cb, readVars, termVars, connVars, ackVars, call, outVars>>

-----------------------------------------------------------------------------
(* ClientConnected: the checks and the first look at the head; then, for a *)
(* client that is ahead of the head, dropping what it has already and      *)
(* looking again; then switching the buffer to sync mode and returning.    *)

Connectable == ~closed /\ ~terminalEventAcked

ClientConnected(id, rwnd, seq) ==
  /\ Unlocked
  /\ Connectable
  /\ ~connected
  /\ call' = [pc |-> IF seq > HeadPos(cb) THEN "check" ELSE "set",
              id |-> id, rwnd |-> rwnd, seq |-> seq, head |-> HeadPos(cb)]
  /\ UNCHANGED <<cb, readVars, termVars, connVars, ackVars, senderWaits, outVars>>

ConnectConsume ==
  LET ahead == call.seq - call.head IN
  /\ call.pc = "check"
  /\ \/ /\ ahead > cb.count           \* beyond our stream end: an error
        /\ call' = NoCall
        /\ UNCHANGED cb
     \/ /\ ahead <= cb.count
        /\ cb' = Consumed(cb, ahead)
        /\ call' = [call EXCEPT !.pc = "reread"]
  /\ UNCHANGED <<readVars, termVars, connVars, ackVars, senderWaits, outVars>>

ConnectReread ==
  /\ call.pc = "reread"
  /\ call' = [call EXCEPT !.pc = "set", !.head = HeadPos(cb)]
  /\ UNCHANGED <<cb, readVars, termVars, connVars, ackVars, senderWaits, outVars>>

ConnectReturn ==
  /\ call.pc = "set"
  /\ streamId' = call.id
  /\ connected' = TRUE
  /\ rwndSize' = call.rwnd
  /\ sentNotAcked' = 0
  /\ cb' = WithWindow(cb, TRUE, EffectiveWindow(call.rwnd))
  /\ startSeq' = [startSeq EXCEPT ![call.id] = Greatest(call.head, call.seq)]
  /\ call' = NoCall
  /\ Signal
  /\ UNCHANGED <<readVars, termVars, maxAcked, packets>>

SentOnce == terminalEventSent                  \* a mutant: the end is not resent
StillSent == terminalEventSent /\ terminalEventAcked

(* Disconnected mode: everything unacked will be sent again, the PTY is    *)
(* never blocked and the buffer keeps the newest output.                   *)
ClientDisconnected ==
  /\ Unlocked
  /\ connected
  /\ connected' = FALSE
  /\ sentNotAcked' = 0
  /\ maxAcked' = [seq |-> 0, rwnd |-> 0]
  /\ terminalEventSent' = StillSent
  /\ cb' = WithWindow(cb, FALSE, CirBufSize)
  /\ Signal
  /\ UNCHANGED <<readVars, terminalEvent, eofPos, terminalEventAcked, closed,
                 streamId, rwndSize, call, outVars>>

-----------------------------------------------------------------------------
(* RecvAck, by what the ack turns out to be.                               *)

Stale(ack) ==
  \/ ack.seq < maxAcked.seq
  \/ ack.seq = maxAcked.seq /\ ack.rwnd <= maxAcked.rwnd

(* The ack is for bytes sent and not acked; the mutant takes one for any   *)
(* byte held.                                                              *)
AcksHeld(ack)     == ack.seq - HeadPos(cb) \in 0 .. cb.count
AcksInFlight(ack) == ack.seq - HeadPos(cb) \in 0 .. sentNotAcked

RecvFin(ack) ==
  /\ ack.fin
  /\ terminalEventAcked' = TRUE
  /\ Signal
  /\ UNCHANGED <<cb, terminalEvent, eofPos, terminalEventSent, closed, connVars, ackVars>>

(* An ack newer than every other, but for bytes outside the unacked ones,  *)
(* is only remembered.                                                     *)
RecvUseless(ack) ==
  /\ ~ack.fin /\ ~Stale(ack) /\ ~AcksInFlight(ack)
  /\ maxAcked' = [seq |-> ack.seq, rwnd |-> ack.rwnd]
  /\ UNCHANGED <<cb, termVars, connVars, sentNotAcked, senderWaits>>

RecvProgress(ack) ==
  LET acked == ack.seq - HeadPos(cb) IN
  /\ ~ack.fin /\ ~Stale(ack) /\ AcksInFlight(ack)
  /\ maxAcked' = [seq |-> ack.seq, rwnd |-> ack.rwnd]
  /\ sentNotAcked' = sentNotAcked - acked
  /\ rwndSize' = ack.rwnd
  /\ cb' = WithWindow(IF acked > 0 THEN Consumed(cb, acked) ELSE cb,
                      TRUE, EffectiveWindow(ack.rwnd))
  /\ senderWaits' = (senderWaits /\ ~(ack.rwnd > rwndSize \/ acked > 0))
  /\ UNCHANGED <<termVars, connected, streamId>>

RecvAck(ack) ==
  /\ Unlocked
  /\ connected /\ ack.id = streamId
  /\ RecvFin(ack) \/ RecvUseless(ack) \/ RecvProgress(ack)
  /\ UNCHANGED <<readVars, call, outVars>>

SetRwndSize(rwnd) ==
  /\ Unlocked
  /\ connected
  /\ rwndSize' = rwnd
  /\ cb' = WithWindow(cb, TRUE, EffectiveWindow(rwnd))
  /\ Signal
  /\ UNCHANGED <<readVars, termVars, connected, streamId, ackVars, call, outVars>>

Close ==
  /\ Unlocked
  /\ closed' = TRUE
  /\ Signal
  /\ UNCHANGED <<cb, readVars, terminalEvent, eofPos, terminalEventSent,
                 terminalEventAcked, connVars, ackVars, call, outVars>>

-----------------------------------------------------------------------------
(***************************************************************************)
(* The stream manager with any client: it may connect with any position    *)
(* under a fresh id, drop off, and send acks with any content, in any      *)
(* order; only a Fin means that it got the terminal packet.                *)
(***************************************************************************)

Fresh(id) == startSeq[id] = -1 /\ call.id # id

TerminalSentOn(id) == \E p \in packets : p.id = id /\ p.kind # "data"

Acks == [id : StreamIds, seq : 0 .. MaxBytes + 1, rwnd : Rwnds, fin : BOOLEAN]

ReaderStep ==
  \/ AttachReader \/ CheckClosed \/ WriteAvailable \/ SignalWritten
  \/ \E n \in 1 .. MaxPacketSize : ReadPty(n)
  \/ \E event \in {"eof", "error"} : HandleEnd(event)

SenderStep == SendData \/ SendTerminal \/ SenderWait

CallStep == ConnectConsume \/ ConnectReread \/ ConnectReturn

ClientStep ==
  \/ \E id \in StreamIds, rwnd \in Rwnds, seq \in 0 .. MaxBytes + 1 :
       Fresh(id) /\ ClientConnected(id, rwnd, seq)
  \/ ClientDisconnected
  \/ \E ack \in Acks : (ack.fin => TerminalSentOn(ack.id)) /\ RecvAck(ack)
  \/ \E rwnd \in Rwnds : SetRwndSize(rwnd)
  \/ Close

SMNext == ReaderStep \/ SenderStep \/ CallStep \/ ClientStep

SMSpec == SMInit /\ [][SMNext]_smVars

-----------------------------------------------------------------------------
(* No lost wakeup: the sender loop waits on drainCond only while it has    *)
(* nothing to send, or the read loop is about to signal (streammanager.go  *)
(* RecvAck, SetRwndSize, ClientConnected, handleEOF, handleReadData).      *)
SenderNotStranded ==
  senderWaits /\ readPc # "signal" => ~MaySendData /\ ~MaySendTerminal

(* Neither of the two goroutines that share the buffer sleeps while it has *)
(* something to do, the one that fills it included.                        *)
NothingStranded == SenderNotStranded /\ WriterNotStranded

(* While a client is connected the buffer blocks the writer rather than    *)
(* overwriting what the client has not got.                                *)
ConnectedIsSync == connected => cb.sync

(* Everything in flight can still be sent again: the bytes sent and not    *)
(* acked are in the buffer, and they are never more than the congestion    *)
(* window, whatever acks arrive and however the windows shrink.            *)
UnackedHeld == sentNotAcked <= cb.count /\ sentNotAcked <= CwndSize

(* Nothing leaves the buffer of a connected client that was not sent to    *)
(* it: the head only moves over sent, unacked bytes.                       *)
OnlySentBytesLeave ==
  [][connected /\ connected' => HeadPos(cb') - HeadPos(cb) <= sentNotAcked]_smVars

BytesOf(p) == p.seq .. p.seq + p.len - 1
DataOn(id) == {p \in packets : p.id = id /\ p.kind = "data"}

(* The data packets of one stream cover a stretch of the output without a  *)
(* hole and without sending a byte twice, also across window changes and   *)
(* acks in any order (there is no retransmission within a stream).         *)
PacketsTile ==
  \A id \in StreamIds :
    LET sent == UNION {BytesOf(p) : p \in DataOn(id)}
    IN /\ \A p, q \in DataOn(id) : p # q => BytesOf(p) \cap BytesOf(q) = {}
       /\ \A i, j \in sent : i .. j \subseteq sent

(* The end is announced only to a client that has acked all output, and it *)
(* is announced at the position where the output really ends.              *)
EndAfterAllAcked ==
  \A p \in packets : p.kind # "data" =>
    readPc = "done" /\ cb.count = 0 /\ p.seq = cb.total

(* Once the client has acked the end, the stream is over: no packet, no    *)
(* new client.                                                             *)
DoneIsFinal ==
  [][terminalEventAcked => /\ terminalEventAcked'
                           /\ packets' = packets
                           /\ startSeq' = startSeq]_smVars

(* ClientConnected returns the position at which the new stream starts;    *)
(* the main server's reader waits for exactly that packet.                 *)
StreamStartsWhereTold ==
  \A id \in StreamIds : DataOn(id) # {} =>
    \E p \in DataOn(id) : p.seq = startSeq[id]

=============================================================================
