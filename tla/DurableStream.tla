---------------------------- MODULE DurableStream ----------------------------
(***************************************************************************)
(* A durable session end to end: the stream manager on the remote host,    *)
(* the link to the main server, the stream readers there, the output loops *)
(* that append to the job's output file, and restartStreaming, which       *)
(* resumes the output after the link was down or the main server crashed.  *)
(*   pkg/jobmanager/jobmanager.go        PrepareConnect, StartStream       *)
(*   pkg/streamclient/streambroker.go    routing of packets and acks       *)
(*   pkg/jobcontroller/jobcontroller.go  runOutputLoop, restartStreaming   *)
(*                                                                         *)
(* The link delivers packets and acks in any order (the delivery pipe of   *)
(* cmd/test-streammanager does), and whatever is under way when it breaks  *)
(* is lost.  A packet that is never delivered is a lost one.               *)
(*                                                                         *)
(* The behaviours start after jobcontroller.StartJob: stream 1 is          *)
(* connected and attached, the PTY reader and the first loop run.          *)
(***************************************************************************)
EXTENDS StreamManager, StreamReader

CONSTANTS
  ReadSize,      (* the buffer runOutputLoop hands to Read                   *)
  MaxStreams,    (* bound: streams opened, one more than the reconnects      *)
  MaxCrashes,    (* bound: crashes of the main server                        *)
  MaxTimeouts    (* bound: RPCs of restartStreaming that time out            *)

ASSUME StreamIdsAssumption == MaxStreams \in Nat \ {0} /\ StreamIds = 1 .. MaxStreams
ASSUME ReadSizeAssumption == ReadSize \in Nat \ {0}

VARIABLES
  link,        (* the job manager's connection to the main server is up     *)
  carried,     (* streams prepared over the present connection              *)
  acks,        (* acks under way                                            *)
  rpc,         (* the one RPC of restartStreaming, or its reply, under way  *)
  attached,    (* streams whose acks the job manager's broker passes on     *)
  jm,          (* the handler of PrepareConnect, holding jm.lock            *)
  pendingMeta, (* pendingStreamMeta: the stream that StartStream will start *)
  (* main server, volatile *)
  readers, known,   (* the Reader of each stream; the ids in broker.readers *)
  loops,            (* runOutputLoop of each stream                         *)
  current,          (* jobStreamIds                                         *)
  ctl,              (* doReconnectJob, one at a time (reconnectGroup)       *)
  file, totalGap,   (* the output file in the write-back cache              *)
  (* main server, durable *)
  disk,             (* what of the file was flushed                         *)
  streamDone,       (* job.StreamDone in the database                       *)
  (* bounds and history *)
  used, drops, crashes, timeouts,
  lateAppend        (* an append fell between a restart's Stat and its end  *)

mainVars == <<readers, known, loops, current, ctl, file, totalGap>>
histVars == <<used, drops, crashes, timeouts, lateAppend>>
linkVars == <<link, carried>>
smButPackets == <<cb, readVars, termVars, connVars, ackVars, senderWaits, call, startSeq>>
jmVars   == <<attached, jm, pendingMeta>>
dsVars   == <<linkVars, acks, rpc, jmVars, mainVars, disk, streamDone, histVars>>
vars     == <<smVars, dsVars>>

Idle      == [pc |-> "idle", id |-> NoStream, seq |-> 0, gap |-> 0]
NoRpc     == [op |-> "none", id |-> NoStream, seq |-> 0]
NoLoop    == [pc |-> "none", chunk |-> <<>>]
NoHandler == [pc |-> "idle", id |-> NoStream, seq |-> 0]

Rpcs == [op : {"none", "prepare", "taken", "finished", "prepared", "failed", "start",
               "started"},
         id : StreamIds \union {NoStream}, seq : Nat]

(* Flow control end to end: no reader is ever sent more than its window,   *)
(* whatever acks are lost, late or out of order.                           *)
ReaderWithinWindow ==
  \A id \in StreamIds : Len(readers[id].buffer) <= ReadWindow

TypeOK ==
  /\ ReaderWithinWindow
  /\ SMTypeOK
  /\ link \in BOOLEAN
  /\ carried \subseteq StreamIds /\ attached \subseteq carried /\ known \subseteq StreamIds
  /\ acks \subseteq [id : StreamIds, seq : Nat, rwnd : Nat, fin : BOOLEAN, cancel : BOOLEAN]
  /\ rpc \in Rpcs
  /\ jm \in [pc : {"idle", "connect", "called"}, id : StreamIds \union {NoStream}, seq : Nat]
  /\ {pendingMeta, current} \subseteq StreamIds \union {NoStream}
  /\ loops \in [StreamIds -> [pc : {"none", "read", "append", "done"}, chunk : Seq(Nat)]]
  /\ ctl \in [pc : {"idle", "connected", "statted", "preparing", "starting"},
              id : StreamIds \union {NoStream}, seq : Nat, gap : Nat]
  /\ file \in Seq(Nat) /\ totalGap \in Nat
  /\ disk \in [size : Nat, gap : Nat] /\ streamDone \in BOOLEAN

Init ==
  /\ cb = WithWindow(MakeCirBuf, TRUE, EffectiveWindow(ReadWindow))
  /\ readPc = "top" /\ pending = 0
  /\ connected = TRUE /\ streamId = 1 /\ rwndSize = ReadWindow
  /\ sentNotAcked = 0 /\ maxAcked = [seq |-> 0, rwnd |-> 0]
  /\ terminalEvent = "none" /\ eofPos = -1
  /\ terminalEventSent = FALSE /\ terminalEventAcked = FALSE
  /\ closed = FALSE /\ senderWaits = FALSE /\ call = NoCall
  /\ packets = {}
  /\ startSeq = [id \in StreamIds |-> IF id = 1 THEN 0 ELSE -1]
  /\ link = TRUE /\ carried = {1} /\ acks = {} /\ rpc = NoRpc
  /\ attached = {1} /\ jm = NoHandler /\ pendingMeta = NoStream
  /\ readers = [id \in StreamIds |-> NewReaderWithSeq(0)]
  /\ known = {1}
  /\ loops = [id \in StreamIds |-> IF id = 1 THEN [NoLoop EXCEPT !.pc = "read"] ELSE NoLoop]
  /\ current = 1 /\ ctl = Idle
  /\ file = <<>> /\ totalGap = 0
  /\ disk = [size |-> 0, gap |-> 0] /\ streamDone = FALSE
  /\ used = 1 /\ drops = 0 /\ crashes = 0 /\ timeouts = 0 /\ lateAppend = FALSE

-----------------------------------------------------------------------------
(* The stream manager's own goroutines.                                    *)

ManagerStep ==
  /\ \/ ReaderStep \/ SenderStep \/ ConnectConsume \/ ConnectReread
  /\ UNCHANGED dsVars

(* Those of its steps that wait for nothing but a lock.                    *)
ManagerProgress ==
  /\ \/ CheckClosed \/ WriteAvailable \/ SignalWritten
     \/ ConnectConsume \/ ConnectReread
  /\ UNCHANGED dsVars

-----------------------------------------------------------------------------
(* Packets and acks.                                                       *)

(* Acks leave at once; a fin or a cancel also removes the reader from its  *)
(* broker.  Without a link they are lost.                                  *)
Sent(newAcks) == IF link THEN acks \union newAcks ELSE acks

(* The broker's processRecvData for a stream it has a reader for.          *)
DeliverData(p) ==
  LET r    == readers[p.id]
      next == RecvData(r, p)
      fin  == next.eof \/ next.err
  IN
  /\ p \in packets /\ p.id \in carried \cap known
  /\ packets' = packets \ {p}
  /\ readers' = [readers EXCEPT ![p.id] = next]
  /\ acks' = IF AcksData(r, p) THEN Sent({AckFrom(p.id, next, fin, FALSE)}) ELSE acks
  /\ known' = IF AcksData(r, p) /\ fin THEN known \ {p.id} ELSE known
  /\ UNCHANGED smButPackets
  /\ UNCHANGED <<linkVars, rpc, jmVars, loops, current, ctl, file, totalGap,
                 disk, streamDone, histVars>>

(* A packet nobody reads is answered by a cancel, at most once a second,   *)
(* and only while the broker remembers the route of the stream.            *)
DeliverStray(p) ==
  /\ p \in packets /\ p.id \in carried \ known
  /\ packets' = packets \ {p}
  /\ \/ acks' = acks
     \/ acks' = acks \union {[id |-> p.id, seq |-> p.seq, rwnd |-> 0,
                              fin |-> FALSE, cancel |-> TRUE]}
  /\ UNCHANGED smButPackets
  /\ UNCHANGED <<linkVars, rpc, jmVars, mainVars, disk, streamDone, histVars>>

(* The job manager's broker passes an ack to the stream manager if a       *)
(* writer is attached; RecvAck drops it if it is not for the connected     *)
(* stream or stale.  A fin or a cancel detaches the writer.                *)
Effective(ack) ==
  ack.id \in attached /\ connected /\ ack.id = streamId /\ (ack.fin \/ ~Stale(ack))

DeliverAck(ack) ==
  /\ ack \in acks /\ Unlocked
  /\ acks' = acks \ {ack}
  /\ IF Effective(ack)
     THEN RecvAck(ack)
     ELSE UNCHANGED smVars
  /\ attached' = IF ack.fin \/ ack.cancel THEN attached \ {ack.id} ELSE attached
  /\ UNCHANGED <<linkVars, rpc, jm, pendingMeta, mainVars, disk, streamDone, histVars>>

-----------------------------------------------------------------------------
(* runOutputLoop.                                                          *)

(* reader.Close() as the loop or restartStreaming leaves the stream.       *)
CloseReader(id) ==
  /\ readers' = [readers EXCEPT ![id] = Closed(@)]
  /\ known' = known \ {id}
  /\ acks' = IF readers[id].closed THEN acks
             ELSE Sent({AckFrom(id, readers[id], FALSE, TRUE)})

(* Read returns bytes and the stream is still the job's.                   *)
LoopRead(id) ==
  LET r == readers[id]
      next == AfterRead(r, ReadSize)
  IN
  /\ loops[id].pc = "read" /\ current = id
  /\ ReadsBytes(r)
  /\ loops' = [loops EXCEPT ![id] = [pc |-> "append", chunk |-> ReadBytes(r, ReadSize)]]
  /\ readers' = [readers EXCEPT ![id] = IF AcksRead(r, next) THEN Acked(next) ELSE next]
  /\ acks' = IF AcksRead(r, next) THEN Sent({AckFrom(id, next, FALSE, FALSE)}) ELSE acks
  /\ UNCHANGED <<smVars, linkVars, rpc, jmVars, known, current, ctl, file,
                 totalGap, disk, streamDone, histVars>>

(* Read returns but another stream has taken over: what it returned is     *)
(* thrown away.                                                            *)
LoopSuperseded(id) ==
  /\ loops[id].pc = "read" /\ current # id
  /\ CanRead(readers[id])
  /\ loops' = [loops EXCEPT ![id] = [pc |-> "done", chunk |-> <<>>]]
  /\ CloseReader(id)
  /\ UNCHANGED <<smVars, linkVars, rpc, jmVars, current, ctl, file, totalGap,
                 disk, streamDone, histVars>>

LoopAppend(id) ==
  /\ loops[id].pc = "append"
  /\ file' = file \o loops[id].chunk
  /\ loops' = [loops EXCEPT ![id] = [pc |-> "read", chunk |-> <<>>]]
  /\ lateAppend' = (lateAppend \/ current # id \/ ctl.pc = "statted")
  /\ UNCHANGED <<smVars, linkVars, acks, rpc, jmVars, readers, known, current, ctl,
                 totalGap, disk, streamDone, used, drops, crashes, timeouts>>

(* Read reports the end: the stream is done.                               *)
LoopEnd(id) ==
  /\ loops[id].pc = "read" /\ current = id
  /\ ReadEnds(readers[id])
  /\ loops' = [loops EXCEPT ![id] = [pc |-> "done", chunk |-> <<>>]]
  /\ streamDone' = TRUE
  /\ CloseReader(id)
  /\ UNCHANGED <<smVars, linkVars, rpc, jmVars, current, ctl, file, totalGap,
                 disk, histVars>>

(* The file cache is written back (flusher, every few seconds).            *)
Flush ==
  /\ crashes < MaxCrashes          \* without a crash to come it is invisible
  /\ disk' = [size |-> Len(file), gap |-> totalGap]
  /\ UNCHANGED <<smVars, linkVars, acks, rpc, jmVars, mainVars, streamDone, histVars>>

-----------------------------------------------------------------------------
(* doReconnectJob: only when the job is not connected; it brings the       *)
(* connection up and then runs restartStreaming, whose first step is Stat. *)

Reconnect ==
  /\ ~link /\ ctl.pc = "idle"
  /\ link' = TRUE
  /\ packets' = {}               \* what was sent meanwhile went nowhere
  /\ ctl' = [Idle EXCEPT !.pc = "connected"]
  /\ UNCHANGED smButPackets
  /\ UNCHANGED <<carried, acks, rpc, jmVars, readers, known, loops, current, file,
                 totalGap, disk, streamDone, histVars>>

RestartStat ==
  /\ ctl.pc = "connected"
  /\ ctl' = [pc |-> "statted", id |-> NoStream, seq |-> Len(file) + totalGap,
             gap |-> totalGap]
  /\ UNCHANGED <<smVars, linkVars, acks, rpc, jmVars, readers, known, loops, current,
                 file, totalGap, disk, streamDone, histVars>>

RestartCreateReader ==
  LET id == used + 1 IN
  /\ ctl.pc = "statted"
  /\ used' = id
  /\ readers' = [readers EXCEPT ![id] = NewReaderWithSeq(ctl.seq)]
  /\ known' = known \union {id}
  /\ current' = id
  /\ ctl' = [ctl EXCEPT !.pc = "preparing", !.id = id]
  /\ rpc' = IF link THEN [op |-> "prepare", id |-> id, seq |-> ctl.seq] ELSE NoRpc
  /\ UNCHANGED <<smVars, linkVars, acks, jmVars, loops, file, totalGap, disk,
                 streamDone, drops, crashes, timeouts, lateAppend>>

(* The gap grows by what the job manager no longer has.  A mutant: it is   *)
(* not recorded.                                                           *)
GapIgnored(seq) == ctl.gap
GapAfter(seq)   == ctl.gap + Greatest(0, seq - ctl.seq)

(* The reply to PrepareConnect: the stream is over, or it goes on, maybe   *)
(* after a gap; StartStream is next.                                       *)
RestartPrepared ==
  /\ ctl.pc = "preparing" /\ rpc.id = ctl.id
  /\ \/ /\ rpc.op = "finished"
        /\ streamDone' = TRUE
        /\ CloseReader(ctl.id)
        /\ ctl' = Idle /\ rpc' = NoRpc
        /\ UNCHANGED totalGap
     \/ /\ rpc.op = "prepared"
        /\ totalGap' = GapAfter(rpc.seq)
        /\ readers' = [readers EXCEPT ![ctl.id] =
                         IF rpc.seq > ctl.seq THEN UpdateNextSeq(@, rpc.seq) ELSE @]
        /\ ctl' = [ctl EXCEPT !.pc = "starting"]
        /\ rpc' = [rpc EXCEPT !.op = "start"]
        /\ UNCHANGED <<streamDone, known, acks>>
  /\ UNCHANGED <<smVars, linkVars, jmVars, loops, current, file, disk, histVars>>

RestartStarted ==
  /\ ctl.pc = "starting" /\ rpc.op = "started" /\ rpc.id = ctl.id
  /\ loops' = [loops EXCEPT ![ctl.id] = [pc |-> "read", chunk |-> <<>>]]
  /\ ctl' = Idle /\ rpc' = NoRpc
  /\ UNCHANGED <<smVars, linkVars, acks, jmVars, readers, known, current, file,
                 totalGap, disk, streamDone, histVars>>

(* Either RPC fails: an error reply, the connection lost, or a timeout,    *)
(* after which the request or its reply may still be under way.            *)
RestartFails ==
  /\ ctl.pc \in {"preparing", "starting"}
  /\ \/ /\ rpc.id # ctl.id \/ rpc.op = "failed"
        /\ UNCHANGED timeouts
     \/ /\ rpc.id = ctl.id /\ timeouts < MaxTimeouts
        /\ timeouts' = timeouts + 1
  /\ CloseReader(ctl.id)
  /\ ctl' = Idle
  /\ UNCHANGED <<smVars, linkVars, rpc, jmVars, loops, current, file, totalGap,
                 disk, streamDone, used, drops, crashes, lateAppend>>

-----------------------------------------------------------------------------
(* The job manager's RPC handlers; jm.lock is held throughout each.        *)

Reply(op, id, seq) ==
  rpc' = IF rpc.op = "taken" /\ rpc.id = id THEN [op |-> op, id |-> id, seq |-> seq] ELSE rpc

(* PrepareConnect: nothing to connect to when the stream is over; else the *)
(* previous client is disconnected first.                                  *)
PrepareConnect ==
  /\ rpc.op = "prepare" /\ jm.pc = "idle" /\ Unlocked
  /\ \/ /\ terminalEventAcked
        /\ rpc' = [rpc EXCEPT !.op = "finished"]
        /\ UNCHANGED <<smVars, attached, jm>>
     \/ /\ ~terminalEventAcked
        /\ rpc' = [rpc EXCEPT !.op = "taken"]
        /\ jm' = [pc |-> "connect", id |-> rpc.id, seq |-> rpc.seq]
        /\ IF connected THEN ClientDisconnected ELSE UNCHANGED smVars
        /\ attached' = attached \ {streamId}
  /\ carried' = carried \union {rpc.id}
  /\ UNCHANGED <<link, acks, pendingMeta, mainVars, disk, streamDone, histVars>>

(* It then calls ClientConnected with the window corked.  An ack of the    *)
(* end cannot slip in between: nobody is connected.                        *)
PrepareCall ==
  /\ jm.pc = "connect"
  /\ ClientConnected(jm.id, 0, jm.seq)
  /\ jm' = [jm EXCEPT !.pc = "called"]
  /\ UNCHANGED <<linkVars, acks, rpc, attached, pendingMeta, mainVars, disk, streamDone, histVars>>

PrepareReply ==
  /\ jm.pc = "called"
  /\ \/ /\ ConnectReturn
        /\ pendingMeta' = jm.id
        /\ Reply("prepared", jm.id, Greatest(call.head, call.seq))
     \/ /\ Unlocked                    \* ClientConnected returned an error
        /\ Reply("failed", jm.id, 0)
        /\ UNCHANGED <<smVars, pendingMeta>>
  /\ jm' = NoHandler
  /\ UNCHANGED <<linkVars, acks, attached, mainVars, disk, streamDone, histVars>>

(* StartStream attaches the pending stream, whoever asked, and uncorks it. *)
(* Its error replies need a second start of one preparation, which         *)
(* restartStreaming never sends.                                           *)
StartStream ==
  /\ rpc.op = "start" /\ jm.pc = "idle"
  /\ pendingMeta \notin attached \union {NoStream}
  /\ SetRwndSize(ReadWindow)
  /\ attached' = attached \union {pendingMeta}
  /\ pendingMeta' = NoStream
  /\ rpc' = [rpc EXCEPT !.op = "started"]
  /\ UNCHANGED <<linkVars, acks, jm, mainVars, disk, streamDone, histVars>>

-----------------------------------------------------------------------------
(* Faults.  Every loss of the connection costs one stream at most, which   *)
(* bounds them.  The next connection has a broker of its own on the job    *)
(* manager's side.  The stream manager does not notice: it stays connected *)
(* (handleJobDomainSocketClient disconnects it as soon as it has started   *)
(* its goroutines, long before the connection ends).                       *)

LoseLink ==
  /\ drops < MaxStreams - 1 \/ ~link
  /\ drops' = IF link THEN drops + 1 ELSE drops
  /\ link' = FALSE /\ carried' = {} /\ attached' = {}
  /\ packets' = {} /\ acks' = {} /\ rpc' = NoRpc

LinkDown ==
  /\ link /\ LoseLink
  /\ UNCHANGED smButPackets
  /\ UNCHANGED <<jm, pendingMeta, mainVars, disk, streamDone, used, crashes, timeouts,
                 lateAppend>>

(* The main server dies and starts again: what was not flushed is gone.    *)
Crash ==
  /\ crashes < MaxCrashes /\ LoseLink
  /\ crashes' = crashes + 1
  /\ known' = {}
  /\ readers' = [id \in StreamIds |-> NewReaderWithSeq(0)]
  /\ loops' = [id \in StreamIds |-> NoLoop]
  /\ current' = NoStream /\ ctl' = Idle
  /\ file' = SubSeq(file, 1, disk.size) /\ totalGap' = disk.gap
  /\ UNCHANGED smButPackets
  /\ UNCHANGED <<jm, pendingMeta, disk, streamDone, used, timeouts, lateAppend>>

-----------------------------------------------------------------------------
LoopStep(id) == LoopRead(id) \/ LoopSuperseded(id) \/ LoopAppend(id) \/ LoopEnd(id)

RestartStep ==
  \/ RestartStat \/ RestartCreateReader
  \/ RestartPrepared \/ RestartStarted \/ RestartFails

HandlerStep == PrepareConnect \/ PrepareCall \/ PrepareReply \/ StartStream

LinkStep ==
  \/ \E p \in packets : DeliverData(p) \/ DeliverStray(p)
  \/ \E ack \in acks : DeliverAck(ack)

Next ==
  \/ ManagerStep \/ LinkStep \/ Flush
  \/ \E id \in StreamIds : LoopStep(id)
  \/ Reconnect \/ RestartStep \/ HandlerStep
  \/ LinkDown \/ Crash

Spec == Init /\ [][Next]_vars

(* What the Go scheduler justifies: a goroutine that can take a step takes *)
(* one, and packets, acks and RPCs arrive while the connection lasts.      *)
(* Nothing obliges the program on the PTY to write or to end, nor the      *)
(* cache to be flushed, nor anything to fail, nor the network to return.   *)
LocalFairness ==
  /\ WF_vars(ManagerProgress)
  /\ WF_vars(SenderStep /\ UNCHANGED dsVars)
  /\ \A id \in StreamIds : WF_vars(LoopStep(id))
  /\ WF_vars(LinkStep)
  /\ WF_vars(HandlerStep)
  /\ WF_vars(RestartStep)

OfflineSpec == Spec /\ LocalFairness

(* The network does return and ReconnectJob runs (the user's, or the       *)
(* connection-up handler's).                                               *)
FairSpec == OfflineSpec /\ WF_vars(Reconnect)

-----------------------------------------------------------------------------
(* The output file shows the terminal output in order and no byte twice,   *)
(* across reconnects and crashes, provided no append of a superseded loop  *)
(* fell into a restart (restartStreaming resumes at size plus gap).        *)
FileInOrder ==
  ~lateAppend => \A i, j \in 1 .. Len(file) : i < j => file[i] < file[j]

(* The same without the proviso: the output picks up where it left off,    *)
(* whatever the old runOutputLoop still had in hand at the reconnect.      *)
BytesOnce == \A i, j \in 1 .. Len(file) : i < j => file[i] < file[j]

(* The reader of the current stream stands where the file, what its loop   *)
(* and buffer still hold, and the recorded gap add up to: restartStreaming *)
(* relies on exactly this when it computes where to resume.                *)
Accounted ==
  ~lateAppend /\ current # NoStream =>
    readers[current].nextSeq = Len(file) + totalGap + Len(loops[current].chunk)
                                 + Len(readers[current].buffer)

(* When the loop of the current stream has seen EOF, every byte written to *)
(* the terminal is in the file or counted as a gap.                        *)
EndComplete ==
  ~lateAppend /\ current # NoStream =>
    (loops[current].pc = "done" /\ readers[current].eof
       => Len(file) + totalGap = cb.total)

(* The file is the output: its order is kept, every byte is accounted for  *)
(* on the way, and at the end it is whole.                                 *)
FileIsOutput == FileInOrder /\ Accounted /\ EndComplete

(* The same when the PTY ends with a read error, as a Linux PTY does when  *)
(* its shell exits: the final output is kept, even on one connection.      *)
FinalOutputKept ==
  drops = 0 /\ streamDone => Len(file) = cb.total

(* The job manager drops output only when the running reader has it: the   *)
(* head of a connected buffer never passes the reader's position. (Holds   *)
(* while the output fits the buffer; else see StreamStartsWhereTold.)      *)
HeadBehindReader ==
  connected /\ streamId \in carried /\ loops[streamId].pc \in {"read", "append"}
    => HeadPos(cb) <= readers[streamId].nextSeq

(* Without a crash and without overflow a reconnect loses nothing.         *)
NothingMissing == crashes = 0 /\ cb.total <= CirBufSize => totalGap = 0

(* Every byte the program writes reaches the file or is counted as a gap,  *)
(* also when the connection broke in between, unless the stream is done.   *)
OutputArrives ==
  \A n \in 1 .. MaxBytes :
    cb.total >= n ~> Len(file) + totalGap >= n \/ streamDone

(* A stream that ended is reported to be done.                             *)
EndReported == terminalEvent # "none" ~> streamDone

(* It is, when no output was lost on the way.                              *)
EndReportedUnlessGap == terminalEvent # "none" ~> streamDone \/ totalGap > 0

(* A program that fills the buffer while the connection is down goes on.   *)
NeverBlockedWhileDown == ~link /\ cb.waiter ~> ~cb.waiter

=============================================================================
