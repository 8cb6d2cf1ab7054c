# Wave Terminal (wove): TLA+ models of its sessions, RPCs, connections and files

Wave Terminal is a terminal with a Go main server (`cmd/server`, `pkg/`), an
Electron frontend, and a helper `wsh` that runs on every remote host. What makes
it more than a user interface is the machinery between those processes: terminal
sessions that outlive the connection ("durable sessions"), a router for RPCs over
links that come and go, connection controllers, a write-back file store. This
directory models that machinery in TLA+, checks it with TLC on small instances and
proves what matters most with TLAPS for every size. Paths below are relative to
the repository; `PROJECT.json` lists runs, mutants, the line-by-line map, findings
and hazards.

## 1. The system's parts

The table has the state each part keeps, what may be done to it, and the
properties that make it correct. "Modelled in" says where that stands today.

| Part (source) | State | Operations | What makes it correct | Modelled in |
|---|---|---|---|---|
| Output ring (`pkg/jobmanager/cirbuf.go`) | ring, read/write position, count, total size, sync flag, effective window, wait channel | `WriteAvailable`, `Consume`, `SetEffectiveWindow`, `PeekDataAt`, `HeadPos` | a byte stays under its stream position; a blocked writer is woken by every path that makes room; nothing is overwritten in sync mode | `OutputBuffer` (counters), `CirBuf` (bytes) |
| Stream manager (`pkg/jobmanager/streammanager.go`) | connected, stream id, windows, bytes in flight, highest ack, terminal event and whether it was sent and acked | `AttachReader`, `ClientConnected`, `ClientDisconnected`, `RecvAck`, `SetRwndSize`, `Close`, PTY read loop, sender loop | unacked output can be sent again; no lost wakeup; packets of a stream tile the output; the end follows everything | `StreamManager` |
| Stream reader (`pkg/streamclient/streamreader.go`) | next position, buffer, out-of-order packets, last window sent, eof/err/closed | `RecvData`, `Read`, `UpdateNextSeq`, `Close` | in order, once; window respected; end reported after all data | `StreamReader` |
| Stream broker (`pkg/streamclient/streambroker.go`) | readers and writers by stream id, their routes, work queues | create/attach, `RecvData`, `RecvAck` and their work items | a packet reaches its reader or is answered by a cancel | `DurableStream` (partly) |
| Job manager handlers (`pkg/jobmanager/jobmanager.go`, `mainserverconn.go`) | attached connection, connected stream, pending stream, command, input queue | `PrepareConnect`, `StartStream`, `StartJob`, input, exit notification | one stream at a time; the exit is reported once and not lost | `DurableStream` (streaming), `JobLifecycle` (start, exit) |
| Job controller (`pkg/jobcontroller/jobcontroller.go`) | `jobStreamIds`, connection status per job, job record and its output file | `StartJob`, `runOutputLoop`, `restartStreaming`, `ReconnectJob`, `TerminateJobManager`, pruning | output picks up where it was left, nothing twice, gaps accounted for; status matches the process | `DurableStream` (output), `JobLifecycle` (the record) |
| Input reorder queue (`pkg/utilds/quickreorderqueue.go`) | expected number, buffer, sessions in order of appearance, timer, output channel | `QueueItem`, `onTimeout`, `Close` | input in order and once; never waits for ever; never blocks with its lock | `ReorderQueue` |
| Stream writer, work queue (`pkg/streamclient/streamwriter.go`, `pkg/utilds/workqueue.go`) | buffer of `Write`, bytes in flight, highest ack; FIFO | `Write`, `RecvAck`, `Close` | all written bytes are sent once; a blocked writer is woken | planned |
| RPC router (`pkg/wshutil/wshrouter.go`) | links, routes, upstream, RPC table, backlog | register, trust, bind/unbind, unregister, message in, backlog loop | responses keep their order and are complete; rebinding survives a late unregistration; the backlog is worked off | `Router` (messages), `JobRoutes` (rebinding) |
| RPC client/server (`pkg/wshutil/wshrpc.go`) | response channels by request id, contexts, three bounded channels, handlers | send, stream responses, cancel, timeout, serve | a stream has no holes; the server loop lives; every request returns | `WshRpc` |
| File store (`pkg/filestore`) | cache entries with pins, dirty parts, error counts; database | make, write, append, compact, read, delete, flush | what was written is read; what is saved was a whole content; pinned entries stay, clean ones go | `FileStore`, with `StoredFile` as what it promises |
| Connection controller (`pkg/remote/conncontroller`) | status, client, monitor, health, session of the connserver, lifecycle lock | ensure, connect, disconnect, wait for the end, health reports | nothing is left open; the goroutines of an old client do no harm to the bookkeeping of the new one; a dead client is given up | `ConnController` |
| Remote job connections (`pkg/wshrpc/wshremote/wshremote_job.go`) | map from job id to connection, one cleanup per connection | start, reconnect, disconnect, loss | afterwards map, route, attached client and main server agree; one client at most | `JobRoutes` |
| Block controllers (`pkg/blockcontroller`) | controller registry, resync mutex per block | resync, destroy | a destroyed block has no controller | planned |
| Event broker (`pkg/wps`) | subscriptions, persisted events | subscribe, publish, read history | each subscriber sees matching events once | planned |
| Tool approval (`pkg/aiusechat/toolapproval.go`) | registry of requests | register, decide, cancel at close | every wait ends | planned |

How they interact. The program on the remote PTY writes; the read loop of the
stream manager puts that into the ring and its sender loop makes data packets. They
travel over the domain socket and the connection to the main server, whose broker
gives them to a reader; the reader acks on receipt and again when it was read;
`runOutputLoop` appends what it reads to the job's file. After the link was lost,
`doReconnectJob` asks the job manager to `PrepareConnect` at position file size +
total gap, learns from where output can go on, records the difference as a gap
(`UpdateNextSeq`), and asks it to `StartStream`. Keyboard input goes the other way:
one RPC per item, each handled in a goroutine of its own, put back in order by the
reorder queue in front of the PTY. All of these calls are `WshRpc` requests that a
`WshRouter` passes on. The remote host is reached through an `SSHConn`, whose connserver has a router of its own; it dials
the job managers of that host and binds a route for each. The job's output and the content of blocks are
files of the file store.

What is hard about it. Three goroutines share the stream manager, and one of them
uses the ring without the manager's lock. Acks and packets of up to three streams
are under way at once. `restartStreaming` runs against the output loop it replaces;
its RPCs may time out with their handlers still running; the main server may crash
with a file cache that was flushed at some earlier time. The reorder queue's timer
callbacks race for its lock with the calls that stop them. A file is flushed while it is
written, and a crash comes in between. Answers of an RPC pass a router whose links
come and go, through channels that may be full, to a caller that may have given up. A
connection's goroutines outlive it and meet the state of the next one. `PROJECT.json` lists
each of these as a hazard at its line, with the properties that cover it or the
planned module that will.

## 2. The modules

`OutputBuffer` is the ring as counters: total, count, window, sync flag and whether
a writer is parked. Its operators (`Written`, `Parked`, `Consumed`, `WithWindow`)
are the methods of `CirBuf` as functions on a record, so that `StreamManager` can use
several of them in one step; `BufSpec` is the ring alone, in any use.

`CirBuf` is the same code with its slots, its wrap-around and real contents (a byte
is its position in the output). It is the detailed specification, and
`ImplementsOutputBuffer` says that it implements `BufSpec` under the mapping
`Counters`.

`StreamManager` extends `OutputBuffer`. Every method that runs under `sm.lock` is one
action; the read loop is one action per critical section (`CheckClosed`, `ReadPty`,
`WriteAvailable`, `SignalWritten`), and `ClientConnected`, which looks at the ring several
times while the read loop may write to it in overwrite mode, is split at those looks
(`ClientConnected`, `ConnectConsume`, `ConnectReread`, `ConnectReturn`); `call` holds its
local variables, and `Unlocked` is `sm.lock` being free. `drainCond` has one waiter,
`senderWaits`. The client of `SMSpec` is arbitrary: it connects with any position and
window, disconnects at any time, and sends any ack in any order; the one thing it
does not do is acknowledge an end it was not sent.

`StreamReader` has no behaviour of its own: a Reader is a record, and each method is the
operator that gives the next record, each one critical section of `r.lock`.

`DurableStream` composes `StreamManager` and `StreamReader` with the broker's routing, the
RPC handlers of the job manager, the output loops and `restartStreaming`. Packets and
acks are sets from which any element may be delivered next. (The real link keeps the order in
each direction and the work queue keeps it too; `cmd/test-streammanager/deliverypipe.go`,
the repository's own network for this code, reorders, and the reader handles it. The
model includes both.) `carried` are the streams of the present connection; a lost
connection loses what is under way. `ctl` is `doReconnectJob` and `restartStreaming` with
their local variables, `rpc` the one call they have outstanding, `jm` the handler of
`PrepareConnect` (it holds `jm.lock`). `loops[id]` is the `runOutputLoop` of a stream:
between Read and append it holds a `chunk`. `file` and `totalGap` are what the main
server sees, `disk` what was flushed; a crash goes back to `disk`.

`ReorderQueue` is the input queue: one action per branch of `QueueItem`, the timer callback
`OnTimeout`, `Close`, the consumer `Take`, and the clock. Time is only ever compared
with an item's age, so an item has its place in the order of arrival, and `expired` says
up to which arrival the timeout is over. `timers` holds running timers and those whose
callback already waits for the lock, which `Stop` cannot recall; `timer` is `q.timer`.
`emitted` has everything put into the channel, with the time and the reason.

`StoredFile` is what the file store promises: for each file a content and a saved content.
A write, append or compaction changes the content; saving makes the saved content a content the
file had as a whole; a crash, or four failures to save, brings the saved one back.
`FileStore` is the code: the cache entry of a file with the parts that were loaded or
written, pin counts, the lock of an entry, and the goroutines (`at`, `job`) between taking
an entry, locking it, working and unpinning; the flusher with its list of dirty keys
(`toFlush`); and the database, whose transactions may fail or may commit after the
caller's context is over. A write writes the number of its call, so that a read shows
whose bytes it returns. A circular file keeps the parts of its last bytes under their
wrapped index. `ReadsAndRestarts` says that `FileStore` implements `StoredFile`; the mapping (`Promise`) takes what a read returns
now (`ReadNow`, through entry and database), what it would return after a restart (`ReadOnRestart`, the database alone) and the errors counted in the entry (`FlushErrors`).

`WshRpc` has both ends of an RPC: the caller's goroutine, its response channel, the goroutine that waits
for its context, `runServer` with the message in its hands (`loop`), the bounded channels, and per request a
handler. `runServer` may wait up to a second for room in a response channel and then
gives the request up; a send on a closed channel panics and ends it.

`Router` has the messages of one router: per link the goroutine that receives
(`Ask`, `Respond`, `Cancel`), `runServer` as one message at a time with the steps of
looking up, sending and registering apart, the bounded client of each link, its backlog and `processBacklog`, and
`TrustLink`, `BindRoute` and the two halves of `UnregisterLink` in between. What has a request's id, the request and its cancel,
passes only from a trusted link; another link has an error for an answer (`Admitted`).

`JobRoutes` has the connections of one remote host to one job manager: a call
(`RemoteStartJob` or `RemoteReconnect`) dials one connection and is known by it; `cleanup` is how far
its `cleanupOnce` is, `auth` how far the authentication the job manager runs over that link, in
both processes. `jobRoute` is the router's map entry, `upstream` the last announcement.

`ConnController` has one `SSHConn`: `holder` and `stage` are who has `lifecycleLock` and where it
is in `Connect` or `closeInternal`; `waiter` is the `waitForDisconnect` goroutine of each dial, which asks
for the client when it first runs and so may wait for a later one; `serving` are the sessions still waited for,
which clear the connection's field whoever it belongs to by then; monitors report at any time after their dial.
`WaitForConnect` polls: whoever waits may give up while the dial goes on.

`JobLifecycle` has one job: the record in the database (`job`), which survives a crash; the job manager, its command and
the end of the PTY at the host (`mgr`, `cmd`, `eof`); and what the main server has under way. `start`, `term` and `recon` say how far
`StartJob`, `TerminateJobManager` and `ReconnectJob` are, with the pid each read from the record, of the last two one at a time
(`terminateJobManagerGroup`, `reconnectGroup`). A reconnect comes to `PrepareConnect` only with a pid, hence after the command was started. `handler` and `ending` are a `HandleCmdJobExited` and a `runOutputLoop` that have recorded
their half of the end and have not looked at the other one. A route event is handled in a goroutine of its own, so `news` is a
set. `reconcile` is `reconcileConn`. A crash keeps `job` and what is at the host. The bytes are the matter of `DurableStream`
and the replacement of links that of `JobRoutes`; here there is a link or there is none. `timedOut`, `early` and `unchecked` record
how a behaviour went, for the properties.

Each module's mutants (marked as such, e.g. `ConsumedOneMore`) stand next to the
definitions they replace; `PROJECT.json` says which property each of them must break.

## 3. The runs

| Run | Question | Bounds, and why they are enough |
|---|---|---|
| `ring` | positions and contents through wrap-around, overwriting and truncation; refinement of `OutputBuffer` | 3 slots, chunks of 1-2, 8 bytes: the ring wraps twice with every alignment |
| `manager` | the stream manager against any client | 2 slots, 3 bytes, packets of 2, windows 0, 1 and 3 (closed, smaller than a packet, larger than the congestion window), two streams: overflow, partial acks, shrinking windows, one reconnect |
| `durable_overflow` | order, accounting, completeness and flow control of the whole path | 3 bytes through 2 slots, two streams, one crash, one timeout: overflow and a gap, a lost link at every point, an unflushed file, a late reply or handler that meets the next attempt |
| `durable_live` | output arrives, the end is reported; the head stays behind the reader | 2 bytes that fit, a reader window of 1 so that flow control closes, two streams |
| `durable_loss` | is the scrollback kept? (no, section 6) | two streams, no crash |
| `reorder` | the input queue: order, once, patience, room in the channel, timers; everything held back goes out | two sessions of three numbers and one item without, four arrivals, a channel of 3: gaps, latecomers, a full queue, a flush that races a callback. (Five arrivals, 3.9 million states, were checked once as well.) |
| `filestore` | the file store implements `StoredFile`; pins; dirty files get flushed | a regular file that exists and a circular one that does not, parts of 2 bytes, writes of 1 and 3 bytes at offset 1 and appends, up to 6 bytes: partial first and last parts, wrap-around, a write over two parts; one caller beside the flusher and three calls: four failures in a row, deletion and re-creation while a flush is under way, a crash anywhere. (Two callers were checked once as well.) |
| `rpc` | streams without holes, what ends the server loop, timers, that requests return | one stream of a response and an end, one request, one command, channels of one message: every channel is full at some time, a timeout before, in and after each step. (Two responses, 2.3 million states, were checked once for safety.) |
| `router` | answers in order and complete; the backlog is worked off | two links, one route, one request with two responses and the last, clients and input queue of one message: a full client, a backlog of two, a link that leaves at each point |
| `job_routes` | what is left when all is quiet; one client; calls return | two calls and so two connections, start and reconnect or two reconnects, overlapping or not. (Three were checked once for safety, 13 million states; `OneClient` is proved for any number.) |
| `conn` | nothing is left open, the dead are given up | two dials and two callers without a bound on calls: an old waiter, session or monitor meets the next connection; a caller waits for the lock while another connects |
| `job_lifecycle` | is a job recorded as over when it is, and only then? | one job, one mishap at any step (lost link or connection, dead job manager, crash, timeout, a user's reconnect), one automatic reconnect, a block that closes at any time. (Two mishaps, 2.1 million states, were checked once; `DoneIsDead` is proved for any number.) |

The largest run, `durable_overflow`, has 3.1 million distinct states. Deadlock is not checked
where `CHECK_DEADLOCK FALSE` says so: the bounded program stops writing, the stream is
over, or `MaxStreams` is used up, all calls have returned, and the system rests there; that it does not rest too
early is what the liveness properties and the two "stranded" invariants say.

Bounds. `MaxBytes` (output), `MaxStreams` (connections), `MaxCrashes`, `MaxTimeouts`,
`MaxItems`, `MaxSeqNum`, `MaxPlain`, `MaxOps`, `MaxResponses`, `MaxDials`, `MaxMishaps`, `MaxAutos` stand in guards and are named in each module.
`Flush` is only possible while a crash may still come, because it is invisible otherwise.

Properties, the ones with most to lose:

- `NothingStranded` (`SenderNotStranded`, `WriterNotStranded`): neither goroutine sleeps while it has work.
  Every handler that makes room or gives something to send must wake it; the sender's
  exception is the read loop standing between its write and its signal.
- `UnackedHeld`, `OnlySentBytesLeave`, `PacketsTile`: with acks in any order and shrinking
  windows, what is in flight is still in the ring, only sent bytes leave it, and the
  packets of a stream cover a stretch of output without hole or repetition.
- `EndAfterAllAcked`: the end is announced behind the last byte, after its ack.
- `FileIsOutput`: order (`FileInOrder`), completeness at the end (`EndComplete`), and `Accounted`: the reader's position =
  file + gap + what loop and buffer still hold, the equation `restartStreaming` relies on when it computes where
  to resume. They exclude (`lateAppend`) the one interleaving in which they are false; that
  interleaving is `BytesOnce` in section 6.
- `HeadBehindReader`, and `ReaderWithinWindow` in `TypeOK`: the job manager never drops what the reader lacks, and never overruns it.
- `InputInOrder` (`WithinSession`, `GapsWaitedFor`, `SessionsSeparate`, `QueuedOnce`): what the terminal user
  types arrives in order and once; what comes out of order is a latecomer that was
  given up on, and nothing is given up before its time.
- `TimerInTime`, `BufferedIsDelivered`, and `NeverOverfull` in `TypeOK`: each item held back has a timer that ends no later than its own
  time; the channel is never full when the lock is held.
- `ReadsAndRestarts`: whatever parts are cached, flushed, dropped or half written, a read returns
  the file, and a restart finds a content the file had as a whole. `CachedWhileNeeded`: an entry somebody has pinned
  is the one in the cache, and a clean one nobody has pinned is not kept. `DirtyIsFlushed`: a dirty file is saved, given up after four errors, or deleted.
- `StreamWithoutHoles`: what a stream has read is the beginning of what its handler sent. `OnlyCancelEndsServer`: the one thing
  that can bring `runServer` down is a cancel whose `finalize` closes the channel under it. `EndsByItsOwnTime`: the
  context of a call that waits for room in `OutputCh` is not ended by another one. `RequestsReturn`: a stream nobody reads holds up a request for a second at most.
- `ResponsesInOrder`: the one who asked reads the answers in order and without holes from where he can get them, through
  direct sends and backlog alike. `BacklogDrains`: nothing stays in the backlog of a link whose client is read.
- `Settled`: without overlapping calls, what is open at rest is at once the attached client, the bound route, the map entry and what
  was announced. `OneClient`, `CallsReturn` hold with overlapping calls too.
- `RestIsClean`, `DeadNoticed`: when nobody holds the lifecycle lock the connection is whole or nothing of it is left; a dead client does not stay.
- `DoneIsDead`: a record that says terminated or gone has no live job manager behind it, which nobody would ever terminate. `FinishedIsDone`: the
  exit of the command and the end of its output are learned by different goroutines, each of them by a message or by the answer to
  `JobPrepareConnect`; whichever of them was swallowed by a lost link or a crash, a connected job that is over is recorded as over.

### Fairness

`LocalFairness`: a goroutine that can take a step takes one (weak fairness on the read
loop's internal steps, the sender loop, each output loop, the RPC handlers and
`restartStreaming`), and what is under way over a working link arrives. Go's scheduler
is preemptive and fair, mutexes hand over to a starving waiter, and the link is a
stream socket. There is no fairness on the program's output, on the end of the PTY, on
flushes, or on faults. `FairSpec` adds that the network returns and a reconnect is attempted
(the connection-up handler `ReconnectJobsForConn`); `OfflineSpec` does not, and is used
for the question what happens until then. `ReorderQueue` assumes that time passes and that
a callback gets the lock; it assumes neither more input nor a program that reads it.
`FileStore` assumes that the flusher runs and that a dirty file's transaction ends one way or another; `WshRpc`
that goroutines run and timers fire, but not that anybody reads a stream; `Router` that
`processBacklog` and `runServer` run and clients are read; `JobRoutes` that calls and cleanups
go on, not that the job manager answers; `ConnController` that the holder of the lock goes on (each of its steps has a
timeout) and that `waitForDisconnect` gets a lock that is free again and again: strong fairness, which a Go mutex
gives by handing over to a waiter that has waited for a millisecond. `JobLifecycle` assumes that goroutines run and messages over a
link that stands arrive, not that a command ends or that a lost connection comes back; `FinishedIsDone` is about behaviours in which the link finally stands.

## 4. What is proved

The first part of `DurableStreamProofs` is about the stream manager alone and begins with the lemmas about the buffer. It holds
for every capacity, congestion window, packet size and set of windows, under the assumptions named in the
modules: capacity, packet size and congestion window are positive integers, windows
are natural numbers, `NoStream` is no stream id, and the bound `MaxBytes` is a natural number.

The invariant of one buffer is `BufferOK(b)`: the window never exceeds the ring, the
count exceeds neither the ring nor what was written, in overwrite mode it does not exceed
the window, and a parked writer finds the buffer full. (In sync mode the count *may* exceed
the window: `SetEffectiveWindow` does not throw bytes away then.) There is a lemma for each
operator, and from them:

- `BufferInvariant`, `BufferSafe`: `BufSpec => [](WriterNotStranded /\ HoldsAtMost)`.
- `BufferKeepsHead`: a write in sync mode never moves the head.

For the stream manager the inductive invariant is

    Inv == SMTypeOK /\ BufferOK(cb) /\ ConnOK /\ CallOK

`ConnOK` has `ConnectedIsSync`, `UnackedHeld`, that a connected manager has a stream id and
that nothing is in flight without a client. `UnackedHeld` alone is not inductive: a write
may drop the head in overwrite mode, so it needs `ConnectedIsSync`; an ack must not consume more
than is in flight, which is the test in `RecvAck`; and while `ClientConnected` is
between its steps nobody is connected (`CallOK`), so neither an ack nor the sender
runs in between. One lemma per action shows that `Inv` is kept; `ProgressKeepsInv`, on acks, is the
one with the arithmetic. From `Invariant` follow

- `TypeCorrect` (`SMTypeOK`), `UnackedIsHeld` (`UnackedHeld`), `SyncWhileConnected`
  (`ConnectedIsSync`), `PtyNotStranded` (`WriterNotStranded`, `HoldsAtMost`),
- `SentBeforeDropped` (`OnlySentBytesLeave`) and `EndIsFinal` (`DoneIsFinal`), action properties
  proved from `Inv` in the unprimed state,
- `NobodyStranded` (`NothingStranded`), from the last one and `SenderAwake` (`SenderNotStranded`), which is inductive relative to `Inv`. The step that needs thought is an ack that does
  not signal (`QuietAck`): it acks nothing and does not widen the window, so nothing becomes sendable,
- `EndIsLast` (`EndAfterAllAcked`), with `EndOK`: a terminal event implies that the read loop is done and
  that the end is where the output ends; after that the buffer only shrinks.

`ConnectionProofs` is about the two components that keep connections, in two parts that share nothing. The part on `JobRoutes` holds for every
set of connections, with no assumption but that `NoConn` is none of them.
`OneClient` speaks of calls that returned and is not inductive; the invariant says that a call goes
on only with its connection attached (`AttachedIsOpen`), that an open attached connection is the attached client, which
`SetAttachedClient` keeps by closing the one before, and that only what was dialled is cleaned up, authenticated or
recorded (`LinkedFirst`), so that a new connection starts unattached. From it follow `RoutesTypeCorrect` and `OneClientServed`.

The part on `ConnController` holds for every number of dials and every set of callers that is disjoint from them.
`RestIsClean` says nothing while the lock is held, so the invariant says what each stage may rely on (`HolderOK`): before the dial there is no
client, afterwards monitor and client are the same until the monitor is closed, while closing the status is neither connecting nor
connected, and when the fields are cleared no client is open; `OneOpen` says throughout that no client but the current one is up. From it follow
`TypeCorrect`, `NothingLeftOpen` and `HealthOfCurrentClient`.

`JobLifecycleProofs` holds for any number of mishaps and automatic reconnects. `DoneIsDead` is not inductive: an answer may be old when
it is recorded, and `StartJob` might make a job manager after it. The invariant says that the pid is in the record only after the last
step that can make a job manager (`PidIsLast`), that whoever terminates or reconnects has read it (`PidIsKnown`), unless the job was touched
early, and that what an answer still to come will record is true by then and stays true (`AnswerIsTrue`). From it follow `InvHolds` and `NoOrphan` (`DoneIsDead`).
`NeverBeforeTheCommand` says why the refusal of `PrepareConnect` ("job not started") has no action: a pid, in the record or read by a
reconnect, means that the command has been started (`PidMeansCommand`), and `ReconCall` ends without one.

`PacketsCover` (`PacketsTile`) is inductive relative to `Inv` with `TileOK`: for each stream that has begun, the data
packets sent on it tile the bytes from where it started to where it has got to; for the connected client what was sent ends at head + in
flight, and an id that was not answered for has no packets. A
packet is taken at exactly that position, acks move head and in flight against each other, and a stream that is not
connected sends nothing.

The second part of `DurableStreamProofs` is about the whole path, for any window of the reader, size of `Read`, number of streams,
crashes and timeouts (`ReadWindow`, `ReadSize` and `MaxStreams` are positive, streams are numbered from 1). Both results are
far from inductive. The invariant `Sound` is `Inv` and `EndOK` of the stream manager with one conjunct for each part:

- `ReadersOK`: what a reader buffers ends at `nextSeq` and follows without a hole, what its loop has in hand comes right before
  it, and an end it has seen is the end of the output. `RecvData` drains the waiting packets in one go, so its lemmas
  (`LongestRunIs`, `DrainedIs`, `RecvDataIs`) say what any run of waiting packets does to the reader, without computing it.
- `IdsOK`, `BoundOK`: ids are handed out in order, so a new stream is new to everybody: no packet, ack, handler or request knows its id.
- `HandlerOK`, `RpcOK`, `RestartOK`: `restartStreaming`, its one RPC and the handler of `PrepareConnect` agree on stream and position,
  also when the caller has timed out and the handler or its reply goes on.
- `FlowOK`, which `ReaderWithinWindow` needs: a stream is *quiet* until `StartStream` opens its window; from then on everything under way, everything
  that waits at the reader and everything that may be sent before the next ack lies below the reader's limit (*bounded*). There is one exception:
  when the head had moved before the stream was told, all that is sent comes after a byte that no longer exists, and
  the reader takes nothing (*blocked*). An ack is bounded by the limit of the reader at the time it left, which never falls; so acks
  may be late, lost or out of order.
- `FileOK`: the bytes of the file rise and stay below the position it stands for, size plus gap (`InFile`), the same holds of what was
  flushed, the position of the current reader less its buffer is what the file and the loop's chunk add up to, and from the Stat to the
  reply nothing is appended. All but the types is void once an append has fallen into a restart (`lateAppend`), as `FileIsOutput` is.

`StepMoves` says once what every step does to the manager's side: its invariants hold, the head never goes back and the end stays. One lemma for
each conjunct (`StepKeepsReaders`, `StepKeepsFlow`, `StepKeepsFile`, ...) then treats each action, and `SoundAlways` puts them together. From it follow
`Types` (`TypeOK`, with `ReaderWithinWindow`) and `OutputInFile` (`FileIsOutput`).

The third part is about what the job manager drops. `NothingDropped` says that `HeadBehindReader` holds as long as all output so far fits
the buffer (`AllFits`); it assumes nothing of the constants, and `NothingDroppedThatFits` drops the proviso for a program that
writes no more than that, as in the runs. The proviso is real: `StreamStartsWhereTold` (section 6) shows the overflow. The invariant `NoneDropped`
holds next to `Sound`. In overwrite mode the window is the whole buffer (`Fits`), so a write moves no head and only `ClientConnected` and acks
do (`WhatMovesHead`); the main server is then told exactly where the head is (`ToldExactly`), and nothing acks a prepared stream. An ack that
comes when the broker has forgotten the reader, which `FlowOK` says nothing about, is the delicate case: a reader that somebody still
reads was forgotten only at its end (`HeardToTheEnd`), and then it either has everything or the buffer was empty when the error was sent.

`CirBufProofs` holds for every ring size, packet size and bound on the bytes: `CirBufSize` and `MaxPacketSize` are positive,
`MaxBytes` a natural number. The inductive invariant says that both indices are where the wrapped positions are (`RingPlaced`), that every
position from the head on has its byte in its slot (`BytesInPlace`), and what waits for what. The lemmas it rests on are about `Wrap`:
adding to a wrapped position wraps the sum, and two positions less than a ring apart share no slot. From it follow
`RingTypes`, `PeekedBytes`, and `RingImplementsBuffer`: each method maps to the operator of `OutputBuffer` of the same name,
and what only moves bytes to a stutter. So what is proved of `BufSpec` and the stream manager holds of the ring of bytes.

For `JobRoutes`, `Settled` speaks of behaviours in which calls did not overlap; `AloneInv` says what that gives: one connection at most is
not cleaned up (`Serial`), a call finds it in the map (`FoundByCalls`), and what its authentication has set up stands until its
cleanup (`BoundUntilCleanup`). `OneAtATime` proves it, `RoutesSettle` that it gives `Settled`.

`Types` of `JobLifecycleProofs` needs nothing but the steps; it is proved in the named parts of `TypeOK`.

`WshRpcProofs` holds for any disjoint sets of streams, requests and commands, any number of responses, and channels of any
size that have room for one message. Its invariants build on each other:

- `BaseInv` (`BaseHolds`): `TypeOK` and `Registry`. The map has a call under its own id only while its response channel is open.
- `Once` (`OnceHolds`): a call is asked once, so its request is in transit or its handler has begun, never both, and nothing
  answers before; while it is asked its channel is the registered one or closed. From it `OwnTimeOnly` (`EndsByItsOwnTime`): the
  only steps that end the context of a call that still waits to be sent are its own timer's; `unregisterRpc`
  of the shared empty id reaches commands only.
- `HandInv` (`HandHolds`): a request is answered once, into an empty or closed channel, and the channel `runServer` has taken out of the map is
  open while nobody has cancelled. From it `OnlyCancelIsFatal` (`OnlyCancelEndsServer`).
- `StreamInv` (`StreamHolds`): what was read, what is in the channel, in the hands of `runServer` and in `InputCh` are, in this order, the
  numbered responses without a gap up to what was produced, with the last one after all others. It must only hold while the
  channel is open and `runServer` reads (`Flowing`), and of streams whose handler did not run out of time; what was read is a
  prefix for good. From it `StreamsHaveNoHoles` (`StreamWithoutHoles`).

`FileStoreProofs` holds for any finite sets of files and callers and any lengths and offsets of writes. The assumptions: part size and size of circular
files are positive and the latter is a multiple of the former, as `MakeFile` rounds it; the flusher is no caller; the bounds are natural
numbers; `NoPart` and `NoFile` are no data. The inductive invariant is

    Inv == TypeOK /\ PinnedIsCached /\ CleanEntriesLeave /\ PinsCounted /\ EntryPerFile /\ CleanIsCleared

The two halves of `CachedWhileNeeded` (`PinnedIsCached`, `CleanEntriesLeave`) are not inductive alone: that the last unpin of an entry leaves nobody with it needs
`PinsCounted` (the pin count is the number of goroutines that hold the entry), that a file's entry is dropped for
this file needs `EntryPerFile`, and a fresh entry starts without parts or errors by `CleanIsCleared`. `FreeEntryExists` counts: there is an entry
for each file and each goroutine, so one is free when a call needs it. From `InvHolds` follow `Types` (`TypeOK`) and `CachedExactlyWhileNeeded`.

That `FileStore` implements `StoredFile` is proved step by step. First the arithmetic of parts: two offsets of a
circular file that it keeps at the same time never share a place (`SamePlace`), and only the part the file begins in is the part it
ends in (`LastBlock`). The lemma the code depends on is `PartIsCompleted`: a part that a write covers only in part, and of which the file keeps
another byte, is among the parts `WriteAt` loads first. From it `ReadAfterWrite`: reading after a write gives the written bytes and
otherwise what was read before. Then each action maps to one of `StoredFile` or a stutter: `WriteRefines`, `RewriteRefines` and `CallRefines` for calls, `FlushRefines`,
`CrashRefines`, `PinReads` and `UnpinReads` for what changes no file, `InitRefines` for the start.

`PartIsCompleted` is false of one write, and the attempt to prove it showed which: a `WriteAt` that covers whole the part in the middle of which a
circular file begins (`CoversBeginning`; item 11 of section 6). So `StoresFiles` proves `ReadsAndRestarts` of behaviours that
have no such write (`SparesBeginning`), and `StoresWhatTheProgramWrites` proves it with no condition when `Offsets` is empty, that is when files are
appended to, replaced, compacted, made and deleted but not written at an offset; nothing but the tests calls `WFS.WriteAt`.

`RouterProofs` holds for any sets of links, routes and requests, any number of responses and channels of any size. Queues are sequences, so its lemmas
say what appending to one, taking its head and one backlog round do to who is asked, what is answered and in which order.

- `BaseInv` (`BaseHolds`, and from it `Types`): `TypeOK`, what `runServer` holds at each of its stages (`StageTypes`), who asks and answers is
  or was a link (`PeersSeen`), and a request comes from the one who asked it (`IngressIsAsker`).
- `Orderly(q)`, one for each request. `ResponsesInOrder` is not inductive: it is about what was read and what waits for the asker, and a response
  comes there from `runServer` and `inputCh`. While a trusted leaf answers and the asker is still there, `Line(q)` says that what was read, what waits in the
  asker's client and backlog, what `runServer` has in hand and what is in `inputCh` are, in this order, one rising line (`ReadInOrder`, `InLine`) of
  the numbers produced so far (`InNumbers`), without a hole (`NothingMissing`), and that the routing entry names the asker until the last
  response has passed, so that none before it is dropped (`RoutedBack`). After the last one the entry may be gone, and a second last
  response is dropped or is still behind the first. That the line starts empty needs `RequestOnce` (a request is in one place at
  most: `inputCh`, `runServer`, a queue, or with its answerer) and `FirstAsked` (nothing answers it before it is delivered, so the table has no
  older entry).
- `LeavesHeard`: the request of a link that was not trusted goes nowhere, so nobody answers it. Such a link has an error for its request and another
  for its cancel, which carries the same id; in `Line` that second error would be out of order (`HeardBefore`, `RefusedKeepsOrder`).

The one delicate step is registration: `runServer` registers a request after it has sent it, and its answer may already be in `inputCh`. `runServer`
takes that answer only after it has registered, so a trusted leaf's responses find the entry; those of an untrusted link need not
(item 7 of section 6), which is why `ResponsesInOrder` is about trusted ones. Most steps do not concern most requests: `Unconcerned` says once what must
stay as it is for `Orderly(q)` to stay. `InvHolds` is that `Inv` is kept, and `InOrder` (`ResponsesInOrder`) follows by `LineIsInOrder`.

`ReorderQueueProofs` holds for any finite set of sessions, any bounds on items and calls, and a channel of any positive size
(`BoundsAssumption`, `BufSizeAssumption`; `NoSession` is no session). None of its results is inductive. The invariant is

    Inv == TypeOK /\ BufferOK /\ EmittedOK /\ CoveredOK /\ TimersOK /\ InputInOrder

- `BufferOK`: all that waits is of the current session and not below `nextSeqNum`, because a new session flushes the buffer and an old one
  passes it by. So what is sorted is of one session, where numbers differ, and can be sorted (`CanBeSorted`: the least first, by induction on the
  size of the set with the least number principle, `LeastNumber`).
- `EmittedOK`: what has left is of a session seen before and, if of the current one, below `nextSeqNum`. Whatever the queue gives out next is
  therefore after it in its session, or came after its successor had left.
- `CoveredOK`: below `nextSeqNum` no number is missing but those that the timer gave up when it gave out a greater one. This is what
  `GapsWaitedFor` needs, which speaks only of items that were given out in turn: a run from the buffer continues without a gap (`RunFrom`).
- `TimersOK`: while something waits, `q.timer` is a timer that runs or whose callback waits for the lock, and it was set no later than any of
  it arrived. A callback that `Stop` came too late for stays behind only when a new session flushes or `Close` comes, so there are
  at most as many as sessions were seen, and one; hence `TimerIds` has a free one (`FreeId`).

`OrderKept` says once when appending to what was given out keeps the four parts of `InputInOrder`, with `PlacesKept` for a new session; each branch
of `QueueItem` and `OnTimeout` then has to show only that what it gives out fits behind what left before. `InvHolds` gives `TypeCorrect`, in which
`NeverOverfull` is that nobody blocks on `outCh` with the lock, `LeavesInOrder` (`InputInOrder`) and `TimerRunsInTime` (`TimerInTime`).
`Sorted` is a choice among the sequences of the items, not a sort, so that the provers can reason about it; the order is total, so there is one.

So every safety invariant that the runs check is proved, for all values of the constants or with the provisos named above. Only model-checked
are the liveness properties, `BacklogDrains` of `Router` and `BufferedIsDelivered` of `ReorderQueue` among them. Liveness and refinement under fairness stay with TLC, because TLAPS does not handle ENABLED or fairness.

## 5. What is left out of the modelled parts

- Sizes: a chunk is some bytes, never 4096 of them; the constants of the code (64 KiB window,
  4 KiB packets, 2 MiB ring) are the CONSTANTS.
- Authentication, logging, job records other than `StreamDone` and the gap, base64.
- The broker's removal of a reader after its fin is a work item of its own in the code; here
  it is one step with the ack, and `DeliverStray` has both answers to a packet that comes after.
- The limit of one cancel per second and stream is the choice in `DeliverStray`.
- `Rwnds` plays no part in `DurableStream`: its streams are prepared with a window of 0 (corked) and
  opened to `ReadWindow` by `StartStream`, as `restartStreaming` does it.
- A failing append to the file is not in `DurableStream` (see the hazard at jobcontroller.go:830).
- `SetNextSeqNum` of the reorder queue is called only by its test. Two sessions first seen in
  the same millisecond would be ordered by their ids; the comment in the code excludes it.

- File store: SQLite itself; `readAt` and `Stat` are reads of the same state and are compared with the file;
  meta data is one value; locking of entries is a mutex without order.
- `WshRpc`: events, stream brokers that hang on it, the encoding of messages; error texts.
- A lost connection takes the calls on it along in `DurableStream`: a handler of the job manager left over from an old connection does not meet the stream
  that a later attempt has prepared.
- `ReorderQueue`: an item comes once and numbers start at 1, as the one sender (the terminal's input) numbers them; the repeated items and the item
  without a number of its unit test are not produced.
- `WshRpc`: the error that ends a stream (`SendResponseError`) is the last response like any other; who reads takes either for the end.
- Flow control with a window so large that a fifth of it holds an ack back: with the window of `DurableLive` it never does, and what wakes the sender
  at a closed window is the ack of an emptied buffer. `DurableLive` has no timeouts either: a connected job whose `JobPrepareConnect` timed out is not retried.
- `Router`: the control route, which a link that is not trusted may call (`TrustLink` is what comes of it); links that are routers themselves, the upstream link and its loop, tokens. `JobRoutes` has the announcements
  to the upstream as the last one queued, and starting the job manager process as part of the call; a
  reconnect that finds the process gone changes nothing.
- `ConnController`: the domain socket (it is opened before the session and closed with the client, and its late
  clearing is like that of the session), installing wsh and the questions to the user, published events, `LastConnectTime` and
  counters, the timing of keepalives (a monitor may report anything at any time).
- `JobLifecycle`: pruning, `DeleteJob` and `DisconnectJob`, attaching to other blocks, messages to the terminal, what the stream carries (its end
  arrives if the link stands). SIGTERM ends the job manager at once; in the code a signal that cannot be sent is logged and the job is recorded
  as terminated all the same. The cooldown of automatic reconnects is a choice after the first one.

Parts not modelled at all are listed in `PROJECT.json` with the reason; in short: what is planned (section 7), what is
transport, encoding, storage or external services without a protocol of its own, what is generated, and
the user interface, which is most of the repository.

Observations that are not findings: after `onTimeout` has given out item n, an item n+1
that came later stays until its own timeout, although it is now the next one
(`processBuffer_withlock` is not called there), so typing after a lost item lags by up to
the timeout; `JobInputCommand` ignores the error of a full queue; a
`PrepareConnect` that times out leaves the job connected without a stream, and
`doReconnectJob` skips connected jobs, so that only the next loss of the link brings its output back.

`WshRpc`: a stream that is read too slowly ends after a second like a normal end (`unregisterRpc(nil)`, wshrpc.go:873), and an error
that finds the channel full is dropped; a cancel that arrives before the handler is registered is lost; commands share the
empty request id, so the end of one ends the context of another ("timeout sending request", wshrpc.go:807); when a cancel brings `runServer`
down, the calls that wait are not told.

`FileStore`: `FlushCache` gives up at the first error and leaves the remaining files for the next round; the flush at shutdown finds one "already
in progress" and does not wait for it; after four failures the changes are dropped.

`JobRoutes`: with overlapping calls an old cleanup removes the new map entry and unannounces the new route, and a route
bound while its link is unregistered stays in the map; `Settled` excludes overlapping calls for that reason, and the main server makes
them when a `RemoteReconnect` runs into its timeout. Announcements are handled by one goroutine each at the main server and may change places there.

`ConnController`: an old `waitForDisconnect` that gets the lock after the next `Connect` sets the status of
the new connection to disconnected and closes it (conncontroller.go:1018); an old session's end sets `WshEnabled` to false although the new one works,
and `PersistWshInstalled` may set it to true after its session has ended.

`JobLifecycle`: a start that fails after the job manager was spawned records "done" and leaves it running (wshremote_job.go:252); a job that is terminated or reconnected before `StartJob` has recorded its pid is recorded as over although its job manager lives, or
becomes running afterwards (`early`); route events are handled by goroutines that may change places, so a lost route can leave
"connected" behind, and the next `ReconnectJob` skips the job; so can `SetJobConnStatus` after `WaitForRegister`; a connection that goes
down and up while `onConnectionUp` runs is not looked at again; a second loss of the route within 30 seconds is not reconnected; a failed `restartStreaming`
or termination over a link that stands is not retried; a crash in `StartJob` leaves the job in "init" for good.

## 6. Findings

A run that must fail, with the statement of a document it contradicts:

1. `durable_loss` (jobcontroller.go:824): bytes are acked on receipt; a superseded loop throws away
   what it read, and the reconnect has a gap although everything fit.

These others are stated in the modules as properties the code does not have. They are not
among the runs; put the property into a copy of the named configuration to see the trace.

2. `StreamStartsWhereTold` (`StreamManager.cfg`; streammanager.go:113): `ClientConnected` takes the head position and only later
   switches to sync mode; a write in between moves the head, and the reader waits for a
   packet that is never sent.
3. `NeverBlockedWhileDown` (`DurableLive.cfg` with `OfflineSpec` and `MaxBytes = 3`; jobmanager.go:425): the deferred disconnect runs when the handler has started its
   goroutines, not when the connection ends; so nothing leaves sync mode, and a program
   that fills the buffer offline is blocked until the next reconnect.
4. `FinalOutputKept` (`DurableLoss.cfg`; streamreader.go:161): Read returns an error before the bytes that are still buffered.
5. `BytesOnce` (`DurableLoss.cfg`; jobcontroller.go:1238): an append of the old loop after the Stat is in the file twice.
6. `EndReported` (`DurableLive.cfg`; jobcontroller.go:1325): a terminal packet that overtakes `UpdateNextSeq` is never looked at again.
7. `InitiatedResponsesPass` (`Router.cfg`; wshrouter.go:369): `runServer` registers a request after it has sent it; an untrusted link
   that answers in between is not known to have been asked, and the answer is dropped.
8. `Ensured` (`ConnController.cfg`; conncontroller.go:1131): `EnsureConnection` acts on a status read before it waits for the lock; of two calls at
   once, as `frontend/app/block/blockframe.tsx:144` makes one for each block of a host, the second fails because the first one connected.
9. `FinishedIsAlwaysDone` (`JobLifecycle.cfg`; jobcontroller.go:1307): when the exit is recorded already and the answer to `JobPrepareConnect`, made before it, has
   only the end of the stream, `restartStreaming` records that and does not call `tryTerminateJobManager`.
10. `ClosedIsTerminated` (`JobLifecycle.cfg`; jobcontroller.go:940): a block closed while `StartJob` is under way terminates nothing, as no pid is known, and the job runs on
   without a block; `docs/docs/durable-sessions.mdx:167` says that closing the block ends the session.
11. `ReadsAndRestarts` (`FileStore.cfg` with `SPECIFICATION Spec`, `Files`, `Circular` and `Made` all `{c}`, `Lengths = {2, 5}`, `Offsets = {0}`, `MaxOps = 2`, and
   `DirtyIsFlushed` left out; blockstore.go:253, blockstore_cache.go:159): `WFS.WriteAt` asks which parts a write covers only in part before `writeAt` cuts off what lies before the
   beginning of a circular file. A part that the write covers whole, and in the middle of which the file begins, is not loaded; the newest bytes
   of the file, in the other half of that part, are read as zeros afterwards. `AppendData` is not affected. The bounds of the `filestore` run have no such write.

## 7. Plan

Done: `OutputBuffer`, `CirBuf`, `StreamManager` with proofs, `StreamReader`, `DurableStream`,
`ReorderQueue`, `StoredFile`, `FileStore`, `WshRpc`, `Router`, `JobRoutes`, `ConnController` and `JobLifecycle`, all with proofs. Next, in this order:

1. `BlockController` (resync against destroy), `ToolApproval` (registration against the closing of the stream), `EventBroker`
   (history and subscription). Each is small and needs a run of its own.
2. `StreamWriter` with `StreamReader` and the broker's queues: a second sender for the same reader.

Proofs: of the safety and action properties that the runs check none is left; the next ones are about the new modules.
