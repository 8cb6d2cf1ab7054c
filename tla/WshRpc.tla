------------------------------- MODULE WshRpc -------------------------------
(***************************************************************************)
(* pkg/wshutil/wshrpc.go: one WshRpc that calls and one that serves, as    *)
(* they sit behind the router.  A call registers a response channel under  *)
(* its request id, puts the request into OutputCh and waits; runServer is  *)
(* one goroutine that hands every response to its channel, with the        *)
(* timeouts in a queue of their own.  On the other side every request has  *)
(* a goroutine, and a streaming one two.                                   *)
(*                                                                         *)
(* Commands want no response and all have the empty request id.  Requests  *)
(* want one.  Streams read responses until their channel is closed         *)
(* (sendRpcRequestResponseStreamHelper), as fast or as slowly as whoever   *)
(* reads them, and may be cancelled by another goroutine.                  *)
(***************************************************************************)
EXTENDS Integers, Sequences, FiniteSets

CONSTANTS
  Streams, Requests, Commands,
  MaxResponses,  (* what a stream's handler has to send                     *)
  RespChSize, OutputChSize, InputChSize, CtxDoneChSize,
  NoId,          (* the empty request id                                    *)
  NoCall

Calls == Streams \union Requests \union Commands

ASSUME SizesAssumption ==
  /\ {RespChSize, OutputChSize, InputChSize, CtxDoneChSize} \subseteq Nat \ {0}
  /\ MaxResponses \in Nat
ASSUME CallsAssumption ==
  /\ NoId \notin Calls /\ NoCall \notin Calls \union {NoId}
  /\ Streams \intersect Requests = {} /\ Commands \intersect (Streams \union Requests) = {}

VARIABLES
  (* the calling side *)
  rpcMap,        (* RpcMap: by request id, the call that registered last    *)
  respCh,        (* its channel                                             *)
  ctxDone,       (* its context has ended                                   *)
  watcher,       (* the goroutine that waits for that                       *)
  caller,        (* where the calling goroutine is                          *)
  got,           (* the responses a stream has read                         *)
  cancelled,     (* calls on which SendCancel was called                    *)
  loop,          (* runServer, and the message in its hands                 *)
  ctxDoneCh,
  (* the channels between the two, through the router *)
  toServer, toClient,
  (* the serving side *)
  handler,       (* the goroutine of a request                              *)
  produced,      (* responses of a stream so far                            *)
  expired,       (* the context of a stream's handler has ended ...         *)
  done           (* ... or it has sent its last response                    *)

client == <<rpcMap, respCh, ctxDone, watcher, caller, got, cancelled, loop,
            ctxDoneCh>>
server == <<handler, produced, expired, done>>
vars == <<client, toServer, toClient, server>>

ReqId(c)   == IF c \in Commands THEN NoId ELSE c
Ids        == Calls \union {NoId}
Answerable == Streams \union Requests

(* Responses: the numbered ones of a stream, the last one, which is empty  *)
(* for a stream, and the error of a timeout.                               *)
Final == 0
Error == -1
Responses == {Error, Final} \union 1 .. MaxResponses

Idle == [at |-> "select", call |-> NoCall, what |-> Error]

CallTypes ==
  /\ rpcMap \in [Ids -> Calls \union {NoCall}]
  /\ ctxDone \subseteq Calls /\ cancelled \subseteq Streams
  /\ watcher \in [Calls -> {"none", "waiting", "gone"}]
  /\ caller \in [Calls -> {"idle", "sending", "reading", "over"}]
  /\ got \in [Streams -> Seq(0 .. MaxResponses)]
  /\ ctxDoneCh \in Seq(Ids) /\ Len(ctxDoneCh) <= CtxDoneChSize

ChannelTypes ==
  /\ respCh \in [Calls -> [queue : Seq(Responses), closed : BOOLEAN]]
  /\ \A c \in Calls : Len(respCh[c].queue) <= RespChSize

(* Only calls that want a response are answered, and never with an Error.  *)
LoopTypes ==
  /\ loop \in [at : {"select", "deliver", "wait", "finish", "closing", "dead"},
               call : Answerable \union {NoCall}, what : Responses]
  /\ loop.at \in {"deliver", "wait", "finish"} => loop.call \in Answerable /\ loop.what # Error

TransitTypes ==
  /\ toServer \in Seq([call : Calls, cancel : BOOLEAN]) /\ Len(toServer) <= OutputChSize
  /\ \A i \in DOMAIN toServer : toServer[i].cancel => toServer[i].call \in Streams
  /\ toClient \in Seq([call : Answerable, what : 0 .. MaxResponses])
  /\ Len(toClient) <= InputChSize

HandlerTypes ==
  /\ handler \in [Answerable ->
                   {"none", "spawned", "running", "canceled", "closing", "ended"}]
  /\ expired \subseteq Streams /\ done \subseteq Streams
  /\ produced \in [Streams -> 0 .. MaxResponses]

TypeOK == CallTypes /\ ChannelTypes /\ LoopTypes /\ TransitTypes /\ HandlerTypes

Init ==
  /\ rpcMap = [i \in Ids |-> NoCall]
  /\ respCh = [c \in Calls |-> [queue |-> <<>>, closed |-> FALSE]]
  /\ ctxDone = {} /\ cancelled = {}
  /\ watcher = [c \in Calls |-> "none"] /\ caller = [c \in Calls |-> "idle"]
  /\ got = [c \in Streams |-> <<>>]
  /\ loop = Idle /\ ctxDoneCh = <<>>
  /\ toServer = <<>> /\ toClient = <<>>
  /\ handler = [c \in Answerable |-> "none"]
  /\ produced = [c \in Streams |-> 0] /\ expired = {} /\ done = {}

-----------------------------------------------------------------------------
(* unregisterRpc: the entry goes, its channel is closed and its call's     *)
(* context ends.  An error is left in the channel if there is room.        *)

WithErrorAlways(q, error) == IF error THEN Append(q, Error) ELSE q  \* a mutant
WithError(q, error) ==
  IF error /\ Len(q) < RespChSize THEN Append(q, Error) ELSE q

UnregisterRpc(id, error) ==
  LET c == rpcMap[id] IN
  IF c = NoCall THEN UNCHANGED <<rpcMap, respCh, ctxDone>>
  ELSE /\ rpcMap' = [rpcMap EXCEPT ![id] = NoCall]
       /\ respCh' = [respCh EXCEPT ![c] = [queue |-> WithError(@.queue, error), closed |-> TRUE]]
       /\ ctxDone' = ctxDone \union {c}

(* RpcRequestHandler.finalize.                                             *)
Finalize(c) ==
  IF ReqId(c) = NoId \/ rpcMap[c] = NoCall
  THEN ctxDone' = ctxDone \union {c} /\ UNCHANGED <<rpcMap, respCh>>
  ELSE UnregisterRpc(c, FALSE)

-----------------------------------------------------------------------------
(* The calling goroutine.                                                  *)

RegistersUnderNoId(c) == NoId                  \* a mutant
RegistersUnder(c) == ReqId(c)

(* SendComplexRequest: not when runServer has ended.                       *)
SendComplexRequest(c) ==
  /\ caller[c] = "idle"
  /\ IF loop.at = "dead"
     THEN /\ caller' = [caller EXCEPT ![c] = "over"]
          /\ UNCHANGED <<rpcMap, watcher>>
     ELSE /\ caller' = [caller EXCEPT ![c] = "sending"]
          /\ rpcMap' = [rpcMap EXCEPT ![RegistersUnder(c)] = c]
          /\ watcher' = [watcher EXCEPT ![c] = "waiting"]
  /\ UNCHANGED <<respCh, ctxDone, got, cancelled, loop, ctxDoneCh, toServer,
                 toClient, server>>

OutputChOpen == loop.at \notin {"closing", "dead"}

(* The request is in OutputCh; a command is over with that.                *)
RequestSent(c) ==
  /\ caller[c] = "sending" /\ OutputChOpen /\ Len(toServer) < OutputChSize
  /\ toServer' = Append(toServer, [call |-> c, cancel |-> FALSE])
  /\ IF c \in Commands
     THEN Finalize(c) /\ caller' = [caller EXCEPT ![c] = "over"]
     ELSE /\ caller' = [caller EXCEPT ![c] = "reading"]
          /\ UNCHANGED <<rpcMap, respCh, ctxDone>>
  /\ UNCHANGED <<watcher, got, cancelled, loop, ctxDoneCh, toClient, server>>

(* OutputCh was closed: the panic is recovered, and the call has no handler *)
(* and no error.                                                           *)
RequestPanics(c) ==
  /\ caller[c] = "sending" /\ ~OutputChOpen
  /\ caller' = [caller EXCEPT ![c] = "over"]
  /\ UNCHANGED <<rpcMap, respCh, ctxDone, watcher, got, cancelled, loop, ctxDoneCh, toServer,
                 toClient, server>>

RequestNotSent(c) ==
  /\ caller[c] = "sending" /\ c \in ctxDone
  /\ Finalize(c)
  /\ caller' = [caller EXCEPT ![c] = "over"]
  /\ UNCHANGED <<watcher, got, cancelled, loop, ctxDoneCh, toServer, toClient,
                 server>>

(* NextResponse of SendRpcRequest, and finalize.                           *)
RequestReturns(c) ==
  LET q == respCh[c].queue IN
  /\ c \in Requests /\ caller[c] = "reading"
  /\ q # <<>> \/ respCh[c].closed
  /\ caller' = [caller EXCEPT ![c] = "over"]
  /\ rpcMap' = [rpcMap EXCEPT ![c] = NoCall]
  /\ respCh' = [respCh EXCEPT ![c] = [queue |-> <<>>, closed |-> TRUE]]
  /\ ctxDone' = ctxDone \union {c}
  /\ UNCHANGED <<watcher, got, cancelled, loop, ctxDoneCh, toServer, toClient,
                 server>>

(* A stream reads until the channel is closed; that is its end, or an      *)
(* error if it was already in NextResponse.                                *)
StreamReads(c) ==
  LET q == respCh[c].queue IN
  /\ c \in Streams /\ caller[c] = "reading"
  /\ \/ /\ q # <<>>
        /\ respCh' = [respCh EXCEPT ![c].queue = Tail(q)]
        /\ got' = [got EXCEPT ![c] = IF Head(q) = Error THEN @ ELSE Append(@, Head(q))]
        /\ caller' = [caller EXCEPT ![c] = IF Head(q) = Error THEN "over" ELSE @]
     \/ /\ q = <<>> /\ respCh[c].closed
        /\ caller' = [caller EXCEPT ![c] = "over"]
        /\ UNCHANGED <<respCh, got>>
  /\ UNCHANGED <<rpcMap, ctxDone, watcher, cancelled, loop, ctxDoneCh, toServer,
                 toClient, server>>

(* SendCancel, by another goroutine: the message, or its own timeout, and  *)
(* then finalize, which a closed OutputCh prevents.                        *)
SendCancel(c) ==
  /\ c \in Streams \ cancelled
  /\ caller[c] = "reading"
  /\ cancelled' = cancelled \union {c}
  /\ \/ /\ OutputChOpen /\ Len(toServer) < OutputChSize
        /\ toServer' = Append(toServer, [call |-> c, cancel |-> TRUE])
        /\ Finalize(c)
     \/ UNCHANGED toServer /\ Finalize(c)
     \/ ~OutputChOpen /\ UNCHANGED <<toServer, rpcMap, respCh, ctxDone>>
  /\ UNCHANGED <<watcher, caller, got, loop, ctxDoneCh, toClient, server>>

TimeIsOver(c) ==
  /\ watcher[c] = "waiting" /\ c \notin ctxDone
  /\ ctxDone' = ctxDone \union {c}
  /\ UNCHANGED <<rpcMap, respCh, watcher, caller, got, cancelled, loop, ctxDoneCh, toServer,
                 toClient, server>>

(* A mutant: the goroutine does not go through the loop.                   *)
ReportsItself(c) ==
  /\ UnregisterRpc(ReqId(c), TRUE)
  /\ UNCHANGED ctxDoneCh
(* A mutant: a full channel is not tried again.                            *)
ReportsOnce(c) ==
  /\ ctxDoneCh' = IF Len(ctxDoneCh) < CtxDoneChSize THEN Append(ctxDoneCh, ReqId(c))
                                                    ELSE ctxDoneCh
  /\ UNCHANGED <<rpcMap, respCh, ctxDone>>
Reports(c) ==
  /\ Len(ctxDoneCh) < CtxDoneChSize
  /\ ctxDoneCh' = Append(ctxDoneCh, ReqId(c))
  /\ UNCHANGED <<rpcMap, respCh, ctxDone>>

(* retrySendTimeout.                                                       *)
RetrySendTimeout(c) ==
  /\ watcher[c] = "waiting" /\ c \in ctxDone
  /\ \/ loop.at = "dead" /\ UNCHANGED <<ctxDoneCh, rpcMap, respCh, ctxDone>>
     \/ loop.at # "dead" /\ Reports(c)
  /\ watcher' = [watcher EXCEPT ![c] = "gone"]
  /\ UNCHANGED <<caller, got, cancelled, loop, toServer, toClient, server>>

-----------------------------------------------------------------------------
(* runServer of the calling side.                                          *)

LoopTimeout ==
  /\ loop.at = "select" /\ ctxDoneCh # <<>>
  /\ ctxDoneCh' = Tail(ctxDoneCh)
  /\ UnregisterRpc(Head(ctxDoneCh), TRUE)
  /\ UNCHANGED <<watcher, caller, got, cancelled, loop, toServer, toClient, server>>

(* A response whose call is gone is dropped.                               *)
LoopReceive ==
  /\ loop.at = "select" /\ toClient # <<>>
  /\ toClient' = Tail(toClient)
  /\ loop' = IF rpcMap[Head(toClient).call] = NoCall THEN Idle
             ELSE [at |-> "deliver", call |-> Head(toClient).call, what |-> Head(toClient).what]
  /\ UNCHANGED <<rpcMap, respCh, ctxDone, watcher, caller, got, cancelled,
                 ctxDoneCh, toServer, server>>

(* After the last response the call is unregistered, in a step of its own. *)
Delivered == IF loop.what = Final THEN [loop EXCEPT !.at = "finish"] ELSE Idle

(* sendRespWithBlockMessage has the channel and no lock.  To send on a     *)
(* closed channel ends runServer.                                          *)
LoopDeliver ==
  LET ch == respCh[loop.call] IN
  /\ loop.at \in {"deliver", "wait"}
  /\ \/ /\ ch.closed
        /\ loop' = [Idle EXCEPT !.at = "closing"]
        /\ UNCHANGED respCh
     \/ /\ ~ch.closed /\ Len(ch.queue) < RespChSize
        /\ respCh' = [respCh EXCEPT ![loop.call].queue = Append(@, loop.what)]
        /\ loop' = Delivered
     \/ /\ ~ch.closed /\ Len(ch.queue) = RespChSize /\ loop.at = "deliver"
        /\ loop' = [loop EXCEPT !.at = "wait"]
        /\ UNCHANGED respCh
  /\ UNCHANGED <<rpcMap, ctxDone, watcher, caller, got, cancelled, ctxDoneCh,
                 toServer, toClient, server>>

(* A second without room: the call is unregistered, without an error.      *)
LoopGivesUp ==
  /\ loop.at = "wait"
  /\ UnregisterRpc(loop.call, FALSE)
  /\ loop' = Delivered
  /\ UNCHANGED <<watcher, caller, got, cancelled, ctxDoneCh, toServer, toClient,
                 server>>

LoopFinish ==
  /\ loop.at = "finish"
  /\ loop' = Idle
  /\ UnregisterRpc(loop.call, FALSE)
  /\ UNCHANGED <<watcher, caller, got, cancelled, ctxDoneCh, toServer, toClient,
                 server>>

(* The panic closed OutputCh; setServerDone, after which nobody reads.     *)
LoopDies ==
  /\ loop.at = "closing"
  /\ loop' = [loop EXCEPT !.at = "dead"]
  /\ ctxDoneCh' = <<>> /\ toClient' = <<>>
  /\ UNCHANGED <<rpcMap, respCh, ctxDone, watcher, caller, got, cancelled, toServer, server>>

-----------------------------------------------------------------------------
(* The serving side: runServer starts a goroutine for every request, or    *)
(* marks the handler of a canceled one, if it has registered.  The handler *)
(* of a command has no id to answer to and changes nothing here.           *)
Serve ==
  LET c == Head(toServer).call IN
  /\ toServer # <<>>
  /\ toServer' = Tail(toServer)
  /\ \/ c \in Commands /\ UNCHANGED handler
     \/ /\ c \notin Commands /\ ~Head(toServer).cancel
        /\ handler' = [handler EXCEPT ![c] = "spawned"]
     \/ /\ Head(toServer).cancel
        /\ handler' = [handler EXCEPT ![c] = IF @ = "running" THEN "canceled" ELSE @]
  /\ UNCHANGED <<client, toClient, produced, expired, done>>

HandleRequest(c) ==
  /\ c \in Streams /\ handler[c] = "spawned"
  /\ handler' = [handler EXCEPT ![c] = "running"]
  /\ UNCHANGED <<client, toServer, toClient, produced, expired, done>>

(* Into InputCh of the caller, which is drained after its runServer ended. *)
Answers(c, what) ==
  \/ loop.at = "dead" /\ UNCHANGED toClient
  \/ /\ loop.at # "dead" /\ Len(toClient) < InputChSize
     /\ toClient' = Append(toClient, [call |-> c, what |-> what])

(* A request is answered, or not, when its handler's time is over first.   *)
RequestAnswered(c) ==
  /\ c \in Requests /\ handler[c] = "spawned"
  /\ handler' = [handler EXCEPT ![c] = "ended"]
  /\ Answers(c, Final) \/ UNCHANGED toClient
  /\ UNCHANGED <<client, toServer, produced, expired, done>>

Serving(c) == c \in Streams /\ handler[c] \in {"running", "canceled"}

(* SendResponse: into OutputCh, or not, when the context has ended; select *)
(* takes either if both are ready.  Nothing after the last one.            *)
SendResponseIfRoom(c, what) ==                 \* a mutant
  IF c \in done \/ Len(toClient) = InputChSize THEN UNCHANGED toClient
  ELSE Answers(c, what)
SendResponse(c, what) ==
  IF c \in done THEN UNCHANGED toClient
  ELSE Answers(c, what) \/ (c \in expired /\ UNCHANGED toClient)

HandlerSends(c) ==
  /\ Serving(c) /\ produced[c] < MaxResponses
  /\ produced' = [produced EXCEPT ![c] = @ + 1]
  /\ SendResponse(c, produced[c] + 1)
  /\ UNCHANGED <<client, toServer, handler, expired, done>>

(* The stream has no more, or its implementation has noticed the cancel:   *)
(* Finalize sends the last response, ends the context and stores done.     *)
HandlerEnds(c) ==
  /\ Serving(c)
  /\ produced[c] = MaxResponses \/ handler[c] = "canceled"
  /\ handler' = [handler EXCEPT ![c] = "closing"]
  /\ SendResponse(c, Final)
  /\ UNCHANGED <<client, toServer, produced, expired, done>>

HandlerDone(c) ==
  /\ c \in Streams /\ handler[c] = "closing"
  /\ handler' = [handler EXCEPT ![c] = "ended"]
  /\ done' = done \union {c}
  /\ UNCHANGED <<client, toServer, toClient, produced, expired>>

(* The context of the handler ends after the request's timeout.            *)
HandlerExpires(c) ==
  /\ Serving(c) /\ c \notin expired
  /\ expired' = expired \union {c}
  /\ UNCHANGED <<client, toServer, toClient, handler, produced, done>>

(* The goroutine that waits for the context finalizes as well: a stream    *)
(* has its last response then, or a second one.                            *)
StreamFinalized(c) ==
  /\ c \in Streams \ done
  /\ c \in expired \/ handler[c] = "closing"
  /\ Answers(c, Final) \/ UNCHANGED toClient
  /\ done' = done \union {c}
  /\ UNCHANGED <<client, toServer, handler, produced, expired>>

-----------------------------------------------------------------------------
CallerStep(c) ==
  \/ SendComplexRequest(c) \/ RequestSent(c) \/ RequestNotSent(c) \/ RequestPanics(c)
  \/ RequestReturns(c) \/ StreamReads(c) \/ SendCancel(c)
HandlerStep(c) ==
  \/ HandleRequest(c) \/ RequestAnswered(c) \/ HandlerSends(c) \/ HandlerEnds(c)
  \/ HandlerDone(c) \/ HandlerExpires(c) \/ StreamFinalized(c)
LoopStep == LoopTimeout \/ LoopReceive \/ LoopDeliver \/ LoopGivesUp \/ LoopFinish \/ LoopDies

Next ==
  \/ \E c \in Calls : CallerStep(c) \/ TimeIsOver(c) \/ RetrySendTimeout(c) \/ HandlerStep(c)
  \/ LoopStep \/ Serve

Spec == Init /\ [][Next]_vars

(* The loop runs and is fair to the timeouts, time passes, and a request   *)
(* goes on when it can.  Nothing is asked of the serving side, of those    *)
(* who read streams, or of commands.                                       *)
FairSpec ==
  /\ Spec
  /\ WF_vars(LoopStep) /\ SF_vars(LoopTimeout)
  /\ \A c \in Requests :
       /\ WF_vars(TimeIsOver(c)) /\ SF_vars(RetrySendTimeout(c))
       /\ WF_vars(RequestSent(c) \/ RequestNotSent(c) \/ RequestPanics(c) \/ RequestReturns(c))

-----------------------------------------------------------------------------
(* A stream is read in order and without holes, whatever is full, closed   *)
(* or timed out on the way, and its last response only after all the       *)
(* others, unless its handler's own time was over.                         *)
StreamWithoutHoles ==
  \A c \in Streams \ expired :
    \A i \in DOMAIN got[c] :
      got[c][i] = IF i <= produced[c] THEN i ELSE Final

(* runServer is brought down, and every later call with it, only by a      *)
(* SendCancel at the wrong moment: timeouts, slow readers and late         *)
(* responses do not make it send on a closed channel.                      *)
OnlyCancelEndsServer == loop.at \in {"closing", "dead"} => cancelled # {}

(* A call waits for room in OutputCh until its own time is over; the end   *)
(* of no other call interrupts it.                                         *)
EndsByItsOwnTime ==
  [][\A c \in Calls \ Commands :
       caller[c] = "sending" /\ c \in ctxDone' \ ctxDone => TimeIsOver(c)]_vars

(* A request returns, also when no answer comes, the queue of timeouts is  *)
(* full or a stream is not read, as long as runServer lives.               *)
RequestsReturn ==
  \A c \in Requests :
    caller[c] \in {"sending", "reading"} ~> caller[c] = "over" \/ loop.at = "dead"
=============================================================================
