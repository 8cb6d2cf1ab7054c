---------------------------- MODULE WshRpcProofs ----------------------------
(***************************************************************************)
(* What wshrpc.go gives to those who call, for any number of calls and any *)
(* size of its channels.                                                   *)
(***************************************************************************)
EXTENDS WshRpc, TLAPS

(* What is left of a channel when its first element is read.               *)
LEMMA TailIs ==
  ASSUME NEW S, NEW s \in Seq(S), s # <<>>
  PROVE  /\ Tail(s) \in Seq(S) /\ Len(s) \in Nat \ {0} /\ Len(Tail(s)) = Len(s) - 1
         /\ Head(s) = s[1] /\ s[1] \in S
         /\ \A i \in 1 .. Len(s) - 1 : Tail(s)[i] = s[i + 1]
  OBVIOUS

(* What is in a channel when an element is put into it.                    *)
LEMMA AppendIs ==
  ASSUME NEW S, NEW s \in Seq(S), NEW x \in S
  PROVE  /\ Append(s, x) \in Seq(S) /\ Len(s) \in Nat /\ Len(Append(s, x)) = Len(s) + 1
         /\ Append(s, x)[Len(s) + 1] = x
         /\ \A i \in 1 .. Len(s) : Append(s, x)[i] = s[i]
  OBVIOUS

(* The map holds a call under its own id until its channel is closed, and  *)
(* the empty id leads to commands.  A timeout that waits for runServer is  *)
(* that of a call whose context has ended.                                 *)
Registry ==
  /\ \A c \in Answerable : /\ rpcMap[c] \in {c, NoCall}
                           /\ rpcMap[c] = c => ~respCh[c].closed
                           /\ caller[c] = "idle" => rpcMap[c] = NoCall /\ ~respCh[c].closed
  /\ \A c \in Commands : rpcMap[c] = NoCall
  /\ rpcMap[NoId] \in Commands \union {NoCall}
  /\ \A i \in DOMAIN ctxDoneCh : ctxDoneCh[i] \in (Answerable \intersect ctxDone) \union {NoId}

BaseInv == TypeOK /\ Registry

(* The channel of c is closed, and may get an error.                       *)
Closes(c) ==
  /\ respCh'[c].closed
  /\ \/ respCh'[c].queue = respCh[c].queue
     \/ respCh'[c].queue = Append(respCh[c].queue, Error)

(* What unregisterRpc does to the entry of an id and to its channel.       *)
Unregisters(id) ==
  /\ rpcMap' = [rpcMap EXCEPT ![id] = NoCall]
  /\ ChannelTypes'
  /\ \A c \in Calls : c # rpcMap[id] => respCh'[c] = respCh[c]
  /\ \A c \in Calls : c = rpcMap[id] => Closes(c)

(* unregisterRpc unregisters, and ends the context of the call it found.   *)
LEMMA UnregisterFacts ==
  ASSUME BaseInv, NEW id \in Ids, NEW error \in BOOLEAN, UnregisterRpc(id, error)
  PROVE  Unregisters(id) /\ ctxDone' = ctxDone \union ({rpcMap[id]} \ {NoCall})
<1> DEFINE c == rpcMap[id]
<1>0. rpcMap \in [Ids -> Calls \union {NoCall}] /\ c \in Calls \union {NoCall} /\ NoCall \notin Calls
  BY CallsAssumption DEF BaseInv, TypeOK, CallTypes
<1>1. CASE c = NoCall
  BY <1>0, <1>1 DEF UnregisterRpc, Unregisters, BaseInv, TypeOK, ChannelTypes
<1>2. CASE c # NoCall
  <2> DEFINE q == WithError(respCh[c].queue, error)
  <2>1. /\ rpcMap' = [rpcMap EXCEPT ![id] = NoCall]
        /\ respCh' = [respCh EXCEPT ![c] = [queue |-> q, closed |-> TRUE]]
        /\ ctxDone' = ctxDone \union {c}
    BY <1>2 DEF UnregisterRpc
  <2>2. c \in Calls /\ respCh[c].queue \in Seq(Responses) /\ Len(respCh[c].queue) <= RespChSize
        /\ respCh \in [Calls -> [queue : Seq(Responses), closed : BOOLEAN]]
    BY <1>0, <1>2 DEF BaseInv, TypeOK, ChannelTypes
  <2>3. Error \in Responses
    BY DEF Responses
  <2>4. /\ q \in Seq(Responses) /\ Len(q) <= RespChSize
        /\ q = respCh[c].queue \/ q = Append(respCh[c].queue, Error)
    BY <2>2, <2>3, SizesAssumption DEF WithError
  <2> HIDE DEF q, c
  <2>5. respCh'[c].closed /\ respCh'[c].queue = q
    BY <2>1, <2>2
  <2>6. \A d \in Calls : d # c => respCh'[d] = respCh[d]
    BY <2>1, <2>2
  <2>7. ChannelTypes'
    <3>1. [queue |-> q, closed |-> TRUE] \in [queue : Seq(Responses), closed : BOOLEAN]
      BY <2>4
    <3>2. respCh' \in [Calls -> [queue : Seq(Responses), closed : BOOLEAN]]
      BY <2>1, <2>2, <3>1
    <3>3. \A d \in Calls : Len(respCh'[d].queue) <= RespChSize
      BY <2>4, <2>5, <2>6 DEF BaseInv, TypeOK, ChannelTypes
    <3> QED BY <3>2, <3>3 DEF ChannelTypes
  <2>8. Closes(c)
    BY <2>4, <2>5 DEF Closes
  <2> QED BY <1>2, <2>1, <2>6, <2>7, <2>8 DEF Unregisters, c
<1> QED BY <1>1, <1>2

(* Finalize unregisters a call that wants a response; that of a command    *)
(* only ends its context.                                                  *)
LEMMA FinalizeFacts ==
  ASSUME BaseInv, NEW c \in Calls, Finalize(c)
  PROVE  /\ ctxDone' = ctxDone \union {c}
         /\ c \in Answerable => Unregisters(c)
         /\ c \in Commands => UNCHANGED <<rpcMap, respCh>>
<1>1. c \in Ids /\ c # NoId /\ (c \in Commands <=> c \notin Answerable)
  BY CallsAssumption DEF Ids, Answerable, Calls
<1>2. ReqId(c) = IF c \in Commands THEN NoId ELSE c
  BY DEF ReqId
<1>3. CASE c \in Commands \/ rpcMap[c] = NoCall
  <2>1. ctxDone' = ctxDone \union {c} /\ UNCHANGED <<rpcMap, respCh>>
    BY <1>2, <1>3 DEF Finalize
  <2>2. c \in Answerable => rpcMap[c] = NoCall /\ NoCall \notin Calls
    BY <1>1, <1>3, CallsAssumption
  <2>3. rpcMap \in [Ids -> Calls \union {NoCall}] /\ ChannelTypes'
    BY <2>1 DEF BaseInv, TypeOK, CallTypes, ChannelTypes
  <2>4. c \in Answerable => Unregisters(c)
    BY <1>1, <2>1, <2>2, <2>3 DEF Unregisters
  <2> QED BY <2>1, <2>4
<1>4. CASE c \in Answerable /\ rpcMap[c] # NoCall
  <2>1. UnregisterRpc(c, FALSE)
    BY <1>1, <1>2, <1>4 DEF Finalize
  <2>2. rpcMap[c] = c
    BY <1>4 DEF BaseInv, Registry
  <2> QED BY <1>1, <1>4, <2>1, <2>2, UnregisterFacts
<1> QED BY <1>1, <1>3, <1>4

(* Unregistering and finalizing keep the map in order.                     *)
LEMMA UnregisteredRegistry ==
  ASSUME BaseInv, NEW id \in Ids, Unregisters(id), ctxDone \subseteq ctxDone',
         \A i \in DOMAIN ctxDoneCh' : \E j \in DOMAIN ctxDoneCh : ctxDoneCh'[i] = ctxDoneCh[j],
         \A c \in Calls : caller'[c] = "idle" => caller[c] = "idle"
  PROVE  Registry' /\ rpcMap' \in [Ids -> Calls \union {NoCall}] /\ ChannelTypes'
<1>1. rpcMap' \in [Ids -> Calls \union {NoCall}] /\ ChannelTypes'
  BY DEF Unregisters, BaseInv, TypeOK, CallTypes
<1>2. ASSUME NEW c \in Answerable
      PROVE  /\ rpcMap'[c] \in {c, NoCall} /\ (rpcMap'[c] = c => ~respCh'[c].closed)
             /\ caller'[c] = "idle" => rpcMap'[c] = NoCall /\ ~respCh'[c].closed
  <2>1. c \in Calls /\ c \in Ids /\ c # NoCall
    BY CallsAssumption DEF Answerable, Calls, Ids
  <2>2. CASE c = rpcMap[id]
    <3>1. c = id
      BY <2>1, <2>2, CallsAssumption DEF BaseInv, Registry, Ids, Calls, Answerable
    <3>2. rpcMap'[c] = NoCall
      BY <3>1 DEF Unregisters, BaseInv, TypeOK, CallTypes
    <3>3. caller[c] # "idle" /\ (caller'[c] = "idle" => caller[c] = "idle")
      BY <2>1, <2>2, <3>1 DEF BaseInv, Registry
    <3> QED BY <2>1, <3>2, <3>3
  <2>3. CASE c # rpcMap[id]
    BY <2>1, <2>3 DEF Unregisters, BaseInv, TypeOK, CallTypes, Registry
  <2> QED BY <2>2, <2>3
<1>3. \A c \in Commands : rpcMap'[c] = NoCall
  BY DEF Unregisters, BaseInv, TypeOK, CallTypes, Registry, Ids, Calls
<1>4. rpcMap'[NoId] \in Commands \union {NoCall}
  BY DEF Unregisters, BaseInv, TypeOK, CallTypes, Registry, Ids
<1>5. \A i \in DOMAIN ctxDoneCh' : ctxDoneCh'[i] \in (Answerable \intersect ctxDone') \union {NoId}
  BY DEF BaseInv, Registry
<1> QED BY <1>1, <1>2, <1>3, <1>4, <1>5 DEF Registry

(* The same for whoever calls them.                                        *)
MapsKept ==
  /\ Registry' /\ ChannelTypes'
  /\ rpcMap' \in [Ids -> Calls \union {NoCall}]
  /\ ctxDone' \subseteq Calls

(* unregisterRpc keeps them.                                               *)
LEMMA UnregisterKeeps ==
  ASSUME BaseInv, NEW id \in Ids, NEW error \in BOOLEAN, UnregisterRpc(id, error),
         \A i \in DOMAIN ctxDoneCh' : \E j \in DOMAIN ctxDoneCh : ctxDoneCh'[i] = ctxDoneCh[j],
         \A c \in Calls : caller'[c] = "idle" => caller[c] = "idle"
  PROVE  MapsKept
<1>1. Unregisters(id) /\ ctxDone' = ctxDone \union ({rpcMap[id]} \ {NoCall})
  BY UnregisterFacts
<1>2. ctxDone \subseteq Calls /\ rpcMap[id] \in Calls \union {NoCall}
  BY DEF BaseInv, TypeOK, CallTypes
<1> QED BY <1>1, <1>2, UnregisteredRegistry DEF MapsKept

(* finalize keeps them.                                                    *)
LEMMA FinalizeKeeps ==
  ASSUME BaseInv, NEW c \in Calls, Finalize(c), UNCHANGED ctxDoneCh,
         \A d \in Calls : caller'[d] = "idle" => caller[d] = "idle"
  PROVE  MapsKept
<1>1. ctxDone' = ctxDone \union {c} /\ ctxDone \subseteq Calls
  BY FinalizeFacts DEF BaseInv, TypeOK, CallTypes
<1>2. CASE c \in Answerable
  <2>1. Unregisters(c) /\ c \in Ids
    BY <1>2, FinalizeFacts DEF Ids
  <2> QED BY <1>1, <2>1, UnregisteredRegistry DEF MapsKept
<1>3. CASE c \in Commands
  <2>1. UNCHANGED <<rpcMap, respCh, ctxDoneCh>>
    BY <1>3, FinalizeFacts
  <2>2. Registry'
    BY <1>1, <2>1 DEF BaseInv, Registry, Answerable, Calls
  <2> QED BY <1>1, <2>1, <2>2 DEF MapsKept, BaseInv, TypeOK, CallTypes, ChannelTypes
<1> QED BY <1>2, <1>3 DEF Calls, Answerable

(* The calling goroutine.                                                  *)
LEMMA CallerKeepsBase ==
  ASSUME BaseInv, NEW c \in Calls, CallerStep(c)
  PROVE  BaseInv'
<1> USE SizesAssumption, CallsAssumption DEF BaseInv, TypeOK, client, server, Calls, Answerable
<1>1. CASE SendComplexRequest(c)
  <2>1. CASE caller' = [caller EXCEPT ![c] = "over"] /\ UNCHANGED <<rpcMap, watcher>>
    <3>1. CallTypes'
      BY <1>1, <2>1 DEF SendComplexRequest, CallTypes
    <3> QED BY <1>1, <2>1, <3>1
        DEF SendComplexRequest, ChannelTypes, LoopTypes, TransitTypes, HandlerTypes, Registry
  <2>2. CASE /\ caller' = [caller EXCEPT ![c] = "sending"]
             /\ rpcMap' = [rpcMap EXCEPT ![RegistersUnder(c)] = c]
             /\ watcher' = [watcher EXCEPT ![c] = "waiting"]
    <3>1. RegistersUnder(c) = ReqId(c) /\ ReqId(c) \in Ids
      BY DEF RegistersUnder, ReqId, Ids
    <3>2. CallTypes'
      BY <1>1, <2>2, <3>1 DEF SendComplexRequest, CallTypes
    <3>3. Registry'
      <4>1. CASE c \in Commands
        BY <1>1, <2>2, <3>1, <4>1 DEF SendComplexRequest, Registry, CallTypes, ReqId, Ids
      <4>2. CASE c \in Answerable
        <5>1. ~respCh[c].closed
          BY <1>1, <4>2 DEF SendComplexRequest, Registry
        <5> QED
          BY <1>1, <2>2, <3>1, <4>2, <5>1 DEF SendComplexRequest, Registry, CallTypes, ReqId, Ids
      <4> QED BY <4>1, <4>2
    <3> QED BY <1>1, <2>2, <3>2, <3>3
        DEF SendComplexRequest, ChannelTypes, LoopTypes, TransitTypes, HandlerTypes
  <2> QED BY <1>1, <2>1, <2>2 DEF SendComplexRequest
<1>2. CASE RequestSent(c)
  <2>0. MapsKept
    <3>0. UNCHANGED ctxDoneCh /\ \A d \in Calls : caller'[d] = "idle" => caller[d] = "idle"
      BY <1>2 DEF RequestSent, CallTypes
    <3>1. CASE Finalize(c)
      BY <3>0, <3>1, FinalizeKeeps
    <3>2. CASE UNCHANGED <<rpcMap, respCh, ctxDone>>
      BY <3>0, <3>2 DEF MapsKept, CallTypes, ChannelTypes, Registry
    <3> QED BY <1>2, <3>1, <3>2 DEF RequestSent
  <2>1. CallTypes'
    BY <2>0, <1>2 DEF RequestSent, CallTypes, MapsKept
  <2>2. ChannelTypes'
    BY <2>0 DEF MapsKept
  <2>3. LoopTypes'
    BY <1>2 DEF RequestSent, LoopTypes
  <2>4. TransitTypes'
    BY <1>2 DEF RequestSent, TransitTypes
  <2>5. HandlerTypes'
    BY <1>2 DEF RequestSent, HandlerTypes
  <2>6. Registry'
    BY <2>0 DEF MapsKept
  <2> QED BY <2>1, <2>2, <2>3, <2>4, <2>5, <2>6
<1>3. CASE RequestNotSent(c)
  <2>0. MapsKept
    <3>1. UNCHANGED ctxDoneCh /\ \A d \in Calls : caller'[d] = "idle" => caller[d] = "idle"
      BY <1>3 DEF RequestNotSent, CallTypes
    <3> QED BY <1>3, <3>1, FinalizeKeeps DEF RequestNotSent
  <2>1. CallTypes'
    BY <2>0, <1>3 DEF RequestNotSent, CallTypes, MapsKept
  <2>2. ChannelTypes'
    BY <2>0 DEF MapsKept
  <2>3. LoopTypes'
    BY <1>3 DEF RequestNotSent, LoopTypes
  <2>4. TransitTypes'
    BY <1>3 DEF RequestNotSent, TransitTypes
  <2>5. HandlerTypes'
    BY <1>3 DEF RequestNotSent, HandlerTypes
  <2>6. Registry'
    BY <2>0 DEF MapsKept
  <2> QED BY <2>1, <2>2, <2>3, <2>4, <2>5, <2>6
<1>4. CASE RequestPanics(c)
  <2>1. CallTypes'
    BY <1>4 DEF RequestPanics, CallTypes
  <2>2. ChannelTypes'
    BY <1>4 DEF RequestPanics, ChannelTypes
  <2>3. LoopTypes'
    BY <1>4 DEF RequestPanics, LoopTypes
  <2>4. TransitTypes'
    BY <1>4 DEF RequestPanics, TransitTypes
  <2>5. HandlerTypes'
    BY <1>4 DEF RequestPanics, HandlerTypes
  <2>6. Registry'
    BY <1>4 DEF RequestPanics, Registry
  <2> QED BY <2>1, <2>2, <2>3, <2>4, <2>5, <2>6
<1>5. CASE RequestReturns(c)
  <2>1. CallTypes'
    BY <1>5 DEF RequestReturns, CallTypes
  <2>2. ChannelTypes'
    BY <1>5 DEF RequestReturns, ChannelTypes
  <2>3. LoopTypes'
    BY <1>5 DEF RequestReturns, LoopTypes
  <2>4. TransitTypes'
    BY <1>5 DEF RequestReturns, TransitTypes
  <2>5. HandlerTypes'
    BY <1>5 DEF RequestReturns, HandlerTypes
  <2>6. Registry'
    <3>1. /\ c \in Answerable /\ rpcMap' = [rpcMap EXCEPT ![c] = NoCall] /\ c \in Ids
          /\ \A d \in Calls : d # c => respCh'[d].closed = respCh[d].closed
      BY <1>5 DEF RequestReturns, ChannelTypes, Ids
    <3> QED BY <1>5, <3>1 DEF RequestReturns, Registry, CallTypes, Ids
  <2> QED BY <2>1, <2>2, <2>3, <2>4, <2>5, <2>6
<1>6. CASE StreamReads(c)
  <2> DEFINE q == respCh[c].queue
  <2>1. CASE q = <<>> /\ UNCHANGED <<respCh, got>> /\ caller' = [caller EXCEPT ![c] = "over"]
    <3>1. CallTypes'
      BY <1>6, <2>1 DEF StreamReads, CallTypes
    <3> QED BY <1>6, <2>1, <3>1
            DEF StreamReads, ChannelTypes, LoopTypes, TransitTypes, HandlerTypes, Registry
  <2>2. CASE /\ q # <<>>
             /\ respCh' = [respCh EXCEPT ![c].queue = Tail(q)]
             /\ got' = [got EXCEPT ![c] = IF Head(q) = Error THEN @ ELSE Append(@, Head(q))]
             /\ caller' = [caller EXCEPT ![c] = IF Head(q) = Error THEN "over" ELSE @]
    <3>1. /\ q \in Seq(Responses) /\ Len(q) <= RespChSize
          /\ respCh \in [Calls -> [queue : Seq(Responses), closed : BOOLEAN]]
      BY DEF ChannelTypes
    <3>2. Tail(q) \in Seq(Responses) /\ Len(Tail(q)) <= RespChSize /\ Head(q) \in Responses
      BY <2>2, <3>1, TailIs
    <3>3. c \in Streams
      BY <1>6 DEF StreamReads
    <3>4. got' \in [Streams -> Seq(0 .. MaxResponses)]
      <4>1. got \in [Streams -> Seq(0 .. MaxResponses)] /\ got[c] \in Seq(0 .. MaxResponses)
        BY <3>3 DEF CallTypes
      <4>2. Head(q) # Error => Head(q) \in 0 .. MaxResponses
        BY <3>2 DEF Responses, Final
      <4> HIDE DEF q
      <4>3. CASE Head(q) = Error
        BY <2>2, <4>1, <4>3
      <4>4. CASE Head(q) # Error
        <5>1. Append(got[c], Head(q)) \in Seq(0 .. MaxResponses)
          BY <4>1, <4>2, <4>4, AppendIs
        <5> QED BY <2>2, <4>1, <4>4, <5>1
      <4> QED BY <4>3, <4>4
    <3>5. caller' \in [Calls -> {"idle", "sending", "reading", "over"}]
      BY <2>2 DEF CallTypes
    <3>6. CallTypes'
      BY <1>6, <3>4, <3>5 DEF StreamReads, CallTypes
    <3>7. /\ respCh' \in [Calls -> [queue : Seq(Responses), closed : BOOLEAN]]
          /\ respCh'[c].queue = Tail(q) /\ \A d \in Calls : d # c => respCh'[d] = respCh[d]
          /\ \A d \in Calls : respCh'[d].closed = respCh[d].closed
      <4> HIDE DEF q
      <4> QED BY <2>2, <3>1, <3>2
    <3>8. ChannelTypes'
      BY <3>2, <3>7 DEF ChannelTypes
    <3>9. Registry'
      <4>1. UNCHANGED <<rpcMap, ctxDone, ctxDoneCh>>
        BY <1>6 DEF StreamReads
      <4>2. \A d \in Calls : caller'[d] = "idle" => caller[d] = "idle"
        BY <1>6, <2>2 DEF StreamReads, CallTypes
      <4> HIDE DEF q
      <4> QED BY <3>7, <4>1, <4>2 DEF Registry
    <3> QED BY <1>6, <3>6, <3>8, <3>9 DEF StreamReads, LoopTypes, TransitTypes, HandlerTypes
  <2> QED BY <1>6, <2>1, <2>2 DEF StreamReads
<1>7. CASE SendCancel(c)
  <2>0. MapsKept
    <3>0. UNCHANGED ctxDoneCh /\ \A d \in Calls : caller'[d] = "idle" => caller[d] = "idle"
      BY <1>7 DEF SendCancel, CallTypes
    <3>1. CASE Finalize(c)
      BY <3>0, <3>1, FinalizeKeeps
    <3>2. CASE UNCHANGED <<rpcMap, respCh, ctxDone>>
      BY <3>0, <3>2 DEF MapsKept, CallTypes, ChannelTypes, Registry
    <3> QED BY <1>7, <3>1, <3>2 DEF SendCancel
  <2>1. CallTypes'
    BY <2>0, <1>7 DEF SendCancel, CallTypes, MapsKept
  <2>2. ChannelTypes'
    BY <2>0 DEF MapsKept
  <2>3. LoopTypes'
    BY <1>7 DEF SendCancel, LoopTypes
  <2>4. TransitTypes'
    <3>1. CASE UNCHANGED toServer
      BY <1>7, <3>1 DEF SendCancel, TransitTypes
    <3>2. CASE /\ Len(toServer) < OutputChSize
               /\ toServer' = Append(toServer, [call |-> c, cancel |-> TRUE])
      <4>1. c \in Streams /\ UNCHANGED toClient
        BY <1>7 DEF SendCancel
      <4> QED BY <3>2, <4>1 DEF TransitTypes
    <3> QED BY <1>7, <3>1, <3>2 DEF SendCancel
  <2>5. HandlerTypes'
    BY <1>7 DEF SendCancel, HandlerTypes
  <2>6. Registry'
    BY <2>0 DEF MapsKept
  <2> QED BY <2>1, <2>2, <2>3, <2>4, <2>5, <2>6
<1> QED BY <1>1, <1>2, <1>3, <1>4, <1>5, <1>6, <1>7 DEF CallerStep

(* Its context.                                                            *)
LEMMA TimeKeepsBase ==
  ASSUME BaseInv, NEW c \in Calls, TimeIsOver(c) \/ RetrySendTimeout(c)
  PROVE  BaseInv'
<1> USE SizesAssumption, CallsAssumption DEF BaseInv, TypeOK, client, server, Calls, Answerable
<1>1. CASE TimeIsOver(c)
  <2>1. CallTypes'
    BY <1>1 DEF TimeIsOver, CallTypes
  <2>2. ChannelTypes'
    BY <1>1 DEF TimeIsOver, ChannelTypes
  <2>3. LoopTypes'
    BY <1>1 DEF TimeIsOver, LoopTypes
  <2>4. TransitTypes'
    BY <1>1 DEF TimeIsOver, TransitTypes
  <2>5. HandlerTypes'
    BY <1>1 DEF TimeIsOver, HandlerTypes
  <2>6. Registry'
    BY <1>1 DEF TimeIsOver, Registry
  <2> QED BY <2>1, <2>2, <2>3, <2>4, <2>5, <2>6
<1>2. CASE RetrySendTimeout(c)
  <2>1. CallTypes'
    <3>1. ReqId(c) \in Ids
      BY DEF ReqId, Ids
    <3>2. UNCHANGED ctxDoneCh \/ (Len(ctxDoneCh) < CtxDoneChSize /\ ctxDoneCh' = Append(ctxDoneCh, ReqId(c)))
      BY <1>2 DEF RetrySendTimeout, Reports
    <3>3. ctxDoneCh' \in Seq(Ids) /\ Len(ctxDoneCh') <= CtxDoneChSize
      BY <3>1, <3>2, AppendIs DEF CallTypes
    <3> QED BY <1>2, <3>3 DEF RetrySendTimeout, Reports, CallTypes
  <2>2. ChannelTypes'
    BY <1>2 DEF RetrySendTimeout, Reports, ReqId, ChannelTypes
  <2>3. LoopTypes'
    BY <1>2 DEF RetrySendTimeout, Reports, ReqId, LoopTypes
  <2>4. TransitTypes'
    BY <1>2 DEF RetrySendTimeout, Reports, ReqId, TransitTypes
  <2>5. HandlerTypes'
    BY <1>2 DEF RetrySendTimeout, Reports, ReqId, HandlerTypes
  <2>6. Registry'
    BY <1>2 DEF RetrySendTimeout, Reports, ReqId, Registry
  <2> QED BY <2>1, <2>2, <2>3, <2>4, <2>5, <2>6
<1> QED BY <1>1, <1>2

(* runServer.                                                              *)
LEMMA LoopKeepsBase ==
  ASSUME BaseInv, LoopStep
  PROVE  BaseInv'
<1> USE SizesAssumption, CallsAssumption DEF BaseInv, TypeOK, client, server, Calls, Answerable
<1>1. CASE LoopTimeout
  <2>a. /\ ctxDoneCh' = Tail(ctxDoneCh) /\ Head(ctxDoneCh) \in Ids
        /\ \A i \in DOMAIN ctxDoneCh' : ctxDoneCh'[i] = ctxDoneCh[i + 1] /\ i + 1 \in DOMAIN ctxDoneCh
        /\ ctxDoneCh' \in Seq(Ids) /\ Len(ctxDoneCh') <= CtxDoneChSize
    BY <1>1, TailIs DEF LoopTimeout, CallTypes
  <2>0. MapsKept
    BY <1>1, <2>a, UnregisterKeeps DEF LoopTimeout
  <2>1. CallTypes'
    BY <2>0, <2>a, <1>1 DEF LoopTimeout, CallTypes, MapsKept
  <2>2. ChannelTypes'
    BY <2>0 DEF MapsKept
  <2>3. LoopTypes'
    BY <1>1 DEF LoopTimeout, LoopTypes
  <2>4. TransitTypes'
    BY <1>1 DEF LoopTimeout, TransitTypes
  <2>5. HandlerTypes'
    BY <1>1 DEF LoopTimeout, HandlerTypes
  <2>6. Registry'
    BY <2>0 DEF MapsKept
  <2> QED BY <2>1, <2>2, <2>3, <2>4, <2>5, <2>6
<1>2. CASE LoopReceive
  <2>1. CallTypes'
    BY <1>2 DEF LoopReceive, CallTypes
  <2>2. ChannelTypes'
    BY <1>2 DEF LoopReceive, ChannelTypes
  <2>3. LoopTypes'
    <3>1. Head(toClient) \in [call : Answerable, what : 0 .. MaxResponses]
      <4> DEFINE Message == [call : Answerable, what : 0 .. MaxResponses]
      <4>1. toClient \in Seq(Message) /\ toClient # <<>>
        BY <1>2 DEF LoopReceive, TransitTypes
      <4> HIDE DEF Message
      <4>2. Head(toClient) \in Message
        BY <4>1
      <4> QED BY <4>2 DEF Message
    <3>2. \/ loop' = Idle
          \/ loop' = [at |-> "deliver", call |-> Head(toClient).call, what |-> Head(toClient).what]
      BY <1>2 DEF LoopReceive
    <3> HIDE DEF Answerable
    <3> QED BY <3>1, <3>2 DEF LoopTypes, Idle, Responses, Final, Error
  <2>4. TransitTypes'
    BY <1>2 DEF LoopReceive, TransitTypes
  <2>5. HandlerTypes'
    BY <1>2 DEF LoopReceive, HandlerTypes
  <2>6. Registry'
    BY <1>2 DEF LoopReceive, Registry
  <2> QED BY <2>1, <2>2, <2>3, <2>4, <2>5, <2>6
<1>3. CASE LoopDeliver
  <2>0. \/ UNCHANGED respCh
        \/ /\ Len(respCh[loop.call].queue) < RespChSize
           /\ respCh' = [respCh EXCEPT ![loop.call].queue = Append(@, loop.what)]
    BY <1>3 DEF LoopDeliver
  <2>a. loop.call \in Calls /\ loop.what \in Responses
    BY <1>3 DEF LoopDeliver, LoopTypes
  <2>1. CallTypes'
    BY <1>3 DEF LoopDeliver, Delivered, CallTypes
  <2>2. ChannelTypes'
    <3>1. CASE UNCHANGED respCh
      BY <3>1 DEF ChannelTypes
    <3>2. CASE /\ Len(respCh[loop.call].queue) < RespChSize
               /\ respCh' = [respCh EXCEPT ![loop.call].queue = Append(@, loop.what)]
      <4> DEFINE c == loop.call
                 q == respCh[c].queue
                 r == Append(q, loop.what)
      <4>1. /\ respCh \in [Calls -> [queue : Seq(Responses), closed : BOOLEAN]]
            /\ respCh' = [respCh EXCEPT ![c].queue = r] /\ c \in Calls /\ q \in Seq(Responses)
        BY <2>a, <3>2 DEF ChannelTypes
      <4>2. r \in Seq(Responses) /\ Len(r) <= RespChSize
        BY <2>a, <3>2, <4>1, AppendIs
      <4> HIDE DEF r, q, c
      <4>3. /\ respCh' \in [Calls -> [queue : Seq(Responses), closed : BOOLEAN]]
            /\ respCh'[c].queue = r /\ \A d \in Calls : d # c => respCh'[d] = respCh[d]
        BY <4>1, <4>2
      <4> QED BY <4>2, <4>3 DEF ChannelTypes
    <3> QED BY <2>0, <3>1, <3>2
  <2>3. LoopTypes'
    <3>1. \/ loop' = Idle \/ loop' = [Idle EXCEPT !.at = "closing"]
          \/ loop' = [loop EXCEPT !.at = "finish"] \/ loop' = [loop EXCEPT !.at = "wait"]
      BY <1>3 DEF LoopDeliver, Delivered
    <3> QED BY <1>3, <3>1 DEF LoopDeliver, LoopTypes, Idle, Responses
  <2>4. TransitTypes'
    BY <1>3 DEF LoopDeliver, Delivered, TransitTypes
  <2>5. HandlerTypes'
    BY <1>3 DEF LoopDeliver, Delivered, HandlerTypes
  <2>6. Registry'
    <3>1. \A c \in Calls : respCh'[c].closed = respCh[c].closed
      BY <2>0, <2>a DEF ChannelTypes
    <3> QED BY <1>3, <3>1 DEF LoopDeliver, Registry
  <2> QED BY <2>1, <2>2, <2>3, <2>4, <2>5, <2>6
<1>4. CASE LoopGivesUp
  <2>a. loop.call \in Ids
    BY <1>4 DEF LoopGivesUp, LoopTypes, Ids
  <2>0. MapsKept
    BY <1>4, <2>a, UnregisterKeeps DEF LoopGivesUp
  <2>1. CallTypes'
    BY <2>0, <1>4 DEF LoopGivesUp, CallTypes, MapsKept
  <2>2. ChannelTypes'
    BY <2>0 DEF MapsKept
  <2>3. LoopTypes'
    <3>1. loop' = Idle \/ loop' = [loop EXCEPT !.at = "finish"]
      BY <1>4 DEF LoopGivesUp, Delivered
    <3> QED BY <1>4, <3>1 DEF LoopGivesUp, LoopTypes, Idle, Responses, Final, Error
  <2>4. TransitTypes'
    BY <1>4 DEF LoopGivesUp, Delivered, TransitTypes
  <2>5. HandlerTypes'
    BY <1>4 DEF LoopGivesUp, Delivered, HandlerTypes
  <2>6. Registry'
    BY <2>0 DEF MapsKept
  <2> QED BY <2>1, <2>2, <2>3, <2>4, <2>5, <2>6
<1>5. CASE LoopFinish
  <2>a. loop.call \in Ids
    BY <1>5 DEF LoopFinish, LoopTypes, Ids
  <2>0. MapsKept
    BY <1>5, <2>a, UnregisterKeeps DEF LoopFinish
  <2>1. CallTypes'
    BY <2>0, <1>5 DEF LoopFinish, CallTypes, MapsKept
  <2>2. ChannelTypes'
    BY <2>0 DEF MapsKept
  <2>3. LoopTypes'
    BY <1>5 DEF LoopFinish, LoopTypes, Idle, Responses
  <2>4. TransitTypes'
    BY <1>5 DEF LoopFinish, TransitTypes
  <2>5. HandlerTypes'
    BY <1>5 DEF LoopFinish, HandlerTypes
  <2>6. Registry'
    BY <2>0 DEF MapsKept
  <2> QED BY <2>1, <2>2, <2>3, <2>4, <2>5, <2>6
<1>6. CASE LoopDies
  <2>1. CallTypes'
    BY <1>6 DEF LoopDies, CallTypes
  <2>2. ChannelTypes'
    BY <1>6 DEF LoopDies, ChannelTypes
  <2>3. LoopTypes'
    BY <1>6 DEF LoopDies, LoopTypes
  <2>4. TransitTypes'
    BY <1>6 DEF LoopDies, TransitTypes
  <2>5. HandlerTypes'
    BY <1>6 DEF LoopDies, HandlerTypes
  <2>6. Registry'
    BY <1>6 DEF LoopDies, Registry
  <2> QED BY <2>1, <2>2, <2>3, <2>4, <2>5, <2>6
<1> QED BY <1>1, <1>2, <1>3, <1>4, <1>5, <1>6 DEF LoopStep

(* runServer of the serving side.                                          *)
LEMMA ServeKeepsBase ==
  ASSUME BaseInv, Serve
  PROVE  BaseInv'
<1> USE SizesAssumption, CallsAssumption DEF BaseInv, TypeOK, client, server, Calls, Answerable
<1>1. CASE Serve
  <2>1. CallTypes'
    BY <1>1 DEF Serve, CallTypes
  <2>2. ChannelTypes'
    BY <1>1 DEF Serve, ChannelTypes
  <2>3. LoopTypes'
    BY <1>1 DEF Serve, LoopTypes
  <2>4. TransitTypes'
    BY <1>1 DEF Serve, TransitTypes
  <2>5. HandlerTypes'
    BY <1>1 DEF Serve, HandlerTypes
  <2>6. Registry'
    BY <1>1 DEF Serve, Registry
  <2> QED BY <2>1, <2>2, <2>3, <2>4, <2>5, <2>6
<1> QED BY <1>1

(* What is sent to the caller has a place there.                           *)
LEMMA AnswersTypes ==
  ASSUME TransitTypes, NEW c \in Answerable, NEW what \in 0 .. MaxResponses,
         UNCHANGED toServer, Answers(c, what) \/ UNCHANGED toClient
  PROVE  TransitTypes'
<1>1. CASE UNCHANGED toClient
  BY <1>1 DEF TransitTypes
<1>2. CASE /\ Len(toClient) < InputChSize
           /\ toClient' = Append(toClient, [call |-> c, what |-> what])
  <2>1. [call |-> c, what |-> what] \in [call : Answerable, what : 0 .. MaxResponses]
    OBVIOUS
  <2> QED BY <1>2, <2>1, SizesAssumption, AppendIs DEF TransitTypes
<1> QED BY <1>1, <1>2 DEF Answers

(* The serving side.                                                       *)
LEMMA HandlerKeepsBase ==
  ASSUME BaseInv, NEW c \in Calls, HandlerStep(c)
  PROVE  BaseInv'
<1> USE SizesAssumption, CallsAssumption DEF BaseInv, TypeOK, client, server, Calls, Answerable
<1>1. CASE HandleRequest(c)
  <2>1. CallTypes'
    BY <1>1 DEF HandleRequest, CallTypes
  <2>2. ChannelTypes'
    BY <1>1 DEF HandleRequest, ChannelTypes
  <2>3. LoopTypes'
    BY <1>1 DEF HandleRequest, LoopTypes
  <2>4. TransitTypes'
    BY <1>1 DEF HandleRequest, TransitTypes
  <2>5. HandlerTypes'
    BY <1>1 DEF HandleRequest, HandlerTypes
  <2>6. Registry'
    BY <1>1 DEF HandleRequest, Registry
  <2> QED BY <2>1, <2>2, <2>3, <2>4, <2>5, <2>6
<1>2. CASE RequestAnswered(c)
  <2>1. CallTypes'
    BY <1>2 DEF RequestAnswered, Answers, CallTypes
  <2>2. ChannelTypes'
    BY <1>2 DEF RequestAnswered, Answers, ChannelTypes
  <2>3. LoopTypes'
    BY <1>2 DEF RequestAnswered, Answers, LoopTypes
  <2>4. TransitTypes'
    <3>1. UNCHANGED toServer /\ (Answers(c, Final) \/ UNCHANGED toClient)
      BY <1>2 DEF RequestAnswered
    <3>2. c \in Answerable /\ Final \in 0 .. MaxResponses
      BY <1>2 DEF RequestAnswered, Final
    <3> QED BY <3>1, <3>2, AnswersTypes
  <2>5. HandlerTypes'
    BY <1>2 DEF RequestAnswered, Answers, HandlerTypes
  <2>6. Registry'
    BY <1>2 DEF RequestAnswered, Answers, Registry
  <2> QED BY <2>1, <2>2, <2>3, <2>4, <2>5, <2>6
<1>3. CASE HandlerSends(c)
  <2>1. CallTypes'
    BY <1>3 DEF HandlerSends, SendResponse, Answers, Serving, CallTypes
  <2>2. ChannelTypes'
    BY <1>3 DEF HandlerSends, SendResponse, Answers, Serving, ChannelTypes
  <2>3. LoopTypes'
    BY <1>3 DEF HandlerSends, SendResponse, Answers, Serving, LoopTypes
  <2>4. TransitTypes'
    <3>1. /\ UNCHANGED toServer /\ (Answers(c, produced[c] + 1) \/ UNCHANGED toClient)
          /\ c \in Streams /\ produced[c] + 1 \in 0 .. MaxResponses
      BY <1>3 DEF HandlerSends, Serving, SendResponse, HandlerTypes
    <3> QED BY <3>1, AnswersTypes
  <2>5. HandlerTypes'
    BY <1>3 DEF HandlerSends, SendResponse, Answers, Serving, HandlerTypes
  <2>6. Registry'
    BY <1>3 DEF HandlerSends, SendResponse, Answers, Serving, Registry
  <2> QED BY <2>1, <2>2, <2>3, <2>4, <2>5, <2>6
<1>4. CASE HandlerEnds(c)
  <2>1. CallTypes'
    BY <1>4 DEF HandlerEnds, SendResponse, Answers, Serving, CallTypes
  <2>2. ChannelTypes'
    BY <1>4 DEF HandlerEnds, SendResponse, Answers, Serving, ChannelTypes
  <2>3. LoopTypes'
    BY <1>4 DEF HandlerEnds, SendResponse, Answers, Serving, LoopTypes
  <2>4. TransitTypes'
    <3>1. c \in Streams /\ UNCHANGED toServer /\ (Answers(c, Final) \/ UNCHANGED toClient)
      BY <1>4 DEF HandlerEnds, Serving, SendResponse
    <3> QED BY <3>1, AnswersTypes DEF Final
  <2>5. HandlerTypes'
    BY <1>4 DEF HandlerEnds, SendResponse, Answers, Serving, HandlerTypes
  <2>6. Registry'
    BY <1>4 DEF HandlerEnds, SendResponse, Answers, Serving, Registry
  <2> QED BY <2>1, <2>2, <2>3, <2>4, <2>5, <2>6
<1>5. CASE HandlerDone(c)
  <2>1. CallTypes'
    BY <1>5 DEF HandlerDone, CallTypes
  <2>2. ChannelTypes'
    BY <1>5 DEF HandlerDone, ChannelTypes
  <2>3. LoopTypes'
    BY <1>5 DEF HandlerDone, LoopTypes
  <2>4. TransitTypes'
    BY <1>5 DEF HandlerDone, TransitTypes
  <2>5. HandlerTypes'
    BY <1>5 DEF HandlerDone, HandlerTypes
  <2>6. Registry'
    BY <1>5 DEF HandlerDone, Registry
  <2> QED BY <2>1, <2>2, <2>3, <2>4, <2>5, <2>6
<1>6. CASE HandlerExpires(c)
  <2>1. CallTypes'
    BY <1>6 DEF HandlerExpires, Serving, CallTypes
  <2>2. ChannelTypes'
    BY <1>6 DEF HandlerExpires, Serving, ChannelTypes
  <2>3. LoopTypes'
    BY <1>6 DEF HandlerExpires, Serving, LoopTypes
  <2>4. TransitTypes'
    BY <1>6 DEF HandlerExpires, Serving, TransitTypes
  <2>5. HandlerTypes'
    BY <1>6 DEF HandlerExpires, Serving, HandlerTypes
  <2>6. Registry'
    BY <1>6 DEF HandlerExpires, Serving, Registry
  <2> QED BY <2>1, <2>2, <2>3, <2>4, <2>5, <2>6
<1>7. CASE StreamFinalized(c)
  <2>1. CallTypes'
    BY <1>7 DEF StreamFinalized, Answers, CallTypes
  <2>2. ChannelTypes'
    BY <1>7 DEF StreamFinalized, Answers, ChannelTypes
  <2>3. LoopTypes'
    BY <1>7 DEF StreamFinalized, Answers, LoopTypes
  <2>4. TransitTypes'
    <3>1. c \in Streams /\ UNCHANGED toServer /\ (Answers(c, Final) \/ UNCHANGED toClient)
      BY <1>7 DEF StreamFinalized
    <3> QED BY <3>1, AnswersTypes DEF Final
  <2>5. HandlerTypes'
    BY <1>7 DEF StreamFinalized, Answers, HandlerTypes
  <2>6. Registry'
    BY <1>7 DEF StreamFinalized, Answers, Registry
  <2> QED BY <2>1, <2>2, <2>3, <2>4, <2>5, <2>6
<1> QED BY <1>1, <1>2, <1>3, <1>4, <1>5, <1>6, <1>7 DEF HandlerStep

(* No step breaks the types or the map.                                    *)
LEMMA NextKeepsBase == BaseInv /\ [Next]_vars => BaseInv'
<1> SUFFICES ASSUME BaseInv, [Next]_vars PROVE BaseInv'
  OBVIOUS
<1>1. CASE Next
  BY <1>1, CallerKeepsBase, TimeKeepsBase, LoopKeepsBase, ServeKeepsBase,
     HandlerKeepsBase DEF Next
<1>2. CASE UNCHANGED vars
  BY <1>2 DEF vars, client, server, BaseInv, TypeOK, CallTypes, ChannelTypes, LoopTypes,
              TransitTypes, HandlerTypes, Registry
<1> QED BY <1>1, <1>2

(* The base of the other invariants holds in every state.                  *)
THEOREM BaseHolds == Spec => []BaseInv
<1>1. Init => BaseInv
  <2> SUFFICES ASSUME Init PROVE BaseInv
    OBVIOUS
  <2> USE SizesAssumption, CallsAssumption
  <2>1. CallTypes
    BY DEF Init, CallTypes, Ids
  <2>2. ChannelTypes
    BY DEF Init, ChannelTypes
  <2>3. LoopTypes
    BY DEF Init, LoopTypes, Idle, Responses
  <2>4. TransitTypes
    BY DEF Init, TransitTypes
  <2>5. HandlerTypes
    BY DEF Init, HandlerTypes
  <2>6. Registry
    BY DEF Init, Registry, Ids, Calls, Answerable
  <2> QED BY <2>1, <2>2, <2>3, <2>4, <2>5, <2>6 DEF BaseInv, TypeOK
<1> QED BY <1>1, NextKeepsBase, PTL DEF Spec

(* The channels, the messages in transit and the maps keep their types and *)
(* their bounds, the error of a timeout included; nobody answers a command. *)
THEOREM Types == Spec => []TypeOK
<1>1. BaseInv => TypeOK
  BY DEF BaseInv
<1> QED BY <1>1, BaseHolds, PTL

-----------------------------------------------------------------------------
(* A call is asked and served once.                                        *)

(* What a step that unregisters does to the calls that are answered.       *)
Ends(id) ==
  \A c \in Answerable :
    /\ c = id => /\ rpcMap'[c] = NoCall
                 /\ \/ rpcMap[c] = NoCall /\ respCh'[c] = respCh[c]
                    \/ rpcMap[c] = c /\ Closes(c)
    /\ c # id => rpcMap'[c] = rpcMap[c] /\ respCh'[c] = respCh[c]

(* It touches the entry and the channel of one call at most.               *)
LEMMA UnregisterEnds ==
  ASSUME BaseInv, NEW id \in Ids, Unregisters(id)
  PROVE  Ends(id)
<1> SUFFICES ASSUME NEW c \in Answerable
             PROVE  /\ c = id => /\ rpcMap'[c] = NoCall
                                 /\ \/ rpcMap[c] = NoCall /\ respCh'[c] = respCh[c]
                                    \/ rpcMap[c] = c /\ Closes(c)
                    /\ c # id => rpcMap'[c] = rpcMap[c] /\ respCh'[c] = respCh[c]
  BY DEF Ends
<1>1. /\ c \in Calls /\ c \in Ids /\ c # NoCall /\ c # NoId /\ c \notin Commands
      /\ rpcMap \in [Ids -> Calls \union {NoCall}] /\ rpcMap[c] \in {c, NoCall}
  BY CallsAssumption DEF Answerable, Calls, Ids, BaseInv, TypeOK, CallTypes, Registry
<1>2. CASE c = id
  BY <1>1, <1>2 DEF Unregisters
<1>3. CASE c # id
  <2>1. rpcMap[id] # c
    BY <1>1, <1>3, CallsAssumption DEF BaseInv, Registry, Ids, Calls, Answerable
  <2> QED BY <1>1, <1>3, <2>1 DEF Unregisters
<1> QED BY <1>2, <1>3

(* The steps that do, and whose entry it is.                               *)
LEMMA EndsOf ==
  ASSUME BaseInv
  PROVE  /\ \A id \in Ids : \A error \in BOOLEAN : UnregisterRpc(id, error) => Ends(id)
         /\ \A c \in Calls : Finalize(c) => Ends(c)
<1>1. ASSUME NEW id \in Ids, NEW error \in BOOLEAN, UnregisterRpc(id, error)
      PROVE  Ends(id)
  BY <1>1, UnregisterFacts, UnregisterEnds
<1>2. ASSUME NEW c \in Calls, Finalize(c)
      PROVE  Ends(c)
  <2>1. CASE c \in Answerable
    BY <1>2, <2>1, FinalizeFacts, UnregisterEnds DEF Ids
  <2>2. CASE c \in Commands
    <3>1. UNCHANGED <<rpcMap, respCh>> /\ c \notin Answerable
      BY <1>2, <2>2, FinalizeFacts, CallsAssumption DEF Answerable
    <3> QED BY <3>1 DEF Ends
  <2> QED BY <2>1, <2>2 DEF Calls, Answerable
<1> QED BY <1>1, <1>2

Asked(c) == \E i \in DOMAIN toServer : toServer[i].call = c /\ ~toServer[i].cancel
Answering(c) == \E i \in DOMAIN toClient : toClient[i].call = c

AskedOnce(c) ==
  /\ \A i, j \in DOMAIN toServer :
       /\ toServer[i].call = c /\ ~toServer[i].cancel
       /\ toServer[j].call = c /\ ~toServer[j].cancel
       => i = j
  /\ caller[c] \in {"idle", "sending"} => ~Asked(c) /\ handler[c] = "none"
  /\ Asked(c) => handler[c] = "none"

(* Nothing answers a call before its handler runs, and until it is closed  *)
(* the channel of a call that was asked is the registered one.             *)
AnsweredLater(c) ==
  handler[c] = "none" => ~Answering(c) /\ loop.call # c /\ c \notin expired
RegisteredTill(c) ==
  caller[c] \in {"sending", "reading"} \/ Asked(c) \/ handler[c] # "none"
    => rpcMap[c] = c \/ respCh[c].closed

Once == \A c \in Answerable : AskedOnce(c) /\ AnsweredLater(c) /\ RegisteredTill(c)

(* A message to the server.                                                *)
LEMMA ToServer ==
  ASSUME TransitTypes, NEW d \in Calls, NEW b \in BOOLEAN, NEW c \in Calls,
         toServer' = Append(toServer, [call |-> d, cancel |-> b])
  PROVE  /\ Asked(c)' <=> Asked(c) \/ (c = d /\ ~b)
         /\ \A i \in DOMAIN toServer' : i \in DOMAIN toServer \/ i = Len(toServer) + 1
         /\ \A i \in DOMAIN toServer : toServer'[i] = toServer[i] /\ i # Len(toServer) + 1
         /\ toServer'[Len(toServer) + 1] = [call |-> d, cancel |-> b]
<1> DEFINE m == [call |-> d, cancel |-> b]
           M == [call : Calls, cancel : BOOLEAN]
<1>1. m \in M /\ toServer \in Seq(M) /\ m.call = d /\ m.cancel = b
  BY DEF TransitTypes
<1> HIDE DEF m, M
<1>2. toServer' = Append(toServer, m)
  BY DEF m
<1>3. /\ toServer' \in Seq(M) /\ Len(toServer') = Len(toServer) + 1 /\ Len(toServer) \in Nat
      /\ toServer'[Len(toServer) + 1] = m
      /\ \A i \in 1 .. Len(toServer) : toServer'[i] = toServer[i]
  BY <1>1, <1>2, AppendIs
<1>4. DOMAIN toServer = 1 .. Len(toServer) /\ DOMAIN toServer' = 1 .. Len(toServer')
  BY <1>1, <1>3
<1>5. Asked(c)' <=> Asked(c) \/ (c = d /\ ~b)
  BY <1>1, <1>3, <1>4 DEF Asked
<1> QED BY <1>3, <1>4, <1>5 DEF m

(* The server takes one.                                                   *)
LEMMA FromServer ==
  ASSUME TransitTypes, toServer # <<>>, toServer' = Tail(toServer)
  PROVE  /\ Head(toServer) = toServer[1] /\ toServer[1] \in [call : Calls, cancel : BOOLEAN]
         /\ 1 \in DOMAIN toServer
         /\ \A i \in DOMAIN toServer' :
              i \in Nat /\ i + 1 \in DOMAIN toServer /\ toServer'[i] = toServer[i + 1] /\ i + 1 # 1
<1> DEFINE M == [call : Calls, cancel : BOOLEAN]
<1>1. toServer \in Seq(M)
  BY DEF TransitTypes
<1> HIDE DEF M
<1>2. /\ toServer' \in Seq(M) /\ Len(toServer) \in Nat \ {0} /\ Len(toServer') = Len(toServer) - 1
      /\ Head(toServer) = toServer[1] /\ toServer[1] \in M
      /\ \A i \in 1 .. Len(toServer) - 1 : toServer'[i] = toServer[i + 1]
  BY <1>1, TailIs
<1>3. DOMAIN toServer = 1 .. Len(toServer) /\ DOMAIN toServer' = 1 .. Len(toServer')
  BY <1>1, <1>2
<1> QED BY <1>2, <1>3 DEF M

(* A step that asks nobody keeps what is said of the one question.         *)
LEMMA AskedSame ==
  ASSUME NEW c \in Answerable, AskedOnce(c), UNCHANGED toServer,
         handler'[c] = handler[c] \/ handler[c] # "none",
         caller'[c] \in {"idle", "sending"} => caller[c] \in {"idle", "sending"}
  PROVE  AskedOnce(c)'
<1>1. Asked(c)' <=> Asked(c)
  BY DEF Asked
<1> QED BY <1>1 DEF AskedOnce

(* A step that answers nobody keeps what is said of the answers.           *)
LEMMA AnsweredSame ==
  ASSUME NEW c \in Answerable, AnsweredLater(c), UNCHANGED toClient,
         loop'.call = loop.call \/ loop'.call = NoCall, handler'[c] = "none" => handler[c] = "none",
         UNCHANGED expired
  PROVE  AnsweredLater(c)'
  BY CallsAssumption DEF AnsweredLater, Answering, Answerable, Calls

(* Until its channel is closed, only its own end takes a call off the map. *)
LEMMA RegisteredSame ==
  ASSUME BaseInv, NEW c \in Answerable, RegisteredTill(c),
         Asked(c)' => Asked(c), handler'[c] = "none" \/ handler[c] # "none",
         caller'[c] \in {"sending", "reading"} => caller[c] \in {"sending", "reading"},
         \/ rpcMap'[c] = rpcMap[c] /\ respCh'[c].closed = respCh[c].closed
         \/ respCh'[c].closed
         \/ \E id \in Ids : Ends(id)
  PROVE  RegisteredTill(c)'
<1>1. rpcMap[c] = c \/ respCh[c].closed => rpcMap'[c] = c \/ respCh'[c].closed
  <2>1. ASSUME NEW id \in Ids, Ends(id), rpcMap[c] = c \/ respCh[c].closed
        PROVE  rpcMap'[c] = c \/ respCh'[c].closed
    <3>1. CASE c = id
      BY <2>1, <3>1 DEF Ends, Closes, BaseInv, Registry
    <3>2. CASE c # id
      BY <2>1, <3>2 DEF Ends
    <3> QED BY <3>1, <3>2
  <2> QED BY <2>1
<1> QED BY <1>1 DEF RegisteredTill

(* What is put into a channel or read out of it.                           *)
LEMMA QueueSet ==
  ASSUME ChannelTypes, NEW a \in Calls, NEW q, respCh' = [respCh EXCEPT ![a].queue = q]
  PROVE  /\ respCh'[a].queue = q
         /\ \A d \in Calls : d # a => respCh'[d] = respCh[d]
         /\ \A d \in Calls : respCh'[d].closed = respCh[d].closed
  BY DEF ChannelTypes

(* The calling goroutine and its context.                                  *)
LEMMA CallerKeepsOnce ==
  ASSUME BaseInv, Once, NEW a \in Calls, NEW c \in Answerable,
         CallerStep(a) \/ TimeIsOver(a) \/ RetrySendTimeout(a)
  PROVE  AskedOnce(c)' /\ AnsweredLater(c)' /\ RegisteredTill(c)'
<1>0. /\ c \in Calls /\ c \notin Commands /\ c # NoId /\ c # NoCall /\ c \in Ids /\ a \in Ids
      /\ AskedOnce(c) /\ AnsweredLater(c) /\ RegisteredTill(c)
      /\ caller \in [Calls -> {"idle", "sending", "reading", "over"}]
      /\ rpcMap \in [Ids -> Calls \union {NoCall}] /\ TransitTypes
  BY CallsAssumption DEF Answerable, Calls, Ids, Once, BaseInv, TypeOK, CallTypes
<1>1. CASE SendComplexRequest(a)
  <2>1. UNCHANGED <<toServer, toClient, loop, handler, expired, respCh>>
    BY <1>1 DEF SendComplexRequest, server
  <2>2. \/ caller' = [caller EXCEPT ![a] = "over"] /\ UNCHANGED rpcMap
        \/ /\ caller' = [caller EXCEPT ![a] = "sending"]
           /\ rpcMap' = [rpcMap EXCEPT ![ReqId(a)] = a]
    BY <1>1 DEF SendComplexRequest, RegistersUnder
  <2>3. caller[a] = "idle"
    BY <1>1 DEF SendComplexRequest
  <2>4. AskedOnce(c)'
    BY <1>0, <2>1, <2>2, <2>3, AskedSame
  <2>5. AnsweredLater(c)'
    BY <1>0, <2>1, AnsweredSame
  <2>6. RegisteredTill(c)'
    <3>1. CASE a = c
      BY <1>0, <2>1, <2>2, <2>3, <3>1 DEF ReqId, RegisteredTill, AskedOnce, Asked
    <3>2. CASE a # c
      <4>1. rpcMap'[c] = rpcMap[c] /\ caller'[c] = caller[c]
        BY <1>0, <2>2, <3>2 DEF ReqId, Ids
      <4> QED BY <1>0, <2>1, <4>1 DEF RegisteredTill, Asked
    <3> QED BY <3>1, <3>2
  <2> QED BY <2>4, <2>5, <2>6
<1>2. CASE RequestSent(a)
  <2>1. /\ toServer' = Append(toServer, [call |-> a, cancel |-> FALSE])
        /\ UNCHANGED <<toClient, loop, handler, expired>> /\ caller[a] = "sending"
    BY <1>2 DEF RequestSent, server
  <2>2. \/ a \in Commands /\ Finalize(a) /\ caller' = [caller EXCEPT ![a] = "over"]
        \/ /\ a \notin Commands /\ caller' = [caller EXCEPT ![a] = "reading"]
           /\ UNCHANGED <<rpcMap, respCh>>
    BY <1>2 DEF RequestSent
  <2>3. Asked(c)' <=> Asked(c) \/ c = a
    BY <1>0, <2>1, ToServer
  <2>4. AskedOnce(c)'
    <3>1. CASE a = c
      <4>1. ~Asked(c) /\ handler'[c] = "none" /\ caller'[c] = "reading"
        BY <1>0, <2>1, <2>2, <3>1 DEF AskedOnce
      <4>2. \A i \in DOMAIN toServer : ~(toServer[i].call = c /\ ~toServer[i].cancel)
        BY <4>1 DEF Asked
      <4>3. \A i \in DOMAIN toServer' :
              toServer'[i].call = c /\ ~toServer'[i].cancel => i = Len(toServer) + 1
        BY <1>0, <2>1, <4>2, ToServer
      <4> QED BY <4>1, <4>3 DEF AskedOnce
    <3>2. CASE a # c
      <4>1. caller'[c] = caller[c] /\ handler'[c] = handler[c] /\ (Asked(c)' <=> Asked(c))
        BY <1>0, <2>1, <2>2, <2>3, <3>2
      <4>2. \A i \in DOMAIN toServer' : toServer'[i].call = c =>
              i \in DOMAIN toServer /\ toServer'[i] = toServer[i]
        BY <1>0, <2>1, <3>2, ToServer
      <4> QED BY <1>0, <4>1, <4>2 DEF AskedOnce
    <3> QED BY <3>1, <3>2
  <2>5. AnsweredLater(c)'
    BY <1>0, <2>1, AnsweredSame
  <2>6. RegisteredTill(c)'
    <3>1. CASE a = c
      BY <1>0, <2>1, <2>2, <3>1 DEF RegisteredTill
    <3>2. CASE a # c
      <4>1. caller'[c] = caller[c] /\ handler'[c] = handler[c] /\ (Asked(c)' <=> Asked(c))
        BY <1>0, <2>1, <2>2, <2>3, <3>2
      <4>2. (rpcMap'[c] = rpcMap[c] /\ respCh'[c].closed = respCh[c].closed) \/ Ends(a)
        BY <2>2, EndsOf
      <4> QED BY <1>0, <4>1, <4>2, RegisteredSame
    <3> QED BY <3>1, <3>2
  <2> QED BY <2>4, <2>5, <2>6
<1>3. CASE SendCancel(a)
  <2>1. /\ UNCHANGED <<toClient, loop, handler, expired, caller>>
        /\ UNCHANGED toServer \/ toServer' = Append(toServer, [call |-> a, cancel |-> TRUE])
    BY <1>3 DEF SendCancel, server
  <2>2. (rpcMap'[c] = rpcMap[c] /\ respCh'[c].closed = respCh[c].closed) \/ Ends(a)
    BY <1>3, EndsOf DEF SendCancel
  <2>3. Asked(c)' <=> Asked(c)
    BY <1>0, <2>1, ToServer DEF Asked
  <2>4. AskedOnce(c)'
    <3>1. \A i \in DOMAIN toServer' : ~toServer'[i].cancel =>
            i \in DOMAIN toServer /\ toServer'[i] = toServer[i]
      BY <1>0, <2>1, ToServer
    <3> QED BY <1>0, <2>1, <2>3, <3>1 DEF AskedOnce
  <2>5. AnsweredLater(c)'
    BY <1>0, <2>1, AnsweredSame
  <2>6. RegisteredTill(c)'
    BY <1>0, <2>1, <2>2, <2>3, RegisteredSame
  <2> QED BY <2>4, <2>5, <2>6
<1>4. CASE RequestNotSent(a) \/ RequestPanics(a) \/ RequestReturns(a) \/ StreamReads(a)
           \/ TimeIsOver(a) \/ RetrySendTimeout(a)
  <2>1. UNCHANGED <<toServer, toClient, loop, handler, expired>>
    BY <1>4 DEF RequestNotSent, RequestPanics, RequestReturns, StreamReads, TimeIsOver,
                RetrySendTimeout, server
  <2>2. caller'[c] = caller[c] \/ caller'[c] = "over"
    BY <1>0, <1>4 DEF RequestNotSent, RequestPanics, RequestReturns, StreamReads, TimeIsOver,
                RetrySendTimeout
  <2>3. \/ rpcMap'[c] = rpcMap[c] /\ respCh'[c].closed = respCh[c].closed
        \/ respCh'[c].closed
        \/ \E id \in Ids : Ends(id)
    <3>1. CASE RequestNotSent(a)
      BY <1>0, <3>1, EndsOf DEF RequestNotSent
    <3>2. CASE RequestReturns(a)
      BY <1>0, <3>2 DEF RequestReturns, BaseInv, TypeOK, ChannelTypes
    <3>3. CASE StreamReads(a)
      <4>1. UNCHANGED rpcMap
            /\ \/ UNCHANGED respCh
               \/ respCh' = [respCh EXCEPT ![a].queue = Tail(respCh[a].queue)]
        BY <3>3 DEF StreamReads
      <4> QED BY <1>0, <4>1, QueueSet DEF BaseInv, TypeOK
    <3>4. CASE RequestPanics(a) \/ TimeIsOver(a) \/ RetrySendTimeout(a)
      BY <3>4 DEF RequestPanics, TimeIsOver, RetrySendTimeout, Reports
    <3> QED BY <1>4, <3>1, <3>2, <3>3, <3>4
  <2>4. AskedOnce(c)'
    BY <1>0, <2>1, <2>2, AskedSame
  <2>5. AnsweredLater(c)'
    BY <1>0, <2>1, AnsweredSame
  <2>6. RegisteredTill(c)'
    <3>1. Asked(c)' => Asked(c)
      BY <2>1 DEF Asked
    <3> QED BY <1>0, <2>1, <2>2, <2>3, <3>1, RegisteredSame
  <2> QED BY <2>4, <2>5, <2>6
<1> QED BY <1>1, <1>2, <1>3, <1>4 DEF CallerStep

(* What is answered goes to the end of the queue.                          *)
LEMMA ToClient ==
  ASSUME TransitTypes, NEW a \in Answerable, NEW what \in 0 .. MaxResponses,
         toClient' = Append(toClient, [call |-> a, what |-> what])
  PROVE  /\ Len(toClient) \in Nat
         /\ DOMAIN toClient = 1 .. Len(toClient) /\ DOMAIN toClient' = 1 .. Len(toClient) + 1
         /\ \A i \in DOMAIN toClient : toClient'[i] = toClient[i]
         /\ toClient'[Len(toClient) + 1] = [call |-> a, what |-> what]
<1> DEFINE m == [call |-> a, what |-> what]
           M == [call : Answerable, what : 0 .. MaxResponses]
<1>1. m \in M /\ toClient \in Seq(M)
  BY DEF TransitTypes
<1> HIDE DEF m, M
<1>2. toClient' = Append(toClient, m)
  BY DEF m
<1>3. /\ toClient' \in Seq(M) /\ Len(toClient') = Len(toClient) + 1 /\ Len(toClient) \in Nat
      /\ toClient'[Len(toClient) + 1] = m
      /\ \A i \in 1 .. Len(toClient) : toClient'[i] = toClient[i]
  BY <1>1, <1>2, AppendIs
<1> QED BY <1>1, <1>3 DEF m

(* runServer takes what came first.                                        *)
LEMMA FromClient ==
  ASSUME TransitTypes, toClient # <<>>, toClient' = Tail(toClient)
  PROVE  /\ Len(toClient) \in Nat \ {0}
         /\ DOMAIN toClient = 1 .. Len(toClient) /\ DOMAIN toClient' = 1 .. Len(toClient) - 1
         /\ Head(toClient) = toClient[1]
         /\ toClient[1] \in [call : Answerable, what : 0 .. MaxResponses]
         /\ \A i \in DOMAIN toClient' : toClient'[i] = toClient[i + 1]
<1> DEFINE M == [call : Answerable, what : 0 .. MaxResponses]
<1>1. toClient \in Seq(M)
  BY DEF TransitTypes
<1> HIDE DEF M
<1>2. /\ toClient' \in Seq(M) /\ Len(toClient) \in Nat \ {0} /\ Len(toClient') = Len(toClient) - 1
      /\ Head(toClient) = toClient[1] /\ toClient[1] \in M
      /\ \A i \in 1 .. Len(toClient) - 1 : toClient'[i] = toClient[i + 1]
  BY <1>1, TailIs
<1> QED BY <1>1, <1>2 DEF M

(* runServer.                                                              *)
LEMMA LoopKeepsOnce ==
  ASSUME BaseInv, Once, NEW c \in Answerable, LoopStep
  PROVE  AskedOnce(c)' /\ AnsweredLater(c)' /\ RegisteredTill(c)'
<1>0. /\ c \in Calls /\ c # NoCall /\ c \in Ids
      /\ AskedOnce(c) /\ AnsweredLater(c) /\ RegisteredTill(c)
      /\ ChannelTypes /\ TransitTypes /\ LoopTypes /\ ctxDoneCh \in Seq(Ids)
  BY CallsAssumption DEF Answerable, Calls, Ids, Once, BaseInv, TypeOK, CallTypes
<1>1. UNCHANGED <<toServer, handler, caller, expired>>
  BY DEF LoopStep, LoopTimeout, LoopReceive, LoopDeliver, LoopGivesUp, LoopFinish, LoopDies, server
<1>2. AskedOnce(c)'
  BY <1>0, <1>1, AskedSame
<1>3. AnsweredLater(c)'
  <2>1. CASE LoopReceive
    <3>1. /\ toClient # <<>> /\ toClient' = Tail(toClient)
          /\ loop' = Idle \/ loop'.call = Head(toClient).call
      BY <2>1 DEF LoopReceive
    <3>2. Answering(c)' => Answering(c)
      BY <1>0, <3>1, FromClient DEF Answering
    <3>3. loop'.call = c => Answering(c)
      BY <1>0, <3>1, FromClient DEF Answering, Idle
    <3> QED BY <1>0, <1>1, <3>2, <3>3 DEF AnsweredLater
  <2>2. CASE LoopDies
    <3>1. toClient' = <<>> /\ loop'.call = loop.call
      BY <1>0, <2>2 DEF LoopDies, LoopTypes
    <3> QED BY <1>0, <1>1, <3>1 DEF AnsweredLater, Answering
  <2>3. CASE LoopTimeout \/ LoopDeliver \/ LoopGivesUp \/ LoopFinish
    <3>1. UNCHANGED toClient
      BY <2>3 DEF LoopTimeout, LoopDeliver, LoopGivesUp, LoopFinish
    <3>2. \/ loop' = loop \/ loop' = Idle \/ loop' = [Idle EXCEPT !.at = "closing"]
          \/ loop' = [loop EXCEPT !.at = "finish"] \/ loop' = [loop EXCEPT !.at = "wait"]
      BY <2>3 DEF LoopTimeout, LoopDeliver, LoopGivesUp, LoopFinish, Delivered
    <3>3. loop'.call = loop.call \/ loop'.call = NoCall
      BY <1>0, <3>2 DEF Idle, LoopTypes
    <3> QED BY <1>0, <1>1, <3>1, <3>3, AnsweredSame
  <2> QED BY <2>1, <2>2, <2>3 DEF LoopStep
<1>4. RegisteredTill(c)'
  <2>1. \/ rpcMap'[c] = rpcMap[c] /\ respCh'[c].closed = respCh[c].closed
        \/ \E id \in Ids : Ends(id)
    <3>1. CASE LoopTimeout
      <4>1. Head(ctxDoneCh) \in Ids /\ UnregisterRpc(Head(ctxDoneCh), TRUE)
        BY <1>0, <3>1, TailIs DEF LoopTimeout
      <4> QED BY <4>1, EndsOf
    <3>2. CASE LoopGivesUp \/ LoopFinish
      <4>1. loop.call \in Ids /\ UnregisterRpc(loop.call, FALSE)
        BY <1>0, <3>2 DEF LoopGivesUp, LoopFinish, LoopTypes, Ids, Answerable, Calls
      <4> QED BY <4>1, EndsOf
    <3>3. CASE LoopDeliver
      <4>1. UNCHANGED rpcMap
            /\ \/ UNCHANGED respCh
               \/ respCh' = [respCh EXCEPT ![loop.call].queue = Append(respCh[loop.call].queue, loop.what)]
        BY <3>3 DEF LoopDeliver
      <4>2. loop.call \in Calls
        BY <1>0, <3>3 DEF LoopDeliver, LoopTypes, Answerable, Calls
      <4> QED BY <1>0, <4>1, <4>2, QueueSet
    <3>4. CASE LoopReceive \/ LoopDies
      BY <3>4 DEF LoopReceive, LoopDies
    <3> QED BY <3>1, <3>2, <3>3, <3>4 DEF LoopStep
  <2>2. Asked(c)' => Asked(c)
    BY <1>1 DEF Asked
  <2> QED BY <1>0, <1>1, <2>1, <2>2, RegisteredSame
<1> QED BY <1>2, <1>3, <1>4

(* The server starts a handler for every request it takes.                 *)
LEMMA ServeKeepsOnce ==
  ASSUME BaseInv, Once, NEW c \in Answerable, Serve
  PROVE  AskedOnce(c)' /\ AnsweredLater(c)' /\ RegisteredTill(c)'
<1> DEFINE m == toServer[1]
<1>0. /\ c \in Calls /\ c \notin Commands /\ TransitTypes /\ HandlerTypes
      /\ AskedOnce(c) /\ AnsweredLater(c) /\ RegisteredTill(c)
  BY CallsAssumption DEF Answerable, Calls, Once, BaseInv, TypeOK
<1>1. /\ toServer # <<>> /\ toServer' = Tail(toServer)
      /\ UNCHANGED <<rpcMap, respCh, caller, loop, toClient, expired>>
  BY DEF Serve, client
<1>2. /\ Head(toServer) = m /\ m \in [call : Calls, cancel : BOOLEAN] /\ 1 \in DOMAIN toServer
      /\ \A i \in DOMAIN toServer' :
           i \in Nat /\ i + 1 \in DOMAIN toServer /\ toServer'[i] = toServer[i + 1] /\ i + 1 # 1
  BY <1>0, <1>1, FromServer
<1>3. /\ m.call = c /\ ~m.cancel => handler'[c] = "spawned"
      /\ m.call = c /\ m.cancel => handler'[c] = IF handler[c] = "running" THEN "canceled" ELSE handler[c]
      /\ m.call # c => handler'[c] = handler[c]
  BY <1>0, <1>2 DEF Serve, HandlerTypes
<1> HIDE DEF m
<1>4. Asked(c)' => Asked(c)
  BY <1>2 DEF Asked
<1>5. m.call = c /\ ~m.cancel => Asked(c) /\ ~Asked(c)'
  BY <1>0, <1>2 DEF Asked, AskedOnce, m
<1>6. AskedOnce(c)'
  <2>1. \A i, j \in DOMAIN toServer' :
          /\ toServer'[i].call = c /\ ~toServer'[i].cancel
          /\ toServer'[j].call = c /\ ~toServer'[j].cancel
          => i = j
    BY <1>0, <1>2 DEF AskedOnce
  <2>2. caller'[c] \in {"idle", "sending"} => ~Asked(c)' /\ handler'[c] = "none"
    BY <1>0, <1>1, <1>3, <1>4, <1>5, <1>2 DEF AskedOnce
  <2>3. Asked(c)' => handler'[c] = "none"
    BY <1>0, <1>2, <1>3, <1>4, <1>5 DEF AskedOnce
  <2> QED BY <2>1, <2>2, <2>3 DEF AskedOnce
<1>7. handler'[c] = "none" => handler[c] = "none"
  BY <1>2, <1>3
<1>8. AnsweredLater(c)'
  BY <1>0, <1>1, <1>7, AnsweredSame
<1>9. RegisteredTill(c)'
  BY <1>0, <1>1, <1>2, <1>3, <1>4, <1>5 DEF RegisteredTill
<1> QED BY <1>6, <1>8, <1>9

(* What a handler sends answers its own call.                              *)
LEMMA HandlerSendsWhat ==
  ASSUME BaseInv, Once, NEW a \in Calls, HandlerStep(a)
  PROVE  \/ UNCHANGED toClient
         \/ /\ a \in Answerable /\ handler[a] # "none"
            /\ \E what \in 0 .. MaxResponses : Answers(a, what)
<1>0. HandlerTypes
  BY DEF BaseInv, TypeOK
<1>1. CASE HandlerSends(a)
  <2>1. a \in Answerable /\ handler[a] # "none" /\ produced[a] + 1 \in 0 .. MaxResponses
    BY <1>0, <1>1, SizesAssumption DEF HandlerSends, Serving, HandlerTypes, Answerable
  <2>2. UNCHANGED toClient \/ Answers(a, produced[a] + 1)
    BY <1>1 DEF HandlerSends, SendResponse
  <2> QED BY <2>1, <2>2
<1>2. CASE HandlerEnds(a)
  BY <1>0, <1>2, SizesAssumption DEF HandlerEnds, SendResponse, Serving, Final, Answerable
<1>3. CASE RequestAnswered(a)
  BY <1>3, SizesAssumption DEF RequestAnswered, Final, Answerable
<1>4. CASE StreamFinalized(a)
  <2>1. a \in Answerable /\ handler[a] # "none"
    BY <1>4 DEF StreamFinalized, Answerable, Once, AnsweredLater
  <2> QED BY <1>4, <2>1, SizesAssumption DEF StreamFinalized, Final
<1>5. CASE HandleRequest(a) \/ HandlerDone(a) \/ HandlerExpires(a)
  BY <1>5 DEF HandleRequest, HandlerDone, HandlerExpires
<1> QED BY <1>1, <1>2, <1>3, <1>4, <1>5 DEF HandlerStep

(* The handlers.                                                           *)
LEMMA HandlerKeepsOnce ==
  ASSUME BaseInv, Once, NEW a \in Calls, NEW c \in Answerable, HandlerStep(a)
  PROVE  AskedOnce(c)' /\ AnsweredLater(c)' /\ RegisteredTill(c)'
<1>0. /\ c \in Calls /\ TransitTypes /\ HandlerTypes
      /\ AskedOnce(c) /\ AnsweredLater(c) /\ RegisteredTill(c)
  BY DEF Answerable, Calls, Once, BaseInv, TypeOK
<1>1. UNCHANGED <<toServer, rpcMap, respCh, caller, loop>>
  BY DEF HandlerStep, HandleRequest, RequestAnswered, HandlerSends, HandlerEnds, HandlerDone,
         HandlerExpires, StreamFinalized, client
<1>2. \/ handler'[c] = handler[c]
      \/ handler[c] # "none" /\ handler'[c] # "none"
  BY <1>0 DEF HandlerStep, HandleRequest, RequestAnswered, HandlerSends, HandlerEnds, HandlerDone,
              HandlerExpires, StreamFinalized, Serving, HandlerTypes
<1>3. AskedOnce(c)'
  BY <1>0, <1>1, <1>2, AskedSame
<1>4. RegisteredTill(c)'
  BY <1>0, <1>1, <1>2 DEF RegisteredTill, Asked
<1>5. AnsweredLater(c)'
  <2>0. c \in expired' => c \in expired \/ handler'[c] # "none"
    BY <1>0 DEF HandlerStep, HandleRequest, RequestAnswered, HandlerSends, HandlerEnds, HandlerDone,
                HandlerExpires, StreamFinalized, Serving, HandlerTypes
  <2>1. CASE UNCHANGED toClient
    BY <1>0, <1>1, <1>2, <2>0, <2>1 DEF AnsweredLater, Answering
  <2>2. ASSUME NEW what \in 0 .. MaxResponses, Answers(a, what), toClient' # toClient,
               a \in Answerable, handler[a] # "none"
        PROVE  AnsweredLater(c)'
    <3>1. toClient' = Append(toClient, [call |-> a, what |-> what])
      BY <2>2 DEF Answers
    <3>2. Answering(c)' => Answering(c) \/ c = a
      BY <1>0, <2>2, <3>1, ToClient DEF Answering
    <3> QED BY <1>0, <1>1, <1>2, <2>0, <2>2, <3>2 DEF AnsweredLater
  <2>3. \/ UNCHANGED toClient
        \/ /\ a \in Answerable /\ handler[a] # "none"
           /\ \E what \in 0 .. MaxResponses : Answers(a, what)
    BY HandlerSendsWhat
  <2> QED BY <2>1, <2>2, <2>3
<1> QED BY <1>3, <1>4, <1>5

(* Every step keeps Once.                                                  *)
LEMMA NextKeepsOnce == BaseInv /\ Once /\ [Next]_vars => Once'
<1> SUFFICES ASSUME BaseInv, Once, [Next]_vars, NEW c \in Answerable
             PROVE  AskedOnce(c)' /\ AnsweredLater(c)' /\ RegisteredTill(c)'
  BY DEF Once
<1>1. CASE Next
  BY <1>1, CallerKeepsOnce, LoopKeepsOnce, ServeKeepsOnce, HandlerKeepsOnce DEF Next
<1>2. CASE UNCHANGED vars
  BY <1>2 DEF vars, client, server, Once, AskedOnce, AnsweredLater, RegisteredTill, Asked, Answering
<1> QED BY <1>1, <1>2

(* A call's time is its own: whoever else ends puts nothing but his own    *)
(* call into ctxDone, and a call that still sends is in nobody's hands.    *)
LEMMA OwnTime ==
  ASSUME BaseInv, Once, Next, NEW c \in Answerable,
         caller[c] = "sending", c \in ctxDone' \ ctxDone
  PROVE  TimeIsOver(c)
<1>0. /\ c \in Calls /\ c # NoId /\ c # NoCall /\ c \notin Commands /\ handler[c] = "none"
      /\ loop.call # c /\ ctxDone \subseteq Calls /\ ctxDoneCh \in Seq(Ids) /\ LoopTypes
      /\ caller \in [Calls -> {"idle", "sending", "reading", "over"}]
  BY CallsAssumption
  DEF Answerable, Calls, Once, AskedOnce, AnsweredLater, BaseInv, TypeOK, CallTypes
<1>1. ASSUME NEW id \in Ids, NEW error \in BOOLEAN, UnregisterRpc(id, error)
      PROVE  id = c
  <2>1. rpcMap[id] = c
    BY <1>0, <1>1, UnregisterFacts
  <2> QED BY <1>0, <1>1, <2>1, CallsAssumption DEF BaseInv, Registry, Ids, Calls, Answerable
<1>2. ASSUME NEW a \in Calls, Finalize(a)
      PROVE  a = c
  BY <1>0, <1>2, FinalizeFacts
<1>3. ASSUME NEW a \in Calls, CallerStep(a)
      PROVE  FALSE
  <2>1. CASE Finalize(a)
    <3>1. a = c
      BY <1>2, <2>1
    <3> QED BY <1>0, <1>3, <3>1
        DEF CallerStep, SendComplexRequest, RequestSent, RequestNotSent, RequestPanics,
            RequestReturns, StreamReads, SendCancel
  <2>2. CASE ~Finalize(a)
    BY <1>0, <1>3, <2>2
    DEF CallerStep, SendComplexRequest, RequestSent, RequestNotSent, RequestPanics,
        RequestReturns, StreamReads, SendCancel
  <2> QED BY <2>1, <2>2
<1>4. ~LoopStep
  <2>1. CASE LoopTimeout
    <3>1. /\ Head(ctxDoneCh) \in Ids /\ UnregisterRpc(Head(ctxDoneCh), TRUE)
          /\ Head(ctxDoneCh) = ctxDoneCh[1] /\ 1 \in DOMAIN ctxDoneCh
      <4>1. ctxDoneCh # <<>> /\ UnregisterRpc(Head(ctxDoneCh), TRUE)
        BY <2>1 DEF LoopTimeout
      <4>2. /\ Head(ctxDoneCh) = ctxDoneCh[1] /\ ctxDoneCh[1] \in Ids
            /\ Len(ctxDoneCh) \in Nat \ {0}
        BY <1>0, <4>1, TailIs
      <4>3. 1 \in DOMAIN ctxDoneCh
        BY <1>0, <4>2
      <4> QED BY <4>1, <4>2, <4>3
    <3>2. ctxDoneCh[1] = c
      BY <1>1, <3>1
    <3> QED BY <1>0, <3>1, <3>2 DEF BaseInv, Registry
  <2>2. CASE LoopGivesUp \/ LoopFinish
    <3>1. loop.call \in Ids /\ UnregisterRpc(loop.call, FALSE)
      BY <1>0, <2>2 DEF LoopGivesUp, LoopFinish, LoopTypes, Ids, Answerable, Calls
    <3> QED BY <1>0, <1>1, <3>1
  <2>3. CASE LoopReceive \/ LoopDeliver \/ LoopDies
    BY <2>3 DEF LoopReceive, LoopDeliver, LoopDies
  <2> QED BY <2>1, <2>2, <2>3 DEF LoopStep
<1>5. ASSUME NEW a \in Calls, RetrySendTimeout(a)
      PROVE  FALSE
  BY <1>5 DEF RetrySendTimeout, Reports
<1>6. ~Serve
  BY DEF Serve, client
<1>7. ASSUME NEW a \in Calls, HandlerStep(a)
      PROVE  FALSE
  BY <1>7 DEF HandlerStep, HandleRequest, RequestAnswered, HandlerSends, HandlerEnds, HandlerDone,
              HandlerExpires, StreamFinalized, client
<1>8. PICK a \in Calls : TimeIsOver(a)
  BY <1>3, <1>4, <1>5, <1>6, <1>7 DEF Next
<1>9. a = c
  BY <1>8 DEF TimeIsOver
<1> QED BY <1>8, <1>9

(* What keeps Once keeps it in every state.                                *)
THEOREM OnceHolds == Spec => []Once
<1>1. Init => Once
  BY CallsAssumption
  DEF Init, Once, AskedOnce, AnsweredLater, RegisteredTill, Asked, Answering, Idle, Answerable, Calls
<1>2. BaseInv /\ Once /\ [Next]_vars => Once'
  BY NextKeepsOnce
<1> QED BY <1>1, <1>2, BaseHolds, PTL DEF Spec

(* A call that waits for room in OutputCh waits until its own time is      *)
(* over: the timeouts, cancels and ends of other calls, also those that    *)
(* share the empty id, leave it alone.                                     *)
THEOREM OwnTimeOnly == Spec => EndsByItsOwnTime
<1>1. ASSUME BaseInv, Once, [Next]_vars
      PROVE  [\A c \in Calls \ Commands :
                caller[c] = "sending" /\ c \in ctxDone' \ ctxDone => TimeIsOver(c)]_vars
  <2>1. CASE UNCHANGED vars
    BY <2>1
  <2>2. CASE Next
    <3>1. ASSUME NEW c \in Calls \ Commands, caller[c] = "sending", c \in ctxDone' \ ctxDone
          PROVE  TimeIsOver(c)
      <4>1. c \in Answerable
        BY DEF Calls, Answerable
      <4> QED BY <1>1, <2>2, <3>1, <4>1, OwnTime
    <3> QED BY <3>1
  <2> QED BY <1>1, <2>1, <2>2
<1> QED BY <1>1, BaseHolds, OnceHolds, PTL DEF Spec, EndsByItsOwnTime
-----------------------------------------------------------------------------
(* What can bring runServer down.                                          *)

InHand(c) == loop.at \in {"deliver", "wait"} /\ loop.call = c

(* A request is answered once, into a channel that is empty or closed.     *)
OneAnswer(c) ==
  /\ Answering(c) \/ InHand(c) => handler[c] = "ended"
  /\ InHand(c) => ~Answering(c)
  /\ \A i, j \in DOMAIN toClient : toClient[i].call = c /\ toClient[j].call = c => i = j
  /\ (handler[c] # "ended" \/ Answering(c) \/ InHand(c)) /\ ~respCh[c].closed
       => respCh[c].queue = <<>>

(* While nobody has cancelled, the channel that runServer has taken out of *)
(* the map is open.                                                        *)
HandOpen ==
  loop.at \in {"deliver", "wait"} /\ cancelled = {} => ~respCh[loop.call].closed

HandInv == (\A c \in Requests : OneAnswer(c)) /\ HandOpen /\ OnlyCancelEndsServer

(* A step that leaves the messages and the loop alone and only closes      *)
(* channels.                                                               *)
LEMMA OneAnswerSame ==
  ASSUME NEW c \in Requests, OneAnswer(c), UNCHANGED <<toClient, loop>>,
         handler[c] = "ended" <=> handler'[c] = "ended",
         respCh'[c] = respCh[c] \/ respCh'[c].closed
  PROVE  OneAnswer(c)'
<1>1. (InHand(c)' <=> InHand(c)) /\ (Answering(c)' <=> Answering(c))
  BY DEF InHand, Answering
<1> QED BY <1>1 DEF OneAnswer

(* The calling goroutine and its context.                                  *)
LEMMA CallerKeepsHand ==
  ASSUME BaseInv, Once, HandInv, NEW a \in Calls,
         CallerStep(a) \/ TimeIsOver(a) \/ RetrySendTimeout(a)
  PROVE  HandInv'
<1>0. ChannelTypes /\ LoopTypes /\ a \in Ids
  BY DEF BaseInv, TypeOK, Ids
<1>1. UNCHANGED <<toClient, loop, handler>> /\ cancelled \subseteq cancelled'
  BY DEF CallerStep, SendComplexRequest, RequestSent, RequestNotSent, RequestPanics,
         RequestReturns, StreamReads, SendCancel, TimeIsOver, RetrySendTimeout, server
<1>2. \/ UNCHANGED respCh
      \/ (RequestNotSent(a) \/ SendCancel(a) \/ (RequestSent(a) /\ a \in Commands)) /\ Ends(a)
      \/ RequestReturns(a)
      \/ StreamReads(a)
  <2>1. Finalize(a) => Ends(a)
    BY EndsOf
  <2>2. CASE RequestNotSent(a)
    <3>1. Finalize(a)
      BY <2>2 DEF RequestNotSent
    <3> QED BY <2>1, <2>2, <3>1
  <2>3. CASE SendCancel(a)
    <3>1. Finalize(a) \/ UNCHANGED respCh
      BY <2>3 DEF SendCancel
    <3> QED BY <2>1, <2>3, <3>1
  <2>4. CASE RequestSent(a)
    BY <2>1, <2>4 DEF RequestSent
  <2>5. CASE SendComplexRequest(a) \/ RequestPanics(a) \/ TimeIsOver(a) \/ RetrySendTimeout(a)
    BY <2>5 DEF SendComplexRequest, RequestPanics, TimeIsOver, RetrySendTimeout, Reports
  <2> QED BY <2>2, <2>3, <2>4, <2>5 DEF CallerStep
<1>3. ASSUME NEW c \in Requests
      PROVE  respCh'[c] = respCh[c] \/ respCh'[c].closed
  <2>1. c \in Calls /\ c \in Answerable /\ c \notin Streams
    BY CallsAssumption DEF Calls, Answerable
  <2>2. CASE Ends(a)
    BY <2>1, <2>2 DEF Ends, Closes
  <2>3. CASE RequestReturns(a)
    BY <1>0, <2>1, <2>3 DEF RequestReturns, ChannelTypes
  <2>4. CASE StreamReads(a)
    <3>1. a # c /\ \/ UNCHANGED respCh
                   \/ respCh' = [respCh EXCEPT ![a].queue = Tail(respCh[a].queue)]
      BY <2>1, <2>4 DEF StreamReads
    <3> QED BY <1>0, <2>1, <3>1, QueueSet
  <2> QED BY <1>2, <2>2, <2>3, <2>4
<1>4. ASSUME NEW c \in Requests PROVE OneAnswer(c)'
  BY <1>1, <1>3, OneAnswerSame DEF HandInv
<1>5. HandOpen'
  <2> SUFFICES ASSUME loop.at \in {"deliver", "wait"}, cancelled' = {}
               PROVE  ~respCh'[loop.call].closed
    BY <1>1 DEF HandOpen
  <2> DEFINE c == loop.call
  <2>1. /\ c \in Answerable /\ c \in Calls /\ ~respCh[c].closed /\ InHand(c) /\ cancelled = {}
        /\ handler[c] # "none" /\ c \notin Commands /\ caller[c] # "sending"
    BY <1>0, <1>1, CallsAssumption
    DEF LoopTypes, HandInv, HandOpen, InHand, Calls, Answerable, Once, AnsweredLater, AskedOnce
  <2> HIDE DEF c
  <2>2. CASE (RequestNotSent(a) \/ SendCancel(a) \/ (RequestSent(a) /\ a \in Commands)) /\ Ends(a)
    <3>1. a # c
      BY <2>1, <2>2 DEF RequestNotSent, SendCancel
    <3> QED BY <2>1, <2>2, <3>1 DEF Ends, c
  <2>3. CASE RequestReturns(a)
    <3>1. CASE a = c
      <4>1. OneAnswer(c) /\ (respCh[c].queue # <<>> \/ respCh[c].closed)
        BY <2>3, <3>1 DEF RequestReturns, HandInv
      <4> QED BY <2>1, <4>1 DEF OneAnswer
    <3>2. CASE a # c
      BY <1>0, <2>1, <2>3, <3>2 DEF RequestReturns, ChannelTypes, c
    <3> QED BY <3>1, <3>2
  <2>4. CASE StreamReads(a)
    <3>1. \/ UNCHANGED respCh
          \/ respCh' = [respCh EXCEPT ![a].queue = Tail(respCh[a].queue)]
      BY <2>4 DEF StreamReads
    <3> QED BY <1>0, <2>1, <3>1, QueueSet DEF c
  <2> QED BY <1>2, <2>1, <2>2, <2>3, <2>4 DEF c
<1>6. OnlyCancelEndsServer'
  BY <1>1 DEF HandInv, OnlyCancelEndsServer
<1> QED BY <1>4, <1>5, <1>6 DEF HandInv

(* runServer.                                                              *)
LEMMA LoopKeepsHand ==
  ASSUME BaseInv, Once, HandInv, LoopStep
  PROVE  HandInv'
<1>0. ChannelTypes /\ LoopTypes /\ TransitTypes /\ ctxDoneCh \in Seq(Ids)
  BY DEF BaseInv, TypeOK, CallTypes
<1>1. UNCHANGED <<handler, cancelled>>
  BY DEF LoopStep, LoopTimeout, LoopReceive, LoopDeliver, LoopGivesUp, LoopFinish, LoopDies, server
<1>2. \A c \in Requests : c \in Calls /\ c \in Answerable /\ c # NoCall /\ OneAnswer(c)
  BY CallsAssumption DEF Calls, Answerable, HandInv
<1>3. CASE LoopTimeout \/ LoopGivesUp \/ LoopFinish
  <2>1. PICK id \in Ids, error \in BOOLEAN : UnregisterRpc(id, error)
    <3>1. CASE LoopTimeout
      <4>1. ctxDoneCh # <<>> /\ UnregisterRpc(Head(ctxDoneCh), TRUE)
        BY <3>1 DEF LoopTimeout
      <4>2. Head(ctxDoneCh) \in Ids
        BY <1>0, <4>1, TailIs
      <4> QED BY <4>1, <4>2
    <3>2. CASE LoopGivesUp \/ LoopFinish
      BY <1>0, <3>2 DEF LoopGivesUp, LoopFinish, LoopTypes, Ids, Answerable, Calls
    <3> QED BY <1>3, <3>1, <3>2
  <2>2. Ends(id)
    BY <2>1, EndsOf
  <2>3. UNCHANGED toClient /\ loop'.at \notin {"deliver", "wait", "closing", "dead"}
    <3>1. \/ loop.at = "select" /\ loop' = loop
          \/ loop' = Idle \/ loop' = [loop EXCEPT !.at = "finish"]
      BY <1>3 DEF LoopTimeout, LoopGivesUp, LoopFinish, Delivered
    <3>2. loop'.at \in {"select", "finish"}
      BY <1>0, <3>1 DEF Idle, LoopTypes
    <3> QED BY <1>3, <3>2 DEF LoopTimeout, LoopGivesUp, LoopFinish
  <2>4. ASSUME NEW c \in Requests PROVE OneAnswer(c)'
    <3>1. respCh'[c] = respCh[c] \/ respCh'[c].closed
      BY <1>2, <2>2 DEF Ends, Closes
    <3>2. ~InHand(c)' /\ (Answering(c)' <=> Answering(c))
      BY <2>3 DEF InHand, Answering
    <3> QED BY <1>1, <1>2, <2>3, <3>1, <3>2 DEF OneAnswer
  <2> QED BY <2>3, <2>4 DEF HandInv, HandOpen, OnlyCancelEndsServer
<1>4. CASE LoopReceive
  <2> DEFINE m == toClient[1]
  <2>1. /\ toClient # <<>> /\ toClient' = Tail(toClient) /\ UNCHANGED respCh
        /\ \/ loop' = Idle
           \/ /\ loop' = [at |-> "deliver", call |-> Head(toClient).call, what |-> Head(toClient).what]
              /\ rpcMap[Head(toClient).call] # NoCall
    BY <1>4 DEF LoopReceive
  <2>2. /\ Len(toClient) \in Nat \ {0}
        /\ DOMAIN toClient = 1 .. Len(toClient) /\ DOMAIN toClient' = 1 .. Len(toClient) - 1
        /\ Head(toClient) = m /\ m \in [call : Answerable, what : 0 .. MaxResponses]
        /\ \A i \in DOMAIN toClient' : toClient'[i] = toClient[i + 1]
    BY <1>0, <2>1, FromClient
  <2>3. \/ loop'.at = "select"
        \/ loop'.at = "deliver" /\ loop'.call = m.call /\ rpcMap[m.call] # NoCall
    BY <2>1, <2>2 DEF Idle
  <2>4. m.call \in Answerable
    BY <2>2
  <2>5. \A c \in Requests : m.call = c => Answering(c)
    BY <2>2 DEF Answering
  <2>6. \A c \in Requests : Answering(c)' => Answering(c) /\ m.call # c
    <3>1. ASSUME NEW c \in Requests, NEW i \in DOMAIN toClient', toClient'[i].call = c
          PROVE  Answering(c) /\ m.call # c
      <4>1. i + 1 \in DOMAIN toClient /\ toClient[i + 1].call = c /\ i + 1 # 1 /\ 1 \in DOMAIN toClient
        BY <2>2, <3>1
      <4> QED BY <1>2, <4>1 DEF OneAnswer, Answering
    <3> QED BY <3>1 DEF Answering
  <2>7. ASSUME NEW c \in Requests PROVE OneAnswer(c)'
    <3>1. \A i, j \in DOMAIN toClient' : toClient'[i].call = c /\ toClient'[j].call = c => i = j
      BY <1>2, <2>2 DEF OneAnswer
    <3>2. InHand(c)' => m.call = c
      BY <2>3 DEF InHand
    <3>3. (Answering(c)' => Answering(c) /\ m.call # c) /\ (m.call = c => Answering(c))
      BY <2>5, <2>6
    <3> QED BY <1>1, <1>2, <2>1, <3>1, <3>2, <3>3 DEF OneAnswer
  <2>8. HandOpen'
    BY <1>1, <2>1, <2>3, <2>4 DEF HandOpen, BaseInv, Registry
  <2>9. OnlyCancelEndsServer'
    BY <2>3 DEF OnlyCancelEndsServer
  <2> QED BY <2>7, <2>8, <2>9 DEF HandInv
<1>5. CASE LoopDeliver
  <2> DEFINE d == loop.call
  <2>1. /\ d \in Answerable /\ d \in Calls /\ loop.at \in {"deliver", "wait"} /\ UNCHANGED toClient
    BY <1>0, <1>5 DEF LoopDeliver, LoopTypes, Answerable, Calls
  <2>2. \/ /\ respCh[d].closed /\ loop' = [Idle EXCEPT !.at = "closing"] /\ UNCHANGED respCh
        \/ /\ ~respCh[d].closed /\ loop' = Delivered
           /\ respCh' = [respCh EXCEPT ![d].queue = Append(respCh[d].queue, loop.what)]
        \/ /\ loop' = [loop EXCEPT !.at = "wait"] /\ UNCHANGED respCh
    BY <1>5 DEF LoopDeliver
  <2>3. \/ respCh[d].closed /\ loop'.at = "closing" /\ UNCHANGED respCh
        \/ /\ loop'.at \in {"select", "finish"}
           /\ \A c \in Calls : c # d => respCh'[c] = respCh[c]
        \/ loop'.at = "wait" /\ loop'.call = d /\ UNCHANGED respCh
    <3>1. CASE respCh' = [respCh EXCEPT ![d].queue = Append(respCh[d].queue, loop.what)]
      <4>1. \A c \in Calls : c # d => respCh'[c] = respCh[c]
        BY <1>0, <2>1, <3>1, QueueSet
      <4> QED BY <1>0, <2>2, <4>1 DEF Delivered, Idle, LoopTypes
    <3>2. CASE UNCHANGED respCh
      BY <1>0, <2>2, <3>2 DEF Delivered, Idle, LoopTypes
    <3> QED BY <2>2, <3>1, <3>2
  <2>4. InHand(d)
    BY <2>1 DEF InHand
  <2> HIDE DEF d
  <2>5. ASSUME NEW c \in Requests PROVE OneAnswer(c)'
    <3>1. (Answering(c)' <=> Answering(c)) /\ (InHand(c)' => c = d /\ UNCHANGED respCh)
      BY <2>1, <2>3 DEF Answering, InHand
    <3>2. CASE c = d
      BY <1>1, <1>2, <2>1, <2>3, <2>4, <3>1, <3>2 DEF OneAnswer
    <3>3. CASE c # d
      BY <1>1, <1>2, <2>1, <2>3, <3>1, <3>3 DEF OneAnswer
    <3> QED BY <3>2, <3>3
  <2>6. HandOpen'
    BY <1>1, <2>1, <2>3 DEF HandInv, HandOpen, d
  <2>7. OnlyCancelEndsServer'
    BY <1>1, <2>1, <2>3 DEF HandInv, HandOpen, OnlyCancelEndsServer, d
  <2> QED BY <2>5, <2>6, <2>7 DEF HandInv
<1>6. CASE LoopDies
  <2>1. toClient' = <<>> /\ loop.at = "closing" /\ loop'.at = "dead" /\ UNCHANGED respCh
    BY <1>0, <1>6 DEF LoopDies, LoopTypes
  <2>2. \A c \in Requests : ~InHand(c)' /\ ~Answering(c)'
    BY <2>1 DEF InHand, Answering
  <2> QED BY <1>1, <1>2, <2>1, <2>2 DEF HandInv, OneAnswer, HandOpen, OnlyCancelEndsServer
<1> QED BY <1>3, <1>4, <1>5, <1>6 DEF LoopStep

(* The serving side.                                                       *)
LEMMA ServerKeepsHand ==
  ASSUME BaseInv, Once, HandInv, Serve \/ \E a \in Calls : HandlerStep(a)
  PROVE  HandInv'
<1>0. TransitTypes /\ HandlerTypes
  BY DEF BaseInv, TypeOK
<1>1. UNCHANGED <<respCh, loop, cancelled>>
  BY DEF Serve, HandlerStep, HandleRequest, RequestAnswered, HandlerSends, HandlerEnds,
         HandlerDone, HandlerExpires, StreamFinalized, client
<1>2. ASSUME NEW c \in Requests PROVE OneAnswer(c)'
  <2>1. c \in Answerable /\ c \in Calls /\ c \notin Streams /\ OneAnswer(c) /\ AskedOnce(c)
        /\ (InHand(c)' <=> InHand(c))
    BY <1>1, CallsAssumption DEF Answerable, Calls, HandInv, InHand, Once
  <2>2. CASE Serve
    <3>1. toServer # <<>> /\ toServer' = Tail(toServer) /\ UNCHANGED toClient
      BY <2>2 DEF Serve
    <3>2. /\ Head(toServer) = toServer[1] /\ toServer[1] \in [call : Calls, cancel : BOOLEAN]
          /\ 1 \in DOMAIN toServer
      BY <1>0, <3>1, FromServer
    <3>3. Head(toServer).call = c /\ ~Head(toServer).cancel => handler[c] = "none"
      BY <2>1, <3>2 DEF AskedOnce, Asked
    <3>4. \/ handler'[c] = handler[c]
          \/ handler[c] \in {"none", "running"} /\ handler'[c] \in {"spawned", "canceled"}
      BY <1>0, <2>1, <2>2, <3>2, <3>3 DEF Serve, HandlerTypes
    <3> QED BY <1>1, <2>1, <3>1, <3>4, OneAnswerSame
  <2>3. ASSUME NEW a \in Calls, HandlerStep(a), a # c
        PROVE  OneAnswer(c)'
    <3>1. handler'[c] = handler[c]
      BY <1>0, <2>1, <2>3 DEF HandlerStep, HandleRequest, RequestAnswered, HandlerSends, HandlerEnds,
             HandlerDone, HandlerExpires, StreamFinalized, HandlerTypes
    <3>2. CASE UNCHANGED toClient
      BY <1>1, <2>1, <3>1, <3>2, OneAnswerSame
    <3>3. ASSUME NEW what \in 0 .. MaxResponses, a \in Answerable,
                 toClient' = Append(toClient, [call |-> a, what |-> what])
          PROVE  OneAnswer(c)'
      <4>1. \A i \in DOMAIN toClient' : toClient'[i].call = c =>
              i \in DOMAIN toClient /\ toClient'[i] = toClient[i]
        BY <1>0, <2>3, <3>3, ToClient
      <4>2. Answering(c)' => Answering(c)
        BY <4>1 DEF Answering
      <4>3. \A i, j \in DOMAIN toClient' : toClient'[i].call = c /\ toClient'[j].call = c => i = j
        BY <2>1, <4>1 DEF OneAnswer
      <4> QED BY <1>1, <2>1, <3>1, <4>2, <4>3 DEF OneAnswer
    <3>4. \/ UNCHANGED toClient
          \/ /\ a \in Answerable
             /\ \E what \in 0 .. MaxResponses : toClient' = Append(toClient, [call |-> a, what |-> what])
      BY <2>3, HandlerSendsWhat DEF Answers
    <3> QED BY <3>2, <3>3, <3>4
  <2>4. CASE HandlerStep(c)
    <3>1. CASE RequestAnswered(c)
      <4>1. /\ handler[c] = "spawned" /\ handler'[c] = "ended"
            /\ \/ UNCHANGED toClient
               \/ toClient' = Append(toClient, [call |-> c, what |-> Final])
        BY <1>0, <2>1, <3>1 DEF RequestAnswered, Answers, HandlerTypes
      <4>2. ~Answering(c) /\ ~InHand(c) /\ (~respCh[c].closed => respCh[c].queue = <<>>)
        BY <2>1, <4>1 DEF OneAnswer
      <4>3. Final \in 0 .. MaxResponses
        BY SizesAssumption DEF Final
      <4>4. \A i \in DOMAIN toClient' : toClient'[i].call = c => i = Len(toClient) + 1
        BY <1>0, <2>1, <4>1, <4>2, <4>3, ToClient DEF Answering
      <4> QED BY <1>1, <2>1, <4>1, <4>2, <4>4 DEF OneAnswer
    <3>2. CASE ~RequestAnswered(c)
      BY <2>1, <2>4, <3>2 DEF HandlerStep, HandleRequest, HandlerSends, HandlerEnds, HandlerDone,
             HandlerExpires, StreamFinalized, Serving
    <3> QED BY <3>1, <3>2
  <2> QED BY <2>2, <2>3, <2>4
<1> QED BY <1>1, <1>2 DEF HandInv, HandOpen, OnlyCancelEndsServer

(* The invariant behind the end of runServer.                              *)
THEOREM HandHolds == Spec => []HandInv
<1>1. Init => HandInv
  BY DEF Init, HandInv, OneAnswer, HandOpen, OnlyCancelEndsServer, Answering, InHand, Idle,
         Calls, Answerable
<1>2. BaseInv /\ Once /\ HandInv /\ [Next]_vars => HandInv'
  <2> SUFFICES ASSUME BaseInv, Once, HandInv, [Next]_vars PROVE HandInv'
    OBVIOUS
  <2>1. CASE Next
    BY <2>1, CallerKeepsHand, LoopKeepsHand, ServerKeepsHand DEF Next
  <2>2. CASE UNCHANGED vars
    BY <2>2 DEF vars, client, server, HandInv, OneAnswer, HandOpen, OnlyCancelEndsServer,
                Answering, InHand
  <2> QED BY <2>1, <2>2
<1> QED BY <1>1, <1>2, BaseHolds, OnceHolds, PTL DEF Spec

(* runServer sends on a closed channel, and takes every later call down    *)
(* with it, only if somebody has called SendCancel: no timeout, no reader  *)
(* that is too slow and no late response does it.                          *)
THEOREM OnlyCancelIsFatal == Spec => []OnlyCancelEndsServer
<1>1. HandInv => OnlyCancelEndsServer
  BY DEF HandInv
<1> QED BY <1>1, HandHolds, PTL
-----------------------------------------------------------------------------
(* What a stream reads.  Its responses are, in this order: read, in the    *)
(* channel, in the hands of runServer, in InputCh.                         *)

Nth(c, i) == IF i <= produced[c] THEN i ELSE Final
Read(c)   == Len(got[c])
Queued(c) == Read(c) + Len(respCh[c].queue)
Base(c)   == IF InHand(c) THEN Queued(c) + 1 ELSE Queued(c)
Mine(c)   == {i \in DOMAIN toClient : toClient[i].call = c}

(* What was taken out of InputCh continues what has been read; an error    *)
(* stands at the end of a closed channel.                                  *)
ReadOK(c) ==
  /\ \A i \in DOMAIN got[c] : got[c][i] = Nth(c, i)
  /\ \A i \in DOMAIN respCh[c].queue :
       \/ respCh[c].queue[i] = Nth(c, Read(c) + i)
       \/ /\ respCh[c].queue[i] = Error
          /\ i = Len(respCh[c].queue) /\ respCh[c].closed
  /\ InHand(c) /\ ~respCh[c].closed => loop.what = Nth(c, Queued(c) + 1)

(* The last response is sent when the handler closes.                      *)
NoFinal(c) ==
  handler[c] \notin {"closing", "ended"} =>
    /\ Read(c) <= produced[c]
    /\ \A i \in DOMAIN respCh[c].queue : respCh[c].queue[i] # Final
    /\ InHand(c) => loop.what # Final
    /\ \A i \in Mine(c) : toClient[i].what # Final
    /\ c \notin done

(* InputCh goes on where that ends, each response behind the one before    *)
(* it, the last one behind all, and up to what the handler has produced.   *)
InOrder(c) ==
  \A i \in Mine(c) :
    toClient[i].what # Final =>
      /\ Base(c) < toClient[i].what /\ toClient[i].what <= produced[c]
      /\ \/ toClient[i].what = Base(c) + 1
         \/ \E j \in Mine(c) : j < i /\ toClient[j].what = toClient[i].what - 1
      /\ \A j \in Mine(c) : j < i => 0 < toClient[j].what /\ toClient[j].what < toClient[i].what
FinalLast(c) ==
  \A i \in Mine(c) :
    toClient[i].what = Final =>
      Base(c) >= produced[c] \/ \E j \in Mine(c) : j < i /\ toClient[j].what = produced[c]
NoneMissing(c) ==
  Base(c) < produced[c] => \E j \in Mine(c) : toClient[j].what = produced[c]

(* As long as the channel is open and runServer reads.                     *)
Flowing(c) == ~respCh[c].closed /\ loop.at \notin {"closing", "dead"}
InTransit(c) == Flowing(c) => InOrder(c) /\ FinalLast(c) /\ NoneMissing(c)

Unstarted(c) ==
  handler[c] = "none" => /\ produced[c] = 0 /\ got[c] = <<>>
                         /\ c \notin done /\ c \notin expired

StreamOK(c) == Unstarted(c) /\ (c \notin expired => ReadOK(c) /\ NoFinal(c) /\ InTransit(c))

(* What the parts of a stream are.                                         *)
LEMMA StreamTypes ==
  ASSUME BaseInv, NEW c \in Streams
  PROVE  /\ c \in Calls /\ c \in Answerable /\ c # NoCall /\ c \notin Requests /\ c \notin Commands
         /\ got[c] \in Seq(0 .. MaxResponses) /\ Read(c) \in Nat /\ DOMAIN got[c] = 1 .. Read(c)
         /\ respCh[c].queue \in Seq(Responses) /\ Len(respCh[c].queue) \in Nat
         /\ DOMAIN respCh[c].queue = 1 .. Len(respCh[c].queue)
         /\ produced[c] \in Nat /\ Queued(c) \in Nat /\ Base(c) \in Nat
         /\ \A i \in Mine(c) : i \in Nat \ {0} /\ toClient[i].what \in Nat
<1>1. c \in Calls /\ c \in Answerable /\ c # NoCall /\ c \notin Requests /\ c \notin Commands
  BY CallsAssumption DEF Calls, Answerable
<1>2. got[c] \in Seq(0 .. MaxResponses)
  BY DEF BaseInv, TypeOK, CallTypes
<1>3. respCh[c].queue \in Seq(Responses)
  BY <1>1 DEF BaseInv, TypeOK, ChannelTypes
<1>4. produced[c] \in Nat
  BY SizesAssumption DEF BaseInv, TypeOK, HandlerTypes
<1>5. /\ Read(c) \in Nat /\ DOMAIN got[c] = 1 .. Read(c)
      /\ Len(respCh[c].queue) \in Nat
      /\ DOMAIN respCh[c].queue = 1 .. Len(respCh[c].queue)
  BY <1>2, <1>3 DEF Read
<1>6. Queued(c) \in Nat /\ Base(c) \in Nat
  BY <1>5 DEF Queued, Base
<1>7. ASSUME NEW i \in Mine(c)
      PROVE  i \in Nat \ {0} /\ toClient[i].what \in Nat
  <2> DEFINE M == [call : Answerable, what : 0 .. MaxResponses]
  <2>1. toClient \in Seq(M) /\ i \in DOMAIN toClient
    BY DEF BaseInv, TypeOK, TransitTypes, Mine
  <2> HIDE DEF M
  <2>2. i \in Nat \ {0} /\ toClient[i] \in M
    BY <2>1
  <2> QED BY <2>2, SizesAssumption DEF M
<1> QED BY <1>1, <1>2, <1>3, <1>4, <1>5, <1>6, <1>7

(* As long as no last response is on its way, no more was taken out of     *)
(* InputCh than was produced.                                              *)
LEMMA BaseWithin ==
  ASSUME BaseInv, NEW c \in Streams, ReadOK(c), NoFinal(c),
         handler[c] \notin {"closing", "ended"}, ~respCh[c].closed
  PROVE  Base(c) <= produced[c]
<1> DEFINE q == respCh[c].queue
<1>0. /\ Read(c) \in Nat /\ Len(q) \in Nat /\ DOMAIN q = 1 .. Len(q) /\ produced[c] \in Nat
      /\ Read(c) <= produced[c] /\ Queued(c) \in Nat
  BY StreamTypes DEF NoFinal
<1>1. Queued(c) <= produced[c]
  <2>1. CASE Len(q) = 0
    BY <1>0, <2>1 DEF Queued
  <2>2. CASE Len(q) # 0
    <3>1. Len(q) \in DOMAIN q
      BY <1>0, <2>2
    <3>2. q[Len(q)] = Nth(c, Read(c) + Len(q)) /\ q[Len(q)] # Final
      BY <3>1 DEF ReadOK, NoFinal
    <3> QED BY <1>0, <3>2 DEF Nth, Queued
  <2> QED BY <2>1, <2>2
<1>2. InHand(c) => Queued(c) + 1 <= produced[c]
  <2>1. InHand(c) => Nth(c, Queued(c) + 1) # Final
    BY DEF ReadOK, NoFinal
  <2> QED BY <1>0, <2>1 DEF Nth
<1> QED BY <1>0, <1>1, <1>2 DEF Base

(* A step that neither produces nor reads nor takes anything of this       *)
(* stream, and at most closes its channel or brings runServer down.        *)
LEMMA StreamSame ==
  ASSUME BaseInv, NEW c \in Streams, StreamOK(c),
         got'[c] = got[c], produced'[c] = produced[c], c \in expired => c \in expired',
         handler'[c] = "none" => handler[c] = "none" /\ c \notin done' /\ c \notin expired',
         handler'[c] \notin {"closing", "ended"} =>
           handler[c] \notin {"closing", "ended"} /\ (c \in done' => c \in done),
         respCh'[c] = respCh[c] \/ (Closes(c) /\ ~respCh[c].closed),
         InHand(c)' => InHand(c) /\ loop'.what = loop.what,
         ~respCh'[c].closed => /\ InHand(c)' <=> InHand(c)
                               /\ loop.at \in {"closing", "dead"} => loop'.at \in {"closing", "dead"},
         toClient' = toClient \/ (toClient' = <<>> /\ loop'.at = "dead")
  PROVE  StreamOK(c)'
<1> DEFINE q == respCh[c].queue
<1>1. Unstarted(c)'
  BY DEF StreamOK, Unstarted
<1> SUFFICES ASSUME c \notin expired'
             PROVE  ReadOK(c)' /\ NoFinal(c)' /\ InTransit(c)'
  BY <1>1 DEF StreamOK
<1>2. /\ ReadOK(c) /\ NoFinal(c) /\ InTransit(c)
      /\ Len(q) \in Nat /\ DOMAIN q = 1 .. Len(q) /\ q \in Seq(Responses)
  BY StreamTypes DEF StreamOK
<1>3. Read(c)' = Read(c) /\ \A i : Nth(c, i)' = Nth(c, i)
  BY DEF Read, Nth
<1>4. \/ respCh'[c] = respCh[c]
      \/ respCh'[c].queue = q /\ respCh'[c].closed /\ ~respCh[c].closed
      \/ /\ respCh'[c].closed /\ ~respCh[c].closed
         /\ DOMAIN respCh'[c].queue = 1 .. Len(q) + 1 /\ Len(respCh'[c].queue) = Len(q) + 1
         /\ respCh'[c].queue[Len(q) + 1] = Error
         /\ \A i \in DOMAIN q : respCh'[c].queue[i] = q[i]
  <2>1. CASE Closes(c) /\ respCh'[c].queue = Append(q, Error)
    <3>1. Error \in Responses
      BY DEF Responses
    <3>2. /\ Append(q, Error) \in Seq(Responses) /\ Len(Append(q, Error)) = Len(q) + 1
          /\ Append(q, Error)[Len(q) + 1] = Error
          /\ \A i \in 1 .. Len(q) : Append(q, Error)[i] = q[i]
      BY <1>2, <3>1, AppendIs
    <3>3. DOMAIN Append(q, Error) = 1 .. Len(q) + 1
      BY <3>2
    <3>4. respCh'[c] = respCh[c] \/ (respCh'[c].closed /\ ~respCh[c].closed)
      BY DEF Closes
    <3> QED BY <1>2, <2>1, <3>2, <3>3, <3>4
  <2> QED BY <2>1 DEF Closes
<1> HIDE DEF q
<1>5. ReadOK(c)'
  <2>1. \A i \in DOMAIN got'[c] : got'[c][i] = Nth(c, i)'
    BY <1>2, <1>3 DEF ReadOK
  <2>2. ASSUME NEW i \in DOMAIN respCh'[c].queue
        PROVE  \/ respCh'[c].queue[i] = Nth(c, Read(c) + i)'
               \/ /\ respCh'[c].queue[i] = Error
                  /\ i = Len(respCh'[c].queue) /\ respCh'[c].closed
    <3>1. CASE i \in DOMAIN q
      BY <1>2, <1>3, <1>4, <3>1 DEF ReadOK, q
    <3>2. CASE i \notin DOMAIN q
      <4>1. i = Len(q) + 1 /\ respCh'[c].queue[i] = Error /\ i = Len(respCh'[c].queue)
            /\ respCh'[c].closed
        BY <1>2, <1>4, <3>2 DEF q
      <4> QED BY <4>1
    <3> QED BY <3>1, <3>2
  <2>3. InHand(c)' /\ ~respCh'[c].closed => loop'.what = Nth(c, Queued(c) + 1)'
    BY <1>2, <1>3, <1>4 DEF ReadOK, Queued, q
  <2> QED BY <2>1, <2>2, <2>3 DEF ReadOK
<1>6. NoFinal(c)'
  <2> SUFFICES ASSUME handler'[c] \notin {"closing", "ended"}
               PROVE  /\ Read(c)' <= produced'[c]
                      /\ \A i \in DOMAIN respCh'[c].queue : respCh'[c].queue[i] # Final
                      /\ InHand(c)' => loop'.what # Final
                      /\ \A i \in Mine(c)' : toClient'[i].what # Final
                      /\ c \notin done'
    BY DEF NoFinal
  <2>1. /\ Read(c) <= produced[c]
        /\ \A i \in DOMAIN q : q[i] # Final
        /\ InHand(c) => loop.what # Final
        /\ \A i \in Mine(c) : toClient[i].what # Final
        /\ c \notin done
    BY <1>2 DEF NoFinal, q
  <2>2. \A i \in DOMAIN respCh'[c].queue : respCh'[c].queue[i] # Final
    BY <1>2, <1>4, <2>1 DEF q, Error, Final
  <2>3. \A i \in Mine(c)' : toClient'[i].what # Final
    <3>1. CASE toClient' = toClient
      BY <2>1, <3>1 DEF Mine
    <3>2. CASE toClient' = <<>>
      BY <3>2 DEF Mine
    <3> QED BY <3>1, <3>2
  <2> QED BY <1>3, <2>1, <2>2, <2>3
<1>7. InTransit(c)'
  <2> SUFFICES ASSUME Flowing(c)'
               PROVE  InOrder(c)' /\ FinalLast(c)' /\ NoneMissing(c)'
    BY DEF InTransit
  <2>1. Flowing(c) /\ respCh'[c] = respCh[c] /\ toClient' = toClient /\ (InHand(c)' <=> InHand(c))
    BY <1>4 DEF Flowing
  <2>2. Base(c)' = Base(c) /\ Mine(c)' = Mine(c)
    BY <1>3, <2>1 DEF Base, Queued, Mine
  <2> QED BY <1>2, <2>1, <2>2 DEF InTransit, InOrder, FinalLast, NoneMissing
<1> QED BY <1>5, <1>6, <1>7

(* The end of a call touches no other stream, and closes its own once.     *)
LEMMA EndsStream ==
  ASSUME BaseInv, NEW c \in Streams, NEW id \in Ids, Ends(id)
  PROVE  respCh'[c] = respCh[c] \/ (Closes(c) /\ ~respCh[c].closed)
<1>1. c \in Answerable
  BY DEF Answerable
<1>2. rpcMap[c] = c => ~respCh[c].closed
  BY <1>1 DEF BaseInv, Registry
<1> QED BY <1>1, <1>2 DEF Ends

(* The one who reads the stream.                                           *)
LEMMA StreamRead ==
  ASSUME BaseInv, NEW c \in Streams, StreamOK(c), StreamReads(c)
  PROVE  StreamOK(c)'
<1> DEFINE q == respCh[c].queue
           r == respCh'[c].queue
<1>0. /\ UNCHANGED <<loop, toClient, handler, produced, expired, done>>
      /\ c \in Calls /\ ChannelTypes /\ produced[c] \in Nat /\ Read(c) \in Nat
      /\ q \in Seq(Responses) /\ DOMAIN q = 1 .. Len(q) /\ got[c] \in Seq(0 .. MaxResponses)
      /\ DOMAIN got[c] = 1 .. Read(c) /\ got \in [Streams -> Seq(0 .. MaxResponses)]
  BY StreamTypes DEF StreamReads, server, BaseInv, TypeOK, CallTypes
<1>1. CASE q = <<>>
  <2>1. UNCHANGED <<respCh, got>>
    BY <1>1 DEF StreamReads
  <2>2. InHand(c)' <=> InHand(c)
    BY <1>0 DEF InHand
  <2> QED BY <1>0, <2>1, <2>2, StreamSame DEF StreamOK, Unstarted
<1>2. CASE q # <<>>
  <2>1. /\ respCh' = [respCh EXCEPT ![c].queue = Tail(q)]
        /\ got' = [got EXCEPT ![c] = IF Head(q) = Error THEN @ ELSE Append(@, Head(q))]
    BY <1>2 DEF StreamReads
  <2>2. r = Tail(q) /\ respCh'[c].closed = respCh[c].closed
    <3> HIDE DEF q
    <3> QED BY <1>0, <2>1, QueueSet
  <2>3. got'[c] = IF Head(q) = Error THEN got[c] ELSE Append(got[c], Head(q))
    BY <1>0, <2>1
  <2> HIDE DEF q, r
  <2>4. /\ r \in Seq(Responses) /\ Len(q) \in Nat \ {0} /\ Len(r) = Len(q) - 1
        /\ Head(q) = q[1] /\ q[1] \in Responses /\ DOMAIN r = 1 .. Len(r)
        /\ \A i \in 1 .. Len(q) - 1 : r[i] = q[i + 1]
    <3>1. /\ r \in Seq(Responses) /\ Len(q) \in Nat \ {0} /\ Len(r) = Len(q) - 1
          /\ Head(q) = q[1] /\ q[1] \in Responses
          /\ \A i \in 1 .. Len(q) - 1 : r[i] = q[i + 1]
      BY <1>0, <1>2, <2>2, TailIs
    <3> QED BY <3>1
  <2>5. \A i : Nth(c, i)' = Nth(c, i)
    BY <1>0 DEF Nth
  <2>6. c \notin expired => /\ q[1] = Nth(c, Read(c) + 1) \/ (q[1] = Error /\ Len(q) = 1 /\ respCh[c].closed)
                            /\ ReadOK(c) /\ NoFinal(c) /\ InTransit(c)
    <3>1. 1 \in DOMAIN q
      BY <1>0, <2>4
    <3> QED BY <3>1 DEF StreamOK, ReadOK, q
  <2>7. InHand(c)' <=> InHand(c)
    BY <1>0 DEF InHand
  <2>8. CASE q[1] = Error
    <3>1. got'[c] = got[c] /\ Read(c)' = Read(c)
      BY <2>3, <2>4, <2>8 DEF Read
    <3>2. Unstarted(c)'
      BY <1>0, <3>1 DEF StreamOK, Unstarted
    <3>3. ASSUME c \notin expired
          PROVE  ReadOK(c)' /\ NoFinal(c)' /\ InTransit(c)'
      <4>1. respCh[c].closed /\ Len(q) = 1 /\ DOMAIN r = {}
        BY <1>0, <2>4, <2>6, <2>8, <3>3 DEF Nth, Error, Final
      <4>2. ReadOK(c)'
        BY <2>2, <2>5, <2>6, <3>1, <3>3, <4>1 DEF ReadOK, r
      <4>3. NoFinal(c)'
        BY <1>0, <2>2, <2>6, <2>7, <3>1, <3>3, <4>1 DEF NoFinal, r, Mine
      <4>4. InTransit(c)'
        BY <2>2, <4>1 DEF InTransit, Flowing
      <4> QED BY <4>2, <4>3, <4>4
    <3> QED BY <1>0, <3>2, <3>3 DEF StreamOK
  <2>9. CASE q[1] # Error
    <3>1. q[1] \in 0 .. MaxResponses
      BY <2>4, <2>9, SizesAssumption DEF Responses, Final
    <3>2. /\ got'[c] \in Seq(0 .. MaxResponses) /\ Read(c)' = Read(c) + 1
          /\ DOMAIN got'[c] = 1 .. Read(c) + 1 /\ got'[c][Read(c) + 1] = q[1]
          /\ \A i \in 1 .. Read(c) : got'[c][i] = got[c][i]
      <4>1. got'[c] = Append(got[c], q[1])
        BY <2>3, <2>4, <2>9
      <4>2. /\ got'[c] \in Seq(0 .. MaxResponses) /\ Read(c)' = Read(c) + 1
            /\ got'[c][Read(c) + 1] = q[1]
            /\ \A i \in 1 .. Read(c) : got'[c][i] = got[c][i]
        BY <1>0, <3>1, <4>1, AppendIs DEF Read
      <4>3. DOMAIN got'[c] = 1 .. Len(got'[c])
        BY <4>2
      <4> QED BY <4>2, <4>3 DEF Read
    <3>3. ASSUME c \notin expired
          PROVE  /\ q[1] = Nth(c, Read(c) + 1) /\ ReadOK(c) /\ NoFinal(c) /\ InTransit(c)
                 /\ \A i \in DOMAIN q : \/ q[i] = Nth(c, Read(c) + i)
                                        \/ q[i] = Error /\ i = Len(q) /\ respCh[c].closed
      BY <2>6, <2>9, <3>3 DEF ReadOK, q
    <3>4. ASSUME c \notin expired, handler[c] \notin {"closing", "ended"}
          PROVE  Read(c) + 1 <= produced[c]
      <4>1. 1 \in DOMAIN q
        BY <1>0, <2>4
      <4>2. q[1] # Final
        BY <3>3, <3>4, <4>1 DEF NoFinal, q
      <4> QED BY <1>0, <3>3, <3>4, <4>2 DEF Nth
    <3>5. Unstarted(c)'
      <4>1. handler[c] = "none" => c \notin expired /\ Read(c) + 1 <= produced[c] /\ produced[c] = 0
        BY <3>4 DEF StreamOK, Unstarted
      <4> QED BY <1>0, <4>1 DEF Unstarted
    <3>6. Queued(c)' = Queued(c) /\ Base(c)' = Base(c) /\ Mine(c)' = Mine(c)
      <4>1. Queued(c) = Read(c) + Len(q) /\ Queued(c)' = Read(c)' + Len(r)
        BY DEF Queued, q, r
      <4>2. Queued(c)' = Queued(c)
        BY <1>0, <2>4, <3>2, <4>1
      <4> QED BY <1>0, <2>7, <4>2 DEF Base, Mine
    <3>7. ASSUME c \notin expired
          PROVE  ReadOK(c)' /\ NoFinal(c)' /\ InTransit(c)'
      <4>1. \A i \in DOMAIN got'[c] : got'[c][i] = Nth(c, i)'
        <5>1. \A i \in DOMAIN got[c] : got[c][i] = Nth(c, i)
          BY <3>3, <3>7 DEF ReadOK
        <5> QED BY <1>0, <2>5, <3>2, <3>3, <3>7, <5>1
      <4>2. ASSUME NEW i \in DOMAIN r
            PROVE  \/ r[i] = Nth(c, Read(c) + i)'
                   \/ r[i] = Error /\ i = Len(r) /\ respCh'[c].closed
        <5>1. i \in 1 .. Len(q) - 1 /\ i + 1 \in DOMAIN q /\ r[i] = q[i + 1]
          BY <1>0, <2>4
        <5>2. q[i + 1] = Nth(c, Read(c) + (i + 1)) \/ (q[i + 1] = Error /\ i + 1 = Len(q) /\ respCh[c].closed)
          BY <3>3, <3>7, <5>1
        <5>3. Nth(c, Read(c) + (i + 1)) = Nth(c, Read(c) + i)'
          BY <1>0, <3>2, <5>1 DEF Nth
        <5> QED BY <2>2, <2>4, <5>1, <5>2, <5>3
      <4>3. InHand(c)' /\ ~respCh'[c].closed => loop'.what = Nth(c, Queued(c) + 1)'
        BY <1>0, <2>2, <2>5, <2>7, <3>3, <3>6, <3>7 DEF ReadOK
      <4>4. ReadOK(c)'
        BY <4>1, <4>2, <4>3 DEF ReadOK, r
      <4>5. NoFinal(c)'
        <5> SUFFICES ASSUME handler[c] \notin {"closing", "ended"}
                     PROVE  /\ Read(c)' <= produced[c]
                            /\ \A i \in DOMAIN r : r[i] # Final
                            /\ InHand(c)' => loop'.what # Final
                            /\ \A i \in Mine(c)' : toClient'[i].what # Final
                            /\ c \notin done'
          BY <1>0 DEF NoFinal, r
        <5>1. /\ \A i \in DOMAIN q : q[i] # Final
              /\ InHand(c) => loop.what # Final
              /\ \A i \in Mine(c) : toClient[i].what # Final
              /\ c \notin done
          BY <3>3, <3>7 DEF NoFinal, q
        <5>2. \A i \in DOMAIN r : r[i] # Final
          <6> SUFFICES ASSUME NEW i \in DOMAIN r PROVE r[i] # Final
            OBVIOUS
          <6>1. r[i] = q[i + 1] /\ i + 1 \in DOMAIN q
            BY <1>0, <2>4
          <6> QED BY <5>1, <6>1
        <5>3. Read(c)' <= produced[c]
          BY <3>2, <3>4, <3>7
        <5> QED BY <1>0, <2>7, <3>6, <5>1, <5>2, <5>3
      <4>6. InTransit(c)'
        BY <1>0, <2>2, <3>3, <3>6, <3>7
        DEF InTransit, Flowing, InOrder, FinalLast, NoneMissing
      <4> QED BY <4>4, <4>5, <4>6
    <3> QED BY <1>0, <3>5, <3>7 DEF StreamOK
  <2> QED BY <2>8, <2>9
<1> QED BY <1>1, <1>2

(* runServer takes a message out of InputCh.                               *)
LEMMA StreamReceived ==
  ASSUME BaseInv, Once, NEW c \in Streams, StreamOK(c), LoopReceive
  PROVE  StreamOK(c)'
<1> DEFINE m == toClient[1]
<1>0. /\ UNCHANGED <<got, respCh, handler, produced, expired, done, rpcMap>>
      /\ toClient # <<>> /\ toClient' = Tail(toClient) /\ loop.at = "select"
      /\ c \in Calls /\ c \in Answerable /\ produced[c] \in Nat /\ Read(c) \in Nat /\ Queued(c) \in Nat
      /\ c # NoCall
      /\ \A i \in Mine(c) : i \in Nat \ {0} /\ toClient[i].what \in Nat
  BY StreamTypes DEF LoopReceive, server
<1>1. /\ Len(toClient) \in Nat \ {0} /\ Head(toClient) = m
      /\ DOMAIN toClient = 1 .. Len(toClient) /\ DOMAIN toClient' = 1 .. Len(toClient) - 1
      /\ \A i \in DOMAIN toClient' : toClient'[i] = toClient[i + 1]
  BY <1>0, FromClient DEF BaseInv, TypeOK
<1>2. /\ ~InHand(c) /\ Base(c) = Queued(c)
      /\ loop' = IF rpcMap[m.call] = NoCall THEN Idle
                 ELSE [at |-> "deliver", call |-> m.call, what |-> m.what]
  BY <1>0, <1>1 DEF InHand, Base, LoopReceive
<1> HIDE DEF m
<1>3. InHand(c)' <=> m.call = c /\ rpcMap[c] # NoCall
  BY <1>0, <1>2 DEF InHand, Idle
<1>4. InHand(c)' => loop'.what = m.what
  BY <1>2, <1>3
<1>5. Read(c)' = Read(c) /\ Queued(c)' = Queued(c) /\ \A i : Nth(c, i)' = Nth(c, i)
  BY <1>0 DEF Read, Queued, Nth
<1>6. Unstarted(c)'
  BY <1>0 DEF StreamOK, Unstarted
<1>7. \A i \in Mine(c)' : i + 1 \in Mine(c) /\ toClient'[i] = toClient[i + 1] /\ i \in Nat \ {0}
  BY <1>1 DEF Mine
<1>8. \A i \in Mine(c) : i = 1 \/ (i - 1 \in Mine(c)' /\ toClient'[i - 1] = toClient[i] /\ i - 1 \in Nat)
  <2> SUFFICES ASSUME NEW i \in Mine(c), i # 1
               PROVE  i - 1 \in Mine(c)' /\ toClient'[i - 1] = toClient[i] /\ i - 1 \in Nat
    OBVIOUS
  <2>1. i \in 1 .. Len(toClient) /\ i - 1 \in DOMAIN toClient' /\ (i - 1) + 1 = i
    BY <1>1 DEF Mine
  <2>2. toClient'[i - 1] = toClient[i]
    BY <1>1, <2>1
  <2> QED BY <2>1, <2>2 DEF Mine
<1>9. m.call = c <=> 1 \in Mine(c)
  BY <1>1 DEF Mine, m
<1> SUFFICES ASSUME c \notin expired
             PROVE  ReadOK(c)' /\ NoFinal(c)' /\ InTransit(c)'
  BY <1>0, <1>6 DEF StreamOK
<1>10. ReadOK(c) /\ NoFinal(c) /\ InTransit(c)
  BY DEF StreamOK
<1>11. ~respCh[c].closed => Flowing(c)
  BY <1>0 DEF Flowing
<1>12. m.call = c /\ ~respCh[c].closed => m.what = Nth(c, Queued(c) + 1)
  <2> SUFFICES ASSUME 1 \in Mine(c), ~respCh[c].closed
               PROVE  m.what = Nth(c, Queued(c) + 1)
    BY <1>9
  <2>1. InOrder(c) /\ FinalLast(c)
    BY <1>10, <1>11 DEF InTransit
  <2>2. ~ \E j \in Mine(c) : j < 1
    BY <1>0
  <2>3. m.what # Final => m.what = Queued(c) + 1 /\ m.what <= produced[c]
    BY <1>2, <2>1, <2>2 DEF InOrder, m
  <2>4. m.what = Final => Queued(c) >= produced[c]
    BY <1>2, <2>1, <2>2 DEF FinalLast, m
  <2> QED BY <1>0, <2>3, <2>4 DEF Nth
<1>13. ReadOK(c)'
  <2>1. InHand(c)' /\ ~respCh'[c].closed => loop'.what = Nth(c, Queued(c) + 1)'
    BY <1>0, <1>3, <1>4, <1>5, <1>12
  <2> QED BY <1>0, <1>5, <1>10, <2>1 DEF ReadOK
<1>14. NoFinal(c)'
  BY <1>0, <1>3, <1>4, <1>5, <1>7, <1>9, <1>10 DEF NoFinal, m
<1>15. InTransit(c)'
  <2> SUFFICES ASSUME Flowing(c)'
               PROVE  InOrder(c)' /\ FinalLast(c)' /\ NoneMissing(c)'
    BY DEF InTransit
  <2>0. ~respCh[c].closed /\ InOrder(c) /\ FinalLast(c) /\ NoneMissing(c)
    BY <1>0, <1>10, <1>11 DEF InTransit, Flowing
  <2>1. CASE m.call # c
    <3>1. Base(c)' = Base(c) /\ 1 \notin Mine(c)
      BY <1>2, <1>3, <1>5, <1>9, <2>1 DEF Base
    <3>2. InOrder(c)'
      <4> SUFFICES ASSUME NEW i \in Mine(c)', toClient'[i].what # Final
                   PROVE  /\ Base(c)' < toClient'[i].what /\ toClient'[i].what <= produced'[c]
                          /\ \/ toClient'[i].what = Base(c)' + 1
                             \/ \E j \in Mine(c)' : j < i /\ toClient'[j].what = toClient'[i].what - 1
                          /\ \A j \in Mine(c)' :
                               j < i => 0 < toClient'[j].what /\ toClient'[j].what < toClient'[i].what
        BY DEF InOrder
      <4> DEFINE n == toClient[i + 1].what
      <4>1. i + 1 \in Mine(c) /\ toClient'[i].what = n /\ i \in Nat \ {0} /\ n # Final
        BY <1>7
      <4>2. /\ Base(c) < n /\ n <= produced[c]
            /\ n = Base(c) + 1 \/ \E j \in Mine(c) : j < i + 1 /\ toClient[j].what = n - 1
            /\ \A j \in Mine(c) : j < i + 1 => 0 < toClient[j].what /\ toClient[j].what < n
        BY <2>0, <4>1 DEF InOrder
      <4> HIDE DEF n
      <4>3. ASSUME NEW j \in Mine(c), j < i + 1, toClient[j].what = n - 1
            PROVE  \E k \in Mine(c)' : k < i /\ toClient'[k].what = n - 1
        <5>1. j - 1 \in Mine(c)' /\ toClient'[j - 1] = toClient[j] /\ j \in Nat
          BY <1>0, <1>8, <3>1
        <5>2. j - 1 < i
          BY <4>1, <4>3, <5>1
        <5> QED BY <4>3, <5>1, <5>2
      <4>4. ASSUME NEW j \in Mine(c)', j < i
            PROVE  0 < toClient'[j].what /\ toClient'[j].what < n
        <5>1. j + 1 \in Mine(c) /\ toClient'[j] = toClient[j + 1] /\ j \in Nat
          BY <1>7
        <5>2. j + 1 < i + 1
          BY <4>1, <4>4, <5>1
        <5> QED BY <4>2, <5>1, <5>2
      <4> QED BY <1>0, <3>1, <4>1, <4>2, <4>3, <4>4
    <3>3. FinalLast(c)'
      <4> SUFFICES ASSUME NEW i \in Mine(c)', toClient'[i].what = Final, ~(Base(c)' >= produced[c])
                   PROVE  \E j \in Mine(c)' : j < i /\ toClient'[j].what = produced[c]
        BY <1>0 DEF FinalLast
      <4>1. i + 1 \in Mine(c) /\ toClient[i + 1].what = Final /\ i \in Nat
        BY <1>7
      <4>2. PICK j \in Mine(c) : j < i + 1 /\ toClient[j].what = produced[c]
        BY <1>0, <2>0, <3>1, <4>1 DEF FinalLast
      <4>3. j - 1 \in Mine(c)' /\ toClient'[j - 1] = toClient[j] /\ j \in Nat
        BY <1>0, <1>8, <3>1
      <4>4. j - 1 < i
        BY <4>1, <4>2, <4>3
      <4> QED BY <4>2, <4>3, <4>4
    <3>4. NoneMissing(c)'
      BY <1>0, <1>7, <1>8, <2>0, <3>1 DEF NoneMissing
    <3> QED BY <3>2, <3>3, <3>4
  <2>2. CASE m.call = c
    <3>1. 1 \in Mine(c) /\ rpcMap[c] # NoCall
      <4>1. 1 \in Mine(c) /\ Answering(c)
        BY <1>9, <2>2 DEF Answering, Mine
      <4>2. handler[c] # "none"
        BY <1>0, <4>1 DEF Once, AnsweredLater
      <4> QED BY <1>0, <2>0, <4>1, <4>2 DEF Once, RegisteredTill
    <3>2. Base(c) = Queued(c) /\ Base(c)' = Queued(c) + 1
      BY <1>2, <1>3, <1>5, <2>2, <3>1 DEF Base
    <3>3. toClient[1].what = Nth(c, Queued(c) + 1)
      BY <1>12, <2>0, <2>2 DEF m
    <3>4. InOrder(c)'
      <4> SUFFICES ASSUME NEW i \in Mine(c)', toClient'[i].what # Final
                   PROVE  /\ Base(c)' < toClient'[i].what /\ toClient'[i].what <= produced'[c]
                          /\ \/ toClient'[i].what = Base(c)' + 1
                             \/ \E j \in Mine(c)' : j < i /\ toClient'[j].what = toClient'[i].what - 1
                          /\ \A j \in Mine(c)' :
                               j < i => 0 < toClient'[j].what /\ toClient'[j].what < toClient'[i].what
        BY DEF InOrder
      <4> DEFINE n == toClient[i + 1].what
      <4>1. /\ i + 1 \in Mine(c) /\ toClient'[i].what = n /\ i \in Nat \ {0} /\ n \in Nat /\ n # Final
        BY <1>0, <1>7
      <4>2. /\ Base(c) < n /\ n <= produced[c]
            /\ n = Base(c) + 1 \/ \E j \in Mine(c) : j < i + 1 /\ toClient[j].what = n - 1
            /\ \A j \in Mine(c) : j < i + 1 => 0 < toClient[j].what /\ toClient[j].what < n
        BY <2>0, <4>1 DEF InOrder
      <4> HIDE DEF n
      <4>3. 0 < toClient[1].what /\ toClient[1].what < n
        BY <3>1, <4>1, <4>2
      <4>4. toClient[1].what = Queued(c) + 1
        BY <3>3, <4>3 DEF Nth, Final
      <4>5. n = Base(c)' + 1 \/ \E j \in Mine(c)' : j < i /\ toClient'[j].what = n - 1
        <5>1. n # Base(c) + 1
          BY <1>0, <3>2, <4>1, <4>3, <4>4
        <5>2. PICK j \in Mine(c) : j < i + 1 /\ toClient[j].what = n - 1
          BY <4>2, <5>1
        <5>3. CASE j = 1
          BY <1>0, <3>2, <4>1, <4>4, <5>2, <5>3
        <5>4. CASE j # 1
          <6>1. j - 1 \in Mine(c)' /\ toClient'[j - 1] = toClient[j] /\ j \in Nat
            BY <1>0, <1>8, <5>4
          <6>2. j - 1 < i
            BY <4>1, <5>2, <6>1
          <6> QED BY <5>2, <6>1, <6>2
        <5> QED BY <5>3, <5>4
      <4>6. ASSUME NEW j \in Mine(c)', j < i
            PROVE  0 < toClient'[j].what /\ toClient'[j].what < n
        <5>1. j + 1 \in Mine(c) /\ toClient'[j] = toClient[j + 1] /\ j \in Nat
          BY <1>7
        <5>2. j + 1 < i + 1
          BY <4>1, <4>6, <5>1
        <5> QED BY <4>2, <5>1, <5>2
      <4> QED BY <1>0, <3>2, <4>1, <4>2, <4>3, <4>4, <4>5, <4>6
    <3>5. FinalLast(c)'
      <4> SUFFICES ASSUME NEW i \in Mine(c)', toClient'[i].what = Final, ~(Base(c)' >= produced[c])
                   PROVE  \E j \in Mine(c)' : j < i /\ toClient'[j].what = produced[c]
        BY <1>0 DEF FinalLast
      <4>1. i + 1 \in Mine(c) /\ toClient[i + 1].what = Final /\ i \in Nat
        BY <1>7
      <4>2. PICK j \in Mine(c) : j < i + 1 /\ toClient[j].what = produced[c]
        BY <1>0, <2>0, <3>2, <4>1 DEF FinalLast
      <4>3. j # 1
        BY <1>0, <3>2, <3>3, <4>2 DEF Nth
      <4>4. j - 1 \in Mine(c)' /\ toClient'[j - 1] = toClient[j] /\ j \in Nat
        BY <1>0, <1>8, <4>3
      <4>5. j - 1 < i
        BY <4>1, <4>2, <4>4
      <4> QED BY <4>2, <4>4, <4>5
    <3>6. NoneMissing(c)'
      <4> SUFFICES ASSUME Base(c)' < produced[c]
                   PROVE  \E j \in Mine(c)' : toClient'[j].what = produced[c]
        BY <1>0 DEF NoneMissing
      <4>1. PICK j \in Mine(c) : toClient[j].what = produced[c]
        BY <1>0, <2>0, <3>2 DEF NoneMissing
      <4>2. j # 1
        BY <1>0, <3>2, <3>3, <4>1 DEF Nth
      <4> QED BY <1>8, <4>1, <4>2
    <3> QED BY <3>4, <3>5, <3>6
  <2> QED BY <2>1, <2>2
<1> QED BY <1>13, <1>14, <1>15

(* runServer puts what it has in its hands into the channel.               *)
LEMMA StreamDelivered ==
  ASSUME BaseInv, NEW c \in Streams, StreamOK(c), Unstarted(c)',
         UNCHANGED <<got, handler, produced, expired, done, toClient>>,
         InHand(c), ~respCh[c].closed, ~InHand(c)', loop.what \in Responses,
         respCh' = [respCh EXCEPT ![c].queue = Append(respCh[c].queue, loop.what)]
  PROVE  StreamOK(c)'
<1> DEFINE q == respCh[c].queue
           r == respCh'[c].queue
<1>0. /\ c \in Calls /\ ChannelTypes /\ produced[c] \in Nat /\ Read(c) \in Nat
      /\ q \in Seq(Responses) /\ DOMAIN q = 1 .. Len(q) /\ Len(q) \in Nat /\ Queued(c) \in Nat
      /\ DOMAIN got[c] = 1 .. Read(c)
  BY StreamTypes DEF BaseInv, TypeOK
<1> SUFFICES ASSUME c \notin expired
             PROVE  ReadOK(c)' /\ NoFinal(c)' /\ InTransit(c)'
  BY DEF StreamOK
<1>1. ReadOK(c) /\ NoFinal(c) /\ InTransit(c) /\ loop.what = Nth(c, Queued(c) + 1)
  BY DEF StreamOK, ReadOK
<1>2. r = Append(q, loop.what) /\ respCh'[c].closed = respCh[c].closed
  BY <1>0, QueueSet
<1>3. Queued(c) = Read(c) + Len(q) /\ Queued(c)' = Read(c)' + Len(r)
  BY DEF Queued
<1>4. /\ \A i \in DOMAIN q : q[i] = Nth(c, Read(c) + i)
      /\ handler[c] \notin {"closing", "ended"} => \A i \in DOMAIN q : q[i] # Final
  BY <1>1 DEF ReadOK, NoFinal
<1>5. /\ ReadOK(c)' <=> /\ \A i \in DOMAIN got'[c] : got'[c][i] = Nth(c, i)'
                        /\ \A i \in DOMAIN r : r[i] = Nth(c, Read(c) + i)'
      /\ NoFinal(c)' <=> (handler'[c] \notin {"closing", "ended"} =>
           /\ Read(c)' <= produced'[c]
           /\ \A i \in DOMAIN r : r[i] # Final
           /\ \A i \in Mine(c)' : toClient'[i].what # Final
           /\ c \notin done')
  BY <1>2 DEF ReadOK, NoFinal
<1> HIDE DEF q, r
<1>6. /\ Len(r) = Len(q) + 1 /\ DOMAIN r = 1 .. Len(q) + 1
      /\ r[Len(q) + 1] = loop.what /\ \A i \in 1 .. Len(q) : r[i] = q[i]
  <2>1. /\ r \in Seq(Responses) /\ Len(r) = Len(q) + 1
        /\ r[Len(q) + 1] = loop.what /\ \A i \in 1 .. Len(q) : r[i] = q[i]
    BY <1>0, <1>2, AppendIs
  <2> QED BY <2>1
<1>7. Read(c)' = Read(c) /\ Mine(c)' = Mine(c) /\ \A i : Nth(c, i)' = Nth(c, i)
  BY DEF Read, Mine, Nth
<1>8. Queued(c)' = Queued(c) + 1 /\ Base(c)' = Base(c)
  BY <1>0, <1>3, <1>6, <1>7 DEF Base
<1>9. ReadOK(c)'
  <2>1. ASSUME NEW i \in DOMAIN r
        PROVE  r[i] = Nth(c, Read(c) + i)
    <3>1. i \in DOMAIN q \/ i = Len(q) + 1
      BY <1>0, <1>6
    <3>2. Queued(c) + 1 = Read(c) + (Len(q) + 1)
      BY <1>0, <1>3
    <3> QED BY <1>0, <1>1, <1>4, <1>6, <3>1, <3>2
  <2>2. \A i \in DOMAIN got'[c] : got'[c][i] = Nth(c, i)'
    BY <1>1, <1>7 DEF ReadOK
  <2> QED BY <1>5, <1>7, <2>1, <2>2
<1>10. NoFinal(c)'
  <2> SUFFICES ASSUME handler[c] \notin {"closing", "ended"}
               PROVE  /\ Read(c) <= produced[c] /\ c \notin done
                      /\ \A i \in DOMAIN r : r[i] # Final
                      /\ \A i \in Mine(c) : toClient[i].what # Final
    BY <1>5, <1>7
  <2>1. \A i \in DOMAIN r : r[i] # Final
    <3>1. loop.what # Final
      BY <1>1 DEF NoFinal
    <3> QED BY <1>0, <1>4, <1>6, <3>1
  <2> QED BY <1>1, <2>1 DEF NoFinal
<1>11. InTransit(c)'
  <2> SUFFICES ASSUME Flowing(c)'
               PROVE  InOrder(c)' /\ FinalLast(c)' /\ NoneMissing(c)'
    BY DEF InTransit
  <2>1. InOrder(c) /\ FinalLast(c) /\ NoneMissing(c)
    BY <1>1 DEF InTransit, Flowing, InHand
  <2> QED BY <1>7, <1>8, <2>1 DEF InOrder, FinalLast, NoneMissing
<1> QED BY <1>9, <1>10, <1>11

(* What another handler sends, which goes to the end of InputCh.           *)
LEMMA StreamForeign ==
  ASSUME BaseInv, NEW c \in Streams, StreamOK(c), NEW a \in Answerable \ {c},
         NEW what \in 0 .. MaxResponses,
         toClient' = Append(toClient, [call |-> a, what |-> what]),
         UNCHANGED <<got, respCh, loop>>, produced'[c] = produced[c], handler'[c] = handler[c],
         c \in expired <=> c \in expired', c \in done <=> c \in done'
  PROVE  StreamOK(c)'
<1>0. \A i \in Mine(c) : i \in Nat
  BY StreamTypes
<1>1. Mine(c)' = Mine(c) /\ \A i \in Mine(c) : toClient'[i] = toClient[i]
  <2>1. /\ Len(toClient) \in Nat
        /\ DOMAIN toClient = 1 .. Len(toClient) /\ DOMAIN toClient' = 1 .. Len(toClient) + 1
        /\ \A i \in DOMAIN toClient : toClient'[i] = toClient[i]
        /\ toClient'[Len(toClient) + 1].call = a
    BY ToClient DEF BaseInv, TypeOK
  <2> QED BY <2>1 DEF Mine
<1>2. /\ Read(c)' = Read(c) /\ Queued(c)' = Queued(c) /\ Base(c)' = Base(c)
      /\ (InHand(c)' <=> InHand(c)) /\ \A i : Nth(c, i)' = Nth(c, i)
  BY DEF Read, Queued, Base, InHand, Nth
<1>3. Unstarted(c)' /\ (c \notin expired' => ReadOK(c) /\ NoFinal(c) /\ InTransit(c))
  BY DEF StreamOK, Unstarted
<1>4. ReadOK(c) => ReadOK(c)'
  BY <1>2 DEF ReadOK
<1>5. NoFinal(c) => NoFinal(c)'
  BY <1>1, <1>2 DEF NoFinal
<1>6. InTransit(c) => InTransit(c)'
  <2>1. InOrder(c) => InOrder(c)'
    BY <1>1, <1>2 DEF InOrder
  <2>2. FinalLast(c) => FinalLast(c)'
    BY <1>1, <1>2 DEF FinalLast
  <2>3. NoneMissing(c) => NoneMissing(c)'
    BY <1>1, <1>2 DEF NoneMissing
  <2> QED BY <2>1, <2>2, <2>3 DEF InTransit, Flowing
<1> QED BY <1>3, <1>4, <1>5, <1>6 DEF StreamOK

(* The handler of the stream sends its next response.                      *)
LEMMA StreamSends ==
  ASSUME BaseInv, NEW c \in Streams, StreamOK(c), HandlerSends(c)
  PROVE  StreamOK(c)'
<1> DEFINE p == produced[c]
<1>0. /\ UNCHANGED <<got, respCh, loop, handler, expired, done>>
      /\ handler[c] \notin {"none", "closing", "ended"}
      /\ c \in Answerable /\ p \in Nat /\ Read(c) \in Nat /\ Queued(c) \in Nat /\ Base(c) \in Nat
      /\ DOMAIN got[c] = 1 .. Read(c) /\ DOMAIN respCh[c].queue = 1 .. Len(respCh[c].queue)
      /\ \A i \in Mine(c) : i \in Nat \ {0} /\ toClient[i].what \in Nat
  BY StreamTypes DEF HandlerSends, Serving, client
<1>1. produced'[c] = p + 1 /\ p + 1 \in 0 .. MaxResponses
  BY <1>0, SizesAssumption DEF HandlerSends, BaseInv, TypeOK, HandlerTypes
<1>2. Unstarted(c)'
  BY <1>0 DEF Unstarted
<1> SUFFICES ASSUME c \notin expired
             PROVE  ReadOK(c)' /\ NoFinal(c)' /\ InTransit(c)'
  BY <1>0, <1>2 DEF StreamOK
<1>3. /\ ReadOK(c) /\ NoFinal(c) /\ InTransit(c)
      /\ c \notin done /\ Read(c) <= p
      /\ \A i \in DOMAIN respCh[c].queue : respCh[c].queue[i] # Final
      /\ InHand(c) => loop.what # Final
      /\ \A i \in Mine(c) : toClient[i].what # Final
  BY <1>0 DEF StreamOK, NoFinal
<1>4. \/ loop.at = "dead" /\ UNCHANGED toClient
      \/ loop.at # "dead" /\ toClient' = Append(toClient, [call |-> c, what |-> p + 1])
  BY <1>3 DEF HandlerSends, SendResponse, Answers
<1>5. /\ Read(c)' = Read(c) /\ Queued(c)' = Queued(c) /\ Base(c)' = Base(c)
      /\ (InHand(c)' <=> InHand(c))
  BY <1>0 DEF Read, Queued, Base, InHand
<1>6. \A i \in Nat : Nth(c, i) # Final => Nth(c, i)' = Nth(c, i)
  BY <1>0, <1>1 DEF Nth
<1>7. ReadOK(c)'
  <2>1. \A i \in DOMAIN got'[c] : got'[c][i] = Nth(c, i)'
    <3>1. ASSUME NEW i \in DOMAIN got[c]
          PROVE  Nth(c, i)' = Nth(c, i)
      BY <1>0, <1>1, <1>3 DEF Nth
    <3> QED BY <1>0, <1>3, <3>1 DEF ReadOK
  <2>2. ASSUME NEW i \in DOMAIN respCh[c].queue, respCh[c].queue[i] = Nth(c, Read(c) + i)
        PROVE  respCh[c].queue[i] = Nth(c, Read(c) + i)'
    <3>1. Read(c) + i \in Nat /\ Nth(c, Read(c) + i) # Final
      BY <1>0, <1>3, <2>2
    <3> QED BY <1>5, <1>6, <2>2, <3>1 DEF Nth
  <2>3. InHand(c) /\ ~respCh[c].closed => loop.what = Nth(c, Queued(c) + 1)'
    <3>1. InHand(c) /\ ~respCh[c].closed => loop.what = Nth(c, Queued(c) + 1)
      BY <1>3 DEF ReadOK
    <3> QED BY <1>0, <1>3, <1>5, <1>6, <3>1 DEF Nth
  <2> QED BY <1>0, <1>3, <1>5, <2>1, <2>2, <2>3 DEF ReadOK
<1>8. CASE UNCHANGED toClient /\ loop.at = "dead"
  <2>1. NoFinal(c)'
    BY <1>0, <1>1, <1>3, <1>5, <1>8 DEF NoFinal, Mine
  <2>2. InTransit(c)'
    BY <1>0, <1>8 DEF InTransit, Flowing
  <2> QED BY <1>7, <2>1, <2>2
<1>9. CASE toClient' = Append(toClient, [call |-> c, what |-> p + 1])
  <2> DEFINE k == Len(toClient) + 1
  <2>1. /\ Mine(c)' = Mine(c) \union {k} /\ k \in Nat /\ \A i \in Mine(c) : i < k
        /\ toClient'[k].what = p + 1 /\ \A i \in Mine(c) : toClient'[i] = toClient[i]
    <3>1. /\ Len(toClient) \in Nat
          /\ DOMAIN toClient = 1 .. Len(toClient) /\ DOMAIN toClient' = 1 .. Len(toClient) + 1
          /\ \A i \in DOMAIN toClient : toClient'[i] = toClient[i]
          /\ toClient'[Len(toClient) + 1].call = c /\ toClient'[Len(toClient) + 1].what = p + 1
      BY <1>0, <1>1, <1>9, ToClient DEF BaseInv, TypeOK
    <3> QED BY <3>1 DEF Mine
  <2> HIDE DEF k
  <2>2. NoFinal(c)'
    <3>1. \A i \in Mine(c)' : toClient'[i].what # Final
      BY <1>0, <1>3, <2>1 DEF Final
    <3>2. Read(c)' <= produced'[c]
      BY <1>0, <1>1, <1>3, <1>5
    <3> QED BY <1>0, <1>3, <1>5, <3>1, <3>2 DEF NoFinal
  <2>3. InTransit(c)'
    <3> SUFFICES ASSUME Flowing(c)'
                 PROVE  InOrder(c)' /\ FinalLast(c)' /\ NoneMissing(c)'
      BY DEF InTransit
    <3>1. Base(c) <= p /\ InOrder(c) /\ NoneMissing(c)
      <4>1. Flowing(c) /\ ~respCh[c].closed
        BY <1>0 DEF Flowing
      <4> QED BY <1>0, <1>3, <4>1, BaseWithin DEF InTransit
    <3>2. InOrder(c)'
      <4>1. ASSUME NEW i \in Mine(c)
            PROVE  /\ Base(c) < toClient'[i].what /\ toClient'[i].what <= p
                   /\ \/ toClient'[i].what = Base(c) + 1
                      \/ \E j \in Mine(c)' : j < i /\ toClient'[j].what = toClient'[i].what - 1
                   /\ \A j \in Mine(c)' :
                        j < i => 0 < toClient'[j].what /\ toClient'[j].what < toClient'[i].what
        <5>1. /\ Base(c) < toClient[i].what /\ toClient[i].what <= p
              /\ \/ toClient[i].what = Base(c) + 1
                 \/ \E j \in Mine(c) : j < i /\ toClient[j].what = toClient[i].what - 1
              /\ \A j \in Mine(c) : j < i => 0 < toClient[j].what /\ toClient[j].what < toClient[i].what
          BY <1>3, <3>1 DEF InOrder
        <5>2. ~(k < i)  /\ i < k /\ toClient'[i] = toClient[i] /\ i # k
          BY <1>0, <2>1
        <5>3. \A j \in Mine(c)' : j < i => j \in Mine(c) /\ toClient'[j] = toClient[j]
          BY <2>1, <5>2
        <5> QED BY <2>1, <5>1, <5>2, <5>3
      <4>2. /\ Base(c) < p + 1
            /\ p + 1 = Base(c) + 1 \/ \E j \in Mine(c)' : j < k /\ toClient'[j].what = p
            /\ \A j \in Mine(c)' : j < k => 0 < toClient'[j].what /\ toClient'[j].what < p + 1
        <5>1. Base(c) < p + 1
          BY <1>0, <3>1
        <5>2. p + 1 = Base(c) + 1 \/ \E j \in Mine(c)' : j < k /\ toClient'[j].what = p
          BY <1>0, <2>1, <3>1 DEF NoneMissing
        <5>3. ASSUME NEW j \in Mine(c)', j < k
              PROVE  0 < toClient'[j].what /\ toClient'[j].what < p + 1
          <6>1. j \in Mine(c) /\ toClient'[j] = toClient[j]
            BY <2>1, <5>3
          <6>2. Base(c) < toClient[j].what /\ toClient[j].what <= p
            BY <1>3, <3>1, <6>1 DEF InOrder
          <6> QED BY <1>0, <6>1, <6>2
        <5> QED BY <5>1, <5>2, <5>3
      <4>3. (p + 1) - 1 = p
        BY <1>0
      <4>4. \A i \in Mine(c) : toClient'[i].what <= p + 1
        BY <1>0, <2>1, <4>1
      <4> QED BY <1>0, <1>1, <1>5, <2>1, <4>1, <4>2, <4>3, <4>4 DEF InOrder
    <3>3. FinalLast(c)'
      BY <1>0, <1>3, <2>1 DEF FinalLast, Final
    <3>4. NoneMissing(c)'
      BY <1>1, <2>1 DEF NoneMissing
    <3> QED BY <3>2, <3>3, <3>4
  <2> QED BY <1>7, <2>2, <2>3
<1> QED BY <1>4, <1>8, <1>9

(* The last response of the stream, or a second one.                       *)
LEMMA StreamSendsFinal ==
  ASSUME BaseInv, NEW c \in Streams, StreamOK(c), handler'[c] = "closing",
         UNCHANGED <<got, respCh, loop, produced, expired>>,
         \/ UNCHANGED toClient
         \/ toClient' = Append(toClient, [call |-> c, what |-> Final])
  PROVE  StreamOK(c)'
<1>0. /\ c \in Answerable /\ produced[c] \in Nat /\ Base(c) \in Nat
      /\ \A i \in Mine(c) : i \in Nat \ {0} /\ toClient[i].what \in Nat
  BY StreamTypes
<1>1. Unstarted(c)' /\ NoFinal(c)'
  BY DEF Unstarted, NoFinal
<1> SUFFICES ASSUME c \notin expired
             PROVE  ReadOK(c)' /\ InTransit(c)'
  BY <1>1 DEF StreamOK
<1>2. ReadOK(c) /\ InTransit(c)
  BY DEF StreamOK
<1>3. /\ Read(c)' = Read(c) /\ Queued(c)' = Queued(c) /\ Base(c)' = Base(c)
      /\ (InHand(c)' <=> InHand(c)) /\ \A i : Nth(c, i)' = Nth(c, i)
  BY DEF Read, Queued, Base, InHand, Nth
<1>4. ReadOK(c)'
  BY <1>2, <1>3 DEF ReadOK
<1>5. InTransit(c)'
  <2> SUFFICES ASSUME Flowing(c)'
               PROVE  InOrder(c)' /\ FinalLast(c)' /\ NoneMissing(c)'
    BY DEF InTransit
  <2>1. InOrder(c) /\ FinalLast(c) /\ NoneMissing(c)
    BY <1>2 DEF InTransit, Flowing
  <2>2. CASE UNCHANGED toClient
    <3>1. Mine(c)' = Mine(c)
      BY <2>2 DEF Mine
    <3> QED BY <1>3, <2>1, <2>2, <3>1 DEF InOrder, FinalLast, NoneMissing
  <2>3. CASE toClient' = Append(toClient, [call |-> c, what |-> Final])
    <3> DEFINE k == Len(toClient) + 1
    <3>1. /\ Mine(c)' = Mine(c) \union {k} /\ k \in Nat /\ \A i \in Mine(c) : i < k
          /\ toClient'[k].what = Final /\ \A i \in Mine(c) : toClient'[i] = toClient[i]
      <4>0. Final \in 0 .. MaxResponses
        BY SizesAssumption DEF Final
      <4>1. /\ Len(toClient) \in Nat
            /\ DOMAIN toClient = 1 .. Len(toClient) /\ DOMAIN toClient' = 1 .. Len(toClient) + 1
            /\ \A i \in DOMAIN toClient : toClient'[i] = toClient[i]
            /\ toClient'[Len(toClient) + 1].call = c /\ toClient'[Len(toClient) + 1].what = Final
        BY <1>0, <2>3, <4>0, ToClient DEF BaseInv, TypeOK
      <4> QED BY <4>1 DEF Mine
    <3> HIDE DEF k
    <3>2. \A i \in Mine(c) : \A j \in Mine(c)' : j < i => j \in Mine(c) /\ toClient'[j] = toClient[j]
      BY <1>0, <3>1
    <3>3. InOrder(c)'
      BY <1>3, <2>1, <3>1, <3>2 DEF InOrder
    <3>4. FinalLast(c)'
      <4>1. Base(c) >= produced[c] \/ \E j \in Mine(c)' : j < k /\ toClient'[j].what = produced[c]
        BY <1>0, <2>1, <3>1 DEF NoneMissing
      <4>2. \A i \in Mine(c) : toClient'[i].what = Final =>
              Base(c) >= produced[c] \/ \E j \in Mine(c)' : j < i /\ toClient'[j].what = produced[c]
        BY <2>1, <3>1 DEF FinalLast
      <4> QED BY <1>3, <3>1, <4>1, <4>2 DEF FinalLast
    <3>5. NoneMissing(c)'
      BY <1>3, <2>1, <3>1 DEF NoneMissing
    <3> QED BY <3>3, <3>4, <3>5
  <2> QED BY <2>2, <2>3
<1> QED BY <1>4, <1>5

StreamInv == \A c \in Streams : StreamOK(c)

(* The calling goroutines and their contexts.                              *)
LEMMA CallerKeepsStream ==
  ASSUME BaseInv, NEW c \in Streams, StreamOK(c), NEW a \in Calls,
         CallerStep(a) \/ TimeIsOver(a) \/ RetrySendTimeout(a)
  PROVE  StreamOK(c)'
<1>0. c \in Calls /\ c \notin Requests /\ a \in Ids /\ got \in [Streams -> Seq(0 .. MaxResponses)]
      /\ ChannelTypes
  BY StreamTypes DEF Ids, BaseInv, TypeOK, CallTypes
<1>1. CASE StreamReads(a) /\ a = c
  BY <1>1, StreamRead
<1>2. CASE ~(StreamReads(a) /\ a = c)
  <2>1. UNCHANGED <<toClient, loop, handler, produced, expired, done>>
    BY DEF CallerStep, SendComplexRequest, RequestSent, RequestNotSent, RequestPanics,
           RequestReturns, StreamReads, SendCancel, TimeIsOver, RetrySendTimeout, server
  <2>2. got'[c] = got[c]
    <3>1. CASE StreamReads(a)
      <4>1. a # c /\ (UNCHANGED got \/ \E g : got' = [got EXCEPT ![a] = g])
        BY <1>2, <3>1 DEF StreamReads
      <4> QED BY <1>0, <4>1
    <3>2. CASE ~StreamReads(a)
      BY <3>2 DEF CallerStep, SendComplexRequest, RequestSent, RequestNotSent, RequestPanics,
             RequestReturns, SendCancel, TimeIsOver, RetrySendTimeout
    <3> QED BY <3>1, <3>2
  <2>3. respCh'[c] = respCh[c] \/ (Closes(c) /\ ~respCh[c].closed)
    <3>1. Finalize(a) => respCh'[c] = respCh[c] \/ (Closes(c) /\ ~respCh[c].closed)
      BY <1>0, EndsOf, EndsStream
    <3>2. CASE RequestSent(a)
      BY <3>1, <3>2 DEF RequestSent
    <3>3. CASE RequestNotSent(a)
      BY <3>1, <3>3 DEF RequestNotSent
    <3>4. CASE SendCancel(a)
      BY <3>1, <3>4 DEF SendCancel
    <3>5. CASE RequestReturns(a)
      BY <1>0, <3>5 DEF RequestReturns, ChannelTypes
    <3>6. CASE StreamReads(a)
      <4>1. a # c /\ \/ UNCHANGED respCh
                     \/ respCh' = [respCh EXCEPT ![a].queue = Tail(respCh[a].queue)]
        BY <1>2, <3>6 DEF StreamReads
      <4> QED BY <1>0, <4>1, QueueSet
    <3>7. CASE SendComplexRequest(a) \/ RequestPanics(a) \/ TimeIsOver(a) \/ RetrySendTimeout(a)
      BY <3>7 DEF SendComplexRequest, RequestPanics, TimeIsOver, RetrySendTimeout, Reports
    <3> QED BY <3>2, <3>3, <3>4, <3>5, <3>6, <3>7 DEF CallerStep
  <2>4. InHand(c)' <=> InHand(c)
    BY <2>1 DEF InHand
  <2> QED BY <2>1, <2>2, <2>3, <2>4, StreamSame DEF StreamOK, Unstarted
<1> QED BY <1>1, <1>2

(* runServer.                                                              *)
LEMMA LoopKeepsStream ==
  ASSUME BaseInv, Once, NEW c \in Streams, StreamOK(c), LoopStep
  PROVE  StreamOK(c)'
<1>0. /\ c \in Calls /\ c # NoCall /\ c \in Answerable
      /\ ChannelTypes /\ LoopTypes /\ TransitTypes /\ ctxDoneCh \in Seq(Ids)
  BY StreamTypes DEF BaseInv, TypeOK, CallTypes
<1>1. UNCHANGED <<got, handler, produced, expired, done>>
  BY DEF LoopStep, LoopTimeout, LoopReceive, LoopDeliver, LoopGivesUp, LoopFinish, LoopDies, server
<1>2. Unstarted(c) /\ Unstarted(c)'
  BY <1>1 DEF StreamOK, Unstarted
<1>3. ASSUME respCh'[c] = respCh[c] \/ (Closes(c) /\ ~respCh[c].closed),
             InHand(c)' => InHand(c) /\ loop'.what = loop.what,
             ~respCh'[c].closed =>
               /\ InHand(c)' <=> InHand(c)
               /\ loop.at \in {"closing", "dead"} => loop'.at \in {"closing", "dead"},
             toClient' = toClient \/ (toClient' = <<>> /\ loop'.at = "dead")
      PROVE  StreamOK(c)'
  BY <1>1, <1>2, <1>3, StreamSame DEF Unstarted
<1>4. ASSUME NEW id \in Ids, NEW error \in BOOLEAN, UnregisterRpc(id, error)
      PROVE  respCh'[c] = respCh[c] \/ (Closes(c) /\ ~respCh[c].closed)
  BY <1>4, EndsOf, EndsStream
<1>5. CASE LoopTimeout
  <2>1. /\ Head(ctxDoneCh) \in Ids /\ UnregisterRpc(Head(ctxDoneCh), TRUE)
        /\ UNCHANGED <<loop, toClient>>
    BY <1>0, <1>5, TailIs DEF LoopTimeout
  <2>2. InHand(c)' <=> InHand(c)
    BY <2>1 DEF InHand
  <2> QED BY <1>3, <1>4, <2>1, <2>2
<1>6. CASE LoopReceive
  BY <1>6, StreamReceived
<1>7. CASE LoopFinish
  <2>1. loop.call \in Ids /\ UnregisterRpc(loop.call, FALSE) /\ UNCHANGED toClient
        /\ loop.at = "finish" /\ loop' = Idle
    BY <1>0, <1>7 DEF LoopFinish, LoopTypes, Ids, Answerable, Calls
  <2>2. ~InHand(c)' /\ ~InHand(c)
    BY <2>1 DEF InHand, Idle
  <2> QED BY <1>3, <1>4, <2>1, <2>2
<1>8. CASE LoopGivesUp
  <2>1. loop.call \in Ids /\ UnregisterRpc(loop.call, FALSE) /\ UNCHANGED toClient
        /\ loop.at = "wait" /\ loop' = Delivered
    BY <1>0, <1>8 DEF LoopGivesUp, LoopTypes, Ids, Answerable, Calls
  <2>2. ~InHand(c)'
    BY <1>0, <2>1 DEF InHand, Delivered, Idle, LoopTypes
  <2>3. InHand(c) => respCh'[c].closed
    <3> SUFFICES ASSUME loop.call = c PROVE respCh'[c].closed
      BY DEF InHand
    <3>1. Ends(c) /\ handler[c] # "none"
      BY <1>0, <2>1, EndsOf DEF Once, AnsweredLater
    <3>2. rpcMap[c] = c \/ respCh[c].closed
      BY <1>0, <3>1 DEF Once, RegisteredTill
    <3> QED BY <1>0, <3>1, <3>2 DEF Ends, Closes
  <2> QED BY <1>3, <1>4, <2>1, <2>2, <2>3
<1>9. CASE LoopDies
  <2>1. /\ UNCHANGED respCh /\ toClient' = <<>> /\ loop.at = "closing"
        /\ loop'.at = "dead"
    BY <1>0, <1>9 DEF LoopDies, LoopTypes
  <2>2. ~InHand(c)' /\ ~InHand(c)
    BY <2>1 DEF InHand
  <2> QED BY <1>3, <2>1, <2>2
<1>10. CASE LoopDeliver
  <2>0. UNCHANGED toClient /\ loop.at \in {"deliver", "wait"} /\ loop.call \in Calls
        /\ loop.what \in Responses
    BY <1>0, <1>10 DEF LoopDeliver, LoopTypes, Answerable, Calls
  <2>1. CASE respCh[loop.call].closed /\ loop' = [Idle EXCEPT !.at = "closing"] /\ UNCHANGED respCh
    <3>1. loop'.at = "closing"
      BY <2>1 DEF Idle
    <3>2. ~InHand(c)' /\ (~respCh'[c].closed => ~InHand(c))
      BY <2>1, <3>1 DEF InHand
    <3> QED BY <1>3, <2>0, <2>1, <3>1, <3>2
  <2>2. CASE loop' = [loop EXCEPT !.at = "wait"] /\ UNCHANGED respCh
    <3>1. loop'.at = "wait" /\ loop'.call = loop.call /\ loop'.what = loop.what
      BY <1>0, <2>2 DEF LoopTypes
    <3>2. InHand(c)' <=> InHand(c)
      BY <2>0, <3>1 DEF InHand
    <3> QED BY <1>3, <2>0, <2>2, <3>1, <3>2
  <2>3. CASE /\ ~respCh[loop.call].closed /\ loop' = Delivered
             /\ respCh' = [respCh EXCEPT ![loop.call].queue = Append(respCh[loop.call].queue, loop.what)]
    <3>1. ~InHand(c)'
      BY <1>0, <2>3 DEF InHand, Delivered, Idle, LoopTypes
    <3>2. CASE loop.call = c
      <4>1. InHand(c)
        BY <2>0, <3>2 DEF InHand
      <4> QED BY <1>1, <1>2, <2>0, <2>3, <3>1, <3>2, <4>1, StreamDelivered
    <3>3. CASE loop.call # c
      <4>1. respCh'[c] = respCh[c] /\ ~InHand(c)
        BY <1>0, <2>0, <2>3, <3>3, QueueSet DEF InHand
      <4> QED BY <1>3, <2>0, <3>1, <4>1
    <3> QED BY <3>2, <3>3
  <2> QED BY <1>10, <2>1, <2>2, <2>3 DEF LoopDeliver
<1> QED BY <1>5, <1>6, <1>7, <1>8, <1>9, <1>10 DEF LoopStep

(* The server and its handlers.                                            *)
LEMMA ServerKeepsStream ==
  ASSUME BaseInv, Once, NEW c \in Streams, StreamOK(c),
         Serve \/ \E a \in Calls : HandlerStep(a)
  PROVE  StreamOK(c)'
<1>0. /\ c \in Calls /\ c \in Answerable /\ c \notin Requests /\ HandlerTypes
      /\ AskedOnce(c) /\ TransitTypes
  BY StreamTypes DEF BaseInv, TypeOK, Once
<1>1. UNCHANGED <<got, respCh, loop>>
  BY DEF Serve, HandlerStep, HandleRequest, RequestAnswered, HandlerSends, HandlerEnds, HandlerDone,
         HandlerExpires, StreamFinalized, client
<1>2. InHand(c)' <=> InHand(c)
  BY <1>1 DEF InHand
<1>3. ASSUME UNCHANGED toClient, produced'[c] = produced[c], c \in expired <=> c \in expired',
             handler'[c] = "none" => handler[c] = "none" /\ c \notin done',
             handler'[c] \notin {"closing", "ended"} =>
               handler[c] \notin {"closing", "ended"} /\ (c \in done' => c \in done)
      PROVE  StreamOK(c)'
  <2>1. handler'[c] = "none" => c \notin expired'
    BY <1>3 DEF StreamOK, Unstarted
  <2> QED BY <1>1, <1>2, <1>3, <2>1, StreamSame
<1>4. handler[c] = "none" => c \notin done /\ c \notin expired
  BY DEF StreamOK, Unstarted
<1>5. CASE Serve
  <2>1. /\ UNCHANGED <<toClient, produced, expired, done>>
        /\ toServer # <<>> /\ toServer' = Tail(toServer)
    BY <1>5 DEF Serve
  <2>2. Head(toServer) = toServer[1] /\ 1 \in DOMAIN toServer
    BY <1>0, <2>1, FromServer
  <2>3. \/ handler'[c] = handler[c]
        \/ handler[c] = "none" /\ handler'[c] = "spawned"
        \/ handler[c] = "running" /\ handler'[c] = "canceled"
    BY <1>0, <1>5, <2>2 DEF Serve, HandlerTypes, Asked, AskedOnce
  <2> QED BY <1>3, <1>4, <2>1, <2>3
<1>6. ASSUME NEW a \in Calls, HandlerStep(a), a # c
      PROVE  StreamOK(c)'
  <2>1. /\ handler'[c] = handler[c] /\ produced'[c] = produced[c]
        /\ (c \in expired <=> c \in expired') /\ (c \in done <=> c \in done')
    BY <1>0, <1>6 DEF HandlerStep, HandleRequest, RequestAnswered, HandlerSends, HandlerEnds,
       HandlerDone, HandlerExpires, StreamFinalized, HandlerTypes, Serving, Answerable
  <2>2. \/ UNCHANGED toClient
        \/ /\ a \in Answerable
           /\ \E what \in 0 .. MaxResponses : toClient' = Append(toClient, [call |-> a, what |-> what])
    BY <1>6, HandlerSendsWhat DEF Answers
  <2>3. CASE UNCHANGED toClient
    BY <1>3, <1>4, <2>1, <2>3
  <2>4. CASE /\ a \in Answerable
             /\ \E what \in 0 .. MaxResponses : toClient' = Append(toClient, [call |-> a, what |-> what])
    BY <1>1, <1>6, <2>1, <2>4, StreamForeign
  <2> QED BY <2>2, <2>3, <2>4
<1>7. CASE HandleRequest(c) \/ HandlerDone(c)
  <2>1. /\ UNCHANGED <<toClient, produced, expired>>
        /\ \/ handler[c] = "spawned" /\ handler'[c] = "running" /\ done' = done
           \/ handler'[c] = "ended"
    BY <1>0, <1>7 DEF HandleRequest, HandlerDone, HandlerTypes
  <2> QED BY <1>3, <2>1
<1>8. CASE HandlerSends(c)
  BY <1>8, StreamSends
<1>9. CASE HandlerEnds(c) \/ StreamFinalized(c)
  <2>1. /\ UNCHANGED <<produced, expired>>
        /\ \/ UNCHANGED toClient
           \/ toClient' = Append(toClient, [call |-> c, what |-> Final])
        /\ handler'[c] = "closing" \/ (c \in expired /\ handler'[c] = handler[c])
    BY <1>0, <1>9 DEF HandlerEnds, StreamFinalized, SendResponse, Answers, HandlerTypes
  <2>2. CASE handler'[c] = "closing"
    BY <1>1, <2>1, <2>2, StreamSendsFinal
  <2>3. CASE c \in expired /\ handler'[c] = handler[c]
    BY <1>4, <2>1, <2>3 DEF StreamOK, Unstarted
  <2> QED BY <2>1, <2>2, <2>3
<1>10. CASE HandlerExpires(c)
  BY <1>0, <1>10 DEF HandlerExpires, StreamOK, Unstarted, Serving
<1>11. CASE RequestAnswered(c)
  BY <1>0, <1>11 DEF RequestAnswered
<1> QED BY <1>5, <1>6, <1>7, <1>8, <1>9, <1>10, <1>11 DEF HandlerStep

(* The invariant behind what a stream reads.                               *)
THEOREM StreamHolds == Spec => []StreamInv
<1>1. Init => StreamInv
  BY SizesAssumption
  DEF Init, StreamInv, StreamOK, Unstarted, ReadOK, NoFinal, InTransit, InOrder, FinalLast,
      NoneMissing, Mine, InHand, Idle, Base, Queued, Read, Answerable, Calls
<1>2. BaseInv /\ Once /\ StreamInv /\ [Next]_vars => StreamInv'
  <2> SUFFICES ASSUME BaseInv, Once, [Next]_vars, NEW c \in Streams, StreamOK(c)
               PROVE  StreamOK(c)'
    BY DEF StreamInv
  <2>1. CASE Next
    BY <2>1, CallerKeepsStream, LoopKeepsStream, ServerKeepsStream DEF Next
  <2>2. CASE UNCHANGED vars
    <3>1. UNCHANGED <<got, respCh, loop, toClient, handler, produced, expired, done>>
      BY <2>2 DEF vars, client, server
    <3>2. InHand(c)' <=> InHand(c)
      BY <3>1 DEF InHand
    <3> QED BY <3>1, <3>2, StreamSame DEF StreamOK, Unstarted
  <2> QED BY <2>1, <2>2
<1> QED BY <1>1, <1>2, BaseHolds, OnceHolds, PTL DEF Spec

(* A stream is read in order and without holes, whatever is full, closed,  *)
(* cancelled or timed out on the way, and its last response after all the  *)
(* others, unless the time of its handler was over.                        *)
THEOREM StreamsHaveNoHoles == Spec => []StreamWithoutHoles
<1>1. StreamInv => StreamWithoutHoles
  BY DEF StreamInv, StreamOK, ReadOK, Nth, StreamWithoutHoles
<1> QED BY <1>1, StreamHolds, PTL
=============================================================================
