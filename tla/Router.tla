------------------------------- MODULE Router -------------------------------
(***************************************************************************)
(* pkg/wshutil/wshrouter.go: the messages of one router without upstream.  *)
(* A goroutine per link checks what its client sends and puts it into      *)
(* inputCh; runServer takes one message after the other and sends it to a  *)
(* link, where a full client leaves it in the link's backlog for           *)
(* processBacklog.  Links come, are trusted, bind a route and leave in     *)
(* other goroutines.                                                       *)
(*                                                                         *)
(* A request goes to a route, or to a link by its id, which need not be    *)
(* trusted.  Responses are numbered; the last one is Final.                *)
(***************************************************************************)
EXTENDS Integers, Sequences

CONSTANTS
  Links, Routes, Requests,
  NoLink, NoRoute,
  ClientChSize,      (* what a link's client takes without being read       *)
  InputChSize,       (* RouterInputChQueueSize                              *)
  MaxResponses       (* responses to a request before the last one          *)

ASSUME RouterAssumption ==
  /\ ClientChSize \in Nat \ {0} /\ InputChSize \in Nat \ {0} /\ MaxResponses \in Nat
  /\ NoLink \notin Links /\ NoRoute \notin Routes

VARIABLES
  linkMap,           (* what the router knows of a link                     *)
  leaving,           (* links in UnregisterLink                             *)
  routeMap,
  sourceRoute,       (* the route a leaf has bound                          *)
  rpcMap,            (* of a request: the link it came from, where it went  *)
  inputCh,
  server,            (* runServer, with a message on its way to a link      *)
  clientCh,          (* what a link's client has not read                   *)
  linkMsgBacklog,
  backlogLoop,       (* processBacklog                                      *)
  asked,             (* who asked whom, and whether he called it off        *)
  answering,         (* who answers a request, and how far he is            *)
  got                (* the responses the one who asked has read            *)

tables == <<linkMap, leaving, routeMap, sourceRoute>>
queues == <<clientCh, linkMsgBacklog, backlogLoop>>
peers  == <<asked, answering, got>>
vars == <<tables, rpcMap, inputCh, server, queues, peers>>

Final == 0
Failed == -1         (* an error response of the router                     *)
Targets == Routes \union Links

NoRpc    == [source |-> NoLink, dest |-> NoRoute]
Nobody   == [by |-> NoLink, to |-> NoRoute, source |-> NoRoute, canceled |-> FALSE]
NoAnswer == [by |-> NoLink, trusted |-> FALSE, last |-> 0, finals |-> 0]

Message(kind, q, n, l) == [kind |-> kind, id |-> q, n |-> n, ingress |-> l]
NoMessage == Message("none", "none", 0, NoLink)
Idle == [at |-> "idle", msg |-> NoMessage, to |-> NoLink]

Numbers == {Failed} \union 0 .. MaxResponses
Messages == [kind : {"request", "response", "cancel"}, id : Requests, n : Numbers,
             ingress : Links \union {NoLink}]

LinkTypes ==
  /\ linkMap \in [Links -> {"none", "untrusted", "leaf", "gone"}]
  /\ leaving \subseteq {l \in Links : linkMap[l] \in {"untrusted", "leaf"}}
  /\ routeMap \in [Routes -> Links \union {NoLink}]
  /\ sourceRoute \in [Links -> Routes \union {NoRoute}]

(* What is read of a message on its way, and of what the server holds.     *)
MessageTypes ==
  /\ rpcMap \in [Requests -> [source : Links \union {NoLink}, dest : Targets \union {NoRoute}]]
  /\ inputCh \in Seq(Messages) /\ Len(inputCh) <= InputChSize
  /\ server \in [at : {"idle", "send", "register", "unregister"},
                  msg : Messages \union {NoMessage}, to : Links \union {NoLink}]
  /\ server.at # "idle" => server.msg \in Messages
  /\ server.at = "send" => server.to \in Links
  /\ clientCh \in [Links -> Seq(Messages)]
  /\ \A l \in Links : Len(clientCh[l]) <= ClientChSize
  /\ linkMsgBacklog \in [Links -> Seq(Messages)]
  /\ backlogLoop \in {"check", "waiting", "round"}

PeerTypes ==
  /\ asked \in [Requests -> [by : Links \union {NoLink}, to : Targets \union {NoRoute},
                            source : Routes \union {NoRoute}, canceled : BOOLEAN]]
  /\ answering \in [Requests -> [by : Links \union {NoLink}, trusted : BOOLEAN,
                                last : 0 .. MaxResponses, finals : 0 .. 2]]
  /\ got \in [Requests -> Seq(Numbers)]

TypeOK == LinkTypes /\ MessageTypes /\ PeerTypes

Init ==
  /\ linkMap = [l \in Links |-> "none"] /\ leaving = {}
  /\ routeMap = [r \in Routes |-> NoLink]
  /\ sourceRoute = [l \in Links |-> NoRoute]
  /\ rpcMap = [q \in Requests |-> NoRpc]
  /\ inputCh = <<>> /\ server = Idle
  /\ clientCh = [l \in Links |-> <<>>] /\ linkMsgBacklog = [l \in Links |-> <<>>]
  /\ backlogLoop = "check"
  /\ asked = [q \in Requests |-> Nobody] /\ answering = [q \in Requests |-> NoAnswer]
  /\ got = [q \in Requests |-> <<>>]

Known(l) == l # NoLink /\ linkMap[l] \in {"untrusted", "leaf"}

-----------------------------------------------------------------------------
(* Links come and go.                                                      *)

RegisterUntrustedLink(l) ==
  /\ linkMap[l] = "none"
  /\ linkMap' = [linkMap EXCEPT ![l] = "untrusted"]
  /\ UNCHANGED <<leaving, routeMap, sourceRoute, rpcMap, inputCh, server, queues, peers>>

(* AuthenticateCommand: the link is trusted first and its route bound      *)
(* after that.                                                             *)
TrustLink(l) ==
  /\ linkMap[l] = "untrusted"
  /\ linkMap' = [linkMap EXCEPT ![l] = "leaf"]
  /\ UNCHANGED <<leaving, routeMap, sourceRoute, rpcMap, inputCh, server, queues, peers>>

BindRoute(l, r) ==
  /\ linkMap[l] = "leaf" /\ sourceRoute[l] \in {NoRoute, r} /\ routeMap[r] # l
  /\ sourceRoute' = [sourceRoute EXCEPT ![l] = r]
  /\ routeMap' = [routeMap EXCEPT ![r] = l]
  /\ UNCHANGED <<linkMap, leaving, rpcMap, inputCh, server, queues, peers>>

(* UnregisterLink: the routes are unbound first, the link goes after that. *)
UnregisterLink(l) ==
  /\ Known(l) /\ l \notin leaving
  /\ leaving' = leaving \union {l}
  /\ routeMap' = [r \in Routes |-> IF routeMap[r] = l THEN NoLink ELSE routeMap[r]]
  /\ UNCHANGED <<linkMap, sourceRoute, rpcMap, inputCh, server, queues, peers>>

LinkGone(l) ==
  /\ l \in leaving
  /\ leaving' = leaving \ {l}
  /\ linkMap' = [linkMap EXCEPT ![l] = "gone"]
  /\ UNCHANGED <<routeMap, sourceRoute, rpcMap, inputCh, server, queues, peers>>

-----------------------------------------------------------------------------
(* sendRpcMessageToLink: into the client, unless it is full or something   *)
(* waits already; the first message in any backlog wakes processBacklog.   *)

SignalsNever == FALSE                          \* a mutant
Signals == \A l \in Links : linkMsgBacklog[l] = <<>>

TakesAnyTime(l) == Len(clientCh[l]) < ClientChSize      \* a mutant
Takes(l) == linkMsgBacklog[l] = <<>> /\ Len(clientCh[l]) < ClientChSize

SendRpcMessageToLink(l, m) ==
  IF Takes(l)
  THEN /\ clientCh' = [clientCh EXCEPT ![l] = Append(@, m)]
       /\ UNCHANGED <<linkMsgBacklog, backlogLoop>>
  ELSE /\ linkMsgBacklog' = [linkMsgBacklog EXCEPT ![l] = Append(@, m)]
       /\ backlogLoop' = IF Signals /\ backlogLoop = "waiting" THEN "check" ELSE backlogLoop
       /\ UNCHANGED clientCh

-----------------------------------------------------------------------------
(* What the clients send, and runLinkClientRecvLoop with it.               *)

ToServer(m) ==
  /\ Len(inputCh) < InputChSize
  /\ inputCh' = Append(inputCh, m)

(* What has a request's id passes only from a trusted link; another link   *)
(* has an error for an answer.                                             *)
Admitted(m) ==
  \/ /\ linkMap[m.ingress] = "leaf"
     /\ ToServer(m)
     /\ UNCHANGED queues
  \/ /\ linkMap[m.ingress] = "untrusted"
     /\ SendRpcMessageToLink(m.ingress, Message("response", m.id, Failed, NoLink))
     /\ UNCHANGED inputCh

Ask(q, l, t) ==
  /\ asked[q].by = NoLink /\ Known(l) /\ t # l
  /\ asked' = [asked EXCEPT ![q] =
       [by |-> l, to |-> t, source |-> sourceRoute[l], canceled |-> FALSE]]
  /\ Admitted(Message("request", q, 0, l))
  /\ UNCHANGED <<tables, rpcMap, server, answering, got>>

(* A cancel has the id of its request and no command.                      *)
Cancel(q) ==
  /\ Known(asked[q].by) /\ ~asked[q].canceled
  /\ asked' = [asked EXCEPT ![q].canceled = TRUE]
  /\ Admitted(Message("cancel", q, 0, asked[q].by))
  /\ UNCHANGED <<tables, rpcMap, server, answering, got>>

(* The responses of an untrusted link pass only to a request that is       *)
(* registered.                                                             *)
Passes(l, q) == linkMap[l] = "leaf" \/ rpcMap[q] # NoRpc

(* WshRpc may send a last response twice.                                  *)
Respond(q, n) ==
  LET l == answering[q].by IN
  /\ Known(l)
  /\ \/ /\ n = answering[q].last + 1 /\ n <= MaxResponses /\ answering[q].finals = 0
        /\ answering' = [answering EXCEPT ![q].last = n]
     \/ /\ n = Final /\ answering[q].finals < 2
        /\ answering' = [answering EXCEPT ![q].finals = @ + 1]
  /\ IF Passes(l, q) THEN ToServer(Message("response", q, n, l)) ELSE UNCHANGED inputCh
  /\ UNCHANGED <<tables, rpcMap, server, queues, asked, got>>

(* A client reads.                                                         *)
Read(l) ==
  LET m == Head(clientCh[l]) IN
  /\ linkMap[l] # "gone" /\ clientCh[l] # <<>>
  /\ clientCh' = [clientCh EXCEPT ![l] = Tail(@)]
  /\ \/ /\ m.kind = "request"
        /\ answering' = [answering EXCEPT ![m.id] =
             [by |-> l, trusted |-> linkMap[l] = "leaf", last |-> 0, finals |-> 0]]
        /\ UNCHANGED got
     \/ /\ m.kind = "response" /\ asked[m.id].by = l
        /\ got' = [got EXCEPT ![m.id] = Append(@, m.n)]
        /\ UNCHANGED answering
     \/ /\ m.kind = "cancel" \/ (m.kind = "response" /\ asked[m.id].by # l)
        /\ UNCHANGED <<answering, got>>
  /\ UNCHANGED <<tables, rpcMap, inputCh, server, linkMsgBacklog, backlogLoop, asked>>

-----------------------------------------------------------------------------
(* runServer.                                                              *)

LinkForRoute(r) == IF r \in Routes /\ Known(routeMap[r]) THEN routeMap[r] ELSE NoLink
LinkFor(t) == IF t \in Links /\ Known(t) THEN t ELSE LinkForRoute(t)

(* Where a message goes: a request to its target, a cancel to where its    *)
(* request went, a response to where its request came from, if that is     *)
(* still known.  handleNoRoute answers by the source route of the request. *)
ResponseLink(q) == IF Known(rpcMap[q].source) THEN rpcMap[q].source ELSE NoLink

AfterResponse(m) ==
  IF m.n = Final THEN [Idle EXCEPT !.at = "unregister", !.msg = m] ELSE Idle

ServerTakes ==
  LET m == Head(inputCh)
      Sends(msg, to) == server' = IF to = NoLink THEN Idle
                                  ELSE [at |-> "send", msg |-> msg, to |-> to]
  IN
  /\ server.at = "idle" /\ inputCh # <<>>
  /\ inputCh' = Tail(inputCh)
  /\ \/ /\ m.kind = "request"
        /\ LET to == LinkFor(asked[m.id].to) IN
           IF to # NoLink THEN Sends(m, to)
           ELSE Sends(Message("response", m.id, Failed, NoLink),
                      IF Known(m.ingress) THEN LinkForRoute(asked[m.id].source) ELSE NoLink)
     \/ m.kind = "cancel" /\ Sends(m, LinkFor(rpcMap[m.id].dest))
     \/ /\ m.kind = "response" /\ ResponseLink(m.id) # NoLink
        /\ Sends(m, ResponseLink(m.id))
     \/ /\ m.kind = "response" /\ ResponseLink(m.id) = NoLink
        /\ server' = AfterResponse(m)
  /\ UNCHANGED <<tables, rpcMap, queues, peers>>

ServerSends ==
  /\ server.at = "send"
  /\ SendRpcMessageToLink(server.to, server.msg)
  /\ server' = CASE server.msg.kind = "request"  -> [server EXCEPT !.at = "register"]
                 [] server.msg.kind = "response" -> AfterResponse(server.msg)
                 [] server.msg.kind = "cancel"   -> Idle
  /\ UNCHANGED <<tables, rpcMap, inputCh, peers>>

(* registerRouteInfo, after the request has been sent.                     *)
ServerRegisters ==
  /\ server.at = "register"
  /\ rpcMap' = [rpcMap EXCEPT ![server.msg.id] =
       [source |-> server.msg.ingress, dest |-> asked[server.msg.id].to]]
  /\ server' = Idle
  /\ UNCHANGED <<tables, inputCh, queues, peers>>

(* unregisterRouteInfo, after the last response.                           *)
ServerUnregisters ==
  /\ server.at = "unregister"
  /\ rpcMap' = [rpcMap EXCEPT ![server.msg.id] = NoRpc]
  /\ server' = Idle
  /\ UNCHANGED <<tables, inputCh, queues, peers>>

-----------------------------------------------------------------------------
(* processBacklog.                                                         *)

BacklogCheck ==
  /\ backlogLoop = "check"
  /\ backlogLoop' = IF \A l \in Links : linkMsgBacklog[l] = <<>> THEN "waiting" ELSE "round"
  /\ UNCHANGED <<tables, rpcMap, inputCh, server, clientCh, linkMsgBacklog, peers>>

DrainedAlways(l) == Len(linkMsgBacklog[l])     \* a mutant
Drained(l) ==
  LET room == ClientChSize - Len(clientCh[l]) IN
  IF Len(linkMsgBacklog[l]) < room THEN Len(linkMsgBacklog[l]) ELSE room

ProcessOneBacklogRound ==
  /\ backlogLoop = "round"
  /\ backlogLoop' = "check"
  /\ clientCh' = [l \in Links |->
       IF Known(l) THEN clientCh[l] \o SubSeq(linkMsgBacklog[l], 1, Drained(l)) ELSE clientCh[l]]
  /\ linkMsgBacklog' = [l \in Links |->
       IF Known(l) THEN SubSeq(linkMsgBacklog[l], Drained(l) + 1, Len(linkMsgBacklog[l]))
                   ELSE <<>>]
  /\ UNCHANGED <<tables, rpcMap, inputCh, server, peers>>

-----------------------------------------------------------------------------
LinkStep(l) ==
  \/ RegisterUntrustedLink(l) \/ TrustLink(l) \/ UnregisterLink(l) \/ LinkGone(l)
  \/ \E r \in Routes : BindRoute(l, r)
RequestStep(q) ==
  \/ \E l \in Links, t \in Targets : Ask(q, l, t)
  \/ Cancel(q)
  \/ \E n \in 0 .. MaxResponses : Respond(q, n)
RunServer == ServerTakes \/ ServerSends \/ ServerRegisters \/ ServerUnregisters
ProcessBacklog == BacklogCheck \/ ProcessOneBacklogRound

Next ==
  \/ \E l \in Links : LinkStep(l) \/ Read(l)
  \/ \E q \in Requests : RequestStep(q)
  \/ RunServer \/ ProcessBacklog

Spec == Init /\ [][Next]_vars

(* The two goroutines of the router run, and clients read.                 *)
FairSpec ==
  /\ Spec
  /\ WF_vars(RunServer) /\ WF_vars(ProcessBacklog)
  /\ \A l \in Links : WF_vars(Read(l))

-----------------------------------------------------------------------------
(* What waits for a link's client to be read, the backlog behind it.       *)
Queue(l) == clientCh[l] \o linkMsgBacklog[l]

Answers(q, m) == m.kind = "response" /\ m.id = q

(* The place of a response among all of them.                              *)
Place(q, n) == IF n = Final THEN answering[q].last + 1 ELSE n

(* What was read are the first responses, the last one after all others.   *)
ReadInOrder(q) ==
  \A i \in DOMAIN got[q] : got[q][i] <= answering[q].last /\ Place(q, got[q][i]) = i

(* What waits is numbered upwards, and nothing is missing before it.       *)
WaitsInOrder(q, s) ==
  \A k \in DOMAIN s : Answers(q, s[k]) =>
    /\ Place(q, s[k].n) \in Len(got[q]) + 1 .. answering[q].last + 1
    /\ \A i \in 1 .. k - 1 : Answers(q, s[i]) => Place(q, s[i].n) < Place(q, s[k].n)
    /\ \A n \in Len(got[q]) + 1 .. Place(q, s[k].n) - 1 :
         \E i \in 1 .. k - 1 : Answers(q, s[i]) /\ s[i].n = n

(* Whoever asked a trusted leaf is given its responses in order, without   *)
(* holes, and one last response at most, also when they went through the   *)
(* backlog, the last one was sent twice, or routes and links changed       *)
(* meanwhile.                                                              *)
ResponsesInOrder ==
  \A q \in Requests :
    Known(asked[q].by) /\ answering[q].trusted =>
      ReadInOrder(q) /\ WaitsInOrder(q, Queue(asked[q].by))

(* No wake-up of processBacklog is lost: what waits for a slow client is   *)
(* delivered when it reads, or dropped with the link.                      *)
BacklogDrains ==
  \A l \in Links : linkMsgBacklog[l] # <<>> ~> linkMsgBacklog[l] = <<>>

(* "allow responses to RPCs we initiated" (wshrouter.go, in                *)
(* runLinkClientRecvLoop): a response is only dropped there when its       *)
(* request has been answered before.                                       *)
InitiatedResponsesPass ==
  [][\A q \in Requests, n \in 0 .. MaxResponses :
       Respond(q, n) /\ ~Passes(answering[q].by, q) => answering[q].finals > 0]_vars
=============================================================================
