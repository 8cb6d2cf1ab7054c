---------------------------- MODULE RouterProofs ----------------------------
(***************************************************************************)
(* Responses come in order and complete, for any links, routes, requests,  *)
(* sizes of channels and numbers of responses.                             *)
(***************************************************************************)
EXTENDS Router, SequenceTheorems, TLAPS

(* The requests for q in a sequence of messages, and the numbers of its    *)
(* responses there.                                                        *)
Asks(q, m) == m.kind = "request" /\ m.id = q
HasRequest(q, s) == \E i \in DOMAIN s : Asks(q, s[i])
OneRequest(q, s) == \A i, j \in DOMAIN s : Asks(q, s[i]) /\ Asks(q, s[j]) => i = j
Answered(q, s) == {s[i].n : i \in {k \in DOMAIN s : Answers(q, s[k])}}

(* What runServer has in its hands.                                        *)
Sending(q) == server.at = "send" /\ Asks(q, server.msg)
InHand(q) ==
  IF server.at = "send" /\ Answers(q, server.msg) THEN {server.msg.n} ELSE {}
Registering(q) == server.at = "register" /\ server.msg.id = q
Unregistering(q) == server.at = "unregister" /\ server.msg.id = q
Queued(q) == \E l \in Links : HasRequest(q, Queue(l))

(* A request registers itself, a last response unregisters.                *)
StageTypes ==
  /\ server.at = "register" => server.msg.kind = "request"
  /\ server.at = "unregister" => server.msg.kind = "response" /\ server.msg.n = Final

(* A link that has asked or answered was there.                            *)
PeersSeen ==
  \A q \in Requests :
    /\ asked[q].by # NoLink => linkMap[asked[q].by] # "none"
    /\ answering[q].by = NoLink => answering[q] = NoAnswer
    /\ answering[q].trusted =>
         answering[q].by \in Links /\ linkMap[answering[q].by] \in {"leaf", "gone"}

(* A request knows the link it came from.                                  *)
FromAsker(m, who) == m.kind = "request" => m.ingress \in Links /\ m.ingress = who[m.id].by
IngressIsAsker ==
  /\ \A i \in DOMAIN inputCh : FromAsker(inputCh[i], asked)
  /\ server.at \in {"send", "register"} => FromAsker(server.msg, asked)

BaseInv == TypeOK /\ StageTypes /\ PeersSeen /\ IngressIsAsker

(* The request of q is in one place at most, and nowhere once somebody     *)
(* answers it.                                                             *)
RequestOnce(q) ==
  /\ OneRequest(q, inputCh) /\ \A l \in Links : OneRequest(q, Queue(l))
  /\ \A l, k \in Links : HasRequest(q, Queue(l)) /\ HasRequest(q, Queue(k)) => l = k
  /\ HasRequest(q, inputCh) => ~Sending(q) /\ ~Queued(q)
  /\ Sending(q) => ~Queued(q)
UnderWay(q) == HasRequest(q, inputCh) \/ Sending(q) \/ Queued(q)

(* No response to q has gone anywhere.                                     *)
NoneSent(q) == got[q] = <<>> /\ InHand(q) = {} /\ \A l \in Links : Answered(q, Queue(l)) = {}
FirstAsked(q) ==
  /\ UnderWay(q) => asked[q].by # NoLink /\ answering[q].by = NoLink
  /\ asked[q].by = NoLink => answering[q].by = NoLink
  /\ answering[q].by = NoLink =>
       Answered(q, inputCh) = {} /\ Final \notin InHand(q) /\ ~Unregistering(q)
  /\ UnderWay(q) \/ asked[q].by = NoLink \/ Registering(q) => NoneSent(q)

-----------------------------------------------------------------------------
(* The responses of a trusted leaf on their way to the one who asked.      *)

Before(a, b) == a # Final /\ (b = Final \/ a < b)
Rises(q, s) ==
  \A i, j \in DOMAIN s : i < j /\ Answers(q, s[i]) /\ Answers(q, s[j]) => Before(s[i].n, s[j].n)
RisesInput(q, s) ==
  \A i, j \in DOMAIN s : i < j /\ Answers(q, s[i]) /\ Answers(q, s[j]) =>
    s[j].n = Final \/ Before(s[i].n, s[j].n)

Waiting(q) == Answered(q, Queue(asked[q].by))
(* The last response was sent to the one who asked.                        *)
Ended(q) == Final \in Waiting(q) \union InHand(q) \/ Len(got[q]) = answering[q].last + 1

InNumbers(q) ==
  /\ Len(got[q]) <= answering[q].last + 1
  /\ \A n \in Waiting(q) \union InHand(q) \union Answered(q, inputCh) :
       /\ n \in 0 .. answering[q].last
       /\ n = Final => answering[q].finals > 0
       /\ n = Final \/ n > Len(got[q])
  /\ Len(got[q]) = answering[q].last + 1 => answering[q].finals > 0 /\ Final \notin Waiting(q) \union InHand(q)
NothingMissing(q) ==
  \A n \in Len(got[q]) + 1 .. answering[q].last :
    n \in Waiting(q) \union InHand(q) \union Answered(q, inputCh)
InLine(q) ==
  /\ Rises(q, Queue(asked[q].by)) /\ RisesInput(q, inputCh)
  /\ \A a \in Waiting(q), b \in InHand(q) : Before(a, b)
  /\ \A a \in Waiting(q) \union InHand(q), b \in Answered(q, inputCh) : b = Final \/ Before(a, b)
(* Responses are routed by the table until the last one, and not after it. *)
RoutedBack(q) ==
  /\ InHand(q) # {} => server.to = asked[q].by
  /\ ~Ended(q) => ~Unregistering(q) /\ (Registering(q) \/ rpcMap[q].source = asked[q].by)
  /\ Ended(q) => rpcMap[q] = NoRpc \/ Unregistering(q) \/ Final \in InHand(q)

Line(q) == ReadInOrder(q) /\ InNumbers(q) /\ NothingMissing(q) /\ InLine(q) /\ RoutedBack(q)

(* What the routing of one request rests on.                               *)
Orderly(q) ==
  /\ RequestOnce(q) /\ FirstAsked(q)
  /\ Queued(q) => Registering(q) \/ rpcMap[q].source = asked[q].by
  /\ Known(asked[q].by) /\ answering[q].trusted => Line(q)

(* Only the request of a link that is trusted goes anywhere: nobody        *)
(* answers the request of another link.                                    *)
HeardOf(q) == UnderWay(q) \/ Registering(q) \/ answering[q].by # NoLink
AskedByLeaf(q) == asked[q].by \in Links /\ linkMap[asked[q].by] \in {"leaf", "gone"}
LeavesHeard == \A q \in Requests : HeardOf(q) => AskedByLeaf(q)

Inv == BaseInv /\ LeavesHeard /\ \A q \in Requests : Orderly(q)

-----------------------------------------------------------------------------
(* Sequences of messages.                                                  *)

(* A message more.                                                         *)
LEMMA AppendIs ==
  ASSUME NEW S, NEW s \in Seq(S), NEW m \in S
  PROVE  /\ Append(s, m) \in Seq(S) /\ Len(Append(s, m)) = Len(s) + 1 /\ Len(s) \in Nat
         /\ DOMAIN s = 1 .. Len(s) /\ DOMAIN Append(s, m) = 1 .. Len(s) + 1
         /\ \A i \in 1 .. Len(s) : Append(s, m)[i] = s[i]
         /\ Append(s, m)[Len(s) + 1] = m
  BY AppendProperties, LenProperties

(* The first message less.                                                 *)
LEMMA TailIs ==
  ASSUME NEW S, NEW s \in Seq(S), s # <<>>
  PROVE  /\ Tail(s) \in Seq(S) /\ Head(s) \in S /\ Head(s) = s[1]
         /\ Len(s) \in Nat \ {0} /\ Len(Tail(s)) = Len(s) - 1
         /\ DOMAIN s = 1 .. Len(s) /\ DOMAIN Tail(s) = 1 .. Len(s) - 1
         /\ \A i \in 1 .. Len(s) - 1 : Tail(s)[i] = s[i + 1]
  BY HeadTailProperties, LenProperties, EmptySeq

(* What a message more changes.                                            *)
LEMMA AppendHas ==
  ASSUME NEW s \in Seq(Messages), NEW m \in Messages, NEW q
  PROVE  /\ HasRequest(q, Append(s, m)) <=> HasRequest(q, s) \/ Asks(q, m)
         /\ OneRequest(q, s) /\ (Asks(q, m) => ~HasRequest(q, s)) => OneRequest(q, Append(s, m))
<1> DEFINE t == Append(s, m)
<1>1. /\ Len(s) \in Nat /\ DOMAIN s = 1 .. Len(s) /\ DOMAIN t = 1 .. Len(s) + 1
      /\ \A i \in 1 .. Len(s) : t[i] = s[i]
      /\ t[Len(s) + 1] = m
  BY AppendIs
<1> HIDE DEF t
<1>2. HasRequest(q, t) <=> HasRequest(q, s) \/ Asks(q, m)
  <2>1. CASE HasRequest(q, t)
    BY <1>1, <2>1 DEF HasRequest
  <2>2. CASE HasRequest(q, s)
    BY <1>1, <2>2 DEF HasRequest
  <2>3. CASE Asks(q, m)
    BY <1>1, <2>3 DEF HasRequest
  <2> QED BY <2>1, <2>2, <2>3
<1>3. ASSUME OneRequest(q, s), Asks(q, m) => ~HasRequest(q, s)
      PROVE  OneRequest(q, t)
  BY <1>1, <1>3 DEF OneRequest, HasRequest
<1> QED BY <1>2, <1>3 DEF t

LEMMA AppendAnswered ==
  ASSUME NEW s \in Seq(Messages), NEW m \in Messages, NEW q
  PROVE  /\ Answers(q, m) => Answered(q, Append(s, m)) = Answered(q, s) \union {m.n}
         /\ ~Answers(q, m) => Answered(q, Append(s, m)) = Answered(q, s)
<1> DEFINE t == Append(s, m)
<1>1. /\ Len(s) \in Nat /\ DOMAIN s = 1 .. Len(s) /\ DOMAIN t = 1 .. Len(s) + 1
      /\ \A i \in 1 .. Len(s) : t[i] = s[i]
      /\ t[Len(s) + 1] = m
  BY AppendIs
<1> HIDE DEF t
<1>2. ASSUME NEW n \in Answered(q, s)
      PROVE  n \in Answered(q, t)
  BY <1>1 DEF Answered
<1>3. ASSUME NEW n \in Answered(q, t)
      PROVE  n \in Answered(q, s) \/ (Answers(q, m) /\ n = m.n)
  <2>1. PICK i \in DOMAIN t : Answers(q, t[i]) /\ n = t[i].n
    BY DEF Answered
  <2> QED BY <1>1, <2>1 DEF Answered
<1>4. Answers(q, m) => m.n \in Answered(q, t)
  BY <1>1 DEF Answered
<1> QED BY <1>2, <1>3, <1>4 DEF t

LEMMA AppendRises ==
  ASSUME NEW s \in Seq(Messages), NEW m \in Messages, NEW q
  PROVE  /\ Rises(q, s) /\ (Answers(q, m) => \A n \in Answered(q, s) : Before(n, m.n))
             => Rises(q, Append(s, m))
         /\ RisesInput(q, s) /\ (Answers(q, m) => \A n \in Answered(q, s) : m.n = Final \/ Before(n, m.n))
             => RisesInput(q, Append(s, m))
<1> DEFINE t == Append(s, m)
<1>1. /\ Len(s) \in Nat /\ DOMAIN s = 1 .. Len(s) /\ DOMAIN t = 1 .. Len(s) + 1
      /\ \A i \in 1 .. Len(s) : t[i] = s[i]
      /\ t[Len(s) + 1] = m
  BY AppendIs
<1> HIDE DEF t
<1>2. \A i \in DOMAIN s : Answers(q, s[i]) => s[i].n \in Answered(q, s)
  BY DEF Answered
<1>3. ASSUME Rises(q, s), Answers(q, m) => \A n \in Answered(q, s) : Before(n, m.n)
      PROVE  Rises(q, t)
  BY <1>1, <1>2, <1>3 DEF Rises
<1>4. ASSUME RisesInput(q, s),
             Answers(q, m) => \A n \in Answered(q, s) : m.n = Final \/ Before(n, m.n)
      PROVE  RisesInput(q, t)
  BY <1>1, <1>2, <1>4 DEF RisesInput
<1> QED BY <1>3, <1>4 DEF t

(* What the first message less changes.                                    *)
LEMMA TailHas ==
  ASSUME NEW s \in Seq(Messages), s # <<>>, NEW q
  PROVE  /\ HasRequest(q, s) <=> HasRequest(q, Tail(s)) \/ Asks(q, Head(s))
         /\ OneRequest(q, s) => OneRequest(q, Tail(s)) /\ (Asks(q, Head(s)) => ~HasRequest(q, Tail(s)))
<1> DEFINE t == Tail(s)
<1>1. /\ Len(s) \in Nat \ {0} /\ DOMAIN s = 1 .. Len(s) /\ DOMAIN t = 1 .. Len(s) - 1
      /\ \A i \in 1 .. Len(s) - 1 : t[i] = s[i + 1]
      /\ Head(s) = s[1]
  BY TailIs
<1> HIDE DEF t
<1>2. HasRequest(q, s) => HasRequest(q, t) \/ Asks(q, Head(s))
  <2> SUFFICES ASSUME NEW i \in DOMAIN s, Asks(q, s[i]), i # 1
               PROVE  HasRequest(q, t)
    BY <1>1 DEF HasRequest
  <2>1. i - 1 \in DOMAIN t /\ t[i - 1] = s[i]
    BY <1>1
  <2> QED BY <2>1 DEF HasRequest
<1>3. HasRequest(q, t) \/ Asks(q, Head(s)) => HasRequest(q, s)
  BY <1>1 DEF HasRequest
<1>4. ASSUME OneRequest(q, s)
      PROVE  OneRequest(q, t) /\ (Asks(q, Head(s)) => ~HasRequest(q, t))
  <2>1. ASSUME NEW i \in DOMAIN t, NEW j \in DOMAIN t, Asks(q, t[i]), Asks(q, t[j])
        PROVE  i = j
    BY <1>1, <1>4, <2>1 DEF OneRequest
  <2>2. ASSUME NEW i \in DOMAIN t, Asks(q, t[i]), Asks(q, Head(s))
        PROVE  FALSE
    BY <1>1, <1>4, <2>2 DEF OneRequest
  <2> QED BY <2>1, <2>2 DEF OneRequest, HasRequest
<1> QED BY <1>2, <1>3, <1>4 DEF t

LEMMA TailAnswered ==
  ASSUME NEW s \in Seq(Messages), s # <<>>, NEW q
  PROVE  /\ Answers(q, Head(s)) => Answered(q, s) = Answered(q, Tail(s)) \union {Head(s).n}
         /\ ~Answers(q, Head(s)) => Answered(q, s) = Answered(q, Tail(s))
<1> DEFINE t == Tail(s)
<1>1. /\ Len(s) \in Nat \ {0} /\ DOMAIN s = 1 .. Len(s) /\ DOMAIN t = 1 .. Len(s) - 1
      /\ \A i \in 1 .. Len(s) - 1 : t[i] = s[i + 1]
      /\ Head(s) = s[1]
  BY TailIs
<1> HIDE DEF t
<1>2. ASSUME NEW n \in Answered(q, t)
      PROVE  n \in Answered(q, s)
  BY <1>1 DEF Answered
<1>3. ASSUME NEW n \in Answered(q, s)
      PROVE  n \in Answered(q, t) \/ (Answers(q, Head(s)) /\ n = Head(s).n)
  <2>1. PICK i \in DOMAIN s : Answers(q, s[i]) /\ n = s[i].n
    BY DEF Answered
  <2>2. CASE i = 1
    BY <1>1, <2>1, <2>2
  <2>3. CASE i # 1
    <3>1. i - 1 \in DOMAIN t /\ t[i - 1] = s[i]
      BY <1>1, <2>3
    <3> QED BY <2>1, <3>1 DEF Answered
  <2> QED BY <2>2, <2>3
<1>4. Answers(q, Head(s)) => Head(s).n \in Answered(q, s)
  BY <1>1 DEF Answered
<1> QED BY <1>2, <1>3, <1>4 DEF t

LEMMA TailRises ==
  ASSUME NEW s \in Seq(Messages), s # <<>>, NEW q
  PROVE  /\ Rises(q, s) => /\ Rises(q, Tail(s))
                           /\ Answers(q, Head(s)) =>
                                \A n \in Answered(q, Tail(s)) : Before(Head(s).n, n)
         /\ RisesInput(q, s) => /\ RisesInput(q, Tail(s))
                                /\ Answers(q, Head(s)) => \A n \in Answered(q, Tail(s)) :
                                     n = Final \/ Before(Head(s).n, n)
<1> DEFINE t == Tail(s)
<1>1. /\ Len(s) \in Nat \ {0} /\ DOMAIN s = 1 .. Len(s) /\ DOMAIN t = 1 .. Len(s) - 1
      /\ \A i \in 1 .. Len(s) - 1 : t[i] = s[i + 1]
      /\ Head(s) = s[1]
  BY TailIs
<1> HIDE DEF t
<1>2. \A i \in DOMAIN t : i \in Int /\ i + 1 \in DOMAIN s /\ 1 < i + 1 /\ t[i] = s[i + 1]
  BY <1>1
<1>3. 1 \in DOMAIN s
  BY <1>1
<1>4. \A n \in Answered(q, t) : \E i \in DOMAIN t : Answers(q, t[i]) /\ n = t[i].n
  BY DEF Answered
<1>5. ASSUME Rises(q, s)
      PROVE  /\ Rises(q, t)
             /\ Answers(q, Head(s)) => \A n \in Answered(q, t) : Before(Head(s).n, n)
  <2>1. Rises(q, t)
    BY <1>2, <1>5 DEF Rises
  <2> QED BY <2>1, <1>1, <1>2, <1>3, <1>4, <1>5 DEF Rises
<1>6. ASSUME RisesInput(q, s)
      PROVE  /\ RisesInput(q, t)
             /\ Answers(q, Head(s)) => \A n \in Answered(q, t) : n = Final \/ Before(Head(s).n, n)
  <2>1. RisesInput(q, t)
    BY <1>2, <1>6 DEF RisesInput
  <2> QED BY <2>1, <1>1, <1>2, <1>3, <1>4, <1>6 DEF RisesInput
<1> QED BY <1>5, <1>6 DEF t

-----------------------------------------------------------------------------
(* A link's client and its backlog are one queue.                          *)

LEMMA QueueIs ==
  ASSUME MessageTypes, NEW l \in Links
  PROVE  Queue(l) \in Seq(Messages)
<1>1. clientCh[l] \in Seq(Messages) /\ linkMsgBacklog[l] \in Seq(Messages)
  BY DEF MessageTypes
<1> QED BY <1>1, ConcatProperties DEF Queue

(* Whether a message goes into the client or into the backlog, it comes    *)
(* after all others.                                                       *)
LEMMA SendIs ==
  ASSUME MessageTypes, NEW l \in Links, NEW m \in Messages, SendRpcMessageToLink(l, m)
  PROVE  /\ clientCh' \in [Links -> Seq(Messages)]
         /\ \A k \in Links : Len(clientCh'[k]) <= ClientChSize
         /\ linkMsgBacklog' \in [Links -> Seq(Messages)]
         /\ backlogLoop' \in {"check", "waiting", "round"}
         /\ \A k \in Links : Queue(k)' = IF k = l THEN Append(Queue(l), m) ELSE Queue(k)
<1>1. /\ clientCh \in [Links -> Seq(Messages)] /\ linkMsgBacklog \in [Links -> Seq(Messages)]
      /\ clientCh[l] \in Seq(Messages) /\ linkMsgBacklog[l] \in Seq(Messages)
      /\ \A k \in Links : Len(clientCh[k]) <= ClientChSize
      /\ backlogLoop \in {"check", "waiting", "round"}
  BY DEF MessageTypes
<1>2. CASE Takes(l)
  <2>1. /\ clientCh' = [clientCh EXCEPT ![l] = Append(clientCh[l], m)]
        /\ linkMsgBacklog' = linkMsgBacklog /\ backlogLoop' = backlogLoop
    BY <1>2 DEF SendRpcMessageToLink
  <2>2. Append(clientCh[l], m) \in Seq(Messages) /\ Len(Append(clientCh[l], m)) = Len(clientCh[l]) + 1
    BY <1>1, AppendIs
  <2>3. Len(clientCh[l]) \in Nat /\ Len(clientCh[l]) < ClientChSize /\ linkMsgBacklog[l] = <<>>
    BY <1>1, <1>2, LenProperties DEF Takes
  <2>4. clientCh' \in [Links -> Seq(Messages)]
    BY <1>1, <2>1, <2>2
  <2>5. \A k \in Links : Len(clientCh'[k]) <= ClientChSize
    BY <1>1, <2>1, <2>2, <2>3, RouterAssumption
  <2>6. Queue(l)' = Append(Queue(l), m)
    <3>1. clientCh[l] \o <<>> = clientCh[l] /\ Append(clientCh[l], m) \o <<>> = Append(clientCh[l], m)
      BY <1>1, <2>2, ConcatEmptySeq
    <3>2. Queue(l)' = Append(clientCh[l], m) \o <<>>
      BY <1>1, <2>1, <2>3 DEF Queue
    <3> QED BY <2>3, <3>1, <3>2 DEF Queue
  <2>7. \A k \in Links : k # l => Queue(k)' = Queue(k)
    BY <1>1, <2>1 DEF Queue
  <2> QED BY <1>1, <2>1, <2>4, <2>5, <2>6, <2>7
<1>3. CASE ~Takes(l)
  <2>1. /\ linkMsgBacklog' = [linkMsgBacklog EXCEPT ![l] = Append(linkMsgBacklog[l], m)]
        /\ clientCh' = clientCh
        /\ backlogLoop' \in {"check", backlogLoop}
    BY <1>3 DEF SendRpcMessageToLink
  <2>2. Append(linkMsgBacklog[l], m) \in Seq(Messages)
    BY <1>1, AppendIs
  <2>3. Queue(l)' = Append(Queue(l), m)
    <3> DEFINE c == clientCh[l]
               b == linkMsgBacklog[l]
    <3>1. Queue(l)' = c \o Append(b, m)
      BY <1>1, <2>1 DEF Queue
    <3>2. <<m>> \in Seq(Messages)
      OBVIOUS
    <3>3. c \in Seq(Messages) /\ b \in Seq(Messages) /\ c \o b \in Seq(Messages)
      BY <1>1, ConcatProperties
    <3>4. Append(b, m) = b \o <<m>> /\ Append(c \o b, m) = (c \o b) \o <<m>>
      BY <3>3, AppendIsConcat
    <3>5. (c \o b) \o <<m>> = c \o (b \o <<m>>)
      <4> HIDE DEF c, b
      <4> QED BY <3>2, <3>3, ConcatAssociative
    <3> QED BY <3>1, <3>4, <3>5 DEF Queue
  <2>4. \A k \in Links : k # l => Queue(k)' = Queue(k)
    BY <1>1, <2>1 DEF Queue
  <2>5. linkMsgBacklog' \in [Links -> Seq(Messages)]
    BY <1>1, <2>1, <2>2
  <2> QED BY <1>1, <2>1, <2>3, <2>4, <2>5
<1> QED BY <1>2, <1>3

(* A client reads what waits longest.                                      *)
LEMMA ReadIs ==
  ASSUME MessageTypes, NEW l \in Links, clientCh[l] # <<>>,
         clientCh' = [clientCh EXCEPT ![l] = Tail(@)], linkMsgBacklog' = linkMsgBacklog
  PROVE  /\ clientCh' \in [Links -> Seq(Messages)]
         /\ \A k \in Links : Len(clientCh'[k]) <= ClientChSize
         /\ Queue(l) # <<>> /\ Head(Queue(l)) = Head(clientCh[l]) /\ Head(clientCh[l]) \in Messages
         /\ \A k \in Links : Queue(k)' = IF k = l THEN Tail(Queue(l)) ELSE Queue(k)
<1> DEFINE c == clientCh[l]
           b == linkMsgBacklog[l]
<1>1. /\ clientCh \in [Links -> Seq(Messages)] /\ linkMsgBacklog \in [Links -> Seq(Messages)]
      /\ c \in Seq(Messages) /\ b \in Seq(Messages)
      /\ \A k \in Links : Len(clientCh[k]) <= ClientChSize
  BY DEF MessageTypes
<1>2. /\ Tail(c) \in Seq(Messages) /\ Head(c) \in Messages /\ Head(c) = c[1]
      /\ Len(c) \in Nat \ {0} /\ Len(Tail(c)) = Len(c) - 1
      /\ \A i \in 1 .. Len(c) - 1 : Tail(c)[i] = c[i + 1]
  BY <1>1, TailIs
<1>3. clientCh' \in [Links -> Seq(Messages)]
  BY <1>1, <1>2
<1>4. \A k \in Links : Len(clientCh'[k]) <= ClientChSize
  BY <1>1, <1>2, RouterAssumption
<1>5. Queue(l)' = Tail(c) \o b /\ Queue(l) = c \o b
  BY <1>1 DEF Queue
<1>6. \A k \in Links : k # l => Queue(k)' = Queue(k)
  BY <1>1 DEF Queue
<1>7. Len(b) \in Nat
  BY <1>1, LenProperties
<1>8. /\ c \o b \in Seq(Messages) /\ Len(c \o b) = Len(c) + Len(b)
      /\ \A i \in 1 .. Len(c) + Len(b) : (c \o b)[i] = IF i <= Len(c) THEN c[i] ELSE b[i - Len(c)]
  BY <1>1, ConcatProperties
<1>9. /\ Tail(c) \o b \in Seq(Messages) /\ Len(Tail(c) \o b) = Len(Tail(c)) + Len(b)
      /\ \A i \in 1 .. Len(Tail(c)) + Len(b) :
           (Tail(c) \o b)[i] = IF i <= Len(Tail(c)) THEN Tail(c)[i] ELSE b[i - Len(Tail(c))]
  BY <1>1, <1>2, ConcatProperties
<1>10. c \o b # <<>>
  BY <1>2, <1>7, <1>8, EmptySeq
<1>11. /\ Tail(c \o b) \in Seq(Messages) /\ Head(c \o b) = (c \o b)[1]
       /\ Len(Tail(c \o b)) = Len(c \o b) - 1
       /\ \A i \in 1 .. Len(c \o b) - 1 : Tail(c \o b)[i] = (c \o b)[i + 1]
  BY <1>8, <1>10, TailIs
<1> HIDE DEF c, b
<1>12. Head(c \o b) = Head(c)
  BY <1>2, <1>7, <1>8, <1>11
<1>13. Len(Tail(c) \o b) = Len(Tail(c \o b))
  BY <1>2, <1>7, <1>8, <1>9, <1>11
<1>14. ASSUME NEW i \in 1 .. Len(Tail(c) \o b)
       PROVE  (Tail(c) \o b)[i] = Tail(c \o b)[i]
  <2>1. i \in 1 .. Len(c) + Len(b) - 1 /\ i + 1 \in 1 .. Len(c) + Len(b)
    BY <1>2, <1>7, <1>9
  <2>2. Tail(c \o b)[i] = (c \o b)[i + 1]
    BY <2>1, <1>8, <1>11
  <2>3. (c \o b)[i + 1] = IF i + 1 <= Len(c) THEN c[i + 1] ELSE b[i + 1 - Len(c)]
    BY <2>1, <1>8
  <2>4. (Tail(c) \o b)[i] = IF i <= Len(c) - 1 THEN Tail(c)[i] ELSE b[i - (Len(c) - 1)]
    BY <2>1, <1>2, <1>9
  <2>5. i <= Len(c) - 1 => Tail(c)[i] = c[i + 1]
    BY <2>1, <1>2
  <2>6. i - (Len(c) - 1) = i + 1 - Len(c)
    BY <2>1, <1>2
  <2> QED BY <1>2, <2>1, <2>2, <2>3, <2>4, <2>5, <2>6
<1>15. Tail(c) \o b = Tail(c \o b)
  BY <1>9, <1>11, <1>13, <1>14, SeqEqual
<1> QED BY <1>2, <1>3, <1>4, <1>5, <1>6, <1>10, <1>12, <1>15 DEF c, b

(* The backlog moves up; that of a link that is gone is dropped.           *)
LEMMA RoundIs ==
  ASSUME TypeOK, ProcessOneBacklogRound
  PROVE  /\ clientCh' \in [Links -> Seq(Messages)]
         /\ \A k \in Links : Len(clientCh'[k]) <= ClientChSize
         /\ linkMsgBacklog' \in [Links -> Seq(Messages)]
         /\ \A k \in Links : Known(k) => Queue(k)' = Queue(k)
         /\ \A k \in Links : ~Known(k) => Queue(k)' = clientCh[k]
<1>1. /\ clientCh \in [Links -> Seq(Messages)] /\ linkMsgBacklog \in [Links -> Seq(Messages)]
      /\ \A k \in Links : Len(clientCh[k]) <= ClientChSize
  BY DEF TypeOK, MessageTypes
<1>2. /\ clientCh' = [l \in Links |->
           IF Known(l) THEN clientCh[l] \o SubSeq(linkMsgBacklog[l], 1, Drained(l)) ELSE clientCh[l]]
      /\ linkMsgBacklog' = [l \in Links |->
           IF Known(l) THEN SubSeq(linkMsgBacklog[l], Drained(l) + 1, Len(linkMsgBacklog[l]))
                       ELSE <<>>]
  BY DEF ProcessOneBacklogRound
<1>3. ASSUME NEW l \in Links
      PROVE  /\ clientCh'[l] \in Seq(Messages) /\ Len(clientCh'[l]) <= ClientChSize
             /\ linkMsgBacklog'[l] \in Seq(Messages)
             /\ Known(l) => Queue(l)' = Queue(l)
             /\ ~Known(l) => Queue(l)' = clientCh[l]
  <2> DEFINE c == clientCh[l]
             b == linkMsgBacklog[l]
             d == Drained(l)
  <2>1. c \in Seq(Messages) /\ b \in Seq(Messages) /\ Len(c) <= ClientChSize
    BY <1>1
  <2>2. Len(c) \in Nat /\ Len(b) \in Nat
    BY <2>1, LenProperties
  <2>3. d \in 0 .. Len(b) /\ d <= ClientChSize - Len(c)
    <3>1. d = IF Len(b) < ClientChSize - Len(c) THEN Len(b) ELSE ClientChSize - Len(c)
      BY DEF Drained
    <3> HIDE DEF b, c, d
    <3> QED BY <2>1, <2>2, <3>1, RouterAssumption
  <2>4. CASE ~Known(l)
    <3>1. clientCh'[l] = c /\ linkMsgBacklog'[l] = <<>>
      BY <1>2, <2>4
    <3>2. c \o <<>> = c
      BY <2>1, ConcatEmptySeq
    <3>3. <<>> \in Seq(Messages)
      BY EmptySeq
    <3> QED BY <2>1, <2>4, <3>1, <3>2, <3>3 DEF Queue
  <2>5. CASE Known(l)
    <3> DEFINE front == SubSeq(b, 1, d)
               back == SubSeq(b, d + 1, Len(b))
    <3>1. clientCh'[l] = c \o front /\ linkMsgBacklog'[l] = back
      BY <1>2, <2>5
    <3>2. \A i \in 1 .. Len(b) : b[i] \in Messages
      BY <2>1, ElementOfSeq
    <3>3. front \in Seq(Messages) /\ Len(front) = d
      <4>1. 1 \in Int /\ d \in Int /\ \A i \in 1 .. d : b[i] \in Messages
        BY <2>2, <2>3, <3>2
      <4>2. front \in Seq(Messages) /\ Len(front) = IF 1 <= d THEN d - 1 + 1 ELSE 0
        BY <4>1, SubSeqProperties
      <4> QED BY <2>2, <2>3, <4>2
    <3>4. back \in Seq(Messages)
      <4>1. d + 1 \in Int /\ Len(b) \in Int /\ \A i \in d + 1 .. Len(b) : b[i] \in Messages
        BY <2>2, <2>3, <3>2
      <4> QED BY <4>1, SubSeqProperties
    <3>5. front \o back = b
      <4> HIDE DEF d
      <4>1. 1 \in 1 .. Len(b) + 1 /\ d \in 1 - 1 .. Len(b) /\ Len(b) \in d .. Len(b)
        BY <2>2, <2>3
      <4>2. SubSeq(b, 1, d) \o SubSeq(b, d + 1, Len(b)) = SubSeq(b, 1, Len(b))
        <5> HIDE DEF b
        <5> QED BY <2>1, <4>1, ConcatAdjacentSubSeq
      <4>3. SubSeq(b, 1, Len(b)) = b
        BY <2>1, SubSeqFull
      <4> QED BY <4>2, <4>3
    <3> HIDE DEF front, back
    <3>6. c \o front \in Seq(Messages) /\ Len(c \o front) = Len(c) + Len(front)
      BY <2>1, <3>3, ConcatProperties
    <3>7. (c \o front) \o back = c \o (front \o back)
      <4> HIDE DEF c
      <4> QED BY <2>1, <3>3, <3>4, ConcatAssociative
    <3>8. Queue(l)' = Queue(l)
      BY <3>1, <3>5, <3>7 DEF Queue
    <3>9. Len(c \o front) <= ClientChSize
      BY <2>2, <2>3, <3>3, <3>6, RouterAssumption
    <3> QED BY <2>5, <3>1, <3>4, <3>6, <3>8, <3>9
  <2> QED BY <2>4, <2>5
<1> QED BY <1>2, <1>3

-----------------------------------------------------------------------------
(* Types, and what is known of links and requests on their way.            *)

(* Links only come and go.                                                 *)
LEMMA LinkKeepsBase ==
  ASSUME BaseInv, NEW l \in Links, LinkStep(l)
  PROVE  BaseInv'
<1> USE DEF BaseInv, TypeOK, LinkTypes, tables, queues, peers
<1>1. UNCHANGED <<rpcMap, inputCh, server, clientCh, linkMsgBacklog, backlogLoop, asked, answering, got>>
  BY DEF LinkStep, RegisterUntrustedLink, TrustLink, BindRoute, UnregisterLink, LinkGone
<1>2. MessageTypes' /\ PeerTypes' /\ StageTypes'
  BY <1>1 DEF MessageTypes, PeerTypes, StageTypes
<1>3. IngressIsAsker'
  BY <1>1 DEF IngressIsAsker, FromAsker
<1>4. LinkTypes' /\ \A k \in Links : /\ linkMap[k] # "none" => linkMap'[k] # "none"
                                     /\ linkMap[k] \in {"leaf", "gone"} => linkMap'[k] \in {"leaf", "gone"}
  <2>1. CASE RegisterUntrustedLink(l)
    BY <2>1 DEF RegisterUntrustedLink
  <2>2. CASE TrustLink(l)
    BY <2>2 DEF TrustLink
  <2>3. CASE UnregisterLink(l)
    BY <2>3 DEF UnregisterLink, Known
  <2>4. CASE LinkGone(l)
    BY <2>4 DEF LinkGone
  <2>5. CASE \E r \in Routes : BindRoute(l, r)
    BY <2>5 DEF BindRoute
  <2> QED BY <2>1, <2>2, <2>3, <2>4, <2>5 DEF LinkStep
<1>5. PeersSeen'
  <2> SUFFICES ASSUME NEW q \in Requests
               PROVE  /\ asked[q].by # NoLink => linkMap'[asked[q].by] # "none"
                      /\ answering[q].by = NoLink => answering[q] = NoAnswer
                      /\ answering[q].trusted =>
                           answering[q].by \in Links /\ linkMap'[answering[q].by] \in {"leaf", "gone"}
    BY <1>1 DEF PeersSeen
  <2>1. asked[q].by \in Links \union {NoLink} /\ answering[q].by \in Links \union {NoLink}
    BY DEF PeerTypes
  <2>2. /\ asked[q].by # NoLink => linkMap[asked[q].by] # "none"
        /\ answering[q].by = NoLink => answering[q] = NoAnswer
        /\ answering[q].trusted =>
             answering[q].by \in Links /\ linkMap[answering[q].by] \in {"leaf", "gone"}
    BY DEF PeersSeen
  <2>3. asked[q].by # NoLink => linkMap'[asked[q].by] # "none"
    BY <1>4, <2>1, <2>2, Zenon
  <2>4. answering[q].by \in Links /\ linkMap[answering[q].by] \in {"leaf", "gone"} =>
          linkMap'[answering[q].by] \in {"leaf", "gone"}
    BY <1>4, Zenon
  <2> QED BY <2>2, <2>3, <2>4, Zenon
<1> QED BY <1>2, <1>3, <1>4, <1>5

(* What a message knows of its request stays true.                         *)
LEMMA AskerStays ==
  ASSUME NEW m \in Messages, FromAsker(m, asked),
         \A q \in Requests : asked[q].by # NoLink => asked'[q].by = asked[q].by
  PROVE  FromAsker(m, asked')
  BY RouterAssumption DEF FromAsker, Messages

(* A message more or less in inputCh.                                      *)
LEMMA PutIn ==
  ASSUME MessageTypes, IngressIsAsker, NEW m \in Messages, ToServer(m), FromAsker(m, asked'),
         \A q \in Requests : asked[q].by # NoLink => asked'[q].by = asked[q].by
  PROVE  /\ inputCh' \in Seq(Messages) /\ Len(inputCh') <= InputChSize
         /\ \A i \in DOMAIN inputCh' : FromAsker(inputCh'[i], asked')
<1>1. inputCh \in Seq(Messages) /\ inputCh' = Append(inputCh, m) /\ Len(inputCh) < InputChSize
  BY DEF MessageTypes, ToServer
<1>2. /\ inputCh' \in Seq(Messages) /\ Len(inputCh') = Len(inputCh) + 1 /\ Len(inputCh) \in Nat
      /\ DOMAIN inputCh = 1 .. Len(inputCh) /\ DOMAIN inputCh' = 1 .. Len(inputCh) + 1
      /\ \A i \in 1 .. Len(inputCh) : inputCh'[i] = inputCh[i]
      /\ inputCh'[Len(inputCh) + 1] = m
  BY <1>1, AppendIs
<1>3. \A i \in 1 .. Len(inputCh) : inputCh[i] \in Messages /\ FromAsker(inputCh[i], asked)
  BY <1>1, <1>2, ElementOfSeq DEF IngressIsAsker
<1>4. ASSUME NEW i \in DOMAIN inputCh'
      PROVE  FromAsker(inputCh'[i], asked')
  <2>1. CASE i \in 1 .. Len(inputCh)
    <3> DEFINE k == inputCh[i]
    <3>1. k \in Messages /\ FromAsker(k, asked)
      BY <1>3, <2>1
    <3>2. inputCh'[i] = inputCh[i]
      BY <1>2, <2>1
    <3>3. inputCh[i].kind = "request" =>
            inputCh[i].ingress \in Links /\ inputCh[i].ingress = asked'[inputCh[i].id].by
      BY <3>1, RouterAssumption DEF FromAsker, Messages
    <3> QED BY <3>2, <3>3 DEF FromAsker
  <2>2. CASE i = Len(inputCh) + 1
    BY <1>2, <2>2 DEF FromAsker
  <2> QED BY <1>2, <2>1, <2>2
<1>5. Len(inputCh') <= InputChSize
  BY <1>1, <1>2, RouterAssumption
<1> QED BY <1>2, <1>4, <1>5

LEMMA InputStays ==
  ASSUME MessageTypes, IngressIsAsker, inputCh' = inputCh,
         \A q \in Requests : asked[q].by # NoLink => asked'[q].by = asked[q].by
  PROVE  \A i \in DOMAIN inputCh' : FromAsker(inputCh'[i], asked')
<1> SUFFICES ASSUME NEW i \in DOMAIN inputCh
             PROVE  FromAsker(inputCh'[i], asked')
  OBVIOUS
<1>1. inputCh[i] \in Messages /\ FromAsker(inputCh[i], asked)
  BY ElementOfSeq, LenProperties DEF MessageTypes, IngressIsAsker
<1>2. inputCh[i].kind = "request" =>
        inputCh[i].ingress \in Links /\ inputCh[i].ingress = asked'[inputCh[i].id].by
  BY <1>1, RouterAssumption DEF FromAsker, Messages
<1> QED BY <1>2 DEF FromAsker

LEMMA ServerStays ==
  ASSUME MessageTypes, IngressIsAsker, server' = server,
         \A q \in Requests : asked[q].by # NoLink => asked'[q].by = asked[q].by
  PROVE  server'.at \in {"send", "register"} => FromAsker(server'.msg, asked')
<1> SUFFICES ASSUME server.at \in {"send", "register"}
             PROVE  FromAsker(server'.msg, asked')
  OBVIOUS
<1>1. server.msg \in Messages /\ FromAsker(server.msg, asked)
  BY DEF MessageTypes, IngressIsAsker
<1>2. server.msg.kind = "request" =>
        server.msg.ingress \in Links /\ server.msg.ingress = asked'[server.msg.id].by
  BY <1>1, RouterAssumption DEF FromAsker, Messages
<1> QED BY <1>2 DEF FromAsker

(* What is sent on, or answered with an error, keeps the types.            *)
LEMMA AdmittedKeepsTypes ==
  ASSUME MessageTypes, IngressIsAsker,
         NEW m \in Messages, m.ingress \in Links, Admitted(m), FromAsker(m, asked'),
         \A q \in Requests : asked[q].by # NoLink => asked'[q].by = asked[q].by,
         UNCHANGED <<rpcMap, server>>
  PROVE  MessageTypes' /\ (\A i \in DOMAIN inputCh' : FromAsker(inputCh'[i], asked'))
<1>1. ASSUME ToServer(m), UNCHANGED queues
      PROVE  MessageTypes' /\ (\A i \in DOMAIN inputCh' : FromAsker(inputCh'[i], asked'))
  <2>1. /\ inputCh' \in Seq(Messages) /\ Len(inputCh') <= InputChSize
        /\ \A i \in DOMAIN inputCh' : FromAsker(inputCh'[i], asked')
    BY <1>1, PutIn
  <2>2. MessageTypes'
    BY <1>1, <2>1 DEF MessageTypes, queues
  <2> QED BY <2>1, <2>2
<1>2. ASSUME SendRpcMessageToLink(m.ingress, Message("response", m.id, Failed, NoLink)),
             UNCHANGED inputCh
      PROVE  MessageTypes' /\ (\A i \in DOMAIN inputCh' : FromAsker(inputCh'[i], asked'))
  <2> DEFINE rs == Message("response", m.id, Failed, NoLink)
  <2>1. rs \in Messages
    BY DEF Message, Messages, Numbers
  <2> HIDE DEF rs
  <2>2. SendRpcMessageToLink(m.ingress, rs)
    BY <1>2 DEF rs
  <2>3. /\ clientCh' \in [Links -> Seq(Messages)]
        /\ \A k \in Links : Len(clientCh'[k]) <= ClientChSize
        /\ linkMsgBacklog' \in [Links -> Seq(Messages)]
        /\ backlogLoop' \in {"check", "waiting", "round"}
    BY <2>1, <2>2, SendIs
  <2>4. MessageTypes'
    BY <1>2, <2>3 DEF MessageTypes
  <2> QED BY <1>2, <2>4, InputStays
<1> QED BY <1>1, <1>2 DEF Admitted

(* A client asks, calls off and answers.                                   *)
LEMMA AskKeepsBase ==
  ASSUME BaseInv, NEW q \in Requests, NEW l \in Links, NEW t \in Targets, Ask(q, l, t)
  PROVE  BaseInv'
<1> USE DEF BaseInv, TypeOK
<1>1. /\ UNCHANGED <<linkMap, leaving, routeMap, sourceRoute, rpcMap, server, answering, got>>
      /\ asked[q].by = NoLink /\ Known(l)
      /\ asked' = [asked EXCEPT ![q] =
           [by |-> l, to |-> t, source |-> sourceRoute[l], canceled |-> FALSE]]
  BY DEF Ask, tables
<1>2. LinkTypes' /\ PeerTypes'
  BY <1>1 DEF LinkTypes, PeerTypes
<1>3. \A r \in Requests : asked[r].by # NoLink => asked'[r].by = asked[r].by
  BY <1>1 DEF PeerTypes
<1>4. asked'[q].by = l
  BY <1>1 DEF PeerTypes
<1>5. MessageTypes' /\ (\A i \in DOMAIN inputCh' : FromAsker(inputCh'[i], asked'))
  <2> DEFINE m == Message("request", q, 0, l)
  <2>1. m \in Messages /\ m.ingress \in Links /\ FromAsker(m, asked')
    BY <1>4, RouterAssumption DEF Message, Messages, Numbers, FromAsker
  <2>2. Admitted(m) /\ UNCHANGED <<rpcMap, server>>
    BY DEF Ask
  <2> HIDE DEF m
  <2> QED BY <1>3, <2>1, <2>2, AdmittedKeepsTypes
<1>6. StageTypes'
  BY <1>1 DEF StageTypes
<1>7. IngressIsAsker'
  BY <1>1, <1>3, <1>5, ServerStays DEF IngressIsAsker
<1>8. PeersSeen'
  <2> SUFFICES ASSUME NEW r \in Requests
               PROVE  /\ asked'[r].by # NoLink => linkMap[asked'[r].by] # "none"
                      /\ answering[r].by = NoLink => answering[r] = NoAnswer
                      /\ answering[r].trusted =>
                           answering[r].by \in Links /\ linkMap[answering[r].by] \in {"leaf", "gone"}
    BY <1>1 DEF PeersSeen
  <2>1. r # q => asked'[r] = asked[r]
    BY <1>1
  <2>2. linkMap[l] # "none"
    BY <1>1 DEF Known
  <2> QED BY <1>4, <2>1, <2>2 DEF PeersSeen
<1> QED BY <1>2, <1>5, <1>6, <1>7, <1>8

LEMMA CancelKeepsBase ==
  ASSUME BaseInv, NEW q \in Requests, Cancel(q)
  PROVE  BaseInv'
<1> USE DEF BaseInv, TypeOK
<1>1. /\ UNCHANGED <<linkMap, leaving, routeMap, sourceRoute, rpcMap, server, answering, got>>
      /\ asked' = [asked EXCEPT ![q].canceled = TRUE]
      /\ Known(asked[q].by)
  BY DEF Cancel, tables
<1>2. LinkTypes' /\ PeerTypes'
  BY <1>1 DEF LinkTypes, PeerTypes
<1>3. \A r \in Requests : asked'[r].by = asked[r].by
  BY <1>1 DEF PeerTypes
<1>4. MessageTypes' /\ (\A i \in DOMAIN inputCh' : FromAsker(inputCh'[i], asked'))
  <2> DEFINE m == Message("cancel", q, 0, asked[q].by)
  <2>1. m \in Messages /\ m.ingress \in Links /\ FromAsker(m, asked')
    BY <1>1, RouterAssumption DEF Message, Messages, Numbers, FromAsker, PeerTypes, Known
  <2>2. Admitted(m) /\ UNCHANGED <<rpcMap, server>>
    BY DEF Cancel
  <2> HIDE DEF m
  <2> QED BY <1>3, <2>1, <2>2, AdmittedKeepsTypes
<1>5. StageTypes'
  BY <1>1 DEF StageTypes
<1>6. IngressIsAsker'
  BY <1>1, <1>3, <1>4, ServerStays DEF IngressIsAsker
<1>7. PeersSeen'
  BY <1>1, <1>3 DEF PeersSeen
<1> QED BY <1>2, <1>4, <1>5, <1>6, <1>7

LEMMA RespondKeepsBase ==
  ASSUME BaseInv, NEW q \in Requests, NEW n \in 0 .. MaxResponses, Respond(q, n)
  PROVE  BaseInv'
<1> USE DEF BaseInv, TypeOK
<1>1. /\ UNCHANGED <<linkMap, leaving, routeMap, sourceRoute, rpcMap, server, clientCh,
                     linkMsgBacklog, backlogLoop, asked, got>>
      /\ Known(answering[q].by)
  BY DEF Respond, tables, queues
<1>2. PeerTypes' /\ \A r \in Requests : /\ answering'[r].by = answering[r].by
                                        /\ answering'[r].trusted = answering[r].trusted
                                        /\ r # q => answering'[r] = answering[r]
  <2>1. CASE /\ n = answering[q].last + 1 /\ n <= MaxResponses
             /\ answering' = [answering EXCEPT ![q].last = n]
    BY <1>1, <2>1, RouterAssumption DEF PeerTypes
  <2>2. CASE /\ answering[q].finals < 2
             /\ answering' = [answering EXCEPT ![q].finals = @ + 1]
    <3>1. answering[q].finals + 1 \in 0 .. 2
      <4>1. answering[q].finals \in 0 .. 2
        BY DEF PeerTypes
      <4> QED BY <2>2, <4>1
    <3> QED BY <1>1, <2>2, <3>1 DEF PeerTypes
  <2> QED BY <2>1, <2>2 DEF Respond
<1>3. LinkTypes'
  BY <1>1 DEF LinkTypes
<1>4. MessageTypes' /\ (\A i \in DOMAIN inputCh' : FromAsker(inputCh'[i], asked'))
  <2>1. CASE inputCh' = inputCh
    <3>1. MessageTypes'
      BY <1>1, <2>1 DEF MessageTypes
    <3> QED BY <1>1, <2>1, <3>1, InputStays
  <2>2. CASE ToServer(Message("response", q, n, answering[q].by))
    <3> DEFINE m == Message("response", q, n, answering[q].by)
    <3>1. m \in Messages /\ FromAsker(m, asked')
      BY DEF Message, Messages, Numbers, FromAsker, PeerTypes
    <3> HIDE DEF m
    <3>2. ToServer(m)
      BY <2>2 DEF m
    <3>3. /\ inputCh' \in Seq(Messages) /\ Len(inputCh') <= InputChSize
          /\ \A i \in DOMAIN inputCh' : FromAsker(inputCh'[i], asked')
      BY <1>1, <3>1, <3>2, PutIn
    <3>4. MessageTypes'
      BY <1>1, <3>3 DEF MessageTypes
    <3> QED BY <3>3, <3>4
  <2> QED BY <2>1, <2>2 DEF Respond
<1>5. StageTypes'
  BY <1>1 DEF StageTypes
<1>6. IngressIsAsker'
  BY <1>1, <1>4, ServerStays DEF IngressIsAsker
<1>7. PeersSeen'
  <2>1. answering[q].by # NoLink
    BY <1>1 DEF Known
  <2> QED BY <1>1, <1>2, <2>1 DEF PeersSeen
<1> QED BY <1>2, <1>3, <1>4, <1>5, <1>6, <1>7

(* A client reads; it answers a request it reads.                          *)
LEMMA ReadKeepsBase ==
  ASSUME BaseInv, NEW l \in Links, Read(l)
  PROVE  BaseInv'
<1> USE DEF BaseInv, TypeOK
<1> DEFINE m == Head(clientCh[l])
<1>1. /\ UNCHANGED <<linkMap, leaving, routeMap, sourceRoute, rpcMap, inputCh, server,
                     linkMsgBacklog, backlogLoop, asked>>
      /\ clientCh[l] # <<>> /\ linkMap[l] # "gone"
      /\ clientCh' = [clientCh EXCEPT ![l] = Tail(@)]
  BY DEF Read, tables
<1>2. /\ clientCh' \in [Links -> Seq(Messages)]
      /\ \A k \in Links : Len(clientCh'[k]) <= ClientChSize
      /\ m \in Messages
  BY <1>1, ReadIs
<1>3. LinkTypes' /\ StageTypes'
  BY <1>1 DEF LinkTypes, StageTypes
<1>4. MessageTypes'
  BY <1>1, <1>2 DEF MessageTypes
<1>5. IngressIsAsker'
  BY <1>1, InputStays, ServerStays DEF IngressIsAsker
<1> HIDE DEF m
<1>6. m.id \in Requests /\ m.n \in Numbers
  BY <1>2 DEF Messages
<1>7. CASE answering' = [answering EXCEPT ![m.id] =
             [by |-> l, trusted |-> linkMap[l] = "leaf", last |-> 0, finals |-> 0]] /\ got' = got
  <2>1. PeerTypes'
    BY <1>1, <1>6, <1>7, RouterAssumption DEF PeerTypes
  <2>2. /\ answering'[m.id] = [by |-> l, trusted |-> linkMap[l] = "leaf", last |-> 0, finals |-> 0]
        /\ \A r \in Requests : r # m.id => answering'[r] = answering[r]
    BY <1>6, <1>7 DEF PeerTypes
  <2>3. PeersSeen'
    <3> SUFFICES ASSUME NEW r \in Requests
                 PROVE  /\ asked[r].by # NoLink => linkMap[asked[r].by] # "none"
                        /\ answering'[r].by = NoLink => answering'[r] = NoAnswer
                        /\ answering'[r].trusted =>
                             answering'[r].by \in Links /\ linkMap[answering'[r].by] \in {"leaf", "gone"}
      BY <1>1 DEF PeersSeen
    <3>1. CASE r = m.id
      <4>1. answering'[r].by = l /\ answering'[r].trusted = (linkMap[l] = "leaf")
        BY <2>2, <3>1
      <4>2. asked[r].by # NoLink => linkMap[asked[r].by] # "none"
        BY DEF PeersSeen
      <4>3. l # NoLink /\ (linkMap[l] = "leaf" => linkMap[l] \in {"leaf", "gone"})
        BY RouterAssumption
      <4> QED BY <4>1, <4>2, <4>3, Zenon
    <3>2. CASE r # m.id
      BY <2>2, <3>2 DEF PeersSeen
    <3> QED BY <3>1, <3>2
  <2> QED BY <1>3, <1>4, <1>5, <2>1, <2>3
<1>8. CASE got' = [got EXCEPT ![m.id] = Append(@, m.n)] /\ answering' = answering
  <2>1. got[m.id] \in Seq(Numbers) /\ Append(got[m.id], m.n) \in Seq(Numbers)
    BY <1>6, AppendIs DEF PeerTypes
  <2>2. PeerTypes'
    BY <1>1, <1>6, <1>8, <2>1 DEF PeerTypes
  <2>3. PeersSeen'
    BY <1>1, <1>8 DEF PeersSeen
  <2> QED BY <1>3, <1>4, <1>5, <2>2, <2>3
<1>9. CASE answering' = answering /\ got' = got
  BY <1>1, <1>3, <1>4, <1>5, <1>9 DEF PeerTypes, PeersSeen
<1> QED BY <1>7, <1>8, <1>9 DEF Read, m

(* runServer.                                                              *)
LEMMA LinksFound ==
  ASSUME TypeOK, NEW t
  PROVE  LinkFor(t) \in Links \union {NoLink} /\ LinkForRoute(t) \in Links \union {NoLink}
  BY DEF TypeOK, LinkTypes, LinkFor, LinkForRoute

(* What ServerTakes makes of the first message of inputCh.                 *)
TakenAs(m, held) ==
  \/ held = Idle
  \/ /\ m.kind = "response" /\ m.n = Final
     /\ held = [Idle EXCEPT !.at = "unregister", !.msg = m]
  \/ \E to \in Links, n \in {m, Message("response", m.id, Failed, NoLink)} :
       held = [at |-> "send", msg |-> n, to |-> to]

LEMMA TakenIs ==
  ASSUME TypeOK, ServerTakes
  PROVE  /\ Head(inputCh) \in Messages /\ Tail(inputCh) \in Seq(Messages)
         /\ Len(Tail(inputCh)) <= InputChSize
         /\ TakenAs(Head(inputCh), server')
<1> DEFINE m == Head(inputCh)
           failed == Message("response", m.id, Failed, NoLink)
<1>1. inputCh \in Seq(Messages) /\ Len(inputCh) <= InputChSize /\ inputCh # <<>>
  BY DEF TypeOK, MessageTypes, ServerTakes
<1>2. m \in Messages /\ Tail(inputCh) \in Seq(Messages) /\ Len(Tail(inputCh)) <= InputChSize
  BY <1>1, TailIs, RouterAssumption
<1>3. ASSUME NEW n \in {m, failed}, NEW to \in Links \union {NoLink},
             server' = IF to = NoLink THEN Idle ELSE [at |-> "send", msg |-> n, to |-> to]
      PROVE  TakenAs(m, server')
  BY <1>3 DEF TakenAs
<1>4. ASSUME m.kind = "response", server' = AfterResponse(m)
      PROVE  TakenAs(m, server')
  BY <1>4 DEF TakenAs, AfterResponse
<1>5. ASSUME m.kind = "request", LinkFor(asked[m.id].to) # NoLink,
             server' = IF LinkFor(asked[m.id].to) = NoLink THEN Idle
                       ELSE [at |-> "send", msg |-> m, to |-> LinkFor(asked[m.id].to)]
      PROVE  TakenAs(m, server')
  BY <1>3, <1>5, LinksFound
<1>6. ASSUME NEW to \in {LinkForRoute(asked[m.id].source), NoLink},
             server' = IF to = NoLink THEN Idle ELSE [at |-> "send", msg |-> failed, to |-> to]
      PROVE  TakenAs(m, server')
  BY <1>3, <1>6, LinksFound
<1>7. ASSUME server' = IF LinkFor(rpcMap[m.id].dest) = NoLink THEN Idle
                       ELSE [at |-> "send", msg |-> m, to |-> LinkFor(rpcMap[m.id].dest)]
      PROVE  TakenAs(m, server')
  BY <1>3, <1>7, LinksFound
<1>8. ASSUME server' = IF ResponseLink(m.id) = NoLink THEN Idle
                       ELSE [at |-> "send", msg |-> m, to |-> ResponseLink(m.id)]
      PROVE  TakenAs(m, server')
  <2>1. ResponseLink(m.id) \in Links \union {NoLink}
    BY <1>2 DEF TypeOK, MessageTypes, Messages, ResponseLink
  <2> QED BY <1>3, <1>8, <2>1
<1> QED BY <1>2, <1>4, <1>5, <1>6, <1>7, <1>8 DEF ServerTakes

LEMMA ServerKeepsBase ==
  ASSUME BaseInv, RunServer
  PROVE  BaseInv'
<1> USE DEF BaseInv, TypeOK
<1>1. UNCHANGED <<linkMap, leaving, routeMap, sourceRoute, asked, answering, got>>
  BY DEF RunServer, ServerTakes, ServerSends, ServerRegisters, ServerUnregisters, tables, peers
<1>2. LinkTypes' /\ PeerTypes' /\ PeersSeen'
  BY <1>1 DEF LinkTypes, PeerTypes, PeersSeen
<1>3. NoMessage.kind = "none" /\ Idle.at = "idle" /\ Idle.msg = NoMessage /\ Idle.to = NoLink
  BY DEF Idle, NoMessage, Message
<1>4. CASE ServerTakes
  <2> DEFINE m == Head(inputCh)
             failed == Message("response", m.id, Failed, NoLink)
  <2>1. /\ m \in Messages /\ Tail(inputCh) \in Seq(Messages) /\ Len(Tail(inputCh)) <= InputChSize
        /\ TakenAs(m, server')
        /\ inputCh' = Tail(inputCh) /\ UNCHANGED <<rpcMap, clientCh, linkMsgBacklog, backlogLoop>>
    BY <1>4, TakenIs DEF ServerTakes, queues
  <2>2. inputCh \in Seq(Messages) /\ inputCh # <<>>
    BY <1>4 DEF MessageTypes, ServerTakes
  <2>3. /\ m = inputCh[1] /\ Len(inputCh) \in Nat \ {0}
        /\ DOMAIN inputCh = 1 .. Len(inputCh) /\ DOMAIN Tail(inputCh) = 1 .. Len(inputCh) - 1
        /\ \A i \in 1 .. Len(inputCh) - 1 : Tail(inputCh)[i] = inputCh[i + 1]
    BY <2>2, TailIs
  <2>4. \A i \in DOMAIN inputCh : FromAsker(inputCh[i], asked)
    BY DEF IngressIsAsker
  <2>5. FromAsker(m, asked) /\ FromAsker(failed, asked)
    BY <2>3, <2>4 DEF FromAsker, Message
  <2>6. \A i \in DOMAIN Tail(inputCh) : FromAsker(Tail(inputCh)[i], asked)
    BY <2>3, <2>4
  <2>7. failed \in Messages /\ failed.kind = "response"
    BY <2>1 DEF Message, Messages, Numbers
  <2> HIDE DEF m, failed
  <2>8. /\ server' \in [at : {"idle", "send", "register", "unregister"},
                        msg : Messages \union {NoMessage}, to : Links \union {NoLink}]
        /\ server'.at # "idle" => server'.msg \in Messages
        /\ server'.at = "send" => server'.to \in Links
        /\ server'.at # "register"
        /\ server'.at = "unregister" => server'.msg.kind = "response" /\ server'.msg.n = Final
        /\ server'.at = "send" => FromAsker(server'.msg, asked)
    <3>1. CASE server' = Idle
      BY <1>3, <3>1 DEF Idle
    <3>2. CASE /\ m.kind = "response" /\ m.n = Final
               /\ server' = [Idle EXCEPT !.at = "unregister", !.msg = m]
      BY <1>3, <2>1, <3>2 DEF Idle
    <3>3. ASSUME NEW to \in Links, NEW n \in {m, failed},
                 server' = [at |-> "send", msg |-> n, to |-> to]
          PROVE  <2>8!1 /\ <2>8!2 /\ <2>8!3 /\ <2>8!4 /\ <2>8!5 /\ <2>8!6
      BY <2>1, <2>5, <2>7, <3>3
    <3> QED BY <2>1, <3>1, <3>2, <3>3 DEF TakenAs, failed
  <2>9. MessageTypes'
    BY <2>1, <2>8 DEF MessageTypes
  <2>10. StageTypes'
    BY <2>8 DEF StageTypes
  <2>11. IngressIsAsker'
    BY <1>1, <2>1, <2>6, <2>8 DEF IngressIsAsker
  <2> QED BY <1>2, <2>9, <2>10, <2>11
<1>5. CASE ServerSends
  <2> DEFINE m == server.msg
  <2>1. /\ server.at = "send" /\ m \in Messages /\ server.to \in Links
        /\ UNCHANGED <<rpcMap, inputCh>>
        /\ SendRpcMessageToLink(server.to, m)
    BY <1>5 DEF ServerSends, MessageTypes
  <2>2. /\ clientCh' \in [Links -> Seq(Messages)]
        /\ \A k \in Links : Len(clientCh'[k]) <= ClientChSize
        /\ linkMsgBacklog' \in [Links -> Seq(Messages)]
        /\ backlogLoop' \in {"check", "waiting", "round"}
    BY <2>1, SendIs
  <2>3. server \in [at : {"idle", "send", "register", "unregister"},
                    msg : Messages \union {NoMessage}, to : Links \union {NoLink}]
    BY DEF MessageTypes
  <2>4. \/ m.kind = "request" /\ server' = [server EXCEPT !.at = "register"]
        \/ /\ m.kind = "response" /\ m.n = Final
           /\ server' = [Idle EXCEPT !.at = "unregister", !.msg = m]
        \/ server' = Idle
    BY <1>5, <2>1 DEF ServerSends, Messages, AfterResponse
  <2>5. /\ server' \in [at : {"idle", "send", "register", "unregister"},
                        msg : Messages \union {NoMessage}, to : Links \union {NoLink}]
        /\ server'.at # "idle" => server'.msg \in Messages
        /\ server'.at # "send"
        /\ server'.at = "register" => server'.msg.kind = "request" /\ server'.msg = m
        /\ server'.at = "unregister" => server'.msg.kind = "response" /\ server'.msg.n = Final
    BY <1>3, <2>1, <2>3, <2>4 DEF Idle
  <2>6. MessageTypes'
    BY <2>1, <2>2, <2>5 DEF MessageTypes
  <2>7. StageTypes'
    BY <2>5 DEF StageTypes
  <2>8. IngressIsAsker'
    BY <1>1, <2>1, <2>5 DEF IngressIsAsker
  <2> QED BY <1>2, <2>6, <2>7, <2>8
<1>6. CASE ServerRegisters \/ ServerUnregisters
  <2>1. /\ server' = Idle /\ UNCHANGED <<inputCh, clientCh, linkMsgBacklog, backlogLoop>>
        /\ server.msg \in Messages
    BY <1>6 DEF ServerRegisters, ServerUnregisters, queues, MessageTypes
  <2>2. server.msg.id \in Requests /\ server.msg.ingress \in Links \union {NoLink}
    BY <2>1 DEF Messages
  <2>3. rpcMap' \in [Requests -> [source : Links \union {NoLink}, dest : Targets \union {NoRoute}]]
    <3>1. CASE ServerRegisters
      <4>1. asked[server.msg.id].to \in Targets \union {NoRoute}
        BY <2>2 DEF PeerTypes
      <4> QED BY <2>2, <3>1, <4>1 DEF ServerRegisters, MessageTypes
    <3>2. CASE ServerUnregisters
      BY <2>2, <3>2 DEF ServerUnregisters, MessageTypes, NoRpc
    <3> QED BY <1>6, <3>1, <3>2
  <2>4. MessageTypes'
    BY <1>3, <2>1, <2>3 DEF MessageTypes, Idle
  <2>5. StageTypes' /\ IngressIsAsker'
    BY <1>1, <1>3, <2>1 DEF StageTypes, IngressIsAsker
  <2> QED BY <1>2, <2>4, <2>5
<1> QED BY <1>4, <1>5, <1>6 DEF RunServer

(* processBacklog.                                                         *)
LEMMA BacklogKeepsBase ==
  ASSUME BaseInv, ProcessBacklog
  PROVE  BaseInv'
<1> USE DEF BaseInv, TypeOK
<1>1. UNCHANGED <<linkMap, leaving, routeMap, sourceRoute, rpcMap, inputCh, server, asked,
                  answering, got>>
  BY DEF ProcessBacklog, BacklogCheck, ProcessOneBacklogRound, tables, peers
<1>2. /\ clientCh' \in [Links -> Seq(Messages)]
      /\ \A k \in Links : Len(clientCh'[k]) <= ClientChSize
      /\ linkMsgBacklog' \in [Links -> Seq(Messages)]
      /\ backlogLoop' \in {"check", "waiting", "round"}
  <2>1. CASE BacklogCheck
    BY <2>1 DEF BacklogCheck, MessageTypes
  <2>2. CASE ProcessOneBacklogRound
    BY <2>2, RoundIs DEF ProcessOneBacklogRound
  <2> QED BY <2>1, <2>2 DEF ProcessBacklog
<1>3. MessageTypes'
  BY <1>1, <1>2 DEF MessageTypes
<1>4. LinkTypes' /\ PeerTypes' /\ StageTypes' /\ PeersSeen' /\ IngressIsAsker'
  BY <1>1 DEF LinkTypes, PeerTypes, StageTypes, PeersSeen, IngressIsAsker
<1> QED BY <1>3, <1>4

LEMMA InitBase == Init => BaseInv
<1> SUFFICES ASSUME Init PROVE BaseInv
  OBVIOUS
<1> USE DEF Init, Nobody, NoAnswer, NoRpc, Idle, NoMessage, Message
<1>1. LinkTypes
  BY DEF LinkTypes
<1>2. <<>> \in Seq(Messages) /\ <<>> \in Seq(Numbers) /\ Len(<<>>) = 0
  BY EmptySeq
<1>3. MessageTypes
  BY <1>2, RouterAssumption DEF MessageTypes
<1>4. PeerTypes
  BY <1>2, RouterAssumption DEF PeerTypes
<1>5. StageTypes /\ PeersSeen /\ IngressIsAsker
  BY DEF StageTypes, PeersSeen, IngressIsAsker
<1> QED BY <1>1, <1>3, <1>4, <1>5 DEF BaseInv, TypeOK

LEMMA NextKeepsBase == BaseInv /\ [Next]_vars => BaseInv'
<1> SUFFICES ASSUME BaseInv, [Next]_vars PROVE BaseInv'
  OBVIOUS
<1>1. CASE UNCHANGED vars
  BY <1>1 DEF vars, tables, queues, peers, BaseInv, TypeOK, LinkTypes, MessageTypes, PeerTypes,
              StageTypes, PeersSeen, IngressIsAsker
<1>2. CASE Next
  BY <1>2, LinkKeepsBase, ReadKeepsBase, AskKeepsBase, CancelKeepsBase, RespondKeepsBase,
     ServerKeepsBase, BacklogKeepsBase DEF Next, RequestStep
<1> QED BY <1>1, <1>2

(* What is known of links and requests on their way always holds.          *)
THEOREM BaseHolds == Spec => []BaseInv
  BY InitBase, NextKeepsBase, PTL DEF Spec

(* Links, queues, what runServer holds and what clients have asked,        *)
(* answered and read have their types.                                     *)
THEOREM Types == Spec => []TypeOK
<1>1. BaseInv => TypeOK
  BY DEF BaseInv
<1> QED BY <1>1, BaseHolds, PTL

-----------------------------------------------------------------------------
(* What an action has nothing to do with stays in order.                   *)

SameServer(q) ==
  /\ Sending(q)' <=> Sending(q)
  /\ InHand(q)' = InHand(q) /\ (InHand(q) # {} => server'.to = server.to)
  /\ Registering(q)' <=> Registering(q)
  /\ Unregistering(q)' <=> Unregistering(q)
SameInput(q) ==
  /\ HasRequest(q, inputCh)' <=> HasRequest(q, inputCh)
  /\ OneRequest(q, inputCh) => OneRequest(q, inputCh)'
  /\ Answered(q, inputCh)' = Answered(q, inputCh)
  /\ RisesInput(q, inputCh) => RisesInput(q, inputCh)'
SameQueue(q, l) ==
  /\ HasRequest(q, Queue(l))' <=> HasRequest(q, Queue(l))
  /\ OneRequest(q, Queue(l)) => OneRequest(q, Queue(l))'
  /\ Answered(q, Queue(l))' = Answered(q, Queue(l))
  /\ Rises(q, Queue(l)) => Rises(q, Queue(l))'
SamePeers(q) ==
  /\ asked'[q].by = asked[q].by /\ answering'[q] = answering[q] /\ got'[q] = got[q]
  /\ rpcMap'[q] = rpcMap[q]
  /\ Known(asked[q].by)' => Known(asked[q].by)

(* A queue loses messages, but not that of one who asked and is there.     *)
Loses(q, l) ==
  /\ HasRequest(q, Queue(l))' => HasRequest(q, Queue(l))
  /\ OneRequest(q, Queue(l)) => OneRequest(q, Queue(l))'
  /\ Answered(q, Queue(l))' \subseteq Answered(q, Queue(l))
  /\ l = asked[q].by /\ Known(l)' => SameQueue(q, l)

LEMMA Unconcerned ==
  ASSUME NEW q \in Requests, BaseInv, Orderly(q), SameServer(q), SameInput(q), SamePeers(q),
         \A l \in Links : Loses(q, l)
  PROVE  Orderly(q)'
<1>1. Queued(q)' => Queued(q)
  BY DEF Queued, Loses
<1>2. UnderWay(q)' => UnderWay(q)
  BY <1>1 DEF UnderWay, SameServer, SameInput
<1>3. NoneSent(q) => NoneSent(q)'
  BY DEF NoneSent, SameServer, SamePeers, Loses
<1>4. RequestOnce(q)'
  BY <1>1 DEF Orderly, RequestOnce, SameServer, SameInput, Loses
<1>5. FirstAsked(q)'
  BY <1>2, <1>3 DEF Orderly, FirstAsked, SameServer, SameInput, SamePeers
<1>6. Queued(q)' => Registering(q)' \/ rpcMap'[q].source = asked'[q].by
  BY <1>1 DEF Orderly, SameServer, SamePeers
<1>7. ASSUME Known(asked[q].by)', answering'[q].trusted
      PROVE  Line(q)'
  <2>1. Line(q)
    BY <1>7 DEF Orderly, SamePeers
  <2>2. PICK l \in Links : l = asked[q].by
    BY <1>7 DEF BaseInv, TypeOK, PeerTypes, SamePeers, Known
  <2>3. asked'[q].by = l
    BY <2>2 DEF SamePeers
  <2>4. /\ Waiting(q)' = Waiting(q)
        /\ Rises(q, Queue(asked[q].by)) => Rises(q, Queue(asked[q].by))'
    <3>1. Known(l)'
      BY <1>7, <2>3 DEF Known
    <3>2. SameQueue(q, l)
      BY <2>2, <3>1 DEF Loses
    <3> QED BY <2>2, <2>3, <3>2 DEF Waiting, SameQueue, Queue
  <2>5. Ended(q)' <=> Ended(q)
    BY <2>4 DEF Ended, SameServer, SamePeers
  <2>6. ReadInOrder(q)'
    BY <2>1 DEF Line, ReadInOrder, Place, SamePeers
  <2>7. InNumbers(q)' /\ NothingMissing(q)'
    BY <2>1, <2>4 DEF Line, InNumbers, NothingMissing, SameServer, SameInput, SamePeers
  <2>8. InLine(q)'
    BY <2>1, <2>4 DEF Line, InLine, SameServer, SameInput
  <2>9. RoutedBack(q)'
    BY <2>1, <2>5 DEF Line, RoutedBack, SameServer, SamePeers
  <2> QED BY <2>6, <2>7, <2>8, <2>9 DEF Line
<1> QED BY <1>4, <1>5, <1>6, <1>7 DEF Orderly

LEMMA AppendSame ==
  ASSUME NEW s \in Seq(Messages), NEW m \in Messages, NEW q, ~Asks(q, m), ~Answers(q, m)
  PROVE  /\ HasRequest(q, Append(s, m)) <=> HasRequest(q, s)
         /\ OneRequest(q, s) => OneRequest(q, Append(s, m))
         /\ Answered(q, Append(s, m)) = Answered(q, s)
         /\ Rises(q, s) => Rises(q, Append(s, m))
         /\ RisesInput(q, s) => RisesInput(q, Append(s, m))
  BY AppendHas, AppendAnswered, AppendRises

LEMMA TailSame ==
  ASSUME NEW s \in Seq(Messages), s # <<>>, NEW q, ~Asks(q, Head(s)), ~Answers(q, Head(s))
  PROVE  /\ HasRequest(q, Tail(s)) <=> HasRequest(q, s)
         /\ OneRequest(q, s) => OneRequest(q, Tail(s))
         /\ Answered(q, Tail(s)) = Answered(q, s)
         /\ Rises(q, s) => Rises(q, Tail(s))
         /\ RisesInput(q, s) => RisesInput(q, Tail(s))
  BY TailHas, TailAnswered, TailRises

LEMMA ServerSame ==
  ASSUME NEW q, server' = server
  PROVE  SameServer(q)
  BY DEF SameServer, Sending, InHand, Registering, Unregistering

LEMMA InputSame ==
  ASSUME NEW q, MessageTypes,
         \/ inputCh' = inputCh
         \/ \E m \in Messages : ToServer(m) /\ ~Asks(q, m) /\ ~Answers(q, m)
         \/ /\ inputCh # <<>> /\ inputCh' = Tail(inputCh)
            /\ ~Asks(q, Head(inputCh)) /\ ~Answers(q, Head(inputCh))
  PROVE  SameInput(q)
<1>1. inputCh \in Seq(Messages)
  BY DEF MessageTypes
<1>2. CASE inputCh' = inputCh
  BY <1>2 DEF SameInput, HasRequest, OneRequest, Answered, RisesInput
<1>3. CASE \E m \in Messages : ToServer(m) /\ ~Asks(q, m) /\ ~Answers(q, m)
  <2>1. PICK m \in Messages : inputCh' = Append(inputCh, m) /\ ~Asks(q, m) /\ ~Answers(q, m)
    BY <1>3 DEF ToServer
  <2>2. /\ HasRequest(q, inputCh') <=> HasRequest(q, inputCh)
        /\ OneRequest(q, inputCh) => OneRequest(q, inputCh')
        /\ Answered(q, inputCh') = Answered(q, inputCh)
        /\ RisesInput(q, inputCh) => RisesInput(q, inputCh')
    BY <1>1, <2>1, AppendSame
  <2> QED BY <2>2 DEF SameInput, HasRequest, OneRequest, Answered, RisesInput
<1>4. CASE /\ inputCh # <<>> /\ inputCh' = Tail(inputCh)
           /\ ~Asks(q, Head(inputCh)) /\ ~Answers(q, Head(inputCh))
  <2>1. /\ HasRequest(q, inputCh') <=> HasRequest(q, inputCh)
        /\ OneRequest(q, inputCh) => OneRequest(q, inputCh')
        /\ Answered(q, inputCh') = Answered(q, inputCh)
        /\ RisesInput(q, inputCh) => RisesInput(q, inputCh')
    BY <1>1, <1>4, TailSame
  <2> QED BY <2>1 DEF SameInput, HasRequest, OneRequest, Answered, RisesInput
<1> QED BY <1>2, <1>3, <1>4

LEMMA QueueSame ==
  ASSUME NEW q, MessageTypes, NEW l \in Links,
         \/ Queue(l)' = Queue(l)
         \/ \E m \in Messages : /\ Queue(l)' = Append(Queue(l), m)
                                /\ ~Asks(q, m) /\ ~Answers(q, m)
         \/ /\ Queue(l) # <<>> /\ Queue(l)' = Tail(Queue(l))
            /\ ~Asks(q, Head(Queue(l))) /\ ~Answers(q, Head(Queue(l)))
  PROVE  SameQueue(q, l)
<1> DEFINE s == Queue(l)
<1>1. PICK t : t = Queue(l)'
  OBVIOUS
<1>2. s \in Seq(Messages)
  BY QueueIs
<1>3. SameQueue(q, l) <=>
        /\ HasRequest(q, t) <=> HasRequest(q, s)
        /\ OneRequest(q, s) => OneRequest(q, t)
        /\ Answered(q, t) = Answered(q, s)
        /\ Rises(q, s) => Rises(q, t)
  BY <1>1 DEF SameQueue, HasRequest, OneRequest, Answered, Rises
<1> HIDE DEF s
<1>4. CASE t = s
  BY <1>3, <1>4
<1>5. CASE \E m \in Messages : t = Append(s, m) /\ ~Asks(q, m) /\ ~Answers(q, m)
  <2>1. PICK m \in Messages : t = Append(s, m) /\ ~Asks(q, m) /\ ~Answers(q, m)
    BY <1>5
  <2> QED BY <1>2, <1>3, <2>1, AppendSame
<1>6. CASE s # <<>> /\ t = Tail(s) /\ ~Asks(q, Head(s)) /\ ~Answers(q, Head(s))
  BY <1>2, <1>3, <1>6, TailSame
<1> QED BY <1>1, <1>4, <1>5, <1>6 DEF s

LEMMA LosesNone ==
  ASSUME NEW q, NEW l \in Links, SameQueue(q, l)
  PROVE  Loses(q, l)
  BY DEF SameQueue, Loses

LEMMA QueuesSame ==
  ASSUME NEW q, MessageTypes, UNCHANGED <<clientCh, linkMsgBacklog>>
  PROVE  \A l \in Links : Loses(q, l)
<1>1. \A l \in Links : Queue(l)' = Queue(l)
  BY DEF Queue
<1> QED BY <1>1, QueueSame, LosesNone

(* Who asked was there before.                                             *)
LEMMA KnownBefore ==
  ASSUME BaseInv, NEW q \in Requests, asked'[q].by = asked[q].by,
         linkMap' = linkMap \/ \E l \in Links : LinkStep(l)
  PROVE  Known(asked[q].by)' => Known(asked[q].by)
<1>1. CASE linkMap' = linkMap
  BY <1>1 DEF Known
<1>2. CASE \E l \in Links : LinkStep(l)
  <2>1. asked[q].by # NoLink => asked[q].by \in Links /\ linkMap[asked[q].by] # "none"
    BY DEF BaseInv, TypeOK, PeerTypes, PeersSeen
  <2>2. \A k \in Links : linkMap[k] # "none" /\ linkMap'[k] \in {"untrusted", "leaf"} =>
                           linkMap[k] \in {"untrusted", "leaf"}
    BY <1>2 DEF LinkStep, RegisterUntrustedLink, TrustLink, BindRoute, UnregisterLink, LinkGone,
                BaseInv, TypeOK, LinkTypes
  <2> QED BY <2>1, <2>2 DEF Known
<1> QED BY <1>1, <1>2

LEMMA LinkKeepsOrder ==
  ASSUME Inv, NEW l \in Links, LinkStep(l), NEW q \in Requests
  PROVE  Orderly(q)'
<1>1. UNCHANGED <<rpcMap, inputCh, server, clientCh, linkMsgBacklog, asked, answering, got>>
  BY DEF LinkStep, RegisterUntrustedLink, TrustLink, BindRoute, UnregisterLink, LinkGone, queues, peers
<1>2. BaseInv /\ Orderly(q) /\ MessageTypes
  BY DEF Inv, BaseInv, TypeOK
<1>3. SamePeers(q)
  BY <1>1, <1>2, KnownBefore DEF SamePeers
<1> QED BY <1>1, <1>2, <1>3, ServerSame, InputSame, QueuesSame, Unconcerned

-----------------------------------------------------------------------------
(* What a message more or less changes for a request.                      *)

LEMMA QueueGrows ==
  ASSUME MessageTypes, NEW q, NEW l \in Links, NEW m \in Messages, Queue(l)' = Append(Queue(l), m)
  PROVE  /\ HasRequest(q, Queue(l))' <=> HasRequest(q, Queue(l)) \/ Asks(q, m)
         /\ OneRequest(q, Queue(l)) /\ (Asks(q, m) => ~HasRequest(q, Queue(l)))
              => OneRequest(q, Queue(l))'
         /\ Answers(q, m) => Answered(q, Queue(l))' = Answered(q, Queue(l)) \union {m.n}
         /\ ~Answers(q, m) => Answered(q, Queue(l))' = Answered(q, Queue(l))
         /\ Rises(q, Queue(l)) /\ (Answers(q, m) => \A n \in Answered(q, Queue(l)) : Before(n, m.n))
              => Rises(q, Queue(l))'
<1> DEFINE s == Queue(l)
<1>1. PICK t : t = Queue(l)'
  OBVIOUS
<1>2. /\ HasRequest(q, Queue(l))' <=> HasRequest(q, t)
      /\ OneRequest(q, Queue(l))' <=> OneRequest(q, t)
      /\ Answered(q, Queue(l))' = Answered(q, t)
      /\ Rises(q, Queue(l))' <=> Rises(q, t)
  BY <1>1 DEF HasRequest, OneRequest, Answered, Rises
<1>3. s \in Seq(Messages)
  BY QueueIs
<1>4. t = Append(s, m)
  BY <1>1
<1> HIDE DEF s
<1>5. /\ HasRequest(q, t) <=> HasRequest(q, s) \/ Asks(q, m)
      /\ OneRequest(q, s) /\ (Asks(q, m) => ~HasRequest(q, s)) => OneRequest(q, t)
  BY <1>3, <1>4, AppendHas
<1>6. /\ Answers(q, m) => Answered(q, t) = Answered(q, s) \union {m.n}
      /\ ~Answers(q, m) => Answered(q, t) = Answered(q, s)
  BY <1>3, <1>4, AppendAnswered
<1>7. Rises(q, s) /\ (Answers(q, m) => \A n \in Answered(q, s) : Before(n, m.n)) => Rises(q, t)
  BY <1>3, <1>4, AppendRises
<1> QED BY <1>2, <1>5, <1>6, <1>7 DEF s

LEMMA QueueShrinks ==
  ASSUME MessageTypes, NEW q, NEW l \in Links, NEW m, Queue(l) # <<>>, m = Head(Queue(l)),
         Queue(l)' = Tail(Queue(l))
  PROVE  /\ HasRequest(q, Queue(l)) <=> HasRequest(q, Queue(l))' \/ Asks(q, m)
         /\ OneRequest(q, Queue(l)) =>
              OneRequest(q, Queue(l))' /\ (Asks(q, m) => ~HasRequest(q, Queue(l))')
         /\ Answers(q, m) => Answered(q, Queue(l)) = Answered(q, Queue(l))' \union {m.n}
         /\ ~Answers(q, m) => Answered(q, Queue(l)) = Answered(q, Queue(l))'
         /\ Rises(q, Queue(l)) =>
              /\ Rises(q, Queue(l))'
              /\ Answers(q, m) => \A n \in Answered(q, Queue(l))' : Before(m.n, n)
<1> DEFINE s == Queue(l)
<1>1. PICK t : t = Queue(l)'
  OBVIOUS
<1>2. /\ HasRequest(q, Queue(l))' <=> HasRequest(q, t)
      /\ OneRequest(q, Queue(l))' <=> OneRequest(q, t)
      /\ Answered(q, Queue(l))' = Answered(q, t)
      /\ Rises(q, Queue(l))' <=> Rises(q, t)
  BY <1>1 DEF HasRequest, OneRequest, Answered, Rises
<1>3. s \in Seq(Messages)
  BY QueueIs
<1>4. t = Tail(s) /\ m = Head(s) /\ s # <<>>
  BY <1>1
<1> HIDE DEF s
<1>5. /\ HasRequest(q, s) <=> HasRequest(q, t) \/ Asks(q, m)
      /\ OneRequest(q, s) => OneRequest(q, t) /\ (Asks(q, m) => ~HasRequest(q, t))
  BY <1>3, <1>4, TailHas
<1>6. /\ Answers(q, m) => Answered(q, s) = Answered(q, t) \union {m.n}
      /\ ~Answers(q, m) => Answered(q, s) = Answered(q, t)
  BY <1>3, <1>4, TailAnswered
<1>7. Rises(q, s) => Rises(q, t) /\ (Answers(q, m) => \A n \in Answered(q, t) : Before(m.n, n))
  BY <1>3, <1>4, TailRises
<1> QED BY <1>2, <1>5, <1>6, <1>7 DEF s

LEMMA InputGrows ==
  ASSUME MessageTypes, NEW q, NEW m \in Messages, inputCh' = Append(inputCh, m)
  PROVE  /\ HasRequest(q, inputCh)' <=> HasRequest(q, inputCh) \/ Asks(q, m)
         /\ OneRequest(q, inputCh) /\ (Asks(q, m) => ~HasRequest(q, inputCh)) => OneRequest(q, inputCh)'
         /\ Answers(q, m) => Answered(q, inputCh)' = Answered(q, inputCh) \union {m.n}
         /\ ~Answers(q, m) => Answered(q, inputCh)' = Answered(q, inputCh)
         /\ RisesInput(q, inputCh)
              /\ (Answers(q, m) => \A n \in Answered(q, inputCh) : m.n = Final \/ Before(n, m.n))
              => RisesInput(q, inputCh)'
<1> DEFINE s == inputCh
<1>1. PICK t : t = inputCh'
  OBVIOUS
<1>2. /\ HasRequest(q, inputCh)' <=> HasRequest(q, t)
      /\ OneRequest(q, inputCh)' <=> OneRequest(q, t)
      /\ Answered(q, inputCh)' = Answered(q, t)
      /\ RisesInput(q, inputCh)' <=> RisesInput(q, t)
  BY <1>1 DEF HasRequest, OneRequest, Answered, RisesInput
<1>3. s \in Seq(Messages)
  BY DEF MessageTypes
<1>4. t = Append(s, m)
  BY <1>1
<1> HIDE DEF s
<1>5. /\ HasRequest(q, t) <=> HasRequest(q, s) \/ Asks(q, m)
      /\ OneRequest(q, s) /\ (Asks(q, m) => ~HasRequest(q, s)) => OneRequest(q, t)
  BY <1>3, <1>4, AppendHas
<1>6. /\ Answers(q, m) => Answered(q, t) = Answered(q, s) \union {m.n}
      /\ ~Answers(q, m) => Answered(q, t) = Answered(q, s)
  BY <1>3, <1>4, AppendAnswered
<1>7. RisesInput(q, s) /\ (Answers(q, m) => \A n \in Answered(q, s) : m.n = Final \/ Before(n, m.n))
        => RisesInput(q, t)
  BY <1>3, <1>4, AppendRises
<1> QED BY <1>2, <1>5, <1>6, <1>7 DEF s

LEMMA InputShrinks ==
  ASSUME MessageTypes, NEW q, NEW m, inputCh # <<>>, m = Head(inputCh), inputCh' = Tail(inputCh)
  PROVE  /\ HasRequest(q, inputCh) <=> HasRequest(q, inputCh)' \/ Asks(q, m)
         /\ OneRequest(q, inputCh) =>
              OneRequest(q, inputCh)' /\ (Asks(q, m) => ~HasRequest(q, inputCh)')
         /\ Answers(q, m) => Answered(q, inputCh) = Answered(q, inputCh)' \union {m.n}
         /\ ~Answers(q, m) => Answered(q, inputCh) = Answered(q, inputCh)'
         /\ RisesInput(q, inputCh) =>
              /\ RisesInput(q, inputCh)'
              /\ Answers(q, m) => \A n \in Answered(q, inputCh)' : n = Final \/ Before(m.n, n)
<1> DEFINE s == inputCh
<1>1. PICK t : t = inputCh'
  OBVIOUS
<1>2. /\ HasRequest(q, inputCh)' <=> HasRequest(q, t)
      /\ OneRequest(q, inputCh)' <=> OneRequest(q, t)
      /\ Answered(q, inputCh)' = Answered(q, t)
      /\ RisesInput(q, inputCh)' <=> RisesInput(q, t)
  BY <1>1 DEF HasRequest, OneRequest, Answered, RisesInput
<1>3. s \in Seq(Messages)
  BY DEF MessageTypes
<1>4. t = Tail(s) /\ m = Head(s) /\ s # <<>>
  BY <1>1
<1> HIDE DEF s
<1>5. /\ HasRequest(q, s) <=> HasRequest(q, t) \/ Asks(q, m)
      /\ OneRequest(q, s) => OneRequest(q, t) /\ (Asks(q, m) => ~HasRequest(q, t))
  BY <1>3, <1>4, TailHas
<1>6. /\ Answers(q, m) => Answered(q, s) = Answered(q, t) \union {m.n}
      /\ ~Answers(q, m) => Answered(q, s) = Answered(q, t)
  BY <1>3, <1>4, TailAnswered
<1>7. RisesInput(q, s) =>
        RisesInput(q, t) /\ (Answers(q, m) => \A n \in Answered(q, t) : n = Final \/ Before(m.n, n))
  BY <1>3, <1>4, TailRises
<1> QED BY <1>2, <1>5, <1>6, <1>7 DEF s

-----------------------------------------------------------------------------
(* Each action keeps each request in order.                                *)

LEMMA NoneRises ==
  ASSUME NEW q, NEW s, Answered(q, s) = {}
  PROVE  Rises(q, s) /\ RisesInput(q, s)
  BY DEF Answered, Rises, RisesInput

(* Before it is asked there is nothing of a request.                       *)
LEMMA UnaskedIs ==
  ASSUME Inv, NEW q \in Requests, asked[q].by = NoLink
  PROVE  /\ answering[q].by = NoLink /\ ~answering[q].trusted
         /\ ~UnderWay(q) /\ ~Registering(q) /\ NoneSent(q)
<1>1. FirstAsked(q)
  BY DEF Inv, Orderly
<1>2. answering[q].by = NoLink /\ ~UnderWay(q) /\ NoneSent(q)
  BY <1>1 DEF FirstAsked
<1>3. ~answering[q].trusted
  BY <1>2, RouterAssumption DEF Inv, BaseInv, PeersSeen
<1>4. ~Registering(q)
  <2> SUFFICES ASSUME Registering(q) PROVE FALSE
    OBVIOUS
  <2>1. server.msg.kind = "request" /\ FromAsker(server.msg, asked) /\ server.msg.id = q
    BY DEF Registering, Inv, BaseInv, StageTypes, IngressIsAsker
  <2> QED BY <2>1, RouterAssumption DEF FromAsker
<1> QED BY <1>2, <1>3, <1>4

(* What a link sends concerns nobody but its request: sent on, or answered *)
(* with an error.                                                          *)
LEMMA AdmittedSame ==
  ASSUME MessageTypes, NEW m \in Messages, m.ingress \in Links, Admitted(m),
         NEW q \in Requests, m.id # q
  PROVE  SameInput(q) /\ \A k \in Links : Loses(q, k)
<1>1. ~Asks(q, m) /\ ~Answers(q, m)
  BY DEF Asks, Answers
<1>2. CASE ToServer(m) /\ UNCHANGED queues
  BY <1>1, <1>2, InputSame, QueuesSame DEF queues
<1>3. ASSUME SendRpcMessageToLink(m.ingress, Message("response", m.id, Failed, NoLink)),
             UNCHANGED inputCh
      PROVE  SameInput(q) /\ \A k \in Links : Loses(q, k)
  <2> DEFINE rs == Message("response", m.id, Failed, NoLink)
             l == m.ingress
  <2>1. rs \in Messages /\ ~Asks(q, rs) /\ ~Answers(q, rs)
    BY DEF Message, Messages, Numbers, Asks, Answers
  <2>2. SendRpcMessageToLink(l, rs) /\ l \in Links
    BY <1>3
  <2> HIDE DEF rs, l
  <2>3. \A k \in Links : Queue(k)' = IF k = l THEN Append(Queue(l), rs) ELSE Queue(k)
    BY <2>1, <2>2, SendIs
  <2>4. \A k \in Links : Loses(q, k)
    BY <2>1, <2>3, QueueSame, LosesNone
  <2> QED BY <1>3, <2>4, InputSame
<1> QED BY <1>2, <1>3 DEF Admitted

(* An error leaves a request that nobody has heard of nowhere.             *)
LEMMA RefusedKeepsOrder ==
  ASSUME BaseInv, NEW q \in Requests, NEW l \in Links, Orderly(q), ~HeardOf(q),
         SendRpcMessageToLink(l, Message("response", q, Failed, NoLink)),
         asked'[q].by # NoLink, UNCHANGED <<rpcMap, server, inputCh, answering, got>>
  PROVE  Orderly(q)' /\ ~UnderWay(q)'
<1> DEFINE rs == Message("response", q, Failed, NoLink)
<1>1. MessageTypes /\ answering[q].by = NoLink /\ ~UnderWay(q) /\ ~Registering(q)
  BY DEF BaseInv, TypeOK, HeardOf
<1>2. rs \in Messages /\ ~Asks(q, rs) /\ SendRpcMessageToLink(l, rs)
  BY DEF Message, Messages, Numbers, Asks
<1> HIDE DEF rs
<1>3. \A k \in Links : Queue(k)' = IF k = l THEN Append(Queue(l), rs) ELSE Queue(k)
  BY <1>1, <1>2, SendIs
<1>4. \A k \in Links : /\ HasRequest(q, Queue(k))' <=> HasRequest(q, Queue(k))
                       /\ OneRequest(q, Queue(k)) => OneRequest(q, Queue(k))'
  <2> SUFFICES ASSUME NEW k \in Links
               PROVE  /\ HasRequest(q, Queue(k))' <=> HasRequest(q, Queue(k))
                      /\ OneRequest(q, Queue(k)) => OneRequest(q, Queue(k))'
    OBVIOUS
  <2>1. CASE Queue(k)' = Queue(k)
    BY <1>1, <2>1, QueueSame DEF SameQueue
  <2>2. CASE Queue(k)' = Append(Queue(k), rs)
    BY <1>1, <1>2, <2>2, QueueGrows
  <2> QED BY <1>3, <2>1, <2>2
<1>5. SameServer(q) /\ SameInput(q)
  BY <1>1, ServerSame, InputSame
<1>6. ~Queued(q)' /\ ~Sending(q)' /\ ~HasRequest(q, inputCh)' /\ ~Registering(q)'
  BY <1>1, <1>4, <1>5 DEF UnderWay, Queued, SameServer, SameInput
<1>7. ~UnderWay(q)'
  BY <1>6 DEF UnderWay
<1>8. RequestOnce(q)'
  BY <1>4, <1>5, <1>6 DEF Orderly, RequestOnce, Queued, SameInput
<1>9. FirstAsked(q)'
  BY <1>1, <1>5, <1>6, <1>7 DEF Orderly, FirstAsked, SameServer, SameInput
<1>10. ~answering'[q].trusted
  BY <1>1, RouterAssumption DEF BaseInv, PeersSeen
<1> QED BY <1>6, <1>7, <1>8, <1>9, <1>10 DEF Orderly

LEMMA AskKeepsOrder ==
  ASSUME Inv, NEW q \in Requests, NEW l \in Links, NEW t \in Targets, Ask(q, l, t), NEW p \in Requests
  PROVE  Orderly(p)'
<1> DEFINE rq == Message("request", q, 0, l)
<1>1. /\ UNCHANGED <<linkMap, rpcMap, server, answering, got>>
      /\ asked[q].by = NoLink /\ Admitted(rq)
      /\ asked' = [asked EXCEPT ![q] =
           [by |-> l, to |-> t, source |-> sourceRoute[l], canceled |-> FALSE]]
  BY DEF Ask, tables
<1>2. BaseInv /\ Orderly(p) /\ Orderly(q) /\ MessageTypes /\ PeerTypes
  BY DEF Inv, BaseInv, TypeOK
<1>3. rq \in Messages /\ rq.kind = "request" /\ rq.id = q /\ rq.ingress = l
  BY RouterAssumption DEF Message, Messages, Numbers
<1>4. asked'[q].by = l /\ \A r \in Requests : r # q => asked'[r] = asked[r]
  BY <1>1, <1>2 DEF PeerTypes
<1> HIDE DEF rq
<1>5. CASE p # q
  <2>1. SamePeers(p)
    BY <1>1, <1>2, <1>4, <1>5, KnownBefore DEF SamePeers
  <2>2. SameInput(p) /\ \A k \in Links : Loses(p, k)
    BY <1>1, <1>2, <1>3, <1>5, AdmittedSame
  <2> QED BY <1>1, <1>2, <2>1, <2>2, ServerSame, Unconcerned
<1>6. CASE p = q
  <2>1. /\ answering[q].by = NoLink /\ ~answering[q].trusted
        /\ ~UnderWay(q) /\ ~Registering(q) /\ NoneSent(q)
    BY <1>1, UnaskedIs
  <2>2. CASE ToServer(rq) /\ UNCHANGED queues
    <3>1. Asks(q, rq) /\ ~Answers(q, rq) /\ inputCh' = Append(inputCh, rq)
      BY <1>3, <2>2 DEF Asks, Answers, ToServer
    <3>2. /\ HasRequest(q, inputCh)'
          /\ OneRequest(q, inputCh) /\ ~HasRequest(q, inputCh) => OneRequest(q, inputCh)'
          /\ Answered(q, inputCh)' = Answered(q, inputCh)
      BY <1>2, <1>3, <3>1, InputGrows
    <3>3. \A k \in Links : SameQueue(q, k)
      <4>1. \A k \in Links : Queue(k)' = Queue(k)
        BY <2>2 DEF Queue, queues
      <4> QED BY <1>2, <4>1, QueueSame
    <3>4. SameServer(q)
      BY <1>1, ServerSame
    <3>5. ~Queued(q)' /\ ~Sending(q)'
      BY <2>1, <3>3, <3>4 DEF UnderWay, Queued, SameQueue, SameServer
    <3>6. RequestOnce(q)'
      BY <1>2, <2>1, <3>2, <3>3, <3>5 DEF Orderly, RequestOnce, UnderWay, SameQueue
    <3>7. NoneSent(q)'
      BY <1>1, <2>1, <3>3, <3>4 DEF NoneSent, SameQueue, SameServer
    <3>8. FirstAsked(q)'
      BY <1>1, <1>2, <1>4, <2>1, <3>2, <3>4, <3>7, RouterAssumption
      DEF Orderly, FirstAsked, SameServer
    <3> QED BY <1>1, <1>6, <2>1, <3>5, <3>6, <3>8 DEF Orderly
  <2>3. CASE SendRpcMessageToLink(rq.ingress, Message("response", rq.id, Failed, NoLink))
             /\ UNCHANGED inputCh
    <3>1. asked'[q].by # NoLink
      BY <1>4, RouterAssumption
    <3>2. ~HeardOf(q)
      BY <2>1 DEF HeardOf
    <3> QED BY <1>1, <1>2, <1>3, <1>6, <2>3, <3>1, <3>2, RefusedKeepsOrder
  <2> QED BY <1>1, <2>2, <2>3 DEF Admitted
<1> QED BY <1>5, <1>6

LEMMA CancelKeepsOrder ==
  ASSUME Inv, NEW q \in Requests, Cancel(q), NEW p \in Requests
  PROVE  Orderly(p)'
<1> DEFINE m == Message("cancel", q, 0, asked[q].by)
<1>1. /\ UNCHANGED <<linkMap, rpcMap, server, answering, got>>
      /\ asked' = [asked EXCEPT ![q].canceled = TRUE]
      /\ Known(asked[q].by) /\ Admitted(m)
  BY DEF Cancel, tables
<1>2. BaseInv /\ Orderly(p) /\ MessageTypes /\ PeerTypes
  BY DEF Inv, BaseInv, TypeOK
<1>3. /\ m \in Messages /\ m.kind = "cancel" /\ m.id = q
      /\ m.ingress = asked[q].by /\ m.ingress \in Links
  BY <1>1, <1>2, RouterAssumption DEF Message, Messages, Numbers, PeerTypes, Known
<1> HIDE DEF m
<1>4. asked'[p].by = asked[p].by
  BY <1>1, <1>2 DEF PeerTypes
<1>5. SamePeers(p)
  BY <1>1, <1>2, <1>4, KnownBefore DEF SamePeers
<1>6. CASE p # q
  <2>1. SameInput(p) /\ \A k \in Links : Loses(p, k)
    BY <1>1, <1>2, <1>3, <1>6, AdmittedSame
  <2> QED BY <1>1, <1>2, <1>5, <2>1, ServerSame, Unconcerned
<1>7. CASE ToServer(m) /\ UNCHANGED queues
  <2>1. ~Asks(p, m) /\ ~Answers(p, m)
    BY <1>3 DEF Asks, Answers
  <2>2. SameInput(p) /\ \A k \in Links : Loses(p, k)
    BY <1>2, <1>3, <1>7, <2>1, InputSame, QueuesSame DEF queues
  <2> QED BY <1>1, <1>2, <1>5, <2>2, ServerSame, Unconcerned
<1>8. CASE /\ p = q /\ linkMap[m.ingress] = "untrusted" /\ UNCHANGED inputCh
           /\ SendRpcMessageToLink(m.ingress, Message("response", m.id, Failed, NoLink))
  <2>1. ~HeardOf(q)
    BY <1>3, <1>8 DEF Inv, LeavesHeard, AskedByLeaf
  <2>2. asked'[q].by # NoLink
    BY <1>1, <1>4, <1>8 DEF Known
  <2> QED BY <1>1, <1>2, <1>3, <1>8, <2>1, <2>2, RefusedKeepsOrder
<1> QED BY <1>1, <1>6, <1>7, <1>8 DEF Admitted

(* Once a response to q is somewhere, its request is nowhere.              *)
LEMMA AnsweredIs ==
  ASSUME NEW q, FirstAsked(q),
         answering[q].by # NoLink \/ Answered(q, inputCh) # {} \/ Unregistering(q) \/ Final \in InHand(q)
  PROVE  ~UnderWay(q) /\ asked[q].by # NoLink /\ answering[q].by # NoLink
  BY DEF FirstAsked

LEMMA RespondKeepsOrder ==
  ASSUME Inv, NEW q \in Requests, NEW n \in 0 .. MaxResponses, Respond(q, n), NEW p \in Requests
  PROVE  Orderly(p)'
<1> DEFINE m == Message("response", q, n, answering[q].by)
<1>1. /\ UNCHANGED <<linkMap, rpcMap, server, clientCh, linkMsgBacklog, asked, got>>
      /\ Known(answering[q].by)
      /\ IF Passes(answering[q].by, q) THEN ToServer(m) ELSE inputCh' = inputCh
  BY DEF Respond, tables, queues
<1>2. BaseInv /\ Orderly(p) /\ Orderly(q) /\ MessageTypes /\ PeerTypes
  BY DEF Inv, BaseInv, TypeOK
<1>3. m \in Messages /\ m.kind = "response" /\ m.id = q /\ m.n = n
  BY <1>2, RouterAssumption DEF Message, Messages, Numbers, PeerTypes
<1>4. ~Asks(p, m) /\ (Answers(p, m) <=> p = q)
  BY <1>3 DEF Asks, Answers
<1> HIDE DEF m
<1>5. /\ answering'[q].by = answering[q].by /\ answering'[q].trusted = answering[q].trusted
      /\ \A r \in Requests : r # q => answering'[r] = answering[r]
      /\ answering[q].last \in Nat /\ answering[q].finals \in 0 .. 2
      /\ \/ /\ n = answering[q].last + 1 /\ answering[q].finals = 0
            /\ answering'[q].last = n /\ answering'[q].finals = 0
         \/ /\ n = Final /\ answering'[q].last = answering[q].last
            /\ answering'[q].finals = answering[q].finals + 1
  <2>1. CASE /\ n = answering[q].last + 1 /\ answering[q].finals = 0
             /\ answering' = [answering EXCEPT ![q].last = n]
    BY <1>2, <2>1, RouterAssumption DEF PeerTypes
  <2>2. CASE /\ n = Final
             /\ answering' = [answering EXCEPT ![q].finals = @ + 1]
    BY <1>2, <2>2, RouterAssumption DEF PeerTypes
  <2> QED BY <2>1, <2>2 DEF Respond
<1>6. CASE p # q
  <2>1. SamePeers(p)
    BY <1>1, <1>2, <1>5, <1>6, KnownBefore DEF SamePeers
  <2>2. SameInput(p)
    BY <1>1, <1>2, <1>3, <1>4, <1>6, InputSame
  <2> QED BY <1>1, <1>2, <2>1, <2>2, ServerSame, QueuesSame, Unconcerned
<1>7. CASE p = q
  <2>1. ~UnderWay(q) /\ asked[q].by # NoLink /\ answering[q].by # NoLink
    BY <1>1, <1>2, AnsweredIs DEF Orderly, Known
  <2>2. SameServer(q)
    BY <1>1, ServerSame
  <2>3. \A l \in Links : SameQueue(q, l)
    <3>1. \A l \in Links : Queue(l)' = Queue(l)
      BY <1>1 DEF Queue
    <3> QED BY <1>2, <3>1, QueueSame
  <2>4. /\ HasRequest(q, inputCh)' <=> HasRequest(q, inputCh)
        /\ OneRequest(q, inputCh) => OneRequest(q, inputCh)'
    <3>1. CASE inputCh' = inputCh
      BY <1>2, <3>1, InputSame DEF SameInput
    <3>2. CASE ToServer(m)
      <4>1. inputCh' = Append(inputCh, m)
        BY <3>2 DEF ToServer
      <4> QED BY <1>2, <1>3, <1>4, <1>7, <4>1, InputGrows
    <3> QED BY <1>1, <3>1, <3>2
  <2>5. ~Queued(q)' /\ ~Sending(q)' /\ ~HasRequest(q, inputCh)'
    BY <2>1, <2>2, <2>3, <2>4 DEF UnderWay, Queued, SameServer, SameQueue
  <2>6. RequestOnce(q)'
    BY <1>2, <2>3, <2>4, <2>5 DEF Orderly, RequestOnce, Queued, SameQueue
  <2>7. NoneSent(q) => NoneSent(q)'
    BY <1>1, <2>2, <2>3 DEF NoneSent, SameServer, SameQueue
  <2>8. FirstAsked(q)'
    <3>1. ~UnderWay(q)'
      BY <2>5 DEF UnderWay
    <3> QED BY <1>1, <1>2, <1>5, <2>1, <2>2, <2>7, <3>1 DEF Orderly, FirstAsked, SameServer
  <2>9. ASSUME Known(asked[q].by)', answering'[q].trusted
        PROVE  Line(q)'
    <3> DEFINE last == answering[q].last
               finals == answering[q].finals
               W == Waiting(q)
               H == InHand(q)
               A == Answered(q, inputCh)
               g == got[q]
    <3>1. Line(q)
      BY <1>1, <1>2, <1>5, <2>9 DEF Orderly, Known
    <3>2. inputCh' = Append(inputCh, m)
      <4>1. linkMap[answering[q].by] = "leaf"
        BY <1>1, <1>2, <1>5, <2>9 DEF BaseInv, PeersSeen, Known
      <4> QED BY <1>1, <4>1 DEF Passes, ToServer
    <3>3. PICK l \in Links : l = asked[q].by
      BY <1>2, <2>1 DEF PeerTypes
    <3>4. W' = W /\ H' = H /\ g' = g /\ (Rises(q, Queue(asked[q].by)) => Rises(q, Queue(asked[q].by))')
      BY <1>1, <2>2, <2>3, <3>3 DEF Waiting, SameServer, SameQueue, Queue
    <3>5. /\ A' = A \union {n}
          /\ RisesInput(q, inputCh) /\ (\A k \in A : n = Final \/ Before(k, n)) => RisesInput(q, inputCh)'
      BY <1>2, <1>3, <1>4, <1>7, <3>2, InputGrows
    <3>6. /\ Len(g) \in Nat /\ last \in Nat /\ finals \in Nat /\ DOMAIN g = 1 .. Len(g)
          /\ \A i \in DOMAIN g : g[i] \in Int
      BY <1>2, <1>5, ElementOfSeq, LenProperties, RouterAssumption DEF PeerTypes, Numbers, Failed
    <3>7. \A k \in W \union H \union A :
            k \in 0 .. last /\ (k = Final => finals > 0) /\ (k = Final \/ k > Len(g))
      BY <3>1 DEF Line, InNumbers
    <3>20. Len(g) <= last + 1 /\ (Len(g) = last + 1 => finals > 0 /\ Final \notin W \union H)
      BY <3>1 DEF Line, InNumbers
    <3>8. \A k \in Len(g) + 1 .. last : k \in W \union H \union A
      BY <3>1 DEF Line, NothingMissing
    <3>9. /\ Rises(q, Queue(asked[q].by)) /\ RisesInput(q, inputCh)
          /\ \A a \in W, b \in H : Before(a, b)
          /\ \A a \in W \union H, b \in A : b = Final \/ Before(a, b)
      BY <3>1 DEF Line, InLine
    <3>10. \A i \in DOMAIN g : g[i] <= last /\ (IF g[i] = Final THEN last + 1 ELSE g[i]) = i
      BY <3>1 DEF Line, ReadInOrder, Place
    <3>11. Ended(q) <=> Final \in W \union H \/ Len(g) = last + 1
      BY DEF Ended
    <3>12. Ended(q)' <=> Final \in W' \union H' \/ Len(g') = last' + 1
      BY DEF Ended
    <3>13. ReadInOrder(q)' <=>
             \A i \in DOMAIN g' : /\ g'[i] <= last'
                                  /\ (IF g'[i] = Final THEN last' + 1 ELSE g'[i]) = i
      BY DEF ReadInOrder, Place
    <3>14. InNumbers(q)' <=>
             /\ \A k \in W' \union H' \union A' :
                  /\ k \in 0 .. last'
                  /\ k = Final => finals' > 0
                  /\ k = Final \/ k > Len(g')
             /\ Len(g') <= last' + 1
             /\ Len(g') = last' + 1 => finals' > 0 /\ Final \notin W' \union H'
      BY DEF InNumbers
    <3>15. NothingMissing(q)' <=>
             \A k \in Len(g') + 1 .. last' : k \in W' \union H' \union A'
      BY DEF NothingMissing
    <3>16. /\ Rises(q, Queue(asked[q].by))' /\ RisesInput(q, inputCh)'
           /\ \A a \in W', b \in H' : Before(a, b)
           /\ \A a \in W' \union H', b \in A' : b = Final \/ Before(a, b)
           => InLine(q)'
      BY DEF InLine
    <3> HIDE DEF W, H, A, g, last, finals
    <3>19. \A k \in W' \union H' \union A' : k \in W \union H \union A \/ k = n
      BY <3>4, <3>5
    <3>17. CASE /\ n = last + 1 /\ finals = 0
                /\ last' = n /\ finals' = 0
      <4>1. Len(g) <= last /\ Final \notin W \union H \union A
        <5>1. Len(g) # last + 1
          BY <3>17, <3>20
        <5>2. Len(g) <= last
          <6>1. Len(g) \in Nat /\ last \in Nat /\ Len(g) <= last + 1
            BY <3>6, <3>20
          <6> QED BY <5>1, <6>1
        <5>3. Final \notin W \union H \union A
          <6> SUFFICES ASSUME Final \in W \union H \union A PROVE FALSE
            OBVIOUS
          <6>1. finals > 0
            BY <3>7
          <6> QED BY <3>17, <6>1
        <5> QED BY <5>2, <5>3
      <4>2. \A k \in W \union H \union A : Before(k, n)
        BY <3>6, <3>7, <3>17, <4>1 DEF Before, Final
      <4>3. ReadInOrder(q)'
        BY <3>4, <3>6, <3>10, <3>13, <3>17, <4>1
      <4>4. InNumbers(q)'
        <5>1. \A k \in W' \union H' \union A' :
                k \in 0 .. n /\ k # Final /\ k > Len(g)
          BY <3>4, <3>6, <3>7, <3>17, <3>19, <4>1 DEF Final
        <5>2. Len(g') <= n /\ Len(g') # n + 1
          BY <3>4, <3>6, <3>17, <4>1
        <5> QED BY <3>4, <3>14, <3>17, <5>1, <5>2 DEF Final
      <4>5. NothingMissing(q)'
        BY <3>4, <3>5, <3>6, <3>8, <3>15, <3>17, <4>1
      <4>6. InLine(q)'
        BY <3>4, <3>5, <3>9, <3>16, <4>2
      <4>7. Ended(q)' <=> Ended(q)
        BY <3>4, <3>6, <3>11, <3>12, <3>17, <4>1
      <4>8. RoutedBack(q)'
        BY <1>1, <2>2, <3>1, <4>7 DEF Line, RoutedBack, SameServer
      <4> QED BY <4>3, <4>4, <4>5, <4>6, <4>8 DEF Line
    <3>18. CASE /\ n = Final /\ last' = last /\ finals' = finals + 1
      <4>1. ReadInOrder(q)'
        BY <3>4, <3>10, <3>13, <3>18
      <4>2. InNumbers(q)'
        <5>1. \A k \in W' \union H' \union A' :
                k \in 0 .. last /\ finals + 1 > 0 /\ (k = Final \/ k > Len(g))
          BY <3>6, <3>7, <3>18, <3>19 DEF Final
        <5>2. /\ Len(g') <= last + 1 /\ finals' > 0
              /\ Len(g') = last + 1 => Final \notin W' \union H'
          <6>1. finals' > 0
            BY <3>6, <3>18
          <6>2. Len(g') = last + 1 => Final \notin W' \union H'
            BY <3>4, <3>20
          <6> QED BY <3>4, <3>20, <6>1, <6>2
        <5> QED BY <3>4, <3>14, <3>18, <5>1, <5>2 DEF Final
      <4>3. NothingMissing(q)'
        BY <3>4, <3>5, <3>8, <3>15, <3>18
      <4>4. InLine(q)'
        BY <3>4, <3>5, <3>9, <3>16, <3>18
      <4>5. Ended(q)' <=> Ended(q)
        BY <3>4, <3>11, <3>12, <3>18
      <4>6. RoutedBack(q)'
        BY <1>1, <2>2, <3>1, <4>5 DEF Line, RoutedBack, SameServer
      <4> QED BY <4>1, <4>2, <4>3, <4>4, <4>6 DEF Line
    <3> QED BY <1>5, <3>17, <3>18 DEF last, finals
  <2> QED BY <1>7, <2>5, <2>6, <2>8, <2>9 DEF Orderly
<1> QED BY <1>6, <1>7

(* Whoever reads the first of what waits for him reads the next in order:  *)
(* L is what he has read, n what he reads, V what waits behind it.         *)
Numbered(L, last, finals, S) ==
  \A k \in S : k \in 0 .. last /\ (k = Final => finals > 0) /\ (k = Final \/ k > L)
BeforeRead(L, last, finals, V, H, A, n) ==
  /\ L <= last + 1 /\ (L = last + 1 => Final \notin V \union {n} \union H)
  /\ Numbered(L, last, finals, V \union {n} \union H \union A)
  /\ \A k \in L + 1 .. last : k \in V \union {n} \union H \union A
  /\ \A k \in V \union H : Before(n, k)
  /\ \A k \in A : k = Final \/ Before(n, k)
AfterRead(L, last, finals, V, H, A, n) ==
  /\ L <= last /\ n <= last /\ (IF n = Final THEN last + 1 ELSE n) = L + 1
  /\ n # Final => L + 1 <= last
  /\ L = last => finals > 0 /\ Final \notin V \union H
  /\ Numbered(L + 1, last, finals, V \union H \union A)
  /\ \A k \in L + 2 .. last : k \in V \union H \union A

LEMMA NextRead ==
  ASSUME NEW L \in Nat, NEW last \in Nat, NEW finals \in Nat, NEW V, NEW H, NEW A, NEW n,
         BeforeRead(L, last, finals, V, H, A, n)
  PROVE  AfterRead(L, last, finals, V, H, A, n)
<1> USE DEF BeforeRead, AfterRead, Numbered
<1>1. n \in 0 .. last /\ (n = Final => finals > 0) /\ (n = Final \/ n > L)
  OBVIOUS
<1>2. L # last + 1
  BY <1>1 DEF Final
<1>3. L <= last
  BY <1>2
<1>4. CASE n = Final
  <2>1. V \union H = {}
    BY <1>4 DEF Before
  <2>2. \A k \in A : k = Final
    BY <1>4 DEF Before
  <2>3. L = last
    <3> SUFFICES ASSUME L + 1 <= last PROVE FALSE
      BY <1>3
    <3>1. L + 1 \in V \union {n} \union H \union A
      OBVIOUS
    <3>2. L + 1 = Final
      BY <1>4, <2>1, <2>2, <3>1
    <3> QED BY <3>2 DEF Final
  <2>4. \A k \in V \union H \union A : k \in 0 .. last /\ (k = Final => finals > 0) /\ k = Final
    BY <2>1, <2>2
  <2> QED BY <1>1, <1>4, <2>1, <2>3, <2>4 DEF Final
<1>5. CASE n # Final
  <2>1. n > L /\ n <= last
    BY <1>1, <1>5
  <2>2. n = L + 1
    <3> SUFFICES ASSUME n # L + 1 PROVE FALSE
      OBVIOUS
    <3>1. L + 1 < n /\ L + 1 \in L + 1 .. last
      BY <1>1, <2>1
    <3>2. L + 1 \in V \union H \union A /\ L + 1 # Final
      BY <3>1 DEF Final
    <3>3. Before(n, L + 1)
      BY <3>2
    <3> QED BY <1>1, <3>1, <3>2, <3>3 DEF Before
  <2>3. \A k \in V \union H \union A :
          k \in 0 .. last /\ (k = Final => finals > 0) /\ (k = Final \/ k > L + 1)
    BY <1>1, <2>2 DEF Before
  <2>4. \A k \in L + 2 .. last : k \in V \union H \union A
    BY <2>2
  <2> QED BY <1>3, <1>5, <2>1, <2>2, <2>3, <2>4
<1> QED BY <1>4, <1>5

(* The one who asked reads a response.                                     *)
LEMMA ReaderKeepsLine ==
  ASSUME Inv, NEW l \in Links, NEW q \in Requests, NEW m \in Messages,
         Queue(l) # <<>>, m = Head(Queue(l)), Queue(l)' = Tail(Queue(l)), Answers(q, m),
         asked[q].by = l, got' = [got EXCEPT ![q] = Append(@, m.n)],
         UNCHANGED <<linkMap, rpcMap, inputCh, server, asked, answering>>,
         Line(q)
  PROVE  Line(q)'
<1> DEFINE last == answering[q].last
           finals == answering[q].finals
           V == Answered(q, Queue(l))'
           H == InHand(q)
           A == Answered(q, inputCh)
           g == got[q]
           L == Len(got[q])
<1>1. MessageTypes /\ PeerTypes
  BY DEF Inv, BaseInv, TypeOK
<1>2. /\ Waiting(q) = V \union {m.n}
      /\ Rises(q, Queue(l)) => Rises(q, Queue(l))' /\ \A n \in V : Before(m.n, n)
  BY <1>1, QueueShrinks DEF Waiting
<1>3. SameServer(q) /\ SameInput(q)
  BY <1>1, ServerSame, InputSame
<1>4. Waiting(q)' = V /\ InHand(q)' = H /\ Answered(q, inputCh)' = A
  BY <1>3 DEF Waiting, SameServer, SameInput, Queue
<1>5. L \in Nat /\ last \in Nat /\ finals \in Nat /\ DOMAIN g = 1 .. L
  <2>1. g \in Seq(Numbers)
    BY <1>1 DEF PeerTypes
  <2>2. last \in 0 .. MaxResponses /\ finals \in 0 .. 2
    BY <1>1 DEF PeerTypes
  <2> QED BY <2>1, <2>2, LenProperties, RouterAssumption
<1>6. /\ Len(got'[q]) = L + 1 /\ DOMAIN got'[q] = 1 .. L + 1
      /\ \A i \in 1 .. L : got'[q][i] = g[i]
      /\ got'[q][L + 1] = m.n
  <2>1. g \in Seq(Numbers) /\ m.n \in Numbers /\ got'[q] = Append(g, m.n)
    BY <1>1 DEF PeerTypes, Messages
  <2> QED BY <2>1, AppendIs
<1>7. /\ L <= last + 1
      /\ L = last + 1 => Final \notin V \union {m.n} \union H
      /\ \A k \in V \union {m.n} \union H \union A :
           k \in 0 .. last /\ (k = Final => finals > 0) /\ (k = Final \/ k > L)
  BY <1>2 DEF Line, InNumbers
<1>8. \A k \in L + 1 .. last : k \in V \union {m.n} \union H \union A
  BY <1>2 DEF Line, NothingMissing
<1>9. /\ Rises(q, Queue(l)) /\ RisesInput(q, inputCh)
      /\ \A a \in V \union {m.n}, b \in H : Before(a, b)
      /\ \A a \in V \union {m.n} \union H, b \in A : b = Final \/ Before(a, b)
  BY <1>2 DEF Line, InLine
<1>10. /\ \A k \in V \union H : Before(m.n, k)
       /\ \A k \in A : k = Final \/ Before(m.n, k)
  BY <1>2, <1>9
<1>11. \A i \in DOMAIN g : g[i] <= last /\ (IF g[i] = Final THEN last + 1 ELSE g[i]) = i
  BY DEF Line, ReadInOrder, Place
<1>12. Ended(q) <=> Final \in V \union {m.n} \union H \/ L = last + 1
  BY <1>2 DEF Ended
<1>13. Ended(q)' <=> Final \in V \union H \/ Len(got'[q]) = last + 1
  BY <1>4 DEF Ended
<1>14. ReadInOrder(q)' <=>
         \A i \in DOMAIN got'[q] :
           got'[q][i] <= last /\ (IF got'[q][i] = Final THEN last + 1 ELSE got'[q][i]) = i
  BY DEF ReadInOrder, Place
<1>15. InNumbers(q)' <=>
         /\ Len(got'[q]) <= last + 1
         /\ \A k \in V \union H \union A :
              /\ k \in 0 .. last
              /\ k = Final => finals > 0
              /\ k = Final \/ k > Len(got'[q])
         /\ Len(got'[q]) = last + 1 => finals > 0 /\ Final \notin V \union H
  BY <1>4 DEF InNumbers
<1>16. NothingMissing(q)' <=> \A k \in Len(got'[q]) + 1 .. last : k \in V \union H \union A
  BY <1>4 DEF NothingMissing
<1>17. InLine(q)'
  <2>1. Rises(q, Queue(asked[q].by))'
    BY <1>2, <1>9 DEF Queue
  <2>2. RisesInput(q, inputCh)'
    BY <1>3, <1>9 DEF SameInput
  <2> QED BY <1>4, <1>9, <2>1, <2>2 DEF InLine
<1> HIDE DEF last, finals, V, H, A, g, L
<1>18. /\ L <= last /\ m.n <= last /\ (IF m.n = Final THEN last + 1 ELSE m.n) = L + 1
       /\ m.n # Final => L + 1 <= last
       /\ L = last => finals > 0 /\ Final \notin V \union H
       /\ \A k \in V \union H \union A :
            k \in 0 .. last /\ (k = Final => finals > 0) /\ (k = Final \/ k > L + 1)
       /\ \A k \in L + 2 .. last : k \in V \union H \union A
  <2>1. BeforeRead(L, last, finals, V, H, A, m.n)
    BY <1>7, <1>8, <1>10 DEF BeforeRead, Numbered
  <2>2. AfterRead(L, last, finals, V, H, A, m.n)
    BY <1>5, <2>1, NextRead
  <2> QED BY <2>2 DEF AfterRead, Numbered
<1>19. ReadInOrder(q)'
  <2> SUFFICES ASSUME NEW i \in 1 .. L + 1
               PROVE  /\ got'[q][i] <= last
                      /\ (IF got'[q][i] = Final THEN last + 1 ELSE got'[q][i]) = i
    BY <1>6, <1>14
  <2>1. CASE i = L + 1
    BY <1>6, <1>18, <2>1
  <2>2. CASE i \in 1 .. L
    BY <1>5, <1>6, <1>11, <2>2
  <2>3. i = L + 1 \/ i \in 1 .. L
    BY <1>5
  <2> QED BY <2>1, <2>2, <2>3
<1>20. InNumbers(q)'
  <2>1. L + 1 <= last + 1 /\ (L + 1 = last + 1 => L = last)
    BY <1>5, <1>18
  <2>2. \A k \in V \union H \union A :
          k \in 0 .. last /\ (k = Final => finals > 0) /\ (k = Final \/ k > Len(got'[q]))
    BY <1>6, <1>18
  <2> QED BY <1>6, <1>15, <1>18, <2>1, <2>2
<1>21. NothingMissing(q)'
  <2>1. L + 1 + 1 = L + 2
    BY <1>5
  <2> QED BY <1>6, <1>16, <1>18, <2>1
<1>22. RoutedBack(q)'
  <2>1. Ended(q)' <=> Ended(q)
    <3>1. CASE m.n = Final
      <4>1. L + 1 = last + 1
        BY <1>18, <3>1
      <4> QED BY <1>6, <1>12, <1>13, <3>1, <4>1
    <3>2. CASE m.n # Final
      <4>1. L + 1 <= last /\ L + 1 # last + 1 /\ L # last + 1
        BY <1>5, <1>18, <3>2
      <4> QED BY <1>6, <1>12, <1>13, <3>2, <4>1
    <3> QED BY <3>1, <3>2
  <2> QED BY <1>3, <2>1 DEF Line, RoutedBack, SameServer
<1> QED BY <1>17, <1>19, <1>20, <1>21, <1>22 DEF Line

(* Somebody reads the request and answers it from now on.                  *)
LEMMA ReadsRequest ==
  ASSUME Inv, NEW l \in Links, NEW q \in Requests, NEW m \in Messages,
         Queue(l) # <<>>, m = Head(Queue(l)),
         \A k \in Links : Queue(k)' = IF k = l THEN Tail(Queue(l)) ELSE Queue(k),
         Asks(q, m), got' = got,
         answering'[q].by = l, answering'[q].last = 0,
         UNCHANGED <<linkMap, rpcMap, inputCh, server, asked>>
  PROVE  Orderly(q)'
<1>1. MessageTypes /\ PeerTypes /\ Orderly(q) /\ ~Answers(q, m)
  BY DEF Inv, BaseInv, TypeOK, Asks, Answers
<1>2. SameServer(q) /\ SameInput(q)
  BY <1>1, ServerSame, InputSame
<1>3. /\ HasRequest(q, Queue(l)) /\ ~HasRequest(q, Queue(l))'
      /\ OneRequest(q, Queue(l))'
      /\ Answered(q, Queue(l))' = Answered(q, Queue(l))
  BY <1>1, QueueShrinks DEF Orderly, RequestOnce
<1>4. \A k \in Links : k # l => SameQueue(q, k) /\ ~HasRequest(q, Queue(k))
  BY <1>1, <1>3, QueueSame DEF Orderly, RequestOnce
<1>5. Queued(q) /\ UnderWay(q) /\ ~Sending(q) /\ ~HasRequest(q, inputCh)
  BY <1>1, <1>3 DEF Queued, UnderWay, Orderly, RequestOnce
<1>6. /\ asked[q].by # NoLink /\ NoneSent(q) /\ ~Unregistering(q)
      /\ Answered(q, inputCh) = {}
      /\ Registering(q) \/ rpcMap[q].source = asked[q].by
  BY <1>1, <1>5 DEF Orderly, FirstAsked
<1>7. ~Queued(q)' /\ ~UnderWay(q)'
  BY <1>2, <1>3, <1>4, <1>5 DEF Queued, UnderWay, SameServer, SameInput, SameQueue
<1>8. RequestOnce(q)'
  BY <1>1, <1>2, <1>3, <1>4, <1>7 DEF Orderly, RequestOnce, SameInput, SameQueue, Queued, UnderWay
<1>9. NoneSent(q)'
  BY <1>2, <1>3, <1>4, <1>6 DEF NoneSent, SameServer, SameQueue
<1>10. FirstAsked(q)'
  BY <1>6, <1>7, <1>9, RouterAssumption DEF FirstAsked
<1>11. ASSUME Known(asked[q].by)'
       PROVE  Line(q)'
  <2>1. PICK k \in Links : k = asked[q].by
    BY <1>1, <1>6 DEF PeerTypes
  <2>2. asked'[q].by = k /\ Answered(q, Queue(k))' = {}
    BY <1>9, <2>1 DEF NoneSent
  <2>3. Waiting(q)' = {} /\ InHand(q)' = {} /\ Answered(q, inputCh)' = {} /\ got'[q] = <<>>
    BY <1>2, <1>6, <1>9, <2>2 DEF Waiting, NoneSent, SameInput, Queue
  <2>4. Len(got'[q]) = 0 /\ DOMAIN got'[q] = {}
    BY <2>3, EmptySeq
  <2>5. ReadInOrder(q)'
    BY <2>4 DEF ReadInOrder
  <2>6. InNumbers(q)'
    BY <2>3, <2>4 DEF InNumbers
  <2>7. NothingMissing(q)'
    BY <2>3, <2>4 DEF NothingMissing
  <2>8. InLine(q)'
    <3>1. Rises(q, Queue(k))' /\ RisesInput(q, inputCh)'
      <4>1. Rises(q, Queue(k))'
        BY <2>2 DEF Answered, Rises
      <4>2. RisesInput(q, inputCh)'
        BY <2>3 DEF Answered, RisesInput
      <4> QED BY <4>1, <4>2
    <3> QED BY <2>2, <2>3, <3>1 DEF InLine, Queue
  <2>9. RoutedBack(q)'
    <3>1. ~Ended(q)'
      BY <2>3, <2>4 DEF Ended
    <3> QED BY <1>2, <1>6, <2>3, <3>1 DEF RoutedBack, SameServer
  <2> QED BY <2>5, <2>6, <2>7, <2>8, <2>9 DEF Line
<1> QED BY <1>7, <1>8, <1>10, <1>11 DEF Orderly

LEMMA ReadKeepsOrder ==
  ASSUME Inv, NEW l \in Links, Read(l), NEW p \in Requests
  PROVE  Orderly(p)'
<1>1. PICK m : m = Head(clientCh[l])
  OBVIOUS
<1>2. /\ UNCHANGED <<linkMap, rpcMap, inputCh, server, asked>>
      /\ clientCh[l] # <<>> /\ clientCh' = [clientCh EXCEPT ![l] = Tail(@)]
      /\ linkMsgBacklog' = linkMsgBacklog
  BY DEF Read, tables
<1>3. BaseInv /\ Orderly(p) /\ MessageTypes /\ PeerTypes
  BY DEF Inv, BaseInv, TypeOK
<1>4. /\ m \in Messages /\ Queue(l) # <<>> /\ m = Head(Queue(l))
      /\ \A k \in Links : Queue(k)' = IF k = l THEN Tail(Queue(l)) ELSE Queue(k)
  BY <1>1, <1>2, <1>3, ReadIs
<1>5. m.id \in Requests /\ m.kind \in {"request", "response", "cancel"}
  BY <1>4 DEF Messages
<1>6. SameServer(p) /\ SameInput(p)
  BY <1>2, <1>3, ServerSame, InputSame
<1>7. \/ /\ m.kind = "request" /\ got' = got
         /\ answering' = [answering EXCEPT ![m.id] =
              [by |-> l, trusted |-> linkMap[l] = "leaf", last |-> 0, finals |-> 0]]
      \/ /\ m.kind = "response" /\ asked[m.id].by = l
         /\ got' = [got EXCEPT ![m.id] = Append(@, m.n)] /\ answering' = answering
      \/ m.kind = "cancel" /\ UNCHANGED <<answering, got>>
      \/ m.kind = "response" /\ asked[m.id].by # l /\ UNCHANGED <<answering, got>>
  BY <1>1 DEF Read
<1>8. CASE m.id # p \/ m.kind = "cancel"
  <2>1. SamePeers(p)
    <3>1. answering'[p] = answering[p] /\ got'[p] = got[p]
      BY <1>3, <1>5, <1>7, <1>8 DEF PeerTypes
    <3> QED BY <1>2, <1>3, <3>1, KnownBefore DEF SamePeers
  <2>2. ~Asks(p, m) /\ ~Answers(p, m)
    BY <1>8 DEF Asks, Answers
  <2>3. \A k \in Links : Loses(p, k)
    BY <1>3, <1>4, <2>2, QueueSame, LosesNone
  <2> QED BY <1>3, <1>6, <2>1, <2>3, Unconcerned
<1>9. CASE m.id = p /\ m.kind = "request"
  <2>1. answering'[p].by = l /\ answering'[p].last = 0 /\ got' = got
    BY <1>3, <1>5, <1>7, <1>9 DEF PeerTypes
  <2>2. Asks(p, m)
    BY <1>9 DEF Asks
  <2> QED BY <1>2, <1>4, <2>1, <2>2, ReadsRequest
<1>10. CASE m.id = p /\ m.kind = "response"
  <2>1. ~Asks(p, m) /\ Answers(p, m)
    BY <1>10 DEF Asks, Answers
  <2>2. /\ HasRequest(p, Queue(l))' <=> HasRequest(p, Queue(l))
        /\ OneRequest(p, Queue(l)) => OneRequest(p, Queue(l))'
        /\ Answered(p, Queue(l)) = Answered(p, Queue(l))' \union {m.n}
    <3>1. Queue(l)' = Tail(Queue(l))
      BY <1>4
    <3> QED BY <1>3, <1>4, <2>1, <3>1, QueueShrinks
  <2>3. \A k \in Links : k # l => SameQueue(p, k)
    BY <1>3, <1>4, QueueSame
  <2>4. CASE asked[p].by # l
    <3>1. UNCHANGED <<answering, got>>
      BY <1>7, <1>10, <2>4
    <3>2. SamePeers(p)
      BY <1>2, <1>3, <3>1, KnownBefore DEF SamePeers
    <3>3. \A k \in Links : Loses(p, k)
      <4>1. Loses(p, l)
        BY <2>2, <2>4 DEF Loses
      <4> QED BY <2>3, <4>1, LosesNone
    <3> QED BY <1>3, <1>6, <3>2, <3>3, Unconcerned
  <2>5. CASE asked[p].by = l
    <3>1. got' = [got EXCEPT ![p] = Append(@, m.n)] /\ answering' = answering
      BY <1>7, <1>10, <2>5
    <3>2. ~NoneSent(p)
      BY <2>2 DEF NoneSent
    <3>3. ~UnderWay(p) /\ asked[p].by # NoLink /\ ~Registering(p)
      BY <1>3, <3>2 DEF Orderly, FirstAsked
    <3>4. \A k \in Links : /\ HasRequest(p, Queue(k))' <=> HasRequest(p, Queue(k))
                           /\ OneRequest(p, Queue(k)) => OneRequest(p, Queue(k))'
      BY <2>2, <2>3 DEF SameQueue
    <3>5. ~Queued(p)' /\ ~UnderWay(p)'
      BY <1>6, <3>3, <3>4 DEF Queued, UnderWay, SameServer, SameInput
    <3>6. RequestOnce(p)'
      BY <1>3, <1>6, <3>4, <3>5 DEF Orderly, RequestOnce, SameInput, Queued, UnderWay
    <3>7. FirstAsked(p)'
      BY <1>2, <1>3, <1>6, <3>1, <3>3, <3>5 DEF Orderly, FirstAsked, SameServer, SameInput
    <3>8. ASSUME Known(asked[p].by)', answering'[p].trusted
          PROVE  Line(p)'
      <4>1. Line(p)
        BY <1>2, <1>3, <3>1, <3>8 DEF Orderly, Known
      <4>2. Queue(l)' = Tail(Queue(l))
        BY <1>4
      <4> QED BY <1>2, <1>4, <2>1, <2>5, <3>1, <4>1, <4>2, ReaderKeepsLine
    <3> QED BY <3>5, <3>6, <3>7, <3>8 DEF Orderly
  <2> QED BY <2>4, <2>5
<1> QED BY <1>5, <1>8, <1>9, <1>10

(* runServer has nothing in its hands before it takes a message, and       *)
(* nothing of any other request after that.                                *)
LEMMA HandsEmpty ==
  ASSUME NEW q, server.at = "idle"
  PROVE  ~Sending(q) /\ InHand(q) = {} /\ ~Registering(q) /\ ~Unregistering(q)
  BY DEF Sending, InHand, Registering, Unregistering

LEMMA HandsAre ==
  ASSUME NEW q, NEW msg, NEW to, msg.id = q,
         server' = [at |-> "send", msg |-> msg, to |-> to]
  PROVE  /\ Sending(q)' <=> msg.kind = "request"
         /\ InHand(q)' = IF msg.kind = "response" THEN {msg.n} ELSE {}
         /\ ~Registering(q)' /\ ~Unregistering(q)' /\ server'.to = to
  BY DEF Sending, InHand, Registering, Unregistering, Asks, Answers

LEMMA HandsOfOthers ==
  ASSUME NEW q, NEW msg, msg.id # q,
         \/ server' = Idle
         \/ server' = [Idle EXCEPT !.at = "unregister", !.msg = msg]
         \/ \E to : server' = [at |-> "send", msg |-> msg, to |-> to]
  PROVE  ~Sending(q)' /\ InHand(q)' = {} /\ ~Registering(q)' /\ ~Unregistering(q)'
<1>1. Idle.at = "idle"
  BY DEF Idle
<1>2. CASE server' = Idle
  BY <1>1, <1>2 DEF Sending, InHand, Registering, Unregistering
<1>3. CASE server' = [Idle EXCEPT !.at = "unregister", !.msg = msg]
  <2>1. server'.at = "unregister" /\ server'.msg = msg
    BY <1>3 DEF Idle
  <2> QED BY <2>1 DEF Sending, InHand, Registering, Unregistering
<1>4. CASE \E to : server' = [at |-> "send", msg |-> msg, to |-> to]
  <2>1. server'.at = "send" /\ server'.msg = msg
    BY <1>4
  <2> QED BY <2>1 DEF Sending, InHand, Registering, Unregistering, Asks, Answers
<1> QED BY <1>2, <1>3, <1>4

(* A request is taken: sent on, or answered for.                           *)
LEMMA TakesRequest ==
  ASSUME Inv, ServerTakes, NEW q \in Requests, NEW m \in Messages, m = Head(inputCh), Asks(q, m)
  PROVE  Orderly(q)'
<1>1. MessageTypes /\ PeerTypes /\ Orderly(q) /\ TypeOK /\ ~Answers(q, m) /\ m.id = q /\ m.kind = "request"
  BY DEF Inv, BaseInv, TypeOK, Asks, Answers
<1>2. /\ inputCh # <<>> /\ inputCh' = Tail(inputCh) /\ server.at = "idle"
      /\ UNCHANGED <<linkMap, rpcMap, clientCh, linkMsgBacklog, asked, answering, got>>
  BY DEF ServerTakes, tables, queues, peers
<1>3. /\ HasRequest(q, inputCh) /\ ~HasRequest(q, inputCh)' /\ OneRequest(q, inputCh)'
      /\ Answered(q, inputCh)' = Answered(q, inputCh)
  BY <1>1, <1>2, InputShrinks DEF Orderly, RequestOnce
<1>4. /\ UnderWay(q) /\ ~Queued(q) /\ asked[q].by # NoLink /\ answering[q].by = NoLink
      /\ NoneSent(q) /\ Answered(q, inputCh) = {}
  BY <1>1, <1>3 DEF UnderWay, Orderly, RequestOnce, FirstAsked
<1>5. \A l \in Links : SameQueue(q, l)
  <2>1. \A l \in Links : Queue(l)' = Queue(l)
    BY <1>2 DEF Queue
  <2> QED BY <1>1, <2>1, QueueSame
<1>6. ~Queued(q)'
  BY <1>4, <1>5 DEF Queued, SameQueue
<1>7. RequestOnce(q)'
  BY <1>1, <1>3, <1>5, <1>6 DEF Orderly, RequestOnce, SameQueue, Queued
<1>8. ~answering[q].trusted
  BY <1>4, RouterAssumption DEF Inv, BaseInv, PeersSeen
<1>9. FirstAsked(q)'
  <2>1. ~Registering(q)' /\ ~Unregistering(q)' /\ Final \notin InHand(q)'
          /\ (Sending(q)' => InHand(q)' = {})
    <3>1. CASE server' = Idle
      <4>1. server'.at = "idle"
        BY <3>1 DEF Idle
      <4> QED BY <4>1 DEF Sending, InHand, Registering, Unregistering
    <3>2. CASE server' = [Idle EXCEPT !.at = "unregister", !.msg = m] /\ m.kind = "response"
      BY <1>1, <3>2
    <3>3. ASSUME NEW to \in Links, server' = [at |-> "send", msg |-> m, to |-> to]
          PROVE  <2>1
      BY <1>1, <3>3, HandsAre
    <3>4. ASSUME NEW to \in Links,
                 server' = [at |-> "send", msg |-> Message("response", q, Failed, NoLink), to |-> to]
          PROVE  <2>1
      <4>1. server'.at = "send" /\ server'.msg.kind = "response" /\ server'.msg.n = Failed
        BY <3>4 DEF Message
      <4> QED BY <4>1 DEF Sending, InHand, Registering, Unregistering, Asks, Final, Failed
    <3>5. TakenAs(m, server')
      BY <1>1, TakenIs
    <3> QED BY <1>1, <3>1, <3>2, <3>3, <3>4, <3>5 DEF TakenAs
  <2>2. UnderWay(q)' => NoneSent(q)'
    BY <1>2, <1>3, <1>4, <1>5, <1>6, <2>1 DEF UnderWay, NoneSent, SameQueue
  <2> QED BY <1>2, <1>3, <1>4, <2>1, <2>2 DEF FirstAsked
<1> QED BY <1>2, <1>6, <1>7, <1>8, <1>9 DEF Orderly

(* A response is taken: on its way to the one who asked, or dropped.       *)
LEMMA TakenKeepsLine ==
  ASSUME Inv, NEW q \in Requests, NEW m \in Messages,
         inputCh # <<>>, m = Head(inputCh), inputCh' = Tail(inputCh), Answers(q, m),
         server.at = "idle", Known(asked[q].by),
         UNCHANGED <<linkMap, rpcMap, clientCh, linkMsgBacklog, asked, answering, got>>,
         \/ /\ Known(rpcMap[q].source)
            /\ server' = [at |-> "send", msg |-> m, to |-> rpcMap[q].source]
         \/ ~Known(rpcMap[q].source) /\ server' = AfterResponse(m),
         Line(q)
  PROVE  Line(q)'
<1> DEFINE last == answering[q].last
           finals == answering[q].finals
           W == Waiting(q)
           H == InHand(q)'
           B == Answered(q, inputCh)'
           L == Len(got[q])
<1>1. MessageTypes /\ PeerTypes
  BY DEF Inv, BaseInv, TypeOK
<1>2. m.kind = "response" /\ m.id = q
  BY DEF Answers
<1>3. /\ Answered(q, inputCh) = B \union {m.n}
      /\ RisesInput(q, inputCh) =>
           RisesInput(q, inputCh)' /\ \A n \in B : n = Final \/ Before(m.n, n)
  BY <1>1, InputShrinks
<1>4. ~Sending(q) /\ InHand(q) = {} /\ ~Registering(q) /\ ~Unregistering(q)
  BY HandsEmpty
<1>5. Queue(asked[q].by)' = Queue(asked[q].by)
  BY DEF Queue
<1>6. W' = W /\ (Rises(q, Queue(asked[q].by)) => Rises(q, Queue(asked[q].by))')
  BY <1>5 DEF Waiting, Answered, Rises
<1>7. L \in Nat /\ last \in Nat /\ finals \in Nat
  <2>1. got[q] \in Seq(Numbers)
    BY <1>1 DEF PeerTypes
  <2>2. last \in 0 .. MaxResponses /\ finals \in 0 .. 2
    BY <1>1 DEF PeerTypes
  <2> QED BY <2>1, <2>2, LenProperties, RouterAssumption
<1>8. /\ L <= last + 1 /\ (L = last + 1 => finals > 0 /\ Final \notin W)
      /\ Numbered(L, last, finals, W \union (B \union {m.n}))
  BY <1>3, <1>4 DEF Line, InNumbers, Numbered
<1>9. \A k \in L + 1 .. last : k \in W \union (B \union {m.n})
  BY <1>3, <1>4 DEF Line, NothingMissing
<1>10. /\ Rises(q, Queue(asked[q].by)) /\ RisesInput(q, inputCh)
       /\ \A a \in W, b \in B \union {m.n} : b = Final \/ Before(a, b)
  BY <1>3, <1>4 DEF Line, InLine
<1>11. /\ Ended(q) => rpcMap[q] = NoRpc
       /\ ~Ended(q) => rpcMap[q].source = asked[q].by
  BY <1>4 DEF Line, RoutedBack
<1>12. Ended(q) <=> Final \in W \/ L = last + 1
  BY <1>4 DEF Ended
<1>13. Ended(q)' <=> Final \in W \union H \/ L = last + 1
  BY <1>6 DEF Ended
<1>14. ReadInOrder(q)'
  BY DEF Line, ReadInOrder, Place
<1>15. /\ L <= last + 1 /\ (L = last + 1 => finals > 0 /\ Final \notin W \union H)
       /\ Numbered(L, last, finals, W \union H \union B)
       => InNumbers(q)'
  BY <1>6 DEF InNumbers, Numbered
<1>16. (\A k \in L + 1 .. last : k \in W \union H \union B) => NothingMissing(q)'
  BY <1>6 DEF NothingMissing
<1>17. /\ \A a \in W, b \in H : Before(a, b)
       /\ \A a \in W \union H, b \in B : b = Final \/ Before(a, b)
       => InLine(q)'
  BY <1>3, <1>6, <1>10 DEF InLine
<1> HIDE DEF last, finals, W, H, B, L
<1>18. CASE /\ Known(rpcMap[q].source)
            /\ server' = [at |-> "send", msg |-> m, to |-> rpcMap[q].source]
  <2>1. H = {m.n} /\ ~Registering(q)' /\ ~Unregistering(q)' /\ server'.to = rpcMap[q].source
    BY <1>2, <1>18, HandsAre DEF H
  <2>2. ~Ended(q)
    <3>1. rpcMap[q] # NoRpc
      BY <1>18 DEF Known, NoRpc
    <3> QED BY <1>11, <3>1
  <2>3. Final \notin W /\ L # last + 1
    BY <1>12, <2>2
  <2>4. InNumbers(q)'
    <3>1. W \union H \union B = W \union (B \union {m.n})
      BY <2>1
    <3> QED BY <1>8, <1>15, <2>3, <3>1
  <2>5. NothingMissing(q)'
    BY <1>9, <1>16, <2>1
  <2>6. \A a \in W : a # Final /\ Before(a, m.n)
    BY <1>10, <2>3 DEF Before
  <2>7. InLine(q)'
    BY <1>3, <1>10, <1>17, <2>1, <2>6
  <2>8. RoutedBack(q)'
    <3>1. rpcMap[q].source = asked[q].by
      BY <1>11, <2>2
    <3>2. Ended(q)' => Final \in H
      BY <1>13, <2>3
    <3> QED BY <2>1, <3>1, <3>2 DEF RoutedBack, H
  <2> QED BY <1>14, <2>4, <2>5, <2>7, <2>8 DEF Line
<1>19. CASE ~Known(rpcMap[q].source) /\ server' = AfterResponse(m)
  <2>1. Ended(q)
    BY <1>11, <1>19
  <2>2. m.n = Final
    <3>1. CASE Final \in W
      <4>1. m.n = Final \/ Before(Final, m.n)
        BY <1>10, <3>1
      <4> QED BY <4>1 DEF Before
    <3>2. CASE L = last + 1
      <4>1. m.n \in 0 .. last /\ (m.n = Final \/ m.n > L)
        BY <1>8 DEF Numbered
      <4> QED BY <1>7, <3>2, <4>1
    <3> QED BY <1>12, <2>1, <3>1, <3>2
  <2>3. server'.at = "unregister" /\ server'.msg = m
    BY <1>19, <2>2 DEF AfterResponse, Idle
  <2>4. H = {} /\ Unregistering(q)' /\ ~Registering(q)'
    BY <1>2, <2>3 DEF InHand, Unregistering, Registering, H
  <2>5. InNumbers(q)'
    BY <1>8, <1>15, <2>4 DEF Numbered
  <2>6. NothingMissing(q)'
    <3>1. \A k \in L + 1 .. last : k # Final
      BY <1>7 DEF Final
    <3> QED BY <1>9, <1>16, <2>2, <3>1
  <2>7. InLine(q)'
    BY <1>10, <1>17, <2>4
  <2>8. RoutedBack(q)'
    <3>1. Ended(q)'
      BY <1>12, <1>13, <2>1
    <3> QED BY <2>4, <3>1 DEF RoutedBack, H
  <2> QED BY <1>14, <2>5, <2>6, <2>7, <2>8 DEF Line
<1> QED BY <1>18, <1>19

LEMMA TakesKeepsOrder ==
  ASSUME Inv, ServerTakes, NEW q \in Requests
  PROVE  Orderly(q)'
<1>1. PICK m : m = Head(inputCh)
  OBVIOUS
<1>2. BaseInv /\ Orderly(q) /\ MessageTypes /\ TypeOK
  BY DEF Inv, BaseInv, TypeOK
<1>3. /\ inputCh # <<>> /\ inputCh' = Tail(inputCh) /\ server.at = "idle"
      /\ UNCHANGED <<linkMap, rpcMap, clientCh, linkMsgBacklog, asked, answering, got>>
  BY DEF ServerTakes, tables, queues, peers
<1>4. m \in Messages /\ TakenAs(m, server')
  BY <1>1, <1>2, TakenIs
<1>5. ~Sending(q) /\ InHand(q) = {} /\ ~Registering(q) /\ ~Unregistering(q)
  BY <1>3, HandsEmpty
<1>6. CASE m.id # q \/ m.kind = "cancel"
  <2>1. ~Sending(q)' /\ InHand(q)' = {} /\ ~Registering(q)' /\ ~Unregistering(q)'
    <3>1. CASE m.id # q
      <4>1. CASE server' = Idle
        BY <3>1, <4>1, HandsOfOthers
      <4>2. CASE server' = [Idle EXCEPT !.at = "unregister", !.msg = m]
        BY <3>1, <4>2, HandsOfOthers
      <4>3. ASSUME NEW to \in Links, NEW n \in {m, Message("response", m.id, Failed, NoLink)},
                   server' = [at |-> "send", msg |-> n, to |-> to]
            PROVE  <2>1
        <5>1. n.id # q
          BY <3>1 DEF Message
        <5> QED BY <4>3, <5>1, HandsOfOthers
      <4> QED BY <1>4, <4>1, <4>2, <4>3 DEF TakenAs
    <3>2. CASE m.id = q /\ m.kind = "cancel"
      <4>1. \/ server' = Idle
            \/ \E to \in Links \union {NoLink} : server' = [at |-> "send", msg |-> m, to |-> to]
        BY <1>1, <1>2, <3>2, LinksFound DEF ServerTakes
      <4>2. CASE server' = Idle
        <5>1. server'.at = "idle"
          BY <4>2 DEF Idle
        <5> QED BY <5>1 DEF Sending, InHand, Registering, Unregistering
      <4>3. CASE \E to \in Links \union {NoLink} : server' = [at |-> "send", msg |-> m, to |-> to]
        BY <3>2, <4>3, HandsAre
      <4> QED BY <4>1, <4>2, <4>3
    <3> QED BY <1>6, <3>1, <3>2
  <2>2. SameServer(q)
    BY <1>5, <2>1 DEF SameServer
  <2>3. ~Asks(q, m) /\ ~Answers(q, m)
    BY <1>6 DEF Asks, Answers
  <2>4. SameInput(q)
    BY <1>1, <1>2, <1>3, <2>3, InputSame
  <2>5. SamePeers(q)
    BY <1>2, <1>3, KnownBefore DEF SamePeers
  <2> QED BY <1>2, <1>3, <2>2, <2>4, <2>5, QueuesSame, Unconcerned
<1>7. CASE m.id = q /\ m.kind = "request"
  <2>1. Asks(q, m)
    BY <1>7 DEF Asks
  <2> QED BY <1>1, <1>4, <2>1, TakesRequest
<1>8. CASE m.id = q /\ m.kind = "response"
  <2>1. Answers(q, m) /\ ~Asks(q, m)
    BY <1>8 DEF Answers, Asks
  <2>2. /\ HasRequest(q, inputCh)' <=> HasRequest(q, inputCh)
        /\ OneRequest(q, inputCh) => OneRequest(q, inputCh)'
        /\ Answered(q, inputCh) = Answered(q, inputCh)' \union {m.n}
    BY <1>1, <1>2, <1>3, <2>1, InputShrinks
  <2>3. ~UnderWay(q) /\ asked[q].by # NoLink /\ answering[q].by # NoLink
    BY <1>2, <2>2, AnsweredIs DEF Orderly
  <2>4. \/ /\ Known(rpcMap[q].source)
           /\ server' = [at |-> "send", msg |-> m, to |-> rpcMap[q].source]
        \/ ~Known(rpcMap[q].source) /\ server' = AfterResponse(m)
    <3>1. NoLink \notin Links /\ ~Known(NoLink)
      BY RouterAssumption DEF Known
    <3> QED BY <1>1, <1>8, <3>1 DEF ServerTakes, ResponseLink
  <2>5. ~Sending(q)' /\ ~Registering(q)'
    <3>1. CASE server' = [at |-> "send", msg |-> m, to |-> rpcMap[q].source]
      BY <1>8, <3>1, HandsAre
    <3>2. CASE server' = AfterResponse(m)
      <4>1. server'.at \in {"idle", "unregister"}
        BY <3>2 DEF AfterResponse, Idle
      <4> QED BY <4>1 DEF Sending, Registering
    <3> QED BY <2>4, <3>1, <3>2
  <2>6. \A l \in Links : SameQueue(q, l)
    <3>1. \A l \in Links : Queue(l)' = Queue(l)
      BY <1>3 DEF Queue
    <3> QED BY <1>2, <3>1, QueueSame
  <2>7. ~Queued(q)' /\ ~HasRequest(q, inputCh)'
    BY <2>2, <2>3, <2>6 DEF UnderWay, Queued, SameQueue
  <2>8. RequestOnce(q)'
    BY <1>2, <2>2, <2>5, <2>6, <2>7 DEF Orderly, RequestOnce, SameQueue, Queued
  <2>9. ~UnderWay(q)'
    BY <2>5, <2>7 DEF UnderWay
  <2>10. FirstAsked(q)'
    BY <1>3, <2>3, <2>5, <2>9 DEF FirstAsked
  <2>11. ASSUME Known(asked[q].by)', answering'[q].trusted
         PROVE  Line(q)'
    <3>1. Known(asked[q].by) /\ Line(q)
      BY <1>2, <1>3, <2>11 DEF Orderly, Known
    <3> QED BY <1>1, <1>3, <1>4, <2>1, <2>4, <3>1, TakenKeepsLine
  <2> QED BY <2>7, <2>8, <2>10, <2>11 DEF Orderly
<1> QED BY <1>4, <1>6, <1>7, <1>8 DEF Messages

(* A response goes to the one who asked.                                   *)
LEMMA SentKeepsLine ==
  ASSUME Inv, NEW q \in Requests, NEW m \in Messages, NEW l \in Links,
         server.at = "send", m = server.msg, l = server.to, Answers(q, m),
         Queue(l)' = Append(Queue(l), m), server' = AfterResponse(m),
         UNCHANGED <<rpcMap, inputCh, asked, answering, got>>,
         Line(q)
  PROVE  Line(q)'
<1> DEFINE last == answering[q].last
           finals == answering[q].finals
           W == Waiting(q)
           A == Answered(q, inputCh)
           L == Len(got[q])
<1>1. MessageTypes /\ PeerTypes
  BY DEF Inv, BaseInv, TypeOK
<1>2. m.kind = "response" /\ m.id = q
  BY DEF Answers
<1>3. InHand(q) = {m.n} /\ ~Registering(q) /\ ~Unregistering(q)
  BY DEF InHand, Registering, Unregistering
<1>4. asked[q].by = l
  BY <1>3 DEF Line, RoutedBack
<1>5. /\ Answered(q, Queue(l))' = W \union {m.n}
      /\ Rises(q, Queue(l)) /\ (\A n \in W : Before(n, m.n)) => Rises(q, Queue(l))'
  <2>1. W = Answered(q, Queue(l))
    BY <1>4 DEF Waiting
  <2>2. /\ Answered(q, Queue(l))' = Answered(q, Queue(l)) \union {m.n}
        /\ Rises(q, Queue(l)) /\ (\A n \in Answered(q, Queue(l)) : Before(n, m.n)) => Rises(q, Queue(l))'
    BY <1>1, QueueGrows
  <2> QED BY <2>1, <2>2
<1>6. SameInput(q)
  BY <1>1, InputSame
<1>7. Waiting(q)' = W \union {m.n} /\ Answered(q, inputCh)' = A
  BY <1>4, <1>5, <1>6 DEF Waiting, Queue, SameInput
<1>8. /\ InHand(q)' = {} /\ ~Registering(q)'
      /\ m.n = Final => Unregistering(q)'
      /\ m.n # Final => ~Unregistering(q)'
  <2>1. CASE m.n = Final
    <3>1. server'.at = "unregister" /\ server'.msg = m
      BY <2>1 DEF AfterResponse, Idle
    <3> QED BY <1>2, <2>1, <3>1 DEF InHand, Registering, Unregistering
  <2>2. CASE m.n # Final
    <3>1. server'.at = "idle"
      BY <2>2 DEF AfterResponse, Idle
    <3> QED BY <2>2, <3>1 DEF InHand, Registering, Unregistering
  <2> QED BY <2>1, <2>2
<1>9. /\ L <= last + 1 /\ (L = last + 1 => finals > 0 /\ Final \notin W \union {m.n})
      /\ Numbered(L, last, finals, W \union {m.n} \union A)
  BY <1>3 DEF Line, InNumbers, Numbered
<1>10. /\ Rises(q, Queue(l)) /\ RisesInput(q, inputCh)
       /\ \A a \in W : Before(a, m.n)
       /\ \A a \in W \union {m.n}, b \in A : b = Final \/ Before(a, b)
  BY <1>3, <1>4 DEF Line, InLine
<1>11. (Ended(q) <=> Final \in W \union {m.n} \/ L = last + 1) /\ (Ended(q)' <=> Ended(q))
  BY <1>3, <1>7, <1>8 DEF Ended
<1>12. ReadInOrder(q)'
  BY DEF Line, ReadInOrder, Place
<1>13. InNumbers(q)'
  BY <1>7, <1>8, <1>9 DEF InNumbers, Numbered
<1>14. NothingMissing(q)'
  BY <1>3, <1>7, <1>8 DEF Line, NothingMissing
<1>15. InLine(q)'
  <2>1. Rises(q, Queue(asked[q].by))'
    BY <1>4, <1>5, <1>10 DEF Queue
  <2>2. RisesInput(q, inputCh)'
    BY <1>6, <1>10 DEF SameInput
  <2> QED BY <1>7, <1>8, <1>10, <2>1, <2>2 DEF InLine
<1>16. RoutedBack(q)'
  <2>1. ~Ended(q) => m.n # Final /\ rpcMap[q].source = asked[q].by
    BY <1>3, <1>11 DEF Line, RoutedBack
  <2>2. Ended(q) => rpcMap[q] = NoRpc \/ m.n = Final
    BY <1>3 DEF Line, RoutedBack
  <2> QED BY <1>8, <1>11, <2>1, <2>2 DEF RoutedBack
<1> QED BY <1>12, <1>13, <1>14, <1>15, <1>16 DEF Line

LEMMA SendsKeepsOrder ==
  ASSUME Inv, ServerSends, NEW q \in Requests
  PROVE  Orderly(q)'
<1>1. BaseInv /\ Orderly(q) /\ MessageTypes /\ PeerTypes
  BY DEF Inv, BaseInv, TypeOK
<1>2. PICK m \in Messages : m = server.msg
  BY <1>1 DEF MessageTypes, ServerSends
<1>3. PICK l \in Links : l = server.to
  BY <1>1 DEF MessageTypes, ServerSends
<1>4. /\ server.at = "send" /\ SendRpcMessageToLink(l, m)
      /\ UNCHANGED <<linkMap, rpcMap, inputCh, asked, answering, got>>
      /\ m.kind = "request" => server' = [server EXCEPT !.at = "register"]
      /\ m.kind = "response" => server' = AfterResponse(m)
      /\ m.kind = "cancel" => server' = Idle
  BY <1>2, <1>3 DEF ServerSends, tables, peers
<1>5. m.kind \in {"request", "response", "cancel"} /\ m.id \in Requests
  BY DEF Messages
<1>6. \A k \in Links : Queue(k)' = IF k = l THEN Append(Queue(l), m) ELSE Queue(k)
  BY <1>1, <1>4, SendIs
<1>7. Queue(l)' = Append(Queue(l), m) /\ \A k \in Links : k # l => SameQueue(q, k)
  BY <1>1, <1>6, QueueSame
<1>8. SameInput(q)
  BY <1>1, <1>4, InputSame
<1>9. /\ server.at # "register" /\ server.at # "unregister"
      /\ ~Registering(q) /\ ~Unregistering(q)
  BY <1>4 DEF Registering, Unregistering
<1>10. /\ m.kind = "request" => server'.at = "register" /\ server'.msg = m
       /\ m.kind = "response" => server'.at \in {"idle", "unregister"}
                                 /\ (server'.at = "unregister" <=> m.n = Final)
                                 /\ (m.n = Final => server'.msg = m)
       /\ m.kind = "cancel" => server'.at = "idle"
  <2>1. CASE m.kind = "request"
    BY <1>1, <1>2, <1>4, <2>1 DEF MessageTypes
  <2>2. CASE m.kind = "response"
    <3>1. CASE m.n = Final
      <4>1. server'.at = "unregister" /\ server'.msg = m
        BY <1>4, <2>2, <3>1 DEF AfterResponse, Idle
      <4> QED BY <2>2, <3>1, <4>1
    <3>2. CASE m.n # Final
      <4>1. server'.at = "idle"
        BY <1>4, <2>2, <3>2 DEF AfterResponse, Idle
      <4> QED BY <2>2, <3>2, <4>1
    <3> QED BY <3>1, <3>2
  <2>3. CASE m.kind = "cancel"
    BY <1>4, <2>3 DEF Idle
  <2> QED BY <1>5, <2>1, <2>2, <2>3
<1>11. ~Sending(q)' /\ InHand(q)' = {}
  BY <1>5, <1>10 DEF Sending, InHand
<1>12. CASE m.id # q \/ m.kind = "cancel"
  <2>1. ~Asks(q, m) /\ ~Answers(q, m)
    BY <1>12 DEF Asks, Answers
  <2>2. ~Sending(q) /\ InHand(q) = {}
    BY <1>2, <2>1 DEF Sending, InHand
  <2>3. ~Registering(q)' /\ ~Unregistering(q)'
    BY <1>5, <1>10, <1>12 DEF Registering, Unregistering
  <2>4. SameServer(q)
    BY <1>9, <1>11, <2>2, <2>3 DEF SameServer
  <2>5. SamePeers(q)
    BY <1>1, <1>4, KnownBefore DEF SamePeers
  <2>6. \A k \in Links : Loses(q, k)
    BY <1>1, <1>6, <2>1, QueueSame, LosesNone
  <2> QED BY <1>1, <1>8, <2>4, <2>5, <2>6, Unconcerned
<1>13. CASE m.id = q /\ m.kind = "request"
  <2>1. Asks(q, m) /\ ~Answers(q, m)
    BY <1>13 DEF Asks, Answers
  <2>2. Sending(q) /\ UnderWay(q) /\ ~Queued(q) /\ ~HasRequest(q, inputCh)
    BY <1>1, <1>2, <1>4, <2>1 DEF Sending, UnderWay, Orderly, RequestOnce
  <2>3. /\ asked[q].by # NoLink /\ answering[q].by = NoLink /\ NoneSent(q)
        /\ Answered(q, inputCh) = {}
    BY <1>1, <2>2 DEF Orderly, FirstAsked
  <2>4. /\ HasRequest(q, Queue(l))' /\ OneRequest(q, Queue(l))'
        /\ Answered(q, Queue(l))' = Answered(q, Queue(l))
        /\ \A k \in Links : k # l => ~HasRequest(q, Queue(k))'
    <3>1. ~HasRequest(q, Queue(l)) /\ OneRequest(q, Queue(l))
      BY <1>1, <2>2 DEF Queued, Orderly, RequestOnce
    <3>2. /\ HasRequest(q, Queue(l))' /\ OneRequest(q, Queue(l))'
          /\ Answered(q, Queue(l))' = Answered(q, Queue(l))
      BY <1>1, <1>7, <2>1, <3>1, QueueGrows
    <3>3. \A k \in Links : k # l => ~HasRequest(q, Queue(k))'
      BY <1>7, <2>2 DEF Queued, SameQueue
    <3> QED BY <3>2, <3>3
  <2>5. Registering(q)' /\ ~Unregistering(q)'
    BY <1>10, <1>13 DEF Registering, Unregistering
  <2>6. ~HasRequest(q, inputCh)' /\ OneRequest(q, inputCh)' /\ Answered(q, inputCh)' = {}
    BY <1>1, <1>8, <2>2, <2>3 DEF SameInput, Orderly, RequestOnce
  <2>7. RequestOnce(q)'
    BY <1>1, <1>7, <1>11, <2>4, <2>6 DEF Orderly, RequestOnce, SameQueue
  <2>8. NoneSent(q)'
    BY <1>4, <1>7, <1>11, <2>3, <2>4 DEF NoneSent, SameQueue
  <2>9. FirstAsked(q)'
    BY <1>4, <1>11, <2>3, <2>5, <2>6, <2>8 DEF FirstAsked
  <2>10. ~answering'[q].trusted
    BY <1>1, <1>4, <2>3, RouterAssumption DEF BaseInv, PeersSeen
  <2> QED BY <2>5, <2>7, <2>9, <2>10 DEF Orderly
<1>14. CASE m.id = q /\ m.kind = "response"
  <2>1. Answers(q, m) /\ ~Asks(q, m)
    BY <1>14 DEF Asks, Answers
  <2>2. InHand(q) = {m.n} /\ ~NoneSent(q)
    BY <1>2, <1>4, <2>1 DEF InHand, NoneSent
  <2>3. ~UnderWay(q) /\ asked[q].by # NoLink
    BY <1>1, <2>2 DEF Orderly, FirstAsked
  <2>4. \A k \in Links : /\ HasRequest(q, Queue(k))' <=> HasRequest(q, Queue(k))
                         /\ OneRequest(q, Queue(k)) => OneRequest(q, Queue(k))'
    <3>1. /\ HasRequest(q, Queue(l))' <=> HasRequest(q, Queue(l))
          /\ OneRequest(q, Queue(l)) => OneRequest(q, Queue(l))'
      BY <1>1, <1>7, <2>1, QueueGrows
    <3> QED BY <1>7, <3>1 DEF SameQueue
  <2>5. ~Queued(q)' /\ ~HasRequest(q, inputCh)'
    BY <1>8, <2>3, <2>4 DEF UnderWay, Queued, SameInput
  <2>6. RequestOnce(q)'
    BY <1>1, <1>8, <1>11, <2>4, <2>5 DEF Orderly, RequestOnce, SameInput, Queued
  <2>7. ~Registering(q)' /\ (Unregistering(q)' => m.n = Final)
    BY <1>10, <1>14 DEF Registering, Unregistering
  <2>8. ~UnderWay(q)'
    BY <1>11, <2>5 DEF UnderWay
  <2>9. FirstAsked(q)'
    <3>1. answering[q].by = NoLink => Answered(q, inputCh) = {} /\ m.n # Final
      BY <1>1, <2>2 DEF Orderly, FirstAsked
    <3>2. asked[q].by = NoLink => answering[q].by = NoLink
      BY <1>1 DEF Orderly, FirstAsked
    <3> QED BY <1>4, <1>8, <1>11, <2>3, <2>7, <2>8, <3>1, <3>2 DEF FirstAsked, SameInput
  <2>10. ASSUME Known(asked[q].by)', answering'[q].trusted
         PROVE  Line(q)'
    <3>1. Line(q)
      BY <1>1, <1>4, <2>10 DEF Orderly, Known
    <3> QED BY <1>2, <1>3, <1>4, <1>7, <1>14, <2>1, <3>1, SentKeepsLine
  <2> QED BY <2>5, <2>6, <2>9, <2>10 DEF Orderly
<1> QED BY <1>5, <1>12, <1>13, <1>14

LEMMA RegistersKeepsOrder ==
  ASSUME Inv, ServerRegisters, NEW q \in Requests
  PROVE  Orderly(q)'
<1>1. BaseInv /\ Orderly(q) /\ MessageTypes /\ PeerTypes
  BY DEF Inv, BaseInv, TypeOK
<1>2. PICK m \in Messages : m = server.msg
  BY <1>1 DEF MessageTypes, ServerRegisters
<1>3. /\ server.at = "register" /\ server' = Idle /\ m.id \in Requests
      /\ rpcMap' = [rpcMap EXCEPT ![m.id] = [source |-> m.ingress, dest |-> asked[m.id].to]]
      /\ UNCHANGED <<linkMap, inputCh, clientCh, linkMsgBacklog, asked, answering, got>>
  BY <1>2 DEF ServerRegisters, tables, queues, peers, Messages
<1>4. ~Sending(q)' /\ InHand(q)' = {} /\ ~Registering(q)' /\ ~Unregistering(q)'
  <2>1. server'.at = "idle"
    BY <1>3 DEF Idle
  <2> QED BY <2>1 DEF Sending, InHand, Registering, Unregistering
<1>5. ~Sending(q) /\ InHand(q) = {} /\ ~Unregistering(q) /\ (Registering(q) <=> m.id = q)
  BY <1>2, <1>3 DEF Sending, InHand, Unregistering, Registering
<1>6. SameInput(q)
  BY <1>1, <1>3, InputSame
<1>7. CASE m.id # q
  <2>1. SameServer(q)
    BY <1>4, <1>5, <1>7 DEF SameServer
  <2>2. SamePeers(q)
    <3>1. rpcMap'[q] = rpcMap[q]
      BY <1>1, <1>3, <1>7 DEF MessageTypes
    <3> QED BY <1>1, <1>3, <3>1, KnownBefore DEF SamePeers
  <2> QED BY <1>1, <1>3, <1>6, <2>1, <2>2, QueuesSame, Unconcerned
<1>8. CASE m.id = q
  <2>1. rpcMap'[q].source = asked[q].by
    <3>1. m.kind = "request" /\ FromAsker(m, asked)
      BY <1>1, <1>2, <1>3 DEF BaseInv, StageTypes, IngressIsAsker
    <3> QED BY <1>1, <1>3, <1>8, <3>1 DEF FromAsker, MessageTypes
  <2>2. NoneSent(q) /\ FirstAsked(q)
    BY <1>1, <1>5, <1>8 DEF Orderly, FirstAsked
  <2>3. \A l \in Links : SameQueue(q, l)
    <3>1. \A l \in Links : Queue(l)' = Queue(l)
      BY <1>3 DEF Queue
    <3> QED BY <1>1, <3>1, QueueSame
  <2>4. Queued(q)' <=> Queued(q)
    BY <2>3 DEF Queued, SameQueue
  <2>5. RequestOnce(q)'
    BY <1>1, <1>4, <1>6, <2>3, <2>4 DEF Orderly, RequestOnce, SameInput, SameQueue
  <2>6. UnderWay(q)' => UnderWay(q)
    BY <1>4, <1>6, <2>4 DEF UnderWay, SameInput
  <2>7. NoneSent(q)'
    BY <1>3, <1>4, <2>2, <2>3 DEF NoneSent, SameQueue
  <2>8. FirstAsked(q)'
    BY <1>3, <1>4, <1>6, <2>2, <2>6, <2>7 DEF FirstAsked, SameInput
  <2>9. ASSUME Known(asked[q].by)', answering'[q].trusted
        PROVE  Line(q)'
    <3>1. Line(q)
      BY <1>1, <1>3, <2>9 DEF Orderly, Known
    <3>2. PICK l \in Links : l = asked[q].by
      BY <1>1, <1>3, <2>9 DEF PeerTypes, Known
    <3>3. /\ Waiting(q)' = Waiting(q) /\ InHand(q)' = InHand(q)
          /\ Answered(q, inputCh)' = Answered(q, inputCh)
          /\ Rises(q, Queue(asked[q].by)) => Rises(q, Queue(asked[q].by))'
          /\ RisesInput(q, inputCh) => RisesInput(q, inputCh)'
      BY <1>3, <1>4, <1>5, <1>6, <2>3, <3>2 DEF Waiting, SameQueue, SameInput, Queue
    <3>4. ReadInOrder(q)'
      BY <1>3, <3>1 DEF Line, ReadInOrder, Place
    <3>5. InNumbers(q)' /\ NothingMissing(q)' /\ InLine(q)'
      BY <1>3, <3>1, <3>3 DEF Line, InNumbers, NothingMissing, InLine
    <3>6. ~Ended(q)'
      <4>1. Waiting(q) = {} /\ Len(got[q]) = 0
        BY <2>2, <3>2, EmptySeq DEF NoneSent, Waiting
      <4>2. answering[q].last \in Nat
        BY <1>1, RouterAssumption DEF PeerTypes
      <4> QED BY <1>3, <1>4, <3>3, <4>1, <4>2 DEF Ended
    <3>7. RoutedBack(q)'
      BY <1>3, <1>4, <2>1, <3>6 DEF RoutedBack
    <3> QED BY <3>4, <3>5, <3>7 DEF Line
  <2> QED BY <1>3, <2>1, <2>5, <2>8, <2>9 DEF Orderly
<1> QED BY <1>7, <1>8

LEMMA UnregistersKeepsOrder ==
  ASSUME Inv, ServerUnregisters, NEW q \in Requests
  PROVE  Orderly(q)'
<1>1. BaseInv /\ Orderly(q) /\ MessageTypes /\ PeerTypes
  BY DEF Inv, BaseInv, TypeOK
<1>2. PICK m \in Messages : m = server.msg
  BY <1>1 DEF MessageTypes, ServerUnregisters
<1>3. /\ server.at = "unregister" /\ server' = Idle /\ m.id \in Requests
      /\ rpcMap' = [rpcMap EXCEPT ![m.id] = NoRpc]
      /\ UNCHANGED <<linkMap, inputCh, clientCh, linkMsgBacklog, asked, answering, got>>
  BY <1>2 DEF ServerUnregisters, tables, queues, peers, Messages
<1>4. ~Sending(q)' /\ InHand(q)' = {} /\ ~Registering(q)' /\ ~Unregistering(q)'
  <2>1. server'.at = "idle"
    BY <1>3 DEF Idle
  <2> QED BY <2>1 DEF Sending, InHand, Registering, Unregistering
<1>5. ~Sending(q) /\ InHand(q) = {} /\ ~Registering(q) /\ (Unregistering(q) <=> m.id = q)
  BY <1>2, <1>3 DEF Sending, InHand, Unregistering, Registering
<1>6. SameInput(q)
  BY <1>1, <1>3, InputSame
<1>7. CASE m.id # q
  <2>1. SameServer(q)
    BY <1>4, <1>5, <1>7 DEF SameServer
  <2>2. SamePeers(q)
    <3>1. rpcMap'[q] = rpcMap[q]
      BY <1>1, <1>3, <1>7 DEF MessageTypes
    <3> QED BY <1>1, <1>3, <3>1, KnownBefore DEF SamePeers
  <2> QED BY <1>1, <1>3, <1>6, <2>1, <2>2, QueuesSame, Unconcerned
<1>8. CASE m.id = q
  <2>1. ~UnderWay(q) /\ asked[q].by # NoLink /\ answering[q].by # NoLink
    BY <1>1, <1>5, <1>8, AnsweredIs DEF Orderly
  <2>2. \A l \in Links : SameQueue(q, l)
    <3>1. \A l \in Links : Queue(l)' = Queue(l)
      BY <1>3 DEF Queue
    <3> QED BY <1>1, <3>1, QueueSame
  <2>3. ~Queued(q)' /\ ~UnderWay(q)'
    BY <1>4, <1>6, <2>1, <2>2 DEF UnderWay, Queued, SameInput, SameQueue
  <2>4. RequestOnce(q)'
    BY <1>1, <1>4, <1>6, <2>2, <2>3 DEF Orderly, RequestOnce, SameInput, SameQueue
  <2>5. FirstAsked(q)'
    BY <1>3, <1>4, <2>1, <2>3 DEF FirstAsked
  <2>6. ASSUME Known(asked[q].by)', answering'[q].trusted
        PROVE  Line(q)'
    <3>1. Line(q)
      BY <1>1, <1>3, <2>6 DEF Orderly, Known
    <3>2. PICK l \in Links : l = asked[q].by
      BY <1>1, <2>1 DEF PeerTypes
    <3>3. /\ Waiting(q)' = Waiting(q) /\ InHand(q)' = InHand(q)
          /\ Answered(q, inputCh)' = Answered(q, inputCh)
          /\ Rises(q, Queue(asked[q].by)) => Rises(q, Queue(asked[q].by))'
          /\ RisesInput(q, inputCh) => RisesInput(q, inputCh)'
      BY <1>3, <1>4, <1>5, <1>6, <2>2, <3>2 DEF Waiting, SameQueue, SameInput, Queue
    <3>4. ReadInOrder(q)'
      BY <1>3, <3>1 DEF Line, ReadInOrder, Place
    <3>5. InNumbers(q)' /\ NothingMissing(q)' /\ InLine(q)'
      BY <1>3, <3>1, <3>3 DEF Line, InNumbers, NothingMissing, InLine
    <3>6. Ended(q) /\ (Ended(q)' <=> Ended(q))
      BY <1>3, <1>5, <1>8, <3>1, <3>3 DEF Ended, Line, RoutedBack
    <3>7. rpcMap'[q] = NoRpc
      BY <1>1, <1>3, <1>8 DEF MessageTypes
    <3>8. RoutedBack(q)'
      BY <1>4, <3>6, <3>7 DEF RoutedBack
    <3> QED BY <3>4, <3>5, <3>8 DEF Line
  <2> QED BY <2>3, <2>4, <2>5, <2>6 DEF Orderly
<1> QED BY <1>7, <1>8

(* processBacklog moves messages up within a queue, or drops what waits    *)
(* for a link that is gone.                                                *)
LEMMA PrefixLoses ==
  ASSUME NEW q, NEW c \in Seq(Messages), NEW b \in Seq(Messages)
  PROVE  /\ HasRequest(q, c) => HasRequest(q, c \o b)
         /\ OneRequest(q, c \o b) => OneRequest(q, c)
         /\ Answered(q, c) \subseteq Answered(q, c \o b)
<1> DEFINE s == c \o b
<1>1. /\ Len(c) \in Nat /\ Len(b) \in Nat /\ DOMAIN c = 1 .. Len(c)
      /\ s \in Seq(Messages) /\ Len(s) = Len(c) + Len(b)
      /\ \A i \in 1 .. Len(c) + Len(b) : s[i] = IF i <= Len(c) THEN c[i] ELSE b[i - Len(c)]
  BY ConcatProperties, LenProperties
<1> HIDE DEF s
<1>2. DOMAIN s = 1 .. Len(c) + Len(b)
  BY <1>1, LenProperties
<1>3. \A i \in DOMAIN c : i \in DOMAIN s /\ s[i] = c[i]
  BY <1>1, <1>2
<1>4. HasRequest(q, c) => HasRequest(q, s)
  BY <1>3 DEF HasRequest
<1>5. OneRequest(q, s) => OneRequest(q, c)
  BY <1>3 DEF OneRequest
<1>6. Answered(q, c) \subseteq Answered(q, s)
  BY <1>3 DEF Answered
<1> QED BY <1>4, <1>5, <1>6 DEF s

LEMMA BacklogLoses ==
  ASSUME TypeOK, ProcessBacklog, NEW q \in Requests, NEW l \in Links
  PROVE  Loses(q, l)
<1>1. MessageTypes
  BY DEF TypeOK
<1>2. CASE BacklogCheck
  BY <1>1, <1>2, QueuesSame DEF BacklogCheck
<1>3. CASE ProcessOneBacklogRound /\ Known(l)
  <2>1. Queue(l)' = Queue(l)
    BY <1>3, RoundIs
  <2> QED BY <1>1, <2>1, QueueSame, LosesNone
<1>4. CASE ProcessOneBacklogRound /\ ~Known(l)
  <2> DEFINE c == clientCh[l]
             b == linkMsgBacklog[l]
  <2>1. Queue(l)' = c /\ Queue(l) = c \o b
    BY <1>4, RoundIs DEF Queue
  <2>2. c \in Seq(Messages) /\ b \in Seq(Messages)
    BY <1>1 DEF MessageTypes
  <2> HIDE DEF c, b
  <2>3. /\ HasRequest(q, c) => HasRequest(q, c \o b)
        /\ OneRequest(q, c \o b) => OneRequest(q, c)
        /\ Answered(q, c) \subseteq Answered(q, c \o b)
    BY <2>2, PrefixLoses
  <2>4. PICK t : t = Queue(l)'
    OBVIOUS
  <2>5. /\ HasRequest(q, Queue(l))' <=> HasRequest(q, t)
        /\ OneRequest(q, Queue(l))' <=> OneRequest(q, t)
        /\ Answered(q, Queue(l))' = Answered(q, t)
    BY <2>4 DEF HasRequest, OneRequest, Answered
  <2>6. t = c
    BY <2>1, <2>4
  <2>7. ~Known(l)'
    BY <1>4 DEF ProcessOneBacklogRound, tables, Known
  <2> QED BY <2>1, <2>3, <2>5, <2>6, <2>7 DEF Loses
<1> QED BY <1>2, <1>3, <1>4 DEF ProcessBacklog

LEMMA BacklogKeepsOrder ==
  ASSUME Inv, ProcessBacklog, NEW q \in Requests
  PROVE  Orderly(q)'
<1>1. BaseInv /\ Orderly(q) /\ MessageTypes /\ TypeOK
  BY DEF Inv, BaseInv, TypeOK
<1>2. UNCHANGED <<linkMap, rpcMap, inputCh, server, asked, answering, got>>
  BY DEF ProcessBacklog, BacklogCheck, ProcessOneBacklogRound, tables, peers
<1>3. SamePeers(q) /\ SameServer(q) /\ SameInput(q)
  BY <1>1, <1>2, KnownBefore, ServerSame, InputSame DEF SamePeers
<1>4. \A l \in Links : Loses(q, l)
  BY <1>1, BacklogLoses
<1> QED BY <1>1, <1>3, <1>4, Unconcerned

-----------------------------------------------------------------------------
(* Nobody hears of a request that was not let in.                          *)

LEMMA AskerStaysLeaf ==
  ASSUME BaseInv, [Next]_vars, NEW q \in Requests, AskedByLeaf(q)
  PROVE  AskedByLeaf(q)'
<1> USE DEF BaseInv, TypeOK
<1>1. asked'[q].by = asked[q].by
  <2>1. asked[q].by # NoLink
    BY RouterAssumption DEF AskedByLeaf
  <2>2. ASSUME NEW p \in Requests, NEW l \in Links, NEW t \in Targets, Ask(p, l, t)
        PROVE  asked'[q].by = asked[q].by
    BY <2>1, <2>2 DEF Ask
  <2>3. ASSUME NEW p \in Requests, Cancel(p)
        PROVE  asked'[q].by = asked[q].by
    BY <2>3 DEF Cancel, PeerTypes
  <2>4. CASE UNCHANGED asked
    BY <2>4
  <2>5. ASSUME NEW p \in Requests, NEW n \in 0 .. MaxResponses, Respond(p, n)
        PROVE  UNCHANGED asked
    BY <2>5 DEF Respond
  <2>6. ASSUME NEW l \in Links, LinkStep(l) \/ Read(l)
        PROVE  UNCHANGED asked
    BY <2>6 DEF LinkStep, RegisterUntrustedLink, TrustLink, BindRoute, UnregisterLink, LinkGone,
                Read, peers
  <2>7. CASE RunServer \/ ProcessBacklog
    BY <2>7 DEF RunServer, ServerTakes, ServerSends, ServerRegisters, ServerUnregisters,
                ProcessBacklog, BacklogCheck, ProcessOneBacklogRound, peers
  <2> QED BY <2>2, <2>3, <2>4, <2>5, <2>6, <2>7 DEF Next, RequestStep, vars, peers
<1>2. \A k \in Links : linkMap[k] \in {"leaf", "gone"} => linkMap'[k] \in {"leaf", "gone"}
  <2>1. CASE UNCHANGED linkMap
    BY <2>1
  <2>2. ASSUME NEW l \in Links, LinkStep(l)
        PROVE  \A k \in Links : linkMap[k] \in {"leaf", "gone"} => linkMap'[k] \in {"leaf", "gone"}
    BY <2>2 DEF LinkStep, RegisterUntrustedLink, TrustLink, BindRoute, UnregisterLink, LinkGone,
                LinkTypes
  <2>3. CASE UNCHANGED vars \/ (\E l \in Links : Read(l)) \/ (\E p \in Requests : RequestStep(p))
             \/ RunServer \/ ProcessBacklog
    BY <2>3 DEF vars, tables, Read, RequestStep, Ask, Cancel, Respond,
                RunServer, ServerTakes, ServerSends, ServerRegisters, ServerUnregisters,
                ProcessBacklog, BacklogCheck, ProcessOneBacklogRound
  <2> QED BY <2>1, <2>2, <2>3 DEF Next
<1> QED BY <1>1, <1>2 DEF AskedByLeaf

(* An error is no request.                                                 *)
LEMMA AdmittedRequests ==
  ASSUME MessageTypes, NEW m \in Messages, m.ingress \in Links, Admitted(m), NEW q \in Requests,
         Asks(q, m) => linkMap[m.ingress] # "leaf"
  PROVE  /\ HasRequest(q, inputCh)' <=> HasRequest(q, inputCh)
         /\ \A k \in Links : HasRequest(q, Queue(k))' <=> HasRequest(q, Queue(k))
<1>1. CASE linkMap[m.ingress] = "leaf" /\ ToServer(m) /\ UNCHANGED queues
  <2>1. \A k \in Links : Queue(k)' = Queue(k)
    BY <1>1 DEF Queue, queues
  <2>2. \A k \in Links : SameQueue(q, k)
    BY <2>1, QueueSame
  <2>3. inputCh' = Append(inputCh, m) /\ ~Asks(q, m)
    BY <1>1 DEF ToServer
  <2> QED BY <2>2, <2>3, InputGrows DEF SameQueue
<1>2. ASSUME SendRpcMessageToLink(m.ingress, Message("response", m.id, Failed, NoLink)),
             UNCHANGED inputCh
      PROVE  /\ HasRequest(q, inputCh)' <=> HasRequest(q, inputCh)
             /\ \A k \in Links : HasRequest(q, Queue(k))' <=> HasRequest(q, Queue(k))
  <2> DEFINE rs == Message("response", m.id, Failed, NoLink)
             l == m.ingress
  <2>1. rs \in Messages /\ ~Asks(q, rs)
    BY DEF Message, Messages, Numbers, Asks
  <2>2. SendRpcMessageToLink(l, rs) /\ l \in Links
    BY <1>2
  <2> HIDE DEF rs, l
  <2>3. \A k \in Links : Queue(k)' = IF k = l THEN Append(Queue(l), rs) ELSE Queue(k)
    BY <2>1, <2>2, SendIs
  <2>4. \A k \in Links : k # l => SameQueue(q, k)
    BY <2>3, QueueSame
  <2>5. HasRequest(q, Queue(l))' <=> HasRequest(q, Queue(l))
    BY <2>1, <2>2, <2>3, QueueGrows
  <2>6. SameInput(q)
    BY <1>2, InputSame
  <2> QED BY <2>4, <2>5, <2>6 DEF SameQueue, SameInput
<1> QED BY <1>1, <1>2 DEF Admitted

(* What is heard of was heard of before, or a trusted link asks it now.    *)
LEMMA HeardBefore ==
  ASSUME Inv, [Next]_vars, NEW q \in Requests, HeardOf(q)'
  PROVE  HeardOf(q) \/ AskedByLeaf(q)'
<1> USE DEF HeardOf, UnderWay, Queued
<1>1. TypeOK /\ MessageTypes /\ PeerTypes
  BY DEF Inv, BaseInv, TypeOK
<1>2. ASSUME UNCHANGED <<inputCh, server, clientCh, linkMsgBacklog, answering>>
      PROVE  HeardOf(q)
  <2>1. SameInput(q) /\ SameServer(q)
    BY <1>1, <1>2, InputSame, ServerSame
  <2>2. \A k \in Links : Loses(q, k)
    BY <1>1, <1>2, QueuesSame
  <2> QED BY <1>2, <2>1, <2>2 DEF SameInput, SameServer, Loses
<1>3. ASSUME NEW p \in Requests, NEW m \in Messages, m.ingress \in Links, Admitted(m),
             Asks(q, m) => linkMap[m.ingress] # "leaf", UNCHANGED <<server, answering>>
      PROVE  HeardOf(q)
  <2>1. SameServer(q)
    BY <1>3, ServerSame
  <2> QED BY <1>1, <1>3, <2>1, AdmittedRequests DEF SameServer
<1>4. ASSUME NEW p \in Requests, NEW l \in Links, NEW t \in Targets, Ask(p, l, t)
      PROVE  HeardOf(q) \/ AskedByLeaf(q)'
  <2> DEFINE m == Message("request", p, 0, l)
  <2>1. m \in Messages /\ m.ingress = l /\ (Asks(q, m) => p = q)
    BY RouterAssumption DEF Message, Messages, Numbers, Asks
  <2>2. Admitted(m) /\ UNCHANGED <<linkMap, server, answering>>
    BY <1>4 DEF Ask, tables
  <2>3. asked'[p].by = l
    BY <1>1, <1>4 DEF Ask, PeerTypes
  <2> HIDE DEF m
  <2>4. CASE p = q /\ linkMap[l] = "leaf"
    BY <2>2, <2>3, <2>4 DEF AskedByLeaf
  <2>5. CASE ~(p = q /\ linkMap[l] = "leaf")
    BY <1>3, <2>1, <2>2, <2>5
  <2> QED BY <2>4, <2>5
<1>5. ASSUME NEW p \in Requests, Cancel(p)
      PROVE  HeardOf(q)
  <2> DEFINE m == Message("cancel", p, 0, asked[p].by)
  <2>1. m \in Messages /\ m.ingress \in Links /\ ~Asks(q, m)
    BY <1>1, <1>5, RouterAssumption DEF Message, Messages, Numbers, Asks, Cancel, Known, PeerTypes
  <2>2. Admitted(m) /\ UNCHANGED <<server, answering>>
    BY <1>5 DEF Cancel
  <2> HIDE DEF m
  <2> QED BY <1>3, <2>1, <2>2
<1>6. ASSUME NEW p \in Requests, NEW n \in 0 .. MaxResponses, Respond(p, n)
      PROVE  HeardOf(q)
  <2> DEFINE m == Message("response", p, n, answering[p].by)
  <2>1. m \in Messages /\ ~Asks(q, m)
    BY <1>1, RouterAssumption DEF Message, Messages, Numbers, PeerTypes, Asks
  <2>2. /\ inputCh' = inputCh \/ inputCh' = Append(inputCh, m)
        /\ UNCHANGED <<server, clientCh, linkMsgBacklog>>
    BY <1>6 DEF Respond, ToServer, queues
  <2> HIDE DEF m
  <2>3. HasRequest(q, inputCh)' => HasRequest(q, inputCh)
    <3>1. CASE inputCh' = inputCh
      BY <1>1, <3>1, InputSame DEF SameInput
    <3>2. CASE inputCh' = Append(inputCh, m)
      BY <1>1, <2>1, <3>2, InputGrows
    <3> QED BY <2>2, <3>1, <3>2
  <2>4. SameServer(q) /\ \A k \in Links : Loses(q, k)
    BY <1>1, <2>2, ServerSame, QueuesSame
  <2>5. answering'[q].by # NoLink => answering[q].by # NoLink
    BY <1>1, <1>6 DEF Respond, PeerTypes, Known
  <2> QED BY <2>3, <2>4, <2>5 DEF SameServer, Loses
<1>7. ASSUME NEW l \in Links, Read(l)
      PROVE  HeardOf(q)
  <2>1. PICK m : m = Head(clientCh[l])
    OBVIOUS
  <2>2. /\ UNCHANGED <<inputCh, server>> /\ clientCh[l] # <<>>
        /\ clientCh' = [clientCh EXCEPT ![l] = Tail(@)] /\ linkMsgBacklog' = linkMsgBacklog
    BY <1>7 DEF Read
  <2>3. /\ m \in Messages /\ Queue(l) # <<>> /\ m = Head(Queue(l))
        /\ \A k \in Links : Queue(k)' = IF k = l THEN Tail(Queue(l)) ELSE Queue(k)
    BY <1>1, <2>1, <2>2, ReadIs
  <2>4. SameServer(q) /\ SameInput(q)
    BY <1>1, <2>2, ServerSame, InputSame
  <2>5. HasRequest(q, Queue(l)) <=> HasRequest(q, Queue(l))' \/ Asks(q, m)
    BY <1>1, <2>3, QueueShrinks
  <2>6. \A k \in Links : k # l => SameQueue(q, k)
    BY <1>1, <2>3, QueueSame
  <2>7. answering'[q].by # NoLink => answering[q].by # NoLink \/ Asks(q, m)
    BY <1>1, <1>7, <2>1, <2>3 DEF Read, PeerTypes, Asks, Messages
  <2> QED BY <2>4, <2>5, <2>6, <2>7 DEF SameServer, SameInput, SameQueue
<1>8. CASE ServerTakes
  <2>1. PICK m : m = Head(inputCh)
    OBVIOUS
  <2>2. /\ inputCh # <<>> /\ inputCh' = Tail(inputCh)
        /\ UNCHANGED <<clientCh, linkMsgBacklog, answering>>
    BY <1>8 DEF ServerTakes, queues, peers
  <2>3. m \in Messages /\ TakenAs(m, server')
    BY <1>1, <1>8, <2>1, TakenIs
  <2>4. HasRequest(q, inputCh) <=> HasRequest(q, inputCh)' \/ Asks(q, m)
    BY <1>1, <2>1, <2>2, InputShrinks
  <2>5. (Sending(q)' => Asks(q, m)) /\ ~Registering(q)'
    <3>1. CASE server' = Idle \/ server' = [Idle EXCEPT !.at = "unregister", !.msg = m]
      <4>1. CASE server' = Idle
        <5>1. server'.at = "idle"
          BY <4>1 DEF Idle
        <5> QED BY <5>1 DEF Sending, Registering
      <4>2. CASE server' = [Idle EXCEPT !.at = "unregister", !.msg = m]
        <5>1. server'.at = "unregister"
          BY <4>2 DEF Idle
        <5> QED BY <5>1 DEF Sending, Registering
      <4> QED BY <3>1, <4>1, <4>2
    <3>2. ASSUME NEW to \in Links, NEW n \in {m, Message("response", m.id, Failed, NoLink)},
                 server' = [at |-> "send", msg |-> n, to |-> to]
          PROVE  (Sending(q)' => Asks(q, m)) /\ ~Registering(q)'
      <4>1. n.id = m.id /\ (n.kind = "request" => m.kind = "request")
        BY DEF Message
      <4>2. CASE n.id # q
        BY <3>2, <4>2, HandsOfOthers
      <4>3. CASE n.id = q
        <5>1. (Sending(q)' <=> n.kind = "request") /\ ~Registering(q)'
          BY <3>2, <4>3, HandsAre
        <5> QED BY <4>1, <4>3, <5>1 DEF Asks
      <4> QED BY <4>2, <4>3
    <3> QED BY <2>3, <3>1, <3>2 DEF TakenAs
  <2>6. \A k \in Links : Loses(q, k)
    BY <1>1, <2>2, QueuesSame
  <2> QED BY <2>2, <2>4, <2>5, <2>6 DEF Loses
<1>9. CASE ServerSends
  <2>1. PICK m \in Messages, l \in Links : m = server.msg /\ l = server.to
    BY <1>1, <1>9 DEF MessageTypes, ServerSends
  <2>2. /\ SendRpcMessageToLink(l, m) /\ UNCHANGED <<inputCh, answering>>
        /\ server.at = "send"
        /\ server' = CASE m.kind = "request"  -> [server EXCEPT !.at = "register"]
                       [] m.kind = "response" -> AfterResponse(m)
                       [] m.kind = "cancel"   -> Idle
    BY <1>9, <2>1 DEF ServerSends, peers
  <2>3. \A k \in Links : Queue(k)' = IF k = l THEN Append(Queue(l), m) ELSE Queue(k)
    BY <1>1, <2>2, SendIs
  <2>4. HasRequest(q, Queue(l))' <=> HasRequest(q, Queue(l)) \/ Asks(q, m)
    BY <1>1, <2>3, QueueGrows
  <2>5. \A k \in Links : k # l => SameQueue(q, k)
    BY <1>1, <2>3, QueueSame
  <2>6. Asks(q, m) => Sending(q)
    BY <2>1, <2>2 DEF Sending
  <2>7. ~Sending(q)' /\ (Registering(q)' => Asks(q, m))
    <3>1. CASE m.kind = "request"
      <4>1. server'.at = "register" /\ server'.msg = m
        BY <1>1, <2>1, <2>2, <3>1 DEF MessageTypes
      <4> QED BY <3>1, <4>1 DEF Sending, Registering, Asks
    <3>2. CASE m.kind \in {"response", "cancel"}
      <4>1. server'.at \in {"idle", "unregister"}
        BY <2>2, <3>2 DEF AfterResponse, Idle
      <4> QED BY <4>1 DEF Sending, Registering
    <3> QED BY <3>1, <3>2 DEF Messages
  <2>8. SameInput(q)
    BY <1>1, <2>2, InputSame
  <2> QED BY <2>2, <2>4, <2>5, <2>6, <2>7, <2>8 DEF SameQueue, SameInput
<1>10. CASE ServerRegisters \/ ServerUnregisters
  <2>1. server' = Idle /\ UNCHANGED <<inputCh, clientCh, linkMsgBacklog, answering>>
    BY <1>10 DEF ServerRegisters, ServerUnregisters, queues, peers
  <2>2. ~Sending(q)' /\ ~Registering(q)'
    BY <2>1 DEF Sending, Registering, Idle
  <2>3. SameInput(q) /\ \A k \in Links : Loses(q, k)
    BY <1>1, <2>1, InputSame, QueuesSame
  <2> QED BY <2>1, <2>2, <2>3 DEF SameInput, Loses
<1>11. CASE ProcessBacklog
  <2>1. UNCHANGED <<inputCh, server, answering>>
    BY <1>11 DEF ProcessBacklog, BacklogCheck, ProcessOneBacklogRound, peers
  <2>2. SameInput(q) /\ SameServer(q) /\ \A k \in Links : Loses(q, k)
    BY <1>1, <1>11, <2>1, InputSame, ServerSame, BacklogLoses
  <2> QED BY <2>1, <2>2 DEF SameInput, SameServer, Loses
<1>12. CASE UNCHANGED vars \/ \E l \in Links : LinkStep(l)
  <2>1. UNCHANGED <<inputCh, server, clientCh, linkMsgBacklog, answering>>
    BY <1>12 DEF vars, queues, peers, LinkStep, RegisterUntrustedLink, TrustLink, BindRoute,
                 UnregisterLink, LinkGone
  <2> QED BY <1>2, <2>1
<1> QED BY <1>4, <1>5, <1>6, <1>7, <1>8, <1>9, <1>10, <1>11, <1>12
    DEF Next, RequestStep, RunServer

-----------------------------------------------------------------------------
LEMMA InitOrder ==
  ASSUME Init, NEW q \in Requests
  PROVE  Orderly(q) /\ ~HeardOf(q)
<1>1. /\ inputCh = <<>> /\ server.at = "idle" /\ asked[q].by = NoLink
      /\ answering[q].by = NoLink /\ ~answering[q].trusted /\ got[q] = <<>>
      /\ \A l \in Links : clientCh[l] = <<>> /\ linkMsgBacklog[l] = <<>>
  BY DEF Init, Idle, Nobody, NoAnswer
<1>2. \A l \in Links : Queue(l) = <<>>
  <2>1. <<>> \o <<>> = <<>>
    BY EmptySeq, ConcatEmptySeq
  <2> QED BY <1>1, <2>1 DEF Queue
<1>3. ~HasRequest(q, <<>>) /\ OneRequest(q, <<>>) /\ Answered(q, <<>>) = {}
  <2>1. DOMAIN <<>> = {}
    BY EmptySeq
  <2> QED BY <2>1 DEF HasRequest, OneRequest, Answered
<1>4. ~Sending(q) /\ InHand(q) = {} /\ ~Registering(q) /\ ~Unregistering(q)
  BY <1>1, HandsEmpty
<1>5. ~Queued(q)
  BY <1>2, <1>3 DEF Queued
<1>6. RequestOnce(q)
  BY <1>1, <1>2, <1>3, <1>5 DEF RequestOnce
<1>7. NoneSent(q)
  BY <1>1, <1>2, <1>3, <1>4 DEF NoneSent
<1>8. FirstAsked(q)
  BY <1>1, <1>3, <1>4, <1>5, <1>7 DEF FirstAsked, UnderWay
<1>9. ~HeardOf(q)
  BY <1>1, <1>3, <1>4, <1>5 DEF HeardOf, UnderWay
<1> QED BY <1>1, <1>5, <1>6, <1>8, <1>9 DEF Orderly

LEMMA NextKeepsInv == Inv /\ [Next]_vars => Inv'
<1> SUFFICES ASSUME Inv, [Next]_vars PROVE Inv'
  OBVIOUS
<1>1. BaseInv'
  BY NextKeepsBase DEF Inv
<1>2. ASSUME NEW q \in Requests
      PROVE  Orderly(q)'
  <2>1. CASE UNCHANGED vars
    <3>1. UNCHANGED <<linkMap, rpcMap, inputCh, server, clientCh, linkMsgBacklog, asked, answering, got>>
      BY <2>1 DEF vars, tables, queues, peers
    <3>2. BaseInv /\ Orderly(q) /\ MessageTypes
      BY DEF Inv, BaseInv, TypeOK
    <3>3. SamePeers(q)
      BY <3>1, <3>2, KnownBefore DEF SamePeers
    <3> QED BY <3>1, <3>2, <3>3, ServerSame, InputSame, QueuesSame, Unconcerned
  <2>2. CASE \E l \in Links : LinkStep(l) \/ Read(l)
    BY <2>2, LinkKeepsOrder, ReadKeepsOrder
  <2>3. CASE \E p \in Requests : RequestStep(p)
    BY <2>3, AskKeepsOrder, CancelKeepsOrder, RespondKeepsOrder DEF RequestStep
  <2>4. CASE RunServer
    BY <2>4, TakesKeepsOrder, SendsKeepsOrder, RegistersKeepsOrder, UnregistersKeepsOrder DEF RunServer
  <2>5. CASE ProcessBacklog
    BY <2>5, BacklogKeepsOrder
  <2> QED BY <2>1, <2>2, <2>3, <2>4, <2>5 DEF Next
<1>3. ASSUME NEW q \in Requests, HeardOf(q)'
      PROVE  AskedByLeaf(q)'
  BY <1>3, HeardBefore, AskerStaysLeaf DEF Inv, LeavesHeard
<1> QED BY <1>1, <1>2, <1>3 DEF Inv, LeavesHeard

(* The request, the routing entry and the responses of each question are   *)
(* always in order.                                                        *)
THEOREM InvHolds == Spec => []Inv
<1>1. Init => Inv
  BY InitBase, InitOrder DEF Inv, LeavesHeard
<1> QED BY <1>1, NextKeepsInv, PTL DEF Spec

LEMMA LineIsInOrder ==
  ASSUME MessageTypes, PeerTypes, NEW q \in Requests, asked[q].by \in Links, Line(q)
  PROVE  WaitsInOrder(q, Queue(asked[q].by))
<1> DEFINE s == Queue(asked[q].by)
           last == answering[q].last
           L == Len(got[q])
           W == Waiting(q)
           R == InHand(q) \union Answered(q, inputCh)
<1>1. L \in Nat /\ last \in Nat
  <2>1. got[q] \in Seq(Numbers)
    BY DEF PeerTypes
  <2>2. last \in 0 .. MaxResponses
    BY DEF PeerTypes
  <2> QED BY <2>1, <2>2, LenProperties, RouterAssumption
<1>2. s \in Seq(Messages)
  BY QueueIs
<1>3. DOMAIN s \subseteq Nat
  BY <1>2, LenProperties
<1>4. /\ W = Answered(q, s)
      /\ \A k \in DOMAIN s : Answers(q, s[k]) => s[k].n \in W
      /\ \A n \in W : \E k \in DOMAIN s : Answers(q, s[k]) /\ s[k].n = n
  BY DEF Waiting, Answered
<1>5. /\ L <= last + 1 /\ (L = last + 1 => Final \notin W)
      /\ \A n \in W : n \in 0 .. last /\ (n = Final \/ n > L)
  BY DEF Line, InNumbers
<1>6. \A n \in L + 1 .. last : n \in W \union R
  BY DEF Line, NothingMissing
<1>7. /\ \A i, j \in DOMAIN s : i < j /\ Answers(q, s[i]) /\ Answers(q, s[j]) => Before(s[i].n, s[j].n)
      /\ \A a \in W, b \in R : b = Final \/ Before(a, b)
  BY DEF Line, InLine, Rises
<1>8. \A n : Place(q, n) = IF n = Final THEN last + 1 ELSE n
  BY DEF Place
<1> HIDE DEF s, last, L, W, R
<1>9. ASSUME NEW k \in DOMAIN s, Answers(q, s[k])
      PROVE  /\ Place(q, s[k].n) \in L + 1 .. last + 1
             /\ \A i \in 1 .. k - 1 : Answers(q, s[i]) => Place(q, s[i].n) < Place(q, s[k].n)
             /\ \A n \in L + 1 .. Place(q, s[k].n) - 1 :
                  \E i \in 1 .. k - 1 : Answers(q, s[i]) /\ s[i].n = n
  <2>1. PICK p : p = s[k].n
    OBVIOUS
  <2>2. p \in W /\ p \in 0 .. last /\ (p = Final \/ p > L)
    BY <1>4, <1>5, <1>9, <2>1
  <2>3. Place(q, p) = IF p = Final THEN last + 1 ELSE p
    BY <1>8
  <2>4. Place(q, p) \in L + 1 .. last + 1
    <3>1. CASE p = Final
      <4>1. L # last + 1
        BY <1>5, <2>2, <3>1
      <4>2. L <= last
        BY <1>1, <1>5, <4>1
      <4> QED BY <1>1, <2>3, <3>1, <4>2
    <3>2. CASE p # Final
      BY <1>1, <2>2, <2>3, <3>2
    <3> QED BY <3>1, <3>2
  <2>5. k \in Nat /\ \A i \in 1 .. k - 1 : i \in DOMAIN s /\ i < k
    <3>1. DOMAIN s = 1 .. Len(s) /\ Len(s) \in Nat
      BY <1>2, LenProperties
    <3> QED BY <3>1
  <2>6. ASSUME NEW i \in 1 .. k - 1, Answers(q, s[i])
        PROVE  Place(q, s[i].n) < Place(q, p)
    <3>1. PICK o : o = s[i].n
      OBVIOUS
    <3>2. Before(o, p) /\ o \in 0 .. last
      BY <1>4, <1>5, <1>7, <1>9, <2>1, <2>5, <2>6, <3>1
    <3>3. Place(q, o) = o /\ o # Final
      BY <1>8, <3>2 DEF Before
    <3>4. CASE p = Final
      BY <1>1, <2>3, <3>1, <3>2, <3>3, <3>4
    <3>5. CASE p # Final
      BY <2>3, <3>1, <3>2, <3>3, <3>5 DEF Before
    <3> QED BY <3>4, <3>5
  <2>7. ASSUME NEW n \in L + 1 .. Place(q, p) - 1
        PROVE  \E i \in 1 .. k - 1 : Answers(q, s[i]) /\ s[i].n = n
    <3>1. n \in L + 1 .. last /\ n # Final /\ n < Place(q, p)
      BY <1>1, <2>4 DEF Final
    <3>2. ~Before(p, n) /\ n # p
      <4>1. CASE p = Final
        BY <3>1, <4>1 DEF Before
      <4>2. CASE p # Final
        <5>1. n < p
          BY <2>3, <3>1, <4>2
        <5> QED BY <1>1, <2>2, <3>1, <5>1 DEF Before
      <4> QED BY <4>1, <4>2
    <3>3. n \in W
      BY <1>6, <1>7, <2>2, <3>1, <3>2
    <3>4. PICK i \in DOMAIN s : Answers(q, s[i]) /\ s[i].n = n
      BY <1>4, <3>3
    <3>5. i # k /\ ~(k < i)
      BY <1>7, <1>9, <2>1, <3>2, <3>4
    <3>6. i \in 1 .. k - 1
      <4>1. DOMAIN s = 1 .. Len(s) /\ Len(s) \in Nat
        BY <1>2, LenProperties
      <4> QED BY <3>5, <4>1
    <3> QED BY <3>4, <3>6
  <2> QED BY <2>1, <2>4, <2>6, <2>7
<1> QED BY <1>9 DEF WaitsInOrder, s, last, L

(* Whoever asked a trusted leaf is given its responses in order, without   *)
(* holes and with one last response at most: whatever passes through       *)
(* runServer, clients and backlogs, and however links and routes change.   *)
THEOREM InOrder == Spec => []ResponsesInOrder
<1>1. Inv => ResponsesInOrder
  <2> SUFFICES ASSUME Inv, NEW q \in Requests, Known(asked[q].by), answering[q].trusted
               PROVE  ReadInOrder(q) /\ WaitsInOrder(q, Queue(asked[q].by))
    BY DEF ResponsesInOrder
  <2>1. MessageTypes /\ PeerTypes /\ Line(q)
    BY DEF Inv, BaseInv, TypeOK, Orderly
  <2>2. asked[q].by \in Links
    BY <2>1 DEF PeerTypes, Known
  <2> QED BY <2>1, <2>2, LineIsInOrder DEF Line
<1> QED BY <1>1, InvHolds, PTL
=============================================================================
