-------------------------- MODULE ConnectionProofs --------------------------
(***************************************************************************)
(* The two kinds of connections.  What is left of an SSH connection when   *)
(* nobody holds lifecycleLock, for any number of dials and callers.  And   *)
(* that the job manager serves one client, for any number of connections   *)
(* and calls, overlapping or not, and everything is about that one client  *)
(* when calls that did not overlap have come to rest.                      *)
(***************************************************************************)
EXTENDS ConnController, JobRoutes, TLAPS

-----------------------------------------------------------------------------
(* ConnController.                                                         *)


ConnectStages == {"dial", "start", "register", "enabled", "disabled", "finish"}
CloseStages   == {"close", "clear"}

(* What the holder of lifecycleLock may rely on, stage by stage.           *)
HolderOK ==
  /\ holder \in Callers => caller[holder] \in {"ensures", "connects", "closes"}
  /\ stage \in ConnectStages =>
       /\ holder \in Callers /\ caller[holder] # "closes"
       /\ status = "connecting"
       /\ monitor = client
       /\ client = NoClient <=> stage = "dial"
  /\ stage \in CloseStages => status \notin {"connecting", "connected"}
  /\ stage = "close" => monitor = client
  /\ stage = "clear" => monitor = NoClient /\ \A c \in Clients : alive[c] # "up"

(* No client but the current one is ever open, whoever holds the lock.     *)
OneOpen == \A c \in Clients : alive[c] = "up" => client = c

(* The inductive invariant: RestIsClean says nothing while the lock is     *)
(* held, so what leads to it has to be said of every stage.                *)
Inv == TypeOK /\ HolderOK /\ OneOpen /\ RestIsClean /\ HealthIsCurrent

(* Clients are not 0, which stands for none.                               *)
LEMMA NoClientIsNone == NoClient \notin Clients
  BY MaxDialsAssumption DEF NoClient, Clients

(* A connection nobody has dialled.                                        *)
LEMMA InvInit == Init => Inv
  BY HoldersAssumption, NoClientIsNone DEF Init, Inv, TypeOK, HolderOK, OneOpen, RestIsClean,
     HealthIsCurrent, MaybeClient, ConnectStages, CloseStages

(* The steps of the callers, up to and including the check of Connect and  *)
(* Close under the lock.                                                   *)
LEMMA CallKeepsInv ==
  ASSUME Inv, NEW k \in Callers, CallStep(k)
  PROVE  Inv'
<1> USE HoldersAssumption, NoClientIsNone
    DEF Inv, TypeOK, HolderOK, OneOpen, RestIsClean, HealthIsCurrent, MaybeClient, ConnectStages,
        CloseStages, fields, locked, waits, Idle, Now
<1>1. CASE EnsureConnection(k)
  BY <1>1 DEF EnsureConnection
<1>2. CASE WaitForConnect(k)
  BY <1>2 DEF WaitForConnect
<1>3. CASE ConnConnect(k)
  BY <1>3 DEF ConnConnect
<1>4. CASE ConnDisconnect(k)
  BY <1>4 DEF ConnDisconnect
<1>5. CASE Connect(k)
  BY <1>5 DEF Connect, ConnectAllowed, InUse
<1>6. CASE Close(k)
  BY <1>6 DEF Close, InUse
<1> QED BY <1>1, <1>2, <1>3, <1>4, <1>5, <1>6 DEF CallStep

(* The steps of whoever holds the lock.                                    *)
LEMMA HolderKeepsInv ==
  ASSUME Inv, HolderStep
  PROVE  Inv'
<1> USE HoldersAssumption, NoClientIsNone
    DEF Inv, TypeOK, HolderOK, OneOpen, RestIsClean, HealthIsCurrent, MaybeClient, ConnectStages,
        CloseStages, fields, locked, waits, Now, Unlock
<1>1. CASE DialFails
  BY <1>1 DEF DialFails
<1>2. CASE StartConnServer
  BY <1>2 DEF StartConnServer
<1>3. CASE ConnServerReady
  BY <1>3 DEF ConnServerReady
<1>4. CASE PersistWshInstalled
  BY <1>4 DEF PersistWshInstalled
<1>5. CASE Connected
  BY <1>5 DEF Connected
<1>6. CASE CloseClient
  BY <1>6 DEF CloseClient
<1>7. CASE ClearFields
  BY <1>7 DEF ClearFields
<1> QED BY <1>1, <1>2, <1>3, <1>4, <1>5, <1>6, <1>7 DEF HolderStep

(* The steps of the clients and of the goroutines made for them.           *)
LEMMA ClientKeepsInv ==
  ASSUME Inv, NEW c \in Clients, ClientStep(c)
  PROVE  Inv'
<1> USE HoldersAssumption, NoClientIsNone
    DEF Inv, TypeOK, HolderOK, OneOpen, RestIsClean, HealthIsCurrent, MaybeClient, ConnectStages,
        CloseStages, fields, locked, waits
<1>1. CASE Dialled(c)
  BY <1>1 DEF Dialled
<1>2. CASE WaiterStarts(c)
  BY <1>2 DEF WaiterStarts, Watched
<1>3. CASE ClientWaitReturns(c)
  BY <1>3 DEF ClientWaitReturns
<1>4. CASE WaitForDisconnect(c)
  BY <1>4 DEF WaitForDisconnect
<1>5. CASE GoesDown(c)
  BY <1>5 DEF GoesDown
<1>6. CASE SessionEnds(c)
  BY <1>6 DEF SessionEnds
<1>7. CASE \E h \in {"good", "trouble"} : SetConnHealthStatus(c, h)
  BY <1>7 DEF SetConnHealthStatus, IsCurrent
<1> QED BY <1>1, <1>2, <1>3, <1>4, <1>5, <1>6, <1>7 DEF ClientStep

(* The invariant holds in every state: Connect, Close, waitForDisconnect   *)
(* and the goroutines that do not take the lock keep it.                   *)
THEOREM InvHolds == Spec => []Inv
<1>1. Inv /\ [Next]_vars => Inv'
  <2> SUFFICES ASSUME Inv, [Next]_vars PROVE Inv'
    OBVIOUS
  <2>1. CASE Next
    BY <2>1, CallKeepsInv, HolderKeepsInv, ClientKeepsInv DEF Next
  <2>2. CASE UNCHANGED vars
    BY <2>2 DEF vars, fields, locked, waits, Inv, TypeOK, HolderOK, OneOpen, RestIsClean,
       HealthIsCurrent, MaybeClient, ConnectStages, CloseStages
  <2> QED BY <2>1, <2>2
<1> QED BY InvInit, <1>1, PTL DEF Spec

(* The fields of SSHConn keep their types, and waitForDisconnect never     *)
(* waits for a client that is nil.                                         *)
THEOREM TypeCorrect == Spec => []TypeOK
<1>1. Inv => TypeOK
  BY DEF Inv
<1> QED BY <1>1, InvHolds, PTL

(* Whatever late waitForDisconnect, session or monitor came between, a     *)
(* connection at rest is whole or there is nothing of it, and no ssh       *)
(* client is left open that nobody would close.                            *)
THEOREM NothingLeftOpen == Spec => []RestIsClean
<1>1. Inv => RestIsClean
  BY DEF Inv
<1> QED BY <1>1, InvHolds, PTL

(* The reports of a monitor that outlives its client are not taken for the *)
(* health of the next one.                                                 *)
THEOREM HealthOfCurrentClient == Spec => []HealthIsCurrent
<1>1. Inv => HealthIsCurrent
  BY DEF Inv
<1> QED BY <1>1, InvHolds, PTL

-----------------------------------------------------------------------------
(* JobRoutes.                                                              *)


(* What is cleaned up, recorded, looked at or authenticated has been       *)
(* dialled, and a call that is still to dial has not.                      *)
LinkedFirst ==
  /\ jobManagerMap # NoConn => HasLink(jobManagerMap)
  /\ \A c \in Conns :
       /\ call[c] \in {"none", "existing", "dial"} => ~HasLink(c)
       /\ call[c] \in {"auth", "wait", "add", "start", "failing", "done"} => HasLink(c)
       /\ call[c] = "existing" => existing[c] # NoConn /\ HasLink(existing[c])
       /\ cleanup[c] # "no" => HasLink(c)
       /\ auth[c] # "none" => HasLink(c)

(* A call goes on only when the job manager has attached its connection,   *)
(* and an attached connection that is still open is the attached client.   *)
AttachedIsOpen ==
  /\ \A c \in Conns : call[c] \in {"wait", "add", "start", "done"} => auth[c] = "attached"
  /\ \A c \in open : auth[c] = "attached" => attached = c

(* The inductive invariant: OneClient speaks of calls, whose steps say     *)
(* nothing of other connections; attachedClient of the job manager does.   *)
RoutesInv == RoutesTypeOK /\ LinkedFirst /\ AttachedIsOpen

(* No connection yet.                                                      *)
LEMMA RoutesInvInit == RoutesInit => RoutesInv
  BY DEF RoutesInit, RoutesInv, RoutesTypeOK, LinkedFirst, AttachedIsOpen, HasLink

(* The steps of the calls.                                                 *)
LEMMA RemoteCallKeepsInv ==
  ASSUME RoutesInv, NEW c \in Conns,
         RemoteStartJob(c) \/ RemoteReconnect(c) \/ RemoteCallStep(c)
  PROVE  RoutesInv'
<1> USE NoConnAssumption DEF RoutesInv, RoutesTypeOK, LinkedFirst, AttachedIsOpen,
    HasLink, remote, router
<1>1. CASE RemoteStartJob(c)
  BY <1>1 DEF RemoteStartJob, Begins, Over
<1>2. CASE RemoteReconnect(c)
  BY <1>2 DEF RemoteReconnect, Begins, Over
<1>3. CASE CloseExisting(c)
  BY <1>3 DEF CloseExisting, StartCleanup, Cleaned
<1>4. CASE Dial(c)
  BY <1>4 DEF Dial
<1>5. CASE Authenticated(c)
  BY <1>5 DEF Authenticated
<1>6. CASE WaitForRegister(c)
  BY <1>6 DEF WaitForRegister, Known, GivesUp
<1>7. CASE AddJobManagerConnection(c)
  BY <1>7 DEF AddJobManagerConnection
<1>8. CASE StartJob(c)
  BY <1>8 DEF StartJob
<1>9. CASE Fails(c)
  BY <1>9 DEF Fails, StartCleanup, Cleaned
<1> QED BY <1>1, <1>2, <1>3, <1>4, <1>5, <1>6, <1>7, <1>8, <1>9 DEF RemoteCallStep

(* The steps of a cleanup and the loss of a connection.                    *)
LEMMA CleanupKeepsInv ==
  ASSUME RoutesInv, NEW c \in Conns, CleanupStep(c) \/ Lost(c)
  PROVE  RoutesInv'
<1> USE NoConnAssumption DEF RoutesInv, RoutesTypeOK, LinkedFirst, AttachedIsOpen,
    HasLink, remote, router
<1>1. CASE ReaderEnds(c)
  BY <1>1 DEF ReaderEnds, StartCleanup
<1>2. CASE RoutesOfLink(c)
  BY <1>2 DEF RoutesOfLink
<1>3. CASE UnbindRouteLocally(c)
  BY <1>3 DEF UnbindRouteLocally
<1>4. CASE UnannounceUpstream(c)
  BY <1>4 DEF UnannounceUpstream
<1>5. CASE DeleteLink(c)
  BY <1>5 DEF DeleteLink
<1>6. CASE RemoveJobManagerConnection(c)
  BY <1>6 DEF RemoveJobManagerConnection
<1>7. CASE Lost(c)
  BY <1>7 DEF Lost
<1> QED BY <1>1, <1>2, <1>3, <1>4, <1>5, <1>6, <1>7 DEF CleanupStep

(* A disconnect cleans up a connection that is in the map.                 *)
LEMMA DisconnectKeepsInv ==
  ASSUME RoutesInv, RemoteDisconnect
  PROVE  RoutesInv'
  BY NoConnAssumption DEF RemoteDisconnect, StartCleanup, RoutesInv, RoutesTypeOK, LinkedFirst,
     AttachedIsOpen, HasLink, remote, router

(* The steps of an authentication.  SetAttachedClient closes the client    *)
(* that was attached before, which is the only other one that counts.      *)
LEMMA AuthKeepsInv ==
  ASSUME RoutesInv, NEW c \in Conns, AuthStep(c)
  PROVE  RoutesInv'
<1> USE NoConnAssumption DEF RoutesInv, RoutesTypeOK, LinkedFirst, AttachedIsOpen,
    HasLink, remote, router
<1>1. CASE AuthenticateJobManager(c)
  BY <1>1 DEF AuthenticateJobManager, Known
<1>2. CASE TrustLink(c)
  BY <1>2 DEF TrustLink, Trusted, Known
<1>3. CASE BindRouteLocally(c)
  BY <1>3 DEF BindRouteLocally, Known
<1>4. CASE AnnounceUpstream(c)
  BY <1>4 DEF AnnounceUpstream
<1>5. CASE AuthenticateSelf(c)
  BY <1>5 DEF AuthenticateSelf
<1>6. CASE SetAttachedClient(c)
  BY <1>6 DEF SetAttachedClient, KicksOut
<1> QED BY <1>1, <1>2, <1>3, <1>4, <1>5, <1>6 DEF AuthStep

(* The invariant holds in every state of JobRoutes: connectToJobManager,   *)
(* its cleanup and the two authentications keep it.                        *)
THEOREM RoutesInvHolds == RoutesSpec => []RoutesInv
<1>1. RoutesInv /\ [RoutesNext]_routesVars => RoutesInv'
  <2> SUFFICES ASSUME RoutesInv, [RoutesNext]_routesVars PROVE RoutesInv'
    OBVIOUS
  <2>1. CASE RoutesNext
    BY <2>1, RemoteCallKeepsInv, CleanupKeepsInv, DisconnectKeepsInv, AuthKeepsInv DEF RoutesNext
  <2>2. CASE UNCHANGED routesVars
    BY <2>2 DEF routesVars, remote, router, RoutesInv, RoutesTypeOK, LinkedFirst,
       AttachedIsOpen, HasLink
  <2> QED BY <2>1, <2>2
<1> QED BY RoutesInvInit, <1>1, PTL DEF RoutesSpec

(* The links, cleanups, calls and maps keep their types; a link is gone    *)
(* exactly when its cleanup has got past UnregisterLink.                   *)
THEOREM RoutesTypeCorrect == RoutesSpec => []RoutesTypeOK
<1>1. RoutesInv => RoutesTypeOK
  BY DEF RoutesInv
<1> QED BY <1>1, RoutesInvHolds, PTL

(* SetAttachedClient of the job manager and the order of authentication    *)
(* and reply leave one open connection at most among those whose call      *)
(* reported success, for any number of calls however they overlap.         *)
THEOREM OneClientServed == RoutesSpec => []OneClient
<1>1. RoutesInv => OneClient
  BY DEF RoutesInv, RoutesTypeOK, AttachedIsOpen, OneClient
<1> QED BY <1>1, RoutesInvHolds, PTL
-----------------------------------------------------------------------------
(* What Settled needs, which says where everything is when it has come to  *)
(* rest, and so nothing of the states on the way there.                    *)

Uncleaned(c) == HasLink(c) /\ ~Cleaned(c)

Serial == \A c, d \in Conns : ~Over(c) /\ ~Over(d) => c = d

(* A connection that is not cleaned up yet is in jobManagerMap or its call *)
(* goes on; a later call has found it and waits for it.                    *)
FoundByCalls ==
  \A c \in Conns : Uncleaned(c) =>
    /\ call[c] # "failed"
    /\ call[c] \in {"start", "done"} => jobManagerMap = c
    /\ \A d \in Conns \ {c} :
         /\ call[d] \in {"none", "existing", "done", "failed"}
         /\ call[d] = "existing" => existing[d] = c

(* What an authentication has done stands until the cleanup.               *)
BoundUntilCleanup ==
  \A c \in Conns : cleanup[c] = "no" =>
    /\ auth[c] \in {"trusted", "bound", "answered", "accepted", "attached"} => link[c] = "leaf"
    /\ auth[c] \in {"bound", "answered", "accepted", "attached"} => jobRoute = c
    /\ auth[c] \in {"answered", "accepted", "attached"} => upstream = "announce"

OpenIsUncleaned == \A c \in open : cleanup[c] = "no"

AloneInv ==
  OpenIsUncleaned /\ (~overlapped => Serial /\ FoundByCalls /\ BoundUntilCleanup)

(* There is never a second connection that could disturb the first.        *)
LEMMA OneUncleaned ==
  ASSUME RoutesInv, FoundByCalls, NEW c \in Conns, NEW d \in Conns, Uncleaned(c), Uncleaned(d)
  PROVE  c = d
  BY DEF RoutesInv, RoutesTypeOK, LinkedFirst, FoundByCalls, Uncleaned, HasLink

(* The steps of the calls.  A call has cleaned up what it found before it  *)
(* dials, and what it found was all there was.                             *)
LEMMA CallKeepsAlone ==
  ASSUME RoutesInv, AloneInv, NEW c \in Conns,
         RemoteStartJob(c) \/ RemoteReconnect(c) \/ RemoteCallStep(c)
  PROVE  AloneInv'
<1> USE NoConnAssumption DEF remote, router, AloneInv, OpenIsUncleaned, Serial, FoundByCalls,
        BoundUntilCleanup, Uncleaned, Cleaned, HasLink, Over, RoutesInv, RoutesTypeOK, LinkedFirst
<1>1. CASE RemoteStartJob(c)
  BY <1>1, OneUncleaned DEF RemoteStartJob, Begins
<1>2. CASE RemoteReconnect(c)
  <2>1. OpenIsUncleaned'
    BY <1>2 DEF RemoteReconnect
  <2>2. ASSUME ~overlapped' PROVE Serial' /\ FoundByCalls' /\ BoundUntilCleanup'
    <3>1. ~overlapped /\ (\A d \in Conns : Over(d)) /\ call[c] = "none"
      BY <1>2, <2>2 DEF RemoteReconnect, Begins
    <3>2. \A e \in Conns : Uncleaned(e) => e # c /\ jobManagerMap = e
      BY <3>1
    <3>3. /\ existing' = [existing EXCEPT ![c] = jobManagerMap]
          /\ call' = [call EXCEPT ![c] = IF jobManagerMap = NoConn THEN "dial" ELSE "existing"]
          /\ UNCHANGED <<jobManagerMap, link, cleanup>>
      BY <1>2 DEF RemoteReconnect
    <3>4. \A e \in Conns : Uncleaned(e)' => Uncleaned(e) /\ e # c /\ jobManagerMap = e
      BY <3>2, <3>3
    <3>5. FoundByCalls'
      BY <3>1, <3>3, <3>4
    <3>6. Serial' /\ BoundUntilCleanup'
      BY <1>2, <3>1 DEF RemoteReconnect
    <3> QED BY <3>5, <3>6
  <2> QED BY <2>1, <2>2
<1>3. CASE CloseExisting(c)
  BY <1>3, OneUncleaned DEF CloseExisting, StartCleanup
<1>4. CASE Dial(c)
  BY <1>4, OneUncleaned DEF Dial
<1>5. CASE Authenticated(c)
  BY <1>5, OneUncleaned DEF Authenticated
<1>6. CASE WaitForRegister(c)
  BY <1>6, OneUncleaned DEF WaitForRegister, Known, GivesUp
<1>7. CASE AddJobManagerConnection(c)
  BY <1>7, OneUncleaned DEF AddJobManagerConnection
<1>8. CASE StartJob(c)
  BY <1>8, OneUncleaned DEF StartJob
<1>9. CASE Fails(c)
  BY <1>9, OneUncleaned DEF Fails, StartCleanup
<1> QED BY <1>1, <1>2, <1>3, <1>4, <1>5, <1>6, <1>7, <1>8, <1>9 DEF RemoteCallStep

(* The steps of a cleanup and the loss of a connection.                    *)
LEMMA CleanupKeepsAlone ==
  ASSUME RoutesInv, AloneInv, NEW c \in Conns, CleanupStep(c) \/ Lost(c)
  PROVE  AloneInv'
<1> USE NoConnAssumption DEF remote, router, AloneInv, OpenIsUncleaned, Serial, FoundByCalls,
        BoundUntilCleanup, Uncleaned, Cleaned, HasLink, Over, RoutesInv, RoutesTypeOK, LinkedFirst
<1>1. CASE ReaderEnds(c)
  BY <1>1, OneUncleaned DEF ReaderEnds, StartCleanup
<1>2. CASE RoutesOfLink(c)
  BY <1>2, OneUncleaned DEF RoutesOfLink
<1>3. CASE UnbindRouteLocally(c)
  BY <1>3, OneUncleaned DEF UnbindRouteLocally
<1>4. CASE UnannounceUpstream(c)
  BY <1>4, OneUncleaned DEF UnannounceUpstream
<1>5. CASE DeleteLink(c)
  BY <1>5, OneUncleaned DEF DeleteLink
<1>6. CASE RemoveJobManagerConnection(c)
  BY <1>6, OneUncleaned DEF RemoveJobManagerConnection
<1>7. CASE Lost(c)
  BY <1>7, OneUncleaned DEF Lost
<1> QED BY <1>1, <1>2, <1>3, <1>4, <1>5, <1>6, <1>7 DEF CleanupStep

(* The steps of an authentication.                                         *)
LEMMA AuthKeepsAlone ==
  ASSUME RoutesInv, AloneInv, NEW c \in Conns, AuthStep(c)
  PROVE  AloneInv'
<1> USE NoConnAssumption DEF remote, router, AloneInv, OpenIsUncleaned, Serial, FoundByCalls,
        BoundUntilCleanup, Uncleaned, Cleaned, HasLink, Over, RoutesInv, RoutesTypeOK, LinkedFirst
<1>1. CASE AuthenticateJobManager(c)
  BY <1>1, OneUncleaned DEF AuthenticateJobManager
<1>2. CASE TrustLink(c)
  BY <1>2, OneUncleaned DEF TrustLink, Trusted, Known
<1>3. CASE BindRouteLocally(c)
  BY <1>3, OneUncleaned DEF BindRouteLocally, Known
<1>4. CASE AnnounceUpstream(c)
  BY <1>4, OneUncleaned DEF AnnounceUpstream
<1>5. CASE AuthenticateSelf(c)
  BY <1>5, OneUncleaned DEF AuthenticateSelf
<1>6. CASE SetAttachedClient(c)
  BY <1>6, OneUncleaned DEF SetAttachedClient, KicksOut
<1> QED BY <1>1, <1>2, <1>3, <1>4, <1>5, <1>6 DEF AuthStep

(* A disconnect cleans up what is in the map.                              *)
LEMMA DisconnectKeepsAlone ==
  ASSUME RoutesInv, AloneInv, RemoteDisconnect
  PROVE  AloneInv'
  BY NoConnAssumption, OneUncleaned
  DEF RemoteDisconnect, StartCleanup, remote, router, AloneInv, OpenIsUncleaned, Serial,
      FoundByCalls, BoundUntilCleanup, Uncleaned, Cleaned, HasLink, Over, RoutesInv, RoutesTypeOK,
      LinkedFirst

(* While calls do not overlap there is one connection at a time, and what  *)
(* authenticated it stands until its cleanup.                              *)
THEOREM OneAtATime == RoutesSpec => []AloneInv
<1>1. RoutesInit => AloneInv
  BY DEF RoutesInit, AloneInv, OpenIsUncleaned, Serial, FoundByCalls, BoundUntilCleanup, Uncleaned,
         HasLink, Over
<1>2. RoutesInv /\ AloneInv /\ [RoutesNext]_routesVars => AloneInv'
  <2> SUFFICES ASSUME RoutesInv, AloneInv, [RoutesNext]_routesVars PROVE AloneInv'
    OBVIOUS
  <2>1. CASE RoutesNext
    BY <2>1, CallKeepsAlone, CleanupKeepsAlone, DisconnectKeepsAlone, AuthKeepsAlone DEF RoutesNext
  <2>2. CASE UNCHANGED routesVars
    BY <2>2 DEF routesVars, remote, router, AloneInv, OpenIsUncleaned, Serial, FoundByCalls,
                BoundUntilCleanup, Uncleaned, Cleaned, HasLink, Over
  <2> QED BY <2>1, <2>2
<1> QED BY <1>1, <1>2, RoutesInvHolds, PTL DEF RoutesSpec

(* Whatever older connections, their late authentications and cleanups and *)
(* disconnects did: at rest, an open connection is the attached client,    *)
(* the job's route and in jobManagerMap, and the main server was told of   *)
(* the route last.                                                         *)
THEOREM RoutesSettle == RoutesSpec => []Settled
<1>1. RoutesInv /\ AloneInv => Settled
  <2> SUFFICES ASSUME RoutesInv, AloneInv, Quiet, ~overlapped, NEW c \in open
               PROVE  /\ attached = c /\ jobRoute = c /\ link[c] = "leaf"
                      /\ jobManagerMap = c /\ upstream = "announce"
    BY DEF Settled
  <2>1. c \in Conns /\ HasLink(c) /\ cleanup[c] = "no" /\ Over(c)
    BY DEF AloneInv, OpenIsUncleaned, RoutesInv, RoutesTypeOK, Quiet
  <2>2. call[c] = "done" /\ jobManagerMap = c
    BY <2>1 DEF AloneInv, FoundByCalls, Uncleaned, Cleaned, Over, RoutesInv, LinkedFirst
  <2>3. auth[c] = "attached" /\ attached = c
    BY <2>1, <2>2 DEF RoutesInv, AttachedIsOpen
  <2> QED BY <2>1, <2>2, <2>3 DEF AloneInv, BoundUntilCleanup
<1> QED BY <1>1, RoutesInvHolds, OneAtATime, PTL
=============================================================================
