----------------------------- MODULE JobRoutes -----------------------------
(***************************************************************************)
(* pkg/wshrpc/wshremote/wshremote_job.go: the connections that a remote    *)
(* host opens to one job manager, with what they move in its router        *)
(* (pkg/wshutil) and in the job manager (pkg/jobmanager).                  *)
(*                                                                         *)
(* A call of the main server starts the job or reconnects to it: it closes *)
(* the connection it finds, dials, registers a link, asks the job manager  *)
(* to authenticate over that link, waits for the job's route, and records  *)
(* the connection.  The job manager authenticates itself to the router in  *)
(* between, which binds the route.  A connection may be lost at any time;  *)
(* its cleanup runs once, in whichever goroutine comes first.              *)
(*                                                                         *)
(* Every call dials at most one connection and is known by it.             *)
(***************************************************************************)
CONSTANTS Conns, NoConn

ASSUME NoConnAssumption == NoConn \notin Conns

VARIABLES
  call,        (* where the call is                                         *)
  starter,     (* the call that is a RemoteStartJob                         *)
  existing,    (* the connection a call has found                           *)
  open,        (* connections that are not closed at either end             *)
  link,        (* their links in the router                                 *)
  cleanup,     (* how far cleanupOnce is                                    *)
  jobRoute,    (* routeMap, for the job's route                             *)
  upstream,    (* what was last queued for the main server about the route  *)
  jobManagerMap,
  auth,        (* AuthenticateToJobManager and, in it, AuthenticateJobManager *)
  attached,    (* attachedClient of the job manager                         *)
  overlapped   (* a call was made while another one was not over            *)

remote == <<call, starter, existing, jobManagerMap, overlapped>>
router == <<link, jobRoute, upstream>>
routesVars == <<remote, router, open, cleanup, auth, attached>>

Known(c)  == link[c] \in {"untrusted", "leaf"}
Over(c)   == call[c] \in {"none", "done", "failed"}
HasLink(c) == link[c] # "none"

RoutesTypeOK ==
  /\ call \in [Conns -> {"none", "existing", "dial", "auth", "wait", "add", "start",
                         "failing", "done", "failed"}]
  /\ existing \in [Conns -> Conns \union {NoConn}]
  /\ {starter, jobRoute, jobManagerMap, attached} \subseteq Conns \union {NoConn}
  /\ open \subseteq {c \in Conns : HasLink(c)}
  /\ link \in [Conns -> {"none", "untrusted", "leaf", "gone"}]
  /\ cleanup \in [Conns -> {"no", "unregister", "unbind", "unannounce", "delete",
                            "remove", "done"}]
  /\ \A c \in Conns : link[c] = "gone" <=> cleanup[c] \in {"remove", "done"}
  /\ upstream \in {"nothing", "announce", "unannounce"}
  /\ auth \in [Conns -> {"none", "verified", "trusted", "bound", "answered",
                         "accepted", "attached", "ended"}]
  /\ overlapped \in BOOLEAN

RoutesInit ==
  /\ call = [c \in Conns |-> "none"] /\ starter = NoConn
  /\ existing = [c \in Conns |-> NoConn]
  /\ open = {}
  /\ link = [c \in Conns |-> "none"] /\ cleanup = [c \in Conns |-> "no"]
  /\ jobRoute = NoConn /\ upstream = "nothing"
  /\ jobManagerMap = NoConn
  /\ auth = [c \in Conns |-> "none"] /\ attached = NoConn
  /\ overlapped = FALSE

-----------------------------------------------------------------------------
(* cleanup: whoever comes first closes the connection and goes on with it, *)
(* everybody else waits in cleanupOnce.Do until it is done.                *)

StartCleanup(c) ==
  /\ cleanup[c] = "no"
  /\ cleanup' = [cleanup EXCEPT ![c] = "unregister"]
  /\ open' = open \ {c}

CleanedSoon(c) == cleanup[c] # "no"            \* a mutant
Cleaned(c) == cleanup[c] = "done"

(* The goroutine that reads the connection.                                *)
ReaderEnds(c) ==
  /\ HasLink(c) /\ c \notin open
  /\ StartCleanup(c)
  /\ UNCHANGED <<remote, router, auth, attached>>

(* UnregisterLink: the routes of the link first, then the link.            *)
RoutesOfLink(c) ==
  /\ cleanup[c] = "unregister"
  /\ cleanup' = [cleanup EXCEPT ![c] = IF jobRoute = c THEN "unbind" ELSE "delete"]
  /\ UNCHANGED <<remote, router, open, auth, attached>>

UnbindRouteLocally(c) ==
  /\ cleanup[c] = "unbind"
  /\ cleanup' = [cleanup EXCEPT ![c] = "unannounce"]
  /\ jobRoute' = IF jobRoute = c THEN NoConn ELSE jobRoute
  /\ UNCHANGED <<remote, link, upstream, open, auth, attached>>

UnannounceUpstream(c) ==
  /\ cleanup[c] = "unannounce"
  /\ cleanup' = [cleanup EXCEPT ![c] = "delete"]
  /\ upstream' = "unannounce"
  /\ UNCHANGED <<remote, link, jobRoute, open, auth, attached>>

DeleteLink(c) ==
  /\ cleanup[c] = "delete"
  /\ cleanup' = [cleanup EXCEPT ![c] = "remove"]
  /\ link' = [link EXCEPT ![c] = "gone"]
  /\ UNCHANGED <<remote, jobRoute, upstream, open, auth, attached>>

(* removeJobManagerConnection knows the job, not the connection.           *)
RemoveJobManagerConnection(c) ==
  /\ cleanup[c] = "remove"
  /\ cleanup' = [cleanup EXCEPT ![c] = "done"]
  /\ jobManagerMap' = NoConn
  /\ UNCHANGED <<call, starter, existing, overlapped, router, open, auth, attached>>

CleanupStep(c) ==
  \/ ReaderEnds(c) \/ RoutesOfLink(c) \/ UnbindRouteLocally(c)
  \/ UnannounceUpstream(c) \/ DeleteLink(c) \/ RemoveJobManagerConnection(c)

-----------------------------------------------------------------------------
(* RemoteStartJob, RemoteReconnectToJobManager and connectToJobManager.    *)

Begins(c) ==
  /\ call[c] = "none"
  /\ overlapped' = (overlapped \/ \E d \in Conns : ~Over(d))

RemoteStartJob(c) ==
  /\ \A d \in Conns : call[d] = "none"
  /\ Begins(c)
  /\ starter' = c
  /\ call' = [call EXCEPT ![c] = "dial"]
  /\ UNCHANGED <<existing, jobManagerMap, router, open, cleanup, auth, attached>>

RemoteReconnect(c) ==
  /\ Begins(c)
  /\ existing' = [existing EXCEPT ![c] = jobManagerMap]
  /\ call' = [call EXCEPT ![c] = IF jobManagerMap = NoConn THEN "dial" ELSE "existing"]
  /\ UNCHANGED <<starter, jobManagerMap, router, open, cleanup, auth, attached>>

CloseExisting(c) ==
  /\ call[c] = "existing"
  /\ \/ StartCleanup(existing[c]) /\ UNCHANGED call
     \/ /\ Cleaned(existing[c])
        /\ call' = [call EXCEPT ![c] = "dial"]
        /\ UNCHANGED <<open, cleanup>>
  /\ UNCHANGED <<starter, existing, jobManagerMap, overlapped, router, auth, attached>>

(* The job manager may not answer.                                         *)
Dial(c) ==
  /\ call[c] = "dial"
  /\ \/ /\ call' = [call EXCEPT ![c] = "auth"]
        /\ open' = open \union {c}
        /\ link' = [link EXCEPT ![c] = "untrusted"]
     \/ /\ call' = [call EXCEPT ![c] = "failed"]
        /\ UNCHANGED <<open, link>>
  /\ UNCHANGED <<starter, existing, jobManagerMap, overlapped, jobRoute, upstream, cleanup,
                 auth, attached>>

(* The request has its answer, or an error, or its time is over.           *)
Authenticated(c) ==
  /\ call[c] = "auth"
  /\ \/ /\ auth[c] = "attached" /\ c \in open
        /\ call' = [call EXCEPT ![c] = "wait"]
     \/ call' = [call EXCEPT ![c] = "failing"]
  /\ UNCHANGED <<starter, existing, jobManagerMap, overlapped, router, open, cleanup, auth,
                 attached>>

GivesUpNever == FALSE                          \* a mutant
GivesUp == TRUE

(* Any link will do, and half a second is enough or not.                   *)
WaitForRegister(c) ==
  /\ call[c] = "wait"
  /\ \/ /\ jobRoute # NoConn /\ Known(jobRoute)
        /\ call' = [call EXCEPT ![c] = "add"]
     \/ GivesUp /\ call' = [call EXCEPT ![c] = "failing"]
  /\ UNCHANGED <<starter, existing, jobManagerMap, overlapped, router, open, cleanup, auth,
                 attached>>

AddJobManagerConnection(c) ==
  /\ call[c] = "add"
  /\ jobManagerMap' = c
  /\ call' = [call EXCEPT ![c] = IF c = starter THEN "start" ELSE "done"]
  /\ UNCHANGED <<starter, existing, overlapped, router, open, cleanup, auth, attached>>

StartJob(c) ==
  /\ call[c] = "start"
  /\ call' \in {[call EXCEPT ![c] = "done"], [call EXCEPT ![c] = "failing"]}
  /\ UNCHANGED <<starter, existing, jobManagerMap, overlapped, router, open, cleanup, auth,
                 attached>>

Fails(c) ==
  /\ call[c] = "failing"
  /\ \/ StartCleanup(c) /\ UNCHANGED call
     \/ /\ Cleaned(c)
        /\ call' = [call EXCEPT ![c] = "failed"]
        /\ UNCHANGED <<open, cleanup>>
  /\ UNCHANGED <<starter, existing, jobManagerMap, overlapped, router, auth, attached>>

RemoteCallStep(c) ==
  \/ CloseExisting(c) \/ Dial(c) \/ Authenticated(c) \/ WaitForRegister(c)
  \/ AddJobManagerConnection(c) \/ StartJob(c) \/ Fails(c)

(* RemoteDisconnectFromJobManager, by a goroutine that need not be waited  *)
(* for.                                                                    *)
RemoteDisconnect ==
  /\ jobManagerMap # NoConn
  /\ StartCleanup(jobManagerMap)
  /\ UNCHANGED <<remote, router, auth, attached>>

(* The job manager ends or closes the connection.                          *)
Lost(c) ==
  /\ c \in open
  /\ open' = open \ {c}
  /\ UNCHANGED <<remote, router, cleanup, auth, attached>>

-----------------------------------------------------------------------------
(* The job manager asks the router to authenticate it, and the router asks *)
(* the main server, which may refuse or not answer.  A message from a link *)
(* that is gone is not read.                                               *)
AuthenticateJobManager(c) ==
  /\ auth[c] = "none" /\ Known(c)
  /\ auth' \in {[auth EXCEPT ![c] = "verified"], [auth EXCEPT ![c] = "ended"]}
  /\ UNCHANGED <<remote, router, open, cleanup, attached>>

TrustedAlways(c) == "leaf"                     \* a mutant
Trusted(c) == IF Known(c) THEN "leaf" ELSE link[c]

TrustLink(c) ==
  /\ auth[c] = "verified"
  /\ auth' = [auth EXCEPT ![c] = "trusted"]
  /\ link' = [link EXCEPT ![c] = Trusted(c)]
  /\ UNCHANGED <<remote, jobRoute, upstream, open, cleanup, attached>>

(* An error of bindRoute, when the link is gone, is not reported.          *)
BindRouteLocally(c) ==
  /\ auth[c] = "trusted"
  /\ \/ /\ Known(c)
        /\ jobRoute' = c
        /\ auth' = [auth EXCEPT ![c] = "bound"]
     \/ /\ ~Known(c)
        /\ auth' = [auth EXCEPT ![c] = "answered"]
        /\ UNCHANGED jobRoute
  /\ UNCHANGED <<remote, link, upstream, open, cleanup, attached>>

AnnounceUpstream(c) ==
  /\ auth[c] = "bound"
  /\ auth' = [auth EXCEPT ![c] = "answered"]
  /\ upstream' = "announce"
  /\ UNCHANGED <<remote, link, jobRoute, open, cleanup, attached>>

(* The answer reaches the job manager or gets lost.                        *)
AuthenticateSelf(c) ==
  /\ auth[c] = "answered"
  /\ \/ c \in open /\ auth' = [auth EXCEPT ![c] = "accepted"]
     \/ auth' = [auth EXCEPT ![c] = "ended"]
  /\ UNCHANGED <<remote, router, open, cleanup, attached>>

KicksNobody == open                            \* a mutant
KicksOut == open \ {attached}

SetAttachedClient(c) ==
  /\ auth[c] = "accepted"
  /\ auth' = [auth EXCEPT ![c] = "attached"]
  /\ open' = KicksOut
  /\ attached' = c
  /\ UNCHANGED <<remote, router, cleanup>>

AuthStep(c) ==
  \/ AuthenticateJobManager(c) \/ TrustLink(c) \/ BindRouteLocally(c)
  \/ AnnounceUpstream(c) \/ AuthenticateSelf(c) \/ SetAttachedClient(c)

-----------------------------------------------------------------------------
RoutesNext ==
  \/ \E c \in Conns :
       \/ RemoteStartJob(c) \/ RemoteReconnect(c) \/ RemoteCallStep(c)
       \/ CleanupStep(c) \/ AuthStep(c) \/ Lost(c)
  \/ RemoteDisconnect

RoutesSpec == RoutesInit /\ [][RoutesNext]_routesVars

(* Goroutines run, and time passes.                                        *)
FairRoutesSpec ==
  RoutesSpec /\ \A c \in Conns :
    WF_routesVars(RemoteCallStep(c)) /\ WF_routesVars(CleanupStep(c))

-----------------------------------------------------------------------------
Quiet ==
  \A c \in Conns :
    /\ Over(c) /\ auth[c] \in {"none", "attached", "ended"}
    /\ cleanup[c] \in {"no", "done"} /\ (HasLink(c) /\ c \notin open => Cleaned(c))

(* When everything has come to rest, a connection that is open is the one  *)
(* the job manager talks to, the one the job's route leads to, the one     *)
(* that RemoteDisconnect will find, and the main server has been told of   *)
(* the route; whatever older connections, their late handlers and cleanups *)
(* and disconnects did meanwhile.  Calls must not have overlapped, which   *)
(* the code leaves to the main server.                                     *)
Settled ==
  Quiet /\ ~overlapped =>
    \A c \in open :
      attached = c /\ jobRoute = c /\ link[c] = "leaf" /\ jobManagerMap = c
      /\ upstream = "announce"

(* Of all the calls that reported success, however they overlapped, one    *)
(* connection at most is open: the job manager never serves two clients.   *)
OneClient ==
  \A c, d \in open : {call[c], call[d]} \subseteq {"start", "done"} => c = d

(* A call returns: it does not wait for ever for a cleanup that somebody   *)
(* else runs, nor for a route that nobody will bind any more.              *)
CallsReturn == \A c \in Conns : call[c] # "none" ~> Over(c)
=============================================================================
