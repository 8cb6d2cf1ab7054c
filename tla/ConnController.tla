--------------------------- MODULE ConnController ---------------------------
(***************************************************************************)
(* pkg/remote/conncontroller: one SSHConn, the connection to one host.     *)
(*                                                                         *)
(* Connect, Close and the end of waitForDisconnect exclude each other by   *)
(* lifecycleLock; status, client and the rest are read and written by      *)
(* everybody else under conn.lock only: callers that look before they      *)
(* connect, the keepalive monitors, whoever waits for the session of the   *)
(* connserver.  The goroutines of a connection outlive it   *)
(* and may be late, so that they meet the state of the next one.           *)
(*                                                                         *)
(* The ssh clients are numbered as they are dialled, up to MaxDials.       *)
(***************************************************************************)
EXTENDS Naturals

CONSTANTS MaxDials, Callers, Nobody

ASSUME MaxDialsAssumption == MaxDials \in Nat

Clients  == 1..MaxDials
NoClient == 0

ASSUME HoldersAssumption == Clients \intersect Callers = {} /\ Nobody \notin Clients \union Callers

VARIABLES
  status, client, health, monitor, controller, wshEnabled,   \* fields of SSHConn
  holder, stage,       (* who has lifecycleLock, and where it is            *)
  alive,               (* the ssh clients themselves                        *)
  waiter, waitsFor,    (* waitForDisconnect, one per dial, and its client   *)
  serving,             (* sessions of the connserver, and who waits for them *)
  caller,              (* EnsureConnection, Connect and Close under way, or *)
                       (* what the last one came to                         *)
  troubled             (* clients whose monitor has reported trouble        *)

fields == <<status, client, health, monitor, controller, wshEnabled>>
locked == <<holder, stage>>
waits  == <<waiter, waitsFor>>
vars == <<fields, locked, alive, waits, serving, caller, troubled>>

MaybeClient == Clients \union {NoClient}

TypeOK ==
  /\ status \in {"init", "connecting", "connected", "disconnected", "error"}
  /\ {client, monitor, controller} \subseteq MaybeClient
  /\ health \in {"good", "trouble"}
  /\ wshEnabled \in BOOLEAN
  /\ holder \in Clients \union Callers \union {Nobody}
  /\ stage \in {"free", "dial", "start", "register", "enabled", "disabled", "finish",
                "close", "clear"}
  /\ holder = Nobody <=> stage = "free"
  /\ alive \in [Clients -> {"new", "up", "down"}]
  /\ waiter \in [Clients -> {"none", "starting", "waiting", "locking", "done"}]
  /\ waitsFor \in [Clients -> MaybeClient]
  /\ \A c \in Clients : waiter[c] \in {"waiting", "locking"} => waitsFor[c] # NoClient
  /\ serving \union troubled \subseteq Clients
  /\ caller \in [Callers -> {"ok", "error", "polls", "ensures", "connects", "closes"}]

Init ==
  /\ status = "init" /\ client = NoClient /\ health = "good" /\ monitor = NoClient
  /\ controller = NoClient /\ wshEnabled = FALSE
  /\ holder = Nobody /\ stage = "free"
  /\ alive = [c \in Clients |-> "new"]
  /\ waiter = [c \in Clients |-> "none"] /\ waitsFor = [c \in Clients |-> NoClient]
  /\ serving = {}
  /\ caller = [k \in Callers |-> "ok"]
  /\ troubled = {}

-----------------------------------------------------------------------------
(* The caller, up to lifecycleLock.                                         *)

Idle(k) == caller[k] \in {"ok", "error"}
Now(k, what) == caller' = [caller EXCEPT ![k] = what]

EnsureConnection(k) ==
  /\ Idle(k)
  /\ \/ status = "connected" /\ Now(k, "ok")
     \/ status = "connecting" /\ Now(k, "polls")
     \/ status \in {"init", "disconnected"} /\ Now(k, "ensures")
     \/ status = "error" /\ Now(k, "error")
  /\ UNCHANGED <<fields, locked, alive, waits, serving, troubled>>

(* It polls until the connection is made or has failed, or until its       *)
(* context ends, which may be while the other call still connects.         *)
WaitForConnect(k) ==
  /\ caller[k] = "polls"
  /\ \/ status = "connected" /\ Now(k, "ok")
     \/ status # "connected" /\ Now(k, "error")
  /\ UNCHANGED <<fields, locked, alive, waits, serving, troubled>>

ConnConnect(k) ==
  /\ Idle(k) /\ Now(k, "connects")
  /\ UNCHANGED <<fields, locked, alive, waits, serving, troubled>>

ConnDisconnect(k) ==
  /\ Idle(k) /\ Now(k, "closes")
  /\ UNCHANGED <<fields, locked, alive, waits, serving, troubled>>

-----------------------------------------------------------------------------
(* Connect, under lifecycleLock.                                           *)

Unlock == holder' = Nobody /\ stage' = "free"

InUse == status \in {"connecting", "connected"}

AllowedUnlessConnecting == status # "connecting"     \* a mutant
ConnectAllowed == ~InUse

Connect(k) ==
  /\ caller[k] \in {"ensures", "connects"} /\ holder = Nobody
  /\ \/ /\ ~ConnectAllowed
        /\ Now(k, "error")
        /\ UNCHANGED <<fields, locked>>
     \/ /\ ConnectAllowed
        /\ status' = "connecting"
        /\ holder' = k /\ stage' = "dial"
        /\ UNCHANGED <<client, health, monitor, controller, wshEnabled, caller>>
  /\ UNCHANGED <<alive, waits, serving, troubled>>

(* connectInternal up to the start of waitForDisconnect.                   *)
Dialled(c) ==
  /\ stage = "dial" /\ alive[c] = "new" /\ \A d \in 1..(c - 1) : alive[d] # "new"
  /\ alive' = [alive EXCEPT ![c] = "up"]
  /\ client' = c /\ health' = "good" /\ monitor' = c
  /\ waiter' = [waiter EXCEPT ![c] = "starting"]
  /\ stage' = "start"
  /\ UNCHANGED <<status, wshEnabled, controller, serving, holder, waitsFor, caller, troubled>>

(* There is nothing to close yet, and closeInternal closes it all the same. *)
DialFails ==
  /\ stage = "dial"
  /\ status' = "error"
  /\ stage' = "close"
  /\ UNCHANGED <<client, health, monitor, wshEnabled, controller, serving, holder, alive, waits, caller,
                 troubled>>

(* tryEnableWsh up to the session.  It stops when wsh is off, the user      *)
(* declines it, or the far side has gone; the domain socket, which is      *)
(* opened first, is closed with the client and is not told apart here.     *)
StartConnServer ==
  /\ stage = "start"
  /\ \/ /\ alive[client] = "up"
        /\ controller' = client /\ serving' = serving \union {client}
        /\ stage' = "register"
     \/ stage' = "disabled" /\ UNCHANGED <<controller, serving>>
  /\ UNCHANGED <<status, client, health, monitor, wshEnabled, holder, alive, waits, caller,
                 troubled>>

(* WaitForRegister and ConnServerInitCommand.                              *)
ConnServerReady ==
  /\ stage = "register"
  /\ stage' \in {"enabled", "disabled"}
  /\ UNCHANGED <<fields, holder, alive, waits, serving, caller, troubled>>

PersistWshInstalled ==
  /\ stage \in {"enabled", "disabled"}
  /\ wshEnabled' = (stage = "enabled")
  /\ stage' = "finish"
  /\ UNCHANGED <<status, client, health, monitor, controller, serving, holder, alive, waits, caller, troubled>>

Connected ==
  /\ stage = "finish"
  /\ status' = "connected"
  /\ Now(holder, "ok") /\ Unlock
  /\ UNCHANGED <<client, health, monitor, wshEnabled, controller, serving, alive, waits, troubled>>

-----------------------------------------------------------------------------
(* Close, waitForDisconnect and closeInternal.                             *)

Close(k) ==
  /\ caller[k] = "closes" /\ holder = Nobody
  /\ status' = IF InUse THEN "disconnected" ELSE status
  /\ holder' = k /\ stage' = "close"
  /\ UNCHANGED <<client, health, monitor, wshEnabled, controller, serving, alive, waits, caller, troubled>>

WatchedAnyway == TRUE                                \* a mutant
WatchedWhenConnected == status = "connected"         \* a mutant
Watched == client # NoClient

(* The goroutine asks for the client when it first runs, not when it is    *)
(* made.                                                                   *)
WaiterStarts(c) ==
  /\ waiter[c] = "starting"
  /\ waitsFor' = [waitsFor EXCEPT ![c] = client]
  /\ waiter' = [waiter EXCEPT ![c] = IF Watched THEN "waiting" ELSE "done"]
  /\ UNCHANGED <<fields, locked, alive, serving, caller, troubled>>

ClientWaitReturns(c) ==
  /\ waiter[c] = "waiting" /\ alive[waitsFor[c]] = "down"
  /\ waiter' = [waiter EXCEPT ![c] = "locking"]
  /\ UNCHANGED <<fields, locked, alive, waitsFor, serving, caller, troubled>>

(* Whichever connection there is by now is given up.                       *)
WaitForDisconnect(c) ==
  /\ waiter[c] = "locking" /\ holder = Nobody
  /\ status' = IF status = "error" THEN status ELSE "disconnected"
  /\ holder' = c /\ stage' = "close"
  /\ UNCHANGED <<client, health, monitor, wshEnabled, controller, serving, alive, waits, caller, troubled>>

CloseClient ==
  /\ stage = "close"
  /\ monitor' = NoClient
  /\ alive' = IF client = NoClient THEN alive ELSE [alive EXCEPT ![client] = "down"]
  /\ stage' = "clear"
  /\ UNCHANGED <<status, client, health, controller, wshEnabled, holder, waits, serving, caller,
                 troubled>>

ClearFields ==
  /\ stage = "clear"
  /\ client' = NoClient /\ controller' = NoClient
  /\ \/ /\ holder \in Callers
        /\ Now(holder, IF caller[holder] = "closes" THEN "ok" ELSE "error")
        /\ UNCHANGED waiter
     \/ /\ holder \in Clients
        /\ waiter' = [waiter EXCEPT ![holder] = "done"]
        /\ UNCHANGED caller
  /\ Unlock
  /\ UNCHANGED <<status, health, monitor, wshEnabled, alive, waitsFor, serving, troubled>>

HolderStep ==
  \/ DialFails \/ StartConnServer \/ ConnServerReady
  \/ PersistWshInstalled \/ Connected \/ CloseClient \/ ClearFields

-----------------------------------------------------------------------------
(* The others, without lifecycleLock.                                      *)

GoesDown(c) ==
  /\ alive[c] = "up"
  /\ alive' = [alive EXCEPT ![c] = "down"]
  /\ UNCHANGED <<fields, locked, waits, serving, caller, troubled>>

(* The goroutine knows the connection, not which of its sessions it has    *)
(* waited for.                                                             *)
SessionEnds(c) ==
  /\ c \in serving
  /\ serving' = serving \ {c}
  /\ wshEnabled' = (wshEnabled /\ controller = NoClient)
  /\ controller' = NoClient
  /\ UNCHANGED <<status, client, health, monitor, locked, alive, waits, caller, troubled>>

IsCurrent(c) == client = c

(* A monitor has a keepalive on its way that is answered, or is not, after *)
(* the monitor was closed.                                                 *)
SetConnHealthStatus(c, h) ==
  /\ alive[c] # "new"
  /\ health' = IF IsCurrent(c) THEN h ELSE health
  /\ troubled' = IF h = "good" THEN troubled ELSE troubled \union {c}
  /\ UNCHANGED <<status, client, monitor, wshEnabled, controller, serving, locked, alive, waits, caller>>

CallStep(k) ==
  \/ EnsureConnection(k) \/ WaitForConnect(k) \/ ConnConnect(k) \/ ConnDisconnect(k)
  \/ Connect(k) \/ Close(k)

ClientStep(c) ==
  \/ Dialled(c) \/ WaiterStarts(c) \/ ClientWaitReturns(c) \/ WaitForDisconnect(c)
  \/ GoesDown(c) \/ SessionEnds(c)
  \/ \E h \in {"good", "trouble"} : SetConnHealthStatus(c, h)

Next ==
  \/ HolderStep
  \/ \E k \in Callers : CallStep(k)
  \/ \E c \in Clients : ClientStep(c)

Spec == Init /\ [][Next]_vars

(* A sync.Mutex does not starve anybody, and every step under lifecycleLock *)
(* has a time limit.                                                       *)
FairSpec ==
  /\ Spec
  /\ WF_vars(HolderStep)
  /\ \A c \in Clients : WF_vars(WaiterStarts(c)) /\ WF_vars(ClientWaitReturns(c))
                        /\ SF_vars(WaitForDisconnect(c))

-----------------------------------------------------------------------------
(* When nobody is at work, the connection is whole or there is nothing of  *)
(* it: a client with its monitor when connected; otherwise no client,      *)
(* monitor or session, whichever late goroutine came between.              *)
(* No client but the current one is left open.                             *)
RestIsClean ==
  holder = Nobody =>
    /\ status # "connecting"
    /\ status = "connected" => client # NoClient
    /\ status # "connected" => {client, controller} = {NoClient}
    /\ monitor = client
    /\ \A c \in Clients : alive[c] = "up" => client = c

(* The health that is shown is never the one of an earlier connection: it  *)
(* is bad only when the monitor of the current client has said so.         *)
HealthIsCurrent == health # "good" /\ client # NoClient => client \in troubled

(* A client that is gone is not kept for ever as the connection's client,  *)
(* however many calls keep asking for the lock.                            *)
DeadNoticed == \A c \in Clients : client = c /\ alive[c] = "down" ~> client # c

(* "Convenience function for ensuring a connection is established"         *)
(* (conncontroller.go:1112): EnsureConnection does not answer with an      *)
(* error while the connection stands.                                      *)
Ensured ==
  [][\A k \in Callers :
        caller[k] = "ensures" /\ caller'[k] = "error"
          => status' # "connected"]_vars
=============================================================================
