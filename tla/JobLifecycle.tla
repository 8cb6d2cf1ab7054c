---------------------------- MODULE JobLifecycle ----------------------------
(***************************************************************************)
(* pkg/jobcontroller/jobcontroller.go: the life of one job as the main     *)
(* server records it, from StartJob to its end, with what decides it on    *)
(* the other side: the job manager and its command (pkg/jobmanager) and    *)
(* the calls that start, reach and terminate them (wshremote_job.go).      *)
(*                                                                         *)
(* The record is in the database; the rest of the main server is lost when *)
(* it crashes.  The end of the job is learned in two halves, the exit of   *)
(* the command and the end of its output, each by a message or by the      *)
(* answer to JobPrepareConnect, and whoever finds both terminates the job  *)
(* manager.  The server handles every event in a goroutine of its own, so  *)
(* the news that the job's route is up and down come in any order.         *)
(*                                                                         *)
(* How the connections replace each other is the matter of JobRoutes and   *)
(* what the stream carries that of DurableStream; here a link to the job   *)
(* manager is there or not and the end of the output arrives or not.       *)
(***************************************************************************)
EXTENDS Naturals

CONSTANTS
  MaxMishaps,  (* how often something comes between: a lost connection or   *)
               (* link, a dead job manager, a crash, a timeout, a user      *)
  MaxAutos     (* automatic reconnects                                      *)

ASSUME BoundsAssumption == {MaxMishaps, MaxAutos} \subseteq Nat

VARIABLES
  job,         (* the record of the job in the database                     *)
  mgr,         (* the job manager's process                                 *)
  cmd,         (* its command                                               *)
  eof,         (* the PTY has ended                                         *)
  notice,      (* sendJobExited                                             *)
  acked,       (* terminalEventAcked of the stream manager                  *)
  sending,     (* it sends the current stream                               *)
  ack,         (* the ack of the terminal packet is under way               *)
  conn,        (* the connection to the host                                *)
  route,       (* the route to the job, and the link it leads over          *)
  news,        (* route events whose handlers have not run                  *)
  jobConn,     (* jobConnStates: connected                                  *)
  auto,        (* attemptAutoReconnect is sleeping                          *)
  processed, reconcile,  (* connState, and how far reconcileConn is         *)
  start,       (* StartJob                                                  *)
  term,        (* TerminateJobManager, of which one runs at a time          *)
  recon,       (* ReconnectJob, of which one runs at a time                 *)
  handler,     (* HandleCmdJobExited, called by the job manager, will check *)
  loop,        (* runOutputLoop of the current stream                       *)
  ending,      (* an output loop has recorded the end and will check        *)
  autos, mishaps,
  timedOut,    (* a call failed although its link stood                     *)
  early,       (* the job was terminated or reconnected before it ran       *)
  unchecked    (* a reconnect recorded the end of the output when the exit  *)
               (* was recorded already, and did not check                   *)

remote  == <<mgr, cmd, eof>>
stream  == <<acked, loop, ending>>
links   == <<conn, route, news, notice, sending, ack>>
events  == <<jobConn, auto, autos, processed, reconcile>>
ghosts  == <<mishaps, timedOut, early, unchecked>>
vars == <<job, remote, stream, links, events, start, term, recon, handler, ghosts>>

Idle == [at |-> "idle", pid |-> FALSE, exited |-> FALSE, done |-> FALSE]

(* The record, and what the two calls keep of it.                          *)
RecordsOK ==
  /\ job \in [status : {"none", "init", "running", "done"}, pid : BOOLEAN,
              why : {"none", "startuperror", "gone", "terminated"}, exited : BOOLEAN,
              streamDone : BOOLEAN, terminate : BOOLEAN, block : BOOLEAN]
  /\ term \in [at : {"idle", "call", "answer"}, pid : BOOLEAN]
  /\ recon \in [at : {"idle", "kill", "killed", "call", "dial", "gone", "wait", "set",
                      "send", "answer", "check", "join", "rest", "last", "leave"},
                pid : BOOLEAN, exited : BOOLEAN, done : BOOLEAN]
  /\ job.status = "done" => job.why # "none"
  /\ recon.at \in {"call", "dial", "wait", "set", "send"} => ~recon.exited /\ ~recon.done

(* Nothing is sent over a link that is not there.                          *)
LinksOK ==
  /\ mgr \in {"none", "alive", "gone"}
  /\ conn \in BOOLEAN /\ route \in BOOLEAN /\ sending \in BOOLEAN /\ ack \in BOOLEAN
  /\ route => conn /\ mgr = "alive"
  /\ sending => route
  /\ ack => sending

StagesOK ==
  /\ cmd \in {"none", "running", "exited"}
  /\ notice \in {"none", "pending", "chosen", "over"}
  /\ news \subseteq {"up", "down"}
  /\ reconcile \in {"idle", "up", "wait"}
  /\ start \in {"none", "spawn", "connect", "command", "started", "failed", "over"}
  /\ loop \in {"none", "reading", "got"}

FlagsOK ==
  /\ handler \in BOOLEAN /\ ending \in BOOLEAN /\ eof \in BOOLEAN /\ acked \in BOOLEAN
  /\ jobConn \in BOOLEAN /\ auto \in BOOLEAN /\ processed \in BOOLEAN
  /\ timedOut \in BOOLEAN /\ early \in BOOLEAN /\ unchecked \in BOOLEAN

CountsOK == autos \in 0..MaxAutos /\ mishaps \in 0..MaxMishaps

TypeOK == RecordsOK /\ LinksOK /\ StagesOK /\ FlagsOK /\ CountsOK

Init ==
  /\ job = [status |-> "none", pid |-> FALSE, why |-> "none", exited |-> FALSE,
            streamDone |-> FALSE, terminate |-> FALSE, block |-> FALSE]
  /\ mgr = "none" /\ cmd = "none" /\ eof = FALSE /\ notice = "none"
  /\ acked = FALSE /\ sending = FALSE /\ ack = FALSE
  /\ conn = TRUE /\ route = FALSE /\ news = {}
  /\ jobConn = FALSE /\ auto = FALSE /\ processed = TRUE /\ reconcile = "idle"
  /\ start = "none" /\ term = [at |-> "idle", pid |-> FALSE] /\ recon = Idle
  /\ handler = FALSE /\ loop = "none" /\ ending = FALSE
  /\ autos = 0 /\ mishaps = 0 /\ timedOut = FALSE /\ early = FALSE
  /\ unchecked = FALSE

-----------------------------------------------------------------------------
(* The link to the job manager.                                            *)

(* What was being sent over it is lost.                                    *)
LoseRoute ==
  /\ route' = FALSE
  /\ news' = IF route THEN news \union {"down"} ELSE news
  /\ notice' = IF notice = "chosen" THEN "over" ELSE notice
  /\ sending' = FALSE /\ ack' = FALSE

GainRoute ==
  /\ route' = TRUE /\ news' = news \union {"up"}

Mishap == mishaps < MaxMishaps /\ mishaps' = mishaps + 1

(* A call gets no answer: its link does not stand, or its time is over.    *)
NoAnswer(link) ==
  \/ ~link /\ UNCHANGED <<mishaps, timedOut>>
  \/ link /\ Mishap /\ timedOut' = TRUE

-----------------------------------------------------------------------------
(* The job manager and its command.                                        *)

PtyEnds ==
  /\ mgr = "alive" /\ cmd # "none" /\ ~eof
  /\ eof' = TRUE
  /\ UNCHANGED <<job, mgr, cmd, stream, links, events, start, term, recon, handler, ghosts>>

WaitForProcess ==
  /\ mgr = "alive" /\ cmd = "running"
  /\ cmd' = "exited" /\ notice' = "pending"
  /\ UNCHANGED <<job, mgr, eof, stream, conn, route, news, sending, ack, events, start,
                 term, recon, handler, ghosts>>

(* sendJobExited takes the attached client, and then calls over it.        *)
SendJobExited ==
  /\ mgr = "alive" /\ notice = "pending"
  /\ notice' = IF route THEN "chosen" ELSE "over"
  /\ UNCHANGED <<job, remote, stream, conn, route, news, sending, ack, events, start,
                 term, recon, handler, ghosts>>

(* HandleCmdJobExited records the exit, and will check.                    *)
JobCmdExited ==
  /\ notice = "chosen" /\ ~handler
  /\ notice' = "over"
  /\ job' = [job EXCEPT !.exited = TRUE]
  /\ handler' = TRUE
  /\ UNCHANGED <<remote, stream, conn, route, news, sending, ack, events, start, term, recon,
                 ghosts>>

(* The terminal packet reaches the reader and its ack the stream manager.  *)
EndArrives ==
  /\ sending /\ eof /\ loop = "reading"
  /\ loop' = "got" /\ ack' = TRUE
  /\ UNCHANGED <<job, remote, acked, ending, conn, route, news, notice, sending, events,
                 start, term, recon, handler, ghosts>>

AckArrives ==
  /\ ack
  /\ ack' = FALSE /\ acked' = TRUE
  /\ UNCHANGED <<job, remote, loop, ending, conn, route, news, notice, sending, events,
                 start, term, recon, handler, ghosts>>

JobManagerStep ==
  \/ PtyEnds \/ WaitForProcess \/ SendJobExited \/ JobCmdExited \/ EndArrives \/ AckArrives

-----------------------------------------------------------------------------
(* TerminateJobManager and remoteTerminateJobManager.                      *)

(* doTerminateJobManager: nothing for a job that is done; a call that      *)
(* finds another one under way waits for that one.                         *)
Terminates(record) ==
  IF record.status = "done" \/ term.at # "idle"
  THEN job' = record /\ UNCHANGED <<term, early>>
  ELSE /\ job' = [record EXCEPT !.terminate = TRUE]
       /\ term' = [at |-> "call", pid |-> record.pid]
       /\ early' = (early \/ ~record.pid)

(* RemoteTerminateJobManagerCommand: SIGTERM to the process, if its pid is *)
(* known and it is still there.                                            *)
RemoteTerminate(pid) ==
  /\ conn
  /\ IF pid /\ mgr = "alive"
     THEN mgr' = "gone" /\ LoseRoute
     ELSE UNCHANGED <<mgr, route, news, notice, sending, ack>>
  /\ UNCHANGED <<cmd, eof, conn>>

MarkTerminatedOnly ==                         \* a mutant
  job' = [job EXCEPT !.status = "done", !.terminate = FALSE, !.streamDone = TRUE]
MarkTerminated ==
  job' = [job EXCEPT !.status = "done", !.why = "terminated", !.terminate = FALSE,
                     !.streamDone = TRUE]

TermCall ==
  /\ term.at = "call"
  /\ RemoteTerminate(term.pid)
  /\ term' = [term EXCEPT !.at = "answer"]
  /\ UNCHANGED <<job, stream, events, start, recon, handler, ghosts>>

TermAnswer ==
  /\ term.at = "answer" /\ conn
  /\ MarkTerminated
  /\ term' = [at |-> "idle", pid |-> FALSE]
  /\ UNCHANGED <<remote, stream, links, events, start, recon, handler, ghosts>>

TermFails ==
  /\ term.at # "idle"
  /\ NoAnswer(conn)
  /\ term' = [at |-> "idle", pid |-> FALSE]
  /\ UNCHANGED <<job, remote, stream, links, events, start, recon, handler, autos, early,
                 unchecked>>

TermStep == TermCall \/ TermAnswer \/ TermFails

-----------------------------------------------------------------------------
(* The two halves of the end, and who finds both.                          *)

(* tryTerminateJobManager reads the record and then terminates; what it    *)
(* has read does not change any more but for the status, which is looked   *)
(* at again.                                                               *)
BothKnown == job.status = "running" /\ job.exited /\ job.streamDone

TryTerminate == IF BothKnown THEN Terminates(job) ELSE UNCHANGED <<job, term, early>>

HandlerChecks ==
  /\ handler
  /\ TryTerminate
  /\ handler' = FALSE
  /\ UNCHANGED <<remote, stream, links, events, start, recon, mishaps, timedOut, unchecked>>

(* An output loop that has read the end and is not superseded records it,  *)
(* and will check.                                                         *)
LoopEnds ==
  /\ loop = "got"
  /\ loop' = "none" /\ ending' = TRUE
  /\ job' = [job EXCEPT !.streamDone = TRUE]
  /\ UNCHANGED <<remote, acked, links, events, start, term, recon, handler, ghosts>>

LoopChecks ==
  /\ ending
  /\ TryTerminate
  /\ ending' = FALSE
  /\ UNCHANGED <<remote, acked, loop, links, events, start, recon, handler, mishaps, timedOut, unchecked>>

CheckStep == HandlerChecks \/ LoopEnds \/ LoopChecks

-----------------------------------------------------------------------------
(* StartJob and RemoteStartJob.                                            *)

StartJob ==
  /\ start = "none" /\ conn
  /\ start' = "spawn"
  /\ job' = [job EXCEPT !.status = "init", !.block = TRUE]
  /\ UNCHANGED <<remote, stream, links, events, term, recon, handler, ghosts>>

(* Each step at the host may fail; a job manager that runs is left running. *)
Spawn ==
  /\ start = "spawn" /\ conn
  /\ \/ mgr' = "alive" /\ start' = "connect"
     \/ start' = "failed" /\ UNCHANGED mgr
  /\ UNCHANGED <<job, cmd, eof, stream, links, events, term, recon, handler, ghosts>>

ConnectFirst ==
  /\ start = "connect" /\ conn /\ mgr = "alive"
  /\ GainRoute /\ start' = "command"
  /\ UNCHANGED <<job, remote, stream, conn, notice, sending, ack, events, term, recon,
                 handler, ghosts>>

StartCmd ==
  /\ start = "command" /\ route
  /\ cmd' = "running" /\ sending' = TRUE /\ start' = "started"
  /\ UNCHANGED <<job, mgr, eof, stream, conn, route, news, notice, ack, events, term,
                 recon, handler, ghosts>>

(* The command cannot be started, or a link of the call does not stand.    *)
StartBreaks ==
  /\ \/ /\ start = "connect" /\ UNCHANGED <<mishaps, timedOut, route, news, notice, sending, ack>>
     \/ start = "command" /\ LoseRoute /\ UNCHANGED <<mishaps, timedOut>>
     \/ /\ start \in {"spawn", "connect", "command", "started"}
        /\ NoAnswer(conn)
        /\ UNCHANGED <<route, news, notice, sending, ack>>
  /\ start' = "failed"
  /\ UNCHANGED <<job, remote, stream, conn, events, term, recon, handler, autos, early,
                 unchecked>>

StartSucceeds ==
  /\ start = "started" /\ conn
  /\ job' = [job EXCEPT !.status = "running", !.pid = TRUE]
  /\ loop' = "reading" /\ start' = "over"
  /\ UNCHANGED <<remote, acked, ending, links, events, term, recon, handler, ghosts>>

StartFails ==
  /\ start = "failed"
  /\ job' = [job EXCEPT !.status = "done", !.why = "startuperror"]
  /\ start' = "over"
  /\ UNCHANGED <<remote, stream, links, events, term, recon, handler, ghosts>>

StartStep ==
  \/ Spawn \/ ConnectFirst \/ StartCmd \/ StartBreaks \/ StartSucceeds \/ StartFails

-----------------------------------------------------------------------------
(* ReconnectJob.                                                           *)

(* doReconnectJob up to its call, for whoever asks for it.                 *)
Reconnects ==
  IF recon.at # "idle" \/ ~conn \/ jobConn \/ (job.terminate /\ job.status = "done")
  THEN UNCHANGED <<recon, early>>
  ELSE /\ recon' = [Idle EXCEPT !.at = IF job.terminate THEN "kill" ELSE "call",
                                !.pid = job.pid]
       /\ early' = (early \/ ~job.pid)

ReconKill ==
  /\ recon.at = "kill"
  /\ RemoteTerminate(recon.pid)
  /\ recon' = [recon EXCEPT !.at = "killed"]
  /\ UNCHANGED <<job, stream, events, start, term, handler, ghosts>>

ReconKilled ==
  /\ recon.at = "killed" /\ conn
  /\ MarkTerminated
  /\ recon' = Idle
  /\ UNCHANGED <<remote, stream, links, events, start, term, handler, ghosts>>

GoneUnlessReached == ~(recon.pid /\ route)    \* a mutant
ManagerGone == ~(recon.pid /\ mgr = "alive")

(* RemoteReconnectToJobManagerCommand closes the link it has.              *)
ReconCall ==
  /\ recon.at = "call" /\ conn
  /\ IF ManagerGone
     THEN /\ recon' = [recon EXCEPT !.at = "gone"]
          /\ UNCHANGED <<route, news, notice, sending, ack>>
     ELSE /\ recon' = [recon EXCEPT !.at = "dial"]
          /\ LoseRoute
  /\ UNCHANGED <<job, remote, stream, conn, events, start, term, handler, ghosts>>

ReconDial ==
  /\ recon.at = "dial" /\ conn /\ mgr = "alive"
  /\ GainRoute
  /\ recon' = [recon EXCEPT !.at = "wait"]
  /\ UNCHANGED <<job, remote, stream, conn, notice, sending, ack, events, start, term,
                 handler, ghosts>>

ReconGone ==
  /\ recon.at = "gone" /\ conn
  /\ job' = [job EXCEPT !.status = "done", !.why = "gone"]
  /\ recon' = Idle
  /\ UNCHANGED <<remote, stream, links, events, start, term, handler, ghosts>>

WaitForRegister ==
  /\ recon.at = "wait" /\ route
  /\ recon' = [recon EXCEPT !.at = "set"]
  /\ UNCHANGED <<job, remote, stream, links, events, start, term, handler, ghosts>>

(* Then restartStreaming, whose new stream supersedes the old output loop. *)
SetJobConnStatus ==
  /\ recon.at = "set"
  /\ jobConn' = TRUE
  /\ loop' = "none"
  /\ recon' = [recon EXCEPT !.at = "send"]
  /\ UNCHANGED <<job, remote, acked, ending, links, auto, autos, processed, reconcile, start,
                 term, handler, ghosts>>

RepliesNoExit == FALSE                        \* a mutant
RepliesExit == cmd = "exited"

(* A job manager without a command would answer "job not started", but a   *)
(* reconnect comes this far only with a pid, which is recorded after the   *)
(* command has been started.                                               *)
PrepareConnect ==
  /\ recon.at = "send" /\ route /\ cmd # "none"
  /\ sending' = ~acked /\ ack' = FALSE
  /\ recon' = [recon EXCEPT !.at = "answer", !.exited = RepliesExit, !.done = acked]
  /\ UNCHANGED <<job, remote, stream, conn, route, news, notice, events, start, term,
                 handler, ghosts>>

(* The answer: first the exit, and its handler's check.                    *)
PrepareAnswered ==
  /\ recon.at = "answer" /\ route
  /\ job' = [job EXCEPT !.exited = @ \/ recon.exited]
  /\ recon' = [recon EXCEPT !.at = IF recon.exited THEN "check" ELSE "rest"]
  /\ UNCHANGED <<remote, stream, links, events, start, term, handler, ghosts>>

ReconChecks ==
  /\ recon.at \in {"check", "last"}
  /\ TryTerminate
  /\ recon' = IF BothKnown THEN [recon EXCEPT !.at = IF @ = "last" THEN "leave" ELSE "join"]
              ELSE IF recon.at = "last" THEN Idle ELSE [recon EXCEPT !.at = "rest"]
  /\ UNCHANGED <<remote, stream, links, events, start, handler, mishaps, timedOut, unchecked>>

ReconJoins ==
  /\ recon.at \in {"join", "leave"} /\ term.at = "idle"
  /\ recon' = IF recon.at = "leave" THEN Idle ELSE [recon EXCEPT !.at = "rest"]
  /\ UNCHANGED <<job, remote, stream, links, events, start, term, handler, ghosts>>

(* Then the end of the stream, or the stream goes on.                      *)
StreamWasDone ==
  /\ recon.at = "rest" /\ recon.done
  /\ job' = [job EXCEPT !.streamDone = TRUE]
  /\ recon' = IF recon.exited THEN [recon EXCEPT !.at = "last"] ELSE Idle
  /\ unchecked' = (unchecked \/ (job.exited /\ ~recon.exited))
  /\ UNCHANGED <<remote, stream, links, events, start, term, handler, mishaps, timedOut, early>>

StartStream ==
  /\ recon.at = "rest" /\ ~recon.done /\ route
  /\ loop' = "reading" /\ recon' = Idle
  /\ UNCHANGED <<job, remote, acked, ending, links, events, start, term, handler, ghosts>>

ReconFails ==
  /\ \/ recon.at \in {"kill", "killed", "call", "gone"} /\ NoAnswer(conn)
     \/ recon.at = "dial" /\ UNCHANGED <<mishaps, timedOut>>
     \/ recon.at \in {"wait", "send", "answer", "rest"} /\ NoAnswer(route)
  /\ recon.at = "rest" => ~recon.done
  /\ recon' = Idle
  /\ UNCHANGED <<job, remote, stream, links, events, start, term, handler, autos, early,
                 unchecked>>

ReconStep ==
  \/ ReconKill \/ ReconKilled \/ ReconCall \/ ReconDial \/ ReconGone \/ WaitForRegister
  \/ SetJobConnStatus \/ PrepareConnect \/ PrepareAnswered \/ ReconChecks
  \/ ReconJoins \/ StreamWasDone \/ StartStream \/ ReconFails

-----------------------------------------------------------------------------
(* Who asks for a reconnect.                                               *)

(* A user, at any time.                                                    *)
UserReconnect ==
  /\ job.status # "none"
  /\ Mishap
  /\ Reconnects
  /\ UNCHANGED <<job, remote, stream, links, events, start, term, handler, timedOut,
                 unchecked>>

HandleRouteUp ==
  /\ "up" \in news
  /\ news' = news \ {"up"} /\ jobConn' = TRUE
  /\ UNCHANGED <<job, remote, stream, conn, route, notice, sending, ack, auto, autos,
                 processed, reconcile, start, term, recon, handler, ghosts>>

(* A running job is reconnected, unless that was tried just before: the    *)
(* first time always.                                                      *)
HandleRouteDown ==
  /\ "down" \in news
  /\ news' = news \ {"down"} /\ jobConn' = FALSE
  /\ \/ /\ job.status = "running" /\ autos < MaxAutos
        /\ auto' = TRUE /\ autos' = autos + 1
     \/ /\ job.status # "running" \/ autos > 0
        /\ UNCHANGED <<auto, autos>>
  /\ UNCHANGED <<job, remote, stream, conn, route, notice, sending, ack, processed,
                 reconcile, start, term, recon, handler, ghosts>>

AttemptAutoReconnect ==
  /\ auto
  /\ auto' = FALSE
  /\ Reconnects
  /\ UNCHANGED <<job, remote, stream, links, jobConn, autos, processed, reconcile, start, term,
                 handler, mishaps, timedOut, unchecked>>

(* reconcileConn calls onConnectionUp with the state it was started for.   *)
ConnWentDown ==
  /\ reconcile = "idle" /\ processed /\ ~conn
  /\ processed' = FALSE
  /\ UNCHANGED <<job, remote, stream, links, jobConn, auto, autos, reconcile, start, term,
                 recon, handler, ghosts>>

ConnCameUp ==
  /\ reconcile = "idle" /\ ~processed /\ conn
  /\ reconcile' = "up"
  /\ UNCHANGED <<job, remote, stream, links, jobConn, auto, autos, processed, start, term,
                 recon, handler, ghosts>>

OnConnectionUp ==
  /\ reconcile = "up"
  /\ IF job.status = "running" THEN Reconnects ELSE UNCHANGED <<recon, early>>
  /\ reconcile' = "wait"
  /\ UNCHANGED <<job, remote, stream, links, jobConn, auto, autos, processed, start, term,
                 handler, mishaps, timedOut, unchecked>>

Reconciled ==
  /\ reconcile = "wait" /\ recon.at = "idle"
  /\ reconcile' = "idle" /\ processed' = TRUE
  /\ UNCHANGED <<job, remote, stream, links, jobConn, auto, autos, start, term, recon,
                 handler, ghosts>>

EventStep ==
  \/ HandleRouteUp \/ HandleRouteDown \/ AttemptAutoReconnect
  \/ ConnWentDown \/ ConnCameUp \/ OnConnectionUp \/ Reconciled

(* TerminateAndDetachJob, when the block is closed.                        *)
BlockCloses ==
  /\ job.block
  /\ Terminates([job EXCEPT !.block = FALSE])
  /\ UNCHANGED <<remote, stream, links, events, start, recon, handler, mishaps, timedOut,
                 unchecked>>

-----------------------------------------------------------------------------
(* What goes wrong.                                                        *)

LinkLost ==
  /\ Mishap /\ route
  /\ LoseRoute
  /\ UNCHANGED <<job, remote, stream, conn, events, start, term, recon, handler, timedOut,
                 early, unchecked>>

ConnLost ==
  /\ Mishap /\ conn
  /\ conn' = FALSE /\ LoseRoute
  /\ UNCHANGED <<job, remote, stream, events, start, term, recon, handler, timedOut,
                 early, unchecked>>

ConnUp ==
  /\ ~conn
  /\ conn' = TRUE
  /\ UNCHANGED <<job, remote, stream, route, news, notice, sending, ack, events, start,
                 term, recon, handler, ghosts>>

ManagerDies ==
  /\ Mishap /\ mgr = "alive"
  /\ mgr' = "gone" /\ LoseRoute
  /\ UNCHANGED <<job, cmd, eof, stream, conn, events, start, term, recon, handler, timedOut,
                 early, unchecked>>

(* The main server crashes, and its connection to the host with it.        *)
Crash ==
  /\ Mishap
  /\ conn' = FALSE /\ route' = FALSE /\ news' = {}
  /\ notice' = IF notice = "chosen" THEN "over" ELSE notice
  /\ sending' = FALSE /\ ack' = FALSE
  /\ loop' = "none" /\ ending' = FALSE
  /\ jobConn' = FALSE /\ auto' = FALSE /\ autos' = 0
  /\ processed' = FALSE /\ reconcile' = "idle"
  /\ start' = IF start = "none" THEN "none" ELSE "over"
  /\ term' = [at |-> "idle", pid |-> FALSE] /\ recon' = Idle /\ handler' = FALSE
  /\ UNCHANGED <<job, remote, acked, timedOut, early, unchecked>>

-----------------------------------------------------------------------------
Next ==
  \/ StartJob \/ UserReconnect \/ BlockCloses
  \/ LinkLost \/ ConnLost \/ ConnUp \/ ManagerDies \/ Crash
  \/ JobManagerStep \/ TermStep \/ CheckStep \/ StartStep \/ ReconStep
  \/ EventStep

Spec == Init /\ [][Next]_vars

(* Goroutines run and messages arrive; a command need not end, nor a lost  *)
(* connection come back.                                                   *)
FairSpec ==
  /\ Spec
  /\ WF_vars(SendJobExited) /\ WF_vars(JobCmdExited) /\ WF_vars(EndArrives)
  /\ WF_vars(AckArrives) /\ WF_vars(TermStep) /\ WF_vars(HandlerChecks) /\ WF_vars(LoopEnds)
  /\ WF_vars(LoopChecks) /\ WF_vars(StartStep) /\ WF_vars(ReconStep) /\ WF_vars(EventStep)

-----------------------------------------------------------------------------
(* A job is recorded as terminated or gone only when its job manager is:   *)
(* whatever calls ran at once, were lost or left half done by a crash.     *)
(* This is for jobs whose start did not fail, and that nobody terminated   *)
(* or reconnected before StartJob had recorded the pid of the job manager. *)
DoneIsDead ==
  job.status = "done" /\ job.why # "startuperror" /\ ~early => mgr # "alive"

Finished == cmd = "exited" /\ eof

(* A running job whose command has exited and whose output has ended is    *)
(* recorded as done if in the end the main server is connected to it and   *)
(* no call timed out on a link that stands: however the news of the exit   *)
(* and of the end raced, and whichever of them a lost link or a crash      *)
(* swallowed; but for the one race in which restartStreaming records the   *)
(* end and leaves it at that (unchecked).                                  *)
FinishedIsDone ==
  <>[](route /\ jobConn /\ ~timedOut) =>
    (job.status = "running" /\ Finished ~> job.status # "running" \/ unchecked)

(* The same without that exception: whoever records the second half of the *)
(* end terminates the job manager.                                         *)
FinishedIsAlwaysDone ==
  <>[](route /\ jobConn /\ ~timedOut) =>
    (job.status = "running" /\ Finished ~> job.status # "running")

(* A closed block leaves no job recorded as running, if nothing went wrong *)
(* and nobody is at work on it.                                            *)
ClosedIsTerminated ==
  start = "over" /\ ~job.block /\ term.at = "idle" /\ ~timedOut /\ mishaps = 0
    => job.status # "running"

=============================================================================
