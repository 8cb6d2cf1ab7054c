------------------------- MODULE JobLifecycleProofs -------------------------
(***************************************************************************)
(* A job that is recorded as over has no job manager, for any number of    *)
(* faults and automatic reconnects.                                        *)
(***************************************************************************)
EXTENDS JobLifecycle, TLAPS

(* What is known of the job's record and of the calls' copies of it.       *)
JobRecords ==
  [status : {"none", "init", "running", "done"}, pid : BOOLEAN,
   why : {"none", "startuperror", "gone", "terminated"}, exited : BOOLEAN,
   streamDone : BOOLEAN, terminate : BOOLEAN, block : BOOLEAN]

Records ==
  /\ job \in JobRecords
  /\ term = [at |-> term.at, pid |-> term.pid]
  /\ recon = [at |-> recon.at, pid |-> recon.pid, exited |-> recon.exited, done |-> recon.done]

(* The pid is recorded only at the end of StartJob, after the last step    *)
(* that can make a job manager.                                            *)
PidIsLast == start # "over" => ~job.pid

(* Unless the job was touched early, whoever terminates or reconnects it   *)
(* has read its pid from a record that keeps it.                           *)
PidIsKnown ==
  ~early => /\ term.at # "idle" => term.pid /\ job.pid
            /\ recon.at # "idle" => recon.pid /\ job.pid
            /\ job.status = "done" /\ job.why # "startuperror" => job.pid

(* What an answer that is still to come will make of the record is true    *)
(* already, and stays true.                                                *)
AnswerIsTrue ==
  ~early => /\ term.at = "answer" => mgr # "alive"
            /\ recon.at \in {"killed", "gone"} => mgr # "alive"

(* The inductive invariant. DoneIsDead alone is not: an answer may be old  *)
(* when it is recorded, and StartJob might make the job manager after it.  *)
Inv == Records /\ PidIsLast /\ PidIsKnown /\ AnswerIsTrue /\ DoneIsDead

LEMMA InvInit == Init => Inv
  BY DEF Init, Inv, Records, JobRecords, PidIsLast, PidIsKnown, AnswerIsTrue, DoneIsDead, Idle

(* ReconnectJob goes on as what it was, and not to an answer.              *)
ReconKeeps ==
  \/ recon' = recon
  \/ /\ recon.at # "idle" /\ recon'.at \notin {"killed", "gone"}
     /\ recon'.at # "idle" => recon'.pid = recon.pid
     /\ recon' = [at |-> recon'.at, pid |-> recon'.pid, exited |-> recon'.exited,
                  done |-> recon'.done]

(* Whoever terminates the job has its pid, or the job was touched early.   *)
LEMMA TerminatesKeepsInv ==
  ASSUME Inv, NEW record \in JobRecords, Terminates(record),
         record.status = job.status, record.pid = job.pid, record.why = job.why,
         UNCHANGED <<mgr, start>>, ReconKeeps
  PROVE  Inv'
<1> USE DEF Inv, PidIsLast, PidIsKnown, AnswerIsTrue, DoneIsDead, ReconKeeps
<1>1. CASE record.status = "done" \/ term.at # "idle"
  BY <1>1 DEF Terminates, Records
<1>2. CASE ~(record.status = "done" \/ term.at # "idle")
  <2>1. /\ job' = [record EXCEPT !.terminate = TRUE]
        /\ term' = [at |-> "call", pid |-> record.pid]
        /\ early' <=> early \/ ~record.pid
    BY <1>2 DEF Terminates
  <2>2. /\ job' \in JobRecords
        /\ job'.status = job.status /\ job'.pid = job.pid /\ job'.why = job.why
    BY <2>1 DEF JobRecords
  <2>3. term'.at = "call" /\ term'.pid = job.pid /\ term' = [at |-> term'.at, pid |-> term'.pid]
    BY <2>1
  <2>4. Records' /\ PidIsLast'
    BY <2>2, <2>3 DEF Records
  <2>5. PidIsKnown' /\ AnswerIsTrue' /\ DoneIsDead'
    BY <1>2, <2>1, <2>2, <2>3
  <2> QED BY <2>4, <2>5
<1> QED BY <1>1, <1>2

(* So does tryTerminateJobManager, which reads the record first.           *)
LEMMA TryTerminateKeepsInv ==
  ASSUME Inv, TryTerminate, UNCHANGED <<mgr, start>>, ReconKeeps
  PROVE  Inv'
<1>1. CASE BothKnown
  <2>1. job \in JobRecords /\ Terminates(job)
    BY <1>1 DEF TryTerminate, Inv, Records
  <2> QED BY <2>1, TerminatesKeepsInv
<1>2. CASE ~BothKnown
  <2>1. UNCHANGED <<job, term, early>>
    BY <1>2 DEF TryTerminate
  <2> QED
    BY <2>1
    DEF Inv, Records, PidIsLast, PidIsKnown, AnswerIsTrue, DoneIsDead, ReconKeeps
<1> QED BY <1>1, <1>2

(* The same for whoever reconnects it.                                     *)
LEMMA ReconnectsKeepsInv ==
  ASSUME Inv, Reconnects, UNCHANGED <<job, mgr, start, term>>
  PROVE  Inv'
<1> USE DEF Inv, Records, JobRecords, PidIsLast, PidIsKnown, AnswerIsTrue, DoneIsDead, Idle
<1>1. CASE UNCHANGED <<recon, early>>
  BY <1>1
<1>2. CASE /\ recon' = [Idle EXCEPT !.at = IF job.terminate THEN "kill" ELSE "call",
                                    !.pid = job.pid]
           /\ early' = (early \/ ~job.pid)
  BY <1>2
<1> QED BY <1>1, <1>2 DEF Reconnects

(* The job manager, its command and what they send.                        *)
LEMMA JobManagerKeepsInv ==
  ASSUME Inv, JobManagerStep
  PROVE  Inv'
<1> USE DEF Inv, Records, JobRecords, PidIsLast, PidIsKnown, AnswerIsTrue, DoneIsDead, events, stream, ghosts
<1>1. CASE PtyEnds
  BY <1>1 DEF PtyEnds, links
<1>2. CASE WaitForProcess
  BY <1>2 DEF WaitForProcess
<1>3. CASE SendJobExited
  BY <1>3 DEF SendJobExited, remote
<1>4. CASE JobCmdExited
  BY <1>4 DEF JobCmdExited, remote
<1>5. CASE EndArrives
  BY <1>5 DEF EndArrives, remote
<1>6. CASE AckArrives
  BY <1>6 DEF AckArrives, remote
<1> QED BY <1>1, <1>2, <1>3, <1>4, <1>5, <1>6 DEF JobManagerStep

(* TerminateJobManager.                                                    *)
LEMMA TermKeepsInv ==
  ASSUME Inv, TermStep
  PROVE  Inv'
<1> USE DEF Inv, Records, JobRecords, PidIsLast, PidIsKnown, AnswerIsTrue, DoneIsDead, events, stream, ghosts
<1>1. CASE TermCall
  BY <1>1 DEF TermCall, RemoteTerminate, LoseRoute
<1>2. CASE TermAnswer
  BY <1>2 DEF TermAnswer, MarkTerminated, remote, links
<1>3. CASE TermFails
  BY <1>3 DEF TermFails, NoAnswer, Mishap, remote, links
<1> QED BY <1>1, <1>2, <1>3 DEF TermStep

(* tryTerminateJobManager, whoever calls it.                               *)
LEMMA CheckKeepsInv ==
  ASSUME Inv, CheckStep
  PROVE  Inv'
<1> USE DEF Inv, Records, JobRecords, PidIsLast, PidIsKnown, AnswerIsTrue, DoneIsDead, events, remote, links, ghosts
<1>1. CASE HandlerChecks
  BY <1>1, TryTerminateKeepsInv DEF HandlerChecks, ReconKeeps
<1>2. CASE LoopEnds
  BY <1>2 DEF LoopEnds
<1>3. CASE LoopChecks
  BY <1>3, TryTerminateKeepsInv DEF LoopChecks, ReconKeeps
<1> QED BY <1>1, <1>2, <1>3 DEF CheckStep

(* StartJob: the only one that makes a job manager.                        *)
LEMMA StartKeepsInv ==
  ASSUME Inv, StartJob \/ StartStep
  PROVE  Inv'
<1> USE DEF Inv, Records, JobRecords, PidIsLast, PidIsKnown, AnswerIsTrue, DoneIsDead, events, stream, ghosts
<1>1. CASE StartJob
  BY <1>1 DEF StartJob, remote, links
<1>2. CASE Spawn
  BY <1>2 DEF Spawn, links
<1>3. CASE ConnectFirst
  BY <1>3 DEF ConnectFirst, GainRoute, remote
<1>4. CASE StartCmd
  BY <1>4 DEF StartCmd
<1>5. CASE StartBreaks
  BY <1>5 DEF StartBreaks, LoseRoute, NoAnswer, Mishap, remote
<1>6. CASE StartSucceeds
  BY <1>6 DEF StartSucceeds, remote, links
<1>7. CASE StartFails
  BY <1>7 DEF StartFails, remote, links
<1> QED BY <1>1, <1>2, <1>3, <1>4, <1>5, <1>6, <1>7 DEF StartStep

(* ReconnectJob up to the route.                                           *)
LEMMA ReconDialKeepsInv ==
  ASSUME Inv, \/ ReconKill \/ ReconKilled \/ ReconCall \/ ReconDial \/ ReconGone
              \/ WaitForRegister \/ SetJobConnStatus
  PROVE  Inv'
<1> USE DEF Inv, Records, JobRecords, PidIsLast, PidIsKnown, AnswerIsTrue, DoneIsDead, ghosts, Idle
<1>1. CASE ReconKill
  BY <1>1 DEF ReconKill, RemoteTerminate, LoseRoute, events, stream
<1>2. CASE ReconKilled
  BY <1>2 DEF ReconKilled, MarkTerminated, events, stream, remote, links
<1>3. CASE ReconCall
  BY <1>3 DEF ReconCall, ManagerGone, LoseRoute, events, stream, remote
<1>4. CASE ReconDial
  BY <1>4 DEF ReconDial, GainRoute, events, stream, remote
<1>5. CASE ReconGone
  BY <1>5 DEF ReconGone, events, stream, remote, links
<1>6. CASE WaitForRegister
  BY <1>6 DEF WaitForRegister, events, stream, remote, links
<1>7. CASE SetJobConnStatus
  BY <1>7 DEF SetJobConnStatus, remote, links
<1> QED BY <1>1, <1>2, <1>3, <1>4, <1>5, <1>6, <1>7

(* restartStreaming, and failures of either.                               *)
LEMMA RestartKeepsInv ==
  ASSUME Inv, \/ PrepareConnect \/ PrepareAnswered \/ ReconChecks \/ ReconJoins
              \/ StreamWasDone \/ StartStream \/ ReconFails
  PROVE  Inv'
<1> USE DEF Inv, Records, JobRecords, PidIsLast, PidIsKnown, AnswerIsTrue, DoneIsDead, events, remote, Idle
<1>1. CASE PrepareConnect
  BY <1>1 DEF PrepareConnect, RepliesExit, stream, ghosts
<1>2. CASE PrepareAnswered
  BY <1>2 DEF PrepareAnswered, stream, links, ghosts
<1>3. CASE ReconChecks
  <2>1. ReconKeeps
    BY <1>3 DEF ReconChecks, ReconKeeps
  <2> QED BY <1>3, <2>1, TryTerminateKeepsInv DEF ReconChecks
<1>4. CASE ReconJoins
  BY <1>4 DEF ReconJoins, stream, links, ghosts
<1>5. CASE StreamWasDone
  BY <1>5 DEF StreamWasDone, stream, links
<1>6. CASE StartStream
  BY <1>6 DEF StartStream, links, ghosts
<1>7. CASE ReconFails
  BY <1>7 DEF ReconFails, NoAnswer, Mishap, stream, links
<1> QED BY <1>1, <1>2, <1>3, <1>4, <1>5, <1>6, <1>7

(* Events, users and blocks.                                               *)
LEMMA EventKeepsInv ==
  ASSUME Inv, EventStep \/ UserReconnect \/ BlockCloses
  PROVE  Inv'
<1> USE DEF Inv, Records, JobRecords, PidIsLast, PidIsKnown, AnswerIsTrue, DoneIsDead, stream, remote, Idle
<1>1. CASE HandleRouteUp
  BY <1>1 DEF HandleRouteUp, ghosts
<1>2. CASE HandleRouteDown
  BY <1>2 DEF HandleRouteDown, ghosts
<1>3. CASE AttemptAutoReconnect
  BY <1>3 DEF AttemptAutoReconnect, Reconnects, links
<1>4. CASE ConnWentDown
  BY <1>4 DEF ConnWentDown, links, ghosts
<1>5. CASE ConnCameUp
  BY <1>5 DEF ConnCameUp, links, ghosts
<1>6. CASE OnConnectionUp
  BY <1>6 DEF OnConnectionUp, Reconnects, links
<1>7. CASE Reconciled
  BY <1>7 DEF Reconciled, links, ghosts
<1>8. CASE UserReconnect
  BY <1>8 DEF UserReconnect, Reconnects, Mishap, links, events
<1>9. CASE BlockCloses
  <2> DEFINE record == [job EXCEPT !.block = FALSE]
  <2>1. /\ record \in JobRecords
        /\ record.status = job.status /\ record.pid = job.pid /\ record.why = job.why
    OBVIOUS
  <2>2. Terminates(record) /\ UNCHANGED <<mgr, start, recon>>
    BY <1>9 DEF BlockCloses
  <2> HIDE DEF record
  <2> QED BY <2>1, <2>2, TerminatesKeepsInv DEF ReconKeeps
<1> QED BY <1>1, <1>2, <1>3, <1>4, <1>5, <1>6, <1>7, <1>8, <1>9 DEF EventStep

(* What goes wrong.                                                        *)
LEMMA FaultKeepsInv ==
  ASSUME Inv, LinkLost \/ ConnLost \/ ConnUp \/ ManagerDies \/ Crash
  PROVE  Inv'
<1> USE DEF Inv, Records, JobRecords, PidIsLast, PidIsKnown, AnswerIsTrue, DoneIsDead, Mishap, LoseRoute
<1>1. CASE LinkLost
  BY <1>1 DEF LinkLost, remote, stream, events
<1>2. CASE ConnLost
  BY <1>2 DEF ConnLost, remote, stream, events
<1>3. CASE ConnUp
  BY <1>3 DEF ConnUp, remote, stream, events, ghosts
<1>4. CASE ManagerDies
  BY <1>4 DEF ManagerDies, stream, events
<1>5. CASE Crash
  BY <1>5 DEF Crash, remote, Idle
<1> QED BY <1>1, <1>2, <1>3, <1>4, <1>5

(* Every handler, call and fault keeps the invariant.                      *)
THEOREM InvHolds == Spec => []Inv
<1>1. Inv /\ [Next]_vars => Inv'
  <2> SUFFICES ASSUME Inv, [Next]_vars PROVE Inv'
    OBVIOUS
  <2>1. CASE Next
    BY <2>1, JobManagerKeepsInv, TermKeepsInv, CheckKeepsInv, StartKeepsInv, ReconDialKeepsInv,
       RestartKeepsInv, EventKeepsInv, FaultKeepsInv
    DEF Next, ReconStep
  <2>2. CASE UNCHANGED vars
    BY <2>2
    DEF vars, remote, stream, links, events, ghosts, Inv, Records, PidIsLast, PidIsKnown,
        AnswerIsTrue, DoneIsDead
  <2> QED BY <2>1, <2>2
<1> QED BY InvInit, <1>1, PTL DEF Spec

(* No job manager is left running behind a record that says it was         *)
(* terminated or is gone, and so would never be terminated: not by calls   *)
(* that overlap or time out, by lost links, nor by a crash between any two *)
(* steps.                                                                  *)
THEOREM NoOrphan == Spec => []DoneIsDead
<1>1. Inv => DoneIsDead
  BY DEF Inv
<1> QED BY <1>1, InvHolds, PTL

-----------------------------------------------------------------------------
(* The pid is recorded after the command has been started, and a reconnect *)
(* that has read no pid ends with its first call.                          *)
PidMeansCommand ==
  /\ job.pid \/ recon.pid \/ start = "started" => cmd # "none"
  /\ recon.at \in {"dial", "wait", "set", "send"} => recon.pid

LEMMA TerminatesKeepsPid ==
  ASSUME NEW record \in JobRecords, record.pid = job.pid, Terminates(record)
  PROVE  job'.pid = job.pid
  BY DEF Terminates, JobRecords

LEMMA TryTerminateKeepsPid ==
  ASSUME Records, TryTerminate
  PROVE  job'.pid = job.pid
  BY TerminatesKeepsPid DEF TryTerminate, Records

LEMMA ReconnectsKeepPid ==
  ASSUME PidMeansCommand, Reconnects, UNCHANGED <<job, cmd, start>>
  PROVE  PidMeansCommand'
<1>1. CASE UNCHANGED recon
  BY <1>1 DEF PidMeansCommand
<1>2. CASE recon' = [Idle EXCEPT !.at = IF job.terminate THEN "kill" ELSE "call", !.pid = job.pid]
  <2>1. recon'.at \in {"kill", "call"} /\ recon'.pid = job.pid
    BY <1>2 DEF Idle
  <2> QED BY <2>1 DEF PidMeansCommand
<1> QED BY <1>1, <1>2 DEF Reconnects

LEMMA HostKeepsPid ==
  ASSUME Records, PidMeansCommand,
         JobManagerStep \/ TermStep \/ CheckStep \/ StartJob \/ StartStep
  PROVE  PidMeansCommand'
<1> USE DEF Records, JobRecords, PidMeansCommand
<1>1. CASE JobManagerStep
  BY <1>1 DEF JobManagerStep, PtyEnds, WaitForProcess, SendJobExited, JobCmdExited, EndArrives,
              AckArrives, remote
<1>2. CASE TermStep
  BY <1>2 DEF TermStep, TermCall, TermAnswer, TermFails, RemoteTerminate, MarkTerminated, remote
<1>3. CASE CheckStep
  BY <1>3, TryTerminateKeepsPid DEF CheckStep, HandlerChecks, LoopEnds, LoopChecks, remote
<1>4. CASE StartJob
  BY <1>4 DEF StartJob, remote
<1>5. CASE StartStep
  BY <1>5 DEF StartStep, Spawn, ConnectFirst, StartCmd, StartBreaks, StartSucceeds, StartFails, remote
<1> QED BY <1>1, <1>2, <1>3, <1>4, <1>5

LEMMA ReconKeepsPid ==
  ASSUME Records, PidMeansCommand, ReconStep
  PROVE  PidMeansCommand'
<1> USE DEF Records, JobRecords, PidMeansCommand, Idle
<1>1. CASE ReconKill \/ ReconDial
  BY <1>1 DEF ReconKill, ReconDial, RemoteTerminate, remote
<1>2. CASE ReconCall
  BY <1>2 DEF ReconCall, ManagerGone, remote
<1>3. CASE ReconKilled \/ ReconGone
  <2>1. recon' = Idle /\ job'.pid = job.pid /\ UNCHANGED <<cmd, start>>
    BY <1>3 DEF ReconKilled, ReconGone, MarkTerminated, remote
  <2>2. recon'.at = "idle" /\ ~recon'.pid
    BY <2>1
  <2> QED BY <2>1, <2>2
<1>4. CASE WaitForRegister \/ SetJobConnStatus \/ PrepareConnect \/ PrepareAnswered
  BY <1>4 DEF WaitForRegister, SetJobConnStatus, PrepareConnect, PrepareAnswered, remote
<1>5. CASE ReconChecks
  <2>1. /\ UNCHANGED <<cmd, start>> /\ job'.pid = job.pid
        /\ recon'.at \in {"leave", "join", "idle", "rest"} /\ (recon'.pid => recon.pid)
    BY <1>5, TryTerminateKeepsPid DEF ReconChecks, remote
  <2> QED BY <2>1
<1>6. CASE ReconJoins \/ StreamWasDone \/ StartStream \/ ReconFails
  BY <1>6 DEF ReconJoins, StreamWasDone, StartStream, ReconFails, remote
<1> QED BY <1>1, <1>2, <1>3, <1>4, <1>5, <1>6 DEF ReconStep

LEMMA OthersKeepPid ==
  ASSUME Records, PidMeansCommand,
         \/ EventStep \/ UserReconnect \/ BlockCloses
         \/ LinkLost \/ ConnLost \/ ConnUp \/ ManagerDies \/ Crash
  PROVE  PidMeansCommand'
<1>1. CASE AttemptAutoReconnect \/ OnConnectionUp \/ UserReconnect
  BY <1>1, ReconnectsKeepPid
  DEF AttemptAutoReconnect, OnConnectionUp, UserReconnect, remote, PidMeansCommand
<1>2. CASE HandleRouteUp \/ HandleRouteDown \/ ConnWentDown \/ ConnCameUp \/ Reconciled
  BY <1>2 DEF HandleRouteUp, HandleRouteDown, ConnWentDown, ConnCameUp, Reconciled, remote, PidMeansCommand
<1>3. CASE BlockCloses
  <2> DEFINE record == [job EXCEPT !.block = FALSE]
  <2>1. record \in JobRecords /\ record.pid = job.pid
    BY DEF Records, JobRecords
  <2>2. Terminates(record) /\ UNCHANGED <<cmd, start, recon>>
    BY <1>3 DEF BlockCloses, remote
  <2> HIDE DEF record
  <2> QED BY <2>1, <2>2, TerminatesKeepsPid DEF PidMeansCommand
<1>4. CASE LinkLost \/ ConnLost \/ ConnUp \/ ManagerDies
  BY <1>4 DEF LinkLost, ConnLost, ConnUp, ManagerDies, remote, PidMeansCommand
<1>5. CASE Crash
  BY <1>5 DEF Crash, remote, Idle, PidMeansCommand
<1> QED BY <1>1, <1>2, <1>3, <1>4, <1>5 DEF EventStep

(* A reconnect never meets a job manager that has not started its command: *)
(* "job not started" is an answer that PrepareConnect does not give, also  *)
(* when StartJob is still under way or was cut off by a crash.             *)
CommandIsStarted == recon.at = "send" => cmd # "none"

(* The request of a reconnect finds the command started (PrepareConnect). *)
THEOREM NeverBeforeTheCommand == Spec => []CommandIsStarted
<1>1. Init => PidMeansCommand
  BY DEF Init, PidMeansCommand, Idle
<1>2. Inv /\ PidMeansCommand /\ [Next]_vars => PidMeansCommand'
  <2> SUFFICES ASSUME Inv, PidMeansCommand, [Next]_vars PROVE PidMeansCommand'
    OBVIOUS
  <2>1. CASE Next
    BY <2>1, HostKeepsPid, ReconKeepsPid, OthersKeepPid DEF Next, Inv
  <2>2. CASE UNCHANGED vars
    BY <2>2 DEF vars, remote, PidMeansCommand
  <2> QED BY <2>1, <2>2
<1>3. PidMeansCommand => CommandIsStarted
  BY DEF PidMeansCommand, CommandIsStarted
<1> QED BY <1>1, <1>2, <1>3, InvHolds, PTL DEF Spec

-----------------------------------------------------------------------------
(* Every step keeps TypeOK, which is inductive as it stands.  It says more *)
(* than types: the link to the job manager needs the connection and the    *)
(* process, the stream the link, the ack the stream; a record of the end   *)
(* has a reason; a reconnect that has not had its answer claims nothing.   *)

TermRecords == [at : {"idle", "call", "answer"}, pid : BOOLEAN]
ReconRecords ==
  [at : {"idle", "kill", "killed", "call", "dial", "gone", "wait", "set",
         "send", "answer", "check", "join", "rest", "last", "leave"},
   pid : BOOLEAN, exited : BOOLEAN, done : BOOLEAN]

(* Whoever terminates the job leaves its status and reason alone.          *)
LEMMA TerminatesKeepsRecords ==
  ASSUME RecordsOK, NEW record \in JobRecords, Terminates(record),
         record.status = job.status, record.why = job.why
  PROVE  /\ job' \in JobRecords /\ job'.status = job.status /\ job'.why = job.why
         /\ term' \in TermRecords
<1>1. CASE record.status = "done" \/ term.at # "idle"
  BY <1>1 DEF Terminates, RecordsOK, TermRecords
<1>2. CASE ~(record.status = "done" \/ term.at # "idle")
  <2>1. /\ job' = [record EXCEPT !.terminate = TRUE]
        /\ term' = [at |-> "call", pid |-> record.pid]
    BY <1>2 DEF Terminates
  <2> QED BY <2>1 DEF JobRecords, TermRecords
<1> QED BY <1>1, <1>2

(* So does tryTerminateJobManager.                                         *)
LEMMA TryTerminateKeepsRecords ==
  ASSUME RecordsOK, TryTerminate
  PROVE  /\ job' \in JobRecords /\ job'.status = job.status /\ job'.why = job.why
         /\ term' \in TermRecords
<1>1. job \in JobRecords /\ term \in TermRecords
  BY DEF RecordsOK, JobRecords, TermRecords
<1>2. CASE BothKnown
  BY <1>1, <1>2, TerminatesKeepsRecords DEF TryTerminate
<1>3. CASE ~BothKnown
  BY <1>1, <1>3 DEF TryTerminate
<1> QED BY <1>2, <1>3

(* A reconnect starts without an answer.                                   *)
LEMMA ReconnectsKeepsRecords ==
  ASSUME RecordsOK, Reconnects, UNCHANGED <<job, term>>
  PROVE  RecordsOK'
<1>1. CASE UNCHANGED <<recon, early>>
  BY <1>1 DEF RecordsOK
<1>2. CASE /\ recon' = [Idle EXCEPT !.at = IF job.terminate THEN "kill" ELSE "call",
                                    !.pid = job.pid]
           /\ early' = (early \/ ~job.pid)
  <2>1. PICK at \in {"kill", "call"} : recon' = [Idle EXCEPT !.at = at, !.pid = job.pid]
    BY <1>2
  <2>2. job.pid \in BOOLEAN
    BY DEF RecordsOK
  <2>3. recon' \in ReconRecords /\ ~recon'.exited /\ ~recon'.done
    BY <2>1, <2>2 DEF Idle, ReconRecords
  <2> QED BY <2>3 DEF RecordsOK, ReconRecords
<1> QED BY <1>1, <1>2 DEF Reconnects

(* What the job manager does.                                              *)
LEMMA JobManagerKeepsTypes ==
  ASSUME TypeOK, JobManagerStep
  PROVE  TypeOK'
<1> USE BoundsAssumption DEF TypeOK, remote, stream, links, events, ghosts, Idle
<1>1. CASE PtyEnds
  <2>1. RecordsOK'
    BY <1>1 DEF PtyEnds, RecordsOK
  <2>2. LinksOK'
    BY <1>1 DEF PtyEnds, LinksOK
  <2>3. StagesOK'
    BY <1>1 DEF PtyEnds, StagesOK
  <2>4. FlagsOK'
    BY <1>1 DEF PtyEnds, FlagsOK
  <2>5. CountsOK'
    BY <1>1 DEF PtyEnds, CountsOK
  <2> QED BY <2>1, <2>2, <2>3, <2>4, <2>5
<1>2. CASE WaitForProcess
  <2>1. RecordsOK'
    BY <1>2 DEF WaitForProcess, RecordsOK
  <2>2. LinksOK'
    BY <1>2 DEF WaitForProcess, LinksOK
  <2>3. StagesOK'
    BY <1>2 DEF WaitForProcess, StagesOK
  <2>4. FlagsOK'
    BY <1>2 DEF WaitForProcess, FlagsOK
  <2>5. CountsOK'
    BY <1>2 DEF WaitForProcess, CountsOK
  <2> QED BY <2>1, <2>2, <2>3, <2>4, <2>5
<1>3. CASE SendJobExited
  <2>1. RecordsOK'
    BY <1>3 DEF SendJobExited, RecordsOK
  <2>2. LinksOK'
    BY <1>3 DEF SendJobExited, LinksOK
  <2>3. StagesOK'
    BY <1>3 DEF SendJobExited, StagesOK
  <2>4. FlagsOK'
    BY <1>3 DEF SendJobExited, FlagsOK
  <2>5. CountsOK'
    BY <1>3 DEF SendJobExited, CountsOK
  <2> QED BY <2>1, <2>2, <2>3, <2>4, <2>5
<1>4. CASE JobCmdExited
  <2>1. RecordsOK'
    BY <1>4 DEF JobCmdExited, RecordsOK
  <2>2. LinksOK'
    BY <1>4 DEF JobCmdExited, LinksOK
  <2>3. StagesOK'
    BY <1>4 DEF JobCmdExited, StagesOK
  <2>4. FlagsOK'
    BY <1>4 DEF JobCmdExited, FlagsOK
  <2>5. CountsOK'
    BY <1>4 DEF JobCmdExited, CountsOK
  <2> QED BY <2>1, <2>2, <2>3, <2>4, <2>5
<1>5. CASE EndArrives
  <2>1. RecordsOK'
    BY <1>5 DEF EndArrives, RecordsOK
  <2>2. LinksOK'
    BY <1>5 DEF EndArrives, LinksOK
  <2>3. StagesOK'
    BY <1>5 DEF EndArrives, StagesOK
  <2>4. FlagsOK'
    BY <1>5 DEF EndArrives, FlagsOK
  <2>5. CountsOK'
    BY <1>5 DEF EndArrives, CountsOK
  <2> QED BY <2>1, <2>2, <2>3, <2>4, <2>5
<1>6. CASE AckArrives
  <2>1. RecordsOK'
    BY <1>6 DEF AckArrives, RecordsOK
  <2>2. LinksOK'
    BY <1>6 DEF AckArrives, LinksOK
  <2>3. StagesOK'
    BY <1>6 DEF AckArrives, StagesOK
  <2>4. FlagsOK'
    BY <1>6 DEF AckArrives, FlagsOK
  <2>5. CountsOK'
    BY <1>6 DEF AckArrives, CountsOK
  <2> QED BY <2>1, <2>2, <2>3, <2>4, <2>5
<1> QED BY <1>1, <1>2, <1>3, <1>4, <1>5, <1>6 DEF JobManagerStep

(* TerminateJobManager.                                                    *)
LEMMA TermKeepsTypes ==
  ASSUME TypeOK, TermStep
  PROVE  TypeOK'
<1> USE BoundsAssumption DEF TypeOK, remote, stream, links, events, ghosts, Idle
<1>1. CASE TermCall
  <2>1. RecordsOK'
    BY <1>1 DEF TermCall, RemoteTerminate, LoseRoute, RecordsOK
  <2>2. LinksOK'
    BY <1>1 DEF TermCall, RemoteTerminate, LoseRoute, LinksOK
  <2>3. StagesOK'
    BY <1>1 DEF TermCall, RemoteTerminate, LoseRoute, StagesOK
  <2>4. FlagsOK'
    BY <1>1 DEF TermCall, RemoteTerminate, LoseRoute, FlagsOK
  <2>5. CountsOK'
    BY <1>1 DEF TermCall, RemoteTerminate, LoseRoute, CountsOK
  <2> QED BY <2>1, <2>2, <2>3, <2>4, <2>5
<1>2. CASE TermAnswer
  <2>1. RecordsOK'
    BY <1>2 DEF TermAnswer, MarkTerminated, RecordsOK
  <2>2. LinksOK'
    BY <1>2 DEF TermAnswer, MarkTerminated, LinksOK
  <2>3. StagesOK'
    BY <1>2 DEF TermAnswer, MarkTerminated, StagesOK
  <2>4. FlagsOK'
    BY <1>2 DEF TermAnswer, MarkTerminated, FlagsOK
  <2>5. CountsOK'
    BY <1>2 DEF TermAnswer, MarkTerminated, CountsOK
  <2> QED BY <2>1, <2>2, <2>3, <2>4, <2>5
<1>3. CASE TermFails
  <2>1. RecordsOK'
    BY <1>3 DEF TermFails, NoAnswer, Mishap, RecordsOK
  <2>2. LinksOK'
    BY <1>3 DEF TermFails, NoAnswer, Mishap, LinksOK
  <2>3. StagesOK'
    BY <1>3 DEF TermFails, NoAnswer, Mishap, StagesOK
  <2>4. FlagsOK'
    BY <1>3 DEF TermFails, NoAnswer, Mishap, FlagsOK
  <2>5. CountsOK'
    BY <1>3 DEF TermFails, NoAnswer, Mishap, CountsOK
  <2> QED BY <2>1, <2>2, <2>3, <2>4, <2>5
<1> QED BY <1>1, <1>2, <1>3 DEF TermStep

(* tryTerminateJobManager.                                                 *)
LEMMA CheckKeepsTypes ==
  ASSUME TypeOK, CheckStep
  PROVE  TypeOK'
<1> USE BoundsAssumption DEF TypeOK, remote, stream, links, events, ghosts, Idle
<1>1. CASE HandlerChecks
  <2>1. RecordsOK'
    <3>1. TryTerminate /\ UNCHANGED recon
      BY <1>1 DEF HandlerChecks
    <3> QED BY <3>1, TryTerminateKeepsRecords DEF RecordsOK, JobRecords, TermRecords
  <2>2. LinksOK'
    BY <1>1 DEF HandlerChecks, TryTerminate, Terminates, LinksOK
  <2>3. StagesOK'
    BY <1>1 DEF HandlerChecks, TryTerminate, Terminates, StagesOK
  <2>4. FlagsOK'
    BY <1>1 DEF HandlerChecks, TryTerminate, Terminates, FlagsOK
  <2>5. CountsOK'
    BY <1>1 DEF HandlerChecks, TryTerminate, Terminates, CountsOK
  <2> QED BY <2>1, <2>2, <2>3, <2>4, <2>5
<1>2. CASE LoopEnds
  <2>1. RecordsOK'
    BY <1>2 DEF LoopEnds, RecordsOK
  <2>2. LinksOK'
    BY <1>2 DEF LoopEnds, LinksOK
  <2>3. StagesOK'
    BY <1>2 DEF LoopEnds, StagesOK
  <2>4. FlagsOK'
    BY <1>2 DEF LoopEnds, FlagsOK
  <2>5. CountsOK'
    BY <1>2 DEF LoopEnds, CountsOK
  <2> QED BY <2>1, <2>2, <2>3, <2>4, <2>5
<1>3. CASE LoopChecks
  <2>1. RecordsOK'
    <3>1. TryTerminate /\ UNCHANGED recon
      BY <1>3 DEF LoopChecks
    <3> QED BY <3>1, TryTerminateKeepsRecords DEF RecordsOK, JobRecords, TermRecords
  <2>2. LinksOK'
    BY <1>3 DEF LoopChecks, TryTerminate, Terminates, LinksOK
  <2>3. StagesOK'
    BY <1>3 DEF LoopChecks, TryTerminate, Terminates, StagesOK
  <2>4. FlagsOK'
    BY <1>3 DEF LoopChecks, TryTerminate, Terminates, FlagsOK
  <2>5. CountsOK'
    BY <1>3 DEF LoopChecks, TryTerminate, Terminates, CountsOK
  <2> QED BY <2>1, <2>2, <2>3, <2>4, <2>5
<1> QED BY <1>1, <1>2, <1>3 DEF CheckStep

(* StartJob.                                                               *)
LEMMA StartKeepsTypes ==
  ASSUME TypeOK,
         \/ StartJob \/ Spawn \/ ConnectFirst
         \/ StartCmd \/ StartBreaks \/ StartSucceeds \/ StartFails
  PROVE  TypeOK'
<1> USE BoundsAssumption DEF TypeOK, remote, stream, links, events, ghosts, Idle
<1>1. CASE StartJob
  <2>1. RecordsOK'
    BY <1>1 DEF StartJob, RecordsOK
  <2>2. LinksOK'
    BY <1>1 DEF StartJob, LinksOK
  <2>3. StagesOK'
    BY <1>1 DEF StartJob, StagesOK
  <2>4. FlagsOK'
    BY <1>1 DEF StartJob, FlagsOK
  <2>5. CountsOK'
    BY <1>1 DEF StartJob, CountsOK
  <2> QED BY <2>1, <2>2, <2>3, <2>4, <2>5
<1>2. CASE Spawn
  <2>1. RecordsOK'
    BY <1>2 DEF Spawn, RecordsOK
  <2>2. LinksOK'
    BY <1>2 DEF Spawn, LinksOK
  <2>3. StagesOK'
    BY <1>2 DEF Spawn, StagesOK
  <2>4. FlagsOK'
    BY <1>2 DEF Spawn, FlagsOK
  <2>5. CountsOK'
    BY <1>2 DEF Spawn, CountsOK
  <2> QED BY <2>1, <2>2, <2>3, <2>4, <2>5
<1>3. CASE ConnectFirst
  <2>1. RecordsOK'
    BY <1>3 DEF ConnectFirst, GainRoute, RecordsOK
  <2>2. LinksOK'
    BY <1>3 DEF ConnectFirst, GainRoute, LinksOK
  <2>3. StagesOK'
    BY <1>3 DEF ConnectFirst, GainRoute, StagesOK
  <2>4. FlagsOK'
    BY <1>3 DEF ConnectFirst, GainRoute, FlagsOK
  <2>5. CountsOK'
    BY <1>3 DEF ConnectFirst, GainRoute, CountsOK
  <2> QED BY <2>1, <2>2, <2>3, <2>4, <2>5
<1>4. CASE StartCmd
  <2>1. RecordsOK'
    BY <1>4 DEF StartCmd, RecordsOK
  <2>2. LinksOK'
    BY <1>4 DEF StartCmd, LinksOK
  <2>3. StagesOK'
    BY <1>4 DEF StartCmd, StagesOK
  <2>4. FlagsOK'
    BY <1>4 DEF StartCmd, FlagsOK
  <2>5. CountsOK'
    BY <1>4 DEF StartCmd, CountsOK
  <2> QED BY <2>1, <2>2, <2>3, <2>4, <2>5
<1>5. CASE StartBreaks
  <2>1. RecordsOK'
    BY <1>5 DEF StartBreaks, LoseRoute, NoAnswer, Mishap, RecordsOK
  <2>2. LinksOK'
    <3>1. UNCHANGED <<mgr, conn>> /\ (LoseRoute \/ UNCHANGED <<route, sending, ack>>)
      BY <1>5 DEF StartBreaks
    <3>2. CASE LoseRoute
      BY <3>1, <3>2 DEF LoseRoute, LinksOK
    <3>3. CASE UNCHANGED <<route, sending, ack>>
      BY <3>1, <3>3 DEF LinksOK
    <3> QED BY <3>1, <3>2, <3>3
  <2>3. StagesOK'
    BY <1>5 DEF StartBreaks, LoseRoute, NoAnswer, Mishap, StagesOK
  <2>4. FlagsOK'
    BY <1>5 DEF StartBreaks, LoseRoute, NoAnswer, Mishap, FlagsOK
  <2>5. CountsOK'
    BY <1>5 DEF StartBreaks, LoseRoute, NoAnswer, Mishap, CountsOK
  <2> QED BY <2>1, <2>2, <2>3, <2>4, <2>5
<1>6. CASE StartSucceeds
  <2>1. RecordsOK'
    BY <1>6 DEF StartSucceeds, RecordsOK
  <2>2. LinksOK'
    BY <1>6 DEF StartSucceeds, LinksOK
  <2>3. StagesOK'
    BY <1>6 DEF StartSucceeds, StagesOK
  <2>4. FlagsOK'
    BY <1>6 DEF StartSucceeds, FlagsOK
  <2>5. CountsOK'
    BY <1>6 DEF StartSucceeds, CountsOK
  <2> QED BY <2>1, <2>2, <2>3, <2>4, <2>5
<1>7. CASE StartFails
  <2>1. RecordsOK'
    BY <1>7 DEF StartFails, RecordsOK
  <2>2. LinksOK'
    BY <1>7 DEF StartFails, LinksOK
  <2>3. StagesOK'
    BY <1>7 DEF StartFails, StagesOK
  <2>4. FlagsOK'
    BY <1>7 DEF StartFails, FlagsOK
  <2>5. CountsOK'
    BY <1>7 DEF StartFails, CountsOK
  <2> QED BY <2>1, <2>2, <2>3, <2>4, <2>5
<1> QED BY <1>1, <1>2, <1>3, <1>4, <1>5, <1>6, <1>7

(* ReconnectJob up to the route.                                           *)
LEMMA ReconDialKeepsTypes ==
  ASSUME TypeOK,
         \/ ReconKill \/ ReconKilled \/ ReconCall
         \/ ReconDial \/ ReconGone \/ WaitForRegister \/ SetJobConnStatus
  PROVE  TypeOK'
<1> USE BoundsAssumption DEF TypeOK, remote, stream, links, events, ghosts, Idle
<1>1. CASE ReconKill
  <2>1. RecordsOK'
    BY <1>1 DEF ReconKill, RemoteTerminate, LoseRoute, RecordsOK
  <2>2. LinksOK'
    BY <1>1 DEF ReconKill, RemoteTerminate, LoseRoute, LinksOK
  <2>3. StagesOK'
    BY <1>1 DEF ReconKill, RemoteTerminate, LoseRoute, StagesOK
  <2>4. FlagsOK'
    BY <1>1 DEF ReconKill, RemoteTerminate, LoseRoute, FlagsOK
  <2>5. CountsOK'
    BY <1>1 DEF ReconKill, RemoteTerminate, LoseRoute, CountsOK
  <2> QED BY <2>1, <2>2, <2>3, <2>4, <2>5
<1>2. CASE ReconKilled
  <2>1. RecordsOK'
    BY <1>2 DEF ReconKilled, MarkTerminated, RecordsOK
  <2>2. LinksOK'
    BY <1>2 DEF ReconKilled, MarkTerminated, LinksOK
  <2>3. StagesOK'
    BY <1>2 DEF ReconKilled, MarkTerminated, StagesOK
  <2>4. FlagsOK'
    BY <1>2 DEF ReconKilled, MarkTerminated, FlagsOK
  <2>5. CountsOK'
    BY <1>2 DEF ReconKilled, MarkTerminated, CountsOK
  <2> QED BY <2>1, <2>2, <2>3, <2>4, <2>5
<1>3. CASE ReconCall
  <2>1. RecordsOK'
    BY <1>3 DEF ReconCall, LoseRoute, RecordsOK
  <2>2. LinksOK'
    BY <1>3 DEF ReconCall, LoseRoute, LinksOK
  <2>3. StagesOK'
    BY <1>3 DEF ReconCall, LoseRoute, StagesOK
  <2>4. FlagsOK'
    BY <1>3 DEF ReconCall, LoseRoute, FlagsOK
  <2>5. CountsOK'
    BY <1>3 DEF ReconCall, LoseRoute, CountsOK
  <2> QED BY <2>1, <2>2, <2>3, <2>4, <2>5
<1>4. CASE ReconDial
  <2>1. RecordsOK'
    BY <1>4 DEF ReconDial, GainRoute, RecordsOK
  <2>2. LinksOK'
    BY <1>4 DEF ReconDial, GainRoute, LinksOK
  <2>3. StagesOK'
    BY <1>4 DEF ReconDial, GainRoute, StagesOK
  <2>4. FlagsOK'
    BY <1>4 DEF ReconDial, GainRoute, FlagsOK
  <2>5. CountsOK'
    BY <1>4 DEF ReconDial, GainRoute, CountsOK
  <2> QED BY <2>1, <2>2, <2>3, <2>4, <2>5
<1>5. CASE ReconGone
  <2>1. RecordsOK'
    BY <1>5 DEF ReconGone, RecordsOK
  <2>2. LinksOK'
    BY <1>5 DEF ReconGone, LinksOK
  <2>3. StagesOK'
    BY <1>5 DEF ReconGone, StagesOK
  <2>4. FlagsOK'
    BY <1>5 DEF ReconGone, FlagsOK
  <2>5. CountsOK'
    BY <1>5 DEF ReconGone, CountsOK
  <2> QED BY <2>1, <2>2, <2>3, <2>4, <2>5
<1>6. CASE WaitForRegister
  <2>1. RecordsOK'
    BY <1>6 DEF WaitForRegister, RecordsOK
  <2>2. LinksOK'
    BY <1>6 DEF WaitForRegister, LinksOK
  <2>3. StagesOK'
    BY <1>6 DEF WaitForRegister, StagesOK
  <2>4. FlagsOK'
    BY <1>6 DEF WaitForRegister, FlagsOK
  <2>5. CountsOK'
    BY <1>6 DEF WaitForRegister, CountsOK
  <2> QED BY <2>1, <2>2, <2>3, <2>4, <2>5
<1>7. CASE SetJobConnStatus
  <2>1. RecordsOK'
    BY <1>7 DEF SetJobConnStatus, RecordsOK
  <2>2. LinksOK'
    BY <1>7 DEF SetJobConnStatus, LinksOK
  <2>3. StagesOK'
    BY <1>7 DEF SetJobConnStatus, StagesOK
  <2>4. FlagsOK'
    BY <1>7 DEF SetJobConnStatus, FlagsOK
  <2>5. CountsOK'
    BY <1>7 DEF SetJobConnStatus, CountsOK
  <2> QED BY <2>1, <2>2, <2>3, <2>4, <2>5
<1> QED BY <1>1, <1>2, <1>3, <1>4, <1>5, <1>6, <1>7

(* restartStreaming, and failures of either.                               *)
LEMMA RestartKeepsTypes ==
  ASSUME TypeOK,
         \/ PrepareConnect \/ PrepareAnswered \/ ReconChecks
         \/ ReconJoins \/ StreamWasDone \/ StartStream \/ ReconFails
  PROVE  TypeOK'
<1> USE BoundsAssumption DEF TypeOK, remote, stream, links, events, ghosts, Idle
<1>1. CASE PrepareConnect
  <2>1. RecordsOK'
    <3>1. RepliesExit \in BOOLEAN /\ acked \in BOOLEAN
      BY DEF RepliesExit, FlagsOK
    <3>2. /\ recon' = [recon EXCEPT !.at = "answer", !.exited = RepliesExit, !.done = acked]
          /\ UNCHANGED <<job, term>>
      BY <1>1 DEF PrepareConnect
    <3>3. recon' \in ReconRecords /\ recon'.at = "answer"
      BY <3>1, <3>2 DEF RecordsOK, ReconRecords
    <3> QED BY <3>2, <3>3 DEF RecordsOK, ReconRecords
  <2>2. LinksOK'
    BY <1>1 DEF PrepareConnect, RepliesExit, LinksOK
  <2>3. StagesOK'
    BY <1>1 DEF PrepareConnect, RepliesExit, StagesOK
  <2>4. FlagsOK'
    BY <1>1 DEF PrepareConnect, RepliesExit, FlagsOK
  <2>5. CountsOK'
    BY <1>1 DEF PrepareConnect, RepliesExit, CountsOK
  <2> QED BY <2>1, <2>2, <2>3, <2>4, <2>5
<1>2. CASE PrepareAnswered
  <2>1. RecordsOK'
    BY <1>2 DEF PrepareAnswered, RecordsOK
  <2>2. LinksOK'
    BY <1>2 DEF PrepareAnswered, LinksOK
  <2>3. StagesOK'
    BY <1>2 DEF PrepareAnswered, StagesOK
  <2>4. FlagsOK'
    BY <1>2 DEF PrepareAnswered, FlagsOK
  <2>5. CountsOK'
    BY <1>2 DEF PrepareAnswered, CountsOK
  <2> QED BY <2>1, <2>2, <2>3, <2>4, <2>5
<1>3. CASE ReconChecks
  <2>1. RecordsOK'
    <3>1. TryTerminate
      BY <1>3 DEF ReconChecks
    <3>2. \/ recon' = Idle
          \/ \E at \in {"leave", "join", "rest"} : recon' = [recon EXCEPT !.at = at]
      BY <1>3 DEF ReconChecks
    <3>3. recon' \in ReconRecords /\ recon'.at \in {"idle", "leave", "join", "rest"}
      <4>1. CASE recon' = Idle
        BY <4>1 DEF ReconRecords
      <4>2. ASSUME NEW at \in {"leave", "join", "rest"}, recon' = [recon EXCEPT !.at = at]
            PROVE  recon' \in ReconRecords /\ recon'.at = at
        BY <4>2 DEF RecordsOK, ReconRecords
      <4> QED BY <3>2, <4>1, <4>2
    <3> QED BY <3>1, <3>3, TryTerminateKeepsRecords
            DEF RecordsOK, JobRecords, TermRecords, ReconRecords
  <2>2. LinksOK'
    BY <1>3 DEF ReconChecks, TryTerminate, Terminates, BothKnown, LinksOK
  <2>3. StagesOK'
    BY <1>3 DEF ReconChecks, TryTerminate, Terminates, BothKnown, StagesOK
  <2>4. FlagsOK'
    BY <1>3 DEF ReconChecks, TryTerminate, Terminates, BothKnown, FlagsOK
  <2>5. CountsOK'
    BY <1>3 DEF ReconChecks, TryTerminate, Terminates, BothKnown, CountsOK
  <2> QED BY <2>1, <2>2, <2>3, <2>4, <2>5
<1>4. CASE ReconJoins
  <2>1. RecordsOK'
    BY <1>4 DEF ReconJoins, RecordsOK
  <2>2. LinksOK'
    BY <1>4 DEF ReconJoins, LinksOK
  <2>3. StagesOK'
    BY <1>4 DEF ReconJoins, StagesOK
  <2>4. FlagsOK'
    BY <1>4 DEF ReconJoins, FlagsOK
  <2>5. CountsOK'
    BY <1>4 DEF ReconJoins, CountsOK
  <2> QED BY <2>1, <2>2, <2>3, <2>4, <2>5
<1>5. CASE StreamWasDone
  <2>1. RecordsOK'
    BY <1>5 DEF StreamWasDone, RecordsOK
  <2>2. LinksOK'
    BY <1>5 DEF StreamWasDone, LinksOK
  <2>3. StagesOK'
    BY <1>5 DEF StreamWasDone, StagesOK
  <2>4. FlagsOK'
    BY <1>5 DEF StreamWasDone, FlagsOK
  <2>5. CountsOK'
    BY <1>5 DEF StreamWasDone, CountsOK
  <2> QED BY <2>1, <2>2, <2>3, <2>4, <2>5
<1>6. CASE StartStream
  <2>1. RecordsOK'
    BY <1>6 DEF StartStream, RecordsOK
  <2>2. LinksOK'
    BY <1>6 DEF StartStream, LinksOK
  <2>3. StagesOK'
    BY <1>6 DEF StartStream, StagesOK
  <2>4. FlagsOK'
    BY <1>6 DEF StartStream, FlagsOK
  <2>5. CountsOK'
    BY <1>6 DEF StartStream, CountsOK
  <2> QED BY <2>1, <2>2, <2>3, <2>4, <2>5
<1>7. CASE ReconFails
  <2>1. RecordsOK'
    BY <1>7 DEF ReconFails, NoAnswer, Mishap, RecordsOK
  <2>2. LinksOK'
    BY <1>7 DEF ReconFails, NoAnswer, Mishap, LinksOK
  <2>3. StagesOK'
    BY <1>7 DEF ReconFails, NoAnswer, Mishap, StagesOK
  <2>4. FlagsOK'
    BY <1>7 DEF ReconFails, NoAnswer, Mishap, FlagsOK
  <2>5. CountsOK'
    BY <1>7 DEF ReconFails, NoAnswer, Mishap, CountsOK
  <2> QED BY <2>1, <2>2, <2>3, <2>4, <2>5
<1> QED BY <1>1, <1>2, <1>3, <1>4, <1>5, <1>6, <1>7

(* Events, users and blocks.                                               *)
LEMMA EventKeepsTypes ==
  ASSUME TypeOK,
         \/ HandleRouteUp \/ HandleRouteDown \/ AttemptAutoReconnect \/ ConnWentDown
         \/ ConnCameUp \/ OnConnectionUp \/ Reconciled \/ UserReconnect \/ BlockCloses
  PROVE  TypeOK'
<1> USE BoundsAssumption DEF TypeOK, remote, stream, links, events, ghosts, Idle
<1>1. CASE HandleRouteUp
  <2>1. RecordsOK'
    BY <1>1 DEF HandleRouteUp, RecordsOK
  <2>2. LinksOK'
    BY <1>1 DEF HandleRouteUp, LinksOK
  <2>3. StagesOK'
    BY <1>1 DEF HandleRouteUp, StagesOK
  <2>4. FlagsOK'
    BY <1>1 DEF HandleRouteUp, FlagsOK
  <2>5. CountsOK'
    BY <1>1 DEF HandleRouteUp, CountsOK
  <2> QED BY <2>1, <2>2, <2>3, <2>4, <2>5
<1>2. CASE HandleRouteDown
  <2>1. RecordsOK'
    BY <1>2 DEF HandleRouteDown, RecordsOK
  <2>2. LinksOK'
    BY <1>2 DEF HandleRouteDown, LinksOK
  <2>3. StagesOK'
    BY <1>2 DEF HandleRouteDown, StagesOK
  <2>4. FlagsOK'
    BY <1>2 DEF HandleRouteDown, FlagsOK
  <2>5. CountsOK'
    BY <1>2 DEF HandleRouteDown, CountsOK
  <2> QED BY <2>1, <2>2, <2>3, <2>4, <2>5
<1>3. CASE AttemptAutoReconnect
  <2>1. RecordsOK'
    <3>1. Reconnects /\ UNCHANGED <<job, term>>
      BY <1>3 DEF AttemptAutoReconnect
    <3> QED BY <3>1, ReconnectsKeepsRecords
  <2>2. LinksOK'
    BY <1>3 DEF AttemptAutoReconnect, Reconnects, LinksOK
  <2>3. StagesOK'
    BY <1>3 DEF AttemptAutoReconnect, Reconnects, StagesOK
  <2>4. FlagsOK'
    BY <1>3 DEF AttemptAutoReconnect, Reconnects, FlagsOK
  <2>5. CountsOK'
    BY <1>3 DEF AttemptAutoReconnect, Reconnects, CountsOK
  <2> QED BY <2>1, <2>2, <2>3, <2>4, <2>5
<1>4. CASE ConnWentDown
  <2>1. RecordsOK'
    BY <1>4 DEF ConnWentDown, RecordsOK
  <2>2. LinksOK'
    BY <1>4 DEF ConnWentDown, LinksOK
  <2>3. StagesOK'
    BY <1>4 DEF ConnWentDown, StagesOK
  <2>4. FlagsOK'
    BY <1>4 DEF ConnWentDown, FlagsOK
  <2>5. CountsOK'
    BY <1>4 DEF ConnWentDown, CountsOK
  <2> QED BY <2>1, <2>2, <2>3, <2>4, <2>5
<1>5. CASE ConnCameUp
  <2>1. RecordsOK'
    BY <1>5 DEF ConnCameUp, RecordsOK
  <2>2. LinksOK'
    BY <1>5 DEF ConnCameUp, LinksOK
  <2>3. StagesOK'
    BY <1>5 DEF ConnCameUp, StagesOK
  <2>4. FlagsOK'
    BY <1>5 DEF ConnCameUp, FlagsOK
  <2>5. CountsOK'
    BY <1>5 DEF ConnCameUp, CountsOK
  <2> QED BY <2>1, <2>2, <2>3, <2>4, <2>5
<1>6. CASE OnConnectionUp
  <2>1. RecordsOK'
    <3>1. (Reconnects \/ UNCHANGED recon) /\ UNCHANGED <<job, term>>
      BY <1>6 DEF OnConnectionUp
    <3> QED BY <3>1, ReconnectsKeepsRecords DEF RecordsOK
  <2>2. LinksOK'
    BY <1>6 DEF OnConnectionUp, Reconnects, LinksOK
  <2>3. StagesOK'
    BY <1>6 DEF OnConnectionUp, Reconnects, StagesOK
  <2>4. FlagsOK'
    BY <1>6 DEF OnConnectionUp, Reconnects, FlagsOK
  <2>5. CountsOK'
    BY <1>6 DEF OnConnectionUp, Reconnects, CountsOK
  <2> QED BY <2>1, <2>2, <2>3, <2>4, <2>5
<1>7. CASE Reconciled
  <2>1. RecordsOK'
    BY <1>7 DEF Reconciled, RecordsOK
  <2>2. LinksOK'
    BY <1>7 DEF Reconciled, LinksOK
  <2>3. StagesOK'
    BY <1>7 DEF Reconciled, StagesOK
  <2>4. FlagsOK'
    BY <1>7 DEF Reconciled, FlagsOK
  <2>5. CountsOK'
    BY <1>7 DEF Reconciled, CountsOK
  <2> QED BY <2>1, <2>2, <2>3, <2>4, <2>5
<1>8. CASE UserReconnect
  <2>1. RecordsOK'
    <3>1. Reconnects /\ UNCHANGED <<job, term>>
      BY <1>8 DEF UserReconnect
    <3> QED BY <3>1, ReconnectsKeepsRecords
  <2>2. LinksOK'
    BY <1>8 DEF UserReconnect, Reconnects, Mishap, LinksOK
  <2>3. StagesOK'
    BY <1>8 DEF UserReconnect, Reconnects, Mishap, StagesOK
  <2>4. FlagsOK'
    BY <1>8 DEF UserReconnect, Reconnects, Mishap, FlagsOK
  <2>5. CountsOK'
    BY <1>8 DEF UserReconnect, Reconnects, Mishap, CountsOK
  <2> QED BY <2>1, <2>2, <2>3, <2>4, <2>5
<1>9. CASE BlockCloses
  <2>1. RecordsOK'
    <3> DEFINE detached == [job EXCEPT !.block = FALSE]
    <3>1. /\ detached \in JobRecords
          /\ detached.status = job.status /\ detached.why = job.why
      BY DEF RecordsOK, JobRecords
    <3>2. Terminates(detached) /\ UNCHANGED recon
      BY <1>9 DEF BlockCloses
    <3> HIDE DEF detached
    <3> QED BY <3>1, <3>2, TerminatesKeepsRecords DEF RecordsOK, JobRecords, TermRecords
  <2>2. LinksOK'
    BY <1>9 DEF BlockCloses, Terminates, LinksOK
  <2>3. StagesOK'
    BY <1>9 DEF BlockCloses, Terminates, StagesOK
  <2>4. FlagsOK'
    BY <1>9 DEF BlockCloses, Terminates, FlagsOK
  <2>5. CountsOK'
    BY <1>9 DEF BlockCloses, Terminates, CountsOK
  <2> QED BY <2>1, <2>2, <2>3, <2>4, <2>5
<1> QED BY <1>1, <1>2, <1>3, <1>4, <1>5, <1>6, <1>7, <1>8, <1>9

(* What goes wrong.                                                        *)
LEMMA FaultKeepsTypes ==
  ASSUME TypeOK,
         \/ LinkLost \/ ConnLost
         \/ ConnUp \/ ManagerDies \/ Crash
  PROVE  TypeOK'
<1> USE BoundsAssumption DEF TypeOK, remote, stream, links, events, ghosts, Idle
<1>1. CASE LinkLost
  <2>1. RecordsOK'
    BY <1>1 DEF LinkLost, Mishap, LoseRoute, RecordsOK
  <2>2. LinksOK'
    BY <1>1 DEF LinkLost, Mishap, LoseRoute, LinksOK
  <2>3. StagesOK'
    BY <1>1 DEF LinkLost, Mishap, LoseRoute, StagesOK
  <2>4. FlagsOK'
    BY <1>1 DEF LinkLost, Mishap, LoseRoute, FlagsOK
  <2>5. CountsOK'
    BY <1>1 DEF LinkLost, Mishap, LoseRoute, CountsOK
  <2> QED BY <2>1, <2>2, <2>3, <2>4, <2>5
<1>2. CASE ConnLost
  <2>1. RecordsOK'
    BY <1>2 DEF ConnLost, Mishap, LoseRoute, RecordsOK
  <2>2. LinksOK'
    BY <1>2 DEF ConnLost, Mishap, LoseRoute, LinksOK
  <2>3. StagesOK'
    BY <1>2 DEF ConnLost, Mishap, LoseRoute, StagesOK
  <2>4. FlagsOK'
    BY <1>2 DEF ConnLost, Mishap, LoseRoute, FlagsOK
  <2>5. CountsOK'
    BY <1>2 DEF ConnLost, Mishap, LoseRoute, CountsOK
  <2> QED BY <2>1, <2>2, <2>3, <2>4, <2>5
<1>3. CASE ConnUp
  <2>1. RecordsOK'
    BY <1>3 DEF ConnUp, RecordsOK
  <2>2. LinksOK'
    BY <1>3 DEF ConnUp, LinksOK
  <2>3. StagesOK'
    BY <1>3 DEF ConnUp, StagesOK
  <2>4. FlagsOK'
    BY <1>3 DEF ConnUp, FlagsOK
  <2>5. CountsOK'
    BY <1>3 DEF ConnUp, CountsOK
  <2> QED BY <2>1, <2>2, <2>3, <2>4, <2>5
<1>4. CASE ManagerDies
  <2>1. RecordsOK'
    BY <1>4 DEF ManagerDies, Mishap, LoseRoute, RecordsOK
  <2>2. LinksOK'
    BY <1>4 DEF ManagerDies, Mishap, LoseRoute, LinksOK
  <2>3. StagesOK'
    BY <1>4 DEF ManagerDies, Mishap, LoseRoute, StagesOK
  <2>4. FlagsOK'
    BY <1>4 DEF ManagerDies, Mishap, LoseRoute, FlagsOK
  <2>5. CountsOK'
    BY <1>4 DEF ManagerDies, Mishap, LoseRoute, CountsOK
  <2> QED BY <2>1, <2>2, <2>3, <2>4, <2>5
<1>5. CASE Crash
  <2>1. RecordsOK'
    BY <1>5 DEF Crash, Mishap, RecordsOK
  <2>2. LinksOK'
    BY <1>5 DEF Crash, Mishap, LinksOK
  <2>3. StagesOK'
    BY <1>5 DEF Crash, Mishap, StagesOK
  <2>4. FlagsOK'
    BY <1>5 DEF Crash, Mishap, FlagsOK
  <2>5. CountsOK'
    BY <1>5 DEF Crash, Mishap, CountsOK
  <2> QED BY <2>1, <2>2, <2>3, <2>4, <2>5
<1> QED BY <1>1, <1>2, <1>3, <1>4, <1>5

(* The types, and that nothing is sent over a link that is not there.      *)
THEOREM Types == Spec => []TypeOK
<1>1. Init => TypeOK
  <2> SUFFICES ASSUME Init PROVE TypeOK
    OBVIOUS
  <2>1. RecordsOK
    BY DEF Init, RecordsOK, Idle
  <2>2. LinksOK
    BY DEF Init, LinksOK
  <2>3. StagesOK
    BY DEF Init, StagesOK
  <2>4. FlagsOK
    BY DEF Init, FlagsOK
  <2>5. CountsOK
    BY BoundsAssumption DEF Init, CountsOK
  <2> QED BY <2>1, <2>2, <2>3, <2>4, <2>5 DEF TypeOK
<1>2. TypeOK /\ [Next]_vars => TypeOK'
  <2> SUFFICES ASSUME TypeOK, [Next]_vars PROVE TypeOK'
    OBVIOUS
  <2>1. CASE Next
    BY <2>1, JobManagerKeepsTypes, TermKeepsTypes, CheckKeepsTypes, StartKeepsTypes,
       ReconDialKeepsTypes, RestartKeepsTypes, EventKeepsTypes, FaultKeepsTypes
    DEF Next, StartStep, ReconStep, EventStep
  <2>2. CASE UNCHANGED vars
    BY <2>2 DEF vars, remote, stream, links, events, ghosts, TypeOK, RecordsOK, LinksOK,
                StagesOK, FlagsOK, CountsOK
  <2> QED BY <2>1, <2>2
<1> QED BY <1>1, <1>2, PTL DEF Spec

=============================================================================
