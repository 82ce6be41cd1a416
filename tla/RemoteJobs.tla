----------------------------- MODULE RemoteJobs -----------------------------
(***************************************************************************)
(* Jobs routed to an agent: JobsService.enqueueRemote, the events job:run  *)
(* and job:complete of the gateway, executeJob in the agent process, and   *)
(* the jobs rows, on top of the presence protocol of AgentsGateway.        *)
(*                                                                         *)
(* A request to run a job is cut at its awaits like every handler.  What   *)
(* the backend emits to a room is put on the connection of each of its     *)
(* sockets; what an agent emits goes to its connection, or to the send     *)
(* buffer of the Socket.IO client while it is disconnected, which is       *)
(* flushed right after the next connect.  What is under way when the       *)
(* receiving end closes is lost; nothing is ever sent twice.               *)
(***************************************************************************)
EXTENDS AgentsGateway

CONSTANTS
  Job,     (* requests to run an action; each makes at most one jobs row    *)
  JobApp   (* JobApp[j]: the device the request names (appId)               *)

ASSUME JobAppType == JobApp \in [Job -> App]

Report == Job \X BOOLEAN    (* job:complete: the job, and "exitCode is 0"   *)

VARIABLES
  job,      (* job[j]: jobs.status, "none" before the INSERT                *)
  ran,      (* ran[j]: verdicts the scripts of j have ended with (history)  *)
  req,      (* req[j]: progress of enqueueRemote for j                      *)
  runs,     (* runs[s]: job:run messages on their way to the agent of s     *)
  exec,     (* exec[a]: jobs whose script process a is running              *)
  began,    (* began[a]: jobs process a has ever started (history)          *)
  outbox,   (* outbox[a]: reports in the send buffer of a's client          *)
  reports,  (* reports[s]: job:complete messages on their way to the backend *)
  finish    (* handleJobComplete calls that await markFinished              *)

jobVars  == <<job, ran, req, runs, exec, began, outbox, reports, finish>>
allVars  == <<gwVars, jobVars>>

JobTypeOK ==
  /\ job  \in [Job -> {"none", "pending", "running", "success", "failed"}]
  /\ ran  \in [Job -> SUBSET BOOLEAN]
  /\ req  \in [Job -> {"idle", "seen", "script", "created", "marked",
                       "answered", "refused", "error"}]
  /\ runs \in [Socket -> SUBSET Job]
  /\ exec \in [Agent -> SUBSET Job]
  /\ began \in [Agent -> SUBSET Job]
  /\ outbox \in [Agent -> SUBSET Report]
  /\ reports \in [Socket -> SUBSET Report]
  /\ finish \subseteq Report

JobsTypeOK == TypeOK /\ JobTypeOK

Verdict(ok) == IF ok THEN "success" ELSE "failed"
Finished(j) == job[j] \in {"success", "failed"}

JobInit ==
  /\ Init
  /\ job  = [j \in Job |-> "none"]
  /\ ran  = [j \in Job |-> {}]
  /\ req  = [j \in Job |-> "idle"]
  /\ runs = [s \in Socket |-> {}]
  /\ exec = [a \in Agent |-> {}]
  /\ began = [a \in Agent |-> {}]
  /\ outbox = [a \in Agent |-> {}]
  /\ reports = [s \in Socket |-> {}]
  /\ finish = {}

-----------------------------------------------------------------------------
(* JobsService.enqueueRemote                                               *)

Request(j, from, to) == req[j] = from /\ req' = [req EXCEPT ![j] = to]

wireVars == <<runs, exec, began, outbox, reports, finish, ran>>

(* findByIdInternal reads the row; a missing or shown-offline device, or a
   failed query, ends the request.                                         *)
ReqFind(j) ==
  /\ \/ ShownOnline(JobApp[j]) /\ Request(j, "idle", "seen")
     \/ ~ShownOnline(JobApp[j]) /\ Request(j, "idle", "refused")
     \/ "db" \in Faults /\ Request(j, "idle", "refused")
  /\ UNCHANGED <<gwVars, job, wireVars>>

(* ... back from the await it asks the gateway whether the room exists.    *)
ReqCheck(j) ==
  /\ \/ isAppConnected(JobApp[j]) /\ Request(j, "seen", "script")
     \/ ~isAppConnected(JobApp[j]) /\ Request(j, "seen", "refused")
  /\ UNCHANGED <<gwVars, job, wireVars>>

(* getActionScript, then the INSERT of a pending row; app_id references
   apps(id), so it fails if the device was removed meanwhile.              *)
ReqCreate(j) ==
  /\ \/ /\ row[JobApp[j]] # "removed"
        /\ Request(j, "script", "created")
        /\ job' = [job EXCEPT ![j] = "pending"]
     \/ /\ row[JobApp[j]] = "removed" \/ "db" \in Faults
        /\ Request(j, "script", "error")
        /\ \/ UNCHANGED job
           \/ row[JobApp[j]] # "removed" /\ job' = [job EXCEPT ![j] = "pending"]
  /\ UNCHANGED <<gwVars, wireVars>>

(* The UPDATE of markDispatched left to execute at some later time.        *)
ReqMarkNotAwaited(j) ==
  /\ \/ Request(j, "created", "marked") /\ UNCHANGED job
     \/ /\ job[j] # "none"
        /\ job' = [job EXCEPT ![j] = "running"]
        /\ UNCHANGED req
  /\ UNCHANGED <<gwVars, wireVars>>

(* markDispatched: UPDATE jobs SET status = 'running', whatever it was.  If
   it fails the caller gets ENQUEUE_FAILED and the row stays pending.      *)
ReqMark(j) ==
  /\ \/ /\ Request(j, "created", "marked")
        /\ job' = [job EXCEPT ![j] = "running"]
     \/ /\ "db" \in Faults
        /\ Request(j, "created", "error")
        /\ UNCHANGED job \/ job' = [job EXCEPT ![j] = "running"]
  /\ UNCHANGED <<gwVars, wireVars>>

(* The job is handed to every agent instead of the agents of its device.   *)
ReqDispatchToAll(j) ==
  /\ Request(j, "marked", "answered")
  /\ runs' = [s \in Socket |-> runs[s] \cup {j}]
  /\ UNCHANGED <<gwVars, job, exec, began, outbox, reports, finish, ran>>

(* The job is handed out before its row says so.                           *)
ReqDispatchEarly(j) ==
  /\ Request(j, "created", "marked")
  /\ runs' = [s \in Socket |->
                IF s \in rooms[JobApp[j]] THEN runs[s] \cup {j} ELSE runs[s]]
  /\ UNCHANGED <<gwVars, job, exec, began, outbox, reports, finish, ran>>

(* ... or handed out and then reported as not enqueued.                    *)
ReqDispatchAndFail(j) ==
  /\ Request(j, "marked", "error")
  /\ runs' = [s \in Socket |->
                IF s \in rooms[JobApp[j]] THEN runs[s] \cup {j} ELSE runs[s]]
  /\ UNCHANGED <<gwVars, job, exec, began, outbox, reports, finish, ran>>

(* dispatchJob emits job:run to whatever sockets the room has now, perhaps
   none, and the request is answered.                                      *)
ReqDispatch(j) ==
  /\ Request(j, "marked", "answered")
  /\ runs' = [s \in Socket |->
                IF s \in rooms[JobApp[j]] THEN runs[s] \cup {j} ELSE runs[s]]
  /\ UNCHANGED <<gwVars, job, exec, began, outbox, reports, finish, ran>>

-----------------------------------------------------------------------------
(* The agent process                                                       *)

(* The message stays to be received again.                                 *)
ReceiveRunAndKeep(s, j) ==
  /\ cl[s] = "up" /\ j \in runs[s]
  /\ exec'  = [exec EXCEPT ![owner[s]] = @ \cup {j}]
  /\ began' = [began EXCEPT ![owner[s]] = @ \cup {j}]
  /\ UNCHANGED <<runs, gwVars, job, ran, req, outbox, reports, finish>>

(* 'job:run' arrives: executeJob starts the script, beside any other.      *)
ReceiveRun(s, j) ==
  /\ cl[s] = "up" /\ j \in runs[s]
  /\ runs'  = [runs EXCEPT ![s] = @ \ {j}]
  /\ exec'  = [exec EXCEPT ![owner[s]] = @ \cup {j}]
  /\ began' = [began EXCEPT ![owner[s]] = @ \cup {j}]
  /\ UNCHANGED <<gwVars, job, ran, req, outbox, reports, finish>>

(* Only a script that failed is reported.                                  *)
ScriptEndsFailuresOnly(a, j, ok) ==
  /\ j \in exec[a]
  /\ exec' = [exec EXCEPT ![a] = @ \ {j}]
  /\ ran'  = [ran EXCEPT ![j] = @ \cup {ok}]
  /\ UNCHANGED outbox
  /\ reports' = [s \in Socket |->
                   IF owner[s] = a /\ cl[s] = "up" /\ sv[s] = "up" /\ ~ok
                   THEN reports[s] \cup {<<j, ok>>} ELSE reports[s]]
  /\ UNCHANGED <<gwVars, job, req, runs, began, finish>>

(* The script ends, is killed at SCRIPT_TIMEOUT_MS or could not be started
   (no exit code: not ok), and 'job:complete' is emitted: buffered while the
   client is disconnected, lost if only the backend knows it is.           *)
ScriptEnds(a, j, ok) ==
  /\ j \in exec[a]
  /\ exec' = [exec EXCEPT ![a] = @ \ {j}]
  /\ ran'  = [ran EXCEPT ![j] = @ \cup {ok}]
  /\ outbox' = [outbox EXCEPT ![a] =
                  IF Connected(a) THEN @ ELSE @ \cup {<<j, ok>>}]
  /\ reports' = [s \in Socket |->
                   IF owner[s] = a /\ cl[s] = "up" /\ sv[s] = "up"
                   THEN reports[s] \cup {<<j, ok>>} ELSE reports[s]]
  /\ UNCHANGED <<gwVars, job, req, runs, began, finish>>

-----------------------------------------------------------------------------
(* handleJobComplete: no check of the socket, of the job or of its status. *)

ReceiveReport(s, r) ==
  /\ sv[s] = "up" /\ r \in reports[s]
  /\ reports' = [reports EXCEPT ![s] = @ \ {r}]
  /\ finish'  = finish \cup {r}
  /\ UNCHANGED <<gwVars, job, ran, req, runs, exec, began, outbox>>

(* The exit code is read the wrong way round.                              *)
MarkFinishedSwapped(r) ==
  /\ r \in finish
  /\ finish' = finish \ {r}
  /\ job' = [job EXCEPT ![r[1]] = Verdict(~r[2])]
  /\ UNCHANGED <<gwVars, ran, req, runs, exec, began, outbox, reports>>

(* The UPDATE of markFinished executes; an error is caught and logged, and
   the verdict is published to the viewers in either case.                 *)
MarkFinished(r) ==
  /\ r \in finish
  /\ finish' = finish \ {r}
  /\ \/ job' = [job EXCEPT ![r[1]] = Verdict(r[2])]
     \/ "db" \in Faults /\ UNCHANGED job
  /\ UNCHANGED <<gwVars, ran, req, runs, exec, began, outbox, reports>>

-----------------------------------------------------------------------------
(* What a step of the presence protocol does to the messages and scripts.  *)

(* A closed end receives nothing more.  A connection that opens carries what
   the agent's client had buffered.  A process that exits takes its scripts
   and its buffer with it; what starts afterwards is another process.      *)
WireFollows ==
  /\ runs' = [s \in Socket |-> IF cl'[s] = "up" THEN runs[s] ELSE {}]
  /\ reports' = [s \in Socket |->
       IF sv'[s] = "down" THEN {}
       ELSE IF sv[s] = "down" THEN outbox[owner'[s]] ELSE reports[s]]
  /\ outbox' = [a \in Agent |->
       IF proc'[a] = "off" \/ (Connected(a)' /\ ~Connected(a)) THEN {} ELSE outbox[a]]
  /\ exec'  = [a \in Agent |-> IF proc'[a] = "off" THEN {} ELSE exec[a]]
  /\ began' = [a \in Agent |-> IF proc'[a] = "off" THEN {} ELSE began[a]]

PresenceStep == Step /\ WireFollows /\ UNCHANGED <<job, ran, req, finish>>

(* With the backend die the requests and the handlers it was serving.      *)
RequestsLost ==
  req' = [j \in Job |->
            IF req[j] \in {"seen", "script", "created", "marked"} THEN "error" ELSE req[j]]

BackendDeath ==
  Death /\ WireFollows /\ RequestsLost /\ finish' = {} /\ UNCHANGED <<job, ran>>

JobStep ==
  \/ \E j \in Job :
       ReqFind(j) \/ ReqCheck(j) \/ ReqCreate(j) \/ ReqMark(j) \/ ReqDispatch(j)
  \/ \E s \in Socket, j \in Job : ReceiveRun(s, j)
  \/ \E a \in Agent, j \in Job, ok \in BOOLEAN : ScriptEnds(a, j, ok)
  \/ \E s \in Socket, r \in Report : ReceiveReport(s, r)
  \/ \E r \in Report : MarkFinished(r)

JobNext == PresenceStep \/ BackendDeath \/ JobStep

JobSpec == JobInit /\ [][JobNext]_allVars

(* Scripts end (SCRIPT_TIMEOUT_MS kills them), messages arrive unless the
   connection is cut, handlers are resumed.  That a request is made at all
   is nobody's promise.                                                    *)
JobFairness ==
  /\ \A app \in App : WF_allVars(PresenceStep /\ Elapse(app))
  /\ \A a \in Agent : WF_allVars(PresenceStep /\ \E s \in Socket : Connect(a, s))
  /\ \A s \in Socket :
       /\ WF_allVars(sv[s] = "down" /\ (ClientDrop(s) \/ ClientKicked(s)) /\ PresenceStep)
       /\ WF_allVars(cl[s] = "down" /\ ServerDrop(s) /\ PresenceStep)
       /\ WF_allVars((RegAuth(s) \/ RegMark(s) \/ RegJoin(s)) /\ PresenceStep)
       /\ WF_allVars(\E j \in Job : ReceiveRun(s, j))
       /\ WF_allVars(\E r \in Report : ReceiveReport(s, r))
  /\ \A j \in Job :
       /\ WF_allVars(ReqCheck(j) \/ ReqCreate(j) \/ ReqMark(j) \/ ReqDispatch(j))
       /\ \A a \in Agent : WF_allVars(\E ok \in BOOLEAN : ScriptEnds(a, j, ok))
  /\ \A r \in Report : WF_allVars(MarkFinished(r))

FairJobSpec == JobSpec /\ JobFairness
-----------------------------------------------------------------------------
(* Safety.                                                                 *)

(* The report is on a connection, in a send buffer or in a handler.        *)
Reported(r) ==
  \/ r \in finish
  \/ \E s \in Socket : r \in reports[s]
  \/ \E a \in Agent : r \in outbox[a]

(* The job is somewhere outside the requests and the table.                *)
AtLarge(j) ==
  \/ \E s \in Socket : j \in runs[s]
  \/ \E a \in Agent : j \in exec[a]
  \/ \E ok \in BOOLEAN : Reported(<<j, ok>>)

(* Nothing can be known of a job outside before its row is running: this
   order (markDispatched awaited, then dispatchJob) is all that keeps the
   unguarded UPDATE of markDispatched from undoing a finished job.         *)
OutOnlyWhenMarked ==
  \A j \in Job : AtLarge(j) => job[j] \notin {"none", "pending"} /\ req[j] # "marked"

(* A finished row tells the truth: some process of the device ran the script
   to an end with that verdict, whatever was lost, late or repeated.       *)
FinishedMeansRan ==
  \A j \in Job : Finished(j) => \E ok \in ran[j] : job[j] = Verdict(ok)

(* A request answered with an error (DEVICE_OFFLINE, ENQUEUE_FAILED) can be
   made again: the script of the failed one has not run and never will.    *)
RefusedNeverRuns ==
  \A j \in Job : req[j] \in {"refused", "error"} => ~AtLarge(j) /\ ran[j] = {}

(* Scripts reach only the device they were meant for, though the gateway
   addresses rooms and slots of closed connections are used again.         *)
OnlyItsDevice ==
  /\ \A s \in Socket : \A j \in runs[s] : owner[s] \in Agent /\ appOf(s) = JobApp[j]
  /\ \A a \in Agent : \A j \in began[a] : AppOf[a] = JobApp[j]

(* A finished job stays finished: pollers may stop at the first sight of it. *)
StaysFinished ==
  [][\A j \in Job : Finished(j) => Finished(j)']_allVars

(* One process never starts the same job twice, across reconnections.      *)
AtMostOncePerProcess ==
  [][\A a \in Agent, j \in Job : j \in exec'[a] /\ j \notin exec[a]
       => j \notin began[a]]_allVars

(* The rows behave as every reader of them expects.                        *)
Lifecycle == INSTANCE JobLifecycle WITH Job <- Job, job <- job, ran <- ran
ImplementsLifecycle == Lifecycle!Spec

-----------------------------------------------------------------------------
(* The inductive invariant: why the safety properties hold.                *)

(* Where a request is decides what its row can be.  Until it is answered
   nothing of the job is outside, and no process has seen it.              *)
RequestInv ==
  \A j \in Job :
    /\ req[j] \in {"idle", "seen", "script", "refused"} => job[j] = "none"
    /\ req[j] = "created"  => job[j] = "pending"
    /\ req[j] = "marked"   => job[j] = "running"
    /\ req[j] = "error"    => ~Finished(j)
    /\ req[j] = "answered" => job[j] = "running" \/ Finished(j)
    /\ req[j] # "answered" => ~AtLarge(j) /\ ran[j] = {} /\ \A a \in Agent : j \notin began[a]

(* A report, wherever it is, carries a verdict a script really ended with. *)
ReportsAreTrue ==
  \A j \in Job, ok \in BOOLEAN : Reported(<<j, ok>>) => ok \in ran[j]

(* Messages are only on a connection that one of its ends holds open.      *)
WireHasEnds ==
  \A s \in Socket :
    /\ runs[s] # {} => cl[s] = "up" \/ sv[s] = "up"
    /\ reports[s] # {} => sv[s] = "up"

(* What a process is about to receive it has never started, and what it runs
   it has started.                                                         *)
NewToItsProcess ==
  /\ \A s \in Socket : \A j \in runs[s] : cl[s] = "up" => j \notin began[owner[s]]
  /\ \A a \in Agent : exec[a] \subseteq began[a]

JobInv ==
  /\ GatewayInv
  /\ JobTypeOK
  /\ RequestInv
  /\ FinishedMeansRan
  /\ ReportsAreTrue
  /\ WireHasEnds
  /\ OnlyItsDevice
  /\ NewToItsProcess

-----------------------------------------------------------------------------
(* Liveness, under FairJobSpec.                                            *)

(* A job that was sent to an open connection finishes, unless one of the two
   ends of that connection is cut on the way.                              *)
SentJobFinishes ==
  \A s \in Socket, j \in Job :
    j \in runs[s] /\ cl[s] = "up" /\ sv[s] = "up"
      ~> Finished(j) \/ cl[s] = "down" \/ sv[s] = "down"

(* cli/src/api/jobs.ts: waitForJob "waits until the job ends
   (success/failed)", polling without limit: every job accepted for a device
   comes to an end.  Refuted: the device may leave between isAppConnected and
   the emit, or the report may be lost with its connection.                *)
AcceptedJobFinishes ==
  \A j \in Job : req[j] = "answered" ~> Finished(j)
=============================================================================
