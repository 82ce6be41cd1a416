----------------------------- MODULE LocalJobs -----------------------------
(***************************************************************************)
(* Jobs run on the backend's own machine: JobsService.enqueue without an   *)
(* appId, the BullMQ queue script-execution, and JobsProcessor.process.    *)
(*                                                                         *)
(* The queue (in Redis) outlives the backend.  Its worker processes one    *)
(* job at a time, gives a failed job no second attempt, and puts a job     *)
(* whose process died back once (maxStalledCount, by default 1); the next  *)
(* time it fails the job without calling process.                          *)
(*                                                                         *)
(* markRunning is called without await: it and markFinished are queries on *)
(* different connections of the pool, which execute in any order.  That    *)
(* markFinished executes, that its answer settles the promise of process,  *)
(* and that BullMQ hears of it are three moments.                          *)
(***************************************************************************)
EXTENDS Naturals

CONSTANTS
  Job,      (* requests to run an action on the backend                     *)
  NoJob,    (* the worker is idle                                           *)
  Faults    (* which faults are admitted                                    *)

ASSUME NoJobFresh  == NoJob \notin Job
ASSUME FaultsType  == Faults \subseteq {"db", "redis", "spawn", "crash"}

MaxStalledCount == 1

VARIABLES
  job,      (* job[j]: jobs.status, "none" before the INSERT                *)
  ran,      (* ran[j]: verdicts the scripts of j have ended with (history)  *)
  req,      (* req[j]: progress of enqueue for j                            *)
  queue,    (* queue[j]: where BullMQ has the job                           *)
  stalled,  (* stalled[j]: how often BullMQ has found it abandoned          *)
  started,  (* started[j]: how often process was called for it (history)    *)
  busy,     (* the job whose process() the worker awaits                    *)
  child,    (* the script of that job - none, running, unborn (spawn failed),
               over - and then the promise of process: resolved, rejected    *)
  writes,   (* UPDATEs issued and not executed: <<job, run, handler, status>> *)
  answers,  (* those of 'close' and 'error' that were executed, not answered  *)
  overtaken (* jobs whose finished row a late markRunning took back (history) *)

vars == <<job, ran, req, queue, stalled, started, busy, child, writes, answers, overtaken>>

Run     == 1 .. MaxStalledCount + 1
Handler == {"spawn", "close", "error"}
Update  == Job \X Run \X Handler \X {"running", "success", "failed"}

TypeOK ==
  /\ job     \in [Job -> {"none", "pending", "running", "success", "failed"}]
  /\ ran     \in [Job -> SUBSET BOOLEAN]
  /\ req     \in [Job -> {"idle", "created", "answered", "error"}]
  /\ queue   \in [Job -> {"none", "waiting", "active", "completed", "failed"}]
  /\ stalled \in [Job -> 0 .. MaxStalledCount]
  /\ started \in [Job -> 0 .. MaxStalledCount + 1]
  /\ busy    \in Job \cup {NoJob}
  /\ child   \in {"none", "running", "unborn", "over", "resolved", "rejected"}
  /\ writes  \subseteq Update
  /\ answers \subseteq Update
  /\ overtaken \subseteq Job

Verdict(ok) == IF ok THEN "success" ELSE "failed"
Finished(j) == job[j] \in {"success", "failed"}

Init ==
  /\ job     = [j \in Job |-> "none"]
  /\ ran     = [j \in Job |-> {}]
  /\ req     = [j \in Job |-> "idle"]
  /\ queue   = [j \in Job |-> "none"]
  /\ stalled = [j \in Job |-> 0]
  /\ started = [j \in Job |-> 0]
  /\ busy    = NoJob
  /\ child   = "none"
  /\ writes  = {}
  /\ answers = {}
  /\ overtaken = {}

workerVars == <<started, busy, child, writes, answers, overtaken, ran>>

-----------------------------------------------------------------------------
(* JobsService.enqueue                                                     *)

(* The INSERT of a pending row; a failed query may have executed.          *)
EnqueueCreate(j) ==
  /\ req[j] = "idle"
  /\ \/ req' = [req EXCEPT ![j] = "created"] /\ job' = [job EXCEPT ![j] = "pending"]
     \/ /\ "db" \in Faults
        /\ req' = [req EXCEPT ![j] = "error"]
        /\ UNCHANGED job \/ job' = [job EXCEPT ![j] = "pending"]
  /\ UNCHANGED <<queue, stalled, workerVars>>

(* queue.add; if it fails (and it may have reached Redis all the same) the
   caller gets ENQUEUE_FAILED and nobody touches the pending row.          *)
EnqueueAdd(j) ==
  /\ req[j] = "created"
  /\ \/ req' = [req EXCEPT ![j] = "answered"] /\ queue' = [queue EXCEPT ![j] = "waiting"]
     \/ /\ "redis" \in Faults
        /\ req' = [req EXCEPT ![j] = "error"]
        /\ UNCHANGED queue \/ queue' = [queue EXCEPT ![j] = "waiting"]
  /\ UNCHANGED <<job, stalled, workerVars>>

-----------------------------------------------------------------------------
(* JobsProcessor.process                                                   *)

Issue(j, handler, status) == {<<j, started'[j], handler, status>>}

(* The worker takes a waiting job; process spawns bash in the template's
   directory (which fails if it is gone) and issues markRunning.           *)
Take(j) ==
  /\ busy = NoJob /\ queue[j] = "waiting"
  /\ queue'   = [queue EXCEPT ![j] = "active"]
  /\ started' = [started EXCEPT ![j] = @ + 1]
  /\ busy'    = j
  /\ child' \in {"running"} \cup {"unborn" : f \in Faults \cap {"spawn"}}
  /\ writes'  = writes \cup Issue(j, "spawn", "running")
  /\ UNCHANGED <<job, ran, req, stalled, answers, overtaken>>

(* The exit code is read the wrong way round.                              *)
ChildEndsSwapped(ok) ==
  /\ child = "running"
  /\ child' = "over"
  /\ ran'   = [ran EXCEPT ![busy] = @ \cup {ok}]
  /\ UNCHANGED started
  /\ writes' = writes \cup Issue(busy, "close", Verdict(~ok))
  /\ UNCHANGED <<job, req, queue, stalled, busy, answers, overtaken>>

(* The promise is resolved beside markFinished, not after it.              *)
ChildEndsUnawaited(ok) ==
  /\ child = "running"
  /\ child' = "resolved"
  /\ ran'   = [ran EXCEPT ![busy] = @ \cup {ok}]
  /\ UNCHANGED started
  /\ writes' = writes \cup Issue(busy, "close", Verdict(ok))
  /\ UNCHANGED <<job, req, queue, stalled, busy, answers, overtaken>>

(* The script ends or is killed at SCRIPT_TIMEOUT_MS: 'close'.             *)
ChildEnds(ok) ==
  /\ child = "running"
  /\ child' = "over"
  /\ ran'   = [ran EXCEPT ![busy] = @ \cup {ok}]
  /\ UNCHANGED started
  /\ writes' = writes \cup Issue(busy, "close", Verdict(ok))
  /\ UNCHANGED <<job, req, queue, stalled, busy, answers, overtaken>>

(* A script that could not be spawned: 'error' and then 'close' with a
   negative code.                                                          *)
ChildUnborn ==
  /\ child = "unborn"
  /\ child' = "over"
  /\ ran'   = [ran EXCEPT ![busy] = @ \cup {FALSE}]
  /\ UNCHANGED started
  /\ writes' = writes \cup Issue(busy, "error", "failed") \cup Issue(busy, "close", "failed")
  /\ UNCHANGED <<job, req, queue, stalled, busy, answers, overtaken>>

(* An UPDATE executes.  Neither looks at what the row says: markRunning may
   take back what markFinished wrote.                                      *)
Executes(w) ==
  /\ job' = [job EXCEPT ![w[1]] = w[4]]
  /\ overtaken' = IF w[4] # "running" THEN overtaken \ {w[1]}
                  ELSE IF Finished(w[1]) THEN overtaken \cup {w[1]} ELSE overtaken

(* Nobody waits for markRunning.                                           *)
Write(w) ==
  /\ w \in writes
  /\ writes'  = writes \ {w}
  /\ answers' = IF w[3] = "spawn" THEN answers ELSE answers \cup {w}
  /\ Executes(w)
  /\ UNCHANGED <<req, queue, stalled, started, busy, child, ran>>

(* The promise of process settles with the first markFinished of its run that
   is answered.                                                            *)
Settle(w, how) ==
  child' = IF busy = w[1] /\ started[w[1]] = w[2] /\ child = "over" THEN how ELSE child

(* Only a script that succeeded settles the promise of process.            *)
HearSuccess(w) ==
  /\ w \in answers
  /\ answers' = answers \ {w}
  /\ IF w[4] = "success" THEN Settle(w, "resolved") ELSE UNCHANGED child
  /\ UNCHANGED <<job, req, queue, stalled, started, busy, writes, overtaken, ran>>

(* markFinished of 'close' resolves process, that of 'error' rejects it.   *)
Hear(w) ==
  /\ w \in answers
  /\ answers' = answers \ {w}
  /\ Settle(w, IF w[3] = "close" THEN "resolved" ELSE "rejected")
  /\ UNCHANGED <<job, req, queue, stalled, started, busy, writes, overtaken, ran>>

(* An UPDATE fails, before or after it was executed: markRunning's is logged,
   that of 'close' rejects process.                                        *)
WriteFails(w) ==
  /\ "db" \in Faults
  /\ w \in writes \cup answers /\ w[3] # "error"
  /\ writes' = writes \ {w} /\ answers' = answers \ {w}
  /\ IF w[3] = "spawn" THEN UNCHANGED child ELSE Settle(w, "rejected")
  /\ UNCHANGED <<job, req, queue, stalled, started, busy, overtaken, ran>>

(* A job whose process was rejected is put back for another attempt.       *)
ReportRetrying ==
  /\ child \in {"resolved", "rejected"}
  /\ busy' = NoJob /\ child' = "none"
  /\ queue' = [queue EXCEPT ![busy] = IF child = "resolved" THEN "completed" ELSE "waiting"]
  /\ UNCHANGED <<job, req, stalled, started, writes, answers, overtaken, ran>>

(* The worker tells Redis, and is idle.  If Redis is not reached the job stays
   active and will be found stalled.                                       *)
Report ==
  /\ child \in {"resolved", "rejected"}
  /\ busy' = NoJob /\ child' = "none"
  /\ \/ queue' = [queue EXCEPT ![busy] = IF child = "resolved" THEN "completed" ELSE "failed"]
     \/ "redis" \in Faults /\ UNCHANGED queue
  /\ UNCHANGED <<job, req, stalled, started, writes, answers, overtaken, ran>>

-----------------------------------------------------------------------------
(* The queue and the backend process                                       *)

(* BullMQ finds an active job whose lock nobody renews.                    *)
Stall(j) ==
  /\ queue[j] = "active" /\ busy # j
  /\ \/ /\ stalled[j] < MaxStalledCount
        /\ stalled' = [stalled EXCEPT ![j] = @ + 1]
        /\ queue'   = [queue EXCEPT ![j] = "waiting"]
     \/ /\ stalled[j] = MaxStalledCount
        /\ queue' = [queue EXCEPT ![j] = "failed"]
        /\ UNCHANGED stalled
  /\ UNCHANGED <<job, req, workerVars>>

(* The backend dies, with the scripts it runs, and systemd starts it again. *)
LoseMemory ==
  /\ busy' = NoJob /\ child' = "none" /\ writes' = {} /\ answers' = {}
  /\ req' = [j \in Job |-> IF req[j] = "created" THEN "error" ELSE req[j]]
  /\ UNCHANGED <<ran, stalled, started>>

Crash ==
  /\ "crash" \in Faults
  /\ LoseMemory
  /\ UNCHANGED <<job, queue, overtaken>>

(* The UPDATE of the 'error' handler fails: finally() rejects process, but
   hands on a rejection that nobody handles, which ends the backend; the
   worker may just have told Redis.                                        *)
ErrorWriteFails(w) ==
  /\ "db" \in Faults
  /\ w \in writes \cup answers /\ w[3] = "error"
  /\ LoseMemory
  /\ \/ UNCHANGED queue
     \/ /\ busy = w[1] /\ started[w[1]] = w[2] /\ child = "over"
        /\ queue' = [queue EXCEPT ![w[1]] = "failed"]
  /\ UNCHANGED <<job, overtaken>>

Next ==
  \/ \E j \in Job : EnqueueCreate(j) \/ EnqueueAdd(j) \/ Take(j) \/ Stall(j)
  \/ \E ok \in BOOLEAN : ChildEnds(ok)
  \/ ChildUnborn
  \/ \E w \in writes \cup answers : Write(w) \/ Hear(w) \/ WriteFails(w) \/ ErrorWriteFails(w)
  \/ Report \/ Crash

Spec == Init /\ [][Next]_vars

(* The worker takes jobs and checks for stalled ones, scripts end (they are
   killed at the timeout), queries are answered.                           *)
Fairness ==
  /\ WF_vars(\E j \in Job : Take(j))
  /\ \A j \in Job : WF_vars(Stall(j)) /\ WF_vars(EnqueueAdd(j))
  /\ WF_vars(\E ok \in BOOLEAN : ChildEnds(ok))
  /\ WF_vars(ChildUnborn)
  /\ \A w \in Update : WF_vars(Write(w) \/ Hear(w) \/ WriteFails(w) \/ ErrorWriteFails(w))
  /\ WF_vars(Report)

FairSpec == Spec /\ Fairness

-----------------------------------------------------------------------------
(* Safety.                                                                 *)

(* A finished row reports a verdict some run of its script really had, though
   the UPDATEs of two runs, and of two handlers of one run, cross.         *)
FinishedMeansRan ==
  \A j \in Job : Finished(j) => \E ok \in ran[j] : job[j] = Verdict(ok)

(* Scripts are not written to be run again: one is started a second time
   only after BullMQ has found its first run abandoned, and never a third. *)
RunsAgainOnlyIfStalled == \A j \in Job : started[j] <= stalled[j] + 1

(* A row whose markFinished was executed says so, or was taken back.       *)
Written(j) == Finished(j) \/ j \in overtaken

(* Callers look at the row, not at the queue.  A job BullMQ counts completed,
   which nobody will run again, has its row finished, whatever crossed, was
   answered late or failed - but for the one way the row goes back for good: a
   markRunning that executes after the last markFinished.                  *)
CompletedIsWritten == \A j \in Job : queue[j] = "completed" => Written(j)

-----------------------------------------------------------------------------
(* The inductive invariant: why the safety properties hold.                *)

(* A write that finishes a row carries a verdict its script had; the only
   write that does not finish one is markRunning.                          *)
WritesAreTrue ==
  \A w \in writes :
    /\ w[3] = "spawn" => w[4] = "running"
    /\ w[3] # "spawn" => \E ok \in ran[w[1]] : w[4] = Verdict(ok)

(* Rows whose markFinished was executed, and that of a job whose process was
   resolved, are written.                                                  *)
AnswersAreWritten ==
  /\ \A w \in answers : /\ queue[w[1]] # "none" /\ w[3] # "spawn"
                       /\ w[4] # "running" /\ Written(w[1])
  /\ child = "resolved" => Written(busy)

(* Only jobs that were taken are written.                                  *)
WritesAreOfTaken == \A w \in writes : queue[w[1]] # "none"

(* A job that waits or was never taken has a run left.                     *)
RunsLeft ==
  \A j \in Job :
    /\ req[j] \in {"idle", "created"} => queue[j] = "none"
    /\ queue[j] = "none"    => started[j] = 0
    /\ queue[j] = "waiting" => started[j] <= stalled[j]
    /\ started[j] <= stalled[j] + 1

(* The worker is busy with a job it has started.                           *)
BusyIsStarted ==
  /\ busy = NoJob <=> child = "none"
  /\ busy # NoJob => started[busy] > 0 /\ queue[busy] = "active"

LocalInv ==
  /\ TypeOK
  /\ FinishedMeansRan
  /\ CompletedIsWritten
  /\ WritesAreTrue
  /\ WritesAreOfTaken
  /\ AnswersAreWritten
  /\ RunsLeft
  /\ BusyIsStarted

-----------------------------------------------------------------------------
(* Liveness, under FairSpec.                                               *)

(* Whatever fails, a job in the queue leaves it: no crash, lost answer or
   missing directory blocks the jobs behind it for good.                   *)
QueueDrains ==
  \A j \in Job : queue[j] \in {"waiting", "active"} ~> queue[j] \in {"completed", "failed"}
=============================================================================
