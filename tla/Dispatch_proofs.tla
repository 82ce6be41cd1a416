--------------------------- MODULE Dispatch_proofs ----------------------------
(*****************************************************************************)
(* Proofs about the three ways the backend itself sets jobs going: jobs on   *)
(* its own machine, runs over a fleet of devices, and schedules.  For any    *)
(* jobs, devices, pages, requests, triggers and faults their invariants are  *)
(* inductive, and the schedule keeps its contract.                           *)
(*****************************************************************************)
EXTENDS LocalJobs, FleetRuns, Schedules, TLAPS

-----------------------------------------------------------------------------
(* LocalJobs.                                                              *)

LEMMA LocalInit == Init => LocalInv
BY NoJobFresh DEF Init, LocalInv, TypeOK, FinishedMeansRan, Finished, CompletedIsWritten, WritesAreTrue,
   WritesAreOfTaken, AnswersAreWritten, RunsLeft, BusyIsStarted, MaxStalledCount

(* One UPDATE that executes, whoever issued it, keeps the rows true; those it
   does not write are written as before, and the one it writes is written if
   it was, or if the UPDATE is no markRunning.                             *)
LEMMA UpdateIsTrue ==
  ASSUME LocalInv, NEW w \in writes, UNCHANGED ran, Executes(w)
  PROVE  /\ job' \in [Job -> {"none", "pending", "running", "success", "failed"}]
         /\ overtaken' \subseteq Job
         /\ FinishedMeansRan'
         /\ \A j \in Job : Written(j) => Written(j)'
         /\ w[3] # "spawn" => w[4] # "running" /\ Written(w[1])'
<1>1. /\ w[1] \in Job /\ w[4] \in {"running", "success", "failed"}
      /\ job \in [Job -> {"none", "pending", "running", "success", "failed"}]
      /\ overtaken \subseteq Job
  BY DEF LocalInv, TypeOK, Update
<1>2. /\ w[3] = "spawn" => w[4] = "running"
      /\ w[3] # "spawn" => \E ok \in ran[w[1]] : w[4] = Verdict(ok)
  BY DEF LocalInv, WritesAreTrue
<1>3. w[3] # "spawn" => w[4] \in {"success", "failed"}
  BY <1>2 DEF Verdict
<1>4. FinishedMeansRan
  BY DEF LocalInv
<1>5. FinishedMeansRan'
  BY <1>1, <1>2, <1>3, <1>4 DEF FinishedMeansRan, Finished, Executes
<1>6. job'[w[1]] = w[4] /\ \A j \in Job \ {w[1]} : job'[j] = job[j]
  BY <1>1 DEF Executes
<1>7. \A j \in Job : Written(j) => Written(j)'
  BY <1>1, <1>6 DEF Executes, Written, Finished
<1>8. w[3] # "spawn" => Written(w[1])'
  BY <1>1, <1>3, <1>6 DEF Written, Finished
<1>. QED
  BY <1>1, <1>3, <1>5, <1>7, <1>8 DEF Executes

LEMMA WriteKeepsLocal ==
  ASSUME LocalInv, NEW w \in writes, Write(w)
  PROVE  LocalInv'
<1>1. /\ writes' = writes \ {w} /\ answers' = IF w[3] = "spawn" THEN answers ELSE answers \cup {w}
      /\ Executes(w) /\ UNCHANGED <<req, queue, stalled, started, busy, child, ran>>
  BY DEF Write
<1>2. /\ job' \in [Job -> {"none", "pending", "running", "success", "failed"}]
      /\ overtaken' \subseteq Job /\ FinishedMeansRan'
      /\ \A j \in Job : Written(j) => Written(j)'
      /\ w[3] # "spawn" => w[4] # "running" /\ Written(w[1])'
  BY <1>1, UpdateIsTrue
<1>3. TypeOK /\ CompletedIsWritten /\ WritesAreTrue /\ WritesAreOfTaken /\ AnswersAreWritten
      /\ RunsLeft /\ BusyIsStarted
  BY DEF LocalInv
<1>4. TypeOK'
  BY <1>1, <1>2, <1>3 DEF TypeOK
<1>5. CompletedIsWritten'
  BY <1>1, <1>2, <1>3 DEF CompletedIsWritten
<1>6. WritesAreTrue' /\ WritesAreOfTaken'
  BY <1>1, <1>3 DEF WritesAreTrue, WritesAreOfTaken
<1>7. AnswersAreWritten'
  <2>1. child' = "resolved" => Written(busy)'
    BY <1>1, <1>2, <1>3 DEF AnswersAreWritten, BusyIsStarted, TypeOK
  <2>2. ASSUME NEW v \in answers'
        PROVE  queue'[v[1]] # "none" /\ v[3] # "spawn" /\ v[4] # "running" /\ Written(v[1])'
    <3>1. CASE v \in answers
      <4>1. v[1] \in Job
        BY <1>3, <3>1 DEF TypeOK, Update
      <4>. QED
        BY <1>1, <1>2, <1>3, <3>1, <4>1 DEF AnswersAreWritten
    <3>2. CASE v = w /\ w[3] # "spawn"
      BY <1>1, <1>2, <1>3, <3>2 DEF WritesAreOfTaken
    <3>. QED
      BY <1>1, <2>2, <3>1, <3>2
  <2>. QED
    BY <2>1, <2>2 DEF AnswersAreWritten
<1>8. RunsLeft' /\ BusyIsStarted'
  BY <1>1, <1>3 DEF RunsLeft, BusyIsStarted
<1>. QED
  BY <1>2, <1>4, <1>5, <1>6, <1>7, <1>8 DEF LocalInv

(* An answer, or an error: the promise may settle, and is resolved only by an
   UPDATE that was executed.                                               *)
LEMMA SettleStep ==
  ASSUME LocalInv, NEW w \in writes \cup answers, NEW how \in {"resolved", "rejected"},
         writes' \subseteq writes, answers' \subseteq answers,
         UNCHANGED child \/ Settle(w, how),
         how = "resolved" => w \in answers,
         UNCHANGED <<job, req, queue, stalled, started, busy, overtaken, ran>>
  PROVE  LocalInv'
<1>1. TypeOK /\ CompletedIsWritten /\ WritesAreTrue /\ WritesAreOfTaken /\ AnswersAreWritten
      /\ RunsLeft /\ BusyIsStarted /\ FinishedMeansRan
  BY DEF LocalInv
<1>2. child' = child \/ (child = "over" /\ busy = w[1] /\ child' = how)
  BY DEF Settle
<1>3. TypeOK' /\ BusyIsStarted'
  BY <1>1, <1>2 DEF TypeOK, BusyIsStarted
<1>4. AnswersAreWritten'
  <2>1. child' = "resolved" => Written(busy)
    BY <1>1, <1>2 DEF AnswersAreWritten
  <2>. QED
    BY <1>1, <2>1 DEF AnswersAreWritten, Written, Finished
<1>5. CompletedIsWritten' /\ FinishedMeansRan'
  BY <1>1 DEF CompletedIsWritten, Written, FinishedMeansRan, Finished
<1>6. WritesAreTrue' /\ WritesAreOfTaken' /\ RunsLeft'
  BY <1>1 DEF WritesAreTrue, WritesAreOfTaken, RunsLeft
<1>. QED
  BY <1>3, <1>4, <1>5, <1>6 DEF LocalInv

(* BullMQ hears how process ended, or does not.                            *)
LEMMA ReportStep ==
  ASSUME LocalInv, Report
  PROVE  LocalInv'
<1>1. TypeOK /\ CompletedIsWritten /\ WritesAreTrue /\ WritesAreOfTaken /\ AnswersAreWritten
      /\ RunsLeft /\ BusyIsStarted /\ FinishedMeansRan
  BY DEF LocalInv
<1>2. busy \in Job /\ queue[busy] = "active" /\ child \in {"resolved", "rejected"}
  BY <1>1 DEF Report, BusyIsStarted, TypeOK
<1>3. /\ busy' = NoJob /\ child' = "none"
      /\ \/ queue' = queue
         \/ queue' = [queue EXCEPT ![busy] = "completed"] /\ child = "resolved"
         \/ queue' = [queue EXCEPT ![busy] = "failed"]
      /\ UNCHANGED <<job, req, stalled, started, writes, answers, overtaken, ran>>
  BY <1>2 DEF Report
<1>4. TypeOK'
  BY <1>1, <1>2, <1>3 DEF TypeOK
<1>5. CompletedIsWritten' /\ FinishedMeansRan'
  BY <1>1, <1>2, <1>3 DEF CompletedIsWritten, AnswersAreWritten, Written, FinishedMeansRan, Finished, TypeOK
<1>6. \A j \in Job : queue'[j] = "none" <=> queue[j] = "none"
  BY <1>1, <1>2, <1>3 DEF TypeOK
<1>7. WritesAreTrue' /\ WritesAreOfTaken' /\ AnswersAreWritten'
  BY <1>1, <1>3, <1>6 DEF WritesAreTrue, WritesAreOfTaken, AnswersAreWritten, Written, Finished, TypeOK, Update
<1>8. RunsLeft' /\ BusyIsStarted'
  BY <1>1, <1>2, <1>3, NoJobFresh DEF RunsLeft, BusyIsStarted, TypeOK
<1>. QED
  BY <1>4, <1>5, <1>7, <1>8 DEF LocalInv

(* The backend's memory goes; the queue may have been written last.        *)
LEMMA DeathStep ==
  ASSUME LocalInv, LoseMemory, UNCHANGED <<job, overtaken>>,
         \/ UNCHANGED queue
         \/ \E j \in Job : queue[j] = "active" /\ queue' = [queue EXCEPT ![j] = "failed"]
  PROVE  LocalInv'
<1>1. TypeOK' /\ RunsLeft' /\ BusyIsStarted'
  BY NoJobFresh DEF LocalInv, LoseMemory, TypeOK, RunsLeft, BusyIsStarted
<1>2. WritesAreTrue' /\ WritesAreOfTaken' /\ AnswersAreWritten'
  BY DEF LoseMemory, WritesAreTrue, WritesAreOfTaken, AnswersAreWritten
<1>3. FinishedMeansRan' /\ CompletedIsWritten'
  BY DEF LocalInv, TypeOK, LoseMemory, FinishedMeansRan, Finished, CompletedIsWritten, Written
<1>. QED
  BY <1>1, <1>2, <1>3 DEF LocalInv

(* The script of the job the worker is busy with is over: its verdict and
   the writes that carry it.                                               *)
LEMMA OverStep ==
  ASSUME LocalInv, busy # NoJob, NEW ok \in BOOLEAN, NEW H \in SUBSET {"close", "error"},
         child' = "over",
         ran' = [ran EXCEPT ![busy] = @ \cup {ok}],
         writes' = writes \cup {<<busy, started[busy], h, Verdict(ok)>> : h \in H},
         UNCHANGED <<job, req, queue, stalled, busy, started, answers, overtaken>>
  PROVE  LocalInv'
<1>1. busy \in Job /\ started[busy] \in Run /\ queue[busy] = "active"
  BY DEF LocalInv, TypeOK, BusyIsStarted, Run, MaxStalledCount
<1>2. \A j \in Job : ran[j] \subseteq ran'[j]
  BY <1>1 DEF LocalInv, TypeOK
<1>3. ok \in ran'[busy]
  BY <1>1 DEF LocalInv, TypeOK
<1>4. TypeOK'
  <2>1. Verdict(ok) \in {"running", "success", "failed"} /\ H \subseteq Handler
    BY DEF Verdict, Handler
  <2>2. writes' \subseteq Update
    BY <1>1, <2>1 DEF LocalInv, TypeOK, Update
  <2>. QED
    BY <1>1, <2>2 DEF LocalInv, TypeOK
<1>5. FinishedMeansRan' /\ CompletedIsWritten'
  BY <1>2 DEF LocalInv, FinishedMeansRan, Finished, CompletedIsWritten, Written
<1>6. WritesAreTrue' /\ WritesAreOfTaken'
  <2>1. ASSUME NEW w \in writes
        PROVE  /\ w[3] = "spawn" => w[4] = "running"
               /\ w[3] # "spawn" => \E v \in ran'[w[1]] : w[4] = Verdict(v)
               /\ queue'[w[1]] # "none"
    BY <1>2 DEF LocalInv, TypeOK, Update, WritesAreTrue, WritesAreOfTaken
  <2>2. ASSUME NEW h \in H, NEW w, w = <<busy, started[busy], h, Verdict(ok)>>
        PROVE  /\ w[3] # "spawn" /\ \E v \in ran'[w[1]] : w[4] = Verdict(v)
               /\ queue'[w[1]] # "none"
    BY <1>1, <1>3, <2>2
  <2>. QED
    BY <2>1, <2>2 DEF WritesAreTrue, WritesAreOfTaken
<1>7. AnswersAreWritten' /\ RunsLeft' /\ BusyIsStarted'
  BY DEF LocalInv, AnswersAreWritten, Written, Finished, RunsLeft, BusyIsStarted
<1>. QED
  BY <1>4, <1>5, <1>6, <1>7 DEF LocalInv

LEMMA LocalNext == LocalInv /\ [Next]_vars => LocalInv'
<1> SUFFICES ASSUME LocalInv, [Next]_vars PROVE LocalInv'
  OBVIOUS
<1>a. TypeOK /\ CompletedIsWritten /\ WritesAreTrue /\ WritesAreOfTaken /\ AnswersAreWritten
      /\ RunsLeft /\ BusyIsStarted /\ FinishedMeansRan
  BY DEF LocalInv
<1> USE DEF workerVars
<1>1. ASSUME NEW j \in Job, EnqueueCreate(j) PROVE LocalInv'
  <2>1. /\ queue[j] = "none" /\ UNCHANGED <<queue, stalled, workerVars>>
        /\ job' = job \/ job' = [job EXCEPT ![j] = "pending"]
    BY <1>a, <1>1 DEF EnqueueCreate, RunsLeft
  <2>2. TypeOK' /\ RunsLeft' /\ BusyIsStarted'
    BY <1>a, <1>1 DEF EnqueueCreate, TypeOK, RunsLeft, BusyIsStarted
  <2>3. FinishedMeansRan' /\ WritesAreTrue' /\ WritesAreOfTaken'
    BY <1>a, <2>1 DEF FinishedMeansRan, Finished, WritesAreTrue, WritesAreOfTaken, TypeOK
  <2>4. \A i \in Job : queue[i] # "none" /\ Written(i) => Written(i)'
    BY <1>a, <2>1 DEF Written, Finished, TypeOK
  <2>5. CompletedIsWritten' /\ AnswersAreWritten'
    BY <1>a, <2>1, <2>4 DEF CompletedIsWritten, AnswersAreWritten, BusyIsStarted, TypeOK, Update
  <2>. QED
    BY <2>2, <2>3, <2>5 DEF LocalInv
<1>2. ASSUME NEW j \in Job, EnqueueAdd(j) PROVE LocalInv'
  <2>1. queue[j] = "none" /\ started[j] = 0 /\ stalled[j] \in Nat
    BY <1>a, <1>2 DEF EnqueueAdd, TypeOK, RunsLeft, MaxStalledCount
  <2>2. /\ queue' = queue \/ queue' = [queue EXCEPT ![j] = "waiting"]
        /\ UNCHANGED <<job, stalled, workerVars>>
    BY <1>2 DEF EnqueueAdd
  <2>3. TypeOK' /\ FinishedMeansRan' /\ WritesAreTrue'
    BY <1>a, <1>2 DEF EnqueueAdd, TypeOK, FinishedMeansRan, Finished, WritesAreTrue
  <2>4. CompletedIsWritten' /\ WritesAreOfTaken' /\ AnswersAreWritten'
    BY <1>a, <2>2 DEF CompletedIsWritten, WritesAreOfTaken, AnswersAreWritten, Written, Finished, TypeOK, Update
  <2>5. RunsLeft' /\ BusyIsStarted'
    BY <1>a, <1>2, <2>1 DEF EnqueueAdd, TypeOK, RunsLeft, BusyIsStarted
  <2>. QED
    BY <2>3, <2>4, <2>5 DEF LocalInv
<1>3. ASSUME NEW j \in Job, Take(j) PROVE LocalInv'
  <2>1. /\ started[j] \in 0 .. MaxStalledCount /\ started'[j] = started[j] + 1
        /\ started' = [started EXCEPT ![j] = @ + 1]
    BY <1>a, <1>3 DEF Take, TypeOK, RunsLeft, MaxStalledCount
  <2>2. writes' = writes \cup {<<j, started'[j], "spawn", "running">>}
    BY <1>3 DEF Take, Issue
  <2>3. TypeOK'
    <3>1. <<j, started'[j], "spawn", "running">> \in Update
      BY <2>1 DEF Run, Handler, MaxStalledCount, Update
    <3>2. started' \in [Job -> 0 .. MaxStalledCount + 1]
      BY <1>a, <2>1 DEF TypeOK, MaxStalledCount
    <3>3. child' \in {"running", "unborn"}
      BY <1>3 DEF Take
    <3>. QED
      BY <1>a, <1>3, <2>2, <3>1, <3>2, <3>3 DEF Take, TypeOK
  <2>4. queue' = [queue EXCEPT ![j] = "active"] /\ UNCHANGED <<job, ran, answers, overtaken>>
        /\ child' \in {"running", "unborn"}
    BY <1>3 DEF Take
  <2>5. FinishedMeansRan' /\ WritesAreTrue' /\ WritesAreOfTaken'
    BY <1>a, <2>2, <2>4 DEF FinishedMeansRan, Finished, WritesAreTrue, WritesAreOfTaken, TypeOK, Update
  <2>6. CompletedIsWritten' /\ AnswersAreWritten'
    BY <1>a, <2>4 DEF CompletedIsWritten, AnswersAreWritten, Written, Finished, TypeOK, Update
  <2>7. RunsLeft' /\ BusyIsStarted'
    BY <1>a, <1>3, <2>1, NoJobFresh DEF Take, TypeOK, RunsLeft, BusyIsStarted, MaxStalledCount
  <2>. QED
    BY <2>3, <2>5, <2>6, <2>7 DEF LocalInv
<1>4. ASSUME NEW j \in Job, Stall(j) PROVE LocalInv'
  <2>1. /\ queue[j] = "active" /\ UNCHANGED <<job, req, workerVars>>
        /\ \E to \in {"waiting", "failed"} : queue' = [queue EXCEPT ![j] = to]
    BY <1>4 DEF Stall
  <2>2. TypeOK' /\ RunsLeft' /\ BusyIsStarted'
    BY <1>a, <1>4 DEF Stall, TypeOK, RunsLeft, BusyIsStarted, MaxStalledCount
  <2>3. FinishedMeansRan' /\ WritesAreTrue'
    BY <1>a, <2>1 DEF FinishedMeansRan, Finished, WritesAreTrue
  <2>4. CompletedIsWritten' /\ WritesAreOfTaken' /\ AnswersAreWritten'
    BY <1>a, <2>1 DEF CompletedIsWritten, WritesAreOfTaken, AnswersAreWritten, Written, Finished, TypeOK, Update
  <2>. QED
    BY <2>2, <2>3, <2>4 DEF LocalInv
<1>5. ASSUME NEW ok \in BOOLEAN, ChildEnds(ok) PROVE LocalInv'
  <2>1. busy # NoJob
    BY <1>5 DEF ChildEnds, LocalInv, BusyIsStarted
  <2>2. writes' = writes \cup {<<busy, started[busy], h, Verdict(ok)>> : h \in {"close"}}
    BY <1>5 DEF ChildEnds, Issue
  <2>. QED
    BY <1>5, <2>1, <2>2, OverStep DEF ChildEnds
<1>6. ASSUME ChildUnborn PROVE LocalInv'
  <2>1. busy # NoJob
    BY <1>6 DEF ChildUnborn, LocalInv, BusyIsStarted
  <2>2. writes' = writes \cup {<<busy, started[busy], h, Verdict(FALSE)>> : h \in {"close", "error"}}
    BY <1>6 DEF ChildUnborn, Issue, Verdict
  <2>. QED
    BY <1>6, <2>1, <2>2, OverStep DEF ChildUnborn
<1>7. ASSUME NEW w, Hear(w) PROVE LocalInv'
  BY <1>7, SettleStep DEF Hear
<1>8. ASSUME NEW w \in writes \cup answers, WriteFails(w) PROVE LocalInv'
  BY <1>8, SettleStep DEF WriteFails
<1>9. ASSUME NEW w \in writes \cup answers, ErrorWriteFails(w) PROVE LocalInv'
  <2>1. \/ UNCHANGED queue
        \/ \E j \in Job : queue[j] = "active" /\ queue' = [queue EXCEPT ![j] = "failed"]
    BY <1>a, <1>9, NoJobFresh DEF ErrorWriteFails, TypeOK, Update, BusyIsStarted
  <2>. QED
    BY <1>9, <2>1, DeathStep DEF ErrorWriteFails
<1>10. CASE Crash
  BY <1>10, DeathStep DEF Crash
<1>11. CASE UNCHANGED vars
  BY <1>a, <1>11 DEF vars, LocalInv, TypeOK, FinishedMeansRan, Finished, CompletedIsWritten, Written,
     WritesAreTrue, WritesAreOfTaken, AnswersAreWritten, RunsLeft, BusyIsStarted
<1>12. ASSUME NEW w \in writes \cup answers, Write(w) PROVE LocalInv'
  BY <1>12, WriteKeepsLocal DEF Write
<1>. QED
  BY <1>1, <1>2, <1>3, <1>4, <1>5, <1>6, <1>7, <1>8, <1>9, <1>10, <1>11, <1>12, ReportStep DEF Next

(* The invariant of local jobs, for any set of them, however the UPDATEs of
   the processor cross and whenever the backend dies.                      *)
THEOREM LocalInvariant == Spec => []LocalInv
BY LocalInit, LocalNext, PTL DEF Spec

(* A finished row reports a verdict its script really had, whatever crossed. *)
THEOREM FinishedLocalJobsRan == Spec => []FinishedMeansRan
<1>1. LocalInv => FinishedMeansRan
  BY DEF LocalInv
<1>. QED
  BY <1>1, LocalInvariant, PTL

(* A script is started again only after BullMQ found its run abandoned.    *)
THEOREM LocalJobsRunAgainOnlyIfStalled == Spec => []RunsAgainOnlyIfStalled
<1>1. LocalInv => RunsAgainOnlyIfStalled
  BY DEF LocalInv, RunsLeft, RunsAgainOnlyIfStalled
<1>. QED
  BY <1>1, LocalInvariant, PTL

(* The row of a job that BullMQ counts completed is finished, or a markRunning
   executed after the last markFinished has taken it back: there is no other
   way, whatever crosses, fails or dies.                                   *)
THEOREM CompletedIsAlwaysWritten == Spec => []CompletedIsWritten
<1>1. LocalInv => CompletedIsWritten
  BY DEF LocalInv
<1>. QED
  BY <1>1, LocalInvariant, PTL

-----------------------------------------------------------------------------
(* FleetRuns.                                                              *)

(* What a step may do to the jobs: they go forward, and only a branch that
   is in enqueue has its job created or begun.                             *)
JobsForward ==
  \A d \in Device :
    /\ fjob[d] \notin {"none", "pending"} => fjob'[d] \notin {"none", "pending"}
    /\ Life!Finished(d) => Life!Finished(d)'
    /\ branch[d] # "enqueue" => (fjob[d] = "none" <=> fjob'[d] = "none")

LEMMA FleetStarts == FleetInit => FleetInv
<1> SUFFICES ASSUME FleetInit PROVE FleetInv
  OBVIOUS
<1>1. fjob = [d \in Device |-> "none"] /\ fran = [d \in Device |-> {}]
  BY DEF FleetInit, Life!Init
<1>2. FleetTypeOK
  BY <1>1 DEF FleetInit, FleetTypeOK, Settled, Polling
<1>3. RowsAreTrue /\ BranchKnowsJob /\ AnsweredIsSettled /\ ViewsAreFinal
  BY <1>1 DEF FleetInit, RowsAreTrue, BranchKnowsJob, AnsweredIsSettled, ViewsAreFinal
<1>. QED
  BY <1>2, <1>3 DEF FleetInv

(* The jobs move on.                                                       *)
LEMMA JobMovesKeeps ==
  ASSUME FleetInv, NEW d \in Device, JobMoves(d)
  PROVE  FleetInv'
<1>1. FleetTypeOK /\ BranchKnowsJob /\ AnsweredIsSettled /\ ViewsAreFinal /\ RowsAreTrue
  BY DEF FleetInv
<1>2. UNCHANGED <<branch, target, call, page, mounted, early, view>>
  BY DEF JobMoves, runVars, pageVars
<1>3. /\ fjob' \in [Device -> {"none", "pending", "running", "success", "failed"}]
      /\ fran' \in [Device -> SUBSET BOOLEAN]
      /\ JobsForward
  <2>1. CASE branch[d] = "enqueue" /\ (Life!Create(d) \/ Life!Begin(d))
    BY <2>1, <1>1 DEF Life!Create, Life!Begin, Life!Finished, FleetTypeOK, JobsForward
  <2>2. ASSUME NEW ok \in BOOLEAN, Life!ScriptEnds(d, ok)
        PROVE  <1>3!1 /\ <1>3!2 /\ JobsForward
    BY <2>2, <1>1 DEF Life!ScriptEnds, Life!Finished, FleetTypeOK, JobsForward
  <2>3. ASSUME NEW ok \in BOOLEAN, Life!Finish(d, ok)
        PROVE  <1>3!1 /\ <1>3!2 /\ JobsForward
    BY <2>3, <1>1 DEF Life!Finish, Life!Finished, Life!Verdict, FleetTypeOK, JobsForward
  <2>. QED
    BY <2>1, <2>2, <2>3 DEF JobMoves
<1>4. FleetTypeOK'
  BY <1>1, <1>2, <1>3 DEF FleetTypeOK
<1>5. RowsAreTrue'
  BY <1>1, <1>2, <1>3 DEF RowsAreTrue, JobsForward, BranchKnowsJob, FleetTypeOK
<1>6. BranchKnowsJob'
  BY <1>1, <1>2, <1>3 DEF JobsForward, BranchKnowsJob, FleetTypeOK
<1>7. \A e \in Device : ~InProgress(e) => ~InProgress(e)'
  BY <1>2, <1>3 DEF InProgress, JobsForward
<1>8. AnsweredIsSettled' /\ ViewsAreFinal'
  BY <1>1, <1>2, <1>7 DEF AnsweredIsSettled, ViewsAreFinal
<1>. QED
  BY <1>4, <1>5, <1>6, <1>8 DEF FleetInv

(* The jobs stay as they are and a callback, or the request, moves on before
   the request was answered.                                               *)
LEMMA RunKeeps ==
  ASSUME FleetInv,
         \/ CreateRun \/ Answer \/ FleetCrash
         \/ \E d \in Device : EnqueueEnds(d) \/ AddTarget(d) \/ AddRefusal(d)
  PROVE  FleetInv'
<1> USE DEF Goes, Record, Settled
<1>1. FleetTypeOK /\ BranchKnowsJob /\ AnsweredIsSettled /\ ViewsAreFinal /\ RowsAreTrue
  BY DEF FleetInv
<1>2. UNCHANGED <<fjob, fran, page, mounted, early, view>>
  BY DEF CreateRun, Answer, FleetCrash, EnqueueEnds, AddTarget, AddRefusal, pageVars
<1>3. call # "answered"
  BY <1>1 DEF CreateRun, Answer, FleetCrash, EnqueueEnds, AddTarget, AddRefusal,
     AnsweredIsSettled
<1>4. ViewsAreFinal'
  BY <1>1, <1>2, <1>3 DEF ViewsAreFinal, FleetTypeOK, Polling
<1>5. ASSUME CreateRun PROVE FleetInv'
  BY <1>5, <1>1, <1>2, <1>4 DEF CreateRun, FleetInv, FleetTypeOK, RowsAreTrue, BranchKnowsJob,
     AnsweredIsSettled
<1>6. ASSUME Answer PROVE FleetInv'
  BY <1>6, <1>1, <1>2, <1>4 DEF Answer, FleetInv, FleetTypeOK, RowsAreTrue, BranchKnowsJob,
     AnsweredIsSettled
<1>7. ASSUME FleetCrash PROVE FleetInv'
  BY <1>7, <1>1, <1>2, <1>4 DEF FleetCrash, FleetInv, FleetTypeOK, RowsAreTrue, BranchKnowsJob,
     AnsweredIsSettled
<1>8. ASSUME NEW d \in Device, EnqueueEnds(d) PROVE FleetInv'
  BY <1>8, <1>1, <1>2, <1>4 DEF EnqueueEnds, FleetInv, FleetTypeOK, RowsAreTrue, BranchKnowsJob,
     AnsweredIsSettled
<1>9. ASSUME NEW d \in Device, AddTarget(d) PROVE FleetInv'
  BY <1>9, <1>1, <1>2, <1>4 DEF AddTarget, FleetInv, FleetTypeOK, RowsAreTrue, BranchKnowsJob,
     AnsweredIsSettled
<1>10. ASSUME NEW d \in Device, AddRefusal(d) PROVE FleetInv'
  <2>1. branch[d] \in {"offline", "error"} /\ (branch[d] = "offline" => fjob[d] = "none")
    BY <1>10, <1>1 DEF AddRefusal, BranchKnowsJob
  <2>2. /\ target' = target \/ target' = [target EXCEPT ![d] = @ \cup {branch[d]}]
        /\ \/ /\ branch' = [branch EXCEPT ![d] = "over"] /\ call' = call
              /\ target' = [target EXCEPT ![d] = @ \cup {branch[d]}]
           \/ branch' = [branch EXCEPT ![d] = "lost"] /\ call' = "failed"
    BY <1>10 DEF AddRefusal
  <2>3. FleetTypeOK'
    BY <2>1, <2>2, <1>1, <1>2 DEF FleetTypeOK
  <2>4. \A e \in Device : /\ target[e] \subseteq target'[e]
                          /\ target'[e] \subseteq target[e] \cup {branch[d]}
                          /\ e # d => target'[e] = target[e] /\ branch'[e] = branch[e]
    BY <2>2, <1>1 DEF FleetTypeOK
  <2>5. branch'[d] \in Settled /\ (branch'[d] = "over" => target'[d] # {})
    <3>1. CASE target' = [target EXCEPT ![d] = @ \cup {branch[d]}]
      <4>1. branch[d] \in target'[d]
        BY <3>1, <1>1 DEF FleetTypeOK
      <4>2. branch'[d] \in Settled
        BY <2>2, <1>1 DEF FleetTypeOK
      <4>. QED
        BY <4>1, <4>2
    <3>2. CASE branch' = [branch EXCEPT ![d] = "lost"]
      BY <3>2, <1>1 DEF FleetTypeOK
    <3>. QED
      BY <2>2, <3>1, <3>2
  <2>6. RowsAreTrue'
    <3>1. call' # "answered"
      BY <2>2, <1>3
    <3>2. \A e \in Device : "offline" \in target'[e] => fjob'[e] = "none"
      BY <2>1, <2>4, <1>1, <1>2 DEF RowsAreTrue
    <3>3. \A e \in Device : "dispatched" \in target'[e] => fjob'[e] \notin {"none", "pending"}
      BY <2>1, <2>4, <1>1, <1>2 DEF RowsAreTrue
    <3>. QED
      BY <3>1, <3>2, <3>3 DEF RowsAreTrue
  <2>7. BranchKnowsJob'
    BY <2>1, <2>4, <2>5, <1>1, <1>2 DEF BranchKnowsJob
  <2>8. AnsweredIsSettled'
    BY <2>1, <2>2, <2>4, <2>5, <1>1, <1>3 DEF AnsweredIsSettled
  <2>. QED
    BY <2>3, <2>6, <2>7, <2>8, <1>4 DEF FleetInv
<1>. QED
  BY <1>5, <1>6, <1>7, <1>8, <1>9, <1>10

(* A page does something.                                                  *)
LEMMA PageKeeps ==
  ASSUME FleetInv, NEW p \in Page,
         OpenPage(p) \/ ReadStatus(p) \/ Show(p) \/ Poll(p) \/ LeavePage(p)
  PROVE  FleetInv'
<1>1. FleetTypeOK /\ BranchKnowsJob /\ AnsweredIsSettled /\ ViewsAreFinal /\ RowsAreTrue
  BY DEF FleetInv
<1>2. UNCHANGED <<fjob, fran, branch, target, call>>
  BY DEF OpenPage, ReadStatus, Show, Poll, LeavePage, runVars
<1>3. RowsAreTrue' /\ BranchKnowsJob' /\ AnsweredIsSettled'
  BY <1>1, <1>2 DEF RowsAreTrue, BranchKnowsJob, AnsweredIsSettled
<1>4. \A e \in Device : InProgress(e)' = InProgress(e)
  BY <1>2 DEF InProgress, Life!Finished
<1>5. ASSUME OpenPage(p) PROVE FleetTypeOK' /\ ViewsAreFinal'
  BY <1>5, <1>1, <1>2, <1>4 DEF OpenPage, FleetTypeOK, ViewsAreFinal, Polling
<1>6. ASSUME ReadStatus(p) PROVE FleetTypeOK' /\ ViewsAreFinal'
  <2>1. p \notin early => call = "answered"
    BY <1>6, <1>1 DEF ReadStatus, ViewsAreFinal
  <2>2. p \notin early => {d \in Device : target[d] # {}} = Device
    BY <2>1, <1>1 DEF RowsAreTrue
  <2>3. UNCHANGED <<early, mounted>> /\ page[p] = "asking"
    BY <1>6 DEF ReadStatus
  <2>4. CASE page' = [page EXCEPT ![p] = "broken"] /\ UNCHANGED view
    BY <2>3, <2>4, <1>1, <1>2, <1>4 DEF FleetTypeOK, ViewsAreFinal, Polling
  <2>5. ASSUME NEW rows, NEW done,
               rows = {d \in Device : target[d] # {}},
               done = \A d \in Device : ~InProgress(d),
               page' = [page EXCEPT ![p] = "answered"],
               view' = [view EXCEPT ![p] = [rows |-> rows, done |-> done]]
        PROVE  FleetTypeOK' /\ ViewsAreFinal'
    <3>1. rows \in SUBSET Device /\ done \in BOOLEAN
      BY <2>5
    <3>2. [rows |-> rows, done |-> done] \in [rows : SUBSET Device, done : BOOLEAN]
      BY <3>1
    <3>3. FleetTypeOK'
      BY <2>3, <2>5, <3>2, <1>1, <1>2 DEF FleetTypeOK, Polling
    <3>4. view'[p].rows = rows /\ view'[p].done = done /\ page'[p] = "answered"
      BY <2>5, <1>1 DEF FleetTypeOK
    <3>5. p \notin early => call' = "answered" /\ rows = Device
      BY <2>1, <2>2, <2>5, <1>2
    <3>6. done => \A d \in Device : ~InProgress(d)'
      BY <2>5, <1>4
    <3>7. \A q \in Page : q # p => page'[q] = page[q] /\ view'[q] = view[q]
      BY <2>5, <1>1 DEF FleetTypeOK
    <3>8. ViewsAreFinal'
      BY <2>3, <3>4, <3>5, <3>6, <3>7, <1>1, <1>2, <1>4 DEF ViewsAreFinal
    <3>. QED
      BY <3>3, <3>8
  <2>. QED
    BY <1>6, <2>4, <2>5 DEF ReadStatus
<1>7. ASSUME Show(p) \/ Poll(p) PROVE FleetTypeOK' /\ ViewsAreFinal'
  BY <1>7, <1>1, <1>2, <1>4 DEF Show, Poll, FleetTypeOK, ViewsAreFinal, Polling
<1>8. ASSUME LeavePage(p) PROVE FleetTypeOK' /\ ViewsAreFinal'
  BY <1>8, <1>1, <1>2, <1>4 DEF LeavePage, FleetTypeOK, ViewsAreFinal, Polling
<1>. QED
  BY <1>3, <1>5, <1>6, <1>7, <1>8 DEF FleetInv

LEMMA FleetSteps == FleetInv /\ [FleetNext]_fleetVars => FleetInv'
<1> SUFFICES ASSUME FleetInv, [FleetNext]_fleetVars PROVE FleetInv'
  OBVIOUS
<1>1. CASE FleetNext
  BY <1>1, JobMovesKeeps, RunKeeps, PageKeeps DEF FleetNext
<1>2. CASE UNCHANGED fleetVars
  BY <1>2 DEF fleetVars, runVars, pageVars, FleetInv, FleetTypeOK, RowsAreTrue, BranchKnowsJob,
     AnsweredIsSettled, ViewsAreFinal, InProgress, Life!Finished
<1>. QED
  BY <1>1, <1>2

(* The invariant of a fleet run, for any number of devices, pages that are
   opened and left at any time, and queries that fail anywhere.            *)
THEOREM FleetInvariant == FleetSpec => []FleetInv
BY FleetStarts, FleetSteps, PTL DEF FleetSpec

(* What the rows of a run say of its devices is true, and an answered run has
   a row for every device, whatever failed in createRun.                   *)
THEOREM RowsAreAlwaysTrue == FleetSpec => []RowsAreTrue
<1>1. FleetInv => RowsAreTrue
  BY DEF FleetInv
<1>. QED
  BY <1>1, FleetInvariant, PTL

(* A page opened on an answered run stops polling only when what it shows is
   complete and final.                                                     *)
THEOREM EndedPagesAreFinal == FleetSpec => []EndedPageIsFinal
<1>1. FleetInv => EndedPageIsFinal
  BY DEF FleetInv, ViewsAreFinal, EndedPageIsFinal
<1>. QED
  BY <1>1, FleetInvariant, PTL

-----------------------------------------------------------------------------
(* Schedules.                                                              *)

LEMMA SchedStarts == SchedInit => SchedInv
<1> SUFFICES ASSUME SchedInit PROVE SchedInv
  OBVIOUS
<1>1. SchedTypeOK
  <2>1. 0 \in 0 .. MaxStalls /\ 0 \in 0 .. MaxStalls + 1 /\ 0 \in Nat
    BY DEF MaxStalls
  <2>2. /\ stalls \in [Trigger -> 0 .. MaxStalls] /\ made \in [Trigger -> 0 .. MaxStalls + 1]
        /\ fired \in Nat
    BY <2>1 DEF SchedInit
  <2>. QED
    BY <2>2 DEF SchedInit, SchedTypeOK
<1>2. AnswersHold /\ OneJobPerTrigger /\ LateIsLast
  BY DEF SchedInit, AnswersHold, OneJobPerTrigger, LateIsLast
<1>3. TriggersInHand /\ AloneIsUndisturbed
  BY DEF SchedInit, TriggersInHand, AloneIsUndisturbed, UnderWay
<1>. QED
  BY <1>1, <1>2, <1>3 DEF SchedInv

(***************************************************************************)
(* Requests: the triggers stay as they are.                                *)
(***************************************************************************)

LEMMA RequestLeavesTriggers ==
  ASSUME SchedInv, UNCHANGED trigVars
  PROVE  OneJobPerTrigger' /\ TriggersInHand'
BY DEF SchedInv, OneJobPerTrigger, TriggersInHand, trigVars

LEMMA SwitchIsSafe ==
  ASSUME SchedInv, NEW to \in {"on", "off", "gone"}, Switch(to), UNCHANGED trigVars
  PROVE  LateIsLast' /\ row' = to /\ late' \in BOOLEAN
BY DEF SchedInv, SchedTypeOK, LateIsLast, Switch, trigVars

LEMMA ArriveKeeps ==
  ASSUME SchedInv, NEW r \in Req, NEW o \in {"create", "enable", "disable", "remove"}, Arrive(r, o)
  PROVE  SchedInv'
<1>1. UNCHANGED <<row, timer, late, fired, trigVars>>
  BY DEF Arrive
<1>2. /\ op' = [op EXCEPT ![r] = o] /\ at' = [at EXCEPT ![r] = "start"]
      /\ solo' = (IF \E q \in Req : UnderWay(q) THEN NoReq ELSE r) /\ told' = "nothing"
  BY DEF Arrive
<1>3. SchedTypeOK'
  BY <1>1, <1>2 DEF SchedInv, SchedTypeOK, trigVars
<1>4. AnswersHold' /\ LateIsLast'
  BY <1>1, <1>2 DEF SchedInv, AnswersHold, LateIsLast, trigVars
<1>5. AloneIsUndisturbed'
  BY <1>1, <1>2, NoReqFresh DEF SchedInv, SchedTypeOK, AloneIsUndisturbed, UnderWay
<1>. QED
  BY <1>1, <1>3, <1>4, <1>5, RequestLeavesTriggers DEF SchedInv

(* A request that ends leaves nothing under way if it was alone.           *)
LEMMA RequestEndKeeps ==
  ASSUME SchedInv, NEW r \in Req, UnderWay(r),
         NEW outcome \in {"nothing", "on", "off", "gone"}, Ends(r, outcome),
         row' \in {"none", "on", "off", "gone"}, timer' \in BOOLEAN, late' \in BOOLEAN,
         solo = r /\ outcome # "nothing" => row' = outcome /\ timer' = (outcome = "on"),
         LateIsLast', UNCHANGED <<op, fired, trigVars>>
  PROVE  SchedInv'
<1>1. /\ at' = [at EXCEPT ![r] = "done"]
      /\ told' = IF solo = r THEN outcome ELSE told
      /\ solo' = IF solo = r THEN NoReq ELSE solo
  BY DEF Ends
<1>2. SchedTypeOK /\ AloneIsUndisturbed /\ AnswersHold
  BY DEF SchedInv
<1>3. told = "nothing" /\ (solo # NoReq => solo = r)
  BY <1>2 DEF AloneIsUndisturbed
<1>4. SchedTypeOK'
  BY <1>1, <1>2 DEF SchedTypeOK, trigVars
<1>5. AnswersHold'
  BY <1>1, <1>3 DEF AnswersHold
<1>6. AloneIsUndisturbed'
  BY <1>1, <1>2, <1>3, NoReqFresh DEF SchedTypeOK, AloneIsUndisturbed, UnderWay
<1>. QED
  BY <1>4, <1>5, <1>6, RequestLeavesTriggers DEF SchedInv

(* A request that goes on: no other was alone meanwhile.                   *)
LEMMA ProceedKeeps ==
  ASSUME SchedInv, NEW r \in Req, UnderWay(r),
         NEW to \in {"found", "set"}, Proceeds(r, to),
         row' \in {"none", "on", "off", "gone"}, timer' \in BOOLEAN, late' \in BOOLEAN,
         to = "found" /\ op[r] = "create" => row' = "on",
         to = "found" => row' # "gone",
         to = "set" /\ solo = r => op[r] # "create" /\ row' # "gone" /\ timer' = (op[r] = "enable"),
         LateIsLast', UNCHANGED <<op, fired, trigVars>>
  PROVE  SchedInv'
<1>1. at' = [at EXCEPT ![r] = to] /\ UNCHANGED <<solo, told>>
  BY DEF Proceeds
<1>2. SchedTypeOK /\ AloneIsUndisturbed /\ AnswersHold
  BY DEF SchedInv
<1>3. told = "nothing" /\ (solo # NoReq => solo = r) /\ op[r] # "none"
  BY <1>2 DEF AloneIsUndisturbed, UnderWay
<1>4. SchedTypeOK'
  BY <1>1, <1>2 DEF SchedTypeOK, trigVars
<1>5. AnswersHold'
  BY <1>1, <1>3 DEF AnswersHold
<1>6. AloneIsUndisturbed'
  <2>1. at'[r] = to /\ \A q \in Req \ {r} : at'[q] = at[q]
    BY <1>1, <1>2 DEF SchedTypeOK
  <2>2. told' = "nothing"
    BY <1>1, <1>3
  <2>3. \A q \in Req : UnderWay(q)' <=> UnderWay(q)
    BY <2>1 DEF UnderWay
  <2>4. \A q \in Req : at'[q] # "idle" => op'[q] # "none"
    BY <2>1, <1>2, <1>3 DEF AloneIsUndisturbed
  <2>5. CASE solo = NoReq
    BY <2>2, <2>4, <2>5, <1>1 DEF AloneIsUndisturbed
  <2>6. CASE solo # NoReq
    BY <2>1, <2>2, <2>3, <2>4, <2>6, <1>1, <1>2, <1>3 DEF AloneIsUndisturbed
  <2>. QED
    BY <2>5, <2>6
<1>. QED
  BY <1>4, <1>5, <1>6, RequestLeavesTriggers DEF SchedInv

LEMMA RequestStepKeeps ==
  ASSUME SchedInv, NEW r \in Req,
         Insert(r) \/ FindOne(r) \/ SetTimer(r) \/ SetRow(r)
  PROVE  SchedInv'
<1>1. SchedTypeOK /\ AloneIsUndisturbed /\ LateIsLast
  BY DEF SchedInv
<1>2. UnderWay(r)
  BY DEF Insert, FindOne, SetTimer, SetRow, UnderWay
<1>3. UNCHANGED trigVars
  BY DEF Insert, FindOne, SetTimer, SetRow
<1>4. UNCHANGED <<row, late>> => LateIsLast' /\ row' \in {"none", "on", "off", "gone"} /\ late' \in BOOLEAN
  BY <1>1, <1>3 DEF LateIsLast, SchedTypeOK, trigVars
<1>5. ASSUME Insert(r) PROVE SchedInv'
  <2>1. UNCHANGED <<timer, op, fired>> /\ at[r] = "start" /\ op[r] = "create"
    BY <1>5 DEF Insert
  <2>2. CASE Proceeds(r, "found") /\ Switch("on")
    BY <2>1, <2>2, <1>1, <1>2, <1>3, SwitchIsSafe, ProceedKeeps DEF SchedTypeOK
  <2>3. CASE Fails(r) /\ (Switch("on") \/ UNCHANGED <<row, late>>)
    BY <2>1, <2>3, <1>1, <1>2, <1>3, <1>4, SwitchIsSafe, RequestEndKeeps DEF SchedTypeOK, Fails
  <2>. QED
    BY <1>5, <2>2, <2>3 DEF Insert
<1>6. ASSUME FindOne(r) PROVE SchedInv'
  <2>1. UNCHANGED <<row, timer, late, fired, op>> /\ op[r] # "create"
    BY <1>6 DEF FindOne
  <2>2. CASE row # "gone" /\ Proceeds(r, "found")
    BY <2>1, <2>2, <1>1, <1>2, <1>3, <1>4, ProceedKeeps DEF SchedTypeOK
  <2>3. CASE Fails(r)
    BY <2>1, <2>3, <1>1, <1>2, <1>3, <1>4, RequestEndKeeps DEF SchedTypeOK, Fails
  <2>. QED
    BY <1>6, <2>2, <2>3 DEF FindOne
<1>7. ASSUME SetTimer(r) PROVE SchedInv'
  <2> DEFINE to == op[r] \in {"create", "enable"}
  <2>1. UNCHANGED <<row, late, fired, op>> /\ at[r] = "found"
    BY <1>7 DEF SetTimer
  <2>2. CASE timer' = to /\ op[r] = "create" /\ Ends(r, "on")
    <3>1. solo = r => row = "on"
      BY <2>1, <2>2, <1>1, NoReqFresh DEF AloneIsUndisturbed
    <3>. QED
      BY <2>1, <2>2, <3>1, <1>2, <1>3, <1>4, RequestEndKeeps
  <2>3. CASE timer' = to /\ op[r] # "create" /\ Proceeds(r, "set")
    <3>1. solo = r => row # "gone"
      BY <2>1, <1>1, NoReqFresh DEF AloneIsUndisturbed
    <3>2. timer' = (op[r] = "enable") /\ timer' \in BOOLEAN
      BY <2>3
    <3>. QED
      BY <2>1, <2>3, <3>1, <3>2, <1>2, <1>3, <1>4, ProceedKeeps
  <2>4. CASE Fails(r) /\ timer' \in {timer, to}
    <3>1. timer' \in BOOLEAN
      <4>1. timer \in BOOLEAN /\ to \in BOOLEAN
        BY <1>1 DEF SchedTypeOK
      <4>. HIDE DEF to
      <4>. QED
        BY <2>4, <4>1
    <3>. QED
      BY <2>1, <2>4, <3>1, <1>2, <1>3, <1>4, RequestEndKeeps DEF Fails
  <2>. QED
    BY <1>7, <2>2, <2>3, <2>4 DEF SetTimer
<1>8. ASSUME SetRow(r) PROVE SchedInv'
  <2>1. UNCHANGED <<timer, op, fired>> /\ at[r] = "set" /\ timer' \in BOOLEAN
    BY <1>8, <1>1 DEF SetRow, SchedTypeOK
  <2>2. Wanted(r) \in {"on", "off", "gone"}
    BY DEF Wanted
  <2>3. CASE Switch(Wanted(r)) /\ Ends(r, Wanted(r))
    <3>1. solo = r => timer = (Wanted(r) = "on")
      BY <2>1, <1>1, NoReqFresh DEF AloneIsUndisturbed, Wanted
    <3>. QED
      BY <2>1, <2>2, <2>3, <3>1, <1>2, <1>3, SwitchIsSafe, RequestEndKeeps
  <2>4. CASE Fails(r) /\ (Switch(Wanted(r)) \/ UNCHANGED <<row, late>>)
    BY <2>1, <2>2, <2>4, <1>2, <1>3, <1>4, SwitchIsSafe, RequestEndKeeps DEF Fails
  <2>. QED
    BY <1>8, <2>3, <2>4 DEF SetRow
<1>. QED
  BY <1>5, <1>6, <1>7, <1>8

(***************************************************************************)
(* Triggers: the requests stay as they are.                                *)
(***************************************************************************)

LEMMA TriggerLeavesRequests ==
  ASSUME SchedInv, UNCHANGED rowVars
  PROVE  /\ AnswersHold' /\ AloneIsUndisturbed'
         /\ row' \in {"none", "on", "off", "gone"} /\ timer' \in BOOLEAN
         /\ op' \in [Req -> {"none", "create", "enable", "disable", "remove"}]
         /\ at' \in [Req -> {"idle", "start", "found", "set", "done"}]
         /\ solo' \in Req \cup {NoReq} /\ told' \in {"nothing", "on", "off", "gone"}
BY DEF SchedInv, SchedTypeOK, AnswersHold, AloneIsUndisturbed, UnderWay, rowVars

LEMMA QueueKeeps ==
  ASSUME SchedInv, NEW t \in Trigger, TimerFires(t) \/ TakeTrigger(t) \/ StallTrigger(t)
  PROVE  SchedInv'
<1>1. SchedTypeOK /\ LateIsLast /\ TriggersInHand /\ OneJobPerTrigger
  BY DEF SchedInv
<1>2. UNCHANGED <<rowVars, made, late, fired>>
  BY DEF TimerFires, TakeTrigger, StallTrigger
<1>3. ASSUME TimerFires(t) PROVE SchedTypeOK' /\ LateIsLast' /\ TriggersInHand' /\ OneJobPerTrigger'
  BY <1>3, <1>1, <1>2, TriggerLeavesRequests, NoTriggerFresh
  DEF TimerFires, SchedTypeOK, LateIsLast, TriggersInHand, OneJobPerTrigger, rowVars
<1>4. ASSUME TakeTrigger(t) PROVE SchedTypeOK' /\ LateIsLast' /\ TriggersInHand' /\ OneJobPerTrigger'
  BY <1>4, <1>1, <1>2, TriggerLeavesRequests, NoTriggerFresh
  DEF TakeTrigger, SchedTypeOK, LateIsLast, TriggersInHand, OneJobPerTrigger, rowVars
<1>5. ASSUME StallTrigger(t) PROVE SchedTypeOK' /\ LateIsLast' /\ TriggersInHand' /\ OneJobPerTrigger'
  BY <1>5, <1>1, <1>2, TriggerLeavesRequests, NoTriggerFresh
  DEF StallTrigger, SchedTypeOK, LateIsLast, TriggersInHand, OneJobPerTrigger, rowVars, MaxStalls
<1>. QED
  BY <1>2, <1>3, <1>4, <1>5, TriggerLeavesRequests DEF SchedInv

LEMMA ProcessKeeps ==
  ASSUME SchedInv, ReadRow \/ Enqueue \/ EndProcess
  PROVE  SchedInv'
<1>1. SchedTypeOK /\ LateIsLast /\ TriggersInHand /\ OneJobPerTrigger
  BY DEF SchedInv
<1>2. UNCHANGED <<rowVars, stalls>>
  BY DEF ReadRow, Enqueue, EndProcess
<1>3. hand \in Trigger /\ trig[hand] = "active"
  BY <1>1 DEF ReadRow, Enqueue, EndProcess, TriggersInHand, SchedTypeOK
<1>4. ASSUME ReadRow PROVE SchedTypeOK' /\ LateIsLast' /\ TriggersInHand' /\ OneJobPerTrigger'
  BY <1>4, <1>1, <1>2, <1>3, TriggerLeavesRequests, NoTriggerFresh
  DEF ReadRow, Over, SchedTypeOK, LateIsLast, TriggersInHand, OneJobPerTrigger, rowVars
<1>5. ASSUME Enqueue PROVE SchedTypeOK' /\ LateIsLast' /\ TriggersInHand' /\ OneJobPerTrigger'
  <2>1. made[hand] <= stalls[hand] /\ made' = [made EXCEPT ![hand] = @ + 1]
        /\ fired' = fired + 1 /\ late' = (row # "on")
    BY <1>5, <1>1 DEF Enqueue, TriggersInHand
  <2>2. \/ hand' = hand /\ trig' = trig /\ seen' = "enqueued"
        \/ hand' = NoTrigger /\ trig' = [trig EXCEPT ![hand] = "over"] /\ seen' = "no"
    BY <1>5 DEF Enqueue, Over
  <2>3. SchedTypeOK'
    <3>1. made' \in [Trigger -> 0 .. MaxStalls + 1] /\ fired' \in Nat /\ late' \in BOOLEAN
      <4>1. stalls[hand] \in 0 .. MaxStalls /\ made[hand] + 1 \in 0 .. MaxStalls + 1
        BY <2>1, <1>1, <1>3 DEF SchedTypeOK, MaxStalls
      <4>2. made' \in [Trigger -> 0 .. MaxStalls + 1]
        BY <2>1, <4>1, <1>1 DEF SchedTypeOK
      <4>3. fired' \in Nat
        BY <2>1, <1>1 DEF SchedTypeOK
      <4>4. late' \in BOOLEAN
        BY <2>1
      <4>. QED
        BY <4>2, <4>3, <4>4
    <3>2. /\ trig' \in [Trigger -> {"none", "waiting", "active", "over"}]
          /\ hand' \in Trigger \cup {NoTrigger} /\ seen' \in {"no", "enabled", "enqueued"}
          /\ stalls' \in [Trigger -> 0 .. MaxStalls]
      BY <2>2, <1>1, <1>2 DEF SchedTypeOK
    <3>. QED
      BY <3>1, <3>2, <1>2, TriggerLeavesRequests DEF SchedTypeOK
  <2>4. \A t \in Trigger : made'[t] = IF t = hand THEN made[t] + 1 ELSE made[t]
    BY <2>1, <1>1 DEF SchedTypeOK
  <2>5. OneJobPerTrigger'
    BY <2>1, <2>4, <1>1, <1>2, <1>3 DEF OneJobPerTrigger, SchedTypeOK, MaxStalls
  <2>6. TriggersInHand'
    BY <2>2, <2>4, <1>1, <1>2, <1>3, NoTriggerFresh DEF TriggersInHand, SchedTypeOK
  <2>7. LateIsLast'
    BY <2>1, <2>2, <1>2 DEF LateIsLast, rowVars
  <2>. QED
    BY <2>3, <2>5, <2>6, <2>7
<1>6. ASSUME EndProcess PROVE SchedTypeOK' /\ LateIsLast' /\ TriggersInHand' /\ OneJobPerTrigger'
  BY <1>6, <1>1, <1>2, <1>3, TriggerLeavesRequests, NoTriggerFresh
  DEF EndProcess, Over, SchedTypeOK, LateIsLast, TriggersInHand, OneJobPerTrigger, rowVars
<1>. QED
  BY <1>2, <1>4, <1>5, <1>6, TriggerLeavesRequests DEF SchedInv

LEMMA SchedCrashKeeps ==
  ASSUME SchedInv, SchedCrash
  PROVE  SchedInv'
BY NoReqFresh, NoTriggerFresh DEF SchedInv, SchedCrash, SchedTypeOK, AnswersHold, OneJobPerTrigger,
   LateIsLast, TriggersInHand, AloneIsUndisturbed, UnderWay

LEMMA SchedSteps == SchedInv /\ [SchedNext]_schedVars => SchedInv'
<1> SUFFICES ASSUME SchedInv, [SchedNext]_schedVars PROVE SchedInv'
  OBVIOUS
<1>1. CASE SchedNext
  BY <1>1, ArriveKeeps, RequestStepKeeps, QueueKeeps, ProcessKeeps, SchedCrashKeeps DEF SchedNext
<1>2. CASE UNCHANGED schedVars
  BY <1>2, RequestLeavesTriggers, TriggerLeavesRequests
  DEF schedVars, trigVars, rowVars, SchedInv, SchedTypeOK, LateIsLast
<1>. QED
  BY <1>1, <1>2

(* The invariant of a schedule, for any number of overlapping requests,
   triggers, failing calls and crashes.                                    *)
THEOREM SchedInvariant == SchedSpec => []SchedInv
BY SchedStarts, SchedSteps, PTL DEF SchedSpec

(* What a request that was alone has answered holds of row and scheduler.  *)
THEOREM AnswersAlwaysHold == SchedSpec => []AnswersHold
<1>1. SchedInv => AnswersHold
  BY DEF SchedInv
<1>. QED
  BY <1>1, SchedInvariant, PTL

(* A trigger runs a second job only after it was found abandoned.          *)
THEOREM AlwaysOneJobPerTrigger == SchedSpec => []OneJobPerTrigger
<1>1. SchedInv => OneJobPerTrigger
  BY DEF SchedInv
<1>. QED
  BY <1>1, SchedInvariant, PTL

(***************************************************************************)
(* The contract.                                                           *)
(***************************************************************************)

LEMMA ContractStarts == SchedInit => Contract!Init
BY DEF SchedInit, Contract!Init

LEMMA SwitchIsContract ==
  ASSUME SchedInv, NEW to \in {"on", "off", "gone"}, Switch(to), UNCHANGED fired
  PROVE  [Contract!Next]_(Contract!contractVars)
<1>1. late \in BOOLEAN /\ (row = "on" => ~late)
  BY DEF SchedInv, SchedTypeOK, LateIsLast
<1>2. row' = to /\ late' = (late /\ to # "on")
  BY DEF Switch
<1>3. CASE to = "on"
  BY <1>2, <1>3 DEF Contract!Next, Contract!SwitchOn
<1>4. CASE to # "on" /\ row = "on"
  BY <1>1, <1>2, <1>4 DEF Contract!Next, Contract!SwitchOff
<1>5. CASE to # "on" /\ row # "on"
  BY <1>1, <1>2, <1>5 DEF Contract!contractVars
<1>. QED
  BY <1>3, <1>4, <1>5

LEMMA ContractSteps == SchedInv /\ [SchedNext]_schedVars => [Contract!Next]_(Contract!contractVars)
<1> SUFFICES ASSUME SchedInv, [SchedNext]_schedVars PROVE [Contract!Next]_(Contract!contractVars)
  OBVIOUS
<1>1. UNCHANGED <<row, late, fired>> => [Contract!Next]_(Contract!contractVars)
  BY DEF Contract!contractVars
<1>2. ASSUME Enqueue PROVE [Contract!Next]_(Contract!contractVars)
  <2>1. ~late /\ late' = (row # "on") /\ fired' = fired + 1 /\ row' = row
    BY <1>2 DEF Enqueue, SchedInv, LateIsLast, rowVars
  <2>. QED
    BY <2>1 DEF Contract!Next, Contract!Fire
<1>3. ASSUME NEW r \in Req, Insert(r) PROVE [Contract!Next]_(Contract!contractVars)
  BY <1>1, <1>3, SwitchIsContract DEF Insert
<1>4. ASSUME NEW r \in Req, SetRow(r) PROVE [Contract!Next]_(Contract!contractVars)
  <2>1. Wanted(r) \in {"on", "off", "gone"}
    BY DEF Wanted
  <2>. QED
    BY <1>1, <1>4, <2>1, SwitchIsContract DEF SetRow
<1>5. \/ UNCHANGED <<row, late, fired>> \/ Enqueue
      \/ \E r \in Req : Insert(r) \/ SetRow(r)
  BY DEF SchedNext, Arrive, FindOne, SetTimer, TimerFires, TakeTrigger, StallTrigger, ReadRow,
     EndProcess, SchedCrash, schedVars, rowVars
<1>. QED
  BY <1>1, <1>2, <1>3, <1>4, <1>5

(* A schedule keeps its contract: requests, triggers and crashes in any order
   are steps of ScheduleContract or change nothing of it.                  *)
THEOREM SchedulesKeepContract == SchedSpec => KeepsContract
<1>1. SchedInv /\ [SchedNext]_schedVars => [Contract!Next]_(Contract!contractVars)
  BY ContractSteps
<1>. QED
  BY <1>1, ContractStarts, SchedInvariant, PTL DEF SchedSpec, KeepsContract, Contract!Spec
=============================================================================
