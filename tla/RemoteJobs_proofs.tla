------------------------- MODULE RemoteJobs_proofs -------------------------
(***************************************************************************)
(* Proofs about RemoteJobs, for any jobs, devices, agents, connections and *)
(* faults: JobInv is inductive, the safety properties follow, and the jobs *)
(* rows implement JobLifecycle.                                            *)
(***************************************************************************)
EXTENDS RemoteJobs, AgentsGateway_proofs

LEMMA JobInvInit == JobInit => JobInv
<1> SUFFICES ASSUME JobInit PROVE JobInv
  OBVIOUS
<1>1. GatewayInv
  BY GatewayInit DEF JobInit
<1>2. JobTypeOK
  BY DEF JobInit, JobTypeOK
<1>3. \A j \in Job : ~AtLarge(j)
  BY DEF JobInit, AtLarge, Reported
<1>4. RequestInv /\ FinishedMeansRan
  BY <1>3 DEF JobInit, RequestInv, FinishedMeansRan, Finished
<1>5. ReportsAreTrue /\ WireHasEnds /\ OnlyItsDevice /\ NewToItsProcess
  BY DEF JobInit, ReportsAreTrue, Reported, WireHasEnds, OnlyItsDevice, NewToItsProcess
<1>. QED
  BY <1>1, <1>2, <1>4, <1>5 DEF JobInv

-----------------------------------------------------------------------------
(* Steps of the presence protocol.                                         *)

(* What happens to the messages and scripts when connections open and close. *)
LEMMA WireStep ==
  ASSUME JobInv, Next, WireFollows, UNCHANGED <<job, ran>>,
         finish' \subseteq finish,
         req' \in [Job -> {"idle", "seen", "script", "created", "marked",
                           "answered", "refused", "error"}],
         \A j \in Job : \/ req'[j] = req[j]
                        \/ req'[j] = "error" /\ req[j] \in {"seen", "script", "created", "marked"}
  PROVE  JobInv'
<1>1. GatewayInv'
  BY GatewayNext DEF JobInv
<1>2. /\ cl \in [Socket -> {"up", "down"}] /\ sv \in [Socket -> {"up", "down"}]
      /\ cl' \in [Socket -> {"up", "down"}] /\ sv' \in [Socket -> {"up", "down"}]
  BY <1>1 DEF JobInv, GatewayInv, TypeOK
<1>3. JobTypeOK
  BY DEF JobInv
<1>4. ASSUME NEW s \in Socket, sv'[s] = "up" PROVE owner'[s] \in Agent
  BY <1>1, <1>4 DEF GatewayInv, BusyHasOwner, Busy
<1>5. ASSUME NEW s \in Socket
      PROVE  /\ runs'[s] \subseteq runs[s]
             /\ runs'[s] # {} => cl'[s] = "up"
             /\ reports'[s] # {} => sv'[s] = "up"
             /\ \/ reports'[s] \subseteq reports[s]
                \/ owner'[s] \in Agent /\ reports'[s] \subseteq outbox[owner'[s]]
  BY <1>2, <1>4 DEF WireFollows
<1>6. ASSUME NEW a \in Agent
      PROVE  outbox'[a] \subseteq outbox[a] /\ exec'[a] \subseteq exec[a] /\ began'[a] \subseteq began[a]
  BY DEF WireFollows
<1>7. JobTypeOK'
  <2>1. runs' \in [Socket -> SUBSET Job] /\ reports' \in [Socket -> SUBSET Report]
    <3>1. runs' = [s \in Socket |-> runs'[s]] /\ reports' = [s \in Socket |-> reports'[s]]
      BY DEF WireFollows
    <3>2. ASSUME NEW s \in Socket
          PROVE  runs'[s] \in SUBSET Job /\ reports'[s] \in SUBSET Report
      BY <1>3, <1>5 DEF JobTypeOK
    <3>. QED
      BY <3>1, <3>2
  <2>2. /\ exec' \in [Agent -> SUBSET Job] /\ began' \in [Agent -> SUBSET Job]
        /\ outbox' \in [Agent -> SUBSET Report]
    BY <1>3 DEF JobTypeOK, WireFollows
  <2>. QED
    BY <1>3, <2>1, <2>2 DEF JobTypeOK
<1>8. /\ \A r : Reported(r)' => Reported(r)
      /\ \A j : AtLarge(j)' => AtLarge(j)
  <2>1. \A r : Reported(r)' => Reported(r)
    BY <1>5, <1>6 DEF Reported
  <2>. QED
    BY <1>5, <1>6, <2>1 DEF AtLarge
<1>9. RequestInv'
  <2> SUFFICES ASSUME NEW j \in Job PROVE
        /\ req'[j] \in {"idle", "seen", "script", "refused"} => job'[j] = "none"
        /\ req'[j] = "created"  => job'[j] = "pending"
        /\ req'[j] = "marked"   => job'[j] = "running"
        /\ req'[j] = "error"    => ~Finished(j)'
        /\ req'[j] = "answered" => job'[j] = "running" \/ Finished(j)'
        /\ req'[j] # "answered" =>
             ~AtLarge(j)' /\ ran'[j] = {} /\ \A a \in Agent : j \notin began'[a]
    BY DEF RequestInv
  <2>1. /\ req[j] \in {"idle", "seen", "script", "refused"} => job[j] = "none"
        /\ req[j] = "created"  => job[j] = "pending"
        /\ req[j] = "marked"   => job[j] = "running"
        /\ req[j] = "error"    => ~Finished(j)
        /\ req[j] = "answered" => job[j] = "running" \/ Finished(j)
        /\ req[j] # "answered" => ~AtLarge(j) /\ ran[j] = {} /\ \A a \in Agent : j \notin began[a]
    BY DEF JobInv, RequestInv
  <2>2. Finished(j)' <=> Finished(j)
    BY DEF Finished
  <2>3. req'[j] # "answered" =>
          ~AtLarge(j)' /\ ran'[j] = {} /\ \A a \in Agent : j \notin began'[a]
    BY <1>6, <1>8, <2>1
  <2>. QED
    BY <2>1, <2>2, <2>3 DEF Finished
<1>10. FinishedMeansRan'
  BY DEF JobInv, FinishedMeansRan, Finished
<1>11. ReportsAreTrue'
  BY <1>8 DEF JobInv, ReportsAreTrue
<1>12. WireHasEnds'
  BY <1>5 DEF WireHasEnds
<1>13. ASSUME NEW s \in Socket, runs'[s] # {}
       PROVE  owner'[s] = owner[s] /\ cl[s] = "up"
  <2>1. cl[s] = "up" \/ sv[s] = "up"
    BY <1>5, <1>13 DEF JobInv, WireHasEnds
  <2>2. owner'[s] = owner[s] /\ (cl'[s] = "up" => cl[s] = "up")
    BY <2>1, ConnectionStep DEF JobInv
  <2>. QED
    BY <1>5, <1>13, <2>2
<1>14. OnlyItsDevice'
  BY <1>5, <1>6, <1>13 DEF JobInv, OnlyItsDevice, appOf
<1>15. NewToItsProcess'
  <2>1. ASSUME NEW s \in Socket, NEW j \in runs'[s]
        PROVE  j \notin began'[owner'[s]]
    <3>1. owner'[s] = owner[s] /\ cl[s] = "up" /\ j \in runs[s]
      BY <1>5, <1>13
    <3>2. owner[s] \in Agent /\ j \notin began[owner[s]]
      BY <3>1 DEF JobInv, NewToItsProcess, OnlyItsDevice
    <3>. QED
      BY <1>6, <3>1, <3>2
  <2>2. \A a \in Agent : exec'[a] \subseteq began'[a]
    BY DEF JobInv, NewToItsProcess, WireFollows
  <2>. QED
    BY <2>1, <2>2 DEF NewToItsProcess
<1>. QED
  BY <1>1, <1>7, <1>9, <1>10, <1>11, <1>12, <1>14, <1>15 DEF JobInv

-----------------------------------------------------------------------------
(* Steps of requests, scripts and reports.                                 *)

LEMMA PresenceUnchanged ==
  ASSUME JobInv, UNCHANGED gwVars
  PROVE  GatewayInv'
BY GatewayNext DEF JobInv

(* A request that moves on without an answer and without touching anything
   but its own row.                                                        *)
LEMMA RequestStep ==
  ASSUME JobInv, NEW j \in Job, UNCHANGED <<gwVars, wireVars>>,
         NEW to \in {"seen", "script", "created", "marked", "refused", "error"},
         req[j] \notin {"answered", "error", "refused"},
         req' = [req EXCEPT ![j] = to],
         NEW st \in {"none", "pending", "running"},
         job' = [job EXCEPT ![j] = st],
         to \in {"seen", "script", "refused"} => st = "none",
         to = "created" => st = "pending",
         to = "marked" => st = "running"
  PROVE  JobInv'
<1> USE DEF wireVars
<1>1. GatewayInv'
  BY PresenceUnchanged
<1>2. JobTypeOK /\ RequestInv
  BY DEF JobInv
<1>3. JobTypeOK'
  BY <1>2 DEF JobTypeOK
<1>4. (\A r : Reported(r)' <=> Reported(r)) /\ (\A i : AtLarge(i)' <=> AtLarge(i))
  BY DEF Reported, AtLarge
<1>5. RequestInv'
  BY <1>2, <1>4 DEF RequestInv, JobTypeOK, Finished
<1>6. FinishedMeansRan'
  BY <1>2 DEF JobInv, FinishedMeansRan, JobTypeOK, Finished
<1>7. ReportsAreTrue'
  BY <1>4 DEF JobInv, ReportsAreTrue
<1>8. WireHasEnds' /\ OnlyItsDevice' /\ NewToItsProcess'
  BY DEF JobInv, WireHasEnds, OnlyItsDevice, NewToItsProcess, appOf, gwVars
<1>. QED
  BY <1>1, <1>3, <1>5, <1>6, <1>7, <1>8 DEF JobInv

LEMMA DispatchStep ==
  ASSUME JobInv, NEW j \in Job, ReqDispatch(j)
  PROVE  JobInv'
<1> USE JobAppType DEF ReqDispatch, Request
<1>1. GatewayInv /\ GatewayInv'
  BY PresenceUnchanged DEF JobInv
<1>2. JobTypeOK /\ RequestInv /\ req[j] = "marked"
  BY DEF JobInv
<1>3. JobTypeOK'
  BY <1>2 DEF JobTypeOK
<1>4. ~AtLarge(j) /\ ran[j] = {} /\ (\A a \in Agent : j \notin began[a]) /\ job[j] = "running"
  BY <1>2 DEF RequestInv
<1>5. \A i \in Job \ {j} : AtLarge(i)' => AtLarge(i)
  BY DEF AtLarge, Reported
<1>6. RequestInv'
  BY <1>2, <1>4, <1>5 DEF RequestInv, JobTypeOK, Finished
<1>7. FinishedMeansRan' /\ ReportsAreTrue'
  BY DEF JobInv, FinishedMeansRan, Finished, ReportsAreTrue, Reported
<1>8. ASSUME NEW s \in Socket
      PROVE  \/ runs'[s] = runs[s]
             \/ /\ runs'[s] = runs[s] \cup {j} /\ sv[s] = "up"
                /\ owner[s] \in Agent /\ appOf(s) = JobApp[j]
  <2>1. CASE s \in rooms[JobApp[j]]
    <3>1. sv[s] = "up" /\ connectedAgents[s] = JobApp[j]
      BY <1>1, <2>1 DEF GatewayInv, RoomsMatchMap
    <3>2. owner[s] \in Agent /\ connectedAgents[s] = appOf(s)
      BY <1>1, <3>1, NoAppFresh DEF GatewayInv, EnteredByOwnHandler
    <3>. QED
      BY <3>1, <3>2
  <2>2. CASE s \notin rooms[JobApp[j]]
    BY <2>2
  <2>. QED
    BY <2>1, <2>2
<1>9. UNCHANGED <<owner, cl, sv, reports, exec, began>>
  BY DEF gwVars
<1>10. WireHasEnds'
  BY <1>8, <1>9 DEF JobInv, WireHasEnds
<1>11. OnlyItsDevice'
  BY <1>8, <1>9 DEF JobInv, OnlyItsDevice, appOf
<1>12. NewToItsProcess'
  BY <1>4, <1>8, <1>9 DEF JobInv, NewToItsProcess
<1>. QED
  BY <1>1, <1>3, <1>6, <1>7, <1>10, <1>11, <1>12 DEF JobInv

LEMMA ReceiveRunStep ==
  ASSUME JobInv, NEW s \in Socket, NEW j \in Job, ReceiveRun(s, j)
  PROVE  JobInv'
<1> USE DEF ReceiveRun
<1>1. GatewayInv /\ GatewayInv'
  BY PresenceUnchanged DEF JobInv
<1>2. JobTypeOK /\ RequestInv
  BY DEF JobInv
<1>3. owner[s] \in Agent /\ appOf(s) = JobApp[j]
  BY DEF JobInv, OnlyItsDevice
<1>4. JobTypeOK'
  BY <1>2, <1>3 DEF JobTypeOK
<1>5. AtLarge(j) /\ \A i : AtLarge(i)' => AtLarge(i)
  <2>1. \A i : i # j => (AtLarge(i)' => AtLarge(i))
    BY <1>2, <1>3 DEF AtLarge, Reported, JobTypeOK
  <2>2. AtLarge(j)
    BY DEF AtLarge
  <2>. QED
    BY <2>1, <2>2
<1>6. req[j] = "answered"
  BY <1>2, <1>5 DEF RequestInv
<1>7. RequestInv'
  BY <1>2, <1>3, <1>5, <1>6 DEF RequestInv, JobTypeOK, Finished
<1>8. FinishedMeansRan' /\ ReportsAreTrue'
  BY DEF JobInv, FinishedMeansRan, Finished, ReportsAreTrue, Reported
<1>9. UNCHANGED <<owner, cl, sv, reports>>
  BY DEF gwVars
<1>10. WireHasEnds'
  BY <1>2, <1>9 DEF JobInv, WireHasEnds, JobTypeOK
<1>11. OnlyItsDevice'
  BY <1>2, <1>3, <1>9 DEF JobInv, OnlyItsDevice, appOf, JobTypeOK
<1>12. NewToItsProcess'
  <2>1. ASSUME NEW t \in Socket, NEW i \in runs'[t], cl[t] = "up"
        PROVE  i \notin began'[owner[t]]
    <3>1. i \in runs[t] /\ owner[t] \in Agent /\ i \notin began[owner[t]]
      BY <1>2, <2>1 DEF JobInv, NewToItsProcess, OnlyItsDevice, JobTypeOK
    <3>2. CASE owner[t] = owner[s]
      <4>1. t = s
        BY <1>1, <2>1, <3>2 DEF GatewayInv, OneConnectionEach
      <4>. QED
        BY <1>2, <1>3, <3>1, <4>1 DEF JobTypeOK
    <3>3. CASE owner[t] # owner[s]
      BY <1>2, <3>1, <3>3 DEF JobTypeOK
    <3>. QED
      BY <3>2, <3>3
  <2>2. \A a \in Agent : exec'[a] \subseteq began'[a]
    BY <1>2 DEF JobInv, NewToItsProcess, JobTypeOK
  <2>. QED
    BY <1>9, <2>1, <2>2 DEF NewToItsProcess
<1>. QED
  BY <1>1, <1>4, <1>7, <1>8, <1>10, <1>11, <1>12 DEF JobInv

LEMMA ScriptEndsStep ==
  ASSUME JobInv, NEW a \in Agent, NEW j \in Job, NEW ok \in BOOLEAN, ScriptEnds(a, j, ok)
  PROVE  JobInv'
<1> USE DEF ScriptEnds
<1>1. GatewayInv'
  BY PresenceUnchanged DEF JobInv
<1>2. JobTypeOK /\ RequestInv
  BY DEF JobInv
<1>3. JobTypeOK'
  <2>1. <<j, ok>> \in Report
    BY DEF Report
  <2>2. /\ exec' \in [Agent -> SUBSET Job] /\ ran' \in [Job -> SUBSET BOOLEAN]
    BY <1>2 DEF JobTypeOK
  <2>3. reports' \in [Socket -> SUBSET Report]
    BY <1>2, <2>1 DEF JobTypeOK
  <2>4. outbox' \in [Agent -> SUBSET Report]
    BY <1>2, <2>1 DEF JobTypeOK
  <2>. QED
    BY <1>2, <2>2, <2>3, <2>4 DEF JobTypeOK
<1>4. \A r : Reported(r)' => Reported(r) \/ r = <<j, ok>>
  BY <1>2 DEF Reported, JobTypeOK
<1>5. AtLarge(j) /\ \A i : AtLarge(i)' => AtLarge(i)
  <2>1. AtLarge(j)
    BY DEF AtLarge
  <2>2. \A i : i # j => (AtLarge(i)' => AtLarge(i))
    BY <1>2, <1>4 DEF AtLarge, JobTypeOK
  <2>. QED
    BY <2>1, <2>2
<1>6. req[j] = "answered"
  BY <1>2, <1>5 DEF RequestInv
<1>7. RequestInv'
  BY <1>2, <1>5, <1>6 DEF RequestInv, JobTypeOK, Finished
<1>8. \A i \in Job : ran[i] \subseteq ran'[i]
  BY <1>2 DEF JobTypeOK
<1>9. FinishedMeansRan'
  BY <1>8 DEF JobInv, FinishedMeansRan, Finished
<1>10. ReportsAreTrue'
  <2>1. ok \in ran'[j]
    BY <1>2 DEF JobTypeOK
  <2>. QED
    BY <1>4, <1>8, <2>1 DEF JobInv, ReportsAreTrue
<1>11. UNCHANGED <<owner, cl, sv, runs, began>>
  BY DEF gwVars
<1>12. WireHasEnds' /\ OnlyItsDevice'
  BY <1>11 DEF JobInv, WireHasEnds, OnlyItsDevice, appOf
<1>13. NewToItsProcess'
  BY <1>2, <1>11 DEF JobInv, NewToItsProcess, JobTypeOK
<1>. QED
  BY <1>1, <1>3, <1>7, <1>9, <1>10, <1>12, <1>13 DEF JobInv

LEMMA ReceiveReportStep ==
  ASSUME JobInv, NEW s \in Socket, NEW r \in Report, ReceiveReport(s, r)
  PROVE  JobInv'
<1> USE DEF ReceiveReport
<1>1. GatewayInv'
  BY PresenceUnchanged DEF JobInv
<1>2. JobTypeOK /\ RequestInv
  BY DEF JobInv
<1>3. JobTypeOK'
  BY <1>2 DEF JobTypeOK
<1>4. (\A q : Reported(q)' => Reported(q)) /\ (\A i : AtLarge(i)' => AtLarge(i))
  <2>1. \A q : Reported(q)' => Reported(q)
    BY <1>2 DEF Reported, JobTypeOK
  <2>. QED
    BY <2>1 DEF AtLarge
<1>5. RequestInv'
  BY <1>2, <1>4 DEF RequestInv, Finished
<1>6. FinishedMeansRan' /\ ReportsAreTrue'
  BY <1>4 DEF JobInv, FinishedMeansRan, Finished, ReportsAreTrue
<1>7. WireHasEnds' /\ OnlyItsDevice' /\ NewToItsProcess'
  BY <1>2 DEF JobInv, WireHasEnds, OnlyItsDevice, NewToItsProcess, appOf, gwVars, JobTypeOK
<1>. QED
  BY <1>1, <1>3, <1>5, <1>6, <1>7 DEF JobInv

(* A report in a handler is of a job whose request was answered and whose
   row is running or finished, and its verdict was really obtained.        *)
LEMMA ReportIsOfAnsweredJob ==
  ASSUME JobInv, NEW r \in Report, r \in finish
  PROVE  /\ r[1] \in Job /\ r[2] \in ran[r[1]]
         /\ req[r[1]] = "answered"
         /\ job[r[1]] = "running" \/ Finished(r[1])
<1>1. PICK j \in Job, ok \in BOOLEAN : r = <<j, ok>>
  BY DEF Report
<1>2. Reported(<<j, ok>>) /\ AtLarge(j)
  BY <1>1 DEF Reported, AtLarge
<1>3. ok \in ran[j]
  BY <1>2 DEF JobInv, ReportsAreTrue
<1>4. req[j] = "answered" /\ (job[j] = "running" \/ Finished(j))
  BY <1>2 DEF JobInv, RequestInv
<1>. QED
  BY <1>1, <1>3, <1>4

LEMMA MarkFinishedStep ==
  ASSUME JobInv, NEW r \in Report, MarkFinished(r)
  PROVE  JobInv'
<1> USE DEF MarkFinished
<1>1. GatewayInv'
  BY PresenceUnchanged DEF JobInv
<1>2. JobTypeOK /\ RequestInv
  BY DEF JobInv
<1>3. r[1] \in Job /\ r[2] \in ran[r[1]] /\ req[r[1]] = "answered"
  BY ReportIsOfAnsweredJob
<1>4. job' \in [Job -> {"none", "pending", "running", "success", "failed"}]
  BY <1>2, <1>3 DEF JobTypeOK, Verdict
<1>5. JobTypeOK'
  BY <1>2, <1>4 DEF JobTypeOK
<1>6. (\A q : Reported(q)' => Reported(q)) /\ (\A i : AtLarge(i)' => AtLarge(i))
  <2>1. \A q : Reported(q)' => Reported(q)
    BY DEF Reported
  <2>. QED
    BY <2>1 DEF AtLarge
<1>7. job' = job \/ job' = [job EXCEPT ![r[1]] = Verdict(r[2])]
  OBVIOUS
<1>8. RequestInv'
  BY <1>2, <1>3, <1>6, <1>7 DEF RequestInv, JobTypeOK, Finished, Verdict
<1>9. FinishedMeansRan'
  <2> SUFFICES ASSUME NEW j \in Job, Finished(j)'
               PROVE  \E ok \in ran[j] : job'[j] = Verdict(ok)
    BY DEF FinishedMeansRan, Verdict
  <2>1. CASE job'[j] = job[j]
    BY <2>1 DEF JobInv, FinishedMeansRan, Finished
  <2>2. CASE job'[j] # job[j]
    BY <1>2, <1>3, <1>7, <2>2 DEF JobTypeOK
  <2>. QED
    BY <2>1, <2>2
<1>10. ReportsAreTrue'
  BY <1>6 DEF JobInv, ReportsAreTrue
<1>11. WireHasEnds' /\ OnlyItsDevice' /\ NewToItsProcess'
  BY DEF JobInv, WireHasEnds, OnlyItsDevice, NewToItsProcess, appOf, gwVars
<1>. QED
  BY <1>1, <1>5, <1>8, <1>9, <1>10, <1>11 DEF JobInv

LEMMA RequestsPreserve ==
  ASSUME JobInv, NEW j \in Job,
         ReqFind(j) \/ ReqCheck(j) \/ ReqCreate(j) \/ ReqMark(j) \/ ReqDispatch(j)
  PROVE  JobInv'
<1>1. JobTypeOK /\ RequestInv
  BY DEF JobInv
<1>2. job = [job EXCEPT ![j] = job[j]]
  BY <1>1 DEF JobTypeOK
<1>3. CASE ReqFind(j)
  <2>1. job[j] = "none"
    BY <1>1, <1>3 DEF ReqFind, Request, RequestInv
  <2>. QED
    BY <1>2, <1>3, <2>1, RequestStep DEF ReqFind, Request
<1>4. CASE ReqCheck(j)
  <2>1. job[j] = "none"
    BY <1>1, <1>4 DEF ReqCheck, Request, RequestInv
  <2>. QED
    BY <1>2, <1>4, <2>1, RequestStep DEF ReqCheck, Request
<1>5. CASE ReqCreate(j)
  <2>1. job[j] = "none"
    BY <1>1, <1>5 DEF ReqCreate, Request, RequestInv
  <2>. QED
    BY <1>2, <1>5, <2>1, RequestStep DEF ReqCreate, Request
<1>6. CASE ReqMark(j)
  <2>1. job[j] = "pending"
    BY <1>1, <1>6 DEF ReqMark, Request, RequestInv
  <2>. QED
    BY <1>2, <1>6, <2>1, RequestStep DEF ReqMark, Request
<1>7. CASE ReqDispatch(j)
  BY <1>7, DispatchStep
<1>. QED
  BY <1>3, <1>4, <1>5, <1>6, <1>7

LEMMA JobInvNext == JobInv /\ [JobNext]_allVars => JobInv'
<1> SUFFICES ASSUME JobInv, [JobNext]_allVars PROVE JobInv'
  OBVIOUS
<1>1. JobTypeOK
  BY DEF JobInv
<1>2. CASE PresenceStep
  <2>1. Next /\ WireFollows /\ UNCHANGED <<job, ran, req, finish>>
    BY <1>2 DEF PresenceStep, Next
  <2>. QED
    BY <1>1, <2>1, WireStep DEF JobTypeOK
<1>3. CASE BackendDeath
  <2>1. Next /\ WireFollows /\ UNCHANGED <<job, ran>> /\ finish' \subseteq finish
    BY <1>3 DEF BackendDeath, Next
  <2>2. RequestsLost
    BY <1>3 DEF BackendDeath
  <2>3. req' \in [Job -> {"idle", "seen", "script", "created", "marked",
                          "answered", "refused", "error"}]
    BY <1>1, <2>2 DEF RequestsLost, JobTypeOK
  <2>4. \A j \in Job : \/ req'[j] = req[j]
                       \/ req'[j] = "error" /\ req[j] \in {"seen", "script", "created", "marked"}
    BY <2>2 DEF RequestsLost
  <2>. QED
    BY <2>1, <2>3, <2>4, WireStep
<1>4. CASE JobStep
  <2>1. CASE \E j \in Job :
               ReqFind(j) \/ ReqCheck(j) \/ ReqCreate(j) \/ ReqMark(j) \/ ReqDispatch(j)
    BY <2>1, RequestsPreserve
  <2>2. CASE \E s \in Socket, j \in Job : ReceiveRun(s, j)
    BY <2>2, ReceiveRunStep
  <2>3. CASE \E a \in Agent, j \in Job, ok \in BOOLEAN : ScriptEnds(a, j, ok)
    BY <2>3, ScriptEndsStep
  <2>4. CASE \E s \in Socket, r \in Report : ReceiveReport(s, r)
    BY <2>4, ReceiveReportStep
  <2>5. CASE \E r \in Report : MarkFinished(r)
    BY <2>5, MarkFinishedStep
  <2>. QED
    BY <1>4, <2>1, <2>2, <2>3, <2>4, <2>5 DEF JobStep
<1>5. CASE UNCHANGED allVars
  <2>1. GatewayInv'
    BY <1>5, PresenceUnchanged DEF allVars
  <2>2. UNCHANGED <<job, ran, req, runs, exec, began, outbox, reports, finish, owner, cl, sv>>
    BY <1>5 DEF allVars, jobVars, gwVars
  <2>. QED
    BY <2>1, <2>2 DEF JobInv, JobTypeOK, RequestInv, FinishedMeansRan, Finished,
       ReportsAreTrue, AtLarge, Reported, WireHasEnds, OnlyItsDevice, NewToItsProcess, appOf
<1>. QED
  BY <1>2, <1>3, <1>4, <1>5 DEF JobNext

(* JobInv holds for any devices, agents, connections and jobs: what a request
   has done, what of it is outside and what its row may say.               *)
THEOREM JobInvariant == JobSpec => []JobInv
BY JobInvInit, JobInvNext, PTL DEF JobSpec

(* An invariant of the composition covers the presence protocol inside it. *)
THEOREM JobsKeepGateway == JobSpec => []GatewayInv
<1>1. JobInv => GatewayInv
  BY DEF JobInv
<1>. QED
  BY <1>1, JobInvariant, PTL

(* No job is outside before its row is running.                            *)
THEOREM OutIsAlwaysMarked == JobSpec => []OutOnlyWhenMarked
<1>1. JobInv => OutOnlyWhenMarked
  <2> SUFFICES ASSUME JobInv, NEW j \in Job, AtLarge(j)
               PROVE  job[j] \notin {"none", "pending"} /\ req[j] # "marked"
    BY DEF OutOnlyWhenMarked
  <2>1. req[j] = "answered"
    BY DEF JobInv, RequestInv
  <2>. QED
    BY <2>1 DEF JobInv, RequestInv, Finished
<1>. QED
  BY <1>1, JobInvariant, PTL

(* A finished row reports a verdict that a script of the job ended with.   *)
THEOREM FinishedAlwaysMeansRan == JobSpec => []FinishedMeansRan
<1>1. JobInv => FinishedMeansRan
  BY DEF JobInv
<1>. QED
  BY <1>1, JobInvariant, PTL

(* What was answered with an error has not run, and it never runs.         *)
THEOREM RefusedIsNeverRun == JobSpec => []RefusedNeverRuns
<1>1. JobInv => RefusedNeverRuns
  BY DEF JobInv, RequestInv, RefusedNeverRuns
<1>. QED
  BY <1>1, JobInvariant, PTL

(* Scripts reach only the agents of the device they were meant for.        *)
THEOREM AlwaysOnlyItsDevice == JobSpec => []OnlyItsDevice
<1>1. JobInv => OnlyItsDevice
  BY DEF JobInv
<1>. QED
  BY <1>1, JobInvariant, PTL

-----------------------------------------------------------------------------
(* Every step is a step of JobLifecycle, or changes no row and no verdict. *)

LEMMA StepImplements ==
  ASSUME JobInv, [JobNext]_allVars
  PROVE  [Lifecycle!Next]_(Lifecycle!lifeVars)
<1> USE DEF Lifecycle!lifeVars
<1>1. JobTypeOK /\ RequestInv
  BY DEF JobInv
<1>2. CASE UNCHANGED <<job, ran>>
  BY <1>2
<1>3. ASSUME NEW j \in Job, ReqCreate(j)
      PROVE  UNCHANGED <<job, ran>> \/ Lifecycle!Create(j)
  <2>1. job[j] = "none"
    BY <1>1, <1>3 DEF ReqCreate, Request, RequestInv
  <2>. QED
    BY <1>3, <2>1 DEF ReqCreate, wireVars, Lifecycle!Create
<1>4. ASSUME NEW j \in Job, ReqMark(j)
      PROVE  UNCHANGED <<job, ran>> \/ Lifecycle!Begin(j)
  <2>1. job[j] = "pending"
    BY <1>1, <1>4 DEF ReqMark, Request, RequestInv
  <2>. QED
    BY <1>4, <2>1 DEF ReqMark, wireVars, Lifecycle!Begin
<1>5. ASSUME NEW a \in Agent, NEW j \in Job, NEW ok \in BOOLEAN, ScriptEnds(a, j, ok)
      PROVE  Lifecycle!ScriptEnds(j, ok)
  <2>1. AtLarge(j)
    BY <1>5 DEF ScriptEnds, AtLarge
  <2>2. job[j] = "running" \/ Finished(j)
    BY <1>1, <2>1 DEF RequestInv
  <2>. QED
    BY <1>5, <2>2 DEF ScriptEnds, Lifecycle!ScriptEnds, Finished, Lifecycle!Finished
<1>6. ASSUME NEW r \in Report, MarkFinished(r)
      PROVE  \/ UNCHANGED <<job, ran>>
             \/ r[1] \in Job /\ r[2] \in BOOLEAN /\ Lifecycle!Finish(r[1], r[2])
  <2>1. /\ r[1] \in Job /\ r[2] \in ran[r[1]]
        /\ job[r[1]] = "running" \/ Finished(r[1])
    BY <1>6, ReportIsOfAnsweredJob DEF MarkFinished
  <2>2. r[2] \in BOOLEAN
    BY DEF Report
  <2>. QED
    BY <1>6, <2>1, <2>2 DEF MarkFinished, Lifecycle!Finish, Finished, Lifecycle!Finished,
       Verdict, Lifecycle!Verdict
<1>7. ASSUME NEW j \in Job, ReqFind(j) \/ ReqCheck(j) \/ ReqDispatch(j)
      PROVE  UNCHANGED <<job, ran>>
  BY <1>7 DEF ReqFind, ReqCheck, ReqDispatch, wireVars
<1>8. ASSUME NEW s \in Socket, NEW j \in Job, ReceiveRun(s, j)
      PROVE  UNCHANGED <<job, ran>>
  BY <1>8 DEF ReceiveRun
<1>9. ASSUME NEW s \in Socket, NEW r \in Report, ReceiveReport(s, r)
      PROVE  UNCHANGED <<job, ran>>
  BY <1>9 DEF ReceiveReport
<1>10. CASE JobStep
  BY <1>3, <1>4, <1>5, <1>6, <1>7, <1>8, <1>9, <1>10 DEF JobStep, Lifecycle!Next
<1>. QED
  BY <1>2, <1>10 DEF JobNext, PresenceStep, BackendDeath, allVars, jobVars

(* The jobs rows, as their readers see them, implement the life cycle.     *)
THEOREM JobsImplementLifecycle == JobSpec => ImplementsLifecycle
<1>1. JobInit => Lifecycle!Init
  BY DEF JobInit, Lifecycle!Init
<1>2. JobInv /\ [JobNext]_allVars => [Lifecycle!Next]_(Lifecycle!lifeVars)
  BY StepImplements
<1>. QED
  BY <1>1, <1>2, JobInvariant, PTL DEF JobSpec, ImplementsLifecycle, Lifecycle!Spec

(* A finished job stays finished: no step of the life cycle undoes it.     *)
THEOREM FinishedJobsStayFinished == JobSpec => StaysFinished
<1>1. JobInv /\ [JobNext]_allVars => [\A j \in Job : Finished(j) => Finished(j)']_allVars
  <2> SUFFICES ASSUME JobInv, [JobNext]_allVars, NEW j \in Job, Finished(j)
               PROVE  Finished(j)'
    OBVIOUS
  <2>1. [Lifecycle!Next]_(Lifecycle!lifeVars)
    BY StepImplements
  <2>2. job \in [Job -> {"none", "pending", "running", "success", "failed"}]
    BY DEF JobInv, JobTypeOK
  <2>3. CASE UNCHANGED <<job, ran>>
    BY <2>3 DEF Finished
  <2>4. ASSUME NEW i \in Job, Lifecycle!Create(i) \/ Lifecycle!Begin(i)
        PROVE  Finished(j)'
    BY <2>2, <2>4 DEF Finished, Lifecycle!Create, Lifecycle!Begin
  <2>5. ASSUME NEW i \in Job, NEW ok \in BOOLEAN,
               Lifecycle!ScriptEnds(i, ok) \/ Lifecycle!Finish(i, ok)
        PROVE  Finished(j)'
    BY <2>2, <2>5 DEF Finished, Lifecycle!ScriptEnds, Lifecycle!Finish, Lifecycle!Verdict
  <2>. QED
    BY <2>1, <2>3, <2>4, <2>5 DEF Lifecycle!Next, Lifecycle!lifeVars
<1>. QED
  BY <1>1, JobInvariant, PTL DEF JobSpec, StaysFinished

(* One process starts the script of a job at most once in its life.        *)
THEOREM ProcessesRunJobsOnce == JobSpec => AtMostOncePerProcess
<1>1. JobInv /\ [JobNext]_allVars =>
        [\A a \in Agent, j \in Job : j \in exec'[a] /\ j \notin exec[a] => j \notin began[a]]_allVars
  <2> SUFFICES ASSUME JobInv, [JobNext]_allVars, NEW a \in Agent, NEW j \in Job,
                      j \in exec'[a], j \notin exec[a]
               PROVE  j \notin began[a]
    OBVIOUS
  <2>1. exec \in [Agent -> SUBSET Job]
    BY DEF JobInv, JobTypeOK
  <2>2. ASSUME NEW s \in Socket, NEW i \in Job, ReceiveRun(s, i)
        PROVE  j \notin began[a]
    <3>1. i = j /\ owner[s] = a
      BY <2>1, <2>2 DEF ReceiveRun
    <3>. QED
      BY <2>2, <3>1 DEF ReceiveRun, JobInv, NewToItsProcess
  <2>3. ASSUME NEW i \in Job,
               ReqFind(i) \/ ReqCheck(i) \/ ReqCreate(i) \/ ReqMark(i) \/ ReqDispatch(i)
        PROVE  FALSE
    BY <2>3 DEF ReqFind, ReqCheck, ReqCreate, ReqMark, ReqDispatch, wireVars
  <2>4. ASSUME NEW b \in Agent, NEW i \in Job, NEW ok \in BOOLEAN, ScriptEnds(b, i, ok)
        PROVE  FALSE
    BY <2>1, <2>4 DEF ScriptEnds
  <2>5. ASSUME NEW s \in Socket, NEW r \in Report, ReceiveReport(s, r) PROVE FALSE
    BY <2>5 DEF ReceiveReport
  <2>6. ASSUME NEW r \in Report, MarkFinished(r) PROVE FALSE
    BY <2>6 DEF MarkFinished
  <2>7. CASE WireFollows
    BY <2>7 DEF WireFollows
  <2>8. CASE UNCHANGED allVars
    BY <2>8 DEF allVars, jobVars
  <2>. QED
    BY <2>2, <2>3, <2>4, <2>5, <2>6, <2>7, <2>8
       DEF JobNext, PresenceStep, BackendDeath, JobStep
<1>. QED
  BY <1>1, JobInvariant, PTL DEF JobSpec, AtMostOncePerProcess

(* The jobs implement the presence protocol: whatever is shown of it alone,
   they leave as it is.                                                    *)
THEOREM JobsImplementPresence == JobSpec => Spec
<1>1. JobInit => Init
  BY DEF JobInit
<1>2. [JobNext]_allVars => [Next]_gwVars
  <2>1. PresenceStep \/ BackendDeath => Next
    BY DEF PresenceStep, BackendDeath, Next
  <2>2. JobStep => UNCHANGED gwVars
    BY DEF JobStep, ReqFind, ReqCheck, ReqCreate, ReqMark, ReqDispatch, ReceiveRun, ScriptEnds,
           ReceiveReport, MarkFinished
  <2>3. UNCHANGED allVars => UNCHANGED gwVars
    BY DEF allVars
  <2>. QED
    BY <2>1, <2>2, <2>3 DEF JobNext
<1>. QED
  BY <1>1, <1>2, PTL DEF JobSpec, Spec

(* Departures are recorded with jobs under way.                            *)
THEOREM JobsRecordDepartures == JobSpec => DeparturesAreRecorded
BY JobsImplementPresence, DeparturesAreAlwaysRecorded
=============================================================================
