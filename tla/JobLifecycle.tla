---------------------------- MODULE JobLifecycle ----------------------------
(***************************************************************************)
(* What everyone who reads table jobs relies on, wherever the script runs: *)
(* the CLI polls a job until it is success or failed and then stops, the   *)
(* fleet view counts finished jobs, the web page stops following the log.  *)
(*   - a row is born pending and becomes running before its script can end;*)
(*   - it becomes success or failed only if a script of the job ended so;  *)
(*   - once finished it never becomes unfinished again.                    *)
(* A job may be run by more than one executor, so the verdict itself may   *)
(* still change from one really obtained to another really obtained.       *)
(***************************************************************************)
CONSTANT Job

VARIABLES
  job,  (* job[j]: jobs.status, or "none" before the row is inserted        *)
  ran   (* ran[j]: verdicts (ok or not) that scripts of j have ended with   *)

lifeVars == <<job, ran>>

Verdict(ok) == IF ok THEN "success" ELSE "failed"
Finished(j) == job[j] \in {"success", "failed"}

Init ==
  /\ job = [j \in Job |-> "none"]
  /\ ran = [j \in Job |-> {}]

Create(j) ==
  /\ job[j] = "none"
  /\ job' = [job EXCEPT ![j] = "pending"]
  /\ UNCHANGED ran

Begin(j) ==
  /\ job[j] = "pending"
  /\ job' = [job EXCEPT ![j] = "running"]
  /\ UNCHANGED ran

ScriptEnds(j, ok) ==
  /\ job[j] = "running" \/ Finished(j)
  /\ ran' = [ran EXCEPT ![j] = @ \cup {ok}]
  /\ UNCHANGED job

Finish(j, ok) ==
  /\ job[j] = "running" \/ Finished(j)
  /\ ok \in ran[j]
  /\ job' = [job EXCEPT ![j] = Verdict(ok)]
  /\ UNCHANGED ran

Next == \E j \in Job :
  \/ Create(j) \/ Begin(j)
  \/ \E ok \in BOOLEAN : ScriptEnds(j, ok) \/ Finish(j, ok)

Spec == Init /\ [][Next]_lifeVars
=============================================================================
