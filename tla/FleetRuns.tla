----------------------------- MODULE FleetRuns -----------------------------
(***************************************************************************)
(* One fleet run: FleetService.createRun sends one action to many devices  *)
(* in parallel and records a target row for each, and the page             *)
(* FleetRunDetail polls the status that getRunStatus computes from them.   *)
(*                                                                         *)
(* The jobs behave as JobLifecycle says (RemoteJobs implements it).  A row *)
(* that is running may belong to a script that was never sent: such a job  *)
(* simply never ends.                                                      *)
(***************************************************************************)
CONSTANTS
  Device,       (* the devices of the run that belong to its user           *)
  Page,         (* mounted instances of the page                            *)
  FleetFaults   (* which faults are admitted                                *)

ASSUME FleetFaultsType == FleetFaults \subseteq {"db", "net", "crash"}

VARIABLES
  fjob, fran,   (* the jobs of the run, as in JobLifecycle                  *)
  branch,       (* branch[d]: where the callback for d in createRun is      *)
  target,       (* target[d]: dispatch_status of the rows recorded for d    *)
  call,         (* the request POST /fleet-runs                             *)
  page,         (* page[p]: what page p is doing                            *)
  mounted,      (* the pages the user has not left                          *)
  early,        (* pages opened before the run was answered (history)       *)
  view          (* view[p]: the status on its way to p, or shown by it      *)

Life == INSTANCE JobLifecycle WITH Job <- Device, job <- fjob, ran <- fran

runVars   == <<branch, target, call>>
pageVars  == <<page, mounted, early, view>>
fleetVars == <<fjob, fran, runVars, pageVars>>

Settled == {"over", "lost"}
Polling == {"asking", "answered", "waiting"}

FleetTypeOK ==
  /\ fjob    \in [Device -> {"none", "pending", "running", "success", "failed"}]
  /\ fran    \in [Device -> SUBSET BOOLEAN]
  /\ branch  \in [Device -> {"idle", "enqueue", "add", "offline", "error"} \cup Settled]
  /\ target  \in [Device -> SUBSET {"dispatched", "offline", "error"}]
  /\ call    \in {"idle", "open", "answered", "failed"}
  /\ page    \in [Page -> {"closed", "ended", "broken"} \cup Polling]
  /\ mounted \subseteq Page
  /\ early   \subseteq Page
  /\ view    \in [Page -> [rows : SUBSET Device, done : BOOLEAN]]

FleetInit ==
  /\ Life!Init
  /\ branch = [d \in Device |-> "idle"] /\ target = [d \in Device |-> {}]
  /\ call = "idle"
  /\ page = [p \in Page |-> "closed"] /\ mounted = {} /\ early = {}
  /\ view = [p \in Page |-> [rows |-> {}, done |-> FALSE]]

-----------------------------------------------------------------------------
(* FleetService.createRun                                                  *)

CreateRun ==
  /\ call = "idle"
  /\ call'   = "open"
  /\ branch' = [d \in Device |-> "enqueue"]
  /\ UNCHANGED <<fjob, fran, target, pageVars>>

Goes(d, to) == branch' = [branch EXCEPT ![d] = to]

(* While enqueue runs the row is created and marked; a script that was sent
   may end and be reported at any time after.                              *)
JobMoves(d) ==
  /\ \/ branch[d] = "enqueue" /\ (Life!Create(d) \/ Life!Begin(d))
     \/ \E ok \in BOOLEAN : Life!ScriptEnds(d, ok) \/ Life!Finish(d, ok)
  /\ UNCHANGED <<runVars, pageVars>>

(* An enqueue that failed half way is recorded as if the device was offline. *)
EnqueueEndsOffline(d) ==
  /\ branch[d] = "enqueue"
  /\ \/ fjob[d] \notin {"none", "pending"} /\ Goes(d, "add")
     \/ fjob[d] = "none" /\ Goes(d, "offline")
     \/ "db" \in FleetFaults /\ Goes(d, "offline")
  /\ UNCHANGED <<fjob, fran, target, call, pageVars>>

(* enqueue returns the job, refuses an offline device before it has created
   anything, or fails wherever it is.                                      *)
EnqueueEnds(d) ==
  /\ branch[d] = "enqueue"
  /\ \/ fjob[d] \notin {"none", "pending"} /\ Goes(d, "add")
     \/ fjob[d] = "none" /\ Goes(d, "offline")
     \/ "db" \in FleetFaults /\ Goes(d, "error")
  /\ UNCHANGED <<fjob, fran, target, call, pageVars>>

Record(d, status) == target' = [target EXCEPT ![d] = @ \cup {status}]

(* addTarget(.., 'dispatched', ..): if it fails (executed or not) the catch
   records the device once more, as an error, although its job runs.       *)
AddTarget(d) ==
  /\ branch[d] = "add"
  /\ \/ Record(d, "dispatched") /\ Goes(d, "over")
     \/ /\ "db" \in FleetFaults
        /\ UNCHANGED target \/ Record(d, "dispatched")
        /\ Goes(d, "error")
  /\ UNCHANGED <<fjob, fran, call, pageVars>>

(* addTarget in the catch: if it fails, Promise.all rejects at once and the
   request ends, while the other callbacks go on.                          *)
AddRefusal(d) ==
  /\ branch[d] \in {"offline", "error"}
  /\ \/ Record(d, branch[d]) /\ Goes(d, "over") /\ UNCHANGED call
     \/ /\ "db" \in FleetFaults
        /\ UNCHANGED target \/ Record(d, branch[d])
        /\ Goes(d, "lost")
        /\ call' = "failed"
  /\ UNCHANGED <<fjob, fran, pageVars>>

(* createRun does not wait for its callbacks.                              *)
AnswerAtOnce ==
  /\ call = "open"
  /\ call' = "answered" \/ ("db" \in FleetFaults /\ call' = "failed")
  /\ UNCHANGED <<fjob, fran, branch, target, pageVars>>

(* All callbacks have ended; the answer reads the status, which may fail.  *)
Answer ==
  /\ call = "open"
  /\ \A d \in Device : branch[d] = "over"
  /\ call' = "answered" \/ ("db" \in FleetFaults /\ call' = "failed")
  /\ UNCHANGED <<fjob, fran, branch, target, pageVars>>

(* The backend dies; what the callbacks had left to do is never done.      *)
FleetCrash ==
  /\ "crash" \in FleetFaults
  /\ call = "open"
  /\ call'   = "failed"
  /\ branch' = [d \in Device |-> IF branch[d] = "over" THEN "over" ELSE "lost"]
  /\ UNCHANGED <<fjob, fran, target, pageVars>>

-----------------------------------------------------------------------------
(* FleetRunDetail                                                          *)

(* The row of the run exists: FleetLaunch navigates to it when the request
   is answered, the list of runs offers it before.                         *)
OpenPage(p) ==
  /\ call # "idle"
  /\ page[p] = "closed"
  /\ page'    = [page EXCEPT ![p] = "asking"]
  /\ mounted' = mounted \cup {p}
  /\ early'   = IF call = "answered" THEN early \ {p} ELSE early \cup {p}
  /\ UNCHANGED <<fjob, fran, runVars, view>>

(* getRunStatus: a row that is not dispatched has its own status, another
   that of its job; done is "no row is running or pending".                *)
InProgress(d) == "dispatched" \in target[d] /\ ~Life!Finished(d)

ReadStatus(p) ==
  /\ page[p] = "asking"
  /\ \/ /\ page' = [page EXCEPT ![p] = "answered"]
        /\ view' = [view EXCEPT ![p] = [rows |-> {d \in Device : target[d] # {}},
                                        done |-> \A d \in Device : ~InProgress(d)]]
     \/ /\ FleetFaults \cap {"db", "net"} # {}
        /\ page' = [page EXCEPT ![p] = "broken"]
        /\ UNCHANGED view
  /\ UNCHANGED <<fjob, fran, runVars, mounted, early>>

(* The page asks again whatever the answer says.                           *)
ShowForEver(p) ==
  /\ page[p] = "answered"
  /\ page' = [page EXCEPT ![p] = "waiting"]
  /\ UNCHANGED <<fjob, fran, runVars, mounted, early, view>>

(* The answer arrives: the timer is set unless the run is done, also when
   the user has left the page in the meantime.                             *)
Show(p) ==
  /\ page[p] = "answered"
  /\ page' = [page EXCEPT ![p] = IF view[p].done THEN "ended" ELSE "waiting"]
  /\ UNCHANGED <<fjob, fran, runVars, mounted, early, view>>

(* POLL_MS have passed.                                                    *)
Poll(p) ==
  /\ page[p] = "waiting"
  /\ page' = [page EXCEPT ![p] = "asking"]
  /\ UNCHANGED <<fjob, fran, runVars, mounted, early, view>>

(* The user leaves: the cleanup clears the timer, if there is one now.     *)
LeavePage(p) ==
  /\ p \in mounted
  /\ mounted' = mounted \ {p}
  /\ page' = [page EXCEPT ![p] = IF @ \in {"asking", "answered"} THEN @ ELSE "closed"]
  /\ UNCHANGED <<fjob, fran, runVars, early, view>>

FleetNext ==
  \/ CreateRun \/ Answer \/ FleetCrash
  \/ \E d \in Device : JobMoves(d) \/ EnqueueEnds(d) \/ AddTarget(d) \/ AddRefusal(d)
  \/ \E p \in Page : OpenPage(p) \/ ReadStatus(p) \/ Show(p) \/ Poll(p) \/ LeavePage(p)

FleetSpec == FleetInit /\ [][FleetNext]_fleetVars

(* Requests are answered or fail, and timers fire.                         *)
FleetFairness ==
  \A p \in Page : WF_fleetVars(ReadStatus(p) \/ Show(p) \/ Poll(p))

FairFleetSpec == FleetSpec /\ FleetFairness

-----------------------------------------------------------------------------
(* Safety.                                                                 *)

(* What the rows say is true: only a device without a job is called offline,
   only one with a job dispatched, and an answered request has a row for
   every device, whichever calls failed on the way.                        *)
RowsAreTrue ==
  /\ \A d \in Device :
       /\ "offline" \in target[d] => fjob[d] = "none"
       /\ "dispatched" \in target[d] => fjob[d] \notin {"none", "pending"}
  /\ call = "answered" => \A d \in Device : target[d] # {}

(* A page opened on an answered run stops asking only when it shows every
   device and nothing it shows can still change to a finished state.  (One
   opened earlier from the list of runs may stop with devices missing: rows
   not yet inserted count for nothing in "done".)                          *)
EndedPageIsFinal ==
  \A p \in Page \ early :
    page[p] = "ended" => view[p].rows = Device /\ \A d \in Device : ~InProgress(d)

(* Why they hold.                                                          *)
BranchKnowsJob ==
  \A d \in Device :
    /\ branch[d] \in {"idle", "offline"} => fjob[d] = "none"
    /\ branch[d] = "add" => fjob[d] \notin {"none", "pending"}
    /\ branch[d] = "over" => target[d] # {}
    /\ branch[d] \in {"idle", "enqueue", "add"} => target[d] = {}
    /\ "offline" \in target[d] => branch[d] \in Settled

AnsweredIsSettled ==
  /\ \A d \in Device : branch[d] = "idle" <=> call = "idle"
  /\ call = "answered" => \A d \in Device : branch[d] = "over"

ViewsAreFinal ==
  \A p \in Page \ early :
    /\ page[p] # "closed" => call = "answered"
    /\ page[p] \in {"answered", "ended"} /\ view[p].done =>
         view[p].rows = Device /\ \A d \in Device : ~InProgress(d)
    /\ page[p] = "ended" => view[p].done

FleetInv ==
  /\ FleetTypeOK
  /\ RowsAreTrue
  /\ BranchKnowsJob
  /\ AnsweredIsSettled
  /\ ViewsAreFinal

-----------------------------------------------------------------------------
(* Liveness, under FleetFairness.                                          *)

(* Once nothing of the run is under way every poller stops, also one whose
   page the user left while an answer was on its way.                      *)
RunOver == \A d \in Device : branch[d] \in Settled /\ ~InProgress(d)
PollingStops == \A p \in Page : RunOver ~> page[p] \notin Polling
=============================================================================
