----------------------------- MODULE Schedules -----------------------------
(***************************************************************************)
(* One schedule: its row, the BullMQ job scheduler that fires it, the      *)
(* requests that create, pause, resume and delete it, and                  *)
(* ScheduleTriggerProcessor, which runs a job for each trigger.            *)
(*                                                                         *)
(* Row and scheduler live in different stores and are changed one after    *)
(* the other, without a transaction.  The worker of the queue handles one  *)
(* trigger at a time, gives a failed one no second attempt, and puts one   *)
(* whose process died back once.  Schedules share nothing but the worker.  *)
(***************************************************************************)
EXTENDS Naturals, FiniteSets

CONSTANTS
  Req,           (* requests about the schedule; the ids of their callers   *)
  NoReq,         (* nobody                                                  *)
  Trigger,       (* the firings of the scheduler: bounds their number       *)
  NoTrigger,     (* the worker is idle                                      *)
  SchedFaults    (* which faults are admitted                               *)

ASSUME NoReqFresh      == NoReq \notin Req
ASSUME NoTriggerFresh  == NoTrigger \notin Trigger
ASSUME SchedFaultsType == SchedFaults \subseteq {"db", "redis", "crash"}

MaxStalls == 1

VARIABLES
  row,      (* the schedules row: none, on, off, or gone (deleted)          *)
  timer,    (* BullMQ has a job scheduler for it                            *)
  op,       (* op[r]: what request r does                                   *)
  at,       (* at[r]: how far it is                                         *)
  trig,     (* trig[t]: where BullMQ has the trigger                        *)
  stalls,   (* stalls[t]: how often it was found abandoned                  *)
  hand,     (* the trigger whose process() the worker awaits                *)
  seen,     (* what that process() has done: read an enabled row, enqueued  *)
  made,     (* made[t]: jobs run for the trigger (history)                  *)
  fired,    (* jobs run for all of them (history)                           *)
  late,     (* a job was run since the row was last switched off (history)  *)
  solo,     (* the request under way that no other one overlapped (history) *)
  told      (* what the last request told its caller, if it was alone       *)

rowVars   == <<row, timer, op, at, solo, told>>
trigVars  == <<trig, stalls, hand, seen, made>>
schedVars == <<rowVars, trigVars, late, fired>>

UnderWay(r) == at[r] \in {"start", "found", "set"}

SchedTypeOK ==
  /\ row    \in {"none", "on", "off", "gone"}
  /\ timer  \in BOOLEAN
  /\ op     \in [Req -> {"none", "create", "enable", "disable", "remove"}]
  /\ at     \in [Req -> {"idle", "start", "found", "set", "done"}]
  /\ trig   \in [Trigger -> {"none", "waiting", "active", "over"}]
  /\ stalls \in [Trigger -> 0 .. MaxStalls]
  /\ hand   \in Trigger \cup {NoTrigger}
  /\ seen   \in {"no", "enabled", "enqueued"}
  /\ made   \in [Trigger -> 0 .. MaxStalls + 1]
  /\ fired  \in Nat
  /\ late   \in BOOLEAN
  /\ solo   \in Req \cup {NoReq}
  /\ told   \in {"nothing", "on", "off", "gone"}

SchedInit ==
  /\ row = "none" /\ timer = FALSE
  /\ op = [r \in Req |-> "none"] /\ at = [r \in Req |-> "idle"]
  /\ trig = [t \in Trigger |-> "none"] /\ stalls = [t \in Trigger |-> 0]
  /\ hand = NoTrigger /\ seen = "no" /\ made = [t \in Trigger |-> 0]
  /\ late = FALSE /\ fired = 0
  /\ solo = NoReq /\ told = "nothing"

-----------------------------------------------------------------------------
(* SchedulesService.  A request is start, found (it has read the row),     *)
(* set (the scheduler is changed), done.                                   *)

(* A request arrives, perhaps while others are under way.                  *)
Arrive(r, o) ==
  /\ at[r] = "idle"
  /\ o = "create" <=> row = "none" /\ \A q \in Req : op[q] # "create"
  /\ o = "create" \/ row # "none"
  /\ op'   = [op EXCEPT ![r] = o]
  /\ at'   = [at EXCEPT ![r] = "start"]
  /\ solo' = IF \E q \in Req : UnderWay(q) THEN NoReq ELSE r
  /\ told' = "nothing"
  /\ UNCHANGED <<row, timer, late, fired, trigVars>>

Proceeds(r, to) == at' = [at EXCEPT ![r] = to] /\ UNCHANGED <<solo, told>>

Ends(r, outcome) ==
  /\ at'   = [at EXCEPT ![r] = "done"]
  /\ told' = IF solo = r THEN outcome ELSE told
  /\ solo' = IF solo = r THEN NoReq ELSE solo

(* An error is answered; the query that failed may have been executed.     *)
Fails(r) == Ends(r, "nothing")

Switch(to) == row' = to /\ late' = (late /\ to # "on")

(* The INSERT of create; a new row is enabled.                             *)
Insert(r) ==
  /\ op[r] = "create" /\ at[r] = "start"
  /\ \/ Proceeds(r, "found") /\ Switch("on")
     \/ "db" \in SchedFaults /\ Fails(r) /\ (Switch("on") \/ UNCHANGED <<row, late>>)
  /\ UNCHANGED <<timer, op, fired, trigVars>>

(* findOne of setEnabled and remove: an error if the row is gone.          *)
FindOne(r) ==
  /\ op[r] # "create" /\ at[r] = "start"
  /\ \/ row # "gone" /\ Proceeds(r, "found")
     \/ row = "gone" /\ Fails(r)
     \/ "db" \in SchedFaults /\ Fails(r)
  /\ UNCHANGED <<row, timer, late, fired, op, trigVars>>

(* setEnabled leaves the scheduler alone if the row says what is wanted.   *)
SetTimerIfNew(r) ==
  /\ at[r] = "found"
  /\ LET to == op[r] \in {"create", "enable"} IN
       \/ /\ timer' = IF op[r] # "create" /\ to = (row = "on") THEN timer ELSE to
          /\ IF op[r] = "create" THEN Ends(r, "on") ELSE Proceeds(r, "set")
       \/ "redis" \in SchedFaults /\ Fails(r) /\ timer' \in {timer, to}
  /\ UNCHANGED <<row, late, fired, op, trigVars>>

(* upsertJobScheduler or removeJobScheduler; create ends with it.          *)
SetTimer(r) ==
  /\ at[r] = "found"
  /\ LET to == op[r] \in {"create", "enable"} IN
       \/ /\ timer' = to
          /\ IF op[r] = "create" THEN Ends(r, "on") ELSE Proceeds(r, "set")
       \/ "redis" \in SchedFaults /\ Fails(r) /\ timer' \in {timer, to}
  /\ UNCHANGED <<row, late, fired, op, trigVars>>

(* The UPDATE of setEnabled, which finds no row if it is gone by now, or the
   DELETE of remove.                                                       *)
Wanted(r) ==
  IF row = "gone" \/ op[r] = "remove" THEN "gone"
  ELSE IF op[r] = "enable" THEN "on" ELSE "off"

SetRow(r) ==
  /\ at[r] = "set"
  /\ \/ Switch(Wanted(r)) /\ Ends(r, Wanted(r))
     \/ "db" \in SchedFaults /\ Fails(r) /\ (Switch(Wanted(r)) \/ UNCHANGED <<row, late>>)
  /\ UNCHANGED <<timer, op, fired, trigVars>>

-----------------------------------------------------------------------------
(* The scheduler and ScheduleTriggerProcessor.                             *)

TimerFires(t) ==
  /\ timer /\ trig[t] = "none"
  /\ trig' = [trig EXCEPT ![t] = "waiting"]
  /\ UNCHANGED <<rowVars, stalls, hand, seen, made, late, fired>>

TakeTrigger(t) ==
  /\ hand = NoTrigger /\ trig[t] = "waiting"
  /\ trig' = [trig EXCEPT ![t] = "active"]
  /\ hand' = t /\ seen' = "no"
  /\ UNCHANGED <<rowVars, stalls, made, late, fired>>

(* process() returns or throws: no second attempt.                         *)
Over ==
  /\ trig' = [trig EXCEPT ![hand] = "over"]
  /\ hand' = NoTrigger /\ seen' = "no"

(* process() trusts the scheduler and does not look at the row.            *)
ReadRowOnly ==
  /\ hand # NoTrigger /\ seen = "no"
  /\ \/ row # "gone" /\ seen' = "enabled" /\ UNCHANGED <<trig, hand>>
     \/ row = "gone" /\ Over
     \/ "db" \in SchedFaults /\ Over
  /\ UNCHANGED <<rowVars, stalls, made, late, fired>>

(* process() reads the row and returns if it is gone or disabled.          *)
ReadRow ==
  /\ hand # NoTrigger /\ seen = "no"
  /\ \/ row = "on" /\ seen' = "enabled" /\ UNCHANGED <<trig, hand>>
     \/ row # "on" /\ Over
     \/ "db" \in SchedFaults /\ Over
  /\ UNCHANGED <<rowVars, stalls, made, late, fired>>

(* JobsService.enqueue has added the job; it may throw all the same.       *)
Enqueue ==
  /\ hand # NoTrigger /\ seen = "enabled"
  /\ \/ seen' = "enqueued" /\ UNCHANGED <<trig, hand>>
     \/ "redis" \in SchedFaults /\ Over
  /\ made'  = [made EXCEPT ![hand] = @ + 1]
  /\ fired' = fired + 1
  /\ late'  = (row # "on")
  /\ UNCHANGED <<rowVars, stalls>>

(* enqueue throws without a job, or schedule_id is set or not.             *)
EndProcess ==
  /\ \/ seen = "enqueued"
     \/ seen = "enabled" /\ SchedFaults \cap {"db", "redis"} # {}
  /\ Over
  /\ UNCHANGED <<rowVars, stalls, made, late, fired>>

(* BullMQ finds a trigger whose process died.                              *)
StallTrigger(t) ==
  /\ trig[t] = "active" /\ hand # t
  /\ \/ /\ stalls[t] < MaxStalls
        /\ stalls' = [stalls EXCEPT ![t] = @ + 1]
        /\ trig' = [trig EXCEPT ![t] = "waiting"]
     \/ /\ stalls[t] = MaxStalls
        /\ trig' = [trig EXCEPT ![t] = "over"]
        /\ UNCHANGED stalls
  /\ UNCHANGED <<rowVars, hand, seen, made, late, fired>>

(* The backend dies with its requests and the trigger in hand.             *)
SchedCrash ==
  /\ "crash" \in SchedFaults
  /\ hand # NoTrigger \/ \E r \in Req : UnderWay(r)
  /\ at'   = [r \in Req |-> IF UnderWay(r) THEN "done" ELSE at[r]]
  /\ solo' = NoReq
  /\ hand' = NoTrigger /\ seen' = "no"
  /\ UNCHANGED <<row, timer, op, told, trig, stalls, made, late, fired>>

SchedNext ==
  \/ \E r \in Req :
       \/ \E o \in {"create", "enable", "disable", "remove"} : Arrive(r, o)
       \/ Insert(r) \/ FindOne(r) \/ SetTimer(r) \/ SetRow(r)
  \/ \E t \in Trigger : TimerFires(t) \/ TakeTrigger(t) \/ StallTrigger(t)
  \/ ReadRow \/ Enqueue \/ EndProcess \/ SchedCrash

SchedSpec == SchedInit /\ [][SchedNext]_schedVars

-----------------------------------------------------------------------------
(* Safety.                                                                 *)

Contract == INSTANCE ScheduleContract WITH on <- row = "on", late <- late, fired <- fired

(* Whatever fails and whoever switches it: a schedule that is off runs at
   most the one job that was being triggered when it was switched off.     *)
KeepsContract == Contract!Spec

(* Row and scheduler may disagree after a request failed or overlapped
   another one, but the answer to a request that was alone holds: it leaves
   them agreed, whatever state it found them in.                           *)
AnswersHold ==
  told # "nothing" => row = told /\ timer = (told = "on")

(* A trigger runs a second job only if it was found abandoned in between.  *)
OneJobPerTrigger == \A t \in Trigger : made[t] <= stalls[t] + 1

(* Why they hold.                                                          *)
LateIsLast ==
  /\ row = "on" => ~late
  /\ late => seen # "enabled"

TriggersInHand ==
  /\ hand = NoTrigger => seen = "no"
  /\ hand # NoTrigger => trig[hand] = "active" /\ (seen # "enqueued" => made[hand] <= stalls[hand])
  /\ \A t \in Trigger : trig[t] \in {"none", "waiting"} => made[t] <= stalls[t]

(* The request that is alone finds what it has itself done so far.         *)
AloneIsUndisturbed ==
  /\ told # "nothing" => \A r \in Req : ~UnderWay(r)
  /\ solo # NoReq =>
       /\ UnderWay(solo) /\ \A r \in Req \ {solo} : ~UnderWay(r)
       /\ op[solo] = "create" /\ at[solo] = "found" => row = "on"
       /\ at[solo] = "found" => row # "gone"
       /\ at[solo] = "set" => op[solo] # "create" /\ row # "gone" /\ timer = (op[solo] = "enable")
  /\ \A r \in Req : at[r] # "idle" => op[r] # "none"

SchedInv ==
  /\ SchedTypeOK
  /\ AnswersHold
  /\ OneJobPerTrigger
  /\ LateIsLast
  /\ TriggersInHand
  /\ AloneIsUndisturbed
=============================================================================
