-------------------------- MODULE ScheduleContract --------------------------
(***************************************************************************)
(* What a user may expect of a schedule: it runs jobs while it is on, and  *)
(* after it was paused or deleted at most the one run that was just being  *)
(* triggered still comes, however often it is switched.                    *)
(***************************************************************************)
EXTENDS Naturals

VARIABLES
  on,     (* the schedule is there and enabled                              *)
  late,   (* a run came after it was last switched off                      *)
  fired   (* how many jobs it has run                                       *)

contractVars == <<on, late, fired>>

Init == on = FALSE /\ late = FALSE /\ fired = 0

SwitchOn  == on' = TRUE /\ late' = FALSE /\ UNCHANGED fired
SwitchOff == on /\ on' = FALSE /\ UNCHANGED <<late, fired>>

Fire ==
  /\ on \/ ~late
  /\ late' = ~on
  /\ fired' = fired + 1
  /\ UNCHANGED on

Next == SwitchOn \/ SwitchOff \/ Fire

Spec == Init /\ [][Next]_contractVars
=============================================================================
