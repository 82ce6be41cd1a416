----------------------------- MODULE MCServices -----------------------------
(***************************************************************************)
(* Instances for TLC of the components that share no state with each other *)
(* or with the gateways: a behaviour runs one of them, chosen in its       *)
(* initial state, and the others stay as they started.                     *)
(***************************************************************************)
EXTENDS LocalJobs, FleetRuns, Schedules, WebSession, CliSession, Organizations,
        TemplateFiles, TerminalPane, TLC

CONSTANTS
  Part,     (* the components of the run                                    *)
  MaxTmplRequests,  (* how many creations and edits a behaviour starts      *)
  c1, c2, q1, q2

VARIABLE part

(* One call in each of two tabs, or two in one.                            *)
TwoTabs == (q1 :> c1) @@ (q2 :> c2)
OneTab  == (q1 :> c1) @@ (q2 :> c1)

(* Two symmetries, each of all components at once, instead of all there are:
   a state is compared with only three images of itself.                   *)
Swap(S) == CHOOSE p \in Permutations(S) :
             (\E x \in S : p[x] # x) /\ \A x \in S : p[p[x]] = x
Swaps ==
  <<Swap(Job) @@ Swap(Device) @@ Swap(Trigger) @@ Swap(Client) @@ Swap(Call) @@ Swap(Ask)
      @@ Swap(Creation) @@ Swap(Dev),
    Swap(Req) @@ Swap(Edit) @@ Swap(Try)>>
SvcSymmetry == {Swaps[i] : i \in DOMAIN Swaps}

svcVars == <<vars, fleetVars, schedVars, tokenVars, webVars, reqs, orgVars, tmplVars, paneVars, part>>

SvcInit ==
  /\ part \in Part
  /\ Init /\ FleetInit /\ SchedInit /\ WebInit /\ CliInit /\ OrgInit /\ TmplInit /\ PaneInit

(* All creations with an edit, or all edits with a creation: what a creation
   and an edit do to each other needs no more of both.                     *)
TmplRequests == Cardinality({c \in Creation : make[c].at # "idle"})
                  + Cardinality({e \in Edit : edit[e].at # "idle"})

SvcLocal == part = "local" /\ Next
            /\ UNCHANGED <<fleetVars, schedVars, tokenVars, webVars, reqs, orgVars, tmplVars, paneVars>>
SvcFleet == part = "fleet" /\ FleetNext
            /\ UNCHANGED <<vars, schedVars, tokenVars, webVars, reqs, orgVars, tmplVars, paneVars>>
SvcSched == part = "schedule" /\ SchedNext
            /\ UNCHANGED <<vars, fleetVars, tokenVars, webVars, reqs, orgVars, tmplVars, paneVars>>
SvcWeb   == part = "web" /\ WebNext
            /\ UNCHANGED <<vars, fleetVars, schedVars, reqs, orgVars, tmplVars, paneVars>>
SvcCli   == part = "cli" /\ CliNext
            /\ UNCHANGED <<vars, fleetVars, schedVars, webVars, orgVars, tmplVars, paneVars>>
SvcOrg   == part = "organization" /\ OrgNext
            /\ UNCHANGED <<vars, fleetVars, schedVars, tokenVars, webVars, reqs, tmplVars, paneVars>>
SvcTmpl  == part = "template" /\ TmplNext /\ TmplRequests' <= MaxTmplRequests
            /\ UNCHANGED <<vars, fleetVars, schedVars, tokenVars, webVars, reqs, orgVars, paneVars>>
SvcPane  == part = "pane" /\ PaneNext
            /\ UNCHANGED <<vars, fleetVars, schedVars, tokenVars, webVars, reqs, orgVars, tmplVars>>

SvcNext ==
  /\ SvcLocal \/ SvcFleet \/ SvcSched \/ SvcWeb \/ SvcCli \/ SvcOrg \/ SvcTmpl \/ SvcPane
  /\ UNCHANGED part

SvcSpec == SvcInit /\ [][SvcNext]_svcVars

(* The fairness of the components that state one.  An action of another part
   is never enabled for ever: the web and the CLI clients, whose tokens are
   the same variables, both end the refreshes they start.                  *)
FairSvcSpec == SvcSpec /\ Fairness /\ FleetFairness /\ WebFairness /\ CliFairness

(* The invariant of the component that runs.                               *)
ServicesInv ==
  /\ part = "local" => LocalInv
  /\ part = "fleet" => FleetInv
  /\ part = "schedule" => SchedInv
  /\ part = "web" => WebInv
  /\ part = "cli" => CliInv
  /\ part = "organization" => OrgInv
  /\ part = "template" => TmplInv
  /\ part = "pane" => PaneInv
=============================================================================
