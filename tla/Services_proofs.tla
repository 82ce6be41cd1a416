-------------------------- MODULE Services_proofs --------------------------
(***************************************************************************)
(* The components of MCServices side by side: the one that runs keeps its  *)
(* own invariant, and leaves the variables of the others alone, for any    *)
(* values of all their constants at once.                                  *)
(***************************************************************************)
EXTENDS MCServices, Dispatch_proofs, Clients_proofs, Organizations_proofs, TemplateFiles_proofs

LEMMA ServicesStart == SvcInit => ServicesInv
BY LocalInit, FleetStarts, SchedStarts, WebStarts, CliStarts, OrgStarts, TmplStarts, PaneStarts
   DEF SvcInit, ServicesInv

LEMMA ServicesStep == ServicesInv /\ [SvcNext]_svcVars => ServicesInv'
<1> SUFFICES ASSUME ServicesInv, [SvcNext]_svcVars PROVE ServicesInv'
  OBVIOUS
<1>1. part' = part
  BY DEF SvcNext, svcVars
<1>2. CASE UNCHANGED svcVars
  BY <1>1, <1>2, LocalNext, FleetSteps, SchedSteps, WebSteps, CliTypes, CliTokens, OrgStepKeeps, TmplSteps, PaneSteps
     DEF svcVars, ServicesInv, CliInv, allWeb, allCli
<1>3. CASE SvcLocal
  BY <1>1, <1>3, LocalNext DEF SvcLocal, ServicesInv
<1>4. CASE SvcFleet
  BY <1>1, <1>4, FleetSteps DEF SvcFleet, ServicesInv
<1>5. CASE SvcSched
  BY <1>1, <1>5, SchedSteps DEF SvcSched, ServicesInv
<1>6. CASE SvcWeb
  BY <1>1, <1>6, WebSteps DEF SvcWeb, ServicesInv
<1>7. CASE SvcCli
  BY <1>1, <1>7, CliTypes, CliTokens DEF SvcCli, ServicesInv, CliInv
<1>8. CASE SvcOrg
  BY <1>1, <1>8, OrgStepKeeps DEF SvcOrg, ServicesInv
<1>9. CASE SvcTmpl
  BY <1>1, <1>9, TmplSteps DEF SvcTmpl, ServicesInv
<1>10. CASE SvcPane
  BY <1>1, <1>10, PaneSteps DEF SvcPane, ServicesInv
<1>. QED
  BY <1>2, <1>3, <1>4, <1>5, <1>6, <1>7, <1>8, <1>9, <1>10 DEF SvcNext

(* Whichever components a run puts side by side, the one that runs keeps its
   invariant: the run of all of them shows of each what a run of it alone
   would show.                                                             *)
THEOREM ServicesInvariant == SvcSpec => []ServicesInv
BY ServicesStart, ServicesStep, PTL DEF SvcSpec
=============================================================================
