----------------------------- MODULE WebSession -----------------------------
(***************************************************************************)
(* The web client: request() and tryRefresh() of lib/api.js, AuthProvider  *)
(* of lib/auth.jsx.  Every tab shares the refresh among its own requests,  *)
(* and the tokens (localStorage) with the other tabs.                      *)
(***************************************************************************)
EXTENDS RefreshTokens

CONSTANTS
  Call,     (* calls of request() outside /auth                             *)
  TabOf     (* TabOf[q]: the tab that makes call q                          *)

ASSUME TabOfType == TabOf \in [Call -> Client]

VARIABLES
  stage,    (* stage[q]: how far the call is                                *)
  asking    (* tabs that are loading and wait for GET /auth/me              *)

webVars == <<stage, asking>>
allWeb  == <<tokenVars, webVars>>

WebTypeOK ==
  /\ stage  \in [Call -> {"idle", "sent", "waiting", "again"}]
  /\ asking \subseteq Client

WebInit ==
  /\ TokenInit
  /\ stage = [q \in Call |-> "idle"] /\ asking = {}

Waiting(w) == {q \in Call : TabOf[q] = w /\ stage[q] = "waiting"}

Send(q) ==
  /\ stage[q] = "idle"
  /\ stage' = [stage EXCEPT ![q] = "sent"]
  /\ UNCHANGED <<asking, tokenVars>>

(* Any answer but a 401, or none: the call is over.                        *)
Answered(q) ==
  /\ stage[q] \in {"sent", "again"}
  /\ stage' = [stage EXCEPT ![q] = "idle"]
  /\ UNCHANGED <<asking, tokenVars>>

(* The answer 401 leads to another refresh however often it comes.         *)
UnauthorizedAgain(q) ==
  /\ stage[q] \in {"sent", "again"}
  /\ IF stored # NoToken
     THEN /\ stage' = [stage EXCEPT ![q] = "waiting"]
          /\ IF ref[TabOf[q]].at = "none" THEN StartRef(TabOf[q]) ELSE UNCHANGED ref
     ELSE stage' = [stage EXCEPT ![q] = "idle"] /\ UNCHANGED ref
  /\ UNCHANGED <<valid, stored, bye, lost, quiet, asking>>

(* A refresh is tried without looking whether there is a token.            *)
UnauthorizedUnchecked(q) ==
  /\ stage[q] \in {"sent", "again"}
  /\ IF stage[q] = "sent"
     THEN /\ stage' = [stage EXCEPT ![q] = "waiting"]
          /\ IF ref[TabOf[q]].at = "none" THEN StartRef(TabOf[q]) ELSE UNCHANGED ref
     ELSE stage' = [stage EXCEPT ![q] = "idle"] /\ UNCHANGED ref
  /\ UNCHANGED <<valid, stored, bye, lost, quiet, asking>>

(* The answer 401: a call that was not retried and finds a refresh token
   waits for the tab's refresh, and starts it if there is none.            *)
Unauthorized(q) ==
  /\ stage[q] \in {"sent", "again"}
  /\ IF stage[q] = "sent" /\ stored # NoToken
     THEN /\ stage' = [stage EXCEPT ![q] = "waiting"]
          /\ IF ref[TabOf[q]].at = "none" THEN StartRef(TabOf[q]) ELSE UNCHANGED ref
     ELSE stage' = [stage EXCEPT ![q] = "idle"] /\ UNCHANGED ref
  /\ UNCHANGED <<valid, stored, bye, lost, quiet, asking>>

Resume(w, to) ==
  stage' = [q \in Call |-> IF q \in Waiting(w) THEN to ELSE stage[q]]

(* The rotated refresh token of the answer is not kept.                    *)
RefreshEndsKeepingOld(w) ==
  /\ \/ ref[w].at = "granted" /\ UNCHANGED stored /\ Resume(w, "again")
     \/ ref[w].at = "refused" /\ stored' = NoToken /\ Resume(w, "idle")
     \/ ref[w].at = "error" /\ UNCHANGED stored /\ Resume(w, "idle")
  /\ EndRef(w)
  /\ UNCHANGED <<valid, bye, lost, quiet, asking>>

(* The refresh of the tab is answered, and all its waiting calls go on: with
   the new token stored they are sent again; a refusal clears whatever is
   stored by then; if there was no answer the token stays.                 *)
RefreshEnds(w) ==
  /\ \/ ref[w].at = "granted" /\ stored' = ref[w].new /\ Resume(w, "again")
     \/ ref[w].at = "refused" /\ stored' = NoToken /\ Resume(w, "idle")
     \/ ref[w].at = "error" /\ UNCHANGED stored /\ Resume(w, "idle")
  /\ EndRef(w)
  /\ UNCHANGED <<valid, bye, lost, quiet, asking>>

(* api.auth.logout clears the tokens before it tells the backend.          *)
Logout(w) ==
  /\ stored # NoToken /\ bye[w].at = "none"
  /\ bye' = [bye EXCEPT ![w] = [at |-> "sent", tok |-> stored]]
  /\ Forget
  /\ UNCHANGED <<valid, ref, lost, webVars>>

(* A page is loaded: loadMe asks who the user is.  Its path is one of /auth,
   so that an expired access token is not refreshed: any failure clears the
   tokens.                                                                 *)
Load(w) ==
  /\ stored # NoToken /\ w \notin asking
  /\ asking' = asking \cup {w}
  /\ UNCHANGED <<stage, tokenVars>>

Loaded(w) ==
  /\ w \in asking
  /\ asking' = asking \ {w}
  /\ stored' \in {stored, NoToken}
  /\ UNCHANGED <<valid, ref, bye, lost, quiet, stage>>

WebNext ==
  \/ Login /\ UNCHANGED webVars
  \/ \E w \in Client :
       \/ TokenStep(w) /\ UNCHANGED webVars
       \/ ByeEnds(w, NoBye) /\ UNCHANGED webVars
       \/ RefreshEnds(w) \/ Logout(w) \/ Load(w) \/ Loaded(w)
  \/ \E q \in Call : Send(q) \/ Answered(q) \/ Unauthorized(q)

WebSpec == WebInit /\ [][WebNext]_allWeb

(* Requests are answered or fail: those of the tabs, and those of refreshes. *)
WebFairness ==
  /\ \A q \in Call : WF_allWeb(Answered(q) \/ Unauthorized(q))
  /\ \A w \in Client : WF_allWeb(TokenStep(w) /\ UNCHANGED webVars) /\ WF_allWeb(RefreshEnds(w))

FairWebSpec == WebSpec /\ WebFairness

-----------------------------------------------------------------------------
(* Why the safety properties hold.                                         *)

(* A refresh runs exactly while calls wait for it.                         *)
RefreshIsAwaited == \A w \in Client : ref[w].at = "none" <=> Waiting(w) = {}

(* What is logged out is not stored any more.                              *)
ByeIsForgotten == stored # NoToken => \A w \in Client : bye[w].tok # stored

WebInv ==
  /\ WebTypeOK
  /\ TokenInv
  /\ RefreshIsAwaited
  /\ ByeIsForgotten

-----------------------------------------------------------------------------
(* Liveness, under FairWebSpec.                                            *)

(* Every call is answered to its caller, however often access tokens expire,
   whether the refresh it shares is granted, refused or lost.              *)
CallsSettle == \A q \in Call : stage[q] # "idle" ~> stage[q] = "idle"
=============================================================================
