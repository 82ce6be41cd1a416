--------------------------- MODULE RefreshTokens ---------------------------
(***************************************************************************)
(* The refresh tokens of one user: AuthService on the backend, and the one *)
(* place where clients that share a login keep theirs - localStorage for   *)
(* the tabs of a browser, the credentials file for CLI processes.  What    *)
(* the clients do with them is in WebSession and CliSession.               *)
(*                                                                         *)
(* A refresh is cut at the queries of AuthService.refresh.  Access tokens  *)
(* are not kept: one may expire at any moment, also under way.  A new      *)
(* token gets any name nobody knows: so names are used again.              *)
(***************************************************************************)
CONSTANTS
  Client,       (* tabs, or processes, that share the stored token          *)
  Token,
  NoToken,
  AuthFaults    (* which faults are admitted                                *)

ASSUME NoTokenFresh   == NoToken \notin Token
ASSUME AuthFaultsType == AuthFaults \subseteq {"db", "net", "kill"}

VARIABLES
  valid,    (* tokens with a row that is not revoked                        *)
  stored,   (* the refresh token the clients share                          *)
  ref,      (* ref[c]: the POST /auth/refresh client c has under way        *)
  bye,      (* bye[c]: the POST /auth/logout client c has under way         *)
  lost,     (* tokens revoked by a refresh whose answer never came (history) *)
  quiet     (* logged out when no refresh was under way, no login since (history) *)

tokenVars == <<valid, stored, ref, bye, lost, quiet>>

NoRef == [at |-> "none", tok |-> NoToken, new |-> NoToken]
NoBye == [at |-> "none", tok |-> NoToken]

Answers == {"granted", "refused", "error"}

TokenTypeOK ==
  /\ valid  \subseteq Token
  /\ stored \in Token \cup {NoToken}
  /\ ref    \in [Client -> [at : {"none", "sent", "found", "revoked"} \cup Answers,
                            tok : Token \cup {NoToken}, new : Token \cup {NoToken}]]
  /\ bye    \in [Client -> [at : {"none", "sent", "answered"}, tok : Token \cup {NoToken}]]
  /\ lost   \subseteq Token
  /\ quiet  \in BOOLEAN

TokenInit ==
  /\ valid = {} /\ stored = NoToken
  /\ ref = [c \in Client |-> NoRef] /\ bye = [c \in Client |-> NoBye]
  /\ lost = {} /\ quiet = FALSE

Known == {stored} \cup {ref[c].tok : c \in Client} \cup {ref[c].new : c \in Client}
                  \cup {bye[c].tok : c \in Client}

(* A token is random: any name will do that nobody knows.                  *)
Unknown  == Token \ Known
NewToken == CHOOSE t \in Token : t \in Unknown

-----------------------------------------------------------------------------
(* AuthService                                                             *)

(* login, register: nobody knows the token before its answer arrives, which
   is when the client stores it.                                           *)
Login ==
  /\ Unknown # {}
  /\ valid'  = valid \cup {NewToken}
  /\ lost'   = lost \ {NewToken}
  /\ stored' = NewToken
  /\ quiet'  = FALSE
  /\ UNCHANGED <<ref, bye>>

RefGoes(c, to) == ref' = [ref EXCEPT ![c].at = to]

(* findValidByHash (and findById of the user).                             *)
RefFind(c) ==
  /\ ref[c].at = "sent"
  /\ RefGoes(c, IF ref[c].tok \in valid THEN "found" ELSE "refused")
  /\ UNCHANGED <<valid, stored, bye, lost, quiet>>

RefRevoke(c) ==
  /\ ref[c].at = "found"
  /\ RefGoes(c, "revoked")
  /\ valid' = valid \ {ref[c].tok}
  /\ UNCHANGED <<stored, bye, lost, quiet>>

(* issueTokens, after which the request is answered.                       *)
RefIssue(c) ==
  /\ ref[c].at = "revoked" /\ Unknown # {}
  /\ ref'   = [ref EXCEPT ![c].at = "granted", ![c].new = NewToken]
  /\ valid' = valid \cup {NewToken}
  /\ lost'  = lost \ {NewToken}
  /\ UNCHANGED <<stored, bye, quiet>>

(* A query fails: clients make no difference between this and a refusal.   *)
RefFails(c) ==
  /\ "db" \in AuthFaults
  /\ ref[c].at \in {"sent", "found", "revoked"}
  /\ RefGoes(c, "refused")
  /\ \/ ref[c].at = "found" /\ valid' = valid \ {ref[c].tok}
     \/ UNCHANGED valid
  /\ UNCHANGED <<stored, bye, lost, quiet>>

(* The request does not reach the backend, or its answer not the client.   *)
RefLost(c) ==
  /\ "net" \in AuthFaults
  /\ ref[c].at \in {"sent", "granted", "refused"}
  /\ RefGoes(c, "error")
  /\ lost' = lost \cup ({ref[c].tok} \ valid)
  /\ UNCHANGED <<valid, stored, bye, quiet>>

(* logout: revoke, or the request fails and the client does not mind.      *)
ByeEnds(c, to) ==
  /\ bye[c].at = "sent"
  /\ bye' = [bye EXCEPT ![c] = to]
  /\ \/ valid' = valid \ {bye[c].tok}
     \/ AuthFaults \cap {"db", "net"} # {} /\ UNCHANGED valid
  /\ UNCHANGED <<stored, ref, lost, quiet>>

TokenStep(c) == RefFind(c) \/ RefRevoke(c) \/ RefIssue(c) \/ RefFails(c) \/ RefLost(c)

-----------------------------------------------------------------------------
(* What both kinds of clients do.                                          *)

StartRef(c) == ref' = [ref EXCEPT ![c] = [at |-> "sent", tok |-> stored, new |-> NoToken]]
EndRef(c)   == ref' = [ref EXCEPT ![c] = NoRef]
Refreshing  == {c \in Client : ref[c].at # "none"}

Forget == stored' = NoToken /\ quiet' = (Refreshing = {})  (* a logout *)

-----------------------------------------------------------------------------
(* Safety, of both kinds of clients.                                       *)

(* The token the clients share is one the backend accepts, unless it is just
   being rotated or logged out, or the answer of its rotation was lost -
   however many clients refresh with it at once.                           *)
StoredIsUsable ==
  stored # NoToken =>
    \/ stored \in valid \cup lost
    \/ \E c \in Client : ref[c].tok = stored \/ bye[c].tok = stored

(* A logout is final: unless a refresh was under way, nothing that is still
   answered later brings a token back.                                     *)
LogoutIsFinal == quiet => stored = NoToken /\ Refreshing = {}

(* Why they hold.  The refresh that takes the stored token away still has it,
   until it has told what became of it.                                    *)
StoredIsCovered ==
  stored # NoToken =>
    \/ stored \in valid \cup lost
    \/ \E c \in Client : ref[c].tok = stored /\ ref[c].at # "error"
    \/ \E c \in Client : bye[c].tok = stored

(* A new token is known to its refresh alone until that has ended.         *)
NewIsSecret ==
  \A c \in Client :
    /\ ref[c].at # "none" => ref[c].tok # NoToken
    /\ ref[c].at = "granted" =>
         /\ ref[c].new \in valid
         /\ ref[c].new # stored
         /\ \A d \in Client :
              ref[c].new # ref[d].tok /\ ref[c].new # bye[d].tok /\ (c # d => ref[c].new # ref[d].new)

TokenInv ==
  /\ TokenTypeOK
  /\ StoredIsCovered
  /\ NewIsSecret
  /\ LogoutIsFinal
=============================================================================
