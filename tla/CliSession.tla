----------------------------- MODULE CliSession -----------------------------
(***************************************************************************)
(* The CLI's client: the response interceptor of cli/src/api/client.ts and *)
(* the credentials file, which all processes of the user share.  A process *)
(* sends the requests of its command in parallel, as waitForJob does with  *)
(* Promise.all: the command ends when all are answered or one has thrown.  *)
(***************************************************************************)
EXTENDS RefreshTokens

CONSTANT Slot     (* the parallel requests of a command                     *)

VARIABLE
  reqs      (* reqs[p][k]: request k of the command process p is running    *)

allCli == <<tokenVars, reqs>>

CliTypeOK ==
  reqs \in [Client -> [Slot -> {"idle", "sent", "queued", "refreshing", "again",
                               "dropped", "done", "thrown"}]]

CliInit == TokenInit /\ reqs = [p \in Client |-> [k \in Slot |-> "idle"]]

(* Nothing keeps process p alive: a promise nobody settles does not.       *)
Ended(p) == \A k \in Slot : reqs[p][k] \in {"idle", "dropped", "done", "thrown"}

Becomes(p, k, to) == reqs' = [reqs EXCEPT ![p][k] = to]

(* A process is started for a command.                                     *)
Command(p) ==
  /\ Ended(p) /\ bye[p].at = "none"
  /\ reqs' = [reqs EXCEPT ![p] = [k \in Slot |-> "sent"]]
  /\ UNCHANGED tokenVars

(* Any answer but a 401, or none.                                          *)
CliAnswered(p, k) ==
  /\ reqs[p][k] \in {"sent", "again"}
  /\ Becomes(p, k, "done") \/ Becomes(p, k, "thrown")
  /\ UNCHANGED tokenVars

(* The answer 401: the first of a process to get it refreshes, the others
   wait in pendingQueue; one that was retried, or finds no token, throws.  *)
CliUnauthorized(p, k) ==
  /\ reqs[p][k] \in {"sent", "again"}
  /\ \/ /\ reqs[p][k] = "again" \/ stored = NoToken
        /\ Becomes(p, k, "thrown") /\ UNCHANGED ref
     \/ /\ reqs[p][k] = "sent" /\ stored # NoToken
        /\ IF ref[p].at # "none"
           THEN Becomes(p, k, "queued") /\ UNCHANGED ref
           ELSE Becomes(p, k, "refreshing") /\ StartRef(p)
  /\ UNCHANGED <<valid, stored, bye, lost, quiet>>

(* The request that tried the refresh is forgotten like those in the queue. *)
FateOfAll(p, granted) ==
  [k \in Slot |-> IF reqs[p][k] \notin {"refreshing", "queued"} THEN reqs[p][k]
                  ELSE IF granted THEN "again" ELSE "dropped"]

Fate(p, granted) ==
  [k \in Slot |-> IF reqs[p][k] \notin {"refreshing", "queued"} THEN reqs[p][k]
                  ELSE IF granted THEN "again"
                  ELSE IF reqs[p][k] = "queued" THEN "dropped" ELSE "thrown"]

(* writeCredentials and the whole queue goes on; or, whatever has failed,
   clearCredentials: the refreshing request throws, and the queue is dropped
   with promises that never settle.                                        *)
CliRefreshEnds(p) ==
  /\ ref[p].at \in Answers
  /\ stored' = IF ref[p].at = "granted" THEN ref[p].new ELSE NoToken
  /\ reqs' = [reqs EXCEPT ![p] = Fate(p, ref[p].at = "granted")]
  /\ EndRef(p)
  /\ UNCHANGED <<valid, bye, lost, quiet>>

(* logoutCommand tells the backend first and clears the file afterwards,
   whatever it holds by then.                                              *)
CliLogout(p) ==
  /\ stored # NoToken /\ Ended(p) /\ bye[p].at = "none"
  /\ bye' = [bye EXCEPT ![p] = [at |-> "sent", tok |-> stored]]
  /\ UNCHANGED <<valid, stored, ref, lost, quiet, reqs>>

CliLogoutEnds(p) ==
  /\ bye[p].at = "answered"
  /\ bye' = [bye EXCEPT ![p] = NoBye]
  /\ Forget
  /\ UNCHANGED <<valid, ref, lost, reqs>>

(* The user kills the process; a rotation under way is never written.      *)
Kill(p) ==
  /\ "kill" \in AuthFaults
  /\ ~Ended(p) /\ ref[p].at \notin {"found", "revoked"}
  /\ reqs' = [reqs EXCEPT ![p] = [k \in Slot |-> "idle"]]
  /\ lost' = lost \cup ({ref[p].tok} \ (valid \cup {NoToken}))
  /\ EndRef(p)
  /\ UNCHANGED <<valid, stored, bye, quiet>>

CliNext ==
  \/ Login /\ UNCHANGED reqs
  \/ \E p \in Client :
       \/ TokenStep(p) /\ UNCHANGED reqs
       \/ ByeEnds(p, [at |-> "answered", tok |-> bye[p].tok]) /\ UNCHANGED reqs
       \/ Command(p) \/ CliRefreshEnds(p) \/ CliLogout(p) \/ CliLogoutEnds(p) \/ Kill(p)
       \/ \E k \in Slot : CliAnswered(p, k) \/ CliUnauthorized(p, k)

CliSpec == CliInit /\ [][CliNext]_allCli

(* Requests are answered or time out.                                      *)
CliFairness ==
  \A p \in Client :
    /\ \A k \in Slot : WF_allCli(CliAnswered(p, k) \/ CliUnauthorized(p, k))
    /\ WF_allCli(TokenStep(p) /\ UNCHANGED reqs) /\ WF_allCli(CliRefreshEnds(p))

FairCliSpec == CliSpec /\ CliFairness

CliInv == CliTypeOK /\ TokenInv

-----------------------------------------------------------------------------
(* Liveness, under FairCliSpec.                                            *)

(* A command ends although a failed refresh drops the requests that waited
   for it: the one that refreshed throws, which ends the Promise.all.      *)
CommandEnds ==
  \A p \in Client :
    (\E k \in Slot : reqs[p][k] = "sent") ~>
      \/ \A k \in Slot : reqs[p][k] \in {"idle", "done"}
      \/ \E k \in Slot : reqs[p][k] = "thrown"
=============================================================================
