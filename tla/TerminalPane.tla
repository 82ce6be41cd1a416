---------------------------- MODULE TerminalPane ----------------------------
(***************************************************************************)
(* The browser side of a remote shell: the component DeviceTerminal and    *)
(* the socket it shares with every other page (lib/socket.js).  Of the     *)
(* backend only what one connection sees of it is here: Terminals models   *)
(* the rest.                                                               *)
(***************************************************************************)
CONSTANTS
  Try,      (* terminal:open requests of the component; also their sessions *)
  NoTry,
  Dev,      (* devices                                                      *)
  NoDev     (* the component is not mounted, or its device not reachable    *)

ASSUME NoTryFresh == NoTry \notin Try
ASSUME NoDevFresh == NoDev \notin Dev

VARIABLES
  link,      (* the socket: up, down and reconnecting, kicked by the backend *)
  shown,     (* the device of the effect that is not disposed, if any        *)
  pstatus,   (* the status the component shows                               *)
  sessionId, (* sessionIdRef                                                 *)
  try,       (* try[t]: the request t, and whether its effect is disposed    *)
  held,      (* sessions the backend has for the connection                  *)
  closing,   (* terminal:close on their way                                  *)
  exiting,   (* terminal:exit on their way                                   *)
  crossed    (* requests that overlapped, or timed out (history)             *)

sideVars == <<held, closing, exiting>>
paneVars == <<link, shown, pstatus, sessionId, try, sideVars, crossed>>

Pending == {t \in Try : try[t].at \in {"waiting", "sent", "opened", "refused"} /\ try[t].live}
Fresh   == {t \in Try : try[t].at = "idle"}

PaneTypeOK ==
  /\ link      \in {"down", "up", "kicked"}
  /\ shown     \in Dev \cup {NoDev}
  /\ pstatus   \in {"idle", "connecting", "open", "closed", "error"}
  /\ sessionId \in Try \cup {NoTry}
  /\ try       \in [Try -> [at : {"idle", "waiting", "sent", "opened", "refused", "late", "over"},
                            dev : Dev \cup {NoDev}, click : BOOLEAN, live : BOOLEAN]]
  /\ held \subseteq Try /\ closing \subseteq Try /\ exiting \subseteq Try /\ crossed \subseteq Try

PaneInit ==
  /\ link = "down" /\ shown = NoDev /\ pstatus = "idle" /\ sessionId = NoTry
  /\ try = [t \in Try |-> [at |-> "idle", dev |-> NoDev, click |-> FALSE, live |-> TRUE]]
  /\ held = {} /\ closing = {} /\ exiting = {} /\ crossed = {}

-----------------------------------------------------------------------------
(* The component.                                                          *)

(* Requests that were under way when another was made, and the new one.    *)
Crossing(pending, t) == IF pending = {} THEN {} ELSE pending \cup {t}

Asked(dev, click) ==
  [at |-> IF link = "up" THEN "sent" ELSE "waiting", dev |-> dev, click |-> click, live |-> TRUE]

(* The effect is cleaned up: its requests are disposed of and its session is
   closed; what the reconnect button has asked for is not.                 *)
Disposed == [t \in Try |-> [try[t] EXCEPT !.live = @ /\ try[t].click]]
Clicked  == {t \in Pending : try[t].click}
Teardown ==
  closing' = closing \cup {t \in Try : t = sessionId /\ link = "up" /\ shown # NoDev}

(* The page is left, or the device is not reachable any more.              *)
Hide ==
  /\ shown # NoDev
  /\ Teardown
  /\ shown' = NoDev /\ sessionId' = NoTry /\ pstatus' = "idle"
  /\ try' = Disposed /\ crossed' = crossed \cup Clicked
  /\ UNCHANGED <<link, held, exiting>>

(* The component gets a (or another) device: after the cleanup the new effect
   connects the socket and opens a session.                                *)
ShowDevice(d, t) ==
  /\ d # shown /\ t \in Fresh
  /\ Teardown
  /\ shown' = d /\ sessionId' = NoTry /\ pstatus' = "connecting"
  /\ link' = IF link = "up" THEN "up" ELSE "down"
  /\ try' = [Disposed EXCEPT ![t] = Asked(d, FALSE)]
  /\ crossed' = crossed \cup Clicked \cup Crossing(Clicked, t)
  /\ UNCHANGED <<held, exiting>>

(* The reconnect button: it neither closes the session there may be nor
   connects the socket, and nothing but an acknowledgement ends its wait.  *)
Reconnect(t) ==
  /\ shown # NoDev /\ pstatus \in {"closed", "error"} /\ t \in Fresh
  /\ try' = [try EXCEPT ![t] = Asked(shown, TRUE)]
  /\ sessionId' = NoTry /\ pstatus' = "connecting"
  /\ crossed' = crossed \cup Crossing(Pending, t) \cup ({sessionId} \cap Try)
  /\ UNCHANGED <<link, shown, sideVars>>

Heard(t) == try[t].live          (* its callback still changes the component *)
TryOver(t)  == try' = [try EXCEPT ![t].at = "over"]

(* A session whose effect is disposed of is left as it is.                 *)
AckKept(t) ==
  /\ try[t].at = "opened"
  /\ TryOver(t)
  /\ IF Heard(t) THEN sessionId' = t /\ pstatus' = "open" ELSE UNCHANGED <<sessionId, pstatus>>
  /\ UNCHANGED <<link, shown, sideVars, crossed>>

(* terminal:opened is acknowledged: the session is kept, or closed at once if
   its effect is disposed of.                                              *)
Acked(t) ==
  /\ try[t].at = "opened"
  /\ TryOver(t)
  /\ IF Heard(t) THEN sessionId' = t /\ pstatus' = "open" /\ UNCHANGED closing
                 ELSE closing' = closing \cup {t} /\ UNCHANGED <<sessionId, pstatus>>
  /\ UNCHANGED <<link, shown, held, exiting, crossed>>

(* An error is acknowledged; or 8 s have passed, and what is acknowledged
   later is dropped.                                                       *)
TryFails(t) ==
  /\ \/ try[t].at = "refused" /\ TryOver(t) /\ UNCHANGED crossed
     \/ /\ try[t].at \in {"sent", "opened", "refused"}
        /\ try' = [try EXCEPT ![t].at = IF @ = "sent" THEN "late" ELSE "over"]
        /\ crossed' = crossed \cup {t}
  /\ pstatus' = IF Heard(t) THEN "error" ELSE pstatus
  /\ UNCHANGED <<link, shown, sessionId, sideVars>>

(* terminal:exit of the session that is shown.                             *)
ExitArrives(t) ==
  /\ t \in exiting /\ try[t].at # "opened"
  /\ exiting' = exiting \ {t}
  /\ IF t = sessionId /\ shown # NoDev THEN sessionId' = NoTry /\ pstatus' = "closed"
                                       ELSE UNCHANGED <<sessionId, pstatus>>
  /\ UNCHANGED <<link, shown, try, held, closing, crossed>>

-----------------------------------------------------------------------------
(* The socket.                                                             *)

(* "connect": every request that waited for it is sent.                    *)
LinkUp ==
  /\ link = "down" /\ link' = "up"
  /\ try' = [t \in Try |-> IF try[t].at = "waiting" THEN [try[t] EXCEPT !.at = "sent"] ELSE try[t]]
  /\ UNCHANGED <<shown, pstatus, sessionId, sideVars, crossed>>

LinkFails ==
  /\ link = "down" /\ shown # NoDev
  /\ pstatus' = "error"
  /\ UNCHANGED <<link, shown, sessionId, try, sideVars, crossed>>

(* "disconnect", after which the client reconnects unless it was the backend
   that disconnected: with the connection go its sessions (handleDisconnect)
   and whatever was under way.                                             *)
LinkLost ==
  /\ link = "up" /\ link' \in {"down", "kicked"}
  /\ try' = [t \in Try |-> IF try[t].at \in {"sent", "opened", "refused", "late"}
                           THEN [try[t] EXCEPT !.at = "over"] ELSE try[t]]
  /\ held' = {} /\ closing' = {} /\ exiting' = {}
  /\ IF shown # NoDev THEN pstatus' = "error" /\ sessionId' = NoTry ELSE UNCHANGED <<pstatus, sessionId>>
  /\ UNCHANGED <<shown, crossed>>

-----------------------------------------------------------------------------
(* TerminalGateway, seen from the connection.                              *)

Serve(t) ==
  /\ try[t].at \in {"sent", "late"}
  /\ \/ held' = held \cup {t} /\ try' = [try EXCEPT ![t].at = IF @ = "sent" THEN "opened" ELSE "over"]
     \/ UNCHANGED held        /\ try' = [try EXCEPT ![t].at = IF @ = "sent" THEN "refused" ELSE "over"]
  /\ UNCHANGED <<link, shown, pstatus, sessionId, closing, exiting, crossed>>

(* terminal:close arrives, or the agent's side ends the session.           *)
SessionEnds(t) ==
  /\ t \in held
  /\ held' = held \ {t}
  /\ IF t \in closing THEN closing' = closing \ {t} /\ UNCHANGED exiting
                      ELSE exiting' = exiting \cup {t} /\ UNCHANGED closing
  /\ UNCHANGED <<link, shown, pstatus, sessionId, try, crossed>>

PaneNext ==
  \/ Hide \/ LinkUp \/ LinkFails \/ LinkLost
  \/ \E t \in Try : \/ \E d \in Dev : ShowDevice(d, t)
                    \/ Reconnect(t) \/ Acked(t) \/ TryFails(t) \/ ExitArrives(t)
                    \/ Serve(t) \/ SessionEnds(t)

PaneSpec == PaneInit /\ [][PaneNext]_paneVars

-----------------------------------------------------------------------------
(* Safety.                                                                 *)

(* No shell hangs: a session of the backend's is shown by the component, on
   the device it was opened for, or it is about to be taken up or closed -
   however connections come and go and devices change while it is opened.
   Not so if requests overlapped or timed out: then nobody may close it.   *)
SessionsAreHeld ==
  \A t \in held \ crossed :
    \/ t = sessionId /\ try[t].dev = shown
    \/ try[t].at = "opened"
    \/ t \in closing

-----------------------------------------------------------------------------
(* The inductive invariant: why sessions are held.                         *)

(* What was asked and what was opened is gone with the connection.         *)
OnTheLink ==
  held # {} \/ (\E t \in Try : try[t].at \in {"sent", "opened", "refused", "late"}) => link = "up"

(* A session is what a request was served with, and ends once.             *)
HeldWereServed ==
  /\ \A t \in held \cup exiting : try[t].at \in {"opened", "over"}
  /\ held \cap exiting = {}

(* A request names the device it was made for; one that timed out is known
   to have.                                                                *)
RequestsAreKnown ==
  \A t \in Try : /\ try[t].at # "idle" => try[t].dev \in Dev
                 /\ try[t].at = "late" => t \in crossed

(* A request whose answer will be shown replaces no session that counts, and
   if it overlapped no other it is for the device that is shown.           *)
PendingIsAlone ==
  \A t \in Pending :
    /\ sessionId \in crossed \cup {NoTry}
    /\ t \notin crossed => try[t].dev = shown /\ Pending = {t}

PaneInv ==
  /\ PaneTypeOK
  /\ OnTheLink
  /\ HeldWereServed
  /\ RequestsAreKnown
  /\ PendingIsAlone
  /\ SessionsAreHeld
=============================================================================
