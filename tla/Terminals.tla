------------------------------ MODULE Terminals ------------------------------
(***************************************************************************)
(* Remote shells: TerminalGateway (namespace /clients, terminal.gateway.ts)*)
(* between the browsers and AgentsGateway, and the shells themselves in    *)
(* the agent processes (cli/src/agent/terminal.ts).                        *)
(*                                                                         *)
(* Commands to an agent travel on its connections, in order; a shell's end *)
(* travels back and then, like the news that an agent has gone, over Redis *)
(* from one gateway of the backend to the other.  What a browser types and *)
(* what a shell prints is left out: it changes no state.                   *)
(***************************************************************************)
EXTENDS AgentsGateway

CONSTANTS
  Viewer,     (* browser connections to /clients; a reconnection is another *)
  Session,    (* terminal:open requests; each opens at most one session     *)
  ViewerOf,   (* the connection a request comes from                        *)
  TermApp     (* the device it names                                        *)

ASSUME ViewerOfType == ViewerOf \in [Session -> Viewer]
ASSUME TermAppType  == TermApp \in [Session -> App]

VARIABLES
  viewer,    (* viewer[v]: is the browser's connection up?                  *)
  open,      (* open[t]: progress of handleOpen, then the session's fate    *)
  starts,    (* starts[s]: terminal:start on their way to the agent of s    *)
  closes,    (* closes[s]: terminal:close on their way, each behind its start *)
  pty,       (* pty[a]: shells in the sessions Map of agent process a       *)
  dying,     (* dying[a]: shells a has killed that have not exited yet      *)
  outbox,    (* outbox[a]: terminal:exit in the send buffer of a's client   *)
  exits,     (* exits[s]: terminal:exit on their way to the backend         *)
  exitBus,   (* `term:<t>:exit` published in Redis and not delivered yet    *)
  offBus     (* connections whose `agent:<app>:offline` is not delivered yet *)

wireVars == <<starts, closes, exits>>
shellVars == <<pty, dying, outbox>>
busVars  == <<exitBus, offBus>>
termVars == <<viewer, open, wireVars, shellVars, busVars>>
allVars  == <<gwVars, termVars>>

TermTypeOK ==
  /\ TypeOK
  /\ viewer \in [Viewer -> BOOLEAN]
  /\ open   \in [Session -> {"idle", "seen", "error", "opened", "closed", "ended"}]
  /\ starts \in [Socket -> SUBSET Session]
  /\ closes \in [Socket -> SUBSET Session]
  /\ exits  \in [Socket -> SUBSET Session]
  /\ pty    \in [Agent -> SUBSET Session]
  /\ dying  \in [Agent -> SUBSET Session]
  /\ outbox \in [Agent -> SUBSET Session]
  /\ exitBus \subseteq Session
  /\ offBus  \subseteq Socket

(* The Map sessions; sessionsByApp is the same set, by appId.              *)
sessions == {t \in Session : open[t] = "opened"}

TermInit ==
  /\ Init
  /\ viewer = [v \in Viewer |-> TRUE]
  /\ open   = [t \in Session |-> "idle"]
  /\ starts = [s \in Socket |-> {}]
  /\ closes = [s \in Socket |-> {}]
  /\ exits  = [s \in Socket |-> {}]
  /\ pty    = [a \in Agent |-> {}]
  /\ dying  = [a \in Agent |-> {}]
  /\ outbox = [a \in Agent |-> {}]
  /\ exitBus = {}
  /\ offBus  = {}

-----------------------------------------------------------------------------
(* TerminalGateway, asked by a browser.                                    *)

(* handleOpen up to its await: findOneForUser reads the row; no device, a
   device not shown online or a failed query is answered with an error.    *)
OpenFind(t) ==
  /\ open[t] = "idle" /\ viewer[ViewerOf[t]]
  /\ \/ ShownOnline(TermApp[t]) /\ open' = [open EXCEPT ![t] = "seen"]
     \/ /\ ~ShownOnline(TermApp[t]) \/ "db" \in Faults
        /\ open' = [open EXCEPT ![t] = "error"]
  /\ UNCHANGED <<gwVars, viewer, wireVars, shellVars, busVars>>

(* openTerminal, closeTerminal: an emit to the sockets of the app's room.  *)
Emit(wire, T) == [s \in Socket |-> wire[s] \cup {t \in T : s \in rooms[TermApp[t]]}]

(* The session is made before the device is looked for.                    *)
OpenStartUnchecked(t) ==
  /\ open[t] = "seen"
  /\ open' = [open EXCEPT ![t] = "opened"]
  /\ starts' = Emit(starts, {t})
  /\ UNCHANGED <<gwVars, viewer, closes, exits, shellVars, busVars>>

(* A browser that asks again is given the same session, started again.     *)
OpenStartAgain(t) ==
  /\ open[t] \in {"seen", "opened"} /\ isAppConnected(TermApp[t])
  /\ open' = [open EXCEPT ![t] = "opened"]
  /\ starts' = Emit(starts, {t})
  /\ UNCHANGED <<gwVars, viewer, closes, exits, shellVars, busVars>>

(* ... after the await: the room is asked for, the session entered in both
   maps and terminal:start emitted, in one go.  Nobody asks whether the
   browser is still there.                                                 *)
OpenStart(t) ==
  /\ open[t] = "seen"
  /\ \/ /\ isAppConnected(TermApp[t])
        /\ open' = [open EXCEPT ![t] = "opened"]
        /\ starts' = Emit(starts, {t})
     \/ /\ ~isAppConnected(TermApp[t])
        /\ open' = [open EXCEPT ![t] = "error"]
        /\ UNCHANGED starts
  /\ UNCHANGED <<gwVars, viewer, closes, exits, shellVars, busVars>>

(* The session is forgotten and the agent not told.                        *)
CloseSilently(T) ==
  /\ open' = [t \in Session |-> IF t \in T THEN "closed" ELSE open[t]]
  /\ UNCHANGED <<closes, gwVars, starts, exits, shellVars, busVars>>

(* closeTerminal and dropSession, for sessions their browser is done with. *)
CloseSessions(T) ==
  /\ open' = [t \in Session |-> IF t \in T THEN "closed" ELSE open[t]]
  /\ closes' = Emit(closes, T)
  /\ UNCHANGED <<gwVars, starts, exits, shellVars, busVars>>

(* handleClose: only from the connection that opened the session.          *)
CloseOne(t) ==
  /\ t \in sessions /\ viewer[ViewerOf[t]]
  /\ CloseSessions({t})
  /\ UNCHANGED viewer

(* handleDisconnect: every session of the connection is closed.            *)
Leave(v) ==
  /\ viewer[v]
  /\ viewer' = [viewer EXCEPT ![v] = FALSE]
  /\ CloseSessions({t \in sessions : ViewerOf[t] = v})

-----------------------------------------------------------------------------
(* TerminalGateway, told by Redis: terminal:exit to the browser, dropSession. *)

(* terminal:exit to its browser, and dropSession, for those still in the Map. *)
EndSessions(T) == open' = [t \in Session |-> IF t \in T \cap sessions THEN "ended" ELSE open[t]]

DeliverExit(t) ==
  /\ t \in exitBus
  /\ exitBus' = exitBus \ {t}
  /\ EndSessions({t})
  /\ UNCHANGED <<gwVars, viewer, wireVars, shellVars, offBus>>

(* The message reaches a gateway that kept no sessions by app.             *)
DeliverOfflineToNone(s) ==
  /\ s \in offBus
  /\ offBus' = offBus \ {s}
  /\ UNCHANGED <<open, gwVars, viewer, wireVars, shellVars, exitBus>>

(* `agent:<app>:offline` ends all sessions of the app there are by now.    *)
DeliverOffline(s) ==
  /\ s \in offBus
  /\ offBus' = offBus \ {s}
  /\ EndSessions({t \in Session : TermApp[t] = appOf(s)})
  /\ UNCHANGED <<gwVars, viewer, wireVars, shellVars, exitBus>>

-----------------------------------------------------------------------------
(* The agent process: registerTerminalHandlers.                            *)

(* terminal:start: a shell is spawned and entered in the Map.              *)
ReceiveStart(s, t) ==
  /\ cl[s] = "up" /\ t \in starts[s]
  /\ starts' = [starts EXCEPT ![s] = @ \ {t}]
  /\ pty'    = [pty EXCEPT ![owner[s]] = @ \cup {t}]
  /\ UNCHANGED <<gwVars, viewer, open, closes, exits, dying, outbox, busVars>>

(* The close overtakes the start it belongs to.                            *)
ReceiveCloseOvertaking(s, t) ==
  /\ cl[s] = "up" /\ t \in closes[s]
  /\ closes' = [closes EXCEPT ![s] = @ \ {t}]
  /\ pty'    = [pty EXCEPT ![owner[s]] = @ \ {t}]
  /\ dying'  = [dying EXCEPT ![owner[s]] = @ \cup ({t} \cap pty[owner[s]])]
  /\ UNCHANGED <<gwVars, viewer, open, starts, exits, outbox, busVars>>

(* terminal:close: a shell that is in the Map is killed and taken out.     *)
ReceiveClose(s, t) ==
  /\ cl[s] = "up" /\ t \in closes[s] /\ t \notin starts[s]
  /\ closes' = [closes EXCEPT ![s] = @ \ {t}]
  /\ pty'    = [pty EXCEPT ![owner[s]] = @ \ {t}]
  /\ dying'  = [dying EXCEPT ![owner[s]] = @ \cup ({t} \cap pty[owner[s]])]
  /\ UNCHANGED <<gwVars, viewer, open, starts, exits, outbox, busVars>>

(* A shell exits, by itself or killed; onExit emits terminal:exit, which is
   buffered while the client is disconnected (and lost if only the backend
   knows it is).                                                           *)
ShellExits(a, t) ==
  /\ t \in pty[a] \cup dying[a]
  /\ pty'   = [pty EXCEPT ![a] = @ \ {t}]
  /\ dying' = [dying EXCEPT ![a] = @ \ {t}]
  /\ outbox' = [outbox EXCEPT ![a] = IF Connected(a) THEN @ ELSE @ \cup {t}]
  /\ exits' = [s \in Socket |->
                 IF owner[s] = a /\ cl[s] = "up" /\ sv[s] = "up"
                 THEN exits[s] \cup {t} ELSE exits[s]]
  /\ UNCHANGED <<gwVars, viewer, open, starts, closes, busVars>>

(* handleTerminalExit of AgentsGateway: it is published, unexamined.       *)
ReceiveExit(s, t) ==
  /\ sv[s] = "up" /\ t \in exits[s]
  /\ exits'   = [exits EXCEPT ![s] = @ \ {t}]
  /\ exitBus' = exitBus \cup {t}
  /\ UNCHANGED <<gwVars, viewer, open, starts, closes, shellVars, offBus>>

-----------------------------------------------------------------------------
(* What a step of the presence protocol does to messages and shells.       *)

Disconnects(a) == Connected(a) /\ ~Connected(a)'

(* A closed end receives nothing more; a connection that opens carries what
   the agent's client had buffered.                                        *)
WireFollows ==
  /\ starts' = [s \in Socket |-> IF cl'[s] = "up" THEN starts[s] ELSE {}]
  /\ closes' = [s \in Socket |-> IF cl'[s] = "up" THEN closes[s] ELSE {}]
  /\ exits'  = [s \in Socket |->
       IF sv'[s] = "down" THEN {}
       ELSE IF sv[s] = "down" THEN outbox[owner'[s]] ELSE exits[s]]
  /\ outbox' = [a \in Agent |->
       IF proc'[a] = "off" \/ (Connected(a)' /\ ~Connected(a)) THEN {} ELSE outbox[a]]

(* The agent forgets to clean up when its connection goes.                 *)
ShellsStay ==
  /\ pty' = [a \in Agent |-> IF proc'[a] = "off" THEN {} ELSE pty[a]]
  /\ dying' = [a \in Agent |-> IF proc'[a] = "off" THEN {} ELSE dying[a]]

(* On 'disconnect' the agent's cleanup kills all its shells; those of a
   process that exits go with it.                                          *)
ShellsFollow ==
  /\ pty' = [a \in Agent |->
       IF proc'[a] = "off" \/ Disconnects(a) THEN {} ELSE pty[a]]
  /\ dying' = [a \in Agent |->
       IF proc'[a] = "off" THEN {}
       ELSE IF Disconnects(a) THEN dying[a] \cup pty[a] ELSE dying[a]]

(* What DiscPublish publishes is delivered later.  Until then the slot of the
   old connection is not used for another.                                 *)
PresenceStep ==
  /\ Step /\ WireFollows /\ ShellsFollow
  /\ offBus' = offBus \cup {s \in Socket : disc[s] = "publish" /\ disc'[s] = "none"}
  /\ \A s \in offBus : cl'[s] = "up" => cl[s] = "up"
  /\ UNCHANGED <<viewer, open, exitBus>>

(* With the backend go the sessions, the requests, the browsers' connections
   and whatever Redis had not delivered.                                   *)
BackendDeath ==
  /\ Death /\ WireFollows /\ ShellsFollow
  /\ viewer' = [v \in Viewer |-> FALSE]
  /\ open' = [t \in Session |->
       CASE open[t] = "opened" -> "ended" [] open[t] = "seen" -> "error" [] OTHER -> open[t]]
  /\ exitBus' = {} /\ offBus' = {}

TermStep ==
  \/ \E t \in Session : OpenFind(t) \/ OpenStart(t) \/ CloseOne(t) \/ DeliverExit(t)
  \/ \E v \in Viewer : Leave(v)
  \/ \E s \in Socket : DeliverOffline(s)
  \/ \E s \in Socket, t \in Session : ReceiveStart(s, t) \/ ReceiveClose(s, t) \/ ReceiveExit(s, t)
  \/ \E a \in Agent, t \in Session : ShellExits(a, t)

TermNext == PresenceStep \/ BackendDeath \/ TermStep

TermSpec == TermInit /\ [][TermNext]_allVars

(* Handlers are resumed, messages arrive unless the connection is cut, a
   killed shell exits.  Nobody has to open, to leave or to type "exit".    *)
TermFairness ==
  /\ \A app \in App : WF_allVars(PresenceStep /\ Elapse(app))
  /\ \A a \in Agent : WF_allVars(PresenceStep /\ \E s \in Socket : Connect(a, s))
  /\ \A s \in Socket :
       /\ WF_allVars(sv[s] = "down" /\ (ClientDrop(s) \/ ClientKicked(s)) /\ PresenceStep)
       /\ WF_allVars(cl[s] = "down" /\ ServerDrop(s) /\ PresenceStep)
       /\ WF_allVars((RegAuth(s) \/ RegMark(s) \/ RegJoin(s)) /\ PresenceStep)
       /\ WF_allVars((DiscWrite(s) \/ DiscPublish(s)) /\ PresenceStep)
       /\ WF_allVars(DeliverOffline(s))
       /\ \A t \in Session :
            /\ WF_allVars(ReceiveStart(s, t)) /\ WF_allVars(ReceiveClose(s, t))
            /\ WF_allVars(ReceiveExit(s, t))
  /\ \A t \in Session :
       /\ WF_allVars(OpenStart(t)) /\ WF_allVars(DeliverExit(t))
       /\ \A a \in Agent : WF_allVars(t \in dying[a] /\ ShellExits(a, t))

FairTermSpec == TermSpec /\ TermFairness

-----------------------------------------------------------------------------
(* Safety.                                                                 *)

(* A shell in the agent's Map is one a browser can talk to and close: it is
   there only while the agent is connected, never left from before.        *)
ShellsNeedConnection == \A a \in Agent : pty[a] # {} => Connected(a)

(* Shells run only on the device their session was opened for.             *)
OnlyOnItsDevice ==
  /\ \A s \in Socket : \A t \in starts[s] : owner[s] \in Agent /\ appOf(s) = TermApp[t]
  /\ \A a \in Agent : \A t \in pty[a] \cup dying[a] : AppOf[a] = TermApp[t]

(* The connection still works, as far as either end can tell.              *)
BothUp(s) == cl[s] = "up" /\ sv[s] = "up"

(* A shell of the session runs, or is asked for, at that end of s.         *)
ShellAt(t, s) == t \in starts[s] \/ \E a \in Agent : owner[s] = a /\ t \in pty[a]

(* When a browser is done with a session no shell of it gets away: wherever
   one runs or is about to, the close is behind it on the same connection,
   unless that connection is closing and takes the shell with it.          *)
CloseFollowsShell ==
  \A t \in Session, s \in Socket :
    open[t] = "closed" /\ ShellAt(t, s) /\ BothUp(s) => t \in closes[s]

(* From these too an open session will be ended by the agent's side: the
   report of the shell's end, or the news of a departure.                  *)
Ending(t, s) ==
  \/ t \in exits[s] \/ disc[s] # "none" \/ s \in offBus
  \/ sv[s] = "up" /\ cl[s] = "down"

(* No session is left without a shell and without anything under way that
   will end it: its browser is never shown a terminal that is dead for good. *)
SessionIsAccountedFor ==
  \A t \in sessions :
    \/ t \in exitBus
    \/ \E s \in AppSockets(TermApp[t]) : ShellAt(t, s) \/ Ending(t, s)

(* No agent is asked for a shell it has, or has killed and not yet seen exit:
   sessions.set would replace the first one, which nobody could close or kill
   any more, and its exit take the second one out of the Map.              *)
NoShellIsReplaced ==
  \A s \in Socket : \A t \in starts[s] : cl[s] = "up" => t \notin pty[owner[s]] \cup dying[owner[s]]

-----------------------------------------------------------------------------
(* The inductive invariant: why shells run where they should and are closed. *)

(* Commands are only on a connection that one of its ends holds open.      *)
WireHasEnds ==
  \A s \in Socket : starts[s] # {} => cl[s] = "up" \/ sv[s] = "up"

(* As long as the connection works, what reaches the room reaches the shell. *)
ShellsAreInRoom ==
  \A t \in Session, s \in Socket : ShellAt(t, s) /\ BothUp(s) => s \in rooms[TermApp[t]]

ShellsInv ==
  /\ GatewayInv
  /\ TermTypeOK
  /\ WireHasEnds
  /\ ShellsNeedConnection
  /\ OnlyOnItsDevice
  /\ ShellsAreInRoom
  /\ CloseFollowsShell

(* An agent is told to close only sessions a browser is done with.         *)
ClosesAreOfClosed == \A s \in Socket : \A t \in closes[s] : open[t] = "closed"

(* The backend will hear of the session's end on s: of its shell's, or of
   the connection's, which the agent has given up already.                 *)
Heard(t, s) ==
  /\ s \in rooms[TermApp[t]]
  /\ ShellAt(t, s) \/ t \in exits[s] \/ cl[s] = "down"

(* Why open sessions are accounted for: a connection that was in the room
   when the session opened is still there, or its departure is under way.  *)
SessionHasAnEnd ==
  \A t \in sessions :
    \/ t \in exitBus
    \/ \E s \in AppSockets(TermApp[t]) : Heard(t, s) \/ disc[s] # "none" \/ s \in offBus

SessionsInv == ShellsInv /\ ClosesAreOfClosed /\ SessionHasAnEnd

(* Before a session is open, and if it never will be, no agent knows of it. *)
UnopenedIsNowhere ==
  \A t \in Session : open[t] \in {"idle", "seen", "error"} =>
    /\ \A s \in Socket : t \notin starts[s]
    /\ \A a \in Agent : t \notin pty[a] \cup dying[a]

TermInv == SessionsInv /\ UnopenedIsNowhere /\ NoShellIsReplaced

-----------------------------------------------------------------------------
(* Liveness, under FairTermSpec.                                           *)

(* A closed session's shells end for good, on every agent that had one.    *)
ClosedShellsDie ==
  \A t \in Session : open[t] = "closed" ~> [](\A a \in Agent : t \notin pty[a] \cup dying[a])

(* A session whose shell is gone everywhere is ended for its browser too.  *)
DeadSessionsEnd ==
  \A t \in Session :
    t \in sessions /\ (\A s \in Socket : ~ShellAt(t, s)) ~> t \notin sessions

(* frontend Terminal.jsx closes a session that opens after its pane has gone,
   "otherwise a 'hanging' pty process remains on the agent": once the browser
   has gone, no shell of its sessions remains.  Refuted: handleOpen does not
   look, after its await, whether its browser is still connected.          *)
NoHangingPty ==
  \A t \in Session : ~viewer[ViewerOf[t]] ~> [](\A a \in Agent : t \notin pty[a])
=============================================================================
