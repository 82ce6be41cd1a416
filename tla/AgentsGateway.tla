--------------------------- MODULE AgentsGateway ---------------------------
(***************************************************************************)
(* Presence of the agents: the Socket.IO namespace /agents of the backend  *)
(* (agents.gateway.ts), the apps rows its handlers update                  *)
(* (apps.service.ts, apps.repository.ts), and the agent processes that     *)
(* connect to it (cli/src/agent/run.ts).                                   *)
(*                                                                         *)
(* A handler is cut where the code awaits: between two awaits it runs      *)
(* without interruption, and each awaited query executes at some moment of *)
(* its own (the pool hands the queries of concurrent handlers to different *)
(* connections, so they execute in any order).                             *)
(*                                                                         *)
(* A connection has two ends that learn of its end at different times:     *)
(* cl[s] is what the agent's Socket.IO client believes, sv[s] what the     *)
(* backend believes.  A socket is a slot: once nothing remembers an old    *)
(* connection its slot may stand for a new one (with a new socket.id).     *)
(***************************************************************************)
EXTENDS Naturals, FiniteSets

CONSTANTS
  App,      (* devices: rows of table apps                                 *)
  Agent,    (* agent processes ("screenctl agent start"), on any machine   *)
  Socket,   (* connections that can be remembered at once                  *)
  AppOf,    (* the --app-id an agent process is started with               *)
  NoAgent,  (* the owner of a slot never used                              *)
  NoApp,    (* what Map.get returns for a socket that is not in the map    *)
  Faults    (* which faults of the environment are admitted                *)

(* "register" is the part of "db" that fails queries of a registration.     *)
FaultKind == {"db", "register", "net", "crash", "restart", "rotate", "remove"}

ASSUME AppOfType     == AppOf \in [Agent -> App]
ASSUME NoAgentFresh  == NoAgent \notin Agent
ASSUME NoAppFresh    == NoApp \notin App
ASSUME FaultsType    == Faults \subseteq FaultKind

VARIABLES
  row,        (* row[app]: apps.status, or "removed" once the row is deleted *)
  fresh,      (* fresh[app]: last_seen_at is less than STALE_AFTER_MS old    *)
  proc,       (* proc[a]: the agent process; "halted" runs but never retries *)
  valid,      (* valid[a]: the token a holds is the one the row has the hash of *)
  owner,      (* owner[s]: the agent process that opened connection s        *)
  cl,         (* cl[s]: is the connection up for the agent?                  *)
  sv,         (* sv[s]: is the connection up for the backend?                *)
  kick,       (* kick[s]: a server disconnect packet is on its way           *)
  reg,        (* reg[s]: progress of 'register' on s                         *)
  acked,      (* acked[s]: the handler has acknowledged 'registered'         *)
  connectedAgents,  (* the gateway's Map socket.id -> appId                  *)
  rooms,      (* rooms[app]: sockets in Socket.IO room `app:<id>`            *)
  hbWrite,    (* hbWrite[s]: a heartbeat handler of s awaits its UPDATE      *)
  disc        (* disc[s]: progress of handleDisconnect for s                 *)

rowVars   == <<row, fresh>>
agentVars == <<proc, valid>>
connVars  == <<owner, cl, sv, kick>>
regVars   == <<reg, acked>>
gateVars  == <<connectedAgents, rooms>>
awaitVars == <<hbWrite, disc>>
gwVars    == <<row, fresh, proc, valid, owner, cl, sv, kick, reg, acked,
               connectedAgents, rooms, hbWrite, disc>>

TypeOK ==
  /\ row   \in [App -> {"removed", "offline", "online"}]
  /\ fresh \in [App -> BOOLEAN]
  /\ proc  \in [Agent -> {"off", "running", "halted"}]
  /\ valid \in [Agent -> BOOLEAN]
  /\ owner \in [Socket -> Agent \cup {NoAgent}]
  /\ cl    \in [Socket -> {"up", "down"}]
  /\ sv    \in [Socket -> {"up", "down"}]
  /\ kick  \in [Socket -> BOOLEAN]
  /\ reg   \in [Socket -> {"none", "sent", "mark", "join"}]
  /\ acked \in [Socket -> BOOLEAN]
  /\ connectedAgents \in [Socket -> App \cup {NoApp}]
  /\ rooms \in [App -> SUBSET Socket]
  /\ hbWrite \in [Socket -> BOOLEAN]
  /\ disc  \in [Socket -> {"none", "write", "publish"}]

(* The app a connection speaks for: the payload.appId its agent registers. *)
appOf(s) == AppOf[owner[s]]

AppSockets(app) == {s \in Socket : owner[s] \in Agent /\ appOf(s) = app}

(* Nothing remembers the connection any more: the slot may be reused.      *)
Unused(s) ==
  /\ cl[s] = "down" /\ sv[s] = "down"
  /\ reg[s] = "none" /\ ~hbWrite[s] /\ disc[s] = "none"
  /\ connectedAgents[s] = NoApp

Connected(a) == \E s \in Socket : owner[s] = a /\ cl[s] = "up"

(* AgentsGateway.isAppConnected *)
isAppConnected(app) == rooms[app] # {}

(* withComputedStatus: the status every reader of an app row is shown.     *)
ShownOnlineAsStored(app) == row[app] = "online"
ShownOnline(app) == row[app] = "online" /\ fresh[app]

Init ==
  /\ row   = [app \in App |-> "offline"]
  /\ fresh = [app \in App |-> FALSE]
  /\ proc  = [a \in Agent |-> "off"]
  /\ valid = [a \in Agent |-> FALSE]
  /\ owner = [s \in Socket |-> NoAgent]
  /\ cl    = [s \in Socket |-> "down"]
  /\ sv    = [s \in Socket |-> "down"]
  /\ kick  = [s \in Socket |-> FALSE]
  /\ reg   = [s \in Socket |-> "none"]
  /\ acked = [s \in Socket |-> FALSE]
  /\ connectedAgents = [s \in Socket |-> NoApp]
  /\ rooms = [app \in App |-> {}]
  /\ hbWrite = [s \in Socket |-> FALSE]
  /\ disc  = [s \in Socket |-> "none"]

-----------------------------------------------------------------------------
(* The rows.  An UPDATE ... WHERE id = $1 of a deleted row changes nothing.
   A query that fails for its caller (fault "db") may have executed, when
   only its answer was lost.                                               *)

SetStatus(app, status) ==
  row' = [row EXCEPT ![app] = IF @ = "removed" THEN @ ELSE status]

Touch(app) == fresh' = [fresh EXCEPT ![app] = row[app] # "removed"]

(* AppsRepository.markOnline and .heartbeat: status and last_seen_at.      *)
WriteOnline(app) == SetStatus(app, "online") /\ Touch(app)

(* A heartbeat that only refreshed last_seen_at and the metrics.           *)
WriteHeartbeatLastSeenOnly(app) == Touch(app) /\ UNCHANGED row
WriteHeartbeat(app) == WriteOnline(app)

(* AppsRepository.markOffline leaves last_seen_at alone.                   *)
WriteOffline(app) == SetStatus(app, "offline") /\ UNCHANGED fresh

(* More than STALE_AFTER_MS passes without a write of last_seen_at.        *)
Elapse(app) ==
  /\ fresh[app]
  /\ fresh' = [fresh EXCEPT ![app] = FALSE]
  /\ UNCHANGED <<row, agentVars, connVars, regVars, gateVars, awaitVars>>

(* AppsService.create for a machine that already has an app: a new token.
   The sockets registered with the old one stay connected.                 *)
RotateToken(app) ==
  /\ "rotate" \in Faults
  /\ row[app] # "removed"
  /\ valid' = [a \in Agent |-> valid[a] /\ AppOf[a] # app]
  /\ UNCHANGED <<rowVars, proc, connVars, regVars, gateVars, awaitVars>>

(* AppsService.remove: DELETE FROM apps; no socket is closed.              *)
Remove(app) ==
  /\ "remove" \in Faults
  /\ row[app] # "removed"
  /\ row'   = [row EXCEPT ![app] = "removed"]
  /\ fresh' = [fresh EXCEPT ![app] = FALSE]
  /\ valid' = [a \in Agent |-> valid[a] /\ AppOf[a] # app]
  /\ UNCHANGED <<proc, connVars, regVars, gateVars, awaitVars>>

-----------------------------------------------------------------------------
(* The agent process and its end of a connection.                          *)

(* runAgent, with whatever token agents.json or --token gives it.          *)
Start(a) ==
  /\ proc[a] = "off"
  /\ proc'  = [proc EXCEPT ![a] = "running"]
  /\ \E ok \in BOOLEAN :
       /\ ok => row[AppOf[a]] # "removed"
       /\ valid' = [valid EXCEPT ![a] = ok]
  /\ UNCHANGED <<rowVars, connVars, regVars, gateVars, awaitVars>>

(* The process ends (SIGTERM, kill -9): its connections go with it.        *)
Exit(a) ==
  /\ "crash" \in Faults
  /\ proc[a] # "off"
  /\ proc' = [proc EXCEPT ![a] = "off"]
  /\ cl'   = [s \in Socket |-> IF owner[s] = a THEN "down" ELSE cl[s]]
  /\ kick' = [s \in Socket |-> kick[s] /\ owner[s] # a]
  /\ UNCHANGED <<rowVars, valid, owner, sv, regVars, gateVars, awaitVars>>

(* A client that opens a second connection beside its first.               *)
ConnectBeside(a, s) ==
  /\ proc[a] = "running"
  /\ Unused(s)
  /\ owner' = [owner EXCEPT ![s] = a]
  /\ cl'    = [cl EXCEPT ![s] = "up"]
  /\ sv'    = [sv EXCEPT ![s] = "up"]
  /\ kick'  = [kick EXCEPT ![s] = FALSE]
  /\ reg'   = [reg EXCEPT ![s] = "sent"]
  /\ acked' = [acked EXCEPT ![s] = FALSE]
  /\ UNCHANGED <<rowVars, agentVars, gateVars, awaitVars>>

(* The client (re)connects; its 'connect' handler emits 'register' at once. *)
Connect(a, s) ==
  /\ proc[a] = "running"
  /\ ~Connected(a)
  /\ Unused(s)
  /\ owner' = [owner EXCEPT ![s] = a]
  /\ cl'    = [cl EXCEPT ![s] = "up"]
  /\ sv'    = [sv EXCEPT ![s] = "up"]
  /\ kick'  = [kick EXCEPT ![s] = FALSE]
  /\ reg'   = [reg EXCEPT ![s] = "sent"]
  /\ acked' = [acked EXCEPT ![s] = FALSE]
  /\ UNCHANGED <<rowVars, agentVars, gateVars, awaitVars>>

(* The client notices a lost transport; it will reconnect by itself.  The
   network may fail at any time, a closed server end is noticed surely.    *)
ClientDrop(s) ==
  /\ cl[s] = "up"
  /\ "net" \in Faults \/ sv[s] = "down"
  /\ cl'   = [cl EXCEPT ![s] = "down"]
  /\ kick' = [kick EXCEPT ![s] = FALSE]
  /\ UNCHANGED <<rowVars, agentVars, owner, sv, regVars, gateVars, awaitVars>>

(* The client receives the disconnect packet of client.disconnect(true):
   reason "io server disconnect", for which Socket.IO never reconnects.    *)
ClientKicked(s) ==
  /\ cl[s] = "up"
  /\ kick[s]
  /\ cl'   = [cl EXCEPT ![s] = "down"]
  /\ kick' = [kick EXCEPT ![s] = FALSE]
  /\ proc' = [proc EXCEPT ![owner[s]] = "halted"]
  /\ UNCHANGED <<rowVars, valid, owner, sv, regVars, gateVars, awaitVars>>

-----------------------------------------------------------------------------
(* The backend's end of a connection.                                      *)

(* The closed socket stays in its room.                                    *)
CloseKeepingRoom(s) ==
  /\ sv' = [sv EXCEPT ![s] = "down"]
  /\ connectedAgents' = [connectedAgents EXCEPT ![s] = NoApp]
  /\ disc' = [disc EXCEPT ![s] = IF connectedAgents[s] # NoApp THEN "write" ELSE @]
  /\ UNCHANGED rooms

(* The closed socket is forgotten without markOffline.                     *)
CloseWithoutMarkOffline(s) ==
  /\ sv' = [sv EXCEPT ![s] = "down"]
  /\ rooms' = [app \in App |-> rooms[app] \ {s}]
  /\ connectedAgents' = [connectedAgents EXCEPT ![s] = NoApp]
  /\ UNCHANGED disc

(* Socket.IO closes the server socket: it leaves its rooms, then handle-
   Disconnect runs up to its first await: the map entry is deleted, and if
   there was one markOffline is called.                                    *)
Close(s) ==
  /\ sv' = [sv EXCEPT ![s] = "down"]
  /\ rooms' = [app \in App |-> rooms[app] \ {s}]
  /\ connectedAgents' = [connectedAgents EXCEPT ![s] = NoApp]
  /\ disc' = [disc EXCEPT ![s] = IF connectedAgents[s] # NoApp THEN "write" ELSE @]

(* The backend notices the end of the connection (transport close or ping
   timeout).  A message not yet handled is lost; running handlers go on.   *)
ServerDrop(s) ==
  /\ sv[s] = "up"
  /\ "net" \in Faults \/ cl[s] = "down"
  /\ Close(s)
  /\ reg' = [reg EXCEPT ![s] = IF @ = "sent" THEN "none" ELSE @]
  /\ UNCHANGED <<rowVars, agentVars, owner, cl, kick, acked, hbWrite>>

(* The error is acknowledged but the socket is left open.                  *)
RefuseAndKeep(s) ==
  /\ reg' = [reg EXCEPT ![s] = "none"]
  /\ UNCHANGED <<sv, kick, gateVars, disc>>

(* The catch block of handleRegister: ack the error, client.disconnect(true)
   (which does nothing when the socket is already closed).                 *)
Refuse(s) ==
  /\ reg' = [reg EXCEPT ![s] = "none"]
  /\ \/ /\ sv[s] = "up"
        /\ Close(s)
        /\ kick' = [kick EXCEPT ![s] = cl[s] = "up"]
     \/ /\ sv[s] = "down"
        /\ UNCHANGED <<sv, kick, gateVars, disc>>

RegMayFail == Faults \cap {"db", "register"} # {}

(* 'register' is handled: authenticateAgent reads the row and compares the
   token; a wrong token, a missing row or a failed query refuses.          *)
RegAuth(s) ==
  /\ reg[s] = "sent"
  /\ \/ /\ valid[owner[s]]
        /\ reg' = [reg EXCEPT ![s] = "mark"]
        /\ UNCHANGED <<sv, kick, gateVars, disc>>
     \/ /\ ~valid[owner[s]] \/ RegMayFail
        /\ Refuse(s)
  /\ UNCHANGED <<rowVars, agentVars, owner, cl, acked, hbWrite>>

(* The UPDATE of markOnline executes, or fails and the agent is refused.   *)
RegMark(s) ==
  /\ reg[s] = "mark"
  /\ \/ /\ WriteOnline(appOf(s))
        /\ reg' = [reg EXCEPT ![s] = "join"]
        /\ UNCHANGED <<sv, kick, gateVars, disc>>
     \/ /\ RegMayFail
        /\ WriteOnline(appOf(s)) \/ UNCHANGED rowVars
        /\ Refuse(s)
  /\ UNCHANGED <<agentVars, owner, cl, acked, hbWrite>>

(* The agent is acknowledged and entered in the map, but joins no room.    *)
RegJoinNoRoom(s) ==
  /\ reg[s] = "join"
  /\ reg' = [reg EXCEPT ![s] = "none"]
  /\ acked' = [acked EXCEPT ![s] = TRUE]
  /\ connectedAgents' = [connectedAgents EXCEPT ![s] = appOf(s)]
  /\ UNCHANGED <<rooms, rowVars, agentVars, connVars, awaitVars>>

(* After the await: the map entry, client.join and the ack, in one go.  On a
   closed socket join does nothing, but the map entry is made all the same. *)
RegJoin(s) ==
  /\ reg[s] = "join"
  /\ reg' = [reg EXCEPT ![s] = "none"]
  /\ acked' = [acked EXCEPT ![s] = TRUE]
  /\ connectedAgents' = [connectedAgents EXCEPT ![s] = appOf(s)]
  /\ rooms' = [rooms EXCEPT ![appOf(s)] = IF sv[s] = "up" THEN @ \cup {s} ELSE @]
  /\ UNCHANGED <<rowVars, agentVars, connVars, awaitVars>>

(* The agent's interval sends 'heartbeat'; its handler finds the socket in
   the map and issues the UPDATE (else it answers an error and does nothing). *)
Heartbeat(s) ==
  /\ cl[s] = "up" /\ sv[s] = "up"
  /\ connectedAgents[s] # NoApp
  /\ ~hbWrite[s]
  /\ hbWrite' = [hbWrite EXCEPT ![s] = TRUE]
  /\ UNCHANGED <<rowVars, agentVars, connVars, regVars, gateVars, disc>>

(* The heartbeat's UPDATE executes, or fails.                              *)
HbWrite(s) ==
  /\ hbWrite[s]
  /\ hbWrite' = [hbWrite EXCEPT ![s] = FALSE]
  /\ \/ WriteHeartbeat(appOf(s))
     \/ "db" \in Faults /\ UNCHANGED rowVars
  /\ UNCHANGED <<agentVars, connVars, regVars, gateVars, disc>>

(* handleDisconnect: the UPDATE of markOffline executes.                   *)
DiscWrite(s) ==
  /\ disc[s] = "write"
  /\ WriteOffline(appOf(s))
  /\ disc' = [disc EXCEPT ![s] = "publish"]
  /\ UNCHANGED <<agentVars, connVars, regVars, gateVars, hbWrite>>

(* ... and publishes `agent:<app>:offline`, on which TerminalGateway drops
   every terminal session of the app.                                      *)
DiscPublish(s) ==
  /\ disc[s] = "publish"
  /\ disc' = [disc EXCEPT ![s] = "none"]
  /\ UNCHANGED <<rowVars, agentVars, connVars, regVars, gateVars, hbWrite>>

(* The backend process dies and systemd starts it again: its memory is lost,
   the rows stay as they are, no start-up code touches them.               *)
LoseMemory ==
  /\ sv'    = [s \in Socket |-> "down"]
  /\ reg'   = [s \in Socket |-> "none"]
  /\ connectedAgents' = [s \in Socket |-> NoApp]
  /\ rooms' = [app \in App |-> {}]
  /\ hbWrite' = [s \in Socket |-> FALSE]
  /\ disc'  = [s \in Socket |-> "none"]

Restart ==
  /\ "restart" \in Faults
  /\ LoseMemory
  /\ UNCHANGED <<rowVars, agentVars, owner, cl, kick, acked>>

(* The UPDATE of markOffline fails (and may have executed).  Nobody handles
   the promise of handleDisconnect: the unhandled rejection ends the process. *)
DiscFails(s) ==
  /\ "db" \in Faults
  /\ disc[s] = "write"
  /\ WriteOffline(appOf(s)) \/ UNCHANGED rowVars
  /\ LoseMemory
  /\ UNCHANGED <<agentVars, owner, cl, kick, acked>>

Death == Restart \/ \E s \in Socket : DiscFails(s)

-----------------------------------------------------------------------------
(* Every step but the death of the backend.                                *)
Step ==
  \/ \E app \in App : Elapse(app) \/ RotateToken(app) \/ Remove(app)
  \/ \E a \in Agent : Start(a) \/ Exit(a) \/ \E s \in Socket : Connect(a, s)
  \/ \E s \in Socket :
       \/ ClientDrop(s) \/ ClientKicked(s) \/ ServerDrop(s)
       \/ RegAuth(s) \/ RegMark(s) \/ RegJoin(s)
       \/ Heartbeat(s) \/ HbWrite(s)
       \/ DiscWrite(s) \/ DiscPublish(s)

Next == Step \/ Death

Spec == Init /\ [][Next]_gwVars

(* What keeps running by itself: the event loop resumes handlers whose query
   has completed, timers fire (heartbeat interval, reconnection, pings, the
   passing of 60 s), and each end notices that the other has closed.  No
   fairness is assumed of faults, of operators or of process starts.       *)
Fairness ==
  /\ \A app \in App : WF_gwVars(Elapse(app))
  /\ \A a \in Agent : WF_gwVars(\E s \in Socket : Connect(a, s))
  /\ \A s \in Socket :
       /\ WF_gwVars(sv[s] = "down" /\ (ClientDrop(s) \/ ClientKicked(s)))
       /\ WF_gwVars(cl[s] = "down" /\ ServerDrop(s))
       /\ WF_gwVars(RegAuth(s)) /\ WF_gwVars(RegMark(s)) /\ WF_gwVars(RegJoin(s))
       /\ WF_gwVars(Heartbeat(s)) /\ WF_gwVars(HbWrite(s))
       /\ WF_gwVars(DiscWrite(s)) /\ WF_gwVars(DiscPublish(s))

FairSpec == Spec /\ Fairness

-----------------------------------------------------------------------------
(* Safety.                                                                 *)

(* The gateway keeps two records of who is connected: isAppConnected and the
   emits use the rooms, heartbeats and disconnects the Map.  For an open
   socket the two always agree, and no room holds a closed socket: else jobs
   would go to an agent whose departure nobody records, or the reverse.    *)
RoomsMatchMap ==
  \A s \in Socket, app \in App :
    s \in rooms[app] <=> sv[s] = "up" /\ connectedAgents[s] = app

(* A socket is entered under the app its own agent registered, and only once
   its 'register' handler is over: between its awaits, or after a refusal,
   the socket is unknown to heartbeats, jobs and terminals.                *)
EnteredByOwnHandler ==
  \A s \in Socket : connectedAgents[s] # NoApp =>
    /\ owner[s] \in Agent /\ connectedAgents[s] = appOf(s)
    /\ reg[s] = "none"
    /\ ~kick[s]

(* "Registered - device is now online": when the agent has been told so and
   its connection is still open at the backend, an emit to its app's room
   reaches it.                                                             *)
AckMeansReachable ==
  \A s \in Socket : acked[s] /\ sv[s] = "up" => s \in rooms[appOf(s)]

(* An agent process that Socket.IO will not reconnect was refused by the
   backend: it holds no open connection, so nothing of its is in a room.   *)
HaltedIsNowhere ==
  \A s \in Socket : owner[s] \in Agent /\ proc[owner[s]] = "halted" =>
    cl[s] = "down" /\ ~kick[s]

(* A registered socket that goes away takes a markOffline with it, whoever
   closed it; only a death of the whole backend loses it.                  *)
DeparturesAreRecorded ==
  [][\A s \in Socket, app \in App :
       s \in rooms[app] /\ s \notin rooms'[app] =>
         \/ sv'[s] = "down" /\ disc'[s] = "write"
         \/ \A t \in Socket : sv'[t] = "down"]_gwVars

-----------------------------------------------------------------------------
(* The inductive invariant: why the safety properties hold.                *)

(* Whatever is going on for a slot is going on for an agent's connection.  *)
Busy(s) ==
  \/ cl[s] = "up" \/ sv[s] = "up" \/ kick[s] \/ acked[s]
  \/ reg[s] # "none" \/ hbWrite[s] \/ disc[s] # "none"
  \/ connectedAgents[s] # NoApp

BusyHasOwner == \A s \in Socket : Busy(s) => owner[s] \in Agent

(* A client is up only in a running process, and a process has one client. *)
OneConnectionEach ==
  \A s \in Socket : cl[s] = "up" =>
    /\ proc[owner[s]] = "running"
    /\ \A t \in Socket : cl[t] = "up" /\ owner[t] = owner[s] => t = s

(* The disconnect packet is under way only from a closed socket to a client
   that has not noticed.                                                   *)
KickedIsClosed == \A s \in Socket : kick[s] => sv[s] = "down" /\ cl[s] = "up"

(* While 'register' is handled the socket is not in the map, not told that
   it is registered and not refused.                                       *)
RegisteringIsUnknown ==
  \A s \in Socket : reg[s] # "none" =>
    connectedAgents[s] = NoApp /\ ~acked[s] /\ ~kick[s]

(* What was acknowledged stays in the map while the socket is open.        *)
AckedIsEntered ==
  \A s \in Socket : acked[s] /\ sv[s] = "up" => connectedAgents[s] = appOf(s)

GatewayInv ==
  /\ TypeOK
  /\ RoomsMatchMap
  /\ EnteredByOwnHandler
  /\ BusyHasOwner
  /\ OneConnectionEach
  /\ KickedIsClosed
  /\ RegisteringIsUnknown
  /\ AckedIsEntered

-----------------------------------------------------------------------------
(* Liveness, under FairSpec.                                               *)

(* The handler of 'register' always reaches a verdict: an open connection
   ends up in its room or is closed.                                       *)
RegistrationSettles ==
  \A s \in Socket :
    cl[s] = "up" /\ sv[s] = "up" ~> acked[s] \/ sv[s] = "down"

(* Once all agents of an app are gone for good its device is shown offline
   for good, whatever writes were late, failed or lost with the backend.   *)
GoneIsShownOffline ==
  \A app \in App :
    <>[](\A s \in AppSockets(app) : cl[s] = "down") => <>[]~ShownOnline(app)

(* An agent that stays registered and connected is shown online again and
   again, whatever late writes of other connections say: its heartbeats
   repair them.                                                            *)
StableIsShownOnline ==
  \A s \in Socket, app \in App :
    <>[](s \in rooms[app] /\ cl[s] = "up" /\ row[app] # "removed")
      => []<>ShownOnline(app)

(* If moreover it ends up the only connection of its app (no second process
   comes and goes), its row stays online for good.                         *)
AloneStaysOnline ==
  \A s \in Socket, app \in App :
    <>[](/\ s \in rooms[app] /\ cl[s] = "up" /\ row[app] # "removed"
         /\ \A t \in AppSockets(app) \ {s} : cl[t] = "down")
      => <>[](row[app] = "online")

-----------------------------------------------------------------------------
(* What comments of the code say and the code does not do: each is refuted
   by a run of its own.                                                    *)

(* run.ts, on every 'disconnect': "will retry...".  A running agent with a
   good token that lost its connection connects again (as long as a slot is
   left for it).                                                           *)
DisconnectedWillRetry ==
  \A a \in Agent :
    proc[a] # "off" /\ valid[a] /\ ~Connected(a)
      ~> Connected(a) \/ proc[a] = "off" \/ \A s \in Socket : ~Unused(s)

(* agents.gateway.ts: `agent:<app>:offline` is published, and terminal
   sessions are closed, because "the agent has been cut off": no agent of
   the app is connected when it is published.                              *)
OfflineMeansCutOff ==
  [][\A s \in Socket : disc[s] = "publish" /\ disc'[s] = "none"
       => ~isAppConnected(appOf(s))']_gwVars
=============================================================================
