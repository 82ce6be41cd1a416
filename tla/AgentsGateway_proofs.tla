----------------------- MODULE AgentsGateway_proofs ------------------------
(***************************************************************************)
(* Proofs about AgentsGateway, for any devices, agents, connections and    *)
(* faults: GatewayInv is inductive, and the safety properties follow.      *)
(***************************************************************************)
EXTENDS AgentsGateway, TLAPS

LEMMA GatewayInit == Init => GatewayInv
BY AppOfType, NoAppFresh, NoAgentFresh
   DEF Init, GatewayInv, TypeOK, RoomsMatchMap, EnteredByOwnHandler, BusyHasOwner,
       Busy, OneConnectionEach, KickedIsClosed, RegisteringIsUnknown, AckedIsEntered

RowsTyped == row \in [App -> {"removed", "offline", "online"}] /\ fresh \in [App -> BOOLEAN]

(* The writes of an app's row keep the rows well typed.                    *)
LEMMA WritesTyped ==
  ASSUME RowsTyped, NEW app \in App, WriteOnline(app)
  PROVE  RowsTyped'
BY DEF RowsTyped, WriteOnline, SetStatus, Touch

(* A refused 'register' leaves its socket closed and unknown.              *)
LEMMA RefusePreserves ==
  ASSUME GatewayInv, NEW s \in Socket, reg[s] # "none", Refuse(s), RowsTyped',
         UNCHANGED <<agentVars, owner, cl, acked, hbWrite>>
  PROVE  GatewayInv'
<1> USE DEF GatewayInv, TypeOK, RowsTyped, agentVars, gateVars, appOf
<1>1. CASE sv[s] = "down"
  BY <1>1 DEF Refuse, RoomsMatchMap, EnteredByOwnHandler, BusyHasOwner, Busy,
     OneConnectionEach, KickedIsClosed, RegisteringIsUnknown, AckedIsEntered
<1>2. CASE sv[s] = "up"
  <2>1. /\ sv' = [sv EXCEPT ![s] = "down"] /\ reg' = [reg EXCEPT ![s] = "none"]
        /\ rooms' = [app \in App |-> rooms[app] \ {s}]
        /\ connectedAgents' = connectedAgents /\ connectedAgents[s] = NoApp
        /\ disc' = disc
        /\ kick' = [kick EXCEPT ![s] = cl[s] = "up"]
    <3>1. connectedAgents[s] = NoApp
      BY DEF RegisteringIsUnknown
    <3>2. Close(s) /\ kick' = [kick EXCEPT ![s] = cl[s] = "up"]
          /\ reg' = [reg EXCEPT ![s] = "none"]
      BY <1>2 DEF Refuse
    <3>3. connectedAgents' = connectedAgents
      BY <3>1, <3>2 DEF Close
    <3>4. disc' = disc
      BY <3>1, <3>2 DEF Close
    <3>. QED
      BY <3>1, <3>2, <3>3, <3>4 DEF Close
  <2>2. TypeOK'
    <3>1. kick' \in [Socket -> BOOLEAN]
      BY <2>1, Zenon
    <3>2. rooms' \in [App -> SUBSET Socket]
      BY <2>1
    <3>3. sv' \in [Socket -> {"up", "down"}]
      BY <2>1
    <3>4. reg' \in [Socket -> {"none", "sent", "mark", "join"}]
      BY <2>1
    <3>. QED
      BY <2>1, <3>1, <3>2, <3>3, <3>4
  <2>3. RoomsMatchMap' /\ EnteredByOwnHandler'
    BY <2>1, NoAppFresh DEF RoomsMatchMap, EnteredByOwnHandler
  <2>4. BusyHasOwner'
    BY <1>2, <2>1 DEF BusyHasOwner, Busy
  <2>5. OneConnectionEach' /\ KickedIsClosed'
    BY <2>1 DEF OneConnectionEach, KickedIsClosed
  <2>6. RegisteringIsUnknown' /\ AckedIsEntered'
    BY <2>1 DEF RegisteringIsUnknown, AckedIsEntered
  <2>. QED
    BY <2>2, <2>3, <2>4, <2>5, <2>6
<1>. QED
  BY <1>1, <1>2

LEMMA GatewayNext == GatewayInv /\ [Next]_gwVars => GatewayInv'
<1> SUFFICES ASSUME GatewayInv, [Next]_gwVars PROVE GatewayInv'
  OBVIOUS
<1> USE AppOfType, NoAppFresh, NoAgentFresh
    DEF GatewayInv, TypeOK, RoomsMatchMap, EnteredByOwnHandler, BusyHasOwner,
        Busy, OneConnectionEach, KickedIsClosed, RegisteringIsUnknown,
        AckedIsEntered, appOf,
        rowVars, agentVars, connVars, regVars, gateVars, awaitVars
<1>1. ASSUME NEW app \in App, Elapse(app) PROVE GatewayInv'
  BY <1>1 DEF Elapse
<1>2. ASSUME NEW app \in App, RotateToken(app) PROVE GatewayInv'
  BY <1>2 DEF RotateToken
<1>3. ASSUME NEW app \in App, Remove(app) PROVE GatewayInv'
  BY <1>3 DEF Remove
<1>4. ASSUME NEW a \in Agent, Start(a) PROVE GatewayInv'
  BY <1>4 DEF Start
<1>5. ASSUME NEW a \in Agent, Exit(a) PROVE GatewayInv'
  <2>1. /\ UNCHANGED <<row, fresh, valid, owner, sv, reg, acked, connectedAgents,
                        rooms, hbWrite, disc>>
        /\ proc' = [proc EXCEPT ![a] = "off"]
        /\ cl'   = [s \in Socket |-> IF owner[s] = a THEN "down" ELSE cl[s]]
        /\ kick' = [s \in Socket |-> kick[s] /\ owner[s] # a]
    BY <1>5 DEF Exit
  <2>2. cl' \in [Socket -> {"up", "down"}]
        /\ \A s \in Socket : cl'[s] = "up" <=> cl[s] = "up" /\ owner[s] # a
    BY <2>1, SMT
  <2>3. kick' \in [Socket -> BOOLEAN] /\ \A s \in Socket : kick'[s] <=> kick[s] /\ owner[s] # a
    BY <2>1
  <2>4. /\ UNCHANGED <<row, fresh, valid, owner, sv, reg, acked, connectedAgents,
                        rooms, hbWrite, disc>>
        /\ proc' = [proc EXCEPT ![a] = "off"]
        /\ cl' \in [Socket -> {"up", "down"}] /\ kick' \in [Socket -> BOOLEAN]
        /\ \A s \in Socket : cl'[s] = "up" <=> cl[s] = "up" /\ owner[s] # a
        /\ \A s \in Socket : kick'[s] <=> kick[s] /\ owner[s] # a
    BY <2>1, <2>2, <2>3
  <2>5. TypeOK' /\ RoomsMatchMap' /\ EnteredByOwnHandler'
    BY <2>4
  <2>6. BusyHasOwner'
    BY <2>4
  <2>7. OneConnectionEach'
    BY <2>4
  <2>8. KickedIsClosed' /\ RegisteringIsUnknown' /\ AckedIsEntered'
    BY <2>4
  <2>. QED
    BY <2>5, <2>6, <2>7, <2>8
<1>6. ASSUME NEW s \in Socket, ClientDrop(s) PROVE GatewayInv'
  BY <1>6 DEF ClientDrop
<1>7. ASSUME NEW s \in Socket, ClientKicked(s) PROVE GatewayInv'
  BY <1>7 DEF ClientKicked
<1>8. ASSUME NEW s \in Socket, ServerDrop(s) PROVE GatewayInv'
  BY <1>8 DEF ServerDrop, Close
<1>9. ASSUME NEW s \in Socket, RegAuth(s) PROVE GatewayInv'
  <2>1. CASE valid[owner[s]] /\ reg' = [reg EXCEPT ![s] = "mark"]
              /\ UNCHANGED <<sv, kick, gateVars, disc>>
    BY <1>9, <2>1 DEF RegAuth
  <2>2. CASE Refuse(s)
    BY <1>9, <2>2, RefusePreserves DEF RegAuth, RowsTyped
  <2>. QED
    BY <1>9, <2>1, <2>2 DEF RegAuth
<1>10. ASSUME NEW s \in Socket, RegMark(s) PROVE GatewayInv'
  <2>1. appOf(s) \in App
    BY <1>10 DEF RegMark
  <2>2. RowsTyped'
    BY <1>10, <2>1, WritesTyped DEF RegMark, RowsTyped
  <2>3. CASE /\ reg' = [reg EXCEPT ![s] = "join"]
             /\ UNCHANGED <<sv, kick, gateVars, disc>>
    BY <1>10, <2>2, <2>3 DEF RegMark, RowsTyped
  <2>4. CASE Refuse(s)
    BY <1>10, <2>2, <2>4, RefusePreserves DEF RegMark
  <2>. QED
    BY <1>10, <2>3, <2>4 DEF RegMark
<1>11. ASSUME NEW s \in Socket, RegJoin(s) PROVE GatewayInv'
  BY <1>11 DEF RegJoin
<1>12. ASSUME NEW s \in Socket, Heartbeat(s) PROVE GatewayInv'
  BY <1>12 DEF Heartbeat
<1>13. ASSUME NEW s \in Socket, HbWrite(s) PROVE GatewayInv'
  <2>1. appOf(s) \in App
    BY <1>13 DEF HbWrite
  <2>2. RowsTyped'
    BY <1>13, <2>1, WritesTyped DEF HbWrite, WriteHeartbeat, RowsTyped
  <2>. QED
    BY <1>13, <2>2 DEF HbWrite, RowsTyped
<1>14. ASSUME NEW s \in Socket, DiscWrite(s) PROVE GatewayInv'
  <2>1. RowsTyped'
    BY <1>14 DEF DiscWrite, WriteOffline, SetStatus, RowsTyped
  <2>. QED
    BY <1>14, <2>1 DEF DiscWrite, RowsTyped
<1>15. ASSUME NEW s \in Socket, DiscPublish(s) PROVE GatewayInv'
  BY <1>15 DEF DiscPublish
<1>16. ASSUME NEW a \in Agent, NEW s \in Socket, Connect(a, s) PROVE GatewayInv'
  BY <1>16 DEF Connect, Unused, Connected
<1>17. ASSUME Death PROVE GatewayInv'
  <2>1. RowsTyped' /\ LoseMemory /\ UNCHANGED <<agentVars, owner, cl, kick, acked>>
    BY <1>17 DEF Death, Restart, DiscFails, WriteOffline, SetStatus, RowsTyped
  <2>. QED
    BY <2>1 DEF LoseMemory, RowsTyped
<1>18. ASSUME UNCHANGED gwVars PROVE GatewayInv'
  BY <1>18 DEF gwVars
<1>. QED
  BY <1>1, <1>2, <1>3, <1>4, <1>5, <1>6, <1>7, <1>8, <1>9, <1>10, <1>11, <1>12, <1>13, <1>14, <1>15, <1>16, <1>17, <1>18 DEF Next, Step

(* GatewayInv holds for any devices, agents, connections and faults: where a
   socket is known, who owns it and which handler of it awaits a query.    *)
THEOREM GatewayInvariant == Spec => []GatewayInv
BY GatewayInit, GatewayNext, PTL DEF Spec

(* Rooms and map agree about every open socket: an emit to app:<id> reaches
   exactly the sockets whose heartbeats and departure the gateway records.  *)
THEOREM RoomsAlwaysMatchMap == Spec => [](RoomsMatchMap /\ EnteredByOwnHandler)
<1>1. GatewayInv => RoomsMatchMap /\ EnteredByOwnHandler
  BY DEF GatewayInv
<1>. QED
  BY <1>1, GatewayInvariant, PTL

(* An agent told "registered" over an open connection is in its app's room. *)
THEOREM AckAlwaysMeansReachable == Spec => []AckMeansReachable
<1>1. GatewayInv => AckMeansReachable
  <2> SUFFICES ASSUME GatewayInv, NEW s \in Socket, acked[s], sv[s] = "up"
               PROVE  s \in rooms[appOf(s)]
    BY DEF AckMeansReachable
  <2>1. connectedAgents[s] = appOf(s)
    BY DEF GatewayInv, AckedIsEntered
  <2>2. appOf(s) \in App
    BY AppOfType DEF GatewayInv, BusyHasOwner, Busy, appOf
  <2>. QED
    BY <2>1, <2>2 DEF GatewayInv, RoomsMatchMap
<1>. QED
  BY <1>1, GatewayInvariant, PTL

(* A process that will never reconnect has no open end anywhere.           *)
THEOREM HaltedIsAlwaysNowhere == Spec => []HaltedIsNowhere
<1>1. GatewayInv => HaltedIsNowhere
  BY DEF GatewayInv, HaltedIsNowhere, OneConnectionEach, KickedIsClosed, TypeOK
<1>. QED
  BY <1>1, GatewayInvariant, PTL

(* A socket that leaves a room is closed and its markOffline is on the way,
   unless the whole backend died.                                          *)
LEMMA RefusedWasInNoRoom ==
  ASSUME GatewayInv, NEW s \in Socket, reg[s] # "none", Refuse(s)
  PROVE  rooms' = rooms
<1>1. \A app \in App : s \notin rooms[app]
  BY NoAppFresh DEF GatewayInv, RegisteringIsUnknown, RoomsMatchMap
<1>2. rooms \in [App -> SUBSET Socket]
  BY DEF GatewayInv, TypeOK
<1>3. CASE rooms' = [app \in App |-> rooms[app] \ {s}]
  <2>1. \A app \in App : rooms[app] \ {s} = rooms[app]
    BY <1>1
  <2>. QED
    BY <1>2, <1>3, <2>1
<1>. QED
  BY <1>3 DEF Refuse, Close, gateVars

LEMMA DepartureStep ==
  ASSUME GatewayInv, [Next]_gwVars, NEW s \in Socket, NEW app \in App,
         s \in rooms[app], s \notin rooms'[app]
  PROVE  (sv'[s] = "down" /\ disc'[s] = "write") \/ \A t \in Socket : sv'[t] = "down"
<1> USE DEF rowVars, agentVars, connVars, regVars, gateVars, awaitVars
<1>1. CASE Death
  BY <1>1 DEF Death, Restart, DiscFails, LoseMemory
<1>2. ASSUME NEW t \in Socket, ServerDrop(t)
      PROVE  sv'[s] = "down" /\ disc'[s] = "write"
  <2>1. t = s
    BY <1>2 DEF ServerDrop, Close
  <2>2. connectedAgents[s] # NoApp
    BY NoAppFresh DEF GatewayInv, RoomsMatchMap
  <2>. QED
    BY <1>2, <2>1, <2>2 DEF ServerDrop, Close, GatewayInv, TypeOK
<1>3. ASSUME NEW t \in Socket, RegAuth(t) \/ RegMark(t) PROVE FALSE
  BY <1>3, RefusedWasInNoRoom DEF RegAuth, RegMark
<1>4. ASSUME NEW t \in Socket, RegJoin(t) PROVE FALSE
  BY <1>4 DEF RegJoin, GatewayInv, TypeOK
<1>5. ASSUME NEW t \in Socket,
             ClientDrop(t) \/ ClientKicked(t) \/ Heartbeat(t) \/ HbWrite(t)
               \/ DiscWrite(t) \/ DiscPublish(t)
      PROVE  FALSE
  BY <1>5 DEF ClientDrop, ClientKicked, Heartbeat, HbWrite, DiscWrite, DiscPublish
<1>6. ASSUME NEW d \in App, Elapse(d) \/ RotateToken(d) \/ Remove(d) PROVE FALSE
  BY <1>6 DEF Elapse, RotateToken, Remove
<1>7. ASSUME NEW a \in Agent,
             Start(a) \/ Exit(a) \/ \E t \in Socket : Connect(a, t)
      PROVE  FALSE
  BY <1>7 DEF Start, Exit, Connect
<1>8. CASE UNCHANGED gwVars
  BY <1>8 DEF gwVars
<1>. QED
  BY <1>1, <1>2, <1>3, <1>4, <1>5, <1>6, <1>7, <1>8 DEF Next, Step

(* Whenever a registered socket leaves its app's room, its handler has begun
   to record the departure, or the backend has died and with it all sockets. *)
THEOREM DeparturesAreAlwaysRecorded == Spec => DeparturesAreRecorded
<1>1. GatewayInv /\ [Next]_gwVars =>
        [\A s \in Socket, app \in App :
           s \in rooms[app] /\ s \notin rooms'[app] =>
             \/ sv'[s] = "down" /\ disc'[s] = "write"
             \/ \A t \in Socket : sv'[t] = "down"]_gwVars
  BY DepartureStep
<1>. QED
  BY <1>1, GatewayInvariant, PTL DEF Spec, DeparturesAreRecorded

-----------------------------------------------------------------------------
(* Lemmas for the modules that build on the gateway.                       *)

(* A step opens a connection in a slot with both ends closed, for a process
   without one, or it opens no end of it and leaves it to its owner.       *)
LEMMA ConnectionStep ==
  ASSUME GatewayInv, Next, NEW s \in Socket
  PROVE  \/ cl[s] = "down" /\ sv[s] = "down" /\ ~Connected(owner'[s])
         \/ /\ owner'[s] = owner[s]
            /\ cl'[s] = "up" => cl[s] = "up"
            /\ sv'[s] = "up" => sv[s] = "up"
<1> USE DEF rowVars, agentVars, connVars, regVars, gateVars, awaitVars
<1>1. /\ cl \in [Socket -> {"up", "down"}] /\ sv \in [Socket -> {"up", "down"}]
      /\ owner \in [Socket -> Agent \cup {NoAgent}]
  BY DEF GatewayInv, TypeOK
<1>2. CASE Death
  BY <1>1, <1>2 DEF Death, Restart, DiscFails, LoseMemory
<1>3. ASSUME NEW t \in Socket,
             ServerDrop(t) \/ RegAuth(t) \/ RegMark(t) PROVE
             UNCHANGED <<owner, cl>> /\ (sv'[s] = "up" => sv[s] = "up")
  BY <1>1, <1>3 DEF ServerDrop, RegAuth, RegMark, Refuse, Close
<1>4. ASSUME NEW t \in Socket,
             ClientDrop(t) \/ ClientKicked(t) \/ RegJoin(t) \/ Heartbeat(t) \/ HbWrite(t)
               \/ DiscWrite(t) \/ DiscPublish(t)
      PROVE  UNCHANGED <<owner, sv>> /\ (cl'[s] = "up" => cl[s] = "up")
  BY <1>1, <1>4 DEF ClientDrop, ClientKicked, RegJoin, Heartbeat, HbWrite, DiscWrite, DiscPublish
<1>5. ASSUME NEW d \in App, Elapse(d) \/ RotateToken(d) \/ Remove(d)
      PROVE  UNCHANGED <<owner, cl, sv>>
  BY <1>5 DEF Elapse, RotateToken, Remove
<1>6. ASSUME NEW a \in Agent, Start(a) \/ Exit(a)
      PROVE  UNCHANGED <<owner, sv>> /\ (cl'[s] = "up" => cl[s] = "up")
  BY <1>1, <1>6 DEF Start, Exit
<1>7. ASSUME NEW a \in Agent, NEW t \in Socket, Connect(a, t), t # s
      PROVE  owner'[s] = owner[s] /\ cl'[s] = cl[s] /\ sv'[s] = sv[s]
  BY <1>1, <1>7 DEF Connect
<1>8. ASSUME NEW a \in Agent, Connect(a, s)
      PROVE  cl[s] = "down" /\ sv[s] = "down" /\ ~Connected(owner'[s])
  <2>1. owner'[s] = a
    BY <1>1, <1>8 DEF Connect
  <2>. QED
    BY <1>8, <2>1 DEF Connect, Unused
<1>. QED
  BY <1>2, <1>3, <1>4, <1>5, <1>6, <1>7, <1>8 DEF Next, Step

(* Whom an emit to a room reaches.                                         *)
LEMMA RoomMember ==
  ASSUME GatewayInv, NEW app \in App, NEW s \in rooms[app]
  PROVE  s \in Socket /\ sv[s] = "up" /\ owner[s] \in Agent /\ appOf(s) = app
<1>1. s \in Socket
  BY DEF GatewayInv, TypeOK
<1>2. sv[s] = "up" /\ connectedAgents[s] = app
  BY <1>1 DEF GatewayInv, RoomsMatchMap
<1>. QED
  BY <1>1, <1>2, NoAppFresh DEF GatewayInv, EnteredByOwnHandler

(* Unless the backend dies, a socket leaves a room only to be marked offline. *)
LEMMA LeavingStep ==
  ASSUME GatewayInv, Step, NEW s \in Socket, NEW app \in App, s \in rooms[app], s \notin rooms'[app]
  PROVE  disc'[s] = "write"
<1> USE DEF rowVars, agentVars, connVars, regVars, gateVars, awaitVars
<1>1. PICK t \in Socket : ServerDrop(t)
  BY RefusedWasInNoRoom
     DEF Step, Elapse, RotateToken, Remove, Start, Exit, Connect, ClientDrop, ClientKicked, RegAuth,
         RegMark, RegJoin, Heartbeat, HbWrite, DiscWrite, DiscPublish, GatewayInv, TypeOK
<1>2. t = s
  BY <1>1 DEF ServerDrop, Close
<1>3. connectedAgents[s] # NoApp
  BY NoAppFresh DEF GatewayInv, RoomsMatchMap
<1>. QED
  BY <1>1, <1>2, <1>3 DEF ServerDrop, Close, GatewayInv, TypeOK

(* A slot changes its owner only with a connection that opens.             *)
LEMMA NewConnection ==
  ASSUME GatewayInv, Step, NEW s \in Socket
  PROVE  \/ owner'[s] = owner[s]
         \/ Unused(s) /\ cl'[s] = "up"
<1> USE DEF rowVars, agentVars, connVars, regVars, gateVars, awaitVars
<1>1. ASSUME NEW a \in Agent, NEW t \in Socket, Connect(a, t)
      PROVE  owner'[s] = owner[s] \/ (Unused(s) /\ cl'[s] = "up")
  BY <1>1 DEF Connect, GatewayInv, TypeOK
<1>2. (\A a \in Agent, t \in Socket : ~Connect(a, t)) => owner' = owner
  BY DEF Step, Elapse, RotateToken, Remove, Start, Exit, ClientDrop, ClientKicked, ServerDrop, RegAuth,
         RegMark, RegJoin, Heartbeat, HbWrite, DiscWrite, DiscPublish
<1>. QED
  BY <1>1, <1>2

(* Once handleDisconnect has begun it goes on to publish, for its own app. *)
LEMMA DepartureGoesOn ==
  ASSUME GatewayInv, Step, NEW s \in Socket, disc[s] # "none"
  PROVE  /\ owner'[s] = owner[s]
         /\ disc'[s] # "none" \/ disc[s] = "publish"
<1> USE DEF rowVars, agentVars, connVars, regVars, gateVars, awaitVars
<1>1. owner'[s] = owner[s]
  BY NewConnection DEF Unused
<1>2. disc \in [Socket -> {"none", "write", "publish"}]
  BY DEF GatewayInv, TypeOK
<1>3. ASSUME NEW t \in Socket, Close(t) PROVE disc'[s] # "none"
  BY <1>2, <1>3 DEF Close
<1>4. ASSUME NEW t \in Socket, DiscWrite(t) \/ DiscPublish(t)
      PROVE  disc'[s] # "none" \/ disc[s] = "publish"
  BY <1>2, <1>4 DEF DiscWrite, DiscPublish
<1>5. \/ disc' = disc
      \/ \E t \in Socket : Close(t) \/ DiscWrite(t) \/ DiscPublish(t)
  BY DEF Step, Elapse, RotateToken, Remove, Start, Exit, Connect, ClientDrop, ClientKicked, ServerDrop,
         RegAuth, RegMark, Refuse, RegJoin, Heartbeat, HbWrite
<1>. QED
  BY <1>1, <1>3, <1>4, <1>5
=============================================================================
