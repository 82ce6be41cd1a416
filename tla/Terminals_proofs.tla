-------------------------- MODULE Terminals_proofs --------------------------
(***************************************************************************)
(* Proofs about Terminals, for any browsers, sessions, devices, agents,    *)
(* connections and faults: ShellsInv is inductive, so shells run only where  *)
(* they were asked for and no closed session leaves one behind.            *)
(***************************************************************************)
EXTENDS Terminals, AgentsGateway_proofs

LEMMA ShellsStart == TermInit => ShellsInv
<1> SUFFICES ASSUME TermInit PROVE ShellsInv
  OBVIOUS
<1>1. GatewayInv
  BY GatewayInit DEF TermInit
<1>2. TermTypeOK
  BY <1>1 DEF TermInit, TermTypeOK, GatewayInv
<1>3. \A s \in Socket, t \in Session : ~ShellAt(t, s)
  BY DEF TermInit, ShellAt
<1>. QED
  BY <1>1, <1>2, <1>3 DEF TermInit, ShellsInv, WireHasEnds, ShellsNeedConnection, OnlyOnItsDevice,
     ShellsAreInRoom, CloseFollowsShell

-----------------------------------------------------------------------------
(* Steps of the presence protocol.                                         *)

(* A shell that is still at a working end after the step was there before,
   on the same working connection.                                         *)
LEMMA SurvivingShell ==
  ASSUME ShellsInv, Next, WireFollows, ShellsFollow,
         NEW t \in Session, NEW s \in Socket, ShellAt(t, s)', BothUp(s)'
  PROVE  ShellAt(t, s) /\ BothUp(s) /\ owner'[s] = owner[s] /\ s \in Socket
<1>1. /\ GatewayInv /\ GatewayInv' /\ TermTypeOK
  BY GatewayNext DEF ShellsInv
<1>2. /\ cl \in [Socket -> {"up", "down"}] /\ sv \in [Socket -> {"up", "down"}]
      /\ owner \in [Socket -> Agent \cup {NoAgent}]
  BY <1>1 DEF GatewayInv, TypeOK
<1>3. \/ cl[s] = "down" /\ sv[s] = "down" /\ ~Connected(owner'[s])
      \/ owner'[s] = owner[s] /\ BothUp(s)
  BY <1>1, ConnectionStep DEF BothUp
<1>4. CASE t \in starts'[s]
  <2>1. t \in starts[s]
    BY <1>4 DEF WireFollows
  <2>2. cl[s] = "up" \/ sv[s] = "up"
    BY <2>1 DEF ShellsInv, WireHasEnds
  <2>3. owner'[s] = owner[s] /\ BothUp(s)
    BY <1>2, <1>3, <2>2
  <2>. QED
    BY <2>1, <2>3 DEF ShellAt
<1>5. ASSUME NEW a \in Agent, owner'[s] = a, t \in pty'[a]
      PROVE  ShellAt(t, s) /\ BothUp(s) /\ owner'[s] = owner[s]
  <2>1. t \in pty[a] /\ ~Disconnects(a)
    BY <1>5 DEF ShellsFollow
  <2>2. Connected(a)
    BY <2>1 DEF ShellsInv, ShellsNeedConnection
  <2>3. owner'[s] = owner[s] /\ BothUp(s)
    BY <1>3, <1>5, <2>2
  <2>. QED
    BY <1>5, <2>1, <2>3 DEF ShellAt
<1>. QED
  BY <1>4, <1>5 DEF ShellAt

(* What happens to messages and shells when connections open and close.    *)
LEMMA WireStep ==
  ASSUME ShellsInv, Next, WireFollows, ShellsFollow,
         viewer' \in [Viewer -> BOOLEAN],
         open' \in [Session -> {"idle", "seen", "error", "opened", "closed", "ended"}],
         \A t \in Session : open'[t] = "closed" => open[t] = "closed",
         exitBus' \subseteq Session, offBus' \subseteq Socket
  PROVE  ShellsInv'
<1>1. GatewayInv /\ GatewayInv' /\ TermTypeOK
  BY GatewayNext DEF ShellsInv
<1>2. TermTypeOK'
  <2>1. TypeOK' /\ starts' \in [Socket -> SUBSET Session] /\ closes' \in [Socket -> SUBSET Session]
    BY <1>1 DEF TermTypeOK, GatewayInv, WireFollows
  <2>2. exits' \in [Socket -> SUBSET Session]
    <3>1. ASSUME NEW s \in Socket, sv'[s] # "down" PROVE owner'[s] \in Agent
      <4>1. sv'[s] = "up"
        BY <1>1, <3>1 DEF GatewayInv, TypeOK
      <4>. QED
        BY <1>1, <4>1 DEF GatewayInv, BusyHasOwner, Busy
    <3>2. ASSUME NEW s \in Socket
          PROVE  (IF sv'[s] = "down" THEN {}
                  ELSE IF sv[s] = "down" THEN outbox[owner'[s]] ELSE exits[s]) \in SUBSET Session
      BY <1>1, <3>1 DEF TermTypeOK
    <3>. QED
      BY <3>2 DEF WireFollows
  <2>3. /\ pty' \in [Agent -> SUBSET Session] /\ dying' \in [Agent -> SUBSET Session]
        /\ outbox' \in [Agent -> SUBSET Session]
    BY <1>1 DEF TermTypeOK, WireFollows, ShellsFollow
  <2>. QED
    BY <2>1, <2>2, <2>3 DEF TermTypeOK
<1>3. WireHasEnds'
  BY DEF WireHasEnds, WireFollows
<1>4. ShellsNeedConnection'
  BY DEF ShellsInv, ShellsNeedConnection, ShellsFollow, Disconnects
<1>5. OnlyOnItsDevice'
  <2>1. ASSUME NEW s \in Socket, NEW t \in starts'[s]
        PROVE  owner'[s] \in Agent /\ AppOf[owner'[s]] = TermApp[t]
    <3>1. t \in starts[s] /\ cl'[s] = "up"
      BY <2>1 DEF WireFollows
    <3>2. owner'[s] = owner[s]
      BY <1>1, <3>1, ConnectionStep DEF ShellsInv, WireHasEnds, GatewayInv, TypeOK
    <3>. QED
      BY <3>1, <3>2 DEF ShellsInv, OnlyOnItsDevice, appOf
  <2>2. ASSUME NEW a \in Agent, NEW t \in pty'[a] \cup dying'[a]
        PROVE  AppOf[a] = TermApp[t]
    BY DEF ShellsInv, OnlyOnItsDevice, ShellsFollow
  <2>. QED
    BY <2>1, <2>2 DEF OnlyOnItsDevice, appOf
<1>6. ShellsAreInRoom'
  <2> SUFFICES ASSUME NEW t \in Session, NEW s \in Socket, ShellAt(t, s)', BothUp(s)'
               PROVE  s \in rooms'[TermApp[t]]
    BY DEF ShellsAreInRoom
  <2>1. ShellAt(t, s) /\ BothUp(s)
    BY SurvivingShell
  <2>2. s \in rooms[TermApp[t]] /\ TermApp[t] \in App
    BY <2>1, TermAppType DEF ShellsInv, ShellsAreInRoom
  <2>. QED
    BY <1>1, <2>2, DepartureStep DEF BothUp
<1>7. CloseFollowsShell'
  <2> SUFFICES ASSUME NEW t \in Session, NEW s \in Socket,
                      open'[t] = "closed", ShellAt(t, s)', BothUp(s)'
               PROVE  t \in closes'[s]
    BY DEF CloseFollowsShell
  <2>1. ShellAt(t, s) /\ BothUp(s)
    BY SurvivingShell
  <2>. QED
    BY <2>1 DEF ShellsInv, CloseFollowsShell, WireFollows, BothUp
<1>. QED
  BY <1>1, <1>2, <1>3, <1>4, <1>5, <1>6, <1>7 DEF ShellsInv

-----------------------------------------------------------------------------
(* Steps of the gateways and of the agents.                                *)

(* A step that touches no connection, no command and no shell.             *)
LEMMA BrowserStep ==
  ASSUME ShellsInv, UNCHANGED <<gwVars, starts, closes, pty, dying>>, TermTypeOK',
         \A t \in Session : open'[t] = "closed" => open[t] = "closed"
  PROVE  ShellsInv'
<1>1. GatewayInv' /\ UNCHANGED <<owner, cl, sv, rooms>>
  BY GatewayNext DEF ShellsInv, gwVars
<1>2. \A t, s : ShellAt(t, s)' <=> ShellAt(t, s)
  BY <1>1 DEF ShellAt
<1>. QED
  BY <1>1, <1>2 DEF ShellsInv, WireHasEnds, ShellsNeedConnection, Connected, OnlyOnItsDevice, appOf,
     ShellsAreInRoom, BothUp, CloseFollowsShell

LEMMA OpenStep ==
  ASSUME ShellsInv, NEW t \in Session, OpenStart(t), isAppConnected(TermApp[t])
  PROVE  ShellsInv'
<1>1. /\ GatewayInv' /\ UNCHANGED <<owner, cl, sv, rooms, closes, pty, dying>>
      /\ TermTypeOK /\ GatewayInv
  BY GatewayNext DEF ShellsInv, gwVars, OpenStart, shellVars
<1>2. TermApp[t] \in App
  BY TermAppType
<1>3. ASSUME NEW s \in Socket
      PROVE  \/ starts'[s] = starts[s]
             \/ /\ starts'[s] = starts[s] \cup {t}
                /\ s \in rooms[TermApp[t]] /\ sv[s] = "up"
                /\ owner[s] \in Agent /\ appOf(s) = TermApp[t]
  <2>1. starts'[s] = starts[s] \cup {u \in {t} : s \in rooms[TermApp[u]]}
    BY DEF OpenStart, Emit
  <2>2. CASE s \in rooms[TermApp[t]]
    BY <1>1, <1>2, <2>1, <2>2, RoomMember
  <2>3. CASE s \notin rooms[TermApp[t]]
    BY <2>1, <2>3
  <2>. QED
    BY <2>2, <2>3
<1>4. open[t] = "seen" /\ open' = [open EXCEPT ![t] = "opened"]
  BY DEF OpenStart
<1>5. TermTypeOK'
  <2>1. starts' \in [Socket -> SUBSET Session]
    BY <1>1 DEF OpenStart, Emit, TermTypeOK
  <2>. QED
    BY <1>1, <1>4, <2>1 DEF OpenStart, TermTypeOK, GatewayInv, shellVars, busVars
<1>6. WireHasEnds' /\ ShellsNeedConnection'
  BY <1>1, <1>3 DEF ShellsInv, WireHasEnds, ShellsNeedConnection, Connected
<1>7. OnlyOnItsDevice'
  BY <1>1, <1>3 DEF ShellsInv, OnlyOnItsDevice, appOf
<1>8. ShellsAreInRoom'
  BY <1>1, <1>3 DEF ShellsInv, ShellsAreInRoom, ShellAt, BothUp
<1>9. CloseFollowsShell'
  BY <1>1, <1>3, <1>4 DEF ShellsInv, CloseFollowsShell, ShellAt, BothUp, TermTypeOK
<1>. QED
  BY <1>1, <1>5, <1>6, <1>7, <1>8, <1>9 DEF ShellsInv

LEMMA CloseStep ==
  ASSUME ShellsInv, NEW T \in SUBSET Session, CloseSessions(T), viewer' \in [Viewer -> BOOLEAN]
  PROVE  ShellsInv'
<1>1. /\ GatewayInv' /\ UNCHANGED <<owner, cl, sv, rooms, starts, pty, dying>>
      /\ TermTypeOK /\ GatewayInv
  BY GatewayNext DEF ShellsInv, gwVars, CloseSessions, shellVars
<1>2. \A s \in Socket : closes'[s] = closes[s] \cup {t \in T : s \in rooms[TermApp[t]]}
  BY DEF CloseSessions, Emit
<1>3. TermTypeOK'
  <2>1. closes' \in [Socket -> SUBSET Session]
    BY <1>1 DEF CloseSessions, Emit, TermTypeOK
  <2>2. open' \in [Session -> {"idle", "seen", "error", "opened", "closed", "ended"}]
    BY <1>1 DEF CloseSessions, TermTypeOK
  <2>. QED
    BY <1>1, <2>1, <2>2 DEF CloseSessions, TermTypeOK, GatewayInv, shellVars, busVars
<1>4. \A t, s : ShellAt(t, s)' <=> ShellAt(t, s)
  BY <1>1 DEF ShellAt
<1>5. WireHasEnds' /\ ShellsNeedConnection' /\ OnlyOnItsDevice' /\ ShellsAreInRoom'
  BY <1>1, <1>4 DEF ShellsInv, WireHasEnds, ShellsNeedConnection, Connected, OnlyOnItsDevice, appOf,
     ShellsAreInRoom, BothUp
<1>6. CloseFollowsShell'
  <2> SUFFICES ASSUME NEW t \in Session, NEW s \in Socket,
                      open'[t] = "closed", ShellAt(t, s), BothUp(s)
               PROVE  t \in closes'[s]
    BY <1>1, <1>4 DEF CloseFollowsShell, BothUp
  <2>1. CASE t \in T
    BY <1>2, <2>1 DEF ShellsInv, ShellsAreInRoom
  <2>2. CASE t \notin T
    BY <1>2, <2>2 DEF CloseSessions, ShellsInv, CloseFollowsShell
  <2>. QED
    BY <2>1, <2>2
<1>. QED
  BY <1>1, <1>3, <1>5, <1>6 DEF ShellsInv

(* Whose shell may be started, killed or over: the one process at s.       *)
LEMMA OneEnd ==
  ASSUME ShellsInv, NEW s \in Socket, NEW u \in Socket,
         cl[s] = "up", cl[u] = "up", owner[u] = owner[s]
  PROVE  u = s
BY DEF ShellsInv, GatewayInv, OneConnectionEach

LEMMA StartStep ==
  ASSUME ShellsInv, NEW s \in Socket, NEW t \in Session, ReceiveStart(s, t)
  PROVE  ShellsInv'
<1>1. /\ GatewayInv' /\ UNCHANGED <<owner, cl, sv, rooms, closes, dying, open>>
      /\ TermTypeOK /\ GatewayInv
  BY GatewayNext DEF ShellsInv, gwVars, ReceiveStart
<1>2. cl[s] = "up" /\ t \in starts[s] /\ owner[s] \in Agent /\ appOf(s) = TermApp[t]
  BY DEF ReceiveStart, ShellsInv, OnlyOnItsDevice
<1>3. /\ starts' = [starts EXCEPT ![s] = @ \ {t}]
      /\ pty' = [pty EXCEPT ![owner[s]] = @ \cup {t}]
  BY DEF ReceiveStart
<1>4. TermTypeOK'
  BY <1>1, <1>2, <1>3 DEF ReceiveStart, TermTypeOK, GatewayInv, busVars
<1>5. WireHasEnds' /\ ShellsNeedConnection'
  BY <1>1, <1>2, <1>3 DEF ShellsInv, WireHasEnds, ShellsNeedConnection, Connected, TermTypeOK
<1>6. OnlyOnItsDevice'
  BY <1>1, <1>2, <1>3 DEF ShellsInv, OnlyOnItsDevice, appOf, TermTypeOK
<1>7. ASSUME NEW i \in Session, NEW u \in Socket, ShellAt(i, u)', BothUp(u)
      PROVE  ShellAt(i, u)
  <2>1. CASE i \in starts'[u]
    BY <1>1, <1>3, <2>1 DEF ShellAt, TermTypeOK
  <2>2. CASE owner[u] \in Agent /\ i \in pty[owner[u]]
    BY <2>2 DEF ShellAt
  <2>3. CASE i = t /\ owner[u] = owner[s]
    BY <1>2, <1>7, <2>3, OneEnd DEF ShellAt, BothUp
  <2>. QED
    BY <1>1, <1>3, <1>7, <2>1, <2>2, <2>3 DEF ShellAt, TermTypeOK
<1>8. ShellsAreInRoom' /\ CloseFollowsShell'
  BY <1>1, <1>7 DEF ShellsInv, ShellsAreInRoom, CloseFollowsShell, BothUp
<1>. QED
  BY <1>1, <1>4, <1>5, <1>6, <1>8 DEF ShellsInv

LEMMA ReceiveCloseStep ==
  ASSUME ShellsInv, NEW s \in Socket, NEW t \in Session, ReceiveClose(s, t)
  PROVE  ShellsInv'
<1>1. /\ GatewayInv' /\ UNCHANGED <<owner, cl, sv, rooms, starts, open>>
      /\ TermTypeOK /\ GatewayInv
  BY GatewayNext DEF ShellsInv, gwVars, ReceiveClose
<1>2. cl[s] = "up" /\ t \notin starts[s] /\ owner[s] \in Agent
  BY <1>1 DEF ReceiveClose, GatewayInv, BusyHasOwner, Busy
<1>3. /\ closes' = [closes EXCEPT ![s] = @ \ {t}]
      /\ pty' = [pty EXCEPT ![owner[s]] = @ \ {t}]
      /\ dying' = [dying EXCEPT ![owner[s]] = @ \cup ({t} \cap pty[owner[s]])]
  BY DEF ReceiveClose
<1>4. TermTypeOK'
  BY <1>1, <1>2, <1>3 DEF ReceiveClose, TermTypeOK, GatewayInv, busVars
<1>5. \A a \in Agent : pty'[a] \subseteq pty[a] /\ dying'[a] \subseteq dying[a] \cup pty[a]
  BY <1>1, <1>3 DEF TermTypeOK
<1>6. WireHasEnds' /\ ShellsNeedConnection' /\ OnlyOnItsDevice'
  BY <1>1, <1>5 DEF ShellsInv, WireHasEnds, ShellsNeedConnection, Connected, OnlyOnItsDevice, appOf
<1>7. \A i \in Session, u \in Socket : ShellAt(i, u)' => ShellAt(i, u)
  BY <1>1, <1>5 DEF ShellAt
<1>8. ShellsAreInRoom'
  BY <1>1, <1>7 DEF ShellsInv, ShellsAreInRoom, BothUp
<1>9. CloseFollowsShell'
  <2>1. ~ShellAt(t, s)'
    BY <1>1, <1>2, <1>3 DEF ShellAt, TermTypeOK
  <2>2. \A u \in Socket : closes[u] \ {t} \subseteq closes'[u] /\ (u # s => closes'[u] = closes[u])
    BY <1>1, <1>3 DEF TermTypeOK
  <2>. QED
    BY <1>1, <1>7, <2>1, <2>2 DEF ShellsInv, CloseFollowsShell, BothUp
<1>. QED
  BY <1>1, <1>4, <1>6, <1>8, <1>9 DEF ShellsInv

LEMMA ShellExitsStep ==
  ASSUME ShellsInv, NEW a \in Agent, NEW t \in Session, ShellExits(a, t)
  PROVE  ShellsInv'
<1>1. /\ GatewayInv' /\ UNCHANGED <<owner, cl, sv, rooms, starts, closes, open>>
      /\ TermTypeOK /\ GatewayInv
  BY GatewayNext DEF ShellsInv, gwVars, ShellExits
<1>2. /\ pty' = [pty EXCEPT ![a] = @ \ {t}]
      /\ dying' = [dying EXCEPT ![a] = @ \ {t}]
      /\ outbox' \in [Agent -> SUBSET Session]
      /\ exits' \in [Socket -> SUBSET Session]
  BY <1>1 DEF ShellExits, TermTypeOK
<1>3. TermTypeOK'
  BY <1>1, <1>2 DEF ShellExits, TermTypeOK, GatewayInv, busVars
<1>4. \A b \in Agent : pty'[b] \subseteq pty[b] /\ dying'[b] \subseteq dying[b]
  BY <1>1, <1>2 DEF TermTypeOK
<1>5. \A i \in Session, u \in Socket : ShellAt(i, u)' => ShellAt(i, u)
  BY <1>1, <1>4 DEF ShellAt
<1>. QED
  BY <1>1, <1>3, <1>4, <1>5 DEF ShellsInv, WireHasEnds, ShellsNeedConnection, Connected,
     OnlyOnItsDevice, appOf, ShellsAreInRoom, CloseFollowsShell, BothUp

-----------------------------------------------------------------------------
LEMMA ShellsStep == ShellsInv /\ [TermNext]_allVars => ShellsInv'
<1> SUFFICES ASSUME ShellsInv, [TermNext]_allVars PROVE ShellsInv'
  OBVIOUS
<1>1. TermTypeOK /\ TypeOK
  BY DEF ShellsInv, TermTypeOK
<1>2. ASSUME UNCHANGED gwVars PROVE TypeOK'
  BY <1>1, <1>2 DEF TypeOK, gwVars
<1>3. CASE PresenceStep
  BY <1>1, <1>3, WireStep DEF PresenceStep, Next, TermTypeOK
<1>4. CASE BackendDeath
  <2>1. /\ viewer' \in [Viewer -> BOOLEAN]
        /\ open' \in [Session -> {"idle", "seen", "error", "opened", "closed", "ended"}]
        /\ \A t \in Session : open'[t] = "closed" => open[t] = "closed"
    BY <1>1, <1>4 DEF BackendDeath, TermTypeOK
  <2>. QED
    BY <1>4, <2>1, WireStep DEF BackendDeath, Next
<1>5. ASSUME NEW t \in Session, OpenFind(t) PROVE ShellsInv'
  BY <1>1, <1>2, <1>5, BrowserStep DEF OpenFind, TermTypeOK, wireVars, shellVars, busVars
<1>6. ASSUME NEW t \in Session, OpenStart(t) PROVE ShellsInv'
  <2>1. CASE isAppConnected(TermApp[t])
    BY <1>6, <2>1, OpenStep
  <2>2. CASE ~isAppConnected(TermApp[t])
    BY <1>1, <1>2, <1>6, <2>2, BrowserStep DEF OpenStart, TermTypeOK, shellVars, busVars
  <2>. QED
    BY <2>1, <2>2
<1>7. ASSUME NEW t \in Session, CloseOne(t) PROVE ShellsInv'
  BY <1>1, <1>7, CloseStep DEF CloseOne, TermTypeOK
<1>8. ASSUME NEW v \in Viewer, Leave(v) PROVE ShellsInv'
  <2>1. {t \in sessions : ViewerOf[t] = v} \in SUBSET Session
    BY DEF sessions
  <2>2. viewer' \in [Viewer -> BOOLEAN]
    BY <1>1, <1>8 DEF Leave, TermTypeOK
  <2>. QED
    BY <1>8, <2>1, <2>2, CloseStep DEF Leave
<1>9. ASSUME NEW T \in SUBSET Session, EndSessions(T)
      PROVE  /\ open' \in [Session -> {"idle", "seen", "error", "opened", "closed", "ended"}]
             /\ \A t \in Session : open'[t] = "closed" => open[t] = "closed"
  BY <1>1, <1>9 DEF EndSessions, TermTypeOK
<1>10. ASSUME NEW t \in Session, DeliverExit(t) PROVE ShellsInv'
  BY <1>1, <1>2, <1>9, <1>10, BrowserStep DEF DeliverExit, TermTypeOK, wireVars, shellVars
<1>11. ASSUME NEW s \in Socket, DeliverOffline(s) PROVE ShellsInv'
  BY <1>1, <1>2, <1>9, <1>11, BrowserStep DEF DeliverOffline, TermTypeOK, wireVars, shellVars
<1>12. ASSUME NEW s \in Socket, NEW t \in Session, ReceiveExit(s, t) PROVE ShellsInv'
  BY <1>1, <1>2, <1>12, BrowserStep DEF ReceiveExit, TermTypeOK, shellVars
<1>13. CASE UNCHANGED allVars
  BY <1>1, <1>2, <1>13, BrowserStep
     DEF allVars, termVars, wireVars, shellVars, busVars, TermTypeOK
<1>. QED
  BY <1>3, <1>4, <1>5, <1>6, <1>7, <1>8, <1>10, <1>11, <1>12, <1>13, StartStep, ReceiveCloseStep,
     ShellExitsStep DEF TermNext, TermStep

-----------------------------------------------------------------------------
(* Why an open session will be ended.                                      *)

(* What a step but the backend's death does to a connection that may still
   have to end sessions: it stays in its room or its departure is handled.  *)
LEMMA PresenceKeeps ==
  ASSUME ShellsInv, PresenceStep, NEW s \in Socket, NEW t \in Session, s \in AppSockets(TermApp[t]),
         Heard(t, s) \/ disc[s] # "none" \/ s \in offBus
  PROVE  s \in AppSockets(TermApp[t])' /\ (Heard(t, s)' \/ disc'[s] # "none" \/ s \in offBus')
<1>1. Step /\ WireFollows /\ ShellsFollow /\ GatewayInv /\ GatewayInv' /\ TermTypeOK
  BY GatewayNext DEF ShellsInv, PresenceStep, Next
<1>2. /\ cl \in [Socket -> {"up", "down"}] /\ sv \in [Socket -> {"up", "down"}]
      /\ cl' \in [Socket -> {"up", "down"}] /\ TermApp[t] \in App
  BY <1>1, TermAppType DEF GatewayInv, TypeOK
<1>3. owner[s] \in Agent /\ AppOf[owner[s]] = TermApp[t]
  BY DEF AppSockets, appOf
<1>4. CASE disc[s] # "none"
  <2>1. owner'[s] = owner[s] /\ (disc'[s] # "none" \/ disc[s] = "publish")
    BY <1>1, <1>4, DepartureGoesOn
  <2>. QED
    BY <1>3, <2>1 DEF AppSockets, appOf, PresenceStep
<1>5. CASE s \in offBus
  <2>1. cl'[s] = "up" => cl[s] = "up"
    BY <1>5 DEF PresenceStep
  <2>2. owner'[s] = owner[s]
    BY <1>1, <2>1, NewConnection DEF Unused
  <2>. QED
    BY <1>3, <1>5, <2>2 DEF AppSockets, appOf, PresenceStep
<1>6. CASE Heard(t, s)
  <2>1. s \in rooms[TermApp[t]] /\ sv[s] = "up"
    BY <1>1, <1>2, <1>6, RoomMember DEF Heard
  <2>2. owner'[s] = owner[s] /\ (cl'[s] = "up" => cl[s] = "up") /\ (sv'[s] = "up" => sv[s] = "up")
    BY <1>1, <2>1, ConnectionStep DEF Next
  <2>3. CASE s \notin rooms'[TermApp[t]]
    BY <1>1, <1>2, <1>3, <2>1, <2>2, <2>3, LeavingStep DEF AppSockets, appOf
  <2>4. CASE s \in rooms'[TermApp[t]] /\ cl'[s] = "down"
    BY <1>3, <2>2, <2>4 DEF AppSockets, appOf, Heard
  <2>5. CASE s \in rooms'[TermApp[t]] /\ cl'[s] = "up"
    <3>1. sv'[s] = "up"
      BY <1>1, <1>2, <2>5 DEF GatewayInv, RoomsMatchMap
    <3>2. starts'[s] = starts[s] /\ exits'[s] = exits[s]
      BY <2>1, <2>5, <3>1 DEF WireFollows, PresenceStep
    <3>3. ASSUME NEW a \in Agent, a = owner[s] PROVE pty'[a] = pty[a]
      <4>1. proc'[a] = "running" /\ Connected(a)'
        BY <1>1, <2>2, <2>5, <3>3 DEF GatewayInv, OneConnectionEach, Connected
      <4>. QED
        BY <1>1, <4>1 DEF ShellsFollow, Disconnects, TermTypeOK
    <3>4. ShellAt(t, s) \/ t \in exits[s]
      BY <1>2, <1>6, <2>2, <2>5 DEF Heard
    <3>. QED
      BY <1>3, <2>2, <2>5, <3>2, <3>3, <3>4 DEF AppSockets, appOf, Heard, ShellAt
  <2>. QED
    BY <1>2, <2>3, <2>4, <2>5
<1>. QED
  BY <1>4, <1>5, <1>6


(* A step of the gateways or of the agents that takes nothing from a session
   but its place on the way to exitBus.                                    *)
LEMMA QuietKeeps ==
  ASSUME SessionsInv, ShellsInv', UNCHANGED <<owner, cl, rooms, disc>>,
         sessions' \subseteq sessions,
         \A s \in Socket : \A t \in closes'[s] : t \in closes[s] \/ open'[t] = "closed",
         \A t \in Session : open[t] = "closed" => open'[t] = "closed",
         \A t \in sessions' : t \in exitBus => t \in exitBus',
         \A t \in sessions', s \in Socket :
           s \in AppSockets(TermApp[t]) /\ s \in offBus => s \in offBus',
         \A t \in sessions', s \in Socket :
           s \in rooms[TermApp[t]] /\ (ShellAt(t, s) \/ t \in exits[s]) =>
             ShellAt(t, s)' \/ t \in exits'[s] \/ cl[s] = "down" \/ t \in exitBus'
  PROVE  SessionsInv'
<1>1. ClosesAreOfClosed'
  BY DEF SessionsInv, ShellsInv, TermTypeOK, ClosesAreOfClosed
<1>2. SessionHasAnEnd'
  <2> SUFFICES ASSUME NEW t \in sessions', t \notin exitBus'
               PROVE  \E s \in AppSockets(TermApp[t])' :
                        Heard(t, s)' \/ disc'[s] # "none" \/ s \in offBus'
    BY DEF SessionHasAnEnd
  <2>1. t \in sessions /\ t \in Session
    BY DEF sessions
  <2>2. PICK s \in AppSockets(TermApp[t]) : Heard(t, s) \/ disc[s] # "none" \/ s \in offBus
    BY <2>1 DEF SessionsInv, SessionHasAnEnd
  <2>3. s \in Socket /\ s \in AppSockets(TermApp[t])'
    BY DEF AppSockets, appOf
  <2>4. Heard(t, s) => Heard(t, s)'
    BY <2>3 DEF Heard
  <2>. QED
    BY <2>2, <2>3, <2>4
<1>. QED
  BY <1>1, <1>2 DEF SessionsInv

LEMMA SessionsStart == TermInit => SessionsInv
<1> SUFFICES ASSUME TermInit PROVE SessionsInv
  OBVIOUS
<1>1. ClosesAreOfClosed /\ SessionHasAnEnd
  BY DEF TermInit, ClosesAreOfClosed, SessionHasAnEnd, sessions
<1>. QED
  BY <1>1, ShellsStart DEF SessionsInv

LEMMA SessionsStep == SessionsInv /\ [TermNext]_allVars => SessionsInv'
<1> SUFFICES ASSUME SessionsInv, [TermNext]_allVars PROVE SessionsInv'
  OBVIOUS
<1>1. ShellsInv /\ ShellsInv' /\ ClosesAreOfClosed /\ SessionHasAnEnd /\ TermTypeOK /\ GatewayInv
  BY ShellsStep DEF SessionsInv, ShellsInv
<1>2. CASE PresenceStep
  <2>1. ClosesAreOfClosed'
    BY <1>1, <1>2 DEF PresenceStep, WireFollows, ClosesAreOfClosed
  <2>2. SessionHasAnEnd'
    <3> SUFFICES ASSUME NEW t \in sessions, t \notin exitBus
                 PROVE  \E s \in AppSockets(TermApp[t])' :
                          Heard(t, s)' \/ disc'[s] # "none" \/ s \in offBus'
      BY <1>2 DEF SessionHasAnEnd, PresenceStep, sessions
    <3>1. PICK s \in AppSockets(TermApp[t]) : Heard(t, s) \/ disc[s] # "none" \/ s \in offBus
      BY <1>1 DEF SessionHasAnEnd
    <3>2. s \in Socket /\ t \in Session
      BY DEF AppSockets, sessions
    <3>. QED
      BY <1>1, <1>2, <3>1, <3>2, PresenceKeeps
  <2>. QED
    BY <1>1, <2>1, <2>2 DEF SessionsInv
<1>3. CASE BackendDeath
  <2>1. sessions' = {}
    BY <1>1, <1>3 DEF BackendDeath, sessions, TermTypeOK
  <2>2. ClosesAreOfClosed'
    BY <1>1, <1>3 DEF BackendDeath, WireFollows, ClosesAreOfClosed, TermTypeOK
  <2>. QED
    BY <1>1, <2>1, <2>2 DEF SessionsInv, SessionHasAnEnd
<1>4. ASSUME UNCHANGED gwVars PROVE UNCHANGED <<owner, cl, rooms, disc>>
  BY <1>4 DEF gwVars
<1> USE DEF wireVars, shellVars, busVars
<1>5. ASSUME NEW t \in Session, OpenFind(t) PROVE SessionsInv'
  <2>1. UNCHANGED <<starts, closes, exits, pty, dying, exitBus, offBus>> /\ UNCHANGED gwVars
    BY <1>5 DEF OpenFind
  <2>2. sessions' \subseteq sessions /\ \A i \in Session : open[i] = "closed" => open'[i] = "closed"
    BY <1>1, <1>5 DEF OpenFind, sessions, TermTypeOK
  <2>. QED
    BY <1>1, <1>4, <2>1, <2>2, QuietKeeps DEF ShellAt
<1>6. ASSUME NEW t \in Session, OpenStart(t) PROVE SessionsInv'
  <2>1. /\ UNCHANGED <<closes, exits, pty, dying, exitBus, offBus>> /\ UNCHANGED gwVars
        /\ open[t] = "seen"
        /\ \A i \in Session \ {t} : open'[i] = open[i]
        /\ \A s \in Socket : starts[s] \subseteq starts'[s]
    BY <1>1, <1>6 DEF OpenStart, Emit, TermTypeOK
  <2>2. ClosesAreOfClosed'
    BY <1>1, <2>1 DEF ClosesAreOfClosed, TermTypeOK
  <2>3. SessionHasAnEnd'
    <3> SUFFICES ASSUME NEW i \in sessions', i \notin exitBus
                 PROVE  \E s \in AppSockets(TermApp[i])' :
                          Heard(i, s)' \/ disc'[s] # "none" \/ s \in offBus'
      BY <2>1 DEF SessionHasAnEnd
    <3>1. CASE i = t
      <4>1. starts' = Emit(starts, {t}) /\ TermApp[t] \in App
        BY <1>1, <1>6, <3>1, TermAppType DEF OpenStart, sessions, TermTypeOK
      <4>2. PICK s \in rooms[TermApp[t]] : TRUE
        BY <1>1, <1>6, <3>1 DEF OpenStart, sessions, TermTypeOK, isAppConnected
      <4>3. s \in Socket /\ owner[s] \in Agent /\ appOf(s) = TermApp[t]
        BY <1>1, <4>1, RoomMember
      <4>4. t \in starts'[s]
        BY <4>1, <4>2, <4>3 DEF Emit
      <4>. QED
        BY <1>4, <2>1, <3>1, <4>2, <4>3, <4>4 DEF AppSockets, appOf, Heard, ShellAt
    <3>2. CASE i # t
      <4>1. i \in sessions
        BY <2>1, <3>2 DEF sessions
      <4>2. PICK s \in AppSockets(TermApp[i]) : Heard(i, s) \/ disc[s] # "none" \/ s \in offBus
        BY <1>1, <2>1, <4>1 DEF SessionHasAnEnd
      <4>. QED
        BY <1>4, <2>1, <4>2 DEF AppSockets, appOf, Heard, ShellAt
    <3>. QED
      BY <3>1, <3>2
  <2>. QED
    BY <1>1, <2>2, <2>3 DEF SessionsInv
<1>7. ASSUME NEW T \in SUBSET Session, T \subseteq sessions, CloseSessions(T) PROVE SessionsInv'
  <2>1. UNCHANGED <<starts, exits, pty, dying, exitBus, offBus>> /\ UNCHANGED gwVars
    BY <1>7 DEF CloseSessions
  <2>2. /\ sessions' \subseteq sessions
        /\ \A i \in Session : open[i] = "closed" => open'[i] = "closed"
        /\ \A i \in T : open'[i] = "closed"
    BY <1>1, <1>7 DEF CloseSessions, sessions, TermTypeOK
  <2>3. \A s \in Socket : \A i \in closes'[s] : i \in closes[s] \/ open'[i] = "closed"
    BY <1>7, <2>2 DEF CloseSessions, Emit
  <2>. QED
    BY <1>1, <1>4, <2>1, <2>2, <2>3, QuietKeeps DEF ShellAt
<1>8. ASSUME NEW T \in SUBSET Session, EndSessions(T)
      PROVE  /\ sessions' = sessions \ T
             /\ \A i \in Session : open[i] = "closed" => open'[i] = "closed"
  BY <1>1, <1>8 DEF EndSessions, sessions, TermTypeOK
<1>9. ASSUME NEW t \in Session, DeliverExit(t) PROVE SessionsInv'
  <2>1. /\ UNCHANGED <<starts, closes, exits, pty, dying, offBus>> /\ UNCHANGED gwVars
        /\ exitBus' = exitBus \ {t} /\ EndSessions({t})
    BY <1>9 DEF DeliverExit
  <2>. QED
    BY <1>1, <1>4, <1>8, <2>1, QuietKeeps DEF ShellAt
<1>10. ASSUME NEW s \in Socket, DeliverOffline(s) PROVE SessionsInv'
  <2>1. /\ UNCHANGED <<starts, closes, exits, pty, dying, exitBus>> /\ UNCHANGED gwVars
        /\ offBus' = offBus \ {s} /\ EndSessions({t \in Session : TermApp[t] = appOf(s)})
    BY <1>10 DEF DeliverOffline
  <2>2. sessions' = sessions \ {t \in Session : TermApp[t] = appOf(s)}
        /\ \A i \in Session : open[i] = "closed" => open'[i] = "closed"
    BY <1>8, <2>1
  <2>3. \A t \in sessions', u \in Socket : u \in AppSockets(TermApp[t]) /\ u \in offBus => u \in offBus'
    BY <2>1, <2>2 DEF AppSockets, sessions
  <2>. QED
    BY <1>1, <1>4, <2>1, <2>2, <2>3, QuietKeeps DEF ShellAt
<1>11. ASSUME NEW s \in Socket, NEW t \in Session, ReceiveStart(s, t) PROVE SessionsInv'
  <2>1. /\ UNCHANGED <<open, closes, exits, exitBus, offBus>> /\ UNCHANGED gwVars
        /\ owner[s] \in Agent /\ starts' = [starts EXCEPT ![s] = @ \ {t}]
        /\ pty' = [pty EXCEPT ![owner[s]] = @ \cup {t}]
    BY <1>1, <1>11 DEF ReceiveStart, ShellsInv, OnlyOnItsDevice
  <2>2. \A i \in Session, u \in Socket : ShellAt(i, u) => ShellAt(i, u)'
    BY <1>1, <1>4, <2>1 DEF ShellAt, TermTypeOK
  <2>3. sessions' = sessions
    BY <2>1 DEF sessions
  <2>. QED
    BY <1>1, <1>4, <2>1, <2>2, <2>3, QuietKeeps DEF sessions
<1>12. ASSUME NEW s \in Socket, NEW t \in Session, ReceiveClose(s, t) PROVE SessionsInv'
  <2>1. /\ UNCHANGED <<open, starts, exits, exitBus, offBus>> /\ UNCHANGED gwVars
        /\ t \in closes[s] /\ closes' = [closes EXCEPT ![s] = @ \ {t}]
        /\ pty' = [pty EXCEPT ![owner[s]] = @ \ {t}]
    BY <1>12 DEF ReceiveClose
  <2>2. open[t] = "closed" /\ \A u \in Socket : closes'[u] \subseteq closes[u]
    BY <1>1, <2>1 DEF ClosesAreOfClosed, TermTypeOK
  <2>3. sessions' = sessions /\ t \notin sessions
    BY <2>1, <2>2 DEF sessions
  <2>4. \A i \in sessions, u \in Socket : ShellAt(i, u) => ShellAt(i, u)'
    BY <1>1, <1>4, <2>1, <2>3 DEF ShellAt, TermTypeOK
  <2>. QED
    BY <1>1, <1>4, <2>1, <2>2, <2>3, <2>4, QuietKeeps DEF sessions
<1>13. ASSUME NEW a \in Agent, NEW t \in Session, ShellExits(a, t) PROVE SessionsInv'
  <2>1. /\ UNCHANGED <<open, starts, closes, exitBus, offBus>> /\ UNCHANGED gwVars
        /\ pty' = [pty EXCEPT ![a] = @ \ {t}]
        /\ exits' = [s \in Socket |-> IF owner[s] = a /\ cl[s] = "up" /\ sv[s] = "up"
                                      THEN exits[s] \cup {t} ELSE exits[s]]
    BY <1>13 DEF ShellExits
  <2>2. sessions' = sessions
    BY <2>1 DEF sessions
  <2>3. ASSUME NEW i \in sessions, NEW s \in Socket, s \in rooms[TermApp[i]],
               ShellAt(i, s) \/ i \in exits[s]
        PROVE  ShellAt(i, s)' \/ i \in exits'[s] \/ cl[s] = "down"
    <3>1. i \in Session /\ TermApp[i] \in App
      BY TermAppType DEF sessions
    <3>2. sv[s] = "up" /\ cl[s] \in {"up", "down"}
      BY <1>1, <2>3, <3>1, RoomMember DEF GatewayInv, TypeOK
    <3>3. CASE i \in starts[s]
      BY <2>1, <3>3 DEF ShellAt
    <3>4. CASE i \in exits[s]
      BY <2>1, <3>4
    <3>5. ASSUME NEW b \in Agent, owner[s] = b, i \in pty[b]
          PROVE  ShellAt(i, s)' \/ i \in exits'[s] \/ cl[s] = "down"
      <4>1. CASE b = a /\ i = t
        BY <2>1, <3>2, <3>5, <4>1
      <4>2. CASE b # a \/ i # t
        BY <1>1, <1>4, <2>1, <3>5, <4>2 DEF ShellAt, TermTypeOK
      <4>. QED
        BY <4>1, <4>2
    <3>. QED
      BY <2>3, <3>3, <3>4, <3>5 DEF ShellAt
  <2>. QED
    BY <1>1, <1>4, <2>1, <2>2, <2>3, QuietKeeps
<1>14. ASSUME NEW s \in Socket, NEW t \in Session, ReceiveExit(s, t) PROVE SessionsInv'
  <2>1. /\ UNCHANGED <<open, starts, closes, pty, dying, offBus>> /\ UNCHANGED gwVars
        /\ exits' = [exits EXCEPT ![s] = @ \ {t}] /\ exitBus' = exitBus \cup {t}
    BY <1>14 DEF ReceiveExit
  <2>2. sessions' = sessions
    BY <2>1 DEF sessions
  <2>3. \A i \in Session, u \in Socket : i \in exits[u] => i \in exits'[u] \/ i \in exitBus'
    BY <1>1, <2>1 DEF TermTypeOK
  <2>. QED
    BY <1>1, <1>4, <2>1, <2>2, <2>3, QuietKeeps DEF ShellAt, sessions
<1>15. CASE UNCHANGED allVars
  <2>1. UNCHANGED <<open, starts, closes, exits, pty, dying, exitBus, offBus>> /\ UNCHANGED gwVars
    BY <1>15 DEF allVars, termVars
  <2>2. sessions' = sessions
    BY <2>1 DEF sessions
  <2>. QED
    BY <1>1, <1>4, <2>1, <2>2, QuietKeeps DEF ShellAt
<1>16. ASSUME NEW t \in Session, CloseOne(t) PROVE SessionsInv'
  BY <1>7, <1>16 DEF CloseOne
<1>17. ASSUME NEW v \in Viewer, Leave(v) PROVE SessionsInv'
  <2>1. {t \in sessions : ViewerOf[t] = v} \subseteq sessions
        /\ {t \in sessions : ViewerOf[t] = v} \in SUBSET Session
    BY DEF sessions
  <2>. QED
    BY <1>7, <1>17, <2>1 DEF Leave
<1>. QED
  BY <1>2, <1>3, <1>5, <1>6, <1>9, <1>10, <1>11, <1>12, <1>13, <1>14, <1>15, <1>16, <1>17
     DEF TermNext, TermStep

-----------------------------------------------------------------------------
(* Why no shell is replaced.                                               *)

LEMMA TermStarts == TermInit => TermInv
<1> SUFFICES ASSUME TermInit PROVE TermInv
  OBVIOUS
<1>1. UnopenedIsNowhere /\ NoShellIsReplaced
  BY DEF TermInit, UnopenedIsNowhere, NoShellIsReplaced
<1>. QED
  BY <1>1, SessionsStart DEF TermInv

(* A step that asks for no shell and makes none.                           *)
LEMMA NoStartKeeps ==
  ASSUME TermInv, SessionsInv',
         \A s \in Socket : starts'[s] \subseteq starts[s],
         \A s \in Socket : starts'[s] # {} /\ cl'[s] = "up" => cl[s] = "up" /\ owner'[s] = owner[s],
         \A a \in Agent : pty'[a] \cup dying'[a] \subseteq pty[a] \cup dying[a],
         \A t \in Session : open'[t] \in {"idle", "seen", "error"} => open[t] \in {"idle", "seen", "error"}
  PROVE  TermInv'
<1>1. UnopenedIsNowhere'
  BY DEF TermInv, UnopenedIsNowhere
<1>2. NoShellIsReplaced'
  <2> SUFFICES ASSUME NEW s \in Socket, NEW t \in starts'[s], cl'[s] = "up"
               PROVE  t \notin pty'[owner'[s]] \cup dying'[owner'[s]]
    BY DEF NoShellIsReplaced
  <2>1. t \in starts[s] /\ cl[s] = "up" /\ owner'[s] = owner[s]
    OBVIOUS
  <2>2. owner[s] \in Agent
    BY <2>1 DEF TermInv, SessionsInv, ShellsInv, OnlyOnItsDevice
  <2>3. t \notin pty[owner[s]] \cup dying[owner[s]]
    BY <2>1 DEF TermInv, NoShellIsReplaced
  <2>. QED
    BY <2>1, <2>2, <2>3
<1>. QED
  BY <1>1, <1>2 DEF TermInv

LEMMA TermSteps == TermInv /\ [TermNext]_allVars => TermInv'
<1> SUFFICES ASSUME TermInv, [TermNext]_allVars PROVE TermInv'
  OBVIOUS
<1>1. SessionsInv /\ SessionsInv' /\ ShellsInv /\ TermTypeOK /\ GatewayInv
  BY SessionsStep DEF TermInv, SessionsInv, ShellsInv
<1>2. ASSUME Next, WireFollows, ShellsFollow,
             \A t \in Session : open'[t] \in {"idle", "seen", "error"} => open[t] \in {"idle", "seen", "error"}
      PROVE  TermInv'
  <2>1. \A s \in Socket : starts'[s] \subseteq starts[s]
    BY <1>2 DEF WireFollows
  <2>2. ASSUME NEW s \in Socket, starts'[s] # {}, cl'[s] = "up"
        PROVE  cl[s] = "up" /\ owner'[s] = owner[s]
    <3>1. cl[s] = "up" \/ sv[s] = "up"
      BY <1>1, <2>1, <2>2 DEF ShellsInv, WireHasEnds
    <3>. QED
      BY <1>1, <1>2, <2>2, <3>1, ConnectionStep DEF GatewayInv, TypeOK
  <2>3. \A a \in Agent : pty'[a] \cup dying'[a] \subseteq pty[a] \cup dying[a]
    BY <1>2 DEF ShellsFollow
  <2>. QED
    BY <1>1, <1>2, <2>1, <2>2, <2>3, NoStartKeeps
<1>3. CASE PresenceStep
  BY <1>2, <1>3 DEF PresenceStep, Next
<1>4. CASE BackendDeath
  <2>1. \A t \in Session : open'[t] \in {"idle", "seen", "error"} => open[t] \in {"idle", "seen", "error"}
    BY <1>4 DEF BackendDeath
  <2>. QED
    BY <1>2, <1>4, <2>1 DEF BackendDeath, Next
<1> USE DEF wireVars, shellVars, busVars
<1>5. ASSUME UNCHANGED gwVars PROVE UNCHANGED <<owner, cl, rooms>>
  BY <1>5 DEF gwVars
<1>6. ASSUME NEW T, EndSessions(T) \/ CloseSessions(T)
      PROVE  \A t \in Session : open'[t] \in {"idle", "seen", "error"} => open[t] \in {"idle", "seen", "error"}
  BY <1>6 DEF EndSessions, CloseSessions
<1>7. ASSUME NEW t \in Session, OpenStart(t) PROVE TermInv'
  <2>1. /\ UNCHANGED <<pty, dying>> /\ UNCHANGED gwVars
        /\ open[t] = "seen"
        /\ \A i \in Session \ {t} : open'[i] = open[i]
        /\ starts' = starts \/ (starts' = Emit(starts, {t}) /\ open'[t] = "opened")
    BY <1>1, <1>7 DEF OpenStart, TermTypeOK
  <2>2. \A s \in Socket : starts'[s] \subseteq starts[s] \cup {t}
    BY <2>1 DEF Emit
  <2>3. /\ \A s \in Socket : t \notin starts[s]
        /\ \A a \in Agent : t \notin pty[a] \cup dying[a]
    BY <2>1 DEF TermInv, UnopenedIsNowhere
  <2>4. UnopenedIsNowhere'
    BY <1>1, <2>1, <2>2, <2>3 DEF TermInv, UnopenedIsNowhere
  <2>5. NoShellIsReplaced'
    <3> SUFFICES ASSUME NEW s \in Socket, NEW i \in starts'[s], cl'[s] = "up"
                 PROVE  i \notin pty'[owner'[s]] \cup dying'[owner'[s]]
      BY DEF NoShellIsReplaced
    <3>1. owner'[s] \in Agent
      BY <1>1 DEF SessionsInv, ShellsInv, OnlyOnItsDevice
    <3>2. CASE i = t
      BY <1>5, <2>1, <2>3, <3>1, <3>2
    <3>3. CASE i # t
      BY <1>5, <2>1, <2>2, <3>3 DEF TermInv, NoShellIsReplaced
    <3>. QED
      BY <3>2, <3>3
  <2>. QED
    BY <1>1, <2>4, <2>5 DEF TermInv
<1>8. ASSUME NEW s \in Socket, NEW t \in Session, ReceiveStart(s, t) PROVE TermInv'
  <2>1. /\ UNCHANGED <<open, dying>> /\ UNCHANGED gwVars
        /\ owner[s] \in Agent /\ cl[s] = "up" /\ t \in starts[s]
        /\ \A u \in Socket \ {s} : starts'[u] = starts[u]
        /\ starts'[s] = starts[s] \ {t}
        /\ \A a \in Agent \ {owner[s]} : pty'[a] = pty[a]
        /\ pty'[owner[s]] = pty[owner[s]] \cup {t}
    BY <1>1, <1>8 DEF ReceiveStart, ShellsInv, OnlyOnItsDevice, TermTypeOK
  <2>2. UnopenedIsNowhere'
    BY <2>1 DEF TermInv, UnopenedIsNowhere
  <2>3. NoShellIsReplaced'
    <3> SUFFICES ASSUME NEW u \in Socket, NEW i \in starts'[u], cl[u] = "up"
                 PROVE  i \notin pty'[owner[u]] \cup dying[owner[u]]
      BY <1>5, <2>1 DEF NoShellIsReplaced
    <3>1. i \in starts[u]
      BY <2>1
    <3>2. i \notin pty[owner[u]] \cup dying[owner[u]] /\ owner[u] \in Agent
      BY <1>1, <3>1 DEF TermInv, NoShellIsReplaced, ShellsInv, OnlyOnItsDevice
    <3>3. owner[u] = owner[s] => u = s
      BY <1>1, <2>1, OneEnd
    <3>. QED
      BY <2>1, <3>2, <3>3
  <2>. QED
    BY <1>1, <2>2, <2>3 DEF TermInv
<1>9. ASSUME NEW s \in Socket, NEW t \in Session, ReceiveClose(s, t) PROVE TermInv'
  <2>1. UNCHANGED <<open, starts>> /\ UNCHANGED gwVars
    BY <1>9 DEF ReceiveClose
  <2>2. \A a \in Agent : pty'[a] \cup dying'[a] \subseteq pty[a] \cup dying[a]
    BY <1>1, <1>9 DEF ReceiveClose, TermTypeOK
  <2>. QED
    BY <1>1, <1>5, <2>1, <2>2, NoStartKeeps
<1>10. ASSUME NEW a \in Agent, NEW t \in Session, ShellExits(a, t) PROVE TermInv'
  <2>1. UNCHANGED <<open, starts>> /\ UNCHANGED gwVars
    BY <1>10 DEF ShellExits
  <2>2. \A b \in Agent : pty'[b] \cup dying'[b] \subseteq pty[b] \cup dying[b]
    BY <1>1, <1>10 DEF ShellExits, TermTypeOK
  <2>. QED
    BY <1>1, <1>5, <2>1, <2>2, NoStartKeeps
<1>11. ASSUME UNCHANGED gwVars, UNCHANGED <<starts, pty, dying>>,
              \A t \in Session : open'[t] \in {"idle", "seen", "error"} => open[t] \in {"idle", "seen", "error"}
       PROVE  TermInv'
  BY <1>1, <1>5, <1>11, NoStartKeeps
<1>12. ASSUME NEW t \in Session, OpenFind(t) \/ CloseOne(t) \/ DeliverExit(t) PROVE TermInv'
  <2>1. \A i \in Session : open'[i] \in {"idle", "seen", "error"} => open[i] \in {"idle", "seen", "error"}
    BY <1>1, <1>6, <1>12 DEF OpenFind, CloseOne, DeliverExit, TermTypeOK
  <2>. QED
    BY <1>11, <1>12, <2>1 DEF OpenFind, CloseOne, CloseSessions, DeliverExit
<1>13. ASSUME NEW v \in Viewer, Leave(v) PROVE TermInv'
  BY <1>6, <1>11, <1>13 DEF Leave, CloseSessions
<1>14. ASSUME NEW s \in Socket, DeliverOffline(s) PROVE TermInv'
  BY <1>6, <1>11, <1>14 DEF DeliverOffline
<1>15. ASSUME NEW s \in Socket, NEW t \in Session, ReceiveExit(s, t) PROVE TermInv'
  BY <1>11, <1>15 DEF ReceiveExit
<1>16. CASE UNCHANGED allVars
  BY <1>11, <1>16 DEF allVars, termVars
<1>. QED
  BY <1>3, <1>4, <1>7, <1>8, <1>9, <1>10, <1>12, <1>13, <1>14, <1>15, <1>16 DEF TermNext, TermStep

(* TermInv holds whatever browsers, agents, connections and faults there are. *)
THEOREM TerminalInvariant == TermSpec => []TermInv
BY TermStarts, TermSteps, PTL DEF TermSpec

(* When a browser is done with a session, no shell of it on a working
   connection is without a terminal:close coming.                          *)
THEOREM CloseAlwaysFollowsShell == TermSpec => []CloseFollowsShell
<1>1. TermInv => CloseFollowsShell
  BY DEF TermInv, SessionsInv, ShellsInv
<1>. QED
  BY <1>1, TerminalInvariant, PTL

(* Shells run only on the device they were opened for.                     *)
THEOREM ShellsAlwaysOnTheirDevice == TermSpec => []OnlyOnItsDevice
<1>1. TermInv => OnlyOnItsDevice
  BY DEF TermInv, SessionsInv, ShellsInv
<1>. QED
  BY <1>1, TerminalInvariant, PTL

(* An agent that is not connected has no shell a browser could be at.      *)
THEOREM ShellsAlwaysNeedConnection == TermSpec => []ShellsNeedConnection
<1>1. TermInv => ShellsNeedConnection
  BY DEF TermInv, SessionsInv, ShellsInv
<1>. QED
  BY <1>1, TerminalInvariant, PTL

(* The gateway's own theorems hold with the terminals in place.            *)
THEOREM TerminalsKeepGateway == TermSpec => []GatewayInv
<1>1. TermInv => GatewayInv
  BY DEF TermInv, SessionsInv, ShellsInv
<1>. QED
  BY <1>1, TerminalInvariant, PTL

(* No open session is left without a shell and without anything under way
   that will end it, whatever was lost, and in whatever order the shell's
   end, the departure and the next connection were handled.                *)
THEOREM SessionsAreAlwaysAccountedFor == TermSpec => []SessionIsAccountedFor
<1>1. ASSUME TermInv PROVE SessionIsAccountedFor
  <2> SUFFICES ASSUME NEW t \in sessions, t \notin exitBus
               PROVE  \E s \in AppSockets(TermApp[t]) : ShellAt(t, s) \/ Ending(t, s)
    BY DEF SessionIsAccountedFor
  <2>1. PICK s \in AppSockets(TermApp[t]) : Heard(t, s) \/ disc[s] # "none" \/ s \in offBus
    BY <1>1 DEF TermInv, SessionsInv, SessionHasAnEnd
  <2>2. Heard(t, s) => sv[s] = "up"
    BY <1>1, TermAppType, RoomMember DEF Heard, TermInv, SessionsInv, ShellsInv, sessions
  <2>. QED
    BY <2>1, <2>2 DEF Heard, Ending
<1>. QED
  BY <1>1, TerminalInvariant, PTL

(* No agent is asked for a shell of a session it already has one of.       *)
THEOREM ShellsAreNeverReplaced == TermSpec => []NoShellIsReplaced
<1>1. TermInv => NoShellIsReplaced
  BY DEF TermInv
<1>. QED
  BY <1>1, TerminalInvariant, PTL

(* The terminals implement the presence protocol: whatever is shown of it
   alone, they leave as it is.                                             *)
THEOREM TerminalsImplementPresence == TermSpec => Spec
<1>1. TermInit => Init
  BY DEF TermInit
<1>2. [TermNext]_allVars => [Next]_gwVars
  <2>1. PresenceStep \/ BackendDeath => Next
    BY DEF PresenceStep, BackendDeath, Next
  <2>2. TermStep => UNCHANGED gwVars
    BY DEF TermStep, OpenFind, OpenStart, CloseOne, CloseSessions, Leave, DeliverExit, DeliverOffline,
           ReceiveStart, ReceiveClose, ReceiveExit, ShellExits
  <2>3. UNCHANGED allVars => UNCHANGED gwVars
    BY DEF allVars
  <2>. QED
    BY <2>1, <2>2, <2>3 DEF TermNext
<1>. QED
  BY <1>1, <1>2, PTL DEF TermSpec, Spec

(* Departures are recorded with the terminals in place.                    *)
THEOREM TerminalsRecordDepartures == TermSpec => DeparturesAreRecorded
BY TerminalsImplementPresence, DeparturesAreAlwaysRecorded
=============================================================================
