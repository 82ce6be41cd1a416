CONSTANTS
  c1 = c1
  c2 = c2
  q1 = q1
  q2 = q2
  Part = {"local", "fleet", "schedule", "web", "cli", "organization", "template", "pane"}
  Job = {j1, j2}
  NoJob = NoJob
  Faults = {"db", "redis", "crash"}
  Device = {d1, d2}
  Page = {p1}
  FleetFaults = {"db", "net", "crash"}
  Req = {r1, r2, r3}
  NoReq = NoReq
  Trigger = {t1, t2}
  NoTrigger = NoTrigger
  SchedFaults = {"db", "redis", "crash"}
  Client = {c1, c2}
  Token = {x1, x2, x3}
  NoToken = NoToken
  AuthFaults = {"db", "net", "kill"}
  Call = {q1, q2}
  TabOf <- TwoTabs
  Slot = {k1}
  User = {u1, u2}
  Founder = u1
  Ask = {a1, a2}
  NoAsk = NoAsk
  OrgFaults = {"db"}
  Creation = {m1, m2}
  Edit = {e1, e2}
  File = {f1}
  Text = {y1, y2}
  Scripts = y1
  Absent = Absent
  MaxTmplRequests = 3
  TmplFaults = {"db", "disk", "crash"}
  Try = {g1, g2, g3}
  NoTry = NoTry
  Dev = {v1, v2}
  NoDev = NoDev
SPECIFICATION SvcSpec
SYMMETRY SvcSymmetry
INVARIANTS ServicesInv FinishedMeansRan RunsAgainOnlyIfStalled CompletedIsWritten RowsAreTrue EndedPageIsFinal
           AnswersHold StoredIsUsable LogoutIsFinal OneOwner InvitesAreLinked
           CreatedStays EditsAreUndoable SessionsAreHeld
PROPERTIES KeepsContract
CHECK_DEADLOCK FALSE
