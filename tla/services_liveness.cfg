CONSTANTS
  c1 = c1
  c2 = c2
  q1 = q1
  q2 = q2
  Part = {"local", "fleet", "web", "cli"}
  Job = {j1, j2}
  NoJob = NoJob
  Faults = {"db", "spawn", "crash"}
  Device = {d1, d2}
  Page = {p1}
  FleetFaults = {"net", "crash"}
  Req = {r1}
  NoReq = NoReq
  Trigger = {t1}
  NoTrigger = NoTrigger
  SchedFaults = {"db", "redis", "crash"}
  Client = {c1}
  Token = {x1, x2, x3}
  NoToken = NoToken
  AuthFaults = {"db", "net"}
  Call = {q1, q2}
  TabOf <- OneTab
  Slot = {k1, k2}
  User = {u1, u2}
  Founder = u1
  Ask = {a1}
  NoAsk = NoAsk
  OrgFaults = {"db"}
  Creation = {m1}
  Edit = {e1}
  File = {f1}
  Text = {y1, y2}
  Scripts = y1
  Absent = Absent
  MaxTmplRequests = 3
  TmplFaults = {"db", "disk", "crash"}
  Try = {g1}
  NoTry = NoTry
  Dev = {v1, v2}
  NoDev = NoDev
SPECIFICATION FairSvcSpec
PROPERTIES QueueDrains PollingStops CallsSettle CommandEnds
CHECK_DEADLOCK FALSE
