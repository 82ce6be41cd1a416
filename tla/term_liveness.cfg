CONSTANTS
  d1 = d1
  a1 = a1
  a2 = a2
  s1 = s1
  s2 = s2
  v1 = v1
  t1 = t1
  App = {d1}
  Agent = {a1}
  Socket = {s1, s2}
  AppOf <- OneAgent
  Viewer = {v1}
  Session = {t1}
  ViewerOf <- OneBrowser
  TermApp <- OnD1
  NoAgent = NoAgent
  NoApp = NoApp
  Faults = {"net"}
SPECIFICATION FairTermSpec
PROPERTIES ClosedShellsDie DeadSessionsEnd
CHECK_DEADLOCK FALSE
