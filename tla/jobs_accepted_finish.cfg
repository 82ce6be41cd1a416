CONSTANTS
  d1 = d1
  a1 = a1
  s1 = s1
  s2 = s2
  j1 = j1
  App = {d1}
  Agent = {a1}
  Socket = {s1, s2}
  AppOf <- OneAgent
  Job = {j1}
  JobApp <- ForD1
  NoAgent = NoAgent
  NoApp = NoApp
  Faults = {"net"}
SPECIFICATION FairJobSpec
PROPERTIES AcceptedJobFinishes
CHECK_DEADLOCK FALSE
