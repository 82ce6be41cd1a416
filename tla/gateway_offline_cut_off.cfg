CONSTANTS
  d1 = d1
  a1 = a1
  a2 = a2
  s1 = s1
  s2 = s2
  s3 = s3
  App = {d1}
  Agent = {a1}
  Socket = {s1, s2}
  AppOf <- OneAgent
  NoAgent = NoAgent
  NoApp = NoApp
  Faults = {"net", "crash"}
SPECIFICATION FairSpec
PROPERTIES OfflineMeansCutOff
