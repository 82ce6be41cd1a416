CONSTANTS
  d1 = d1
  a1 = a1
  a2 = a2
  s1 = s1
  s2 = s2
  s3 = s3
  App = {d1}
  Agent = {a1, a2}
  Socket = {s1, s2}
  AppOf <- OneDevice
  NoAgent = NoAgent
  NoApp = NoApp
  Faults = {"register", "net", "crash", "restart", "rotate", "remove"}
SPECIFICATION FairSpec
PROPERTIES RegistrationSettles GoneIsShownOffline StableIsShownOnline AloneStaysOnline
