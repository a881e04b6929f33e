SPECIFICATION FairRailSpec
CONSTANTS
  j1 = j1
  j2 = j2
  w1 = w1
  w2 = w2
  d1 = d1
  o1 = o1
  Nobody = Nobody
  NoManifest = NoManifest
  Jobs <- OneJob
  Workers <- Everyone
  LiveWorkers <- OneLive
  Autonomous = {}
  Closers = {o1}
  DryWorkers = {d1}
  Modes = {FALSE, TRUE}
  Incidents = {"crash"}
  MaxClaims = 2
  MaxCanaries = 1
  EffectCap = 1
  MaxFailures = 1
PROPERTIES
  EveryClaimEnds KeepsItsPromise
CHECK_DEADLOCK FALSE
