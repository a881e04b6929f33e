SPECIFICATION RailSpec
CONSTANTS
  j1 = j1
  j2 = j2
  w1 = w1
  w2 = w2
  d1 = d1
  o1 = o1
  Nobody = Nobody
  NoManifest = NoManifest
  Jobs <- TwoJobs
  Workers <- Everyone
  LiveWorkers <- TwoLive
  Autonomous = {}
  Closers = {}
  DryWorkers = {}
  Modes = {FALSE}
  Incidents = {"raise"}
  MaxClaims = 1
  MaxCanaries = 2
  EffectCap = 1
  MaxFailures = 1
INVARIANTS
  CapNeverExceeded NothingIsLeftHeld
SYMMETRY FullSymmetry
CHECK_DEADLOCK FALSE
