SPECIFICATION RailSpec
CONSTANTS
  j1 = j1
  j2 = j2
  w1 = w1
  w2 = w2
  d1 = d1
  o1 = o1
  Nobody = Nobody
  NoManifest = NoManifest
  Jobs <- OneJob
  Workers <- Everyone
  LiveWorkers <- TwoLive
  Autonomous = {}
  Closers = {}
  DryWorkers = {}
  Modes = {FALSE}
  Incidents = {"raise", "crash", "supersede", "revoke"}
  MaxClaims = 2
  MaxCanaries = 2
  EffectCap = 1
  MaxFailures = 1
INVARIANTS
  TypeOK LeaseCoherent ClickedAtMostOnce ClickIsAuthorized LedgersAgree
PROPERTIES
  PermissionIsOneShot KeepsItsPromise
SYMMETRY LiveSymmetry
CHECK_DEADLOCK FALSE
