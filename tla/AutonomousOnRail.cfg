SPECIFICATION AutonomousSpec
CONSTANTS
  j1 = j1
  j2 = j2
  a1 = a1
  a2 = a2
  w1 = w1
  Nobody = Nobody
  NoManifest = NoManifest
  NoActivation = NoActivation
  Jobs <- OneJob
  Workers <- Everyone
  LiveWorkers <- OneMachine
  Autonomous <- OneMachine
  Closers <- WithHand
  TurnCeiling = 1
  MaxBudget = 1
  DryWorkers = {}
  Modes = {FALSE}
  Incidents = {"raise", "crash", "supersede", "revoke", "engage", "arm", "upgrade"}
  MaxClaims = 2
  MaxCanaries = 1
  EffectCap = 1
  MaxFailures = 1
PROPERTIES
  DriverStaysOnTheRail
CHECK_DEADLOCK FALSE
