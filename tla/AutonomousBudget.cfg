SPECIFICATION AutonomousSpec
CONSTANTS
  j1 = j1
  j2 = j2
  a1 = a1
  a2 = a2
  w1 = w1
  Nobody = Nobody
  NoManifest = NoManifest
  NoActivation = NoActivation
  Jobs <- TwoJobs
  Workers <- Everyone
  LiveWorkers <- OneMachine
  Autonomous <- OneMachine
  Closers <- OneMachine
  TurnCeiling = 1
  MaxBudget = 2
  DryWorkers = {}
  Modes = {FALSE}
  Incidents = {"crash"}
  MaxClaims = 1
  MaxCanaries = 2
  EffectCap = 2
  MaxFailures = 1
INVARIANTS
  AutonomousTypeOK BudgetIsATotal NothingArmedAfterTheRuntime
SYMMETRY JobSymmetry
CHECK_DEADLOCK FALSE
