SPECIFICATION EmailSpec
CONSTANTS
  d1 = d1
  d2 = d2
  r1 = r1
  r2 = r2
  Dispatchers <- TwoDispatchers
  Reconcilers <- TwoReconcilers
  MaxRows = 2
  MaxPosts = 3
  MaxReplay = 2
  Incidents = {"crash"}
INVARIANTS
  EmailTypeOK FreedMeansNoEmail SentIsTheTruth
PROPERTIES
  EmailKeepsItsPromise
SYMMETRY EmailSymmetry
CHECK_DEADLOCK FALSE
