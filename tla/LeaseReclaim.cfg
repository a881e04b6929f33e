SPECIFICATION FairLeaseSpec
CONSTANTS
  p1 = p1
  p2 = p2
  p3 = p3
  p4 = p4
  Pids <- FourPids
  Mortal <- TwoMortals
  MaxAttempts = 2
  MaxDepth = 2
INVARIANTS
  LeaseTypeOK OneHolderUntilADeath FileNamesItsHolderUntilADeath
PROPERTIES
  DeadHolderIsReplaced
