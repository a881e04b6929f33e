SPECIFICATION BookingSpec
CONSTANTS
  w1 = w1
  w2 = w2
  p1 = p1
  p2 = p2
  m1 = m1
  m2 = m2
  m3 = m3
  Processes = {w1, w2}
  Prospects = {p1, p2}
  Messages = {m1, m2, m3}
  LastSlot = 3
  Duration = 2
  MaxOffered = 1
  MaxTurns = 3
  Intents = {"ACCEPT_PROPOSAL", "CANCEL"}
  Wordings <- SomeWordings
INVARIANTS
  BookingTypeOK
PROPERTIES
  ReportMovesALiveOne NobodyLosesASlot NeverRefusedItsOwn
SYMMETRY BookingSymmetry
CHECK_DEADLOCK FALSE
