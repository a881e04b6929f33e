\* One process polls the mailbox while two prospects write, over three days.
SPECIFICATION MailSpec
CONSTANTS
  x1 = x1
  x2 = x2
  p1 = p1
  p2 = p2
  Nobody = Nobody
  Prospects = {x1, x2}
  Pollers = {p1}
  Cap = 1
  Overlap = 1
  MaxMail = 3
  MaxDay = 3
  MayFail = TRUE
INVARIANTS
  NoReplyIsLost
  MarkerHidesNothing
SYMMETRY MailSymmetry
CHECK_DEADLOCK FALSE
