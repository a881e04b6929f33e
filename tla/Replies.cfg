SPECIFICATION FairRepliesSpec
CONSTANTS
  w1 = w1
  w2 = w2
  Runtimes = {w1}
  Hands = {w2}
  MaxHands = 1
  LastMessage = 2
  Clocks <- OneClock
  Gap = 2
  MaxBubbles = 8
  ContextTurns = 3
  Limit = 50
  Readings = {"INTERESTED"}
  MaxFaults = 1
  Incidents = {"late", "crash", "fail", "repair"}
INVARIANTS
  RepliesTypeOK ExclusionComesFirst
PROPERTIES
  LaterReplyDecides StopIsTerminal StopIsHeardUnlessPutBack
CHECK_DEADLOCK FALSE
