CONSTANTS
  BufsMin = 0
  BufsMax = 1
  Room = 1
  MaxSends = 2
  MaxIncoming = 2
  MaxCalls = 3
SPECIFICATION FairSpec
INVARIANTS
  NothingLost
  ClosedOnce
PROPERTIES
  Flows
CHECK_DEADLOCK FALSE
