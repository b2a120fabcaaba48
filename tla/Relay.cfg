\* One connection of each protocol.
SPECIFICATION FairSpec
CONSTANTS
  Kinds = {"tcp", "ws", "tuic", "anytls"}
  Capacity = 1
  MaxUp = 1
  MaxDown = 1
  Limit = 1
INVARIANTS CleanEndIsWhole DialMeansConnected
PROPERTIES VlessEnds HalfCloseAnswered GoneIsNoticed DeadStreamAnswered
\* A connection may end.
CHECK_DEADLOCK FALSE
