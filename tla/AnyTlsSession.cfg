\* Seven frames on two ids, which may be used again.
SPECIFICATION FairSpec
CONSTANTS
  Sids = {1, 2}
  Capacity = 2
  MaxFrames = 7
INVARIANTS NoGap EndAfterData
PROPERTIES SessionEnds
\* The client has sent all its frames.
CHECK_DEADLOCK FALSE
