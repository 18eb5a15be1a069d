CONSTANTS
  Calls = 3
  Pinned = {2, 3}
SPECIFICATION FairSpec
INVARIANTS
  TypeOK
  FrameOutlivesUse
  NullMeansOver
PROPERTIES
  MainEnds
CHECK_DEADLOCK FALSE
