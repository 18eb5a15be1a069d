CONSTANTS
  Capacity = 3
  SizeMod = 8
  Word = {type_, u_}
  Blank = Blank
  MaxPushes = 5
SPECIFICATION FairSpec
INVARIANTS
  TypeOK
  WritesPrefix
  ClosedComplete
  AssertNeverFails
PROPERTIES
  StuckStays
  DestructorReturns
  ReachesDisk
CHECK_DEADLOCK FALSE
