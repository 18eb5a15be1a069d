CONSTANTS
  Calls = 2
  Pinned = {2}
SPECIFICATION Spec
INVARIANTS
  SeesItsArguments
CHECK_DEADLOCK FALSE
