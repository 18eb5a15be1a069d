CONSTANTS
  N = 4
  Beyond = 3
SPECIFICATION Spec
INVARIANTS
  BackToBeginning
CHECK_DEADLOCK FALSE
