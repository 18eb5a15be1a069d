CONSTANTS
  N = 4
  Beyond = 3
SPECIFICATION Spec
INVARIANTS
  TypeOK
  FlagsTrackBlocks
  CursorFree
  OutsideOnlyWhenExhausted
CHECK_DEADLOCK FALSE
