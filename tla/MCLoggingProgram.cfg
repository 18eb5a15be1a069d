CONSTANTS
  Slots = 3
  SizeMod = 16
  MaxPushes = 7
  FileSize = 5
  LenMod = 6
  MaxLen = 8
  MaxLogs = 4
SPECIFICATION Spec
INVARIANTS
  TypeOK
  LossyFifo
  Framed
  HarmsOnlyAfterFailure
CHECK_DEADLOCK FALSE
