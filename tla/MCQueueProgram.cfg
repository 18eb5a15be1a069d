CONSTANTS
  Capacity = 3
  SizeMod = 8
  Word = {lo, hi}
  Blank = Blank
  Items = 6
  Lead = 2
SPECIFICATION FairSpec
INVARIANTS
  TypeOK
  InOrder
  NoSharedSlot
  NeverDies
PROPERTIES
  ImplementsFifo
  Terminates
