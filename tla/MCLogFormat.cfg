CONSTANTS
  x = x
  num = num
  c1 = c1
  c2 = c2
  Percent = Percent
  Char <- MCChar
  Element <- MCElement
  Formats <- MCFormats
  ArgLists <- MCArgLists
SPECIFICATION CallSpec
INVARIANTS
  CallAsWritten
CHECK_DEADLOCK FALSE
