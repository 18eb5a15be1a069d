CONSTANTS
  MaxAddrs = 2
  BufSize = 2
  HelloLen = 1
  MaxLen = 3
  MaxSent = 2
  MaxArrivals = 3
  QueueLimit = 2
  MaxErrors = 2
SPECIFICATION Spec
INVARIANTS
  ConnectedIfReturned
CHECK_DEADLOCK FALSE
