CONSTANTS
  c1 = c1
  c2 = c2
  Conn <- MCConn
  BufferSize = 3
  Header = 1
  RcvLimit = 2
  SendCap = 4
  MaxDrained = 1
  Listener = Listener
  MaxRequests <- MCMaxRequests
  MaxFds = 2
  Order <- MCOrder
  Rounds = 2
SPECIFICATION FairSpec
INVARIANTS
  TypeOK
  StreamIntact
  NobodyWaits
PROPERTIES
  NeverStale
  Serves
  DeadDropped
  MainOutcome
CHECK_DEADLOCK FALSE
