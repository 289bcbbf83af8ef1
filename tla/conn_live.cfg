SPECIFICATION FairSpec
CONSTANTS
  SimpleCalls = {}
  SearchCalls = {s}
  TLSCalls = {}
  Closers = {c}
  Dialer = d
  NoCall = none
  QueueCap = 1
  MaxPackets = 2
INVARIANTS
  CloseOnce
PROPERTIES
  CloseReturns
  AcceptedTold
  TimeoutEnds
CHECK_DEADLOCK FALSE
