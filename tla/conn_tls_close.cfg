SPECIFICATION FairSpec
CONSTANTS
  SimpleCalls = {}
  SearchCalls = {}
  TLSCalls = {t}
  Closers = {}
  Dialer = d
  NoCall = none
  QueueCap = 1
  MaxPackets = 1
PROPERTIES
  TLSCloseReturns
CHECK_DEADLOCK FALSE
