SPECIFICATION FairSpec
CONSTANTS
  SimpleCalls = {a}
  SearchCalls = {}
  TLSCalls = {}
  Closers = {c}
  Dialer = d
  NoCall = none
  QueueCap = 1
  MaxPackets = 1
PROPERTIES
  WaitersTold
CHECK_DEADLOCK FALSE
