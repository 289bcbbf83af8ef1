SPECIFICATION Spec
CONSTANTS
  SimpleCalls = {a}
  SearchCalls = {s}
  TLSCalls = {}
  Closers = {}
  Dialer = d
  NoCall = none
  QueueCap = 1
  MaxPackets = 2
INVARIANTS
  NoUseOfClosed
  NoCrossDelivery
  ReceiverReady
CHECK_DEADLOCK FALSE
