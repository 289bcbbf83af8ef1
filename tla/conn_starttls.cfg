SPECIFICATION Spec
CONSTANTS
  SimpleCalls = {a}
  SearchCalls = {}
  TLSCalls = {t}
  Closers = {}
  Dialer = d
  NoCall = none
  QueueCap = 1
  MaxPackets = 2
INVARIANTS
  NoSendOnClosed
  CountIsExact
  StartTLSAlone
  HandshakeAlone
PROPERTIES
  ImplementsService
CHECK_DEADLOCK FALSE
