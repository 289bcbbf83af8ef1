SPECIFICATION FairSpec
CONSTANTS
  Verifies = {v, w}
  Keys = {k}
  KeyIDs = {i}
  KeyID <- MCKeyID
  NoKeyID = empty
  None = nil
  keysExpiryDelta = 1
  MaxAge = 1
  MaxTime = 1
  MaxVersions = 2
INVARIANTS
  SingleFlight
  StableKeyVerifies
PROPERTIES
  CacheMonotone
  WaitersReturn
  FlightFreed
CHECK_DEADLOCK FALSE
