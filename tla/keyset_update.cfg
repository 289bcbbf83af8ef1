SPECIFICATION Spec
CONSTANTS
  Verifies = {v, w}
  Keys = {k}
  KeyIDs = {i}
  KeyID <- MCKeyID
  NoKeyID = empty
  None = nil
  keysExpiryDelta = 1
  MaxAge = 1
  MaxTime = 2
  MaxVersions = 2
PROPERTIES
  UpdatesOnlyExpiring
CHECK_DEADLOCK FALSE
