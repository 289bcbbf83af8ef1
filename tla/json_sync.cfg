SPECIFICATION MCSpec
CONSTANTS
  Themes <- SyncThemes
  MaxCalls = 7
  MaxFields = 2
  Goroutines = {p, q}
  Types = {"A", "B"}
  Elems <- MCElems
  MaxDepth = 2
  MaxBuilds = 3
INVARIANTS
  NeverOutOfSync
CHECK_DEADLOCK FALSE
