SPECIFICATION MCSpec
CONSTANTS
  Themes <- MCThemes
  MaxCalls = 7
  MaxFields = 2
  Goroutines = {p, q}
  Types = {"A", "B"}
  Elems <- MCElems
  MaxDepth = 2
  MaxBuilds = 3
INVARIANTS
  ScannerIsGrammar
  InSync
  MarshalRoundTrip
  FormatPreserves
  StreamIsWhole
  TokensNested
  FieldsAreGo
  EncodersServe
PROPERTIES
  MarshalEnds
CHECK_DEADLOCK FALSE
