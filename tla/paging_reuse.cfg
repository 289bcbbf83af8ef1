SPECIFICATION MCSpec
CONSTANTS
  Themes <- PagingOnly
  AnyControl <- MCControls
  Entries = {"e1", "ref", "e3"}
  Directory <- MCDirectory
  PagingSizes = {0, 1, 2}
  MaxSearches = 2
  DNs = {d}
  Values = {v, w}
  Passwords = {p}
  OtherCodes = {53}
  MaxOps = 3
INVARIANTS
  RequestUnchanged
CHECK_DEADLOCK FALSE
