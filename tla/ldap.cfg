SPECIFICATION MCSpec
CONSTANTS
  Themes <- MCThemes
  AnyControl <- MCControls
  Entries = {"e1", "ref", "e3"}
  Directory <- MCDirectory
  PagingSizes = {0, 1, 2}
  MaxSearches = 2
  DNs = {d}
  Values = {v, w}
  Passwords = {p}
  OtherCodes = {53, 4096, 4102}
  MaxOps = 3
INVARIANTS
  FilterWhole
  DNIsGrammar
  NamesOrdered
  ControlsSurvive
  PagedExact
  ToldWhatWasDone
CHECK_DEADLOCK FALSE
