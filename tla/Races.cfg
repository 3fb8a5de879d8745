SPECIFICATION Spec
CONSTANTS
  a = a
  b = b
  User = {a, b}
  MaxGames = 1
  MaxLive = 1
  MaxBusy = 2
  QuestionNos = {2}
  Stock = 2
  InitialGames = 1
  Fallthrough = {TRUE, FALSE}
  DbOutcomes = {TRUE, FALSE}
  Timeouts = TRUE
  MayVanish = {a, b}
SYMMETRY Symmetry
INVARIANTS
  TypeOK
  RowsBelowIndex
CHECK_DEADLOCK FALSE
