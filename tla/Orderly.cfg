SPECIFICATION Spec
CONSTANTS
  a = a
  b = b
  c = c
  User = {a, b, c}
  MaxGames = 2
  MaxLive = 1
  MaxBusy = 1
  QuestionNos = {1, 2}
  Stock = 2
  InitialGames = 1
  Fallthrough = {TRUE}
  DbOutcomes = {TRUE}
  Timeouts = FALSE
  MayVanish = {}
SYMMETRY Symmetry
INVARIANTS EveryoneAnswered JudgedAsShown NoStall ServerUp
CHECK_DEADLOCK FALSE
