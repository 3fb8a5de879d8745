SPECIFICATION FairSpec
CONSTANTS
  a = a
  b = b
  User = {a, b}
  MaxGames = 2
  MaxLive = 1
  MaxBusy = 1
  QuestionNos = {1, 2}
  Stock = 2
  InitialGames = 1
  Fallthrough = {TRUE}
  DbOutcomes = {TRUE}
  Timeouts = FALSE
  MayVanish = {}
PROPERTIES ImplementsQuiz GamesEnd
CHECK_DEADLOCK FALSE
