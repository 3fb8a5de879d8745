SPECIFICATION Spec
CONSTANTS
  a = a
  b = b
  c = c
  User = {a, b, c}
  Stock = 2
  QuestionNos = {0, 2, 3}
  WriteOutcomes = {TRUE}
  MaxGames = 3
  MaxAnswers = 3
  MaxRuns = 2
SYMMETRY Symmetry
INVARIANTS
  TypeOK
  RunsApart
  BoardHonest
  GamesShownBetween
  EndedInFull
PROPERTY ImplementsScoreboard
CHECK_DEADLOCK FALSE
