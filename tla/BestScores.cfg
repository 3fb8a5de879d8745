SPECIFICATION Spec
CONSTANTS
  a = a
  b = b
  c = c
  d = d
  User = {a, b, c, d}
  Stock = 1
  QuestionNos = {1}
  WriteOutcomes = {TRUE}
  MaxGames = 1
  MaxAnswers = 4
  MaxRuns = 1
SYMMETRY Symmetry
INVARIANT BoardIsBest
CHECK_DEADLOCK FALSE
