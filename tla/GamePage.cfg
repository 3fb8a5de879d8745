SPECIFICATION FairSpec
CONSTANTS
  a = a
  b = b
  c = c
  Player = {a, b, c}
  QuestionNo = 2
  MayBeLate = {a}
  MayMerge = {a, b}
INVARIANTS
  TypeOK
  InStep
  ScoreKept
PROPERTY CalmGamesEnd
CHECK_DEADLOCK FALSE
