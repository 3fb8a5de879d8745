SPECIFICATION FairSpec
CONSTANTS
  Lengths = {0, 1, 99, 100}
  Zeros = {0, 1}
  Numbers = {0, 99, 100, 10000}
  Counts = {0, 1, 2, 11}
  Ahead = {1, 2, 4}
  Begins = {200, 202, 203, 205, 207, 209, 213, 217, 219, 222, 223, 225}
  Unwritten = {1, 10}
  MaxDue = 2
INVARIANTS
  TypeOK
  HandledAsSent
  ShownAsBuilt
  JudgedByText
PROPERTY AnsweredInTheEnd
CHECK_DEADLOCK FALSE
