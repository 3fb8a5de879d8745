SPECIFICATION Spec
CONSTANTS
  a = a
  b = b
  c = c
  User = {a, b, c}
  MaxRooms = 2
  MaxUsersOf = {2}
  MaxBusy = 2
  Hasty = {a}
  MayVanish = {b, c}
SYMMETRY Symmetry
INVARIANTS
  TypeOK
  CountedWhereSeated
  ServerUp
CHECK_DEADLOCK FALSE
