SPECIFICATION Spec
CONSTANTS
  a = a
  b = b
  c = c
  User = {a, b, c}
  MaxRooms = 3
  MaxUsersOf = {2}
  MaxBusy = 1
  Hasty = {}
  MayVanish = {}
INVARIANTS
  Agreement
  ErasesItsRoom
PROPERTY
  ImplementsRooms
CHECK_DEADLOCK FALSE
