SPECIFICATION Spec
CONSTANTS
  h = h
  b = b
  c = c
  User = {h, b, c}
  Hosts = {h, c}
  Guests = {b, c}
  Unruly = {c}
  MaxRooms = 2
  MaxUnread = 1
INVARIANTS TypeOK InStep ViewCurrent ThreadEnds QuestionReached
CHECK_DEADLOCK FALSE
