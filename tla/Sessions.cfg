SPECIFICATION FairSpec
CONSTANTS
  a = a
  b = b
  ann = ann
  ben = ben
  Client = {a, b}
  Name = {ann, ben}
  Registered = {ann}
  SocketNumber = {1, 2}
  MaxConnections = 3
  MayVanish = {b}
  MayStop = {a, b}
  Fallthrough = {TRUE}
  Paced = FALSE
INVARIANTS
  TypeOK
  Recognised
  KeepsConnections
  SignedUpOnce
  ServerUp
PROPERTY SessionsEnd
CHECK_DEADLOCK FALSE
