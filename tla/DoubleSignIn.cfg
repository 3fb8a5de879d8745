SPECIFICATION Spec
CONSTANTS
  a = a
  b = b
  ann = ann
  Client = {a, b}
  Name = {ann}
  Registered = {ann}
  SocketNumber = {1, 2}
  MaxConnections = 2
  MayVanish = {}
  MayStop = {}
  Fallthrough = {TRUE}
  Paced = FALSE
INVARIANT OnlineOnce
CHECK_DEADLOCK FALSE
