SPECIFICATION Spec
CONSTANTS
  Conn = {1, 2}
  NoConn = 0
  Clients = 1
  Url = {"/"}
  Frame <- MCFrame
  QueueSize = 2
  RingRoom = 1
  MaxFrames = 2
  MaxConnects = 2
  MaxCalls = 1
  MaxEvents = 4
INVARIANTS
  TypeOK
  MessagesDelivered
PROPERTY DataIsRead
CHECK_DEADLOCK FALSE
