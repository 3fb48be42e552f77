SPECIFICATION FairSpec
CONSTANTS
  z1 = z1
  z2 = z2
  b1 = b1
  b2 = b2
  Endpoint = {z1, b1, b2}
  Ble = {b1, b2}
  Targets <- Trio
  IdCap = 2
  CmdCap = 2
  OneAtATime = TRUE
  MaxPresses = 1
  MaxIssued = 1
  MaxLate = 1
  MaxOther = 0
INVARIANTS
  TypeOK
  LinkedFollow
PROPERTIES
  SwitchedAsWanted
  PressSettles
CHECK_DEADLOCK FALSE
