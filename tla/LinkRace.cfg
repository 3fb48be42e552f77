SPECIFICATION Spec
CONSTANTS
  z1 = z1
  z2 = z2
  b1 = b1
  b2 = b2
  Endpoint = {z1, z2, b1}
  Ble = {b1}
  Targets <- Pair
  IdCap = 2
  CmdCap = 2
  OneAtATime = FALSE
  MaxPresses = 3
  MaxIssued = 0
  MaxLate = 0
  MaxOther = 1
INVARIANTS
  LinkedAgree
CHECK_DEADLOCK FALSE
