SPECIFICATION Spec
CONSTANTS
  Elements <- Devices
  Clients = {"onoff"}
  Linked = {5}
  StateCap = 3
  IdCap = 1
  MaxEvents = 3
  Messages = {}
  NotText = NotText
  URL_OTA = "default"
  RingCap = 2
  Blocks = 2
  ota1 = ota1
  ota2 = ota2
  Upgrades = {ota1, ota2}
  MaxBoots = 1
INVARIANT JoinedState
SYMMETRY TasksAlike
CHECK_DEADLOCK FALSE
