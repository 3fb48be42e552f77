SPECIFICATION Spec
CONSTANTS
  Elements <- Devices
  Clients = {"onoff"}
  Linked = {5}
  StateCap = 3
  IdCap = 1
  MaxEvents = 3
  Messages <- Every
  NotText = NotText
  URL_OTA = "default"
  RingCap = 2
  Blocks = 2
  ota1 = ota1
  ota2 = ota2
  Upgrades = {ota1, ota2}
  MaxBoots = 2
INVARIANTS
  TypeOK
  CommandsKept
  UpgradeAsAsked
  SentAsGiven
SYMMETRY TasksAlike
CHECK_DEADLOCK FALSE
