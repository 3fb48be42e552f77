SPECIFICATION FairSpec
CONSTANTS
  XMODEM_SIZE = 2
  BufBlocks = 2
  PacketMod = 3
  MaxLength = 9
  MaxUpgrades = 2
  MaxPolls = 1
  MaxNoise = 1
  FlashMayFail = TRUE
INVARIANTS
  TypeOK
  StopAndWait
  CommitComplete
PROPERTIES
  UploadRefined
  UploadEnds
CHECK_DEADLOCK FALSE
