SPECIFICATION Spec
CONSTANTS
  Name <- MCName
  LongName = {"long"}
  Tables <- MCTables
  Written <- TextOf
  Cut <- MCCut
  Junk <- MCJunk
  ValueRoom = 2
INVARIANTS
  TypeOK
  TokensNested
  TornRefused
  TableRead
CHECK_DEADLOCK FALSE
