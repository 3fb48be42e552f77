SPECIFICATION Spec
CONSTANTS
  a = a
  b = b
  c = c
  d = d
  Key = {a, b, c, d}
  Hash <- MCHash
  Tables <- MCTables
  OneLine <- MCOneLine
  Strict <- MCStrict
  NameLength <- MCNameLength
  MaxCommands = 2
  MaxRestarts = 1
  MaxFailures = 1
INVARIANTS
  TypeOK
  MapsInBounds
  LinksInForce
  LookupDuringCopy
  
CHECK_DEADLOCK FALSE
