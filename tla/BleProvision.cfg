SPECIFICATION FairSpec
CONSTANTS
  a = a
  b = b
  Node = {a, b}
  NoNode = NoNode
  MaxElem = 2
  MaxModel = 3
  Elems <- MCElems
  Rows <- MCRows
  ModelAt <- MCModelAt
  MaxLinks = 2
  Environments <- MCEnvironments
INVARIANTS
  TypeOK
  CursorInBounds
  AnnouncedConfigured
  AnnouncementAccurate
  AnnouncedOnce
PROPERTY ProvisionedIsAnnounced
