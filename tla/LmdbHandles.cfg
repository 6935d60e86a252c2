SPECIFICATION FairSpec
CONSTANTS
  Names = {a, b}
  NoName = NoName
  MaxDbs = 2
  MaxSyncs = 2
INVARIANTS
  SlotKept
  OwnDatabase
  ClosedIsDurable
  SyncsOpenEnv
PROPERTIES
  CloseEnds
CHECK_DEADLOCK FALSE
