SPECIFICATION FairSpec
CONSTANTS
  NrMetaZones = 3
  ZoneBlocks = 4
  SnapBlocks = 1
  UpdateBlocks = 1
  Files <- OneFile
  InitialFiles <- OneFile
  Ops <- SyncMigrate
  OneThread = FALSE
  Faults <- None
  MaxExtents = 1
  MaxMoves = 1
  MaxSeq = 5
  MaxCrashes = 0
PROPERTY ReopenReturns
CHECK_DEADLOCK FALSE
