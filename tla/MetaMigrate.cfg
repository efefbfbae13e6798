SPECIFICATION FairSpec
CONSTANTS
  NrMetaZones = 3
  ZoneBlocks = 4
  SnapBlocks = 1
  UpdateBlocks = 1
  Files <- OneFile
  InitialFiles <- None
  Ops <- CreateSyncMigrate
  OneThread = TRUE
  Faults <- None
  MaxExtents = 3
  MaxMoves = 2
  MaxSeq = 6
  MaxCrashes = 2
INVARIANT TypeOK
INVARIANT MountSucceeds
 
 
PROPERTY MountComesUp
CHECK_DEADLOCK FALSE
