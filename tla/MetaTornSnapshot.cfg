SPECIFICATION Spec
CONSTANTS
  NrMetaZones = 3
  ZoneBlocks = 5
  SnapBlocks = 2
  UpdateBlocks = 1
  Files <- OneFile
  InitialFiles <- OneFile
  Ops <- OnlySync
  OneThread = TRUE
  Faults <- None
  MaxExtents = 1
  MaxMoves = 0
  MaxSeq = 5
  MaxCrashes = 1
INVARIANT MountSucceeds
CHECK_DEADLOCK FALSE
