SPECIFICATION Spec
CONSTANTS
  NrMetaZones = 3
  ZoneBlocks = 4
  SnapBlocks = 1
  UpdateBlocks = 1
  Files <- TwoFiles
  InitialFiles <- TwoFiles
  Ops <- OnlySync
  OneThread = FALSE
  Faults <- None
  MaxExtents = 2
  MaxMoves = 0
  MaxSeq = 6
  MaxCrashes = 1
INVARIANT SyncedExtentsSurvive
CHECK_DEADLOCK FALSE
