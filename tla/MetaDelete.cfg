SPECIFICATION Spec
CONSTANTS
  NrMetaZones = 3
  ZoneBlocks = 4
  SnapBlocks = 1
  UpdateBlocks = 1
  Files <- TwoFiles
  InitialFiles <- TwoFiles
  Ops <- SyncDelete
  OneThread = TRUE
  Faults <- ResetFinishFaults
  MaxExtents = 2
  MaxMoves = 0
  MaxSeq = 5
  MaxCrashes = 1
INVARIANT MountSucceeds
INVARIANT SyncedExtentsSurvive
INVARIANT DeletedStayDeleted
CHECK_DEADLOCK FALSE
