SPECIFICATION Spec
CONSTANTS
  NrMetaZones = 3
  ZoneBlocks = 4
  SnapBlocks = 1
  UpdateBlocks = 1
  Files <- OneFile
  InitialFiles <- OneFile
  Ops <- Format
  OneThread = TRUE
  Faults <- WriteFault
  MaxExtents = 2
  MaxMoves = 0
  MaxSeq = 5
  MaxCrashes = 2
 
INVARIANT NoExtentTwice
CHECK_DEADLOCK FALSE
