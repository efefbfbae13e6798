SPECIFICATION Spec
CONSTANTS
  z1 = z1  z2 = z2  z3 = z3  NoZone = NoZone
  Zones <- ThreeZones
  ZoneSize = 4
  BlockSize = 2
  BufferSize = 4
  Kinds <- AllKinds
  Chunks = {2, 3}
  MaxBytes = 6
  MaxCrashes = 1
  MaxMoves = 1
  MaxOthers = 1
INVARIANTS TypeOK  
 
SYMMETRY ZoneSymmetry
CHECK_DEADLOCK FALSE
