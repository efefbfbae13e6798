SPECIFICATION Spec
CONSTANTS
  w1 = w1  w2 = w2  w3 = w3  w4 = w4  del = del  gc = gc
  NrZones = 2
  MaxCapacity = 2
  ZoneSize = 2
  DevMaxActive = 3
  DevMaxOpen = 4
  UintSize = 64
  FinishThreshold = 60
  Writers = {w2}
  Wal = {}
  Buffered = {w2}
  Cleaners = {del}
  Collectors = {gc}
  Lifetime <- MCLifetime
  Faults = {"reset", "offline", "finish", "close", "write"}
INVARIANTS TypeOK ZoneOwnership ActiveZonesBounded 
PROPERTY LiveDataKept
