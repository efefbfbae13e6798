SPECIFICATION FairSpec
CONSTANTS
  w1 = w1  w2 = w2  w3 = w3  w4 = w4  del = del  gc = gc
  NrZones = 2
  MaxCapacity = 2
  ZoneSize = 2
  DevMaxActive = 4
  DevMaxOpen = 4
  UintSize = 64
  FinishThreshold = 0
  Writers = {w1, w2, w3}
  Wal = {w1}
  Buffered = {}
  Cleaners = {}
  Collectors = {}
  Lifetime <- MCLifetime
  Faults = {}
INVARIANTS ActiveTokensConserved OpenTokensConserved OpenZonesBounded NoLostWakeup
PROPERTY WritersDrain
