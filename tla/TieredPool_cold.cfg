SPECIFICATION Spec
CONSTANTS
  Pages <- MCPages
  N = 1
  PageSize <- MCSizes
  VramCap = 3
  DramCap = 3
  SpillCap = 2
  RingCap = 2
  Engine = TRUE
  HotAt = 1
  MaxWrites = 0
  MaxCached = 3
  MaxQueued = 2
  Tiers = {"Dram", "Ssd"}
  Pinnable = {}
  Calls = {}
  Careful = {"names", "write_resident", "write_prefetched", "dealloc_prefetched"}
  Failures = {}
INVARIANTS
  ChunksHaveBacking
CHECK_DEADLOCK FALSE
