SPECIFICATION Spec
CONSTANTS
  Pages <- MCPages
  N = 1
  PageSize <- MCSizes
  VramCap = 3
  DramCap = 3
  SpillCap = 2
  RingCap = 1
  Engine = TRUE
  HotAt = 1
  MaxWrites = 1
  MaxCached = 3
  MaxQueued = 2
  Tiers = {"Dram"}
  Pinnable = {}
  Calls = {}
  Careful = {"names", "write_resident", "write_prefetched", "dealloc_prefetched"}
  Failures = {"refused"}
INVARIANTS
  NothingLost
CHECK_DEADLOCK FALSE
