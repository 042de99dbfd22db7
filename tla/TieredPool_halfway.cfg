SPECIFICATION Spec
CONSTANTS
  Pages <- MCPages
  N = 2
  PageSize <- MCOdd
  VramCap = 2
  DramCap = 3
  SpillCap = 2
  RingCap = 1
  Engine = TRUE
  HotAt = 1
  MaxWrites = 0
  MaxCached = 2
  MaxQueued = 2
  Tiers = {"Dram"}
  Pinnable = {}
  Calls = {}
  Careful = {"names", "write_resident", "write_prefetched", "dealloc_prefetched"}
  Failures = {}
INVARIANTS
  BlockOwnedOnce
CHECK_DEADLOCK FALSE
