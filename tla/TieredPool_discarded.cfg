SPECIFICATION Spec
CONSTANTS
  Pages <- MCPages
  N = 2
  PageSize <- MCEven
  VramCap = 2
  DramCap = 2
  SpillCap = 2
  RingCap = 1
  Engine = TRUE
  HotAt = 1
  MaxWrites = 0
  MaxCached = 2
  MaxQueued = 2
  Tiers = {"Dram"}
  Pinnable = {}
  Calls = {"prefetch"}
  Careful = {"names", "write_resident", "write_prefetched", "dealloc_prefetched"}
  Failures = {}
INVARIANTS
  CachedBlocksAreQuiet
CHECK_DEADLOCK FALSE
