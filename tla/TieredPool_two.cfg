SPECIFICATION Spec
CONSTANTS
  Pages <- MCPages
  N = 2
  PageSize <- MCOdd
  VramCap = 2
  DramCap = 2
  SpillCap = 2
  RingCap = 1
  Engine = TRUE
  HotAt = 1
  MaxWrites = 0
  MaxCached = 1
  MaxQueued = 1
  Tiers = {"Dram"}
  Pinnable = {"b"}
  Calls = {"prefetch"}
  Careful = {"names", "dealloc_prefetched"}
  Failures = {}
INVARIANTS
  HostOwnedOnce
  OneChunkPerGpu
PROPERTIES
  OnlyHalfDemotionsShare
