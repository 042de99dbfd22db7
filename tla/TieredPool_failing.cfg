SPECIFICATION Spec
CONSTANTS
  Pages <- MCPages
  N = 1
  PageSize <- MCSizes
  VramCap = 3
  DramCap = 2
  SpillCap = 2
  RingCap = 2
  Engine = FALSE
  HotAt = 1
  MaxWrites = 1
  MaxCached = 3
  MaxQueued = 2
  Tiers = {"Vram", "Dram", "Ssd"}
  Pinnable = {}
  Calls = {"prefetch"}
  Careful = {"names", "write_resident", "write_prefetched"}
  Failures = {"io", "cuda"}
INVARIANTS
  TypeOK
  BlockOwnedOnce
  NothingLost
PROPERTIES
  FailedCallsMoveNothing
CHECK_DEADLOCK FALSE
