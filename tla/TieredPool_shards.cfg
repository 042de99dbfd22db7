SPECIFICATION Spec
CONSTANTS
  Pages = {a, b}
  N = 2
  PageSize <- MCEven
  VramCap = 2
  DramCap = 2
  SpillCap = 2
  RingCap = 1
  Engine = TRUE
  HotAt = 1
  MaxWrites = 2
  MaxCached = 2
  MaxQueued = 2
  Tiers = {"Dram"}
  Pinnable = {}
  Calls = {"sweep"}
  Careful = {"names", "write_resident", "shards"}
  Failures = {}
SYMMETRY MCSymmetry
INVARIANTS
  NothingLost
