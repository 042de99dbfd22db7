SPECIFICATION SpillSpec
CONSTANTS
  Capacity = 11
  ALIGN = 2
  Requests <- MCRequests
  Contents = {1, 2}
  Careless = FALSE
VIEW MCView
INVARIANTS
  TypeOK
  NoAliasing
  Tight
  ReadsBackLastWrite
  NoneStranded
PROPERTIES
  RegionSpec
  FailedWriteLeavesNoTrace
