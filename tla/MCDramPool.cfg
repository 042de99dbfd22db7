SPECIFICATION Spec
CONSTANTS
  base_ptr = 4
  Capacity = 15
  ALIGN = 2
  Requests <- MCRequests
INVARIANTS
  SortedAndCoalesced
PROPERTY RangeAllocatorSpec
