SPECIFICATION Spec
CONSTANTS
  Pages = {1, 2, 3}
  Size <- MCSize
  Budget = 4
  VramCap = 4
  Cold = {3}
  Pinnable = {1, 3}
  MaxHits = 1
INVARIANTS
  PlanStaysUnderTheMark
  DisplacedByHotter
  PlacementFollowsPlan
