SPECIFICATION Spec
CONSTANTS
  Producers = {p1}
  Capacity = 2
  Word = 16
  MaxSubmits = 2
INVARIANTS
  DoneMeansIdle
