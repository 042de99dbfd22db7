SPECIFICATION LiveSpec
CONSTANTS
  Producers = {p1}
  Capacity = 2
  Word = 16
  MaxSubmits = 6
INVARIANTS
  PeekedIsStable
  DoneMeansDrained
PROPERTIES
  FifoSpec
  DoneIsSaid
