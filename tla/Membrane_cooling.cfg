SPECIFICATION LiveSpec
CONSTANTS
  Pages = {1, 2, 3}
  Size <- MCSize
  Budget = 4
  VramCap = 3
  Cold = {3}
  Pinnable = {}
  MaxHits = 1
PROPERTY Cooling
