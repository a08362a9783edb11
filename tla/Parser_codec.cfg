SPECIFICATION Spec
CONSTANTS
  HeaderSize = 4
  MaxData = 3
  Base = 8
  CharA = 5
  CharE = 6
  Ids = {1, 2}
  WholeBytes = {0, 5, 6}
  CutBytes = {}
  SizeCounts = "data"
INVARIANTS DeliveredWhole
