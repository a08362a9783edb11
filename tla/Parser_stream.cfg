SPECIFICATION Spec
CONSTANTS
  HeaderSize = 4
  MaxData = 7
  Base = 12
  CharA = 5
  CharE = 6
  Ids = {1, 2}
  WholeBytes = {0, 5, 6}
  CutBytes = {6}
  SizeCounts = "message"
INVARIANTS TypeOK DeliveredWhole ExpectsMore InsideBuffer Resynchronises
