SPECIFICATION FairSpec
CONSTANTS
  RxN = 2
  TxN = 1
  MaxSegs = 1
  MboxSize = 1
  MaxFrames = 3
PROPERTIES ResumesReception
