SPECIFICATION FairSpec
CONSTANTS
  RxN = 3
  TxN = 2
  MaxSegs = 2
  MboxSize = 1
  MaxFrames = 3
INVARIANTS TypeOK CopiesOneFrame SleepsOnlyWhenDrained DeliveredInOrder
PROPERTIES GivenIsSent ResumesUnlessCutShort
