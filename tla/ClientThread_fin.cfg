SPECIFICATION FairSpec
CONSTANTS
  QueueLen = 4
  NumMod = 8
  WireCap = 1
  HeapSlots = 2
  UiLimit = 1
  PeerFaults = {"fin"}
  Stalls = FALSE
PROPERTIES DroppedReconnects
