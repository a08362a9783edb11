SPECIFICATION FairSpec
CONSTANTS
  QueueLen = 2
  NumMod = 6
  WireCap = 1
  HeapSlots = 2
  UiLimit = 2
  PeerFaults = {"notify"}
  Stalls = TRUE
PROPERTIES DroppedReconnects OldestIsWritten KeptAlive
