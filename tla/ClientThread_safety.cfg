SPECIFICATION Spec
CONSTANTS
  QueueLen = 2
  NumMod = 7
  WireCap = 2
  HeapSlots = 2
  UiLimit = 3
  PeerFaults = {"notify", "fin", "rst"}
  Stalls = TRUE
INVARIANTS TypeOK RetriedVerbatim SessionInOrder ResentOnlyAfterClose PingsDoNotPile
PROPERTIES ImplementsFramePipe
