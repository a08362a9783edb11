SPECIFICATION FairSpec
CONSTANTS
  Buf = {b1, b2, b3}
  NoBuf = NoBuf
  QueueLen = 1
  PoolSize = 1
  FrameSize = 1
  FrameBufferCount = 1
  FrameMod = 3
  MaxPlayed = 1
  Faults = {"socket", "send", "recv"}
INVARIANTS OwnedOnce CapturedInOrder
PROPERTIES ImplementsChannel OldestIsSent CloseTakesEffect
CHECK_DEADLOCK FALSE
