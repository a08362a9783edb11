SPECIFICATION Spec
CONSTANTS
  Buf = {b1, b2, b3, b4, b5, b6, b7}
  NoBuf = NoBuf
  QueueLen = 2
  PoolSize = 2
  FrameSize = 2
  FrameBufferCount = 2
  FrameMod = 3
  MaxPlayed = 2
  Faults = {}
SYMMETRY BufSymmetry
INVARIANTS TypeOK OwnedOnce PoolConserved SpaceForFreeBuffer NeverHalted NothingLost ClosedIsQuiet
PROPERTIES StartsPrebuffered ImplementsFramePipe
