\* recv may fail for good.
SPECIFICATION Spec
CONSTANTS
  Buf = {b1, b2, b3, b4, b5, b6}
  NoBuf = NoBuf
  QueueLen = 2
  PoolSize = 2
  FrameSize = 1
  FrameBufferCount = 2
  FrameMod = 3
  MaxPlayed = 2
  Faults = {"recv"}
SYMMETRY BufSymmetry
INVARIANTS SpaceForFreeBuffer
CHECK_DEADLOCK FALSE
