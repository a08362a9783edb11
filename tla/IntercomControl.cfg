SPECIFICATION FairSpec
CONSTANTS
  Caller = {c1, c2}
  Peer = peer
INVARIANTS TypeOK OpensOneCall OpenIsEndable
PROPERTIES EndTakesEffect TabsetReturns
CHECK_DEADLOCK FALSE
