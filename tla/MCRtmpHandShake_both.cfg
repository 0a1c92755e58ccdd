CONSTANTS
  P = 4
SPECIFICATION FairSpec
CHECK_DEADLOCK FALSE
INVARIANTS Aligned
PROPERTIES HandshakeEnds
