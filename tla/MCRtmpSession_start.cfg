CONSTANTS
  MaxBatch = 2
  Values <- MCValues
  MaxPings = 1
SPECIFICATION FairSpec
CHECK_DEADLOCK FALSE
INVARIANTS QueueMoves Understood
PROPERTIES ImplementsDialogue SessionStarts
