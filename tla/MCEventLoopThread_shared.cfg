CONSTANTS
  Owner = "main"
  Users = {"u1", "u2"}
  Program <- SharedProgram
SPECIFICATION FairSpec
CHECK_DEADLOCK FALSE
INVARIANTS Inv LoopAfterRun
PROPERTIES RunReturns DestructorEnds
