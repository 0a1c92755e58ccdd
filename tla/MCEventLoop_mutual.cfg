CONSTANTS
  Clients = {"c1", "c2"}
  Loops = {"L1", "L2"}
  Tasks <- MCTasks
  Home <- MCHome
  Posts <- MutualPosts
  Calls <- MutualCalls
  Quits <- NoQuits
  PipeCap = 2
  NoThread = NoThread
SPECIFICATION FairSpec
PROPERTY CallIsExecuted
CHECK_DEADLOCK FALSE
