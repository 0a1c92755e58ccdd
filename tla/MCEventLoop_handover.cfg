CONSTANTS
  Clients = {"c1", "c2"}
  Loops = {"L1", "L2"}
  Tasks <- MCTasks
  Home <- MCHome
  Posts <- MCPosts
  Calls <- MCCalls
  Quits <- MCQuits
  PipeCap = 1
  NoThread = NoThread
SPECIFICATION FairSpec
INVARIANTS Inv NoLostWakeup ReadFindsToken
PROPERTIES ImplementsExecutor CallIsExecuted QuitEndsLoop
