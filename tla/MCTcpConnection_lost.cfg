CONSTANTS
  Program <- OneList
  SendSpace = 1
  MaxUnread = 1
  IdleTimes = {0}
  Faults = {}
SPECIFICATION FairSpec
PROPERTIES QueuedIsWritten
