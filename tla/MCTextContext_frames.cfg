\* The stream of five messages, cut anywhere, through a buffer of 16 bytes.
CONSTANTS
  InitCap = 8
  ExtSize = 9
  Messages <- FiveMessages
SPECIFICATION FairSpec
INVARIANTS FramesIntact BufferIsAQueue
PROPERTIES AllDelivered
