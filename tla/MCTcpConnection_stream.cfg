CONSTANTS
  Program <- MixedProgram
  SendSpace = 3
  MaxUnread = 2
  IdleTimes = {0, 2}
  Faults = {"fin", "reset", "close"}
SPECIFICATION FairSpec
INVARIANTS TypeOK StreamConserved WriteArmed
PROPERTIES ArrivedIsRead PeerGone
