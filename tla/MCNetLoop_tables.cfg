CONSTANTS
  MaxFd = 3
  None = None
  Acceptor = Acceptor
  Peers = {p1, p2}
  Clients = {c1}
  OwnerProgram <- Restart
  Talkers = {p1, c1}
  MaxSegments = 1
  ConnectAt = {"tasks"}
SPECIFICATION FairSpec
INVARIANTS TablesAgree ReportedOnce
PROPERTIES NobodyWaits ConnectEnds
