SPECIFICATION FairSpec
CONSTANTS
  PortCount = 2
  ContestedPorts = {2}
  ThreadMayFail = TRUE
  c1 = c1
  remote = remote
  Clients = {c1}
  RemoteServer = remote
  Sizes = {1}
  BufferSize = 1
  SendsMayFail = TRUE
  EventsPerWait = 128
  MaxArrivals = 2
  MaxBlocks = 1
  ExcludedIps = {c1}
  MaxConnections = 1
  BlockDurationSeconds = 0
  TicksPerSecond = 1
  MaxTime = 0
  None = None
INVARIANTS
  ProxyInv
  HandledInOrderOnce
  ReturnsWhenDone
  SentWasAdmitted
  AllPortsOrNone
PROPERTIES
  KeepsPromise
  EndsAfterTwo
  FirstIsHandled
CHECK_DEADLOCK FALSE
