SPECIFICATION FairSpec
CONSTANTS
  PortCount = 2
  ContestedPorts = {}
  ThreadMayFail = FALSE
  c1 = c1
  c2 = c2
  remote = remote
  Clients = {c1, c2}
  RemoteServer = remote
  Sizes = {1}
  BufferSize = 1
  SendsMayFail = FALSE
  EventsPerWait = 128
  MaxArrivals = 2
  MaxBlocks = 0
  ExcludedIps = {}
  MaxConnections = 1
  BlockDurationSeconds = 0
  TicksPerSecond = 1
  MaxTime = 0
  None = None
INVARIANTS
  ChargedToSender
CHECK_DEADLOCK FALSE
