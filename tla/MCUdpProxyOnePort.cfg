SPECIFICATION FairSpec
CONSTANTS
  PortCount = 1
  ContestedPorts = {}
  ThreadMayFail = FALSE
  c1 = c1
  c2 = c2
  remote = remote
  Clients = {c1, c2}
  RemoteServer = remote
  Sizes <- OnePortSizes
  BufferSize = 2
  SendsMayFail = TRUE
  EventsPerWait = 128
  MaxArrivals = 3
  MaxBlocks = 0
  ExcludedIps = {c2}
  MaxConnections = 1
  BlockDurationSeconds = 0
  TicksPerSecond = 1
  MaxTime = 1
  None = None
INVARIANTS
  ChargedToSender
  PayloadIntact
PROPERTIES
  UsesAsio
  UsesLimiter
CHECK_DEADLOCK FALSE
