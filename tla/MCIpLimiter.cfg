SPECIFICATION Spec
CONSTANTS
  a1 = a1
  a2 = a2
  x1 = x1
  Ips = {a1, a2, x1}
  ExcludedIps = {x1}
  MaxConnections = 2
  BlockDurationSeconds = 0
  TicksPerSecond = 2
  MaxTime = 4
  NoPacket = NoPacket
SYMMETRY Symmetry
INVARIANTS
  LimiterInv
  WindowLimit
PROPERTY
  KeepsPromise
CHECK_DEADLOCK FALSE
