SPECIFICATION FairSpec
CONSTANTS
  PortCount = 3
  WorkerCount = 2
  ThreadsMayFail = TRUE
  MaxTakes = 3
INVARIANTS
  MainInv
  ServesAlone
  NothingOutlivesPool
PROPERTIES
  EndsAfterProxy
CHECK_DEADLOCK FALSE
