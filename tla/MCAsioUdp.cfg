SPECIFICATION FairSpec
CONSTANTS
  p1 = p1
  p2 = p2
  c1 = c1
  Ports = {p1, p2}
  Senders = {c1}
  Sizes = {1}
  BufferSize = 1
  SendsMayFail = TRUE
  EventsPerWait = 1
  Handlers = {"any"}
  MaxArrivals = 1
  MaxBlocks = 2
  MaxSends = 2
  None = None
INVARIANTS
  AsioInv
  DescriptorsBeforeTask
  NoLostWakeup
PROPERTY
  OperationsComplete
CHECK_DEADLOCK FALSE
