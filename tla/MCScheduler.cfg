SPECIFICATION FairSpec
CONSTANTS
  t1 = t1
  t2 = t2
  t3 = t3
  main = main
  o1 = o1
  i1 = i1
  Threads = {t1, t2, t3}
  Outsiders = {main}
  Posted = {o1}
  Io = {i1}
  None = None
INVARIANTS
  SchedulerInv
  WorkIsExact
  NoIdleThreadMissesWork
  StopReachesAll
PROPERTIES
  KeepsPromise
  QueuedRuns
  StopEndsAll
CHECK_DEADLOCK FALSE
