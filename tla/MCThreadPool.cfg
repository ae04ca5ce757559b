CONSTANTS
  NumThreads = 2
  Callers = {c1}
  Owner = main
  x = x
  y = y
  z = z
  v = v
  Tasks = {x, y, z, v, u, k}
  Child <- MCChild
  MaxQueue = 1
  CreateMayFail = TRUE
  NoThread = NoThread
  NoTask = NoTask

SPECIFICATION FairSpec

CHECK_DEADLOCK FALSE

INVARIANTS
  TypeOK
  EachTaskOnce
  NoLostWakeUp
  StopIsBarrier

PROPERTIES
  RunReturns
  QueuedTaskRuns
  StopReturns
