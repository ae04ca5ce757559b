CONSTANTS
  NumThreads = 2
  Callers = {c1, c2}
  Owner = main
  x = x
  y = y
  z = z
  v = v
  Tasks = {x, z, u}
  Child <- MCChild
  MaxQueue = 0
  CreateMayFail = TRUE
  NoThread = NoThread
  NoTask = NoTask

SPECIFICATION Spec

CHECK_DEADLOCK FALSE

INVARIANT
  NoAssertionFails
