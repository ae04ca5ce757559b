CONSTANTS
  c0 = c0
  c1 = c1
  c2 = c2
  d1 = d1
  Channels = {c0, c1, c2, d1}
  Fd <- MCFd

SPECIFICATION Spec

CHECK_DEADLOCK FALSE

INVARIANT
  DisabledCanBeRemoved
