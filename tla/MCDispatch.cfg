CONSTANTS
  c1 = c1
  c2 = c2
  Channels = {c1, c2}
  Fd <- MCFd
  Members = {c1}
  Conditions <- MCConditions
  NoChannel = NoChannel

SPECIFICATION DispatchSpec

CHECK_DEADLOCK FALSE

INVARIANTS
  DispatchTypeOK
  TiedSurvivesItsCallbacks

PROPERTY
  ReportedIsCalled
