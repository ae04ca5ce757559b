CONSTANTS
  m1 = m1
  m2 = m2
  m3 = m3
  NumWorkers = 3
  Messages <- MCMessages
  Main = main
  StopItem = stop
  NoThread = NoThread
  NoItem = NoItem

SPECIFICATION FairSpec

CHECK_DEADLOCK FALSE

INVARIANTS
  TypeOK
  EachHandledOnce

PROPERTY
  ProgramEnds
