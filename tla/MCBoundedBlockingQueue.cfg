CONSTANTS
  Putters = {p1, p2}
  Takers = {c1, c2}
  Items = {a, b}
  MaxSize = 2
  MaxPuts = 4
  NoThread = NoThread
  NoItem = NoItem

SPECIFICATION FairSpec

INVARIANTS
  TypeOK
  NoLostWakeUp

PROPERTIES
  ImplementsFifo
  NeitherSideHangs
