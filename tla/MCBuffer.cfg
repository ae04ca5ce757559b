CONSTANTS
  Base = 2
  CheapPrepend = 2
  InitialSize = 1
  Chunks <- MCChunks
  Widths = {1, 2}
  MaxSize = 6
  LF = 1
  CR = 0
  ExtraSize = 2
  MaxRead = 4

SPECIFICATION Spec

INVARIANTS
  TypeOK
  PiecesOrderedAsText

PROPERTIES
  ImplementsByteQueue
  PrependRoomKept
  IntsSurvive
