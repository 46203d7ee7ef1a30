SPECIFICATION Spec
CONSTANTS
  Sockets <- MCSockets
  MaxChunks = 3
  MaxLink = 5
INVARIANTS
  TypeOK
  NothingLeaked
  ClosedOnce
PROPERTIES
  FetchEnds
  FetchStarts
  LedSettles
