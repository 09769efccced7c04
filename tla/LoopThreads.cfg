\* Edges, pauses and an interrupted epoll_wait in any order.  Everybody may
\* be waiting for the next edge or pause.
SPECIFICATION FairSpec
CONSTANTS
  MaxEdges = 2
  MaxPauses = 3
CHECK_DEADLOCK FALSE
INVARIANTS
  NobodySleepsInEnd
PROPERTIES
  EdgesAreReported
  PauseReturns
  PauseTakesEffect
