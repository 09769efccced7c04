SPECIFICATION Spec
CONSTANTS
  w1 = w1
  w2 = w2
  Fds <- FdsDef
  Watchers <- WatchersDef
SYMMETRY Symm
INVARIANTS AskedIsWanted NobodyStopsSilently
