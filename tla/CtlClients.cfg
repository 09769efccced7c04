\* Clients come, send and go in any order.  The peers may stop for good.
SPECIFICATION FairSpec
CONSTANTS
  c1 = c1
  c2 = c2
  c3 = c3
  Conns <- ConnsDef
  Fds <- FdsDef
  Server = Server
  NoFd <- MinusOne
  MaxSent = 1
CHECK_DEADLOCK FALSE
INVARIANTS
  DescriptorsAreOwn
  OnlyGoneAreDropped
  WatchersAreAlive
PROPERTIES
  MessagesAreRead
