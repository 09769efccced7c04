SPECIFICATION MCSpec
CONSTANTS
  USR = USR
  SIGCHLD = SIGCHLD
  k1 = k1
  k2 = k2
  usr = usr
  childev = childev
  any = any
  one = one
  a1 = a1
  t1 = t1
  t2 = t2
  AnyKid = AnyKid
  pipe_w = pipe_w
  Nobody = Nobody
  MaxSent = 2
  Signals <- SignalsDef
  SigWatchers <- SigWatchersDef
  signum <- SignumDef
  Kids <- KidsDef
  ChildWatchers <- ChildWatchersDef
  pid <- PidDef
  Traced <- TracedDef
  Threads <- ThreadsDef
  Asyncs <- AsyncsDef
INVARIANTS SleeperIsWoken ReapedIsTold
PROPERTY NothingIsForgotten
