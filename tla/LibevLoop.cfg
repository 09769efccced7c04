\* The loop with timers set, stopped and set again in every callback.
SPECIFICATION FairSpec
CONSTANTS
  t1 = t1
  t2 = t2
  t3 = t3
  i1 = i1
  Nobody = Nobody
  Timers <- TimersDef
  Ios <- IosDef
  Stopped <- StoppedDef
  Delays <- DelaysDef
  DHEAP = 4
  MaxLag = 1
  MaxLate = 1
INVARIANTS
  Verify
  TimersBeforeIo
PROPERTIES
  ImplementsPromise
  TimersAreCalled
