\* Every input is an initial state; only those of AzimuthCheck go on.
SPECIFICATION ASpec
CONSTANTS
  Divider = 4
  StepTenths = 9
  Asked <- MCAsked
  Currents <- MCCurrents
  AskedSpeeds <- MCSpeeds
  Headings <- MCHeadings
  Tables <- MCTables
  Readings <- MCReadings
  Timers <- TimersDef
  DHEAP = 4
  HeapSizes <- MCHeapSizes
  HeapTimes <- MCHeapTimes
  PeriodicSet <- MCPeriodicSet
  Clocks <- MCClocks
  Hooks <- HooksDef
  HookKinds <- MCHookKinds
  Fed = 2
  Letters <- LettersDef
  Texts <- MCTexts
  Pins <- PinsDef
  Words <- MCWords
  Noise <- MCNoise
  Config <- MCConfig
  WrongValues <- MCWrongValues
  Room <- MCRoom
CHECK_DEADLOCK FALSE
INVARIANTS
  FoldIsAzimuth
  WayLeadsThere
  CorrectionKeepsArcs
  FilterStaysBetween
  MeasurementIsWhole
  HeapIsKept
  PeriodicsComeNext
  ArraysAreKept
  InputIsRead
