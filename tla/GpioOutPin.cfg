SPECIFICATION PinFairSpec
CONSTANTS
  Series <- MCSeries
  Garbage <- MCGarbage
INVARIANTS
  BusyIffArmed
  EndedSeriesIsComplete
PROPERTIES
  SeriesEnds
