\* The compass thread against the loop's thread; calibrations, saved line by
\* line, and crashes.
SPECIFICATION FileSpec
CONSTANTS
  p1 = p1
  p2 = p2
  Positions <- PositionsDef
  FPoints = 2
  Windows = 2
  CalibPoints = 3
  MaxTables = 3
INVARIANTS
  CacheIsFresh
  PointsMeasured
  TableIsOfOneCalibration
  
PROPERTY
  NewTableIsUsed
