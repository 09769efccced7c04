SPECIFICATION FairSpec
CONSTANTS
  Divider = 4
  StepTenths = 9
  Headings <- FewHeadings
  Targets <- MCTargets
  Speeds <- MCSpeeds
  CalibPoints = 3
  SeriesPulses = 2
  CalibWhileMoving = FALSE
INVARIANTS
  InStep
PROPERTIES
  ImplementsJobs
  CalibrationEnds
