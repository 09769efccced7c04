SPECIFICATION RSpec
CONSTANTS
  Divider = 4
  StepTenths = 9
  Headings <- AllHeadings
  Targets <- MCTargets
  Speeds <- MCSpeeds
  CalibPoints = 3
  SeriesPulses = 5
  CalibWhileMoving = FALSE
  Unit = 24
  MaxUnpolled = 1
  MaxUnread = 2
  CalibDisabled = FALSE
INVARIANTS
  PointsEven
