SPECIFICATION Spec
CONSTANTS
  Divider = 4
  StepTenths = 9
  Headings <- FewHeadings
  Targets <- MCTargets
  Speeds <- TwoSpeeds
  CalibPoints = 2
  SeriesPulses = 1
  CalibWhileMoving = TRUE
INVARIANTS
  NoRunaway
