SPECIFICATION Spec
CONSTANTS
  w = w
  b = b
  Names <- MCNames
  Warmups = {0, 1, 2}
  MaxSteps = 4
  MaxResumes = 1
INVARIANTS
  TypeOK
  AverageSinceWarmup
  EvaluatesAverages
CHECK_DEADLOCK FALSE
