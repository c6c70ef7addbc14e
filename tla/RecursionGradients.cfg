SPECIFICATION Spec
CONSTANTS
  Configs <- MCConfigs
  Batch = 2
  XSeq = 3
  ZSeq = 2
  GradientSup = 1
  MaxIter = 5
  NeumannIters = 3
INVARIANT OnlyLastStepsCarryGradients
