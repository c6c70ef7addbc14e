SPECIFICATION FairSpec
CONSTANTS
  MicroBatches = 3
  MicroBatchSize = 1
  MaxEpochs = 2
  SaveEvery = 2
  DefaultBatchSize = 4
  Args <- MCArgs
  Accuracies = {1, 2}
  MaxProcesses = 3
INVARIANTS
  TypeOK
  GradientConservation
  GlobalStepCountsWeights
  NoEpochSkipped
  StepBudget
  FilesInOrder
  RecordedBatchSize
  BestTagHoldsBest
  FinalIsLastState
  StopsAtALimit
PROPERTIES
  EveryProcessEnds
CHECK_DEADLOCK FALSE
