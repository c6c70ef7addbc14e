SPECIFICATION Spec
CONSTANTS
  EpsDen = 1000
  MaxAlpha = 100
  Vocab = 11
  NumColors = 3
  NAugmentations = 3
  Attempts = 2
  ZTokens = 81
  Transforms <- MCTransforms
  Products <- MCProducts
CONSTRAINT FileAtRest
INVARIANTS
  TypeOK
  LoadedIsOneSave
  LoadKeepsModel
  ServesTernaryWeights
  ForwardIsReference
PROPERTIES
  TwoTryScore
