SPECIFICATION Spec
CONSTANTS
  p1 = p1
  p2 = p2
  b1 = b1
  t1 = t1
  t2 = t2
  a1 = a1
  a2 = a2
  NoBias = NoBias
  Packs <- MCPacks
  Biases = {b1}
  BiasesOf <- MCAnyBias
  Addresses = {a1, a2}
  Freeable = TRUE
  Threads <- MCThreads
  MaxLayers = 2
  MaxCalls = 2
SYMMETRY MCSymmetry
INVARIANTS
  TypeOK
  NeverMissing
  UploadedOnce
PROPERTIES
  ReturnsWhatWasPassed
CHECK_DEADLOCK FALSE
