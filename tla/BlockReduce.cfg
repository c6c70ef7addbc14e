SPECIFICATION FairSpec
CONSTANTS
  Launches <- MCLaunches
INVARIANTS
  TypeOK
  SumOrNextPartial
PROPERTIES
  BlockFinishes
CHECK_DEADLOCK FALSE
