SPECIFICATION Spec
CONSTANTS
  Launches <- MCLaunches
INVARIANTS
  MatchesReference
CHECK_DEADLOCK FALSE
