SPECIFICATION Spec
CONSTANTS
  MaxNumber = 5
  Strengths <- ThreeLevels
INVARIANTS
  NothingLost
  TailOrdered
  ConnectedFirst
CHECK_DEADLOCK FALSE
