SPECIFICATION Spec
CONSTANTS
  b1 = b1
  b2 = b2
  l1 = l1
  l2 = l2
  l3 = l3
  Bssids <- TwoBssids
  Strengths <- TwoLevels
  Lists <- ThreeLists
  Free = Free
  NULL = NULL
  Procedures <- AllProcedures
INVARIANTS
  ListsOwned
  ClosedEmpty
  SubscriberCovers
PROPERTIES
  InUseKept
  NoNewGhosts
