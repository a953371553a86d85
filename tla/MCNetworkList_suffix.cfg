SPECIFICATION Spec
CONSTANTS
  n1 = n1
  n2 = n2
  n3 = n3
  home = home
  myhome = myhome
  Ids <- ThreeIds
  Ssids <- TwoSsids
  Hits <- TwoHits
  KeyMgmts <- BothKeys
  None = None
  CommandsFail = FALSE
  MaxPriority = 2
PROPERTY OthersKept
