SPECIFICATION FairSpec
CONSTANTS
  n1 = n1
  Networks <- OneNetwork
  NoNetwork = NoNetwork
  CommandsFail = TRUE
  MAX_ASSOC_REJECT_COUNT = 1
  MAX_RETRIES_ON_AUTHENTICATION_FAILURE = 1
  MaxEvents = 1
  MaxDhcp = 1
INVARIANTS
  OwnStates
  L2HasDhcp
PROPERTIES
  ConnectReturns
  L2Ends
CHECK_DEADLOCK FALSE
