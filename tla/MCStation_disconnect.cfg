SPECIFICATION FairSpec
CONSTANTS
  n1 = n1
  Networks <- OneNetwork
  NoNetwork = NoNetwork
  CommandsFail = FALSE
  MAX_ASSOC_REJECT_COUNT = 3
  MAX_RETRIES_ON_AUTHENTICATION_FAILURE = 2
  MaxEvents = 1
  MaxDhcp = 1
PROPERTY DisconnectReturns
CHECK_DEADLOCK FALSE
