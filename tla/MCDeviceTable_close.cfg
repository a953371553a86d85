SPECIFICATION Spec
CONSTANTS
  w0 = w0
  w1 = w1
  e0 = e0
  e1 = e1
  short = short
  foreign = foreign
  DeviceNumber = 2
  Names <- OneEachNames
  ifname <- OneEach
  Kind <- OneEachKinds
  Prefixes <- OneEachPrefixes
  Configured <- FirstTwo
  Faults <- Supplicant
  MaxScanners = 1
  MaxClients = 0
  NULL = NULL
INVARIANT NoCrash
CHECK_DEADLOCK FALSE
