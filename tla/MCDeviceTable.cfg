SPECIFICATION Spec
CONSTANTS
  w0 = w0
  w1 = w1
  e0 = e0
  e1 = e1
  short = short
  foreign = foreign
  DeviceNumber = 2
  Names <- TwoNames
  ifname <- Two
  Kind <- TwoKinds
  Prefixes <- TwoPrefixes
  Configured <- FirstTwo
  Faults <- AllFaults
  MaxScanners = 2
  MaxClients = 0
  NULL = NULL
INVARIANT TypeOK
PROPERTY ReportsTaken
CHECK_DEADLOCK FALSE
