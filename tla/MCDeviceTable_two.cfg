SPECIFICATION FairSpec
CONSTANTS
  w0 = w0
  w1 = w1
  e0 = e0
  e1 = e1
  short = short
  foreign = foreign
  DeviceNumber = 4
  Names <- TwoWifiNames
  ifname <- TwoWifi
  Kind <- TwoWifiKinds
  Prefixes <- TwoWifiPrefixes
  Configured <- FirstThree
  Faults <- Failing
  MaxScanners = 2
  MaxClients = 1
  NULL = NULL
INVARIANT LibraryInUse
PROPERTIES
  ImplementsService
  OpenReturns
CHECK_DEADLOCK FALSE
