SPECIFICATION FairSpec
CONSTANTS
  WifiDevices = 2
  MaxSessions = 2
  MAX_CALLBACKS_COUNT = 2
  MaxEvents = 1
  SlowThreads = FALSE
INVARIANTS
  TypeOK
  OneListener
  NoLeak
  Hears
PROPERTIES
  DeafOnlyByGetOrCreate
  ThreadStops
CHECK_DEADLOCK FALSE
