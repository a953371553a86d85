SPECIFICATION FairSpec
CONSTANTS
  main = main
  event = event
  dhcp = dhcp
  Threads <- AllThreads
  Stale = Stale
  MaxWaiting = 4
INVARIANT AnswersOwn
PROPERTY RequestReturns
