SPECIFICATION FairSpec
CONSTANT Operations <- AllOperations
INVARIANTS
  PauseHolds
  ResultsExclusive
  SyncObjectsLive
PROPERTIES
  ImplementsService
  PauseEnds
  CompletionHasScan
  OperationReturns
  ScansRecur
