CONSTANTS
  MaxConns = 2
  MaxMessages = 2
  Capacity = 1
SPECIFICATION FairSpec
INVARIANTS
  TypeOK
  ServedWithoutGaps
PROPERTIES
  IsLossyFifo
  PublishReturns
  DestructorReturns
  ReconnectionEnds
  ShutdownIsObeyed
CHECK_DEADLOCK FALSE
