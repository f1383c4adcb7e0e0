CONSTANTS
  Consumers = {c, d}
  NoPeer = none
  Backlog = 1
  MaxCalls = 2
SPECIFICATION MCFairSpec
INVARIANTS
  TypeOK
  RepliesMatch
PROPERTIES
  CallsReturn
  GoneAreLeft
CHECK_DEADLOCK FALSE
