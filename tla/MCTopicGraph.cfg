CONSTANTS
  Nodes = {"p", "q"}
  NoNode = "-"
  Publishers = {"p", "q"}
  Subscribers = {"p", "q"}
  MaxCalls = 4
  MaxCrashes = 1
SPECIFICATION MCFairSpec
INVARIANTS
  TypeOK
  NoDoubleConnection
  ConnectedWhenQuiet
PROPERTY CallsReturn
CHECK_DEADLOCK FALSE
