CONSTANTS
  Nodes = {"p", "s"}
  NoNode = "-"
  Publishers = {"p"}
  Subscribers = {"s"}
  MaxCalls = 4
  MaxCrashes = 0
SPECIFICATION MCCalmSpec
INVARIANT SubscribersAreConnected
CHECK_DEADLOCK FALSE
