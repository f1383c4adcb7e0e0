CONSTANTS
  Topics = {"a", "b", "c"}
  Inputs = {"x", "y"}
  Services = {"s"}
  NoName = "-"
  MaxCalls = 4
SPECIFICATION MCSpec
INVARIANTS
  TypeOK
  RegisteredAsHeld
  LeftBehind
PROPERTIES
  OnlyOwnCalls
  MainReturns
CHECK_DEADLOCK FALSE
