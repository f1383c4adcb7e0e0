CONSTANTS
  Nodes = {"p", "s"}
  Topics = {"a"}
  Uris = {"up", "up2", "us"}
  Types = {"*", "T"}
  AnyType = "*"
  NoTopic = "-"
  Publishers = {"p"}
  Subscribers = {"s"}
  UriOf <- MCUriOf
  MaxRequests = 6
  MaxLate = 1
SPECIFICATION MCDefinedSpec
INVARIANT NotifiedUnlessCallFailed
CHECK_DEADLOCK FALSE
