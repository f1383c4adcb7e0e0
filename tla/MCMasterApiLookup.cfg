CONSTANTS
  Nodes = {"p", "q"}
  Topics = {"a", "b"}
  Uris = {"up", "up2", "uq"}
  Types = {"*", "T"}
  AnyType = "*"
  NoTopic = "-"
  Services = {"x"}
  ServiceUris = {"v", "w"}
  UriOf <- MCUriOf
  MaxCalls = 4
SPECIFICATION MCSpec
PROPERTY LookupNodeIsLatest
CHECK_DEADLOCK FALSE
