CONSTANTS
  Nodes = {"p", "q"}
  Topics = {"a"}
  Uris = {"up", "up2", "uq"}
  Types = {"*", "T"}
  AnyType = "*"
  NoTopic = "-"
  Services = {"x"}
  ServiceUris = {"v", "w"}
  UriOf <- MCUriOf
  MaxCalls = 4
SPECIFICATION MCSpec
PROPERTY UnregistrationMatches
CHECK_DEADLOCK FALSE
