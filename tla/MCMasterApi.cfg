CONSTANTS
  Nodes = {"p", "q"}
  Topics = {"a", "b"}
  Uris = {"up", "up2", "uq"}
  Types = {"*", "T"}
  AnyType = "*"
  NoTopic = "-"
  Services = {"x", "y"}
  ServiceUris = {"v", "w"}
  UriOf <- MCUriOf
  MaxCalls = 3
SPECIFICATION MCSpec
INVARIANTS
  ApiTypeOK
  ServicesConsistent
  ListsAgree
  NodesAreKnown
PROPERTY IsADirectory
CHECK_DEADLOCK FALSE
