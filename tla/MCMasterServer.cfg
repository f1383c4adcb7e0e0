CONSTANTS
  Nodes = {"p", "s", "r"}
  Topics = {"a", "b"}
  Uris = {"up", "up2", "us", "ur"}
  Types = {"*", "T"}
  AnyType = "*"
  NoTopic = "-"
  Publishers = {"p"}
  Subscribers = {"s", "r"}
  UriOf <- MCUriOf
  MaxRequests = 4
  MaxLate = 1
SPECIFICATION MCFairSpec
INVARIANTS
  TypeOK
  RegistryConsistent
  SentListIsFollowedUp
  NoLostNotification
  PublishedTypeKnown
PROPERTIES
  OneRegistrationPerStep
  KeepsItsPromise
  EveryoneCatchesUp
CHECK_DEADLOCK FALSE
