------------------------------ MODULE MasterApi ------------------------------
(***************************************************************************)
(* The requests a master answers (src/src/rosmasterserver.cpp) and the     *)
(* client that makes them (src/src/rosmaster.cpp): the registry of         *)
(* services, the look-ups, the lists, and the topic handlers of            *)
(* MasterServer with the arguments they are given and the answers they     *)
(* send.                                                                   *)
(*                                                                         *)
(* The XML-RPC server thread runs one request at a time, so that each is   *)
(* one action. The spin thread changes nothing an answer depends on; its   *)
(* steps are in MasterServer and not here.                                 *)
(*                                                                         *)
(* A node is known by its name only. A node that was restarted, or started *)
(* twice, has one name and several URIs.                                   *)
(***************************************************************************)
EXTENDS MasterServer

CONSTANTS
  Services,     \* service names
  ServiceUris   \* rosrpc:// URIs of providers

VARIABLES
  services_,    \* the registry of services, in order of creation
  answer,       \* the last request and its answer
  found,        \* history: the last look-up of a service
  latest        \* history: the URIs, one or none, each node registered last

apiVars == <<vars, services_, answer, found, latest>>

SystemServiceProviderNodeInfo ==
  [nodeName : Nodes, nodeUri : Uris, serviceUri : ServiceUris]

SystemServicesInfo ==
  [serviceName : Services, services : Seq(SystemServiceProviderNodeInfo)]

\* The names the server registers its methods under.
Methods == {"registerServer", "unregisterServer", "registerPublisher",
            "unregisterPublisher", "registerSubscriber", "unregisterSubscriber",
            "lookupNode", "getPublishedTopics", "getTopicTypes", "getSystemState",
            "getUri", "lookupService"}

ApiTypeOK ==
  /\ services_ \in Seq(SystemServicesInfo)
  /\ answer.num \in {0, 1}
  /\ answer.value \subseteq Uris \cup ServiceUris
  /\ found \in [service : SUBSET Services, uris : SUBSET ServiceUris]
  /\ latest \in [Nodes -> SUBSET Uris]

ApiInit ==
  /\ Init
  /\ services_ = << >>
  /\ answer = [api |-> "none", name |-> "", node |-> {}, uri |-> {}, code |-> 0,
               num |-> 0, value |-> {}]
  /\ found = [service |-> {}, uris |-> {}]
  /\ latest = [n \in Nodes |-> {}]

-----------------------------------------------------------------------------
(***************************************************************************)
(* Services.                                                               *)
(***************************************************************************)

\* The positions the loops over services_ and over one service's nodes stop at.
ServiceEntry(s) ==
  {i \in 1..Len(services_) :
     /\ services_[i].serviceName = s
     /\ \A j \in 1..(i-1) : services_[j].serviceName # s}

ProviderEntry(i, n) ==
  {j \in 1..Len(services_[i].services) :
     /\ services_[i].services[j].nodeName = n
     /\ \A k \in 1..(j-1) : services_[i].services[k].nodeName # n}

\* (Mutant: the two URIs change places.)
ProviderInfoMutant(n, u, v) == [nodeName |-> n, nodeUri |-> v, serviceUri |-> u]
ProviderInfo(n, u, v) == [nodeName |-> n, nodeUri |-> u, serviceUri |-> v]

RegisterService(n, s, v, u) ==
  LET info == ProviderInfo(n, u, v)
  IN \/ \E i \in ServiceEntry(s) :
          \/ \E j \in ProviderEntry(i, n) :
               services_' = [services_ EXCEPT ![i].services[j] = info]
          \/ /\ ProviderEntry(i, n) = {}
             /\ services_' = [services_ EXCEPT ![i].services = Append(@, info)]
     \/ /\ ServiceEntry(s) = {}
        /\ services_' = Append(services_, [serviceName |-> s, services |-> <<info>>])

\* An entry that loses its last provider goes. (Mutant: it stays.)
ShrinkServiceMutant(i, rest) == services_' = [services_ EXCEPT ![i].services = rest]
ShrinkService(i, rest) ==
  \/ rest = << >> /\ services_' = RemoveAt(services_, i)
  \/ rest # << >> /\ services_' = [services_ EXCEPT ![i].services = rest]

\* The names of a service's nodes are unique (ServicesConsistent): the loop erases
\* at most one. Neither URI is looked at.
UnregisterService(n, s) ==
  \/ \E i \in ServiceEntry(s) :
       \/ \E j \in ProviderEntry(i, n) :
            ShrinkService(i, RemoveAt(services_[i].services, j))
       \/ ProviderEntry(i, n) = {} /\ UNCHANGED services_
  \/ ServiceEntry(s) = {} /\ UNCHANGED services_

\* The first provider of the service. (Mutant: of any service.)
LookupServiceMutant(s) ==
  IF services_ = << >> THEN {} ELSE {services_[1].services[1].serviceUri}
LookupService(s) ==
  {services_[i].services[1].serviceUri :
     i \in {x \in ServiceEntry(s) : services_[x].services # << >>}}

-----------------------------------------------------------------------------
(***************************************************************************)
(* The answers about nodes and topics.                                     *)
(***************************************************************************)
UrisAs(infos, n) == {x.nodeUri : x \in {y \in infos : y.nodeName = n}}

\* (Mutant: a node that only subscribes is not found.)
NamedMutant(i, n) == UrisAs(topics_[i].publishers, n)
Named(i, n) == UrisAs(topics_[i].publishers, n) \cup UrisAs(topics_[i].subscribers, n)

\* The URI of the first entry with the name: topics in order, of each the
\* publishers first, then the services.
LookupNode(n) ==
  LET topic == {i \in 1..Len(topics_) :
                  Named(i, n) # {} /\ \A j \in 1..(i-1) : Named(j, n) = {}}
      service == {i \in 1..Len(services_) :
                    ProviderEntry(i, n) # {} /\ \A j \in 1..(i-1) : ProviderEntry(j, n) = {}}
      InTopic(i) == IF UrisAs(topics_[i].publishers, n) # {}
                    THEN UrisAs(topics_[i].publishers, n) ELSE UrisAs(topics_[i].subscribers, n)
      InService(i) == {services_[i].services[j].nodeUri : j \in ProviderEntry(i, n)}
  IN IF topic # {} THEN UNION {InTopic(i) : i \in topic}
     ELSE UNION {InService(i) : i \in service}

\* The lists, as sets: <<topic, type>>, and <<topic or service, URIs>>.
TopicTypeInfo(i) == <<topics_[i].topicName, topics_[i].topicTypeName>>

\* Subgraph is a set of topics: those whose names begin with the prefix asked
\* for. (Mutant: the topics with a subscriber.)
GetPublishedTopicsMutant(subgraph) ==
  {TopicTypeInfo(i) : i \in {x \in 1..Len(topics_) : topics_[x].subscribers # {}}}
GetPublishedTopics(subgraph) ==
  {TopicTypeInfo(i) : i \in {x \in 1..Len(topics_) :
     topics_[x].topicName \in subgraph /\ topics_[x].publishers # {}}}

GetTopicTypes == {TopicTypeInfo(i) : i \in 1..Len(topics_)}

GetSystemState ==
  LET Listed(role) == {<<topics_[i].topicName, UrisOf(topics_[i][role])>> :
                         i \in {x \in 1..Len(topics_) : topics_[x][role] # {}}}
      Uris_(i) == {services_[i].services[j].serviceUri : j \in 1..Len(services_[i].services)}
  IN [publishers |-> Listed("publishers"), subscribers |-> Listed("subscribers"),
      services |-> {<<services_[i].serviceName, Uris_(i)>> : i \in 1..Len(services_)}]

-----------------------------------------------------------------------------
(***************************************************************************)
(* The requests. code is the answer's, 1 for success, 0 for failure, and   *)
(* -1 for the fault the server sends for a method it does not have; num is *)
(* the number of entries an unregistration says it removed, value the URIs *)
(* in the answer.                                                          *)
(***************************************************************************)
Answer(api, name, n, u, code, num, value) ==
  answer' = [api |-> api, name |-> name, node |-> n, uri |-> u, code |-> code,
             num |-> num, value |-> value]

\* A look-up fails when it finds nothing.
Code(uris) == IF uris = {} THEN 0 ELSE 1

\* An unregistration counts one as soon as there is an entry for the topic or
\* the service, whether the caller was in it or not.
NumUnregistered(entry) == IF entry = {} THEN 0 ELSE 1

\* What a registration for a topic is told of the other side.
OtherSide(t, role) == UNION {UrisOf(topics_[i][role]) : i \in FirstEntry(t)}

\* Requests about services leave the topics alone, the others the services.
ServiceRequest == Handler /\ UNCHANGED <<topics_, task_queue_, dirty, history, found>>
TopicRequest == Handler /\ UNCHANGED <<services_, found>>

registerServer(n, s, v, u) ==
  /\ ServiceRequest
  /\ RegisterService(n, s, v, u)
  /\ latest' = [latest EXCEPT ![n] = {u}]
  /\ Answer("registerServer", s, {n}, {u}, 1, 0, {})

unregisterServer(n, s, u) ==
  /\ ServiceRequest
  /\ UnregisterService(n, s)
  /\ Answer("unregisterServer", s, {n}, {u}, 1, NumUnregistered(ServiceEntry(s)), {})
  /\ UNCHANGED latest

\* The client's registerService and unregisterService: a method of that name, or
\* a fault, which execute reports as a success with a result that is no array.
registerService(n, s, v, u) ==
  IF "registerService" \in Methods THEN registerServer(n, s, v, u)
  ELSE /\ ServiceRequest
       /\ Answer("registerService", s, {n}, {u}, -1, 0, {})
       /\ UNCHANGED <<services_, latest>>

unregisterService(n, s, u) ==
  IF "unregisterService" \in Methods THEN unregisterServer(n, s, u)
  ELSE /\ ServiceRequest
       /\ Answer("unregisterService", s, {n}, {u}, -1, 0, {})
       /\ UNCHANGED <<services_, latest>>

registerPublisher(n, t, type, u) ==
  /\ TopicRequest
  /\ RegisterPublisher(n, t, type, u)
  /\ latest' = [latest EXCEPT ![n] = {u}]
  /\ Answer("registerPublisher", t, {n}, {u}, 1, 0, OtherSide(t, "subscribers"))

registerSubscriber(n, t, type, u) ==
  /\ TopicRequest
  /\ RegisterSubscriber(n, t, type, u)
  /\ latest' = [latest EXCEPT ![n] = {u}]
  /\ Answer("registerSubscriber", t, {n}, {u}, 1, 0, OtherSide(t, "publishers"))

unregisterPublisher(n, t, u) ==
  /\ TopicRequest
  /\ UnregisterPublisher(n, t)
  /\ Answer("unregisterPublisher", t, {n}, {u}, 1, NumUnregistered(FirstEntry(t)), {})
  /\ UNCHANGED latest

unregisterSubscriber(n, t, u) ==
  /\ TopicRequest
  /\ UnregisterSubscriber(n, t)
  /\ Answer("unregisterSubscriber", t, {n}, {u}, 1, NumUnregistered(FirstEntry(t)), {})
  /\ UNCHANGED latest

lookupNode(n) ==
  /\ TopicRequest
  /\ Answer("lookupNode", n, {n}, {}, Code(LookupNode(n)), 0, LookupNode(n))
  /\ UNCHANGED <<topics_, task_queue_, dirty, history, latest>>

lookupService(s) ==
  /\ Handler
  /\ found' = [service |-> {s}, uris |-> LookupService(s)]
  /\ Answer("lookupService", s, {}, {}, Code(LookupService(s)), 0, LookupService(s))
  /\ UNCHANGED <<topics_, task_queue_, dirty, history, services_, latest>>

TopicCall(n, t, u) ==
  \/ \E type \in Types \ {AnyType} : registerPublisher(n, t, type, u)
  \/ \E type \in Types : registerSubscriber(n, t, type, u)
  \/ unregisterPublisher(n, t, u) \/ unregisterSubscriber(n, t, u)

ServiceCall(n, s, u) ==
  \/ \E v \in ServiceUris : registerServer(n, s, v, u) \/ registerService(n, s, v, u)
  \/ unregisterServer(n, s, u) \/ unregisterService(n, s, u)

ApiNext ==
  \/ \E n \in Nodes, u \in Uris :
       \/ \E t \in Topics : TopicCall(n, t, u)
       \/ \E s \in Services : ServiceCall(n, s, u)
  \/ \E n \in Nodes : lookupNode(n)
  \/ \E s \in Services : lookupService(s)

ApiSpec == ApiInit /\ [][ApiNext]_apiVars

-----------------------------------------------------------------------------
(***************************************************************************)
(* Properties.                                                             *)
(***************************************************************************)

\* One entry for each service, one for each node in it, and no entry without a
\* provider: lookupService takes the first provider of the first entry.
ServicesConsistent ==
  /\ \A i, j \in 1..Len(services_) :
       services_[i].serviceName = services_[j].serviceName => i = j
  /\ \A i \in 1..Len(services_) :
       /\ services_[i].services # << >>
       /\ \A j, k \in 1..Len(services_[i].services) :
            services_[i].services[j].nodeName = services_[i].services[k].nodeName => j = k

\* The registry of services is a directory: what was registered last is found,
\* what was unregistered is not, and no service disturbs another.
ProvidersOf(entry) ==
  {[service |-> entry.serviceName,
    node |-> entry.services[j].nodeName,
    uri |-> entry.services[j].serviceUri] : j \in 1..Len(entry.services)}

Provided == UNION {ProvidersOf(services_[i]) : i \in 1..Len(services_)}

Directory == INSTANCE ServiceDirectory WITH providers <- Provided

IsADirectory == Directory!Spec

\* What the lists say of one topic agrees: getPublishedTopics has the topics
\* getSystemState has publishers of, each with the one type getTopicTypes gives,
\* which is never "*".
ListsAgree ==
  LET published == GetPublishedTopics(Topics)
  IN /\ {x[1] : x \in published} = {x[1] : x \in GetSystemState.publishers}
     /\ published \subseteq GetTopicTypes
     /\ \A x, y \in GetTopicTypes : x[1] = y[1] => x = y
     /\ \A x \in published : x[2] # AnyType

\* A node can be looked up as long as it is registered for something, and what is
\* found is a URI of one of its registrations.
NodeUris(n) ==
  {r[3].nodeUri : r \in {x \in Registrations : x[3].nodeName = n}} \cup
  UNION {{services_[i].services[j].nodeUri : j \in ProviderEntry(i, n)} :
           i \in 1..Len(services_)}

NodesAreKnown ==
  \A n \in Nodes :
    /\ LookupNode(n) \subseteq NodeUris(n)
    /\ NodeUris(n) # {} => LookupNode(n) # {}
    /\ \A u, v \in LookupNode(n) : u = v

\* rosmaster.h:201: "Unregistration will only occur if current registration
\* matches" the caller's URI.
UnregistrationMatches ==
  [][answer'.api \in {"unregisterPublisher", "unregisterSubscriber"} =>
       \A r \in Registrations \ Registrations' : {r[3].nodeUri} = answer'.uri]_apiVars

\* rosmaster.h:139: lookupNode gets "the XML-RPC URI of the node with the
\* associated name", which is where the node registered from last.
LookupNodeIsLatest ==
  [][\A n \in Nodes : answer'.api = "lookupNode" /\ answer'.node = {n} =>
       answer'.value \subseteq latest[n]]_apiVars

\* rosmaster.h:207: registerService registers "the caller as a provider of the
\* specified service".
CallerBecomesProvider ==
  [][answer'.api = "registerService" =>
       \E p \in Provided' : p.service = answer'.name /\ {p.node} = answer'.node]_apiVars
=============================================================================
