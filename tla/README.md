# nanoros in TLA+

nanoros is a small C++ implementation of the ROS 1 protocols: a library for nodes
(publishers, subscribers, service providers and consumers), a master that nodes
register with, and command line tools (rostopic, rosnode, rosservice, rosmsg).
This directory holds TLA+ models of it, the TLC configurations that check them
and TLAPS proofs about them. Every definition is translated from the source;
`PROJECT.json` ("map") names the lines each one stands for.

## 1. The system

A *node* is a process with three kinds of threads: the **main thread** (the
application: `advertise`, `subscribe`, `publish`, `call`, and `spin`, which runs
the subscribers' workers), the **slave-server thread** (XML-RPC requests from
other processes, one at a time) and one thread for each **service provider**. The
*master* is a process with an XML-RPC **server thread** and a **spin thread**.
Processes talk over XML-RPC (control) and over TCP (TCPROS, data). Hardly any
state is protected by a lock.

    main thread of a node --- register*, unregister*, lookup* ---> master, server thread
    master, spin thread   --- publisherUpdate -------------------> node, slave-server thread
    subscriber (either thread) --- requestTopic -----------------> publisher node, slave-server thread
    subscriber's worker   --- TCPROS: header, messages ----------> publisher's worker
    service consumer      --- TCPROS: header, request, reply ----> provider's thread

| component | source | state | operations | what is hard | what makes it correct |
|---|---|---|---|---|---|
| master: topics and notifications | `src/rosmasterserver.cpp` | `topics_`, `task_queue_` | registerPublisher, unregisterPublisher, registerSubscriber, unregisterSubscriber, spinOnce | the spin thread walks `topics_` while handlers change it; calls of 3 s; slaves that do not answer | the registry is consistent; nobody stays behind with an old list of publishers |
| master: answers | `src/rosmasterserver.cpp` | `topics_`, `services_` | lookupNode, getPublishedTopics, getTopicTypes, getSystemState, getUri, the replies of the handlers | restarted nodes with the same name and a new URI | an answer agrees with the registry; what one instance of a node does leaves another's registrations alone |
| master: services | `src/rosmasterserver.cpp` | `services_` | registerService, unregisterService, lookupService | providers that went away | a lookup finds a provider exactly when one is registered |
| master client | `src/rosmaster.cpp` | an XML-RPC client with an `_executing` flag | one method per API call | faults, exceptions, two threads on one client | every call ends with the answer or an error |
| slave client | `src/rosslave.cpp` | an XML-RPC client with a 3 s timeout | publisherUpdate, requestTopic | late answers | a call ends within 3 s |
| node | `src/rosnode.cpp` | `subscribers_`, `publishers_`, `serviceProviders_` | subscribe, unsubscribe, advertise, unadvertise, advertiseService, ..., spinOnce | the slave-server thread reads and changes the same vectors | a registered publisher and a registered subscriber end up connected |
| slave server | `src/rosslaveserver.cpp` | the node's | publisherUpdate, requestTopic, getSubscriptions, getPublications, ... | runs beside the main thread; makes XML-RPC calls inside callbacks | the connections are those of the last list received |
| subscriber | `src/rossubscriber.cpp` | `workers_` | connect, disconnectUri, spinOnce | workers are never removed; a message is received, and the callback runs, while a lock is held | messages are delivered in order, once, and to the end |
| publisher | `src/rospublisher.cpp` | `workers_` | standBy, publish | an accept without timeout, dead peers, workers that are never removed | a message goes to every connected subscriber |
| service provider, consumer | `src/rosserviceprovider.cpp`, `src/rosserviceconsumer.cpp` | one connection each | advertise, call | one connection at a time, error replies, providers that stop | a call returns the reply to its own request |
| TCPROS transport | `src/rostcpros.cpp`, `include/nanoros/rostcprospacket.h` | socket, byte buffer | sendHeader, receivePacket, push, pop | short reads, wrong sizes, bodies that never come or never fit in the receive buffer | what is popped is what was pushed |
| packers | `src/packerfactory.cpp`, `src/rosmsgpackerfactory.cpp`, `src/rossrvpackerfactory.cpp`, `src/dllproxy.cpp`, `src/rosmsgpacker.cpp` | packers by type name, what is kept loaded, each packer's own map | getPacker, loadPackerFactoryDLL | search order, libraries that come, go and are broken while processes run | a packer that was found stays found, and its code stays loaded |
| generated packers | `apps/msgparser/msgparser.cpp`, `include/nanoros/rosmsgpacker.h`, `include/nanoros/rostcprospacket.h` | none | toPacket, toMsg | two sides with different definitions or libraries; nobody compares the hashes | packers with one hash understand each other; a packet is not read beyond its end |
| message parser and generator | `apps/msgparser`, `apps/nanorosmsgparser.cpp` | a parse | parse `.msg`, hash, generate packers | nested types, bad files, circular files | see generated packers |
| echo and pub tools | `apps/nanorostopic.cpp`, `src/json.cpp` | none | toJSON, fromJSON | keys, vectors and times that JSON does not carry | what is echoed can be published again |
| the other command line tools | `apps/*.cpp` | none | list, info, call | - | - |

Shared state without a lock: the master's `topics_` and `task_queue_` (server
thread and spin thread), a node's `publishers_` and `subscribers_` (main thread
and slave-server thread), the XML-RPC client to the master (both threads of a
node, when a subscriber has no packer). The registry lives in memory only: a
master that restarts knows nobody.

## 2. The modules

| module | what it is | runs and proofs |
|---|---|---|
| `MasterServer` | `topics_`, `task_queue_`, the four topic handlers, the spin thread | `MCMasterServer`, `MasterServerProofs` |
| `MasterPromise` | abstract: what the master promises the subscribers of its topics; `MasterServer` implements it | property `KeepsItsPromise` |
| `MasterApi` | extends `MasterServer`: arguments and answers of every request, `services_`, look-ups, lists, the client's calls | `MCMasterApi`, `MasterApiProofs` |
| `ServiceDirectory` | abstract: what the master promises about services; `MasterApi` implements it | property `IsADirectory` |
| `TopicGraph` | every node's main and slave-server thread and the master, for one topic | `MCTopicGraph`, `TopicGraphProofs` |
| `ServiceCall` | one service: its provider's thread, its consumers, the connections between them | `MCServiceCall`, `ServiceCallProofs` |
| `TopicChannel` | one publisher and one subscriber: publish, spinOnce, the workers, their threads and mutexes, reconnection, shutdown | `MCTopicChannel`, `TopicChannelProofs` |
| `LossyFifo` | abstract: what a topic promises its subscriber; `TopicChannel` implements it | property `IsLossyFifo` |
| `NodeLife` | one node: its calls to the master through a client that two threads share, its three vectors, its destructor | `MCNodeLife`, `NodeLifeProofs` |
| `PackerFactory` | what packers processes find, load and keep while the files change | `MCTypedTopic`, `TypedTopicProofs` |
| `MsgTypes` | definitions: members, hashes, what the generator leaves and what of it compiles | `MCTypedTopic`, `TypedTopicProofs` |
| `MsgCodec` | extends `MsgTypes`: what a packer writes and reads of each kind of member | `MCTypedTopic`, `TypedTopicProofs` |
| `MsgJson` | extends `MsgCodec`: what echo prints and pub reads | `MCTypedTopic`, `TypedTopicProofs` |
| `TypedTopic` | composes `PackerFactory` and `MsgJson`: a topic of two processes with definitions, packers and libraries of their own | `MCTypedTopic`, `TypedTopicProofs` |
| `SequenceLemmas` | facts about sequences the proofs share: the first element with a property, what a sequence holds, what is left when one is taken out, what a loop over one hands on, where the pieces of a packet begin | used by three of the proof modules |

`MasterServer` and `TopicGraph` look at one system from two ends. `MasterServer` has the registry in
detail (several topics, URIs, types, positions in the vector, dangling
iterators) and the slaves only as calls that succeed, fail or come late.
`TopicGraph` has the slaves in detail and the master with atomic handlers and
an atomic pop-and-copy. What `TopicGraph` calls a connection is taken apart in
`TopicChannel`, its messages in `TypedTopic`, and a node's whole life, with
services and several topics, is `NodeLife`.

### 2.1 MasterServer

| state | code |
|---|---|
| `topics_`, `task_queue_` | members of `ROSMasterServerImpl` |
| `pc`, `task`, `slot`, `seen`, `pubs`, `todo` | the spin thread: the popped task, its position between the cached `begin()` and `end()`, the copy of the entry it works with |
| `dirty` | an append or an erase since the walk began: its iterators dangle |
| `late` | requests the 3 s timeout of `rosslave.cpp:72` gave up, which the slave still has |
| `told`, `failed`, `torn` | history, for the properties only |

`RegisterPublisher` ... `UnregisterSubscriber` are the whole handlers, including
the task they queue. `PopTask`, `VisitSlot`, `CallSucceeds`, `CallFails`,
`EndCalls`, `EndTask` are the steps of `spinOnce` between which the server thread
can run. A read through a dangling iterator is a choice: what the slot holds now
or held when the walk began (`Readable`), a string that was moved from
(`VisitMovedSlot`), or the end of the process (`Crash`). Pushing and popping
`task_queue_` are atomic in the model; in the code they are a data race as well
(listed under "hazards").

`MasterPromise` is what a subscriber may rely on. It knows neither the vector nor the
queue nor the thread: a request changes one registration; a change of a topic's
publishers is owed to each subscriber at once; a debt goes only with a call that tells
the current list, with the subscriber, or into `lost`; a call that tells an old list
pays nothing, and a subscriber that is told one must be owed another. `registered` is
`Registrations`, `due` is whom a queued task or the walk still reaches (`Due`), `lost`
is `failed \cup torn`.

### 2.2 MasterApi and ServiceDirectory

| state | code |
|---|---|
| `services_` | member of `ROSMasterServerImpl`: a vector of entries, each with a vector of providers |
| `answer` | the last request: method, arguments, code, number of unregistrations, URIs |
| `found`, `latest` | history: the last look-up of a service; the URI each node registered from last |

One action per request, named like the method (`registerServer`,
`unregisterServer`, `registerPublisher`, ..., `lookupNode`, `lookupService`);
the server thread runs one at a time, and the spin thread's steps, which no
answer depends on, are left to `MasterServer`. `GetPublishedTopics`,
`GetTopicTypes`, `GetSystemState` change nothing: they are operators, compared
with each other in every state. `getUri` is a constant.
`registerService` and `unregisterService` are the client's calls
(`src/rosmaster.cpp`): their names are not among the server's `Methods`.
A node that was restarted has one name and several URIs.

`ServiceDirectory` knows only who provides what and where, and what the last
look-up found. The refinement mapping is `Provided`: the entries' providers as a
set. It forgets the order, and that is where the code could go wrong: an entry
kept after its last provider, a second entry for a service, a look-up that stops
at the wrong one.

Unregistrations answer 1 as soon as the topic or the service has an entry, also
for a caller that is not in it (`NumUnregistered`). `rosmaster.h:202` only says
what zero means, so that this is an observation and not a finding.

### 2.3 TopicGraph

| state | code |
|---|---|
| `publishers`, `subscribers`, `tasks`, `spin`, `pubs`, `todo`, `callee` | the master: the topic's entry, the queue's length, the spin thread and the slave it is calling |
| `publishers_`, `subscribers_` | the nodes whose vectors of that name have the topic |
| `thread[n]["main"]`, `thread[n]["slave"]` | the two threads of a node: where they are, whom they wait for, the publishers they have still to connect to |
| `inbox` | `publisherUpdate` requests a slave server has not begun |
| `workers[s][p]` | live connections of subscriber s to publisher p |
| `lost` | history: the pairs whose last notice or attempt failed |

`subscribe`, `connect`, `requestTopic`, `Open`, `Subscribed` are one call of
`ROSNodeImpl::subscribe`, cut where another thread can run: the reply of the
master, each `requestTopic`, each TCP connection, and the `push_back` at the end.
`publisherUpdate`, the same middle steps, and `Updated` are the callback of the
slave server. A slave-server thread answers `requestTopic` only while it is idle;
otherwise the caller waits until its timeout (`GiveUp`, `CallTimeout`).

Observations that shaped the model:
  - `publisherUpdate` compares the connections' `tcpros://` URIs with the list's
    `http://` URIs. None is ever equal, so that every notice drops all
    connections and makes them again (`DropConnections`), although the comments
    at `rosslaveserver.cpp:377` and `:387` expect some to be kept. It is also why
    a subscriber is never connected twice.
  - `unsubscribe` asks the subscriber's `disconnect()`, which `ROSSubscriberImpl`
    does not override; the inherited one returns false and `unsubscribe` returns
    there. No action models it.
  - `receivePacket` has no timeout once a packet's size was read: a publisher
    that dies between the size and the body of its header leaves the reader
    waiting for ever ("hung").

### 2.4 ServiceCall

| state | code |
|---|---|
| `server`, `peer`, `work` | the provider's thread: where it is in its loop, `socket_`, the packet it took |
| `queue` | connections in the backlog of `serverSocket_` |
| `client[c]`, `calls[c]`, `result[c]` | where consumer c is in `connect` and `call`, how many calls it made, which call its last reply was for |
| `open`, `up[c]`, `down[c]` | the connection's two ends and its two streams |
| `skewed` | consumers that took bytes of one thing for another |
| `dropped` | history: consumers whose connection the provider closed |
| `offbeat` | history: consumers that met a timeout or an error |

The provider's loop is `accept`, `receiveHeader` or `HeaderTimeout`, `sendHeader`,
and then `receiveRequest` followed by one of `Fail`, `Callback` and `sendPacket`, or
`CallbackThrows`; `PeerClosed` ends the connection, and so does `WriteThrows`, a
write to a consumer that has gone, which the handler around the loop catches. The
header is written outside of that handler (`rosserviceprovider.cpp:45`): if the
consumer has gone by then, what the write throws ends the provider's process
(`HeaderThrows`, "crashed"). A consumer is `connect()`
(`tcpros_connect` to `HelloTimeout`) and any number of `call`. A stream is a
sequence of tokens, one for each thing that is sent. Packets carry no number in
the code; the model numbers requests, and replies after them, so that a property
can say whose reply was read. A read that does not fit what was sent skews the
stream: the bytes after it are anything, and a consumer may read a reply that is
none, or wait for ever (`receiveByteSkewed`). Of the ends of the provider's process
only `HeaderThrows` is in the model, and the order of the packets of a connection
is TCP's.

`receivePacket` takes a packet when all of its body is in the socket's receive
buffer (`rostcpros.cpp:144`), for which there is no timeout. A body that was never
written and one that is larger than the buffer look the same to who waits: a size
without a body (`Partial`). Any request and any response may be one (`call`,
`sendPacket`); what waits for it is "hung" or "stuck".

Observations: the timeout of 1.0 s of a call becomes 1 ms (`rosserviceconsumer.cpp:65`
passes seconds where milliseconds are expected); `receiveByte` has a timeout
parameter and no timeout, and does not ask whether it is connected, so that a call
whose callback throws never returns; a `connect()` whose header did not come returns
true.
The repository's documentation promises nothing that these contradict, so that
they shape the properties (`offbeat`) and are not findings.

### 2.5 TopicChannel and LossyFifo

| state | code |
|---|---|
| `held`, `app`, `standby`, `dtor`, `workers_` | the publisher: who still holds it, the worker `publish` is at (it has `workers_mutex_`), the worker `standBy` is about to push, where the destructor is |
| `worker`, `connected_`, `tcpros_` | each worker's thread and the two members it sets |
| `first`, `stream`, `torn`, `cur` | the network: whom a listening worker will accept, the packets on the way, packets that are never all there, the last connection requested |
| `conn`, `subWorkers_`, `subTcpros_`, `spin` | the subscriber: its slave-server thread, its workers, its main thread; `spin` not idle means that spinOnce has `workers_mutex_` |
| `shutdown_flag`, `pubUp`, `subUp` | the signal, the processes |
| `sentLast`, `published`, `received` | history |

A message is the number of its `publish`, a connection the number of its
`requestTopic`, a header the packet 0. Cut points are the mutexes, each worker
of a walk, each write, and what a thread waits for: `publish` visits one worker
per step, `spinOnce` too, and the destructor pokes (connects to its own port) and
joins worker by worker. A write to full buffers is a step that is not enabled.
A packet that is larger than the receive buffer is never there as a whole, and
spinOnce waits for the rest with `workers_mutex_` ("hung"), with a living publisher
as with a dead one; such a write either fits in what room the buffers have and
ends, or does not (`SendPacket`, `WriteBlocks`). Any message may be too large.
The processes crash at any point, with or without a packet's body unwritten
(`PublisherDies`), or within a header (`SubscriberCrash`).

Undefined behaviour is a choice: `sendPacket` has no return on success, so that
the connection just written to may be dropped (`SendPacket`); `bind` may fail,
and nobody looks (`Listen`, state "deaf").

A socket that is closed by the peer is noticed at the latest when nothing is
left to read (`DetectLost`); when it is noticed earlier what was not read is
lost, which the promise allows.

`LossyFifo` knows the number of messages published and what the callback was
called with: each message at most once, in order, none out of nothing. Variables
have the same names, so that the refinement mapping is the identity on them. It
is a promise about a subscriber, not a connection: `publisherUpdate` drops the
connection and makes another while messages are on the way.

### 2.6 NodeLife

| state | code |
|---|---|
| `publishers_`, `subscribers_`, `serviceProviders_` | members of `ROSNodeImpl` |
| `registered` | the master's entries for this node |
| `client` | `_executing` of the XML-RPC client in `ROSMasterImpl`, which both threads use |
| `main`, `slave` | the main thread's call and its step; the topic whose type the slave-server thread asks for |
| `packed` | the subscribers that have a packer |
| `slots`, `slot` | the vector as it was when `unadvertiseAll` began, and the position of its iterator |
| `failed` | history: the entries whose last call failed |

A call of the application is `subscribe(t)` ... `unadvertiseService(s)`, then
`execute` or `Refused` (the other thread is in a call), then `Answered` (handled
and answered, handled and the answer lost, or not handled) or `Fault`, then the
step that changes the vector (`Registered`, `Unadvertised`, ...). Destroying the
node is `Destroy`, `UnadvertiseSlot` for each turn of the loop that erases from
the vector it iterates over, `UnadvertiseServices` and `Stop`. Reads behind a
vector's end, through a null optional (`rosnode.cpp:98`, where `AskType` follows a
registration that failed) or through a vector that is being changed
end the process or go on with anything (`Crash` beside the other outcome).

### 2.7 The packers: PackerFactory, MsgTypes, MsgCodec, MsgJson, TypedTopic

| state | code |
|---|---|
| `disk`, `loaded` | the environment: what library of what type is in what directory; what the system has loaded for a process |
| `packers_`, `dllproxies_`, `nested` | the two factories' maps, and each packer's own map of members' packers |
| `generated` | the types a process's build has generated code for |
| `advertised`, `subscribed`, `alive` | the two ends of the topic, and whether an exception has ended the process |
| `wire`, `got`, `printed` | the packet on the way, what the callback got, what echo printed |

A definition is a sequence of members (`kind`, `type`, `dims`, `name`, and
whether the type is of the same package). `Fields`, `md5sum`, `Parsed`,
`Generated` are what the parser and generator make of it; `Buildable` is what of
the generated code a compiler accepts. Two things the code does are kept because
the hash or the packet depends on them: a vector of a message type and one of
it have the same hash, and a type name of one letter is taken for a vector
(`find` and `length() - 2` are both npos).

A message has messages as members, and these have others. The generated packers
call each other for them; the model has one step for one level (`pushMsg`,
`popMsg`, `JsonOfMsg`, `setMsg`, and `TextOf` for the hashes), which is given what
the packers of the members' types do, and a function over `0..Levels` that puts
the levels together. `Levels` is no bound on the code: no chain of messages
within messages has a type twice, or its hash would never be computed, and so none
is longer than there are types (`DepthAssumption`).

`toPacket` and `toMsg` work on sequences of bytes; a word has `WordBytes` bytes
of `Base` values and is signed where the code reads it as signed. Every reader
has the code's checks (`popNumber`, `popString`, `popTime`), and what it throws
ends the process. A string whose size does not fit gives the size's bytes back
(`rostcprospacket.h:196`): the next member is read from them again. A member whose
packer is not found is passed over.
Seven primitive types stand for the sixteen: a byte, a string, a time, and four
kinds of words, for these are the ways the code treats them. To packets all words
are alike; to JSON they differ in being whole or floating, and in whether the kind
of the JSON value is looked at (`isType`: of int64, float64 and string only).

`toJSON` and `fromJSON` are the generated conversions on a small abstract JSON; text
that is not JSON is "bad". What printing and parsing do to a value are constants:
a byte is printed as a character (`Digit`: which of them are a number), a float with
the six digits of a stream (`SixDigits`, which nan and the infinities have not) and
read as the nearest one (`NearestFloat`), a string raw between quotes, so that
parsing replaces what begins with a backslash (`Escape`) and fails at what must not
be there (`Banned`). One thing is left out: quotes in a string may happen to
complete each other to JSON of another shape; the model has such text as no JSON, and
lets `echo` survive or end on it.

Of the hashes one case is left out: every level of `parse_md5` keeps its file open
(`md5.cpp:56`), so that the recursion of a circular definition may end where no file
can be opened any more, with a hash that depends on that limit.

`TypedTopic` has one message on the way at a time, for the order of messages is
`TopicChannel`'s. Its actions are `Generate`, `Install`, `Spoil` (the world around
the processes), `advertise`, `subscribe`, `useService`, `publish`, `spinOnce`,
`echo`, `publishJSON`. Each leaves the factories' state alone, or is one
`LookUp`, or one `ChangeDisk`: it is a step of `FactorySpec` (`UsesTheFactories`),
so that what is proved of that specification holds of `TypedTopic` too.

`RoundTrip` has three conditions, and each is the code's. Two are in `SameShape`: the text
that is hashed has no brackets for a vector of a message type, and has the hash
of a member's type where its name stands, so that two types with one text are
one for it. The third is that both sides found packers for the same members.

Observations, which no document contradicts and which shape the properties:
the connection's header carries the hash and nobody compares it; a vector read
from JSON is always empty; services search their packers in the current
directory alone, although `README.md:55` names the environment variable for
both (`packerDirHints_`).

## 3. Runs

| run | asks | instance | result |
|---|---|---|---|
| `master` | is the registry consistent, is every subscriber told, does everyone catch up | 1 publisher with 2 URIs, 2 subscribers, 2 topics, 4 requests, 1 late call | holds |
| `master_notified` | is everyone told, as `rosmaster.h:166` says, if no call fails and no read is undefined | 1 publisher, 1 subscriber, 1 topic, 6 requests | violated |
| `master_api` | services, look-ups and lists | 2 nodes, one with 2 URIs, 2 topics, 2 services, 3 calls and any number of look-ups | holds |
| `master_api_unregister` | is a registration under another URI left alone (`rosmaster.h:201`) | 2 nodes, 1 topic, 1 service, 4 calls | violated |
| `master_api_lookup` | is a node looked up where it is (`rosmaster.h:139`) | 2 nodes, 2 topics, 1 service, 4 calls | violated |
| `master_api_services` | does registerService register (`rosmaster.h:207`) | 2 nodes, 1 topic, 1 service, 4 calls | violated |
| `graph` | connections: never two, and none missing but for a lost notice; does every call return | 2 nodes, both publisher and subscriber, 4 calls, 1 crash | holds |
| `graph_connected` | does a subscriber find every publisher if nothing fails | 2 nodes, 4 calls, no crash, no failure | violated |
| `service` | does a reply belong to its call, does a call return, does the provider go on to the next | 2 consumers, 2 calls, a backlog of 1 | holds |
| `channel` | is a topic a FIFO that only loses; do publish, the destructor, a reconnection and the shutdown end | 2 connections, 2 messages, buffers of 1 packet, any crash | holds |
| `node` | does the master have what the node has; what is left when it is gone; does every call return | 3 topics to publish, 2 to subscribe, 1 service, 4 calls and the destructor | holds |
| `packers` | do packers understand each other, are packets read within their bounds, does JSON keep a message, do libraries stay | 2 processes, 14 pairs of definitions, words of 2 bytes of 3 values, 1 library changed | holds |

The properties:
  - `RegistryConsistent`: one entry per topic, one per node in each of its lists,
    no entry nobody uses. `OneRegistrationPerStep`: erasing an entry takes nobody
    else's registration along. `PublishedTypeKnown`: a `*` does not outlive the
    first publisher.
  - `SentListIsFollowedUp` and `NoLostNotification`: the list in transit is
    current or a queued task corrects it; a subscriber that is behind is queued,
    being served, or lost its notice to a failed call or a torn walk.
    `EveryoneCatchesUp` is the liveness of it. `KeepsItsPromise` says it of every
    step, as a refinement of `MasterPromise`: no request drops a task, no call pays the debt
    of another subscriber, and nothing is owed that nobody asked for.
  - `ServicesConsistent`: one entry per service, one provider in it per node, none
    empty. `IsADirectory`: the registry and its look-up implement
    `ServiceDirectory`. `ListsAgree`: what three lists say of a topic agrees.
    `NodesAreKnown`: lookupNode finds a node exactly as long as it is registered
    for something.
  - `NoDoubleConnection`, `ConnectedWhenQuiet`: see above; `lost` excuses a pair
    only after its last notice or attempt failed.
  - `CallsReturn` (`TopicGraph`): subscribe, advertise and unadvertise return though
    slave servers wait in circles.
  - `RepliesMatch`: a consumer without a timeout or an error behind it gets the reply
    to the call it makes; only the order in the stream ties the two together.
    After a timeout or an error the code promises nothing: the rest of what was
    given up is still in the stream. `CallsReturn` (`ServiceCall`): a call returns but
    for the waits without an end, which it names one by one: a timeout or an error
    before it, a connection the provider closed because the callback threw or the
    header was a probe (`dropped`), a request or a response that is too large.
    `GoneAreLeft`: a consumer that closes does not keep the provider from the others,
    unless it left a packet without its body, or left before it got its header, which
    ends the provider; once it has its header it cannot do the latter.
  - `ServedWithoutGaps`: a dead worker in the vector does not keep publish from those
    after it. `IsLossyFifo`: see 2.5. `PublishReturns`: in spite of dead and slow
    subscribers, provided these spin, and unless the connection it writes to is that of a
    subscriber that waits for the rest of a packet: the two then wait for each other for
    ever. `DestructorReturns`: but for the waits the code has no end
    for, which `Stranded` names one by one. `ReconnectionEnds`, `ShutdownIsObeyed`: the
    slave-server thread comes back, and SIGINT ends the process, unless a packet is never
    all there (`Hung`).
  - `RegisteredAsHeld`: master and vectors agree between two calls but for entries whose
    last call failed; a lost answer is what makes it hard. `LeftBehind`: exactly every
    second publisher is unregistered by the destructor, and the rest stay with the
    master. `OnlyOwnCalls`: an entry leaves a vector only by a call about it.
    `MainReturns`: the shared client is free again after every call, refused or not.
  - `CodeStaysLoaded`: the code of every packer in any map stays loaded though only one of
    several handles is kept. `FoundStaysFound`: whatever becomes of the files.
  - `RoundTrip`: with the same hash, and packers found for the same members, the callback
    gets what was sent and the packet is used up. `ReadWithinPacket`: for any two
    definitions, where a reader steps back too. `JsonKeepsTheRest`: what echo prints and
    pub publishes is the message but for what `Left` says: vectors are empty, bytes are
    digits, floats have six digits, backslashes are taken for escapes.

What the violated runs show:
  - `master_notified`: a topic that was erased and is created again queues no
    task. A subscriber that re-registers while the spin thread sends a list of
    the topic's former life is told that list last, and nothing corrects it.
  - `master_api_unregister`: handlers compare the caller's name only, so that a
    late unregistration of a former instance removes the new one's entry.
  - `master_api_lookup`: a node registers a topic, restarts elsewhere and registers
    another topic; lookupNode answers the first topic's entry.
  - `master_api_services`: client and server disagree on the method's name.
  - `graph_connected`: `advertise` registers before its slave server can find the
    publisher, and `subscribe` connects before its slave server can find the
    subscriber. A request that comes in the window is refused or dropped, and
    nobody repeats it: the two are never connected.

**Bounds.** `MaxRequests`, `MaxCalls` bound what clients and applications ask
(the code loops for ever), `MaxLate` the late calls at a time, `MaxCrashes` the
crashes. Four requests are enough for a topic to be created, erased and created
again under a walk, with a second topic before it in the vector; four calls for
two publishers that come, one that goes, and a subscriber in between. Three
calls in `MasterApi` are two providers of a service of which one leaves, or two
services of which one goes. In `ServiceCall` a
second call meets what the first one left in the stream, a second consumer waits
behind the first. In `TopicChannel` two connections are the one that is dropped
and the one that replaces it, or a dead worker and a live one behind it; two
messages are one on each side of that, with room for one in the buffers. Four
calls in `NodeLife` are three publishers and a failure, the smallest vector in
which the loop of the destructor passes one over and goes on after it. The
fourteen pairs of definitions in `MCTypedTopic` are the cases on which the packers'
ways part: the same on both sides, one against many, two versions of a package,
members in another order, one name with another type, floats and strings whose JSON is
another value or none, files that are bad, circular or missing; a word of two
bytes of three values is big enough for a negative length, and for a length
that is too big; `Slots` are the libraries that come and go. Two
subscribers are enough for a torn list of calls, two URIs for a node that was
restarted. When the bound is reached the model runs on until all is quiet and
stops, hence `CHECK_DEADLOCK FALSE`.

**Fairness.** `WF_vars(spinOnce)`: the master's main thread calls it in a loop
(`spin`). `WF` of each node's threads in `TopicGraph`: a thread that can run does;
there is no lock it could starve at in these steps, and every wait has a timeout,
which is an action. None is assumed for the applications, for crashes or for the
clients. In `ServiceCall` `WF_vars(Provider)` and `WF_vars(Reads(c))`: the
provider's loop and a consumer inside `connect` or `call` run on, and callbacks
return; nobody is made to connect, to call or to close. In `TopicChannel` every thread
that can go on does (WF); `StandBy` and `NeedsLock` wait for a mutex and get it if
it is free again and again (SF): the loops of the tools and the examples sleep
outside of it. `spin()` without a rate does not, and could starve them. Publishing,
ending, crashing have none. In `NodeLife` `WF` of the two threads' steps: a call to the
master ends with an answer or a closed connection, for a master that accepts and
never answers keeps its caller for ever (`ROSMasterImpl` has no timeout). Callbacks end; a
write is a step that ends, but for a publisher's, which may block (2.5), and that of a
packet too large for a service, whose sender cannot go on but by the other's leaving. A timeout (`GiveUp`, `CallTimeout`) can only happen while its peer is
busy or gone: a slave server that is idle answers well within 3 s.

## 4. Proofs

For every value of the constants (any number of nodes, topics, URIs, types,
consumers, connections, processes, directories; any number of requests, messages
and crashes; any size of the buffers and of the backlog). The assumptions on the
constants are few: a value that stands for nothing is not one of the things
(`NoTopicAssumption`, `NoNodeAssumption`, `NoPeerAssumption`, `NoNameAssumption`,
`AppAssumption`), `*` is a type (`AnyTypeAssumption`), the backlog and the
buffers are natural numbers (`BacklogAssumption`, `BoundsAssumption`), and the
types of `PackerFactory` are what they must be (`KindsAssumption`,
`DirsAssumption`). For the packers: a byte has two values or more and a word one byte
or more (`CodecAssumption`), digits are numbers, floats are words and what an escape
stands for is no longer than it (`JsonAssumption`), a type's name is
not a primitive type's (`TypesAssumption`), definitions are sequences of lines about
finitely many types, `Levels` of them at most (`DepthAssumption`), and the
application publishes messages of the topic's type (`CasesAssumption`). Each
stands in the module that declares its constants, and TLC
evaluates it in every run of that module.

| theorem | states |
|---|---|
| `MasterServerProofs!TypeCorrect` | `Spec => []TypeOK` |
| `MasterServerProofs!RegistryStaysConsistent` | `Spec => []RegistryConsistent` |
| `MasterServerProofs!SentListsAreFollowedUp` | `Spec => []SentListIsFollowedUp` |
| `MasterServerProofs!NotificationsAreNotLost` | `Spec => []NoLostNotification` |
| `MasterServerProofs!PublishedTypesAreKnown` | `Spec => []PublishedTypeKnown` |
| `MasterServerProofs!OneRegistrationAtATime` | `Spec => OneRegistrationPerStep` |
| `MasterServerProofs!TheMasterKeepsItsPromise` | `Spec => KeepsItsPromise` |
| `MasterServerProofs!ThePromiseIsWorthIt` | `Promise!Spec => []Promise!ToldOrOwed` |
| `MasterApiProofs!ApiImplementsMaster` | `ApiSpec => Spec` of `MasterServer` |
| `MasterApiProofs!ApiTypeCorrect` | `ApiSpec => []ApiTypeOK` |
| `MasterApiProofs!ServicesStayConsistent` | `ApiSpec => []ServicesConsistent` |
| `MasterApiProofs!RegistryIsADirectory` | `ApiSpec => IsADirectory` |
| `MasterApiProofs!ListsAlwaysAgree` | `ApiSpec => []ListsAgree` |
| `MasterApiProofs!NodesStayKnown` | `ApiSpec => []NodesAreKnown` |
| `TopicGraphProofs!TypeCorrect` | `Spec => []TypeOK` |
| `TopicGraphProofs!NeverDoublyConnected` | `Spec => []NoDoubleConnection` |
| `TopicGraphProofs!ConnectedOnceQuiet` | `Spec => []ConnectedWhenQuiet` |
| `ServiceCallProofs!TypeCorrect` | `Spec => []TypeOK` |
| `ServiceCallProofs!CallsGetTheirReplies` | `Spec => []RepliesMatch` |
| `TopicChannelProofs!TypeCorrect` | `Spec => []TypeOK` |
| `TopicChannelProofs!ConnectionsAreServed` | `Spec => []ServedWithoutGaps` |
| `TopicChannelProofs!ChannelIsALossyFifo` | `Spec => IsLossyFifo` |
| `NodeLifeProofs!TypeCorrect` | `Spec => []TypeOK` |
| `NodeLifeProofs!MasterKnowsTheNode` | `Spec => []RegisteredAsHeld` |
| `NodeLifeProofs!EverySecondIsLeft` | `Spec => []LeftBehind` |
| `NodeLifeProofs!NothingIsLost` | `Spec => OnlyOwnCalls` |
| `TypedTopicProofs!FactoryTypesCorrect` | `FactorySpec => []FactoryTypeOK` |
| `TypedTopicProofs!LoadedForEver` | `FactorySpec => []CodeStaysLoaded` |
| `TypedTopicProofs!FoundForEver` | `FactorySpec => FoundStaysFound` |
| `TypedTopicProofs!UsesTheFactories` | `Spec => FactorySpec` |
| `TypedTopicProofs!PackersOfTheTopicStay` | `Spec => []CodeStaysLoaded /\ FoundStaysFound` |
| `TypedTopicProofs!TopicTypesCorrect` | `Spec => []TypeOK` |
| `TypedTopicProofs!NeverReadBeyond` | `Spec => []ReadWithinPacket` |
| `TypedTopicProofs!SameHashUnderstood` | `Spec => []RoundTrip` |
| `TypedTopicProofs!JsonKeepsTheRestOfIt` | `Spec => []JsonKeepsTheRest` |

*MasterServer.* `NoLostNotification` is not inductive: a call that succeeds
settles its subscriber only if the list is the current one or a task follows,
which is `SentListIsFollowedUp`; that one needs to know that the walk's slot is
an entry of the registry, which is `WalkPosition`, and that no other entry has
the topic, which is `RegistryConsistent`. The handlers are split into what they
do to the vector (overwrite, append, erase), with one lemma for each
(`UpdateStep`, `AppendStep`, `RemoveStep`). For `OneRegistrationPerStep` and
`PublishedTypeKnown` each handler is one edit of the registry as a set of facts
(`RegistryEdit`): one role of one topic gains, loses or replaces the entry of one
node, wherever the topic's entry is in the vector and whether it stays there.
The refinement of `MasterPromise` looks at registrations and debts one by one
(`Fact`, `Debt`). A handler leaves all facts alone but its caller's
(`OthersStay`), and either every topic in its place or no debts to the walk
(`HandlerDue`); the steps of the walk change no debt (`WalkPromise`); a call that
succeeds pays with the current list or, by `SentListIsFollowedUp`, with one that a
queued task follows (`CallSucceedsPromise`). `ThePromiseIsWorthIt` shows, in the
abstract and without the walk, that whoever keeps the promise leaves no subscriber
with an old list unless it is owed another or known to have lost it.

*MasterApi.* `ServicesConsistent` is inductive beside its type (`ServicesInv`).
The proof has two layers, a list of entries and one entry's list of providers;
on each, overwriting, appending and erasing have a lemma that says what they do
to the set of who provides what (`OverwriteEntry`, `AppendEntry`, `RemoveEntry`,
`ReplaceProvider`, `AddProvider`, `RemoveProvider`). A handler is a combination of
them, and so maps to one step of the directory. `ApiImplementsMaster` carries
the theorems of `MasterServerProofs` over, and `ListsAgree` is a consequence of
two of them. `NodesAreKnown` is about two loops that stop at the first hit
(`LookUpLoops`): they find something exactly when an entry has the node.

*TopicGraph.* `NoDoubleConnection` needs to know that one thread of a node at a
time connects (`OneThreadConnects`: the main thread before the subscriber is in
the vector, the slave-server thread after), that nothing is connected before
either began (`NothingBefore`), and that no publisher ahead of a thread is
connected already (`AheadIsNew`). Most steps either change one thread
(`OneThreadStep`) or only take away (`LessStep`); opening a connection, entering
the vector and `publisherUpdate` have a lemma each.

`ConnectedWhenQuiet` speaks of the end only; what holds on the way is `SettlingInv`.
Of every pair of a subscriber and a publisher that the master knows, one of
these is true (`Settling`): a task is queued; the spin thread has still to call the
subscriber; the last list in its inbox has the publisher; or the inbox is empty and
the pair is connected, lost, or ahead of one of the subscriber's threads. For that
to be kept, a list still to be sent must be current or followed by a task
(`ListIsCurrent`), only subscribers may be called (`CalledAreSubscribers`), and a
publisher that closes its sockets must be unknown to the master already
(`LeavingIsUnknown`). Only the last list in an inbox counts, and that is why a call
that timed out, whose list stays there, does no harm.

*ServiceCall.* A reply has no number in the code, so that `RepliesMatch` must come
from the place in the streams. `IInv` puts every consumer without a timeout or an
error behind it in one of seven phases (`InPhase`), each of which says exactly
what is in its two streams and where the provider is with it: nothing, if no
call is being made; the request, or what the provider does with it, or the reply,
if one is; nothing, too, if the provider closed the connection; a size without a body
if one of them waits for what is too large. `AcceptedOnce` keeps the others out: a consumer is in the backlog once, or
the provider's peer, or neither. A step of one consumer leaves the phases of the others
alone (`OthersOfConsumer`), and so does the provider's (`OthersOfProvider`).

*TopicChannel.* That no message comes twice or late needs three facts together: only the
connection requested last can be open at the subscriber (`CurInv`); a worker is once
in the publisher's vector and is pushed there between two publish calls (`WorkersInv`);
and what is on the way is newer than what was received, while what the publish
at hand has still to write is newer than both (`OrderInv`, `Ahead`). With them every
step is one of `LossyFifo` or leaves its variables alone. `GapInv` says which connections
behind and ahead of the walk have the message, from which `ServedWithoutGaps` follows.
There is one lemma for each action, and few of its conjuncts change: what
a step does not touch is taken over by `Frames`, what reading does by `ReadingKeeps`,
what writing does by `WritingKeepsOrder`.

*NodeLife.* Between the call and the change of the vector master and node may differ in
the entry of the call, and in no other (`OthersAsHeld`, `CallInv`); the thread
that shares the client changes no entry. For the destructor `Destroying` says what is left after
each turn of the loop: the vector without the slots of odd position so far (`Erased`), so that the name
under the iterator is the next slot of odd position, for any number of publishers.
`OnlyOwnCalls` follows step by step (`OwnCalls`).

*PackerFactory.* The inductive invariant is `FactoryTypeOK /\ CodeStaysLoaded`. A
look-up of any number of types keeps of each library one handle and adds each
packer once (`Looked`); that the library it loads is a good one needs the first
good directory of a search (`FirstHint`, from the well-foundedness of the
natural numbers). These theorems are about `FactorySpec`, any look-ups and any changes
of the disk; `UsesTheFactories` carries them over to `TypedTopic`, whose every
action is a `LookUp`, a `ChangeDisk` or leaves `factoryVars` alone.

*TypedTopic.* The invariant is `TInv`. Its half `ToolInv` says of the world around the
topic that a packer that is found, or lies in a directory, was built of the
process's own definitions: its type is one of them and its code compiles
(`Built`). `TopicInv` says where everything under way comes
from: what is on the wire was written of a message of the topic's type with the
packers that are named (`Sent`), what the callback got was read from such a packet
(`Called`), and what echo printed is the JSON of a message (`Shown`). Each step
takes one of them to the next, so that the properties become statements about the
packers alone, without a state:
  - `ReadWithinPacket`: every reader that begins within the packet ends within it,
    if it succeeds, steps back and fails, or throws, and returns a value the C++ type can hold
    (`popMsgType` and the lemmas before it); the loops over members and elements are
    functions over `0..n`, which are followed by induction over their turns.
  - `RoundTrip`, first half: equal texts make equal packers. A text lists its
    constants first, so that equal texts have as many constants and equal
    members (`SameParts`, `SameItems`); a member of a message type has its type's text
    in it, so that this goes on level by level, down to the last
    (`FieldsAlike`, `FieldsAlikeAt`), and default messages are equal too (`BlanksAlike`).
  - `RoundTrip`, second half: what is written is read. A packet holds the bytes of
    each member at the place where the ones before it end (`Laid`, `HoldsPieces`);
    a word's bytes are the digits of its number, for any `Base` and `WordBytes`
    (`WordNumber`); a reader that begins where the writer began returns what was
    written and ends where the writer ended, for a primitive type (`popRead`), for a
    vector or an array (`ManyCarried`, `ElementsCarried`), for a member
    (`FieldCarried`), for all of them (`MessageCarried`), and level by level for
    messages within messages (`CarriedThrough`). A member without a packer is passed
    over by both, and is the default one in what was read (`Masked`).
  - `JsonKeepsTheRest`: the same for the way through JSON, where what is written
    without an exception is read without one, for a string too whose text is another after
    parsing (`stringOfType`), and for a float whose digits are another's (`NumberLeft`,
    `MemberLeft`, `MessageLeft`, `LeftHolds`).

The levels are numbers, so that no induction over definitions is needed: a lemma
for one level has what the next one does as a hypothesis, and the induction over
`0..Levels` is one of a set of numbers that has a least element.

Only model-checked are the liveness properties (`EveryoneCatchesUp`, `CallsReturn`, `GoneAreLeft`,
`PublishReturns`, `DestructorReturns`, `ReconnectionEnds`, `ShutdownIsObeyed`,
`MainReturns`): they need fairness, which is out of the provers' reach.

Every invariant and every action property of the runs that pass is a theorem.

## 5. Not modelled, and the plan

Still to do: two publishers in one process whose main threads write to each other
(`rospublisher.cpp:176`), a pair of channels that share their threads.

Left out for good:
  - Service packers, which forward to two message packers, and `.srv` files:
    `createSrvInfo` of the generator returns nothing.
  - Two-dimensional arrays of members, MD5 (the hashed text stands for its digest),
    comments in definitions, the generated CMake files, `showTypeInfo`.
  - The inside of the maps of packers and of the master's queue: a look-up, a push and
    a pop are one step each, although threads use them without a lock.
  - Starvation by `spin()` without a rate, which releases `workers_mutex_` only for an
    instant between two walks.
  - The command line tools other than echo and pub: option parsing and printing
    around calls that are in `MasterApi` and `ServiceCall`.
  - Logging, option parsing, environment variables and paths, the Windows
    branches, the definitions under `data_types`, and the libraries in `thirdparty`
    (XML-RPC and sockets), which the models see only through what the callers
    do with them.
