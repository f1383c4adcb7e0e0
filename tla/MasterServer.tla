---------------------------- MODULE MasterServer ----------------------------
(***************************************************************************)
(* The topic side of the ROS master (src/src/rosmasterserver.cpp).         *)
(*                                                                         *)
(* Two threads share topics_ and task_queue_ and take no lock:             *)
(*   - the XML-RPC server thread (start) runs the request handlers, one at *)
(*     a time;                                                             *)
(*   - the spin thread (spin, spinOnce) pops the tasks the handlers queued *)
(*     and calls publisherUpdate on the slave API of every subscriber of   *)
(*     the topic, outside the handlers.                                    *)
(*                                                                         *)
(* The walk of spinOnce over topics_ caches begin() and end(): a handler   *)
(* that appends or erases a topic meanwhile leaves it with dangling        *)
(* iterators. What the walk reads from then on is a choice over what the   *)
(* slot holds, what it held, nothing useful, or a crash of the process.    *)
(*                                                                         *)
(* A list of SystemNodeInfo is a set of records: no property here depends  *)
(* on the order of registration, and the order in which the subscribers    *)
(* are called is left open. topics_ stays a sequence, because the walk     *)
(* goes by position.                                                       *)
(***************************************************************************)
EXTENDS Integers, Sequences, SequencesExt

CONSTANTS
  Nodes,        \* caller ids
  Topics,       \* topic names
  Uris,         \* XML-RPC URIs of slave APIs
  Types,        \* message types
  AnyType,      \* "*", the type a subscriber may give to take any
  NoTopic       \* value of task while the spin thread handles no task

ASSUME AnyTypeAssumption == AnyType \in Types
ASSUME NoTopicAssumption == NoTopic \notin Topics

VARIABLES
  topics_,      \* the registry, in order of creation
  task_queue_,  \* topics with a publisherUpdate to send, oldest first
  pc,           \* spin thread: "idle", "walk", "call" or "crashed"
  task,         \* the topic of the task being handled
  slot,         \* position of the walk in topics_
  seen,         \* topics_ when the walk began; its length is the cached end()
  dirty,        \* has topics_ been appended to or erased from since then?
  pubs,         \* the publisher URIs being sent
  todo,         \* URIs of the subscribers still to be called
  late,         \* publisherUpdate requests the master gave up waiting for
  told,         \* history: told[t][u], the list last given to slave u for t
  failed,       \* history: <<t, u>> whose last call failed or came late
  torn          \* history: <<t, u>> whose last walk was over a changed vector

spinVars == <<pc, task, slot, seen, dirty, pubs, todo>>
history == <<told, failed, torn>>
vars == <<topics_, task_queue_, spinVars, late, history>>

(***************************************************************************)
(* Data.                                                                   *)
(***************************************************************************)
SystemNodeInfo == [nodeName : Nodes, nodeUri : Uris]

SystemTopicsInfo == [topicName : Topics, topicTypeName : Types,
                     publishers : SUBSET SystemNodeInfo,
                     subscribers : SUBSET SystemNodeInfo]

NodeInfo(name, uri) == [nodeName |-> name, nodeUri |-> uri]

UrisOf(infos) == {x.nodeUri : x \in infos}

\* The entry of the node is overwritten, or a new one is added. (Mutant: the
\* entry is always added, as if no loop looked for the caller first.)
UpsertMutant(infos, info) == infos \cup {info}
Upsert(infos, info) ==
  {x \in infos : x.nodeName # info.nodeName} \cup {info}

Erase(infos, name) == {x \in infos : x.nodeName # name}

\* The position the handlers' loops stop at, if there is one.
FirstEntry(t) ==
  {i \in 1..Len(topics_) :
     /\ topics_[i].topicName = t
     /\ \A j \in 1..(i-1) : topics_[j].topicName # t}

Walking == pc \in {"walk", "call"}

TypeOK ==
  /\ topics_ \in Seq(SystemTopicsInfo)
  /\ task_queue_ \in Seq(Topics)
  /\ pc \in {"idle", "walk", "call", "crashed"}
  /\ task \in Topics \cup {NoTopic}
  /\ Walking => task \in Topics
  /\ slot \in Nat
  /\ seen \in Seq(SystemTopicsInfo)
  /\ dirty \in BOOLEAN
  /\ pubs \in SUBSET Uris
  /\ todo \in SUBSET Uris
  /\ late \in SUBSET [topic : Topics, uri : Uris, pubs : SUBSET Uris]
  /\ told \in [Topics -> [Uris -> SUBSET Uris]]
  /\ failed \in SUBSET (Topics \X Uris)
  /\ torn \in SUBSET (Topics \X Uris)

Init ==
  /\ topics_ = << >>
  /\ task_queue_ = << >>
  /\ pc = "idle"
  /\ task = NoTopic
  /\ slot = 0
  /\ seen = << >>
  /\ dirty = FALSE
  /\ pubs = {}
  /\ todo = {}
  /\ late = {}
  /\ told = [t \in Topics |-> [u \in Uris |-> {}]]
  /\ failed = {}
  /\ torn = {}

-----------------------------------------------------------------------------
(***************************************************************************)
(* The registry, seen from a walk in progress: an append or an erase makes *)
(* the rest of the walk undefined, an assignment to an element does not.   *)
(***************************************************************************)
TornWalk == IF Walking THEN {task} \X Uris ELSE {}

UpdateTopic(i, entry) ==
  /\ topics_' = [topics_ EXCEPT ![i] = entry]
  /\ UNCHANGED <<dirty, torn>>

AddTopic(entry) ==
  /\ topics_' = Append(topics_, entry)
  /\ dirty' = Walking
  /\ torn' = torn \cup TornWalk

RemoveTopic(i) ==
  /\ topics_' = RemoveAt(topics_, i)
  /\ dirty' = Walking
  /\ torn' = torn \cup TornWalk

\* Nobody is left in the entry. (Mutant: one empty list is enough.)
AbandonedMutant(entry) == entry.publishers = {} \/ entry.subscribers = {}
Abandoned(entry) == entry.publishers = {} /\ entry.subscribers = {}

\* An entry that lost a node goes when nobody is left in it.
ShrinkTopic(i, entry) ==
  \/ Abandoned(entry) /\ RemoveTopic(i)
  \/ ~Abandoned(entry) /\ UpdateTopic(i, entry)

\* (Mutant: no second task for a topic whose task is being handled.)
QueueUpdateMutant(t) ==
  task_queue_' = IF task = t THEN task_queue_ ELSE Append(task_queue_, t)
QueueUpdate(t) == task_queue_' = Append(task_queue_, t)

\* The type of a topic once somebody publishes it with the given type. (Mutant:
\* the first type given stays, a "*" too.)
PublishedTypeMutant(old, type) == old
PublishedType(old, type) == IF old = AnyType \/ old # type THEN type ELSE old

(***************************************************************************)
(* The handlers, run by the XML-RPC server thread.                         *)
(***************************************************************************)
RegisterPublisher(n, t, type, u) ==
  /\ \/ \E i \in FirstEntry(t) :
          /\ UpdateTopic(i, [topics_[i] EXCEPT
                !.topicTypeName = PublishedType(@, type),
                !.publishers = Upsert(@, NodeInfo(n, u))])
          /\ QueueUpdate(t)
     \/ /\ FirstEntry(t) = {}
        /\ AddTopic([topicName |-> t, topicTypeName |-> type,
                     publishers |-> {NodeInfo(n, u)}, subscribers |-> {}])
        /\ UNCHANGED task_queue_
  /\ UNCHANGED <<told, failed>>

\* The names in a list are unique (RegistryConsistent): the loop erases, and
\* queues a task for, at most one entry. The caller's URI is not looked at.
UnregisterPublisher(n, t) ==
  /\ \/ \E i \in FirstEntry(t) :
          LET rest == Erase(topics_[i].publishers, n)
          IN /\ IF rest = topics_[i].publishers
                THEN UNCHANGED task_queue_
                ELSE QueueUpdate(t)
             /\ ShrinkTopic(i, [topics_[i] EXCEPT !.publishers = rest])
     \/ /\ FirstEntry(t) = {}
        /\ UNCHANGED <<topics_, task_queue_, dirty, torn>>
  /\ UNCHANGED <<told, failed>>

\* The reply carries the publishers' URIs: the subscriber is told of them, and
\* what it missed before no longer matters.
RegisterSubscriber(n, t, type, u) ==
  /\ \/ \E i \in FirstEntry(t) :
          /\ topics_' = [topics_ EXCEPT
                ![i].subscribers = Upsert(@, NodeInfo(n, u))]
          /\ told' = [told EXCEPT ![t][u] = UrisOf(topics_[i].publishers)]
          /\ torn' = torn \ {<<t, u>>}
          /\ UNCHANGED dirty
     \/ /\ FirstEntry(t) = {}
        /\ topics_' = Append(topics_,
              [topicName |-> t, topicTypeName |-> type,
               publishers |-> {}, subscribers |-> {NodeInfo(n, u)}])
        /\ told' = [told EXCEPT ![t][u] = {}]
        /\ torn' = (torn \cup TornWalk) \ {<<t, u>>}
        /\ dirty' = Walking
  /\ failed' = failed \ {<<t, u>>}
  /\ UNCHANGED task_queue_

UnregisterSubscriber(n, t) ==
  /\ \/ \E i \in FirstEntry(t) :
          ShrinkTopic(i, [topics_[i] EXCEPT !.subscribers = Erase(@, n)])
     \/ /\ FirstEntry(t) = {}
        /\ UNCHANGED <<topics_, dirty, torn>>
  /\ UNCHANGED <<task_queue_, told, failed>>

\* What the handlers leave alone, and the process they need.
Handler == pc # "crashed" /\ UNCHANGED <<pc, task, slot, seen, pubs, todo, late>>

\* A publisher names the type of its messages, a subscriber may say "*".
Request(n, t, u) ==
  /\ Handler
  /\ \/ \E type \in Types \ {AnyType} : RegisterPublisher(n, t, type, u)
     \/ UnregisterPublisher(n, t)
     \/ \E type \in Types : RegisterSubscriber(n, t, type, u)
     \/ UnregisterSubscriber(n, t)

-----------------------------------------------------------------------------
(***************************************************************************)
(* The spin thread: one call of spinOnce with a task to handle.            *)
(***************************************************************************)
PopTask ==
  /\ pc = "idle" /\ task_queue_ # << >>
  /\ task' = Head(task_queue_)
  /\ task_queue_' = Tail(task_queue_)
  /\ pc' = "walk" /\ slot' = 1 /\ seen' = topics_
  /\ UNCHANGED <<topics_, dirty, pubs, todo, late, history>>

\* What the walk finds at its slot: what the slot holds now, or, when the
\* vector was reallocated or shortened, what is left of its old content.
Readable ==
  {topics_[i] : i \in {slot} \cap DOMAIN topics_}
    \cup (IF dirty THEN {seen[slot]} ELSE {})

\* for (auto topic : topics_): each element is copied, lists included.
VisitSlot ==
  /\ pc = "walk" /\ slot <= Len(seen)
  /\ \E topic \in Readable :
       \/ /\ topic.topicName = task
          /\ pc' = "call"
          /\ pubs' = UrisOf(topic.publishers)
          /\ todo' = UrisOf(topic.subscribers)
          /\ UNCHANGED slot
       \/ /\ topic.topicName # task
          /\ slot' = slot + 1
          /\ UNCHANGED <<pc, pubs, todo>>
  /\ UNCHANGED <<topics_, task_queue_, task, seen, dirty, late, history>>

\* The slot's strings were moved from: its name matches nothing.
VisitMovedSlot ==
  /\ pc = "walk" /\ slot <= Len(seen) /\ dirty
  /\ slot' = slot + 1
  /\ UNCHANGED <<topics_, task_queue_, pc, task, seen, dirty, pubs, todo, late,
                 history>>

\* The slot's memory was returned: reading it kills the process.
Crash ==
  /\ pc = "walk" /\ slot <= Len(seen) /\ dirty
  /\ pc' = "crashed"
  /\ UNCHANGED <<topics_, task_queue_, task, slot, seen, dirty, pubs, todo, late,
                 history>>

CallSucceeds(u) ==
  /\ pc = "call" /\ u \in todo
  /\ todo' = todo \ {u}
  /\ told' = [told EXCEPT ![task][u] = pubs]
  /\ failed' = failed \ {<<task, u>>}
  /\ torn' = IF dirty THEN torn \cup {<<task, u>>} ELSE torn \ {<<task, u>>}
  /\ UNCHANGED <<topics_, task_queue_, pc, task, slot, seen, dirty, pubs, late>>

\* Refused, answered with a code other than 1, or no answer in time: only
\* logged, never repeated. A slave that was too slow still has the request.
CallFails(u) ==
  /\ pc = "call" /\ u \in todo
  /\ todo' = todo \ {u}
  /\ failed' = failed \cup {<<task, u>>}
  /\ \/ UNCHANGED late
     \/ late' = late \cup {[topic |-> task, uri |-> u, pubs |-> pubs]}
  /\ UNCHANGED <<topics_, task_queue_, pc, task, slot, seen, dirty, pubs, told,
                 torn>>

\* (Mutant: the task is forgotten as soon as its topic was found.)
EndCallsMutant ==
  /\ pc = "call" /\ todo = {}
  /\ pc' = "walk" /\ slot' = slot + 1 /\ pubs' = {} /\ task' = NoTopic
  /\ UNCHANGED <<topics_, task_queue_, seen, dirty, todo, late, history>>
EndCalls ==
  /\ pc = "call" /\ todo = {}
  /\ pc' = "walk" /\ slot' = slot + 1 /\ pubs' = {}
  /\ UNCHANGED <<topics_, task_queue_, task, seen, dirty, todo, late, history>>

EndTask ==
  /\ pc = "walk" /\ slot > Len(seen)
  /\ pc' = "idle" /\ task' = NoTopic /\ slot' = 0 /\ seen' = << >>
  /\ dirty' = FALSE
  /\ UNCHANGED <<topics_, task_queue_, pubs, todo, late, history>>

spinOnce ==
  \/ PopTask \/ VisitSlot \/ VisitMovedSlot \/ Crash
  \/ \E u \in Uris : CallSucceeds(u) \/ CallFails(u)
  \/ EndCalls \/ EndTask

\* The slave gets round to a request whose caller has hung up.
LateCall(m) ==
  /\ m \in late
  /\ late' = late \ {m}
  /\ told' = [told EXCEPT ![m.topic][m.uri] = m.pubs]
  /\ failed' = failed \cup {<<m.topic, m.uri>>}
  /\ UNCHANGED <<topics_, task_queue_, spinVars, torn>>

Next ==
  \/ \E n \in Nodes, t \in Topics, u \in Uris : Request(n, t, u)
  \/ spinOnce
  \/ \E m \in late : LateCall(m)

Spec == Init /\ [][Next]_vars

\* The spin thread sleeps 1 ms between tasks and each call ends after 3 s.
FairSpec == Spec /\ WF_vars(spinOnce)

-----------------------------------------------------------------------------
(***************************************************************************)
(* Properties.                                                             *)
(***************************************************************************)

\* A topic has one entry, a node one entry in each list of it, and an entry
\* nobody publishes or subscribes is not kept. The handlers look an entry up
\* by name and stop at the first; a second one would never be seen again.
UniqueNames(infos) ==
  \A x, y \in infos : x.nodeName = y.nodeName => x = y

RegistryConsistent ==
  /\ \A i, j \in 1..Len(topics_) :
       topics_[i].topicName = topics_[j].topicName => i = j
  /\ \A i \in 1..Len(topics_) :
       /\ UniqueNames(topics_[i].publishers)
       /\ UniqueNames(topics_[i].subscribers)
       /\ topics_[i].publishers # {} \/ topics_[i].subscribers # {}

Queued(t) == t \in ToSet(task_queue_)

\* The walk will still come to entry i, or is calling its subscribers.
BeingServed(i, u) ==
  /\ ~dirty /\ task = topics_[i].topicName
  /\ \/ pc = "walk" /\ slot <= i
     \/ pc = "call" /\ u \in todo

UpToDate(i, u) ==
  told[topics_[i].topicName][u] = UrisOf(topics_[i].publishers)

\* Whatever list a walk in progress is sending, it is the current one of the
\* topic or a later task will send another.
SentListIsFollowedUp ==
  pc = "call" /\ ~dirty =>
    /\ slot \in 1..Len(topics_)
    /\ topics_[slot].topicName = task
    /\ pubs = UrisOf(topics_[slot].publishers) \/ Queued(task)

\* No lost notification: a registered subscriber that was last told another
\* list than the current one is still to be told, or the call that would have
\* told it failed, or the walk that would have made the call lost its vector.
Accounted(i, u) ==
  LET t == topics_[i].topicName
  IN \/ UpToDate(i, u)
     \/ Queued(t)
     \/ BeingServed(i, u)
     \/ <<t, u>> \in failed \cup torn

NoLostNotification ==
  \A i \in 1..Len(topics_) : \A s \in topics_[i].subscribers :
    Accounted(i, s.nodeUri)

\* rosmaster.h:166: the subscriber "will also receive notifications of new
\* publishers via the publisherUpdate API". Only a failed call excuses.
NotifiedUnlessCallFailed ==
  pc # "crashed" =>
    \A i \in 1..Len(topics_) : \A s \in topics_[i].subscribers :
      LET t == topics_[i].topicName
          u == s.nodeUri
      IN \/ UpToDate(i, u)
         \/ Queued(t)
         \/ task = t /\ Walking
         \/ <<t, u>> \in failed

\* A topic somebody publishes has the type of a publisher: a "*" left by a
\* subscriber that came first is replaced.
PublishedTypeKnown ==
  \A i \in 1..Len(topics_) :
    topics_[i].publishers # {} => topics_[i].topicTypeName # AnyType

\* Everything the registry says, as a set of facts.
Registrations ==
  UNION {({topics_[i].topicName} \X {"pub"} \X topics_[i].publishers) \cup
         ({topics_[i].topicName} \X {"sub"} \X topics_[i].subscribers) :
           i \in 1..Len(topics_)}

\* A step changes the registration of one node, for one topic, in one role: a
\* topic that is erased takes nobody else's registration with it.
OneRegistrationPerStep ==
  [][LET changed == (Registrations \ Registrations')
                       \cup (Registrations' \ Registrations)
     IN \A r1, r2 \in changed :
          /\ r1[1] = r2[1] /\ r1[2] = r2[2]
          /\ r1[3].nodeName = r2[3].nodeName]_vars

\* Who will be told, as things are: the task is queued, or the walk has not passed.
Due ==
  UNION {{topics_[i].topicName} \X
           {u \in UrisOf(topics_[i].subscribers) :
              Queued(topics_[i].topicName) \/ BeingServed(i, u)} : i \in 1..Len(topics_)}

\* The master implements its promise: every change of a topic's publishers is
\* owed to every subscriber, and each debt is paid with a list that is current or
\* is followed by another, or is lost to a failed call or a torn walk.
Promise == INSTANCE MasterPromise WITH
  registered <- Registrations, due <- Due, lost <- failed \cup torn

KeepsItsPromise == Promise!Spec

\* A subscriber that is behind does not stay behind: it is told, leaves, or its
\* notification is lost to a failed call, a torn walk or the master's crash.
Behind(t, u) ==
  \E i \in 1..Len(topics_) :
    /\ topics_[i].topicName = t
    /\ \E n \in Nodes : NodeInfo(n, u) \in topics_[i].subscribers
    /\ ~UpToDate(i, u)
    /\ <<t, u>> \notin failed \cup torn

EveryoneCatchesUp ==
  \A t \in Topics, u \in Uris : Behind(t, u) ~> (~Behind(t, u) \/ pc = "crashed")
=============================================================================
