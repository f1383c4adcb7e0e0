------------------------- MODULE MasterServerProofs -------------------------
(***************************************************************************)
(* What the master's registry and its notifications guarantee, for every   *)
(* set of nodes, topics, URIs and types and any number of requests.        *)
(***************************************************************************)
EXTENDS MasterServer, SequenceLemmas

(***************************************************************************)
(* Lemmas about sequences.                                                 *)
(***************************************************************************)

\* An element is in a queue once it is appended and until it is the head.
LEMMA AppendQueued ==
  ASSUME NEW q \in Seq(Topics), NEW t \in Topics
  PROVE  /\ Append(q, t) \in Seq(Topics)
         /\ ToSet(Append(q, t)) = ToSet(q) \cup {t}
<1>1. /\ Append(q, t) \in Seq(Topics)
      /\ Len(Append(q, t)) = Len(q) + 1
      /\ \A i \in 1..Len(q) : Append(q, t)[i] = q[i]
      /\ Append(q, t)[Len(q) + 1] = t
  BY AppendProperties
<1>2. DOMAIN q = 1..Len(q) /\ DOMAIN Append(q, t) = 1..(Len(q) + 1)
  BY <1>1
<1>3. \A i \in 1..(Len(q) + 1) : Append(q, t)[i] \in ToSet(q) \cup {t}
  <2> TAKE i \in 1..(Len(q) + 1)
  <2>1. CASE i = Len(q) + 1
    BY <2>1, <1>1
  <2>2. CASE i # Len(q) + 1
    <3>1. i \in 1..Len(q) /\ Append(q, t)[i] = q[i]
      BY <2>2, <1>1
    <3> QED
      BY <3>1, <1>2 DEF ToSet
  <2> QED
    BY <2>1, <2>2
<1>4. \A x \in ToSet(q) : x \in ToSet(Append(q, t))
  <2> TAKE x \in ToSet(q)
  <2>1. PICK i \in 1..Len(q) : x = q[i]
    BY <1>2 DEF ToSet
  <2>2. i \in 1..(Len(q) + 1) /\ Append(q, t)[i] = x
    BY <2>1, <1>1
  <2> QED
    BY <2>2, <1>2 DEF ToSet
<1>5. t \in ToSet(Append(q, t))
  <2>1. Len(q) + 1 \in 1..(Len(q) + 1)
    OBVIOUS
  <2> QED
    BY <2>1, <1>1, <1>2 DEF ToSet
<1>6. ToSet(Append(q, t)) \subseteq ToSet(q) \cup {t}
  BY <1>2, <1>3 DEF ToSet
<1> QED
  BY <1>1, <1>4, <1>5, <1>6

\* What is queued behind the head stays queued when the head is popped.
LEMMA TailQueued ==
  ASSUME NEW q \in Seq(Topics), q # << >>
  PROVE  ToSet(q) = ToSet(Tail(q)) \cup {Head(q)}
<1>1. \A i \in 1..(Len(q) - 1) : Tail(q)[i] = q[i + 1]
  OBVIOUS
<1>2. ToSet(q) \subseteq ToSet(Tail(q)) \cup {Head(q)}
  <2> SUFFICES ASSUME NEW i \in 1..Len(q)
               PROVE  q[i] \in ToSet(Tail(q)) \cup {Head(q)}
    BY DEF ToSet
  <2>1. CASE i = 1
    BY <2>1
  <2>2. CASE i # 1
    <3>1. i - 1 \in DOMAIN Tail(q) /\ Tail(q)[i - 1] = q[i]
      BY <2>2, <1>1
    <3> QED
      BY <3>1 DEF ToSet
  <2> QED
    BY <2>1, <2>2
<1>3. ToSet(Tail(q)) \cup {Head(q)} \subseteq ToSet(q)
  BY <1>1 DEF ToSet
<1> QED
  BY <1>2, <1>3

\* Overwriting one element of a sequence.
LEMMA UpdateProperties ==
  ASSUME NEW S, NEW s \in Seq(S), NEW i \in 1..Len(s), NEW e \in S
  PROVE  /\ [s EXCEPT ![i] = e] \in Seq(S)
         /\ Len([s EXCEPT ![i] = e]) = Len(s)
         /\ \A j \in 1..Len(s) :
              [s EXCEPT ![i] = e][j] = IF j = i THEN e ELSE s[j]
OBVIOUS

-----------------------------------------------------------------------------
(***************************************************************************)
(* The inductive invariant. RegistryConsistent is inductive beside TypeOK. *)
(* NoLostNotification is not: it needs to know where the walk stands       *)
(* (WalkPosition) and that a list in transit is current or followed by     *)
(* another (SentListIsFollowedUp).                                         *)
(***************************************************************************)
WalkPosition ==
  /\ pc = "idle" => ~dirty
  /\ pc = "walk" => slot \in 1..(Len(seen) + 1)
  /\ pc = "call" => slot \in 1..Len(seen)
  /\ Walking /\ ~dirty => Len(topics_) = Len(seen)

IInv ==
  /\ TypeOK
  /\ RegistryConsistent
  /\ WalkPosition
  /\ SentListIsFollowedUp
  /\ NoLostNotification

\* The invariant holds for the empty registry.
LEMMA InitIInv == Init => IInv
<1> SUFFICES ASSUME Init PROVE IInv
  OBVIOUS
<1> USE DEF Init
<1>1. topics_ \in Seq(SystemTopicsInfo) /\ Len(topics_) = 0
  OBVIOUS
<1>2. TypeOK
  <2>1. task_queue_ \in Seq(Topics) /\ seen \in Seq(SystemTopicsInfo)
    OBVIOUS
  <2>2. told \in [Topics -> [Uris -> SUBSET Uris]]
    OBVIOUS
  <2>3. late \in SUBSET [topic : Topics, uri : Uris, pubs : SUBSET Uris]
    OBVIOUS
  <2>4. ~Walking
    BY DEF Walking
  <2> QED
    BY <1>1, <2>1, <2>2, <2>3, <2>4 DEF TypeOK
<1>3. RegistryConsistent /\ NoLostNotification
  BY <1>1 DEF RegistryConsistent, NoLostNotification
<1>4. WalkPosition /\ SentListIsFollowedUp
  BY <1>1 DEF WalkPosition, SentListIsFollowedUp, Walking
<1> QED
  BY <1>2, <1>3, <1>4 DEF IInv

-----------------------------------------------------------------------------
(***************************************************************************)
(* Entries and lists.                                                      *)
(***************************************************************************)

\* The parts of an entry of the registry.
LEMMA EntryType ==
  ASSUME TypeOK, NEW i \in 1..Len(topics_)
  PROVE  /\ topics_[i] \in SystemTopicsInfo
         /\ topics_[i].topicName \in Topics
         /\ topics_[i].topicTypeName \in Types
         /\ topics_[i].publishers \in SUBSET SystemNodeInfo
         /\ topics_[i].subscribers \in SUBSET SystemNodeInfo
<1>1. topics_[i] \in SystemTopicsInfo
  BY DEF TypeOK
<1> QED
  BY <1>1 DEF SystemTopicsInfo

\* Upsert and Erase keep a list a list, with one entry for each name.
LEMMA UpsertProperties ==
  ASSUME NEW infos \in SUBSET SystemNodeInfo, NEW n \in Nodes, NEW u \in Uris
  PROVE  /\ Upsert(infos, NodeInfo(n, u)) \in SUBSET SystemNodeInfo
         /\ Upsert(infos, NodeInfo(n, u)) # {}
         /\ UniqueNames(infos) => UniqueNames(Upsert(infos, NodeInfo(n, u)))
         /\ \A x \in Upsert(infos, NodeInfo(n, u)) :
              x \in infos \/ x.nodeUri = u
<1> DEFINE info == NodeInfo(n, u)
           new == Upsert(infos, info)
<1>1. info \in SystemNodeInfo /\ info.nodeName = n /\ info.nodeUri = u
  BY DEF NodeInfo, SystemNodeInfo
<1>2. new = {x \in infos : x.nodeName # n} \cup {info}
  BY <1>1 DEF Upsert
<1> HIDE DEF info, new
<1>3. UniqueNames(infos) => UniqueNames(new)
  BY <1>1, <1>2 DEF UniqueNames
<1>4. /\ new \in SUBSET SystemNodeInfo
      /\ new # {}
      /\ \A x \in new : x \in infos \/ x.nodeUri = u
  BY <1>1, <1>2
<1> QED
  BY <1>3, <1>4 DEF info, new

\* A list of one entry is a list with unique names.
LEMMA SingletonList ==
  ASSUME NEW n \in Nodes, NEW u \in Uris
  PROVE  /\ {NodeInfo(n, u)} \in SUBSET SystemNodeInfo
         /\ NodeInfo(n, u).nodeUri = u
         /\ UniqueNames({NodeInfo(n, u)})
         /\ UniqueNames({})
BY DEF NodeInfo, SystemNodeInfo, UniqueNames

\* Erase leaves a list with unique names, and none of the erased one.
LEMMA EraseProperties ==
  ASSUME NEW infos \in SUBSET SystemNodeInfo, NEW n \in Nodes
  PROVE  /\ Erase(infos, n) \in SUBSET infos
         /\ UniqueNames(infos) => UniqueNames(Erase(infos, n))
BY DEF Erase, UniqueNames

\* The URIs of a list of entries are URIs.
LEMMA UrisOfType ==
  ASSUME NEW infos \in SUBSET SystemNodeInfo
  PROVE  UrisOf(infos) \in SUBSET Uris
BY DEF UrisOf, SystemNodeInfo

\* A loop finds the entry, and it is the only one; without one, it finds none.
LEMMA FirstEntryProperties ==
  ASSUME TypeOK, NEW t \in Topics
  PROVE  /\ \A i \in FirstEntry(t) :
              i \in 1..Len(topics_) /\ topics_[i].topicName = t
         /\ RegistryConsistent /\ FirstEntry(t) = {} =>
              \A j \in 1..Len(topics_) : topics_[j].topicName # t
<1>1. \A i \in FirstEntry(t) :
        i \in 1..Len(topics_) /\ topics_[i].topicName = t
  BY DEF FirstEntry
<1>2. ASSUME RegistryConsistent, NEW j \in 1..Len(topics_),
             topics_[j].topicName = t
      PROVE  j \in FirstEntry(t)
  <2>1. \A k \in 1..(j - 1) : k \in 1..Len(topics_) /\ k # j
    BY DEF TypeOK
  <2>2. \A k \in 1..(j - 1) : topics_[k].topicName # t
    BY <1>2, <2>1 DEF RegistryConsistent
  <2> QED
    BY <1>2, <2>2 DEF FirstEntry
<1> QED
  BY <1>1, <1>2

-----------------------------------------------------------------------------
(***************************************************************************)
(* The handlers. Each changes topics_ in one of three ways: an element is  *)
(* overwritten, appended or erased.                                        *)
(***************************************************************************)

\* What a handler cannot disturb.
LEMMA HandlerTypes ==
  ASSUME TypeOK, Handler,
         topics_' \in Seq(SystemTopicsInfo), task_queue_' \in Seq(Topics),
         dirty' \in BOOLEAN, told' \in [Topics -> [Uris -> SUBSET Uris]],
         failed' \in SUBSET (Topics \X Uris), torn' \in SUBSET (Topics \X Uris)
  PROVE  TypeOK'
BY DEF TypeOK, Handler, Walking

\* Overwriting the entry of a topic: new publishers come with a task in the
\* queue, and without new publishers there are no new subscribers.
LEMMA UpdateStep ==
  ASSUME IInv, Handler,
         NEW i \in 1..Len(topics_), NEW entry \in SystemTopicsInfo,
         UpdateTopic(i, entry),
         entry.topicName = topics_[i].topicName,
         UniqueNames(entry.publishers), UniqueNames(entry.subscribers),
         ~Abandoned(entry),
         task_queue_' \in Seq(Topics),
         ToSet(task_queue_) \subseteq ToSet(task_queue_'),
         \/ entry.topicName \in ToSet(task_queue_')
         \/ /\ entry.publishers = topics_[i].publishers
            /\ entry.subscribers \subseteq topics_[i].subscribers,
         UNCHANGED <<told, failed>>
  PROVE  IInv'
<1>1. /\ topics_' \in Seq(SystemTopicsInfo)
      /\ Len(topics_') = Len(topics_)
      /\ \A j \in 1..Len(topics_) :
           topics_'[j] = IF j = i THEN entry ELSE topics_[j]
  <2>1. topics_ \in Seq(SystemTopicsInfo) /\ topics_' = [topics_ EXCEPT ![i] = entry]
    BY DEF IInv, TypeOK, UpdateTopic
  <2> QED
    BY <2>1, UpdateProperties
<1>2. TypeOK'
  BY <1>1, HandlerTypes DEF IInv, TypeOK, UpdateTopic
<1>3. RegistryConsistent'
  <2>1. \A j \in 1..Len(topics_) : topics_'[j].topicName = topics_[j].topicName
    BY <1>1
  <2>2. \A j \in 1..Len(topics_) :
          /\ UniqueNames(topics_'[j].publishers)
          /\ UniqueNames(topics_'[j].subscribers)
          /\ topics_'[j].publishers # {} \/ topics_'[j].subscribers # {}
    BY <1>1 DEF IInv, RegistryConsistent, Abandoned
  <2> QED
    BY <1>1, <2>1, <2>2 DEF IInv, RegistryConsistent
<1>4. WalkPosition'
  BY <1>1 DEF IInv, WalkPosition, Walking, Handler, UpdateTopic
<1>5. SentListIsFollowedUp'
  <2> SUFFICES ASSUME pc = "call", ~dirty
               PROVE  /\ slot \in 1..Len(topics_)
                      /\ topics_'[slot].topicName = task
                      /\ \/ pubs = UrisOf(topics_'[slot].publishers)
                         \/ task \in ToSet(task_queue_')
    BY <1>1 DEF SentListIsFollowedUp, Queued, Handler, UpdateTopic
  <2>1. /\ slot \in 1..Len(topics_)
        /\ topics_[slot].topicName = task
        /\ pubs = UrisOf(topics_[slot].publishers) \/ task \in ToSet(task_queue_)
    BY DEF IInv, SentListIsFollowedUp, Queued
  <2> QED
    BY <1>1, <2>1
<1>6. NoLostNotification'
  <2> SUFFICES ASSUME NEW j \in 1..Len(topics_),
                      NEW s \in topics_'[j].subscribers
               PROVE  Accounted(j, s.nodeUri)'
    BY <1>1 DEF NoLostNotification
  <2>1. CASE topics_'[j].topicName \in ToSet(task_queue_')
    BY <2>1 DEF Accounted, Queued
  <2>2. CASE topics_'[j].topicName \notin ToSet(task_queue_')
    <3>1. /\ topics_'[j].topicName = topics_[j].topicName
          /\ topics_'[j].publishers = topics_[j].publishers
          /\ s \in topics_[j].subscribers
      BY <1>1, <2>2
    <3>2. Accounted(j, s.nodeUri)
      BY <3>1 DEF IInv, NoLostNotification
    <3> QED
      BY <2>2, <3>1, <3>2
      DEF Accounted, UpToDate, Queued, BeingServed, UpdateTopic, Handler
  <2> QED
    BY <2>1, <2>2
<1> QED
  BY <1>2, <1>3, <1>4, <1>5, <1>6 DEF IInv

\* A walk whose vector changes owes its topic's subscribers nothing more: they
\* are all in torn.
LEMMA TornWalkProperties ==
  ASSUME IInv
  PROVE  /\ TornWalk \in SUBSET (Topics \X Uris)
         /\ \A i \in 1..Len(topics_), u \in Uris :
              BeingServed(i, u) => <<topics_[i].topicName, u>> \in TornWalk
<1>1. Walking => task \in Topics
  BY DEF IInv, TypeOK
<1> QED
  BY <1>1 DEF TornWalk, BeingServed, Walking

\* A walk whose vector changed stays marked.
LEMMA DirtyWalk ==
  ASSUME Handler, dirty' = Walking
  PROVE  WalkPosition /\ TypeOK => WalkPosition' /\ SentListIsFollowedUp'
BY DEF Handler, WalkPosition, SentListIsFollowedUp, Walking

\* A new topic: its only subscriber, if it has one, is told its publishers; the
\* other topics keep their history, and gain the torn walk.
LEMMA AppendStep ==
  ASSUME IInv, Handler, NEW t \in Topics, FirstEntry(t) = {},
         NEW entry \in SystemTopicsInfo, entry.topicName = t,
         UniqueNames(entry.publishers), UniqueNames(entry.subscribers),
         ~Abandoned(entry),
         topics_' = Append(topics_, entry), dirty' = Walking,
         UNCHANGED task_queue_,
         told' \in [Topics -> [Uris -> SUBSET Uris]],
         failed' \in SUBSET (Topics \X Uris), torn' \in SUBSET (Topics \X Uris),
         \A x \in Topics \ {t}, u \in Uris :
           /\ told'[x] = told[x]
           /\ <<x, u>> \in failed => <<x, u>> \in failed'
           /\ <<x, u>> \in torn \cup TornWalk => <<x, u>> \in torn',
         \A s \in entry.subscribers :
           told'[t][s.nodeUri] = UrisOf(entry.publishers)
  PROVE  IInv'
<1>1. /\ topics_' \in Seq(SystemTopicsInfo)
      /\ Len(topics_') = Len(topics_) + 1
      /\ \A j \in 1..Len(topics_) : topics_'[j] = topics_[j]
      /\ topics_'[Len(topics_) + 1] = entry
  BY AppendProperties DEF IInv, TypeOK
<1>2. \A j \in 1..Len(topics_) : topics_[j].topicName \in Topics \ {t}
  BY FirstEntryProperties, EntryType DEF IInv
<1>3. TypeOK'
  BY <1>1, HandlerTypes DEF IInv, TypeOK, Walking
<1>4. Len(topics_) \in Nat
  BY DEF IInv, TypeOK
<1>5. \A j \in 1..Len(topics_') : j \in 1..Len(topics_) \/ j = Len(topics_) + 1
  BY <1>1, <1>4
<1>6. RegistryConsistent'
  <2>1. \A j, k \in 1..Len(topics_') :
          topics_'[j].topicName = topics_'[k].topicName => j = k
    BY <1>1, <1>2, <1>5 DEF IInv, RegistryConsistent
  <2>2. \A j \in 1..Len(topics_') :
          /\ UniqueNames(topics_'[j].publishers)
          /\ UniqueNames(topics_'[j].subscribers)
          /\ topics_'[j].publishers # {} \/ topics_'[j].subscribers # {}
    BY <1>1, <1>5 DEF IInv, RegistryConsistent, Abandoned
  <2> QED
    BY <2>1, <2>2 DEF RegistryConsistent
<1>7. WalkPosition' /\ SentListIsFollowedUp'
  BY DirtyWalk DEF IInv
<1>8. NoLostNotification'
  <2> SUFFICES ASSUME NEW j \in 1..Len(topics_'),
                      NEW s \in topics_'[j].subscribers
               PROVE  Accounted(j, s.nodeUri)'
    BY DEF NoLostNotification
  <2>1. CASE j = Len(topics_) + 1
    BY <1>1, <2>1 DEF Accounted, UpToDate
  <2>2. CASE j \in 1..Len(topics_)
    <3> DEFINE x == topics_[j].topicName
               u == s.nodeUri
    <3>1. topics_'[j] = topics_[j] /\ s \in topics_[j].subscribers
      BY <1>1, <2>2
    <3>2. x \in Topics \ {t} /\ u \in Uris
      BY <1>2, <2>2, <3>1, EntryType DEF IInv, SystemNodeInfo
    <3>3. Accounted(j, u)
      BY <2>2, <3>1 DEF IInv, NoLostNotification
    <3>4. CASE <<x, u>> \in torn \cup TornWalk
      BY <3>1, <3>2, <3>4 DEF Accounted
    <3>5. CASE UpToDate(j, u)
      BY <3>1, <3>2, <3>5 DEF Accounted, UpToDate
    <3>6. CASE Queued(x)
      BY <3>1, <3>6 DEF Accounted, Queued
    <3>7. CASE <<x, u>> \in failed
      BY <3>1, <3>2, <3>7 DEF Accounted
    <3> QED
      BY <2>2, <3>2, <3>3, <3>4, <3>5, <3>6, <3>7, TornWalkProperties
      DEF Accounted
  <2> QED
    BY <1>5, <2>1, <2>2
<1> QED
  BY <1>3, <1>6, <1>7, <1>8 DEF IInv

\* An erased topic: whoever subscribes to the others keeps what accounts for it.
LEMMA RemoveStep ==
  ASSUME IInv, Handler, NEW i \in 1..Len(topics_), RemoveTopic(i),
         task_queue_' \in Seq(Topics),
         ToSet(task_queue_) \subseteq ToSet(task_queue_'),
         UNCHANGED <<told, failed>>
  PROVE  IInv'
<1> DEFINE old(j) == IF j < i THEN j ELSE j + 1
<1>1. /\ topics_' \in Seq(SystemTopicsInfo)
      /\ Len(topics_') = Len(topics_) - 1
      /\ \A j \in 1..(Len(topics_) - 1) : topics_'[j] = topics_[old(j)]
  <2>1. topics_ \in Seq(SystemTopicsInfo) /\ topics_' = RemoveAt(topics_, i)
    BY DEF IInv, TypeOK, RemoveTopic
  <2>2. /\ RemoveAt(topics_, i) \in Seq(SystemTopicsInfo)
        /\ Len(RemoveAt(topics_, i)) = Len(topics_) - 1
        /\ \A j \in 1..(Len(topics_) - 1) :
             RemoveAt(topics_, i)[j] = IF j < i THEN topics_[j] ELSE topics_[j + 1]
    BY <2>1, RemoveAtProperties
  <2> QED
    BY <2>1, <2>2
<1>2. \A j \in 1..(Len(topics_) - 1) : old(j) \in 1..Len(topics_)
  BY DEF IInv, TypeOK
<1>3. \A j, k \in 1..(Len(topics_) - 1) : old(j) = old(k) => j = k
  BY DEF IInv, TypeOK
<1> HIDE DEF old
<1>4. TypeOK'
  BY <1>1, HandlerTypes, TornWalkProperties
  DEF IInv, TypeOK, RemoveTopic, Walking
<1>5. RegistryConsistent'
  <2>1. \A j, k \in 1..Len(topics_') :
          topics_'[j].topicName = topics_'[k].topicName => j = k
    <3> SUFFICES ASSUME NEW j \in 1..Len(topics_'), NEW k \in 1..Len(topics_'),
                        topics_'[j].topicName = topics_'[k].topicName
                 PROVE  j = k
      OBVIOUS
    <3>1. /\ topics_'[j] = topics_[old(j)] /\ topics_'[k] = topics_[old(k)]
          /\ j \in 1..(Len(topics_) - 1) /\ k \in 1..(Len(topics_) - 1)
          /\ old(j) \in 1..Len(topics_) /\ old(k) \in 1..Len(topics_)
      BY <1>1, <1>2
    <3>2. old(j) = old(k)
      BY <3>1 DEF IInv, RegistryConsistent
    <3> QED
      BY <1>3, <3>1, <3>2
  <2>2. \A j \in 1..Len(topics_') :
          /\ UniqueNames(topics_'[j].publishers)
          /\ UniqueNames(topics_'[j].subscribers)
          /\ topics_'[j].publishers # {} \/ topics_'[j].subscribers # {}
    BY <1>1, <1>2 DEF IInv, RegistryConsistent
  <2> QED
    BY <2>1, <2>2 DEF RegistryConsistent
<1>6. WalkPosition' /\ SentListIsFollowedUp'
  BY DirtyWalk DEF IInv, RemoveTopic
<1>7. NoLostNotification'
  <2> SUFFICES ASSUME NEW j \in 1..Len(topics_'),
                      NEW s \in topics_'[j].subscribers
               PROVE  Accounted(j, s.nodeUri)'
    BY DEF NoLostNotification
  <2> DEFINE k == old(j)
             x == topics_[k].topicName
             u == s.nodeUri
  <2>1. k \in 1..Len(topics_) /\ topics_'[j] = topics_[k] /\ s \in topics_[k].subscribers
    BY <1>1, <1>2
  <2> HIDE DEF k
  <2>2. x \in Topics /\ u \in Uris
    BY <2>1, EntryType DEF IInv, SystemNodeInfo
  <2>3. Accounted(k, u)
    BY <2>1 DEF IInv, NoLostNotification
  <2>4. CASE <<x, u>> \in torn \cup TornWalk
    BY <2>1, <2>4 DEF Accounted, RemoveTopic
  <2>5. CASE UpToDate(k, u)
    BY <2>1, <2>5 DEF Accounted, UpToDate
  <2>6. CASE Queued(x)
    BY <2>1, <2>6 DEF Accounted, Queued
  <2>7. CASE <<x, u>> \in failed
    BY <2>1, <2>7 DEF Accounted
  <2> QED
    BY <2>1, <2>2, <2>3, <2>4, <2>5, <2>6, <2>7, TornWalkProperties
    DEF Accounted
<1> QED
  BY <1>4, <1>5, <1>6, <1>7 DEF IInv

\* QueueUpdate appends one task, and keeps those that were there.
LEMMA QueueUpdateProperties ==
  ASSUME TypeOK, NEW t \in Topics, QueueUpdate(t)
  PROVE  /\ task_queue_' \in Seq(Topics)
         /\ ToSet(task_queue_') = ToSet(task_queue_) \cup {t}
BY AppendQueued DEF TypeOK, QueueUpdate

\* registerPublisher keeps the invariant, for a known and a new topic.
LEMMA RegisterPublisherStep ==
  ASSUME IInv, Handler, NEW n \in Nodes, NEW t \in Topics, NEW u \in Uris,
         NEW type \in Types \ {AnyType}, RegisterPublisher(n, t, type, u)
  PROVE  IInv'
<1>1. ASSUME NEW i \in FirstEntry(t),
             UpdateTopic(i, [topics_[i] EXCEPT
               !.topicTypeName = PublishedType(@, type),
               !.publishers = Upsert(@, NodeInfo(n, u))]),
             QueueUpdate(t)
      PROVE  IInv'
  <2> DEFINE list == Upsert(topics_[i].publishers, NodeInfo(n, u))
             entry == [topics_[i] EXCEPT
               !.topicTypeName = PublishedType(@, type), !.publishers = list]
  <2>1. i \in 1..Len(topics_) /\ topics_[i].topicName = t
    BY FirstEntryProperties DEF IInv
  <2>2. topics_[i] \in SystemTopicsInfo /\ topics_[i].publishers \in SUBSET SystemNodeInfo
    BY <2>1, EntryType DEF IInv
  <2>3. list \in SUBSET SystemNodeInfo /\ list # {} /\ UniqueNames(list)
    BY <2>1, <2>2, UpsertProperties DEF IInv, RegistryConsistent
  <2>4. UniqueNames(topics_[i].subscribers)
    BY <2>1 DEF IInv, RegistryConsistent
  <2>5. PublishedType(topics_[i].topicTypeName, type) \in Types
    BY <2>2 DEF PublishedType, SystemTopicsInfo
  <2> HIDE DEF list
  <2>6. /\ entry \in SystemTopicsInfo
        /\ entry.topicName = t
        /\ entry.publishers = list
        /\ entry.subscribers = topics_[i].subscribers
    BY <2>1, <2>2, <2>3, <2>5 DEF SystemTopicsInfo
  <2>7. UpdateTopic(i, entry)
    BY <1>1 DEF list
  <2> HIDE DEF entry
  <2> QED
    BY <1>1, <2>1, <2>3, <2>4, <2>6, <2>7, UpdateStep, QueueUpdateProperties
    DEF IInv, Abandoned, RegisterPublisher
<1>2. ASSUME FirstEntry(t) = {},
             AddTopic([topicName |-> t, topicTypeName |-> type,
                       publishers |-> {NodeInfo(n, u)}, subscribers |-> {}]),
             UNCHANGED task_queue_
      PROVE  IInv'
  <2> DEFINE entry == [topicName |-> t, topicTypeName |-> type,
                       publishers |-> {NodeInfo(n, u)}, subscribers |-> {}]
  <2>1. /\ entry \in SystemTopicsInfo
        /\ entry.topicName = t
        /\ entry.subscribers = {}
        /\ UniqueNames(entry.publishers) /\ UniqueNames(entry.subscribers)
        /\ ~Abandoned(entry)
    BY SingletonList DEF SystemTopicsInfo, Abandoned
  <2>2. AddTopic(entry) /\ UNCHANGED <<told, failed>>
    BY <1>2 DEF RegisterPublisher
  <2> HIDE DEF entry
  <2>3. /\ told' \in [Topics -> [Uris -> SUBSET Uris]]
        /\ failed' \in SUBSET (Topics \X Uris)
        /\ torn' \in SUBSET (Topics \X Uris)
    BY <2>2, TornWalkProperties DEF IInv, TypeOK, AddTopic
  <2>4. /\ topics_' = Append(topics_, entry) /\ dirty' = Walking
        /\ \A x \in Topics \ {t}, v \in Uris :
             /\ told'[x] = told[x]
             /\ <<x, v>> \in failed => <<x, v>> \in failed'
             /\ <<x, v>> \in torn \cup TornWalk => <<x, v>> \in torn'
    BY <2>2 DEF AddTopic
  <2> QED
    BY <1>2, <2>1, <2>3, <2>4, AppendStep
<1> QED
  BY <1>1, <1>2 DEF RegisterPublisher

\* The two handlers that take a node out of a list.
LEMMA ShrinkStep ==
  ASSUME IInv, Handler,
         NEW i \in 1..Len(topics_), NEW entry \in SystemTopicsInfo,
         ShrinkTopic(i, entry),
         entry.topicName = topics_[i].topicName,
         UniqueNames(entry.publishers), UniqueNames(entry.subscribers),
         task_queue_' \in Seq(Topics),
         ToSet(task_queue_) \subseteq ToSet(task_queue_'),
         \/ entry.topicName \in ToSet(task_queue_')
         \/ /\ entry.publishers = topics_[i].publishers
            /\ entry.subscribers \subseteq topics_[i].subscribers,
         UNCHANGED <<told, failed>>
  PROVE  IInv'
<1>1. CASE Abandoned(entry) /\ RemoveTopic(i)
  BY <1>1, RemoveStep
<1>2. CASE ~Abandoned(entry) /\ UpdateTopic(i, entry)
  BY <1>2, UpdateStep
<1> QED
  BY <1>1, <1>2 DEF ShrinkTopic

\* Nothing was found: the handler only answers.
LEMMA NothingStep ==
  ASSUME IInv, UNCHANGED vars
  PROVE  IInv'
<1>1. TypeOK'
  BY DEF IInv, vars, spinVars, history, TypeOK, Walking
<1>2. RegistryConsistent' /\ WalkPosition' /\ SentListIsFollowedUp'
  BY DEF IInv, vars, spinVars, RegistryConsistent, WalkPosition, Walking,
         SentListIsFollowedUp, Queued
<1>3. NoLostNotification'
  BY DEF IInv, vars, spinVars, history, NoLostNotification, Accounted, UpToDate,
         Queued, BeingServed
<1> QED
  BY <1>1, <1>2, <1>3 DEF IInv

\* unregisterPublisher keeps the invariant.
LEMMA UnregisterPublisherStep ==
  ASSUME IInv, Handler, NEW n \in Nodes, NEW t \in Topics,
         UnregisterPublisher(n, t)
  PROVE  IInv'
<1>1. ASSUME NEW i \in FirstEntry(t),
             LET rest == Erase(topics_[i].publishers, n)
             IN /\ IF rest = topics_[i].publishers
                   THEN UNCHANGED task_queue_
                   ELSE QueueUpdate(t)
                /\ ShrinkTopic(i, [topics_[i] EXCEPT !.publishers = rest])
      PROVE  IInv'
  <2> DEFINE rest == Erase(topics_[i].publishers, n)
             entry == [topics_[i] EXCEPT !.publishers = rest]
  <2>1. i \in 1..Len(topics_) /\ topics_[i].topicName = t
    BY FirstEntryProperties DEF IInv
  <2>2. /\ topics_[i] \in SystemTopicsInfo
        /\ topics_[i].publishers \in SUBSET SystemNodeInfo
    BY <2>1, EntryType DEF IInv
  <2>3. rest \in SUBSET SystemNodeInfo /\ UniqueNames(rest)
    BY <2>1, <2>2, EraseProperties DEF IInv, RegistryConsistent
  <2>4. UniqueNames(topics_[i].subscribers)
    BY <2>1 DEF IInv, RegistryConsistent
  <2>5. \/ rest = topics_[i].publishers /\ UNCHANGED task_queue_
        \/ QueueUpdate(t)
    BY <1>1
  <2>6. ShrinkTopic(i, entry)
    BY <1>1
  <2> HIDE DEF rest
  <2>7. /\ entry \in SystemTopicsInfo
        /\ entry.topicName = t
        /\ entry.publishers = rest
        /\ entry.subscribers = topics_[i].subscribers
    BY <2>1, <2>2, <2>3 DEF SystemTopicsInfo
  <2> HIDE DEF entry
  <2>8. /\ task_queue_' \in Seq(Topics)
        /\ ToSet(task_queue_) \subseteq ToSet(task_queue_')
        /\ t \in ToSet(task_queue_') \/ rest = topics_[i].publishers
    BY <2>5, QueueUpdateProperties DEF IInv, TypeOK
  <2>9. UNCHANGED <<told, failed>>
    BY DEF UnregisterPublisher
  <2> QED
    BY <2>1, <2>3, <2>4, <2>6, <2>7, <2>8, <2>9, ShrinkStep
<1>2. CASE FirstEntry(t) = {} /\ UNCHANGED <<topics_, task_queue_, dirty, torn>>
  BY <1>2, NothingStep
  DEF UnregisterPublisher, Handler, vars, spinVars, history
<1> QED
  BY <1>1, <1>2 DEF UnregisterPublisher

\* unregisterSubscriber keeps the invariant.
LEMMA UnregisterSubscriberStep ==
  ASSUME IInv, Handler, NEW n \in Nodes, NEW t \in Topics,
         UnregisterSubscriber(n, t)
  PROVE  IInv'
<1>1. ASSUME NEW i \in FirstEntry(t),
             ShrinkTopic(i, [topics_[i] EXCEPT !.subscribers = Erase(@, n)])
      PROVE  IInv'
  <2> DEFINE rest == Erase(topics_[i].subscribers, n)
             entry == [topics_[i] EXCEPT !.subscribers = rest]
  <2>1. i \in 1..Len(topics_) /\ topics_[i].topicName = t
    BY FirstEntryProperties DEF IInv
  <2>2. /\ topics_[i] \in SystemTopicsInfo
        /\ topics_[i].subscribers \in SUBSET SystemNodeInfo
    BY <2>1, EntryType DEF IInv
  <2>3. /\ rest \in SUBSET SystemNodeInfo
        /\ rest \subseteq topics_[i].subscribers
        /\ UniqueNames(rest)
    BY <2>1, <2>2, EraseProperties DEF IInv, RegistryConsistent
  <2>4. UniqueNames(topics_[i].publishers)
    BY <2>1 DEF IInv, RegistryConsistent
  <2>5. ShrinkTopic(i, entry)
    BY <1>1
  <2> HIDE DEF rest
  <2>6. /\ entry \in SystemTopicsInfo
        /\ entry.topicName = t
        /\ entry.publishers = topics_[i].publishers
        /\ entry.subscribers = rest
    BY <2>1, <2>2, <2>3 DEF SystemTopicsInfo
  <2> HIDE DEF entry
  <2>7. UNCHANGED <<task_queue_, told, failed>> /\ task_queue_ \in Seq(Topics)
    BY DEF UnregisterSubscriber, IInv, TypeOK
  <2> QED
    BY <2>1, <2>3, <2>4, <2>5, <2>6, <2>7, ShrinkStep
<1>2. CASE FirstEntry(t) = {} /\ UNCHANGED <<topics_, dirty, torn>>
  BY <1>2, NothingStep
  DEF UnregisterSubscriber, Handler, vars, spinVars, history
<1> QED
  BY <1>1, <1>2 DEF UnregisterSubscriber

\* A subscriber that joins a topic it, or another, is known for.
LEMMA JoinStep ==
  ASSUME IInv, Handler, NEW n \in Nodes, NEW t \in Topics, NEW u \in Uris,
         NEW i \in FirstEntry(t),
         topics_' = [topics_ EXCEPT ![i].subscribers = Upsert(@, NodeInfo(n, u))],
         told' = [told EXCEPT ![t][u] = UrisOf(topics_[i].publishers)],
         torn' = torn \ {<<t, u>>}, failed' = failed \ {<<t, u>>},
         UNCHANGED <<dirty, task_queue_>>
  PROVE  IInv'
<1> DEFINE list == Upsert(topics_[i].subscribers, NodeInfo(n, u))
           entry == [topics_[i] EXCEPT !.subscribers = list]
<1>1. i \in 1..Len(topics_) /\ topics_[i].topicName = t
  BY FirstEntryProperties DEF IInv
<1>2. /\ topics_[i] \in SystemTopicsInfo
      /\ topics_[i].subscribers \in SUBSET SystemNodeInfo
      /\ UrisOf(topics_[i].publishers) \in SUBSET Uris
  BY <1>1, EntryType, UrisOfType DEF IInv
<1>3. /\ list \in SUBSET SystemNodeInfo
      /\ list # {}
      /\ UniqueNames(list)
      /\ \A x \in list : x \in topics_[i].subscribers \/ x.nodeUri = u
  BY <1>1, <1>2, UpsertProperties DEF IInv, RegistryConsistent
<1>4. topics_' = [topics_ EXCEPT ![i] = entry]
  BY <1>1 DEF IInv, TypeOK
<1> HIDE DEF list
<1>5. /\ entry \in SystemTopicsInfo
      /\ entry.topicName = t
      /\ entry.publishers = topics_[i].publishers
      /\ entry.subscribers = list
  BY <1>1, <1>2, <1>3 DEF SystemTopicsInfo
<1> HIDE DEF entry
<1>6. /\ topics_' \in Seq(SystemTopicsInfo)
      /\ Len(topics_') = Len(topics_)
      /\ \A j \in 1..Len(topics_) :
           topics_'[j] = IF j = i THEN entry ELSE topics_[j]
  <2>1. topics_ \in Seq(SystemTopicsInfo)
    BY DEF IInv, TypeOK
  <2> DEFINE new == [topics_ EXCEPT ![i] = entry]
  <2>2. /\ new \in Seq(SystemTopicsInfo)
        /\ Len(new) = Len(topics_)
        /\ \A j \in 1..Len(topics_) :
             new[j] = IF j = i THEN entry ELSE topics_[j]
    BY <1>1, <1>5, <2>1, UpdateProperties
  <2>3. topics_' = new
    BY <1>4
  <2> HIDE DEF new
  <2> QED
    BY <2>2, <2>3
<1>7. \A j \in 1..Len(topics_) :
        /\ topics_'[j].topicName = topics_[j].topicName
        /\ topics_'[j].publishers = topics_[j].publishers
  BY <1>1, <1>5, <1>6
<1>8. /\ told' \in [Topics -> [Uris -> SUBSET Uris]]
      /\ told'[t][u] = UrisOf(topics_[i].publishers)
      /\ \A x \in Topics, v \in Uris : x # t \/ v # u => told'[x][v] = told[x][v]
  BY <1>2 DEF IInv, TypeOK
<1>9. TypeOK'
  BY <1>6, <1>8, HandlerTypes DEF IInv, TypeOK
<1>10. RegistryConsistent'
  <2>1. \A j \in 1..Len(topics_) :
          /\ UniqueNames(topics_'[j].publishers)
          /\ UniqueNames(topics_'[j].subscribers)
          /\ topics_'[j].publishers # {} \/ topics_'[j].subscribers # {}
    BY <1>1, <1>3, <1>5, <1>6 DEF IInv, RegistryConsistent
  <2> QED
    BY <1>6, <1>7, <2>1 DEF IInv, RegistryConsistent
<1>11. WalkPosition' /\ SentListIsFollowedUp'
  BY <1>6, <1>7
  DEF IInv, WalkPosition, Walking, Handler, SentListIsFollowedUp, Queued
<1>12. NoLostNotification'
  <2> SUFFICES ASSUME NEW j \in 1..Len(topics_),
                      NEW s \in topics_'[j].subscribers
               PROVE  Accounted(j, s.nodeUri)'
    BY <1>6 DEF NoLostNotification
  <2> DEFINE x == topics_[j].topicName
             v == s.nodeUri
  <2>1. x \in Topics /\ v \in Uris
    <3>1. topics_'[j] \in SystemTopicsInfo
      BY <1>6
    <3>2. s \in SystemNodeInfo
      BY <3>1 DEF SystemTopicsInfo
    <3> QED
      BY <3>2, EntryType DEF IInv, SystemNodeInfo
  <2>2. CASE x = t /\ v = u
    <3>1. j = i
      BY <1>1, <2>2 DEF IInv, RegistryConsistent
    <3> QED
      BY <1>1, <1>7, <1>8, <2>2, <3>1 DEF Accounted, UpToDate
  <2>3. CASE x # t \/ v # u
    <3>1. s \in topics_[j].subscribers
      BY <1>1, <1>3, <1>5, <1>6, <2>3
    <3>2. Accounted(j, v)
      BY <3>1 DEF IInv, NoLostNotification
    <3>3. told'[x][v] = told[x][v]
      BY <1>8, <2>1, <2>3
    <3>4. <<x, v>> \in failed \cup torn => <<x, v>> \in failed' \cup torn'
      BY <2>3
    <3> QED
      BY <1>7, <3>2, <3>3, <3>4
      DEF Accounted, UpToDate, Queued, BeingServed, Handler
  <2> QED
    BY <2>2, <2>3
<1> QED
  BY <1>9, <1>10, <1>11, <1>12 DEF IInv

\* registerSubscriber keeps the invariant, for a known and a new topic.
LEMMA RegisterSubscriberStep ==
  ASSUME IInv, Handler, NEW n \in Nodes, NEW t \in Topics, NEW u \in Uris,
         NEW type \in Types, RegisterSubscriber(n, t, type, u)
  PROVE  IInv'
<1>1. CASE FirstEntry(t) # {}
  BY <1>1, JoinStep DEF RegisterSubscriber
<1>2. CASE FirstEntry(t) = {}
  <2> DEFINE entry == [topicName |-> t, topicTypeName |-> type,
                       publishers |-> {}, subscribers |-> {NodeInfo(n, u)}]
  <2>1. /\ entry \in SystemTopicsInfo
        /\ entry.topicName = t
        /\ entry.publishers = {}
        /\ entry.subscribers = {NodeInfo(n, u)}
        /\ UniqueNames(entry.publishers) /\ UniqueNames(entry.subscribers)
        /\ ~Abandoned(entry)
    BY SingletonList DEF SystemTopicsInfo, Abandoned
  <2>2. /\ topics_' = Append(topics_, entry)
        /\ told' = [told EXCEPT ![t][u] = {}]
        /\ torn' = (torn \cup TornWalk) \ {<<t, u>>}
        /\ failed' = failed \ {<<t, u>>}
        /\ dirty' = Walking
        /\ UNCHANGED task_queue_
    BY <1>2 DEF RegisterSubscriber
  <2> HIDE DEF entry
  <2>3. /\ told' \in [Topics -> [Uris -> SUBSET Uris]]
        /\ failed' \in SUBSET (Topics \X Uris)
        /\ torn' \in SUBSET (Topics \X Uris)
    BY <2>2, TornWalkProperties DEF IInv, TypeOK
  <2>4. \A x \in Topics \ {t}, v \in Uris :
          /\ told'[x] = told[x]
          /\ <<x, v>> \in failed => <<x, v>> \in failed'
          /\ <<x, v>> \in torn \cup TornWalk => <<x, v>> \in torn'
    BY <2>2 DEF IInv, TypeOK
  <2>5. told'[t][u] = {}
    BY <2>2 DEF IInv, TypeOK
  <2>6. \A s \in entry.subscribers :
          told'[t][s.nodeUri] = UrisOf(entry.publishers)
    BY <2>1, <2>5, SingletonList DEF UrisOf
  <2> QED
    BY <1>2, <2>1, <2>2, <2>3, <2>4, <2>6, AppendStep
<1> QED
  BY <1>1, <1>2

\* The four handlers keep the invariant.
LEMMA RequestStep ==
  ASSUME IInv, NEW n \in Nodes, NEW t \in Topics, NEW u \in Uris,
         Request(n, t, u)
  PROVE  IInv'
BY RegisterPublisherStep, UnregisterPublisherStep, RegisterSubscriberStep,
   UnregisterSubscriberStep DEF Request

-----------------------------------------------------------------------------
(***************************************************************************)
(* The spin thread and the calls that come late.                           *)
(***************************************************************************)

\* The registry is not the spin thread's to change.
LEMMA RegistryKept ==
  ASSUME RegistryConsistent, UNCHANGED topics_
  PROVE  RegistryConsistent'
BY DEF RegistryConsistent

\* Popping a task starts a walk that owes its topic's subscribers the list.
LEMMA PopTaskStep ==
  ASSUME IInv, PopTask
  PROVE  IInv'
<1>1. /\ Head(task_queue_) \in Topics
      /\ Tail(task_queue_) \in Seq(Topics)
      /\ ToSet(task_queue_) = ToSet(task_queue_') \cup {task'}
  BY TailQueued DEF IInv, TypeOK, PopTask
<1>2. TypeOK'
  BY <1>1 DEF IInv, TypeOK, PopTask, Walking, history
<1>3. WalkPosition' /\ SentListIsFollowedUp'
  BY DEF IInv, TypeOK, WalkPosition, SentListIsFollowedUp, PopTask, Walking
<1>4. NoLostNotification'
  <2> SUFFICES ASSUME NEW i \in 1..Len(topics_),
                      NEW s \in topics_[i].subscribers
               PROVE  Accounted(i, s.nodeUri)'
    BY DEF NoLostNotification, PopTask
  <2>1. Accounted(i, s.nodeUri)
    BY DEF IInv, NoLostNotification
  <2>2. ~BeingServed(i, s.nodeUri)
    BY DEF BeingServed, PopTask
  <2>3. CASE topics_[i].topicName = Head(task_queue_)
    BY <2>3 DEF Accounted, BeingServed, PopTask, IInv, TypeOK, WalkPosition
  <2>4. CASE topics_[i].topicName # Head(task_queue_)
    BY <1>1, <2>1, <2>2, <2>4
    DEF Accounted, UpToDate, Queued, PopTask, history
  <2> QED
    BY <2>3, <2>4
<1> QED
  BY <1>2, <1>3, <1>4, RegistryKept DEF IInv, PopTask

\* Without a structural change, the slot the walk visits is an entry.
LEMMA CleanVisit ==
  ASSUME IInv, pc = "walk", ~dirty, slot <= Len(seen)
  PROVE  slot \in 1..Len(topics_) /\ Readable = {topics_[slot]}
<1>1. slot \in 1..Len(topics_)
  BY DEF IInv, TypeOK, WalkPosition, Walking
<1>2. {slot} \cap DOMAIN topics_ = {slot}
  BY <1>1 DEF IInv, TypeOK
<1> QED
  BY <1>1, <1>2 DEF Readable

\* Whatever the walk reads has the type of an entry.
LEMMA ReadableType ==
  ASSUME IInv, pc = "walk", slot <= Len(seen)
  PROVE  Readable \in SUBSET SystemTopicsInfo
<1>1. slot \in 1..Len(seen) /\ seen[slot] \in SystemTopicsInfo
  BY DEF IInv, TypeOK, WalkPosition
<1>2. \A i \in DOMAIN topics_ : topics_[i] \in SystemTopicsInfo
  BY DEF IInv, TypeOK
<1> QED
  BY <1>1, <1>2 DEF Readable

\* Visiting a slot starts the calls of its topic, or goes on.
LEMMA VisitSlotStep ==
  ASSUME IInv, VisitSlot
  PROVE  IInv'
<1> PICK topic \in Readable :
       \/ /\ topic.topicName = task
          /\ pc' = "call"
          /\ pubs' = UrisOf(topic.publishers)
          /\ todo' = UrisOf(topic.subscribers)
          /\ UNCHANGED slot
       \/ /\ topic.topicName # task
          /\ slot' = slot + 1
          /\ UNCHANGED <<pc, pubs, todo>>
  BY DEF VisitSlot
<1>1. /\ pc = "walk" /\ slot <= Len(seen)
      /\ UNCHANGED <<topics_, task_queue_, task, seen, dirty, late, history>>
  BY DEF VisitSlot
<1>2. slot \in 1..Len(seen) /\ Len(seen) \in Nat
  BY <1>1 DEF IInv, TypeOK, WalkPosition
<1>3. ~dirty => slot \in 1..Len(topics_) /\ topic = topics_[slot]
  BY <1>1, CleanVisit
<1>4. TypeOK'
  <2>1. topic \in SystemTopicsInfo
    BY <1>1, ReadableType
  <2>2. UrisOf(topic.publishers) \in SUBSET Uris /\ UrisOf(topic.subscribers) \in SUBSET Uris
    BY <2>1, UrisOfType DEF SystemTopicsInfo
  <2>3. task \in Topics
    BY <1>1 DEF IInv, TypeOK, Walking
  <2> QED
    BY <1>1, <1>2, <2>2, <2>3 DEF IInv, TypeOK, Walking, history
<1>5. WalkPosition'
  BY <1>1, <1>2 DEF IInv, WalkPosition, Walking
<1>6. SentListIsFollowedUp'
  BY <1>1, <1>3 DEF SentListIsFollowedUp
<1>7. NoLostNotification'
  <2> SUFFICES ASSUME NEW i \in 1..Len(topics_),
                      NEW s \in topics_[i].subscribers
               PROVE  Accounted(i, s.nodeUri)'
    BY <1>1 DEF NoLostNotification
  <2>1. Accounted(i, s.nodeUri)
    BY DEF IInv, NoLostNotification
  <2>2. CASE ~BeingServed(i, s.nodeUri)
    BY <1>1, <2>1, <2>2 DEF Accounted, UpToDate, Queued, history
  <2>3. CASE BeingServed(i, s.nodeUri)
    <3>1. ~dirty /\ task = topics_[i].topicName /\ slot <= i
      BY <1>1, <2>3 DEF BeingServed
    <3>2. CASE slot = i
      <4>1. s.nodeUri \in UrisOf(topics_[i].subscribers)
        BY DEF UrisOf
      <4> QED
        BY <1>1, <1>3, <3>1, <3>2, <4>1 DEF Accounted, BeingServed
    <3>3. CASE slot # i
      <4>1. topics_[slot].topicName # task
        BY <1>3, <3>1, <3>3 DEF IInv, RegistryConsistent
      <4>2. slot + 1 <= i
        BY <1>2, <3>1, <3>3 DEF IInv, TypeOK
      <4> QED
        BY <1>1, <1>3, <3>1, <4>1, <4>2 DEF Accounted, BeingServed
    <3> QED
      BY <3>2, <3>3
  <2> QED
    BY <2>2, <2>3
<1> QED
  BY <1>1, <1>4, <1>5, <1>6, <1>7, RegistryKept DEF IInv

\* A step that leaves every disjunct of Accounted alone but the walk's own.
LEMMA StillAccounted ==
  ASSUME IInv, UNCHANGED <<topics_, task_queue_, told>>,
         failed \cup torn \subseteq failed' \cup torn',
         \A i \in 1..Len(topics_), u \in Uris :
           BeingServed(i, u) => BeingServed(i, u)'
  PROVE  NoLostNotification'
<1> SUFFICES ASSUME NEW i \in 1..Len(topics_), NEW s \in topics_[i].subscribers
             PROVE  Accounted(i, s.nodeUri)'
  BY DEF NoLostNotification
<1>1. Accounted(i, s.nodeUri)
  BY DEF IInv, NoLostNotification
<1>2. s.nodeUri \in Uris
  BY EntryType DEF IInv, SystemNodeInfo
<1> QED
  BY <1>1, <1>2 DEF Accounted, UpToDate, Queued

\* A walk over a changed vector, its end, and the end of the calls.
LEMMA WalkOnStep ==
  ASSUME IInv, VisitMovedSlot \/ Crash \/ EndCalls \/ EndTask
  PROVE  IInv'
<1>1. UNCHANGED <<topics_, task_queue_, late, history>>
  BY DEF VisitMovedSlot, Crash, EndCalls, EndTask
<1>2. TypeOK'
  <2>1. CASE VisitMovedSlot
    BY <2>1 DEF VisitMovedSlot, IInv, TypeOK, Walking, history
  <2>2. CASE Crash
    BY <2>2 DEF Crash, IInv, TypeOK, Walking, history
  <2>3. CASE EndCalls
    BY <2>3 DEF EndCalls, IInv, TypeOK, Walking, history
  <2>4. CASE EndTask
    <3>1. seen' \in Seq(SystemTopicsInfo)
      BY <2>4 DEF EndTask
    <3> QED
      BY <2>4, <3>1 DEF EndTask, IInv, TypeOK, Walking, history
  <2> QED
    BY <2>1, <2>2, <2>3, <2>4
<1>3. WalkPosition' /\ SentListIsFollowedUp'
  BY DEF IInv, TypeOK, WalkPosition, SentListIsFollowedUp, Walking,
         VisitMovedSlot, Crash, EndCalls, EndTask
<1>4. ASSUME NEW i \in 1..Len(topics_), NEW u \in Uris, BeingServed(i, u)
      PROVE  BeingServed(i, u)'
  BY <1>4 DEF BeingServed, IInv, TypeOK, WalkPosition, Walking,
              VisitMovedSlot, Crash, EndCalls, EndTask
<1>5. NoLostNotification'
  BY <1>1, <1>4, StillAccounted DEF history
<1> QED
  BY <1>1, <1>2, <1>3, <1>5, RegistryKept DEF IInv

\* A call that is answered: the subscriber now has the list that was sent, which
\* is current or followed up, unless the walk is torn.
LEMMA CallSucceedsStep ==
  ASSUME IInv, NEW v \in Uris, CallSucceeds(v)
  PROVE  IInv'
<1>1. /\ pc = "call" /\ task \in Topics
      /\ UNCHANGED <<topics_, task_queue_, pc, task, slot, seen, dirty, pubs, late>>
  BY DEF CallSucceeds, IInv, TypeOK, Walking
<1>2. /\ told' \in [Topics -> [Uris -> SUBSET Uris]]
      /\ told'[task][v] = pubs
      /\ \A x \in Topics, u \in Uris :
           x # task \/ u # v => told'[x][u] = told[x][u]
  BY <1>1 DEF CallSucceeds, IInv, TypeOK
<1>3. TypeOK'
  BY <1>1, <1>2 DEF CallSucceeds, IInv, TypeOK, Walking
<1>4. WalkPosition' /\ SentListIsFollowedUp'
  BY <1>1 DEF IInv, WalkPosition, SentListIsFollowedUp, Walking, Queued
<1>5. NoLostNotification'
  <2> SUFFICES ASSUME NEW i \in 1..Len(topics_),
                      NEW s \in topics_[i].subscribers
               PROVE  Accounted(i, s.nodeUri)'
    BY <1>1 DEF NoLostNotification
  <2> DEFINE x == topics_[i].topicName
             u == s.nodeUri
  <2>1. Accounted(i, u) /\ x \in Topics /\ u \in Uris
    BY EntryType DEF IInv, NoLostNotification, SystemNodeInfo
  <2>2. CASE x # task \/ u # v
    <3>1. told'[x][u] = told[x][u]
      BY <1>2, <2>1, <2>2
    <3>2. <<x, u>> \in failed \cup torn => <<x, u>> \in failed' \cup torn'
      BY <2>2 DEF CallSucceeds
    <3>3. BeingServed(i, u) => BeingServed(i, u)'
      BY <1>1, <2>2 DEF BeingServed, CallSucceeds
    <3> QED
      BY <1>1, <2>1, <3>1, <3>2, <3>3 DEF Accounted, UpToDate, Queued
  <2>3. CASE x = task /\ u = v /\ ~dirty
    <3>1. /\ slot \in 1..Len(topics_) /\ topics_[slot].topicName = task
          /\ pubs = UrisOf(topics_[slot].publishers) \/ Queued(task)
      BY <1>1, <2>3 DEF IInv, SentListIsFollowedUp
    <3>2. slot = i
      BY <2>3, <3>1 DEF IInv, RegistryConsistent
    <3> QED
      BY <1>1, <1>2, <2>3, <3>1, <3>2 DEF Accounted, UpToDate, Queued
  <2>4. CASE x = task /\ u = v /\ dirty
    <3>1. <<x, u>> \in torn'
      BY <2>4 DEF CallSucceeds
    <3> QED
      BY <1>1, <3>1 DEF Accounted
  <2> QED
    BY <2>2, <2>3, <2>4 DEF IInv, TypeOK
<1> QED
  BY <1>1, <1>3, <1>4, <1>5, RegistryKept DEF IInv

\* A call that fails is remembered, and may still be answered late.
LEMMA CallFailsStep ==
  ASSUME IInv, NEW v \in Uris, CallFails(v)
  PROVE  IInv'
<1>1. /\ pc = "call" /\ task \in Topics
      /\ UNCHANGED <<topics_, task_queue_, pc, task, slot, seen, dirty, pubs, told,
                     torn>>
      /\ todo' = todo \ {v} /\ failed' = failed \cup {<<task, v>>}
  BY DEF CallFails, IInv, TypeOK, Walking
<1>2. late' \in SUBSET [topic : Topics, uri : Uris, pubs : SUBSET Uris]
  BY <1>1 DEF CallFails, IInv, TypeOK
<1>3. TypeOK'
  BY <1>1, <1>2 DEF IInv, TypeOK, Walking
<1>4. WalkPosition' /\ SentListIsFollowedUp'
  BY <1>1 DEF IInv, WalkPosition, SentListIsFollowedUp, Walking, Queued
<1>5. NoLostNotification'
  <2> SUFFICES ASSUME NEW i \in 1..Len(topics_),
                      NEW s \in topics_[i].subscribers
               PROVE  Accounted(i, s.nodeUri)'
    BY <1>1 DEF NoLostNotification
  <2>1. Accounted(i, s.nodeUri)
    BY DEF IInv, NoLostNotification
  <2>2. CASE topics_[i].topicName = task /\ s.nodeUri = v
    BY <1>1, <2>2 DEF Accounted
  <2>3. CASE ~(topics_[i].topicName = task /\ s.nodeUri = v)
    BY <1>1, <2>1, <2>3 DEF Accounted, UpToDate, Queued, BeingServed
  <2> QED
    BY <2>2, <2>3
<1> QED
  BY <1>1, <1>3, <1>4, <1>5, RegistryKept DEF IInv

\* A late request is answered with the list it carried, then followed up.
LEMMA LateCallStep ==
  ASSUME IInv, NEW m \in late, LateCall(m)
  PROVE  IInv'
<1>1. m.topic \in Topics /\ m.uri \in Uris /\ m.pubs \in SUBSET Uris
  BY DEF IInv, TypeOK
<1>2. /\ UNCHANGED <<topics_, task_queue_, spinVars, torn>>
      /\ late' = late \ {m} /\ failed' = failed \cup {<<m.topic, m.uri>>}
      /\ told' = [told EXCEPT ![m.topic][m.uri] = m.pubs]
  BY DEF LateCall
<1>3. /\ told' \in [Topics -> [Uris -> SUBSET Uris]]
      /\ \A x \in Topics, u \in Uris :
           x # m.topic \/ u # m.uri => told'[x][u] = told[x][u]
  BY <1>1, <1>2 DEF IInv, TypeOK
<1>4. TypeOK'
  BY <1>1, <1>2, <1>3 DEF IInv, TypeOK, Walking, spinVars
<1>5. WalkPosition' /\ SentListIsFollowedUp'
  BY <1>2 DEF IInv, WalkPosition, SentListIsFollowedUp, Walking, Queued, spinVars
<1>6. NoLostNotification'
  <2> SUFFICES ASSUME NEW i \in 1..Len(topics_),
                      NEW s \in topics_[i].subscribers
               PROVE  Accounted(i, s.nodeUri)'
    BY <1>2 DEF NoLostNotification
  <2> DEFINE x == topics_[i].topicName
             u == s.nodeUri
  <2>1. Accounted(i, u) /\ x \in Topics /\ u \in Uris
    BY EntryType DEF IInv, NoLostNotification, SystemNodeInfo
  <2>2. CASE x = m.topic /\ u = m.uri
    BY <1>2, <2>2 DEF Accounted
  <2>3. CASE x # m.topic \/ u # m.uri
    <3>1. told'[x][u] = told[x][u]
      BY <1>3, <2>1, <2>3
    <3> QED
      BY <1>2, <2>1, <3>1
      DEF Accounted, UpToDate, Queued, BeingServed, spinVars
  <2> QED
    BY <2>2, <2>3
<1> QED
  BY <1>2, <1>4, <1>5, <1>6, RegistryKept DEF IInv

-----------------------------------------------------------------------------
(***************************************************************************)
(* The theorems.                                                           *)
(***************************************************************************)

\* Every step keeps the invariant.
LEMMA NextIInv == IInv /\ [Next]_vars => IInv'
<1> SUFFICES ASSUME IInv, [Next]_vars PROVE IInv'
  OBVIOUS
<1>1. ASSUME NEW n \in Nodes, NEW t \in Topics, NEW u \in Uris, Request(n, t, u)
      PROVE  IInv'
  BY <1>1, RequestStep
<1>2. CASE spinOnce
  BY <1>2, PopTaskStep, VisitSlotStep, WalkOnStep, CallSucceedsStep, CallFailsStep
  DEF spinOnce
<1>3. ASSUME NEW m \in late, LateCall(m)
      PROVE  IInv'
  BY <1>3, LateCallStep
<1>4. CASE UNCHANGED vars
  BY <1>4, NothingStep
<1> QED
  BY <1>1, <1>2, <1>3, <1>4 DEF Next

\* The invariant holds in every state of every behaviour.
LEMMA SpecIInv == Spec => []IInv
BY InitIInv, NextIInv, PTL DEF Spec

\* The state of the master has its type in every reachable state.
THEOREM TypeCorrect == Spec => []TypeOK
<1>1. IInv => TypeOK
  BY DEF IInv
<1> QED
  BY <1>1, SpecIInv, PTL

\* The handlers keep one entry for each topic and one for each node in it, and
\* no entry of a topic that nobody uses.
THEOREM RegistryStaysConsistent == Spec => []RegistryConsistent
<1>1. IInv => RegistryConsistent
  BY DEF IInv
<1> QED
  BY <1>1, SpecIInv, PTL

\* Whatever list the spin thread is sending is current or will be followed by
\* another one.
THEOREM SentListsAreFollowedUp == Spec => []SentListIsFollowedUp
<1>1. IInv => SentListIsFollowedUp
  BY DEF IInv
<1> QED
  BY <1>1, SpecIInv, PTL

\* The spin thread loses no change of a topic's publishers but to a failed call
\* or to a walk whose vector changed.
THEOREM NotificationsAreNotLost == Spec => []NoLostNotification
<1>1. IInv => NoLostNotification
  BY DEF IInv
<1> QED
  BY <1>1, SpecIInv, PTL

-----------------------------------------------------------------------------
(***************************************************************************)
(* How a request edits the registry. The type of a topic and the facts     *)
(* Registrations lists are seen entry by entry: a request gives one entry  *)
(* another list for one role, in which only the caller's record differs.   *)
(***************************************************************************)
OnlyOf(n, infos, new) == \A x \in (infos \ new) \cup (new \ infos) : x.nodeName = n

Known(entry) == entry.publishers # {} => entry.topicTypeName # AnyType

Edited(n, role, entry, new) ==
  /\ new \in SystemTopicsInfo
  /\ new.topicName = entry.topicName
  /\ \/ /\ role = "pub" /\ new.subscribers = entry.subscribers
        /\ OnlyOf(n, entry.publishers, new.publishers)
     \/ /\ role = "sub" /\ new.publishers = entry.publishers
        /\ OnlyOf(n, entry.subscribers, new.subscribers)
  /\ Known(entry) => Known(new)

NewTopic(t) == [topicName |-> t, topicTypeName |-> AnyType,
                publishers |-> {}, subscribers |-> {}]

RegistryEdit(n, t, role) ==
  \/ UNCHANGED topics_
  \/ \E i \in 1..Len(topics_) : \E new \in SystemTopicsInfo :
       /\ topics_[i].topicName = t
       /\ Edited(n, role, topics_[i], new)
       /\ \/ topics_' = [topics_ EXCEPT ![i] = new]
          \/ Abandoned(new) /\ topics_' = RemoveAt(topics_, i)
  \/ \E new \in SystemTopicsInfo :
       /\ Edited(n, role, NewTopic(t), new)
       /\ topics_' = Append(topics_, new)

\* Upsert and Erase leave the records of the others as they are.
LEMMA OthersKept ==
  ASSUME NEW infos \in SUBSET SystemNodeInfo, NEW n \in Nodes, NEW u \in Uris
  PROVE  /\ OnlyOf(n, infos, Upsert(infos, NodeInfo(n, u)))
         /\ OnlyOf(n, infos, Erase(infos, n))
         /\ OnlyOf(n, {}, {NodeInfo(n, u)})
<1>1. NodeInfo(n, u).nodeName = n
  BY DEF NodeInfo
<1> QED
  BY <1>1 DEF OnlyOf, Upsert, Erase

\* registerPublisher edits the caller's record among the publishers.
LEMMA RegisterPublisherEdit ==
  ASSUME TypeOK, NEW n \in Nodes, NEW t \in Topics, NEW u \in Uris,
         NEW type \in Types \ {AnyType}, RegisterPublisher(n, t, type, u)
  PROVE  RegistryEdit(n, t, "pub")
<1>1. ASSUME NEW i \in FirstEntry(t),
             UpdateTopic(i, [topics_[i] EXCEPT
               !.topicTypeName = PublishedType(@, type),
               !.publishers = Upsert(@, NodeInfo(n, u))])
      PROVE  RegistryEdit(n, t, "pub")
  <2> DEFINE list == Upsert(topics_[i].publishers, NodeInfo(n, u))
             given == PublishedType(topics_[i].topicTypeName, type)
             entry == [topics_[i] EXCEPT !.topicTypeName = given, !.publishers = list]
  <2>1. i \in 1..Len(topics_) /\ topics_[i].topicName = t
    BY FirstEntryProperties
  <2>2. /\ topics_[i] \in SystemTopicsInfo
        /\ topics_[i].topicTypeName \in Types
        /\ topics_[i].publishers \in SUBSET SystemNodeInfo
    BY <2>1, EntryType
  <2>3. list \in SUBSET SystemNodeInfo /\ OnlyOf(n, topics_[i].publishers, list)
    BY <2>2, UpsertProperties, OthersKept
  <2>4. given \in Types \ {AnyType}
    BY <2>2 DEF PublishedType
  <2>5. topics_' = [topics_ EXCEPT ![i] = entry]
    BY <1>1 DEF UpdateTopic
  <2> HIDE DEF list, given
  <2>6. /\ entry \in SystemTopicsInfo
        /\ entry.topicName = topics_[i].topicName
        /\ entry.topicTypeName = given
        /\ entry.publishers = list
        /\ entry.subscribers = topics_[i].subscribers
    BY <2>2, <2>3, <2>4 DEF SystemTopicsInfo
  <2> HIDE DEF entry
  <2>7. Edited(n, "pub", topics_[i], entry)
    BY <2>3, <2>4, <2>6 DEF Edited, Known
  <2> QED
    BY <2>1, <2>5, <2>6, <2>7 DEF RegistryEdit
<1>2. ASSUME AddTopic([topicName |-> t, topicTypeName |-> type,
                       publishers |-> {NodeInfo(n, u)}, subscribers |-> {}])
      PROVE  RegistryEdit(n, t, "pub")
  <2> DEFINE entry == [topicName |-> t, topicTypeName |-> type,
                       publishers |-> {NodeInfo(n, u)}, subscribers |-> {}]
  <2>1. entry \in SystemTopicsInfo
    BY SingletonList DEF SystemTopicsInfo
  <2>2. Edited(n, "pub", NewTopic(t), entry)
    BY <2>1, OthersKept DEF Edited, Known, NewTopic
  <2> QED
    BY <1>2, <2>1, <2>2 DEF RegistryEdit, AddTopic
<1> QED
  BY <1>1, <1>2 DEF RegisterPublisher

\* registerSubscriber edits the caller's record among the subscribers.
LEMMA RegisterSubscriberEdit ==
  ASSUME TypeOK, NEW n \in Nodes, NEW t \in Topics, NEW u \in Uris,
         NEW type \in Types, RegisterSubscriber(n, t, type, u)
  PROVE  RegistryEdit(n, t, "sub")
<1>1. ASSUME NEW i \in FirstEntry(t),
             topics_' = [topics_ EXCEPT ![i].subscribers = Upsert(@, NodeInfo(n, u))]
      PROVE  RegistryEdit(n, t, "sub")
  <2> DEFINE list == Upsert(topics_[i].subscribers, NodeInfo(n, u))
             entry == [topics_[i] EXCEPT !.subscribers = list]
  <2>1. i \in 1..Len(topics_) /\ topics_[i].topicName = t
    BY FirstEntryProperties
  <2>2. /\ topics_[i] \in SystemTopicsInfo
        /\ topics_[i].subscribers \in SUBSET SystemNodeInfo
    BY <2>1, EntryType
  <2>3. list \in SUBSET SystemNodeInfo /\ OnlyOf(n, topics_[i].subscribers, list)
    BY <2>2, UpsertProperties, OthersKept
  <2>4. topics_' = [topics_ EXCEPT ![i] = entry]
    BY <1>1, <2>1 DEF TypeOK
  <2> HIDE DEF list
  <2>5. /\ entry \in SystemTopicsInfo
        /\ entry.topicName = topics_[i].topicName
        /\ entry.topicTypeName = topics_[i].topicTypeName
        /\ entry.publishers = topics_[i].publishers
        /\ entry.subscribers = list
    BY <2>2, <2>3 DEF SystemTopicsInfo
  <2> HIDE DEF entry
  <2>6. Edited(n, "sub", topics_[i], entry)
    BY <2>3, <2>5 DEF Edited, Known
  <2> QED
    BY <2>1, <2>4, <2>5, <2>6 DEF RegistryEdit
<1>2. ASSUME topics_' = Append(topics_, [topicName |-> t, topicTypeName |-> type,
                          publishers |-> {}, subscribers |-> {NodeInfo(n, u)}])
      PROVE  RegistryEdit(n, t, "sub")
  <2> DEFINE entry == [topicName |-> t, topicTypeName |-> type,
                       publishers |-> {}, subscribers |-> {NodeInfo(n, u)}]
  <2>1. entry \in SystemTopicsInfo
    BY SingletonList DEF SystemTopicsInfo
  <2>2. Edited(n, "sub", NewTopic(t), entry)
    BY <2>1, OthersKept DEF Edited, Known, NewTopic
  <2> QED
    BY <1>2, <2>1, <2>2 DEF RegistryEdit
<1> QED
  BY <1>1, <1>2 DEF RegisterSubscriber

\* The two handlers that take a node out of a list edit its record in it, or
\* drop an entry that has none left.
LEMMA UnregisterEdit ==
  ASSUME TypeOK, NEW n \in Nodes, NEW t \in Topics
  PROVE  /\ UnregisterPublisher(n, t) => RegistryEdit(n, t, "pub")
         /\ UnregisterSubscriber(n, t) => RegistryEdit(n, t, "sub")
<1>1. ASSUME NEW i \in FirstEntry(t), NEW new \in SystemTopicsInfo,
             NEW role \in {"pub", "sub"}, Edited(n, role, topics_[i], new),
             ShrinkTopic(i, new)
      PROVE  RegistryEdit(n, t, role)
  BY <1>1, FirstEntryProperties
  DEF RegistryEdit, ShrinkTopic, UpdateTopic, RemoveTopic
<1>2. ASSUME NEW i \in FirstEntry(t)
      PROVE  LET new == [topics_[i] EXCEPT !.publishers = Erase(topics_[i].publishers, n)]
             IN new \in SystemTopicsInfo /\ Edited(n, "pub", topics_[i], new)
  <2> DEFINE rest == Erase(topics_[i].publishers, n)
             new == [topics_[i] EXCEPT !.publishers = rest]
  <2>1. /\ topics_[i] \in SystemTopicsInfo
        /\ topics_[i].publishers \in SUBSET SystemNodeInfo
    BY FirstEntryProperties, EntryType
  <2>2. rest \in SUBSET topics_[i].publishers
    BY <2>1, EraseProperties
  <2>3. OnlyOf(n, topics_[i].publishers, rest)
    BY DEF OnlyOf, Erase
  <2> HIDE DEF rest
  <2>4. /\ new \in SystemTopicsInfo
        /\ new.topicName = topics_[i].topicName
        /\ new.topicTypeName = topics_[i].topicTypeName
        /\ new.publishers = rest
        /\ new.subscribers = topics_[i].subscribers
    BY <2>1, <2>2 DEF SystemTopicsInfo
  <2> HIDE DEF new
  <2>5. Edited(n, "pub", topics_[i], new)
    BY <2>2, <2>3, <2>4 DEF Edited, Known
  <2> QED
    BY <2>4, <2>5 DEF new, rest
<1>3. ASSUME NEW i \in FirstEntry(t)
      PROVE  LET new == [topics_[i] EXCEPT !.subscribers = Erase(topics_[i].subscribers, n)]
             IN new \in SystemTopicsInfo /\ Edited(n, "sub", topics_[i], new)
  <2> DEFINE rest == Erase(topics_[i].subscribers, n)
             new == [topics_[i] EXCEPT !.subscribers = rest]
  <2>1. /\ topics_[i] \in SystemTopicsInfo
        /\ topics_[i].subscribers \in SUBSET SystemNodeInfo
    BY FirstEntryProperties, EntryType
  <2>2. rest \in SUBSET topics_[i].subscribers
    BY <2>1, EraseProperties
  <2>3. OnlyOf(n, topics_[i].subscribers, rest)
    BY DEF OnlyOf, Erase
  <2> HIDE DEF rest
  <2>4. /\ new \in SystemTopicsInfo
        /\ new.topicName = topics_[i].topicName
        /\ new.topicTypeName = topics_[i].topicTypeName
        /\ new.publishers = topics_[i].publishers
        /\ new.subscribers = rest
    BY <2>1, <2>2 DEF SystemTopicsInfo
  <2> HIDE DEF new
  <2>5. Edited(n, "sub", topics_[i], new)
    BY <2>3, <2>4 DEF Edited, Known
  <2> QED
    BY <2>4, <2>5 DEF new, rest
<1>4. ASSUME UnregisterPublisher(n, t) PROVE RegistryEdit(n, t, "pub")
  <2>1. ASSUME NEW i \in FirstEntry(t),
               ShrinkTopic(i, [topics_[i] EXCEPT !.publishers = Erase(topics_[i].publishers, n)])
        PROVE  RegistryEdit(n, t, "pub")
    BY <1>1, <1>2, <2>1
  <2>2. CASE UNCHANGED topics_
    BY <2>2 DEF RegistryEdit
  <2> QED
    BY <1>4, <2>1, <2>2 DEF UnregisterPublisher
<1>5. ASSUME UnregisterSubscriber(n, t) PROVE RegistryEdit(n, t, "sub")
  <2>1. ASSUME NEW i \in FirstEntry(t),
               ShrinkTopic(i, [topics_[i] EXCEPT !.subscribers = Erase(topics_[i].subscribers, n)])
        PROVE  RegistryEdit(n, t, "sub")
    BY <1>1, <1>3, <2>1
  <2>2. CASE UNCHANGED topics_
    BY <2>2 DEF RegistryEdit
  <2> QED
    BY <1>5, <2>1, <2>2 DEF UnregisterSubscriber
<1> QED
  BY <1>4, <1>5

\* A request edits the registry, the spin thread and a late call do not.
LEMMA StepsEdit ==
  ASSUME TypeOK, [Next]_vars
  PROVE  \/ UNCHANGED topics_
         \/ \E n \in Nodes, t \in Topics, role \in {"pub", "sub"} :
              RegistryEdit(n, t, role)
<1>1. ASSUME NEW n \in Nodes, NEW t \in Topics, NEW u \in Uris, Request(n, t, u)
      PROVE  \E role \in {"pub", "sub"} : RegistryEdit(n, t, role)
  BY <1>1, RegisterPublisherEdit, RegisterSubscriberEdit, UnregisterEdit DEF Request
<1>2. CASE spinOnce
  BY <1>2 DEF spinOnce, PopTask, VisitSlot, VisitMovedSlot, Crash, CallSucceeds,
     CallFails, EndCalls, EndTask
<1>3. ASSUME NEW m \in late, LateCall(m)
      PROVE  UNCHANGED topics_
  BY <1>3 DEF LateCall
<1>4. CASE UNCHANGED vars
  BY <1>4 DEF vars
<1> QED
  BY <1>1, <1>2, <1>3, <1>4 DEF Next

\* An edit replaces one entry by another: the others are all still there. One
\* in which nobody is left may be missing.
Replaced(old, new) ==
  /\ \A j \in 1..Len(topics_') :
       topics_'[j] = new \/ \E i \in 1..Len(topics_) : topics_'[j] = topics_[i]
  /\ \A i \in 1..Len(topics_) :
       topics_[i] = old \/ \E j \in 1..Len(topics_') : topics_'[j] = topics_[i]
  /\ Abandoned(new) \/ \E j \in 1..Len(topics_') : topics_'[j] = new
  /\ Abandoned(old) \/ \E i \in 1..Len(topics_) : topics_[i] = old

\* Whichever way the vector is changed, that is what an edit comes to.
LEMMA EditReplaces ==
  ASSUME TypeOK, NEW n \in Nodes, NEW t \in Topics, NEW role \in {"pub", "sub"},
         RegistryEdit(n, t, role), ~UNCHANGED topics_
  PROVE  \E old, new \in SystemTopicsInfo :
           /\ old.topicName = t
           /\ Edited(n, role, old, new)
           /\ Replaced(old, new)
<1>1. topics_ \in Seq(SystemTopicsInfo) /\ Len(topics_) \in Nat
  BY DEF TypeOK
<1>2. ASSUME NEW i \in 1..Len(topics_), NEW new \in SystemTopicsInfo,
             topics_' = [topics_ EXCEPT ![i] = new]
      PROVE  Replaced(topics_[i], new)
  <2>1. /\ Len(topics_') = Len(topics_)
        /\ \A j \in 1..Len(topics_) : topics_'[j] = IF j = i THEN new ELSE topics_[j]
    BY <1>1, <1>2, UpdateProperties
  <2> QED
    BY <2>1 DEF Replaced
<1>3. ASSUME NEW i \in 1..Len(topics_), NEW new \in SystemTopicsInfo,
             Abandoned(new), topics_' = RemoveAt(topics_, i)
      PROVE  Replaced(topics_[i], new)
  <2>1. /\ Len(topics_') = Len(topics_) - 1
        /\ \A j \in 1..(Len(topics_) - 1) :
             topics_'[j] = IF j < i THEN topics_[j] ELSE topics_[j + 1]
    BY <1>1, <1>3, RemoveAtProperties
  <2>2. \A j \in 1..Len(topics_') : \E k \in 1..Len(topics_) : topics_'[j] = topics_[k]
    <3> TAKE j \in 1..Len(topics_')
    <3>1. CASE j < i
      BY <1>1, <2>1, <3>1
    <3>2. CASE ~(j < i)
      <4>1. j + 1 \in 1..Len(topics_) /\ topics_'[j] = topics_[j + 1]
        BY <1>1, <2>1, <3>2
      <4> QED
        BY <4>1
    <3> QED
      BY <3>1, <3>2
  <2>3. ASSUME NEW k \in 1..Len(topics_), k # i
        PROVE  \E j \in 1..Len(topics_') : topics_'[j] = topics_[k]
    <3>1. CASE k < i
      <4>1. k \in 1..Len(topics_') /\ topics_'[k] = topics_[k]
        BY <1>1, <2>1, <3>1
      <4> QED
        BY <4>1
    <3>2. CASE ~(k < i)
      <4>1. k - 1 \in 1..Len(topics_') /\ topics_'[k - 1] = topics_[k]
        BY <1>1, <2>1, <2>3, <3>2
      <4> QED
        BY <4>1
    <3> QED
      BY <3>1, <3>2
  <2> QED
    BY <1>3, <2>2, <2>3 DEF Replaced
<1>4. ASSUME NEW new \in SystemTopicsInfo, topics_' = Append(topics_, new)
      PROVE  Replaced(NewTopic(t), new)
  <2>1. /\ Len(topics_') = Len(topics_) + 1
        /\ \A j \in 1..Len(topics_) : topics_'[j] = topics_[j]
        /\ topics_'[Len(topics_) + 1] = new
    BY <1>1, <1>4, AppendProperties
  <2>2. \A j \in 1..Len(topics_') : j \in 1..Len(topics_) \/ j = Len(topics_) + 1
    BY <1>1, <2>1
  <2>3. Abandoned(NewTopic(t))
    BY DEF Abandoned, NewTopic
  <2>4. Len(topics_) + 1 \in 1..Len(topics_') /\ 1..Len(topics_) \subseteq 1..Len(topics_')
    BY <1>1, <2>1
  <2> QED
    BY <2>1, <2>2, <2>3, <2>4 DEF Replaced
<1>5. NewTopic(t) \in SystemTopicsInfo /\ NewTopic(t).topicName = t
  BY AnyTypeAssumption DEF NewTopic, SystemTopicsInfo
<1>6. \A i \in 1..Len(topics_) : topics_[i] \in SystemTopicsInfo
  BY EntryType
<1> QED
  BY <1>2, <1>3, <1>4, <1>5, <1>6 DEF RegistryEdit

\* A publisher's type takes the place of a subscriber's "*", and a topic that
\* keeps a publisher keeps its type.
LEMMA TypeKnownStep ==
  ASSUME TypeOK, PublishedTypeKnown, [Next]_vars
  PROVE  PublishedTypeKnown'
<1>1. CASE UNCHANGED topics_
  BY <1>1 DEF PublishedTypeKnown
<1>2. ASSUME ~UNCHANGED topics_, NEW n \in Nodes, NEW t \in Topics,
             NEW role \in {"pub", "sub"}, RegistryEdit(n, t, role)
      PROVE  PublishedTypeKnown'
  <2>1. PICK old, new \in SystemTopicsInfo :
          Edited(n, role, old, new) /\ Replaced(old, new)
    BY <1>2, EditReplaces
  <2>2. \A i \in 1..Len(topics_) : Known(topics_[i])
    BY DEF PublishedTypeKnown, Known
  <2>3. Known(old)
    BY <2>1, <2>2 DEF Replaced, Abandoned, Known
  <2>4. Known(new)
    BY <2>1, <2>3 DEF Edited
  <2>5. \A j \in 1..Len(topics_') : Known(topics_'[j])
    BY <2>1, <2>2, <2>4 DEF Replaced
  <2> QED
    BY <2>5 DEF PublishedTypeKnown, Known
<1> QED
  BY <1>1, <1>2, StepsEdit

\* A topic that somebody publishes has a type that is not "*", whoever was first
\* and whatever the subscribers asked for.
THEOREM PublishedTypesAreKnown == Spec => []PublishedTypeKnown
<1>1. Init => PublishedTypeKnown
  BY DEF Init, PublishedTypeKnown
<1>2. PublishedTypeKnown /\ TypeOK /\ [Next]_vars => PublishedTypeKnown'
  BY TypeKnownStep
<1> QED
  BY <1>1, <1>2, TypeCorrect, PTL DEF Spec

\* What one entry contributes to Registrations.
Says(entry) == ({entry.topicName} \X {"pub"} \X entry.publishers) \cup
               ({entry.topicName} \X {"sub"} \X entry.subscribers)

\* Two entries that differ by an edit differ in what they say of one node, for
\* one topic, in one role.
LEMMA SaysEdited ==
  ASSUME NEW n, NEW role, NEW old, NEW new, Edited(n, role, old, new),
         NEW r \in (Says(old) \ Says(new)) \cup (Says(new) \ Says(old))
  PROVE  r[1] = old.topicName /\ r[2] = role /\ r[3].nodeName = n
<1>1. CASE role = "pub" /\ new.subscribers = old.subscribers
           /\ OnlyOf(n, old.publishers, new.publishers)
  <2>1. r \in {old.topicName} \X {"pub"} \X
               ((old.publishers \ new.publishers) \cup (new.publishers \ old.publishers))
    BY <1>1 DEF Says, Edited
  <2> QED
    BY <1>1, <2>1 DEF OnlyOf
<1>2. CASE role = "sub" /\ new.publishers = old.publishers
           /\ OnlyOf(n, old.subscribers, new.subscribers)
  <2>1. r \in {old.topicName} \X {"sub"} \X
               ((old.subscribers \ new.subscribers) \cup (new.subscribers \ old.subscribers))
    BY <1>2 DEF Says, Edited
  <2> QED
    BY <1>2, <2>1 DEF OnlyOf
<1> QED
  BY <1>1, <1>2 DEF Edited

\* A request that changes the registry changes what it says of its caller only.
LEMMA RegistrationsEdited ==
  ASSUME TypeOK, NEW n \in Nodes, NEW t \in Topics, NEW role \in {"pub", "sub"},
         RegistryEdit(n, t, role), ~UNCHANGED topics_
  PROVE  \A r \in (Registrations \ Registrations') \cup (Registrations' \ Registrations) :
           r[1] = t /\ r[2] = role /\ r[3].nodeName = n
<1>1. /\ Registrations = UNION {Says(topics_[i]) : i \in 1..Len(topics_)}
      /\ Registrations' = UNION {Says(topics_'[i]) : i \in 1..Len(topics_')}
  BY DEF Registrations, Says
<1>2. PICK old, new \in SystemTopicsInfo :
        old.topicName = t /\ Edited(n, role, old, new) /\ Replaced(old, new)
  BY EditReplaces
<1>3. \A entry : Abandoned(entry) => Says(entry) = {}
  BY DEF Abandoned, Says
<1>4. ASSUME NEW r \in Registrations \ Registrations'
      PROVE  r \in Says(old) \ Says(new)
  <2>1. PICK i \in 1..Len(topics_) : r \in Says(topics_[i])
    BY <1>1
  <2>2. \A j \in 1..Len(topics_') : r \notin Says(topics_'[j])
    BY <1>1
  <2> QED
    BY <1>2, <1>3, <2>1, <2>2 DEF Replaced
<1>5. ASSUME NEW r \in Registrations' \ Registrations
      PROVE  r \in Says(new) \ Says(old)
  <2>1. PICK j \in 1..Len(topics_') : r \in Says(topics_'[j])
    BY <1>1
  <2>2. \A i \in 1..Len(topics_) : r \notin Says(topics_[i])
    BY <1>1
  <2> QED
    BY <1>2, <1>3, <2>1, <2>2 DEF Replaced
<1> QED
  BY <1>2, <1>4, <1>5, SaysEdited

\* A step changes the registration of one node, for one topic, in one role, and
\* an entry that goes takes no other registration with it.
THEOREM OneRegistrationAtATime == Spec => OneRegistrationPerStep
<1>1. ASSUME TypeOK, [Next]_vars,
             NEW r1 \in (Registrations \ Registrations') \cup (Registrations' \ Registrations),
             NEW r2 \in (Registrations \ Registrations') \cup (Registrations' \ Registrations)
      PROVE  /\ r1[1] = r2[1] /\ r1[2] = r2[2]
             /\ r1[3].nodeName = r2[3].nodeName
  <2>1. CASE UNCHANGED topics_
    BY <1>1, <2>1 DEF Registrations
  <2>2. ASSUME ~UNCHANGED topics_, NEW n \in Nodes, NEW t \in Topics,
               NEW role \in {"pub", "sub"}, RegistryEdit(n, t, role)
        PROVE  /\ r1[1] = r2[1] /\ r1[2] = r2[2]
               /\ r1[3].nodeName = r2[3].nodeName
    BY <1>1, <2>2, RegistrationsEdited
  <2> QED
    BY <1>1, <2>1, <2>2, StepsEdit
<1>2. TypeOK /\ [Next]_vars =>
        [LET changed == (Registrations \ Registrations')
                          \cup (Registrations' \ Registrations)
         IN \A r1, r2 \in changed :
              /\ r1[1] = r2[1] /\ r1[2] = r2[2]
              /\ r1[3].nodeName = r2[3].nodeName]_vars
  BY <1>1
<1> QED
  BY <1>2, TypeCorrect, PTL DEF Spec, OneRegistrationPerStep

-----------------------------------------------------------------------------
(***************************************************************************)
(* The master implements its promise. Registrations are seen as what an    *)
(* entry lists for a role; debts as the entry, or the queue, they rest on. *)
(***************************************************************************)
ListOf(entry, role) == IF role = "pub" THEN entry.publishers ELSE entry.subscribers

Roles == {"pub", "sub"}

\* The facts of the registry, and the debts, one by one.
Fact(t, role, x) ==
  \E i \in 1..Len(topics_) : topics_[i].topicName = t /\ x \in ListOf(topics_[i], role)

Debt(t, u) ==
  \E i \in 1..Len(topics_) :
    /\ topics_[i].topicName = t
    /\ u \in UrisOf(topics_[i].subscribers)
    /\ Queued(t) \/ BeingServed(i, u)

\* A registration is a fact of an entry.
LEMMA FactsAre ==
  /\ \A t, x : \A role \in Roles : <<t, role, x>> \in Registrations <=> Fact(t, role, x)
  /\ \A r \in Registrations : r = <<r[1], r[2], r[3]>> /\ r[2] \in Roles
<1>1. ASSUME NEW i \in 1..Len(topics_), NEW r \in Says(topics_[i])
      PROVE  /\ r = <<topics_[i].topicName, r[2], r[3]>> /\ r[2] \in Roles
             /\ r[3] \in ListOf(topics_[i], r[2])
  BY <1>1 DEF Says, ListOf, Roles
<1>2. Registrations = UNION {Says(topics_[i]) : i \in 1..Len(topics_)}
  BY DEF Registrations, Says
<1>3. ASSUME NEW i \in 1..Len(topics_), NEW role \in Roles, NEW x \in ListOf(topics_[i], role)
      PROVE  <<topics_[i].topicName, role, x>> \in Says(topics_[i])
  BY <1>3 DEF Says, ListOf, Roles
<1>4. \A r \in Registrations : r = <<r[1], r[2], r[3]>> /\ r[2] \in Roles
  BY <1>1, <1>2
<1>5. ASSUME NEW t, NEW x, NEW role \in Roles, <<t, role, x>> \in Registrations
      PROVE  Fact(t, role, x)
  <2>1. PICK i \in 1..Len(topics_) : <<t, role, x>> \in Says(topics_[i])
    BY <1>2, <1>5
  <2> QED
    BY <1>1, <2>1 DEF Fact
<1>6. ASSUME NEW t, NEW x, NEW role \in Roles, Fact(t, role, x)
      PROVE  <<t, role, x>> \in Registrations
  BY <1>2, <1>3, <1>6 DEF Fact
<1> QED
  BY <1>4, <1>5, <1>6

\* The same after a step.
LEMMA FactsWillBe ==
  /\ \A t, x : \A role \in Roles : <<t, role, x>> \in Registrations' <=> Fact(t, role, x)'
  /\ \A r \in Registrations' : r = <<r[1], r[2], r[3]>> /\ r[2] \in Roles
<1>1. ASSUME NEW i \in 1..Len(topics_'), NEW r \in Says(topics_'[i])
      PROVE  /\ r = <<topics_'[i].topicName, r[2], r[3]>> /\ r[2] \in Roles
             /\ r[3] \in ListOf(topics_'[i], r[2])
  BY <1>1 DEF Says, ListOf, Roles
<1>2. Registrations' = UNION {Says(topics_'[i]) : i \in 1..Len(topics_')}
  BY DEF Registrations, Says
<1>3. ASSUME NEW i \in 1..Len(topics_'), NEW role \in Roles, NEW x \in ListOf(topics_'[i], role)
      PROVE  <<topics_'[i].topicName, role, x>> \in Says(topics_'[i])
  BY <1>3 DEF Says, ListOf, Roles
<1>4. \A r \in Registrations' : r = <<r[1], r[2], r[3]>> /\ r[2] \in Roles
  BY <1>1, <1>2
<1>5. ASSUME NEW t, NEW x, NEW role \in Roles, <<t, role, x>> \in Registrations'
      PROVE  Fact(t, role, x)'
  <2>1. PICK i \in 1..Len(topics_') : <<t, role, x>> \in Says(topics_'[i])
    BY <1>2, <1>5
  <2> QED
    BY <1>1, <2>1 DEF Fact
<1>6. ASSUME NEW t, NEW x, NEW role \in Roles, Fact(t, role, x)'
      PROVE  <<t, role, x>> \in Registrations'
  BY <1>2, <1>3, <1>6 DEF Fact
<1> QED
  BY <1>4, <1>5, <1>6

\* Due is the set of the debts, before a step and after it.
LEMMA DebtsAre ==
  /\ \A t, u : <<t, u>> \in Due <=> Debt(t, u)
  /\ \A x \in Due : x = <<x[1], x[2]>>
BY DEF Due, Debt

\* The same after a step.
LEMMA DebtsWillBe ==
  /\ \A t, u : <<t, u>> \in Due' <=> Debt(t, u)'
  /\ \A x \in Due' : x = <<x[1], x[2]>>
BY DEF Due, Debt

\* The URIs in the registrations of a topic in one role are those of its facts.
LEMMA OfIs ==
  /\ \A t, u : \A role \in Roles :
       u \in Promise!Of(t, role) <=> \E x : Fact(t, role, x) /\ u = x.nodeUri
  /\ \A t, u : \A role \in Roles :
       u \in Promise!Of(t, role)' <=> \E x : Fact(t, role, x)' /\ u = x.nodeUri
<1>1. ASSUME NEW t, NEW u, NEW role \in Roles
      PROVE  u \in Promise!Of(t, role) <=> \E x : Fact(t, role, x) /\ u = x.nodeUri
  <2>1. ASSUME u \in Promise!Of(t, role)
        PROVE  \E x : Fact(t, role, x) /\ u = x.nodeUri
    <3>1. PICK r \in Registrations : r[1] = t /\ r[2] = role /\ u = r[3].nodeUri
      BY <2>1 DEF Promise!Of
    <3>2. r = <<t, role, r[3]>>
      BY <3>1, FactsAre
    <3>3. Fact(t, role, r[3])
      BY <3>2, FactsAre
    <3> QED
      BY <3>1, <3>3
  <2>2. ASSUME NEW x, Fact(t, role, x), u = x.nodeUri
        PROVE  u \in Promise!Of(t, role)
    <3>1. <<t, role, x>> \in Registrations
      BY <2>2, FactsAre
    <3> DEFINE r == <<t, role, x>>
    <3>2. r[1] = t /\ r[2] = role /\ r[3] = x
      OBVIOUS
    <3> HIDE DEF r
    <3> QED
      BY <2>2, <3>1, <3>2 DEF Promise!Of, r
  <2> QED
    BY <2>1, <2>2
<1>2. ASSUME NEW t, NEW u, NEW role \in Roles
      PROVE  u \in Promise!Of(t, role)' <=> \E x : Fact(t, role, x)' /\ u = x.nodeUri
  <2>1. ASSUME u \in Promise!Of(t, role)'
        PROVE  \E x : Fact(t, role, x)' /\ u = x.nodeUri
    <3>1. PICK r \in Registrations' : r[1] = t /\ r[2] = role /\ u = r[3].nodeUri
      BY <2>1 DEF Promise!Of
    <3>2. r = <<t, role, r[3]>>
      BY <3>1, FactsWillBe
    <3>3. Fact(t, role, r[3])'
      BY <3>2, FactsWillBe
    <3> QED
      BY <3>1, <3>3
  <2>2. ASSUME NEW x, Fact(t, role, x)', u = x.nodeUri
        PROVE  u \in Promise!Of(t, role)'
    <3>1. <<t, role, x>> \in Registrations'
      BY <2>2, FactsWillBe
    <3> DEFINE r == <<t, role, x>>
    <3>2. r[1] = t /\ r[2] = role /\ r[3] = x
      OBVIOUS
    <3> HIDE DEF r
    <3> QED
      BY <2>2, <3>1, <3>2 DEF Promise!Of, r
  <2> QED
    BY <2>1, <2>2
<1> QED
  BY <1>1, <1>2

\* Who subscribes and who publishes a topic, in its only entry.
LEMMA PublishersAre ==
  ASSUME TypeOK, RegistryConsistent, NEW t \in Topics
  PROVE  /\ \A i \in 1..Len(topics_) : topics_[i].topicName = t =>
              /\ Promise!PublishersOf(t) = UrisOf(topics_[i].publishers)
              /\ Promise!SubscribersOf(t) = UrisOf(topics_[i].subscribers)
         /\ (\A i \in 1..Len(topics_) : topics_[i].topicName # t) =>
              Promise!PublishersOf(t) = {} /\ Promise!SubscribersOf(t) = {}
<1>1. ASSUME NEW role \in Roles
      PROVE  Promise!Of(t, role) = {x.nodeUri : x \in {y \in SystemNodeInfo : Fact(t, role, y)}}
  <2>1. \A i \in 1..Len(topics_) : ListOf(topics_[i], role) \subseteq SystemNodeInfo
    BY EntryType DEF ListOf
  <2>2. \A x : Fact(t, role, x) => x \in SystemNodeInfo
    BY <2>1 DEF Fact
  <2> QED
    BY <1>1, <2>2, OfIs
<1>2. ASSUME NEW role \in Roles, NEW i \in 1..Len(topics_), topics_[i].topicName = t
      PROVE  Promise!Of(t, role) = UrisOf(ListOf(topics_[i], role))
  <2>1. \A j \in 1..Len(topics_) : topics_[j].topicName = t => j = i
    BY <1>2 DEF RegistryConsistent
  <2>2. \A x : Fact(t, role, x) <=> x \in ListOf(topics_[i], role)
    BY <1>2, <2>1 DEF Fact
  <2>3. ListOf(topics_[i], role) \subseteq SystemNodeInfo
    BY EntryType DEF ListOf
  <2> QED
    BY <1>1, <2>2, <2>3 DEF UrisOf
<1>3. ASSUME NEW role \in Roles, \A i \in 1..Len(topics_) : topics_[i].topicName # t
      PROVE  Promise!Of(t, role) = {}
  BY <1>1, <1>3 DEF Fact
<1> QED
  BY <1>2, <1>3 DEF Promise!PublishersOf, Promise!SubscribersOf, Roles, ListOf

\* A debt is a subscriber's.
LEMMA SubscriberFact ==
  /\ \A t, u : u \in Promise!SubscribersOf(t) <=>
       \E i \in 1..Len(topics_) : topics_[i].topicName = t /\ u \in UrisOf(topics_[i].subscribers)
  /\ \A t, u : u \in Promise!SubscribersOf(t)' <=>
       \E i \in 1..Len(topics_') : topics_'[i].topicName = t /\ u \in UrisOf(topics_'[i].subscribers)
<1>1. ASSUME NEW t, NEW u
      PROVE  u \in Promise!SubscribersOf(t) <=>
               \E i \in 1..Len(topics_) :
                 topics_[i].topicName = t /\ u \in UrisOf(topics_[i].subscribers)
  <2>1. u \in Promise!SubscribersOf(t) <=> \E x : Fact(t, "sub", x) /\ u = x.nodeUri
    BY OfIs DEF Promise!SubscribersOf, Roles
  <2> QED
    BY <2>1 DEF Fact, ListOf, UrisOf
<1>2. ASSUME NEW t, NEW u
      PROVE  u \in Promise!SubscribersOf(t)' <=>
               \E i \in 1..Len(topics_') :
                 topics_'[i].topicName = t /\ u \in UrisOf(topics_'[i].subscribers)
  <2>1. u \in Promise!SubscribersOf(t)' <=> \E x : Fact(t, "sub", x)' /\ u = x.nodeUri
    BY OfIs DEF Promise!SubscribersOf, Roles
  <2> QED
    BY <2>1 DEF Fact, ListOf, UrisOf
<1> QED
  BY <1>1, <1>2

\* A request leaves all facts alone but those of its caller, topic and role.
LEMMA OthersStay ==
  ASSUME TypeOK, NEW n \in Nodes, NEW t \in Topics, NEW role \in Roles, RegistryEdit(n, t, role)
  PROVE  /\ Promise!Others(t, role, n) =
              {r \in Registrations' : r[1] # t \/ r[2] # role \/ r[3].nodeName # n}
         /\ \A x, v : \A other \in Roles :
              other # role \/ x # t => (Fact(x, other, v)' <=> Fact(x, other, v))
<1>1. \A r \in (Registrations \ Registrations') \cup (Registrations' \ Registrations) :
        r[1] = t /\ r[2] = role /\ r[3].nodeName = n
  <2>1. CASE UNCHANGED topics_
    BY <2>1 DEF Registrations
  <2>2. CASE ~UNCHANGED topics_
    BY <2>2, RegistrationsEdited DEF Roles
  <2> QED
    BY <2>1, <2>2
<1>2. ASSUME NEW x, NEW v, NEW other \in Roles, other # role \/ x # t
      PROVE  Fact(x, other, v)' <=> Fact(x, other, v)
  <2> DEFINE r == <<x, other, v>>
  <2>1. r[1] = x /\ r[2] = other
    OBVIOUS
  <2>2. (r \in Registrations <=> Fact(x, other, v)) /\ (r \in Registrations' <=> Fact(x, other, v)')
    BY FactsAre, FactsWillBe
  <2> HIDE DEF r
  <2> QED
    BY <1>1, <1>2, <2>1, <2>2
<1> QED
  BY <1>1, <1>2 DEF Promise!Others

\* The caller has one registration after it registers, and none after it left.
LEMMA EntersFact ==
  ASSUME TypeOK, RegistryConsistent', NEW n \in Nodes, NEW t \in Topics, NEW u \in Uris,
         NEW role \in Roles, RegistryEdit(n, t, role),
         NEW j \in 1..Len(topics_'), topics_'[j].topicName = t,
         NEW infos, ListOf(topics_'[j], role) = Upsert(infos, NodeInfo(n, u))
  PROVE  Promise!Enter(t, role, n, u)
<1> DEFINE new == <<t, role, NodeInfo(n, u)>>
<1>1. \A x : Fact(t, role, x)' <=> x \in Upsert(infos, NodeInfo(n, u))
  BY DEF Fact, RegistryConsistent
<1>2. NodeInfo(n, u).nodeName = n
  BY DEF NodeInfo
<1>3. \A x : x \in Upsert(infos, NodeInfo(n, u)) /\ x.nodeName = n <=> x = NodeInfo(n, u)
  BY <1>2 DEF Upsert
<1>4. new \in Registrations'
  BY <1>1, <1>2, <1>3, FactsWillBe
<1>5. ASSUME NEW r \in Registrations', r[1] = t, r[2] = role, r[3].nodeName = n
      PROVE  r = new
  <2>1. r = <<t, role, r[3]>>
    BY <1>5, FactsWillBe
  <2>2. Fact(t, role, r[3])'
    BY <2>1, FactsWillBe
  <2> QED
    BY <1>1, <1>3, <1>5, <2>1, <2>2
<1>6. Registrations' = Promise!Others(t, role, n) \cup {new}
  BY <1>4, <1>5, OthersStay
<1> QED
  BY <1>6 DEF Promise!Enter, NodeInfo

\* A caller that has none left has lost its own only.
LEMMA LeavesFact ==
  ASSUME TypeOK, NEW n \in Nodes, NEW t \in Topics, NEW role \in Roles, RegistryEdit(n, t, role),
         \A x : Fact(t, role, x)' => x.nodeName # n
  PROVE  Registrations' = Promise!Others(t, role, n)
<1>1. ASSUME NEW r \in Registrations', r[1] = t, r[2] = role
      PROVE  r[3].nodeName # n
  <2>1. r = <<t, role, r[3]>>
    BY <1>1, FactsWillBe
  <2>2. Fact(t, role, r[3])'
    BY <2>1, FactsWillBe
  <2> QED
    BY <2>2
<1>2. {r \in Registrations' : r[1] # t \/ r[2] # role \/ r[3].nodeName # n} = Registrations'
  BY <1>1
<1>3. Promise!Others(t, role, n) =
        {r \in Registrations' : r[1] # t \/ r[2] # role \/ r[3].nodeName # n}
  BY OthersStay
<1> QED
  BY <1>2, <1>3

\* How a handler changes the vector under the walk: every topic keeps its place,
\* or the walk will have none.
InPlace ==
  /\ dirty' = dirty /\ Len(topics_') = Len(topics_)
  /\ \A i \in 1..Len(topics_) : topics_'[i].topicName = topics_[i].topicName

\* Debts after a request: nobody's is forgotten, unless the walk is torn; and the only
\* new ones are those of new subscribers, and of topics that were queued.
LEMMA HandlerDue ==
  ASSUME IInv, IInv', Handler,
         ToSet(task_queue_) \subseteq ToSet(task_queue_'),
         \/ InPlace
         \/ dirty' = Walking /\ Due \cap TornWalk \subseteq failed' \cup torn'
  PROVE  /\ \A x \in Due \ Due' :
              x \in failed' \cup torn' \/ x[2] \notin Promise!SubscribersOf(x[1])'
         /\ \A x \in Due' :
              \/ x \in Due
              \/ x[2] \notin Promise!SubscribersOf(x[1])
              \/ x[1] \in ToSet(task_queue_') \ ToSet(task_queue_)
<1>1. ASSUME NEW x \in Due, x \notin Due', x \notin failed' \cup torn',
             x[2] \in Promise!SubscribersOf(x[1])'
      PROVE  FALSE
  <2> DEFINE t == x[1]
             u == x[2]
  <2>1. x = <<t, u>> /\ Debt(t, u)
    BY DebtsAre
  <2>2. ~Debt(t, u)'
    BY <1>1, <2>1, DebtsWillBe
  <2>3. PICK j \in 1..Len(topics_') : topics_'[j].topicName = t /\ u \in UrisOf(topics_'[j].subscribers)
    BY <1>1, SubscriberFact
  <2>4. PICK i \in 1..Len(topics_) :
          /\ topics_[i].topicName = t
          /\ u \in UrisOf(topics_[i].subscribers)
          /\ Queued(t) \/ BeingServed(i, u)
    BY <2>1 DEF Debt
  <2> HIDE DEF t, u
  <2>5. ~Queued(t)
    BY <2>2, <2>3 DEF Debt, Queued
  <2>6. BeingServed(i, u)
    BY <2>4, <2>5
  <2>7. CASE InPlace
    <3>1. j = i
      BY <2>3, <2>4, <2>7 DEF InPlace, IInv, RegistryConsistent
    <3>2. BeingServed(i, u)'
      BY <2>6, <2>7 DEF BeingServed, InPlace, Handler
    <3> QED
      BY <2>2, <2>3, <3>1, <3>2 DEF Debt
  <2>8. CASE Due \cap TornWalk \subseteq failed' \cup torn'
    <3>1. u \in Uris
      BY <2>4, EntryType, UrisOfType DEF IInv
    <3>2. <<t, u>> \in TornWalk
      BY <2>4, <2>6, <3>1, TornWalkProperties
    <3> QED
      BY <1>1, <2>1, <2>8, <3>2
  <2> QED
    BY <2>7, <2>8
<1>2. ASSUME NEW x \in Due', x[2] \in Promise!SubscribersOf(x[1]),
             x[1] \notin ToSet(task_queue_') \ ToSet(task_queue_)
      PROVE  x \in Due
  <2> DEFINE t == x[1]
             u == x[2]
  <2>1. x = <<t, u>> /\ Debt(t, u)'
    BY DebtsWillBe
  <2>2. PICK i \in 1..Len(topics_) : topics_[i].topicName = t /\ u \in UrisOf(topics_[i].subscribers)
    BY <1>2, SubscriberFact
  <2>3. PICK j \in 1..Len(topics_') :
          /\ topics_'[j].topicName = t
          /\ Queued(t)' \/ BeingServed(j, u)'
    BY <2>1 DEF Debt
  <2>9. Queued(t)' => Queued(t)
    BY <1>2 DEF Queued
  <2> HIDE DEF t, u
  <2>4. CASE Queued(t)'
    BY <2>1, <2>2, <2>4, <2>9, DebtsAre DEF Debt
  <2>5. CASE BeingServed(j, u)'
    <3>1. ~(dirty' = Walking)
      BY <2>5 DEF BeingServed, Handler, Walking
    <3>2. InPlace
      BY <3>1
    <3>3. j = i
      BY <2>2, <2>3, <3>2 DEF InPlace, IInv, RegistryConsistent
    <3>4. BeingServed(i, u)
      BY <2>5, <3>2, <3>3 DEF BeingServed, InPlace, Handler
    <3> QED
      BY <2>1, <2>2, <3>4, DebtsAre DEF Debt
  <2> QED
    BY <2>3, <2>4, <2>5
<1> QED
  BY <1>1, <1>2

\* What a request can lose is about the topic of the walk.
LEMMA TornOf ==
  ASSUME IInv, NEW t \in Topics, failed' \subseteq failed, torn' \subseteq torn \cup TornWalk
  PROVE  Promise!Torn
<1>1. CASE Walking
  <2>1. task \in Topics
    BY <1>1 DEF IInv, TypeOK
  <2> QED
    BY <1>1, <2>1 DEF Promise!Torn, TornWalk
<1>2. CASE ~Walking
  BY <1>2 DEF Promise!Torn, TornWalk
<1> QED
  BY <1>1, <1>2

\* A change of a topic's publishers is owed to all its subscribers.
LEMMA PublishersChange ==
  ASSUME IInv, IInv', Handler, NEW n \in Nodes, NEW t \in Topics,
         Promise!Leave(t, "pub", n) \/ \E u \in Uris : Promise!Enter(t, "pub", n, u),
         RegistryEdit(n, t, "pub"),
         ToSet(task_queue_) \subseteq ToSet(task_queue_'),
         ToSet(task_queue_') \subseteq ToSet(task_queue_) \cup {t},
         t \in ToSet(task_queue_') \/ Promise!SubscribersOf(t) = {},
         InPlace \/ (dirty' = Walking /\ TornWalk \subseteq torn'),
         UNCHANGED <<told, failed>>,
         torn \subseteq torn', torn' \subseteq torn \cup TornWalk
  PROVE  Promise!ChangePublishers(t, n)
<1>1. \A x, v : v \in Promise!SubscribersOf(x)' <=> v \in Promise!SubscribersOf(x)
  <2> TAKE x, v
  <2>1. TypeOK /\ "pub" \in Roles /\ "sub" \in Roles
    BY DEF IInv, Roles
  <2>2. \A y : Fact(x, "sub", y)' <=> Fact(x, "sub", y)
    BY <2>1, OthersStay
  <2> QED
    BY <2>1, <2>2, OfIs DEF Promise!SubscribersOf
<1>2. /\ \A x \in Due \ Due' :
           x \in failed' \cup torn' \/ x[2] \notin Promise!SubscribersOf(x[1])'
      /\ \A x \in Due' :
           \/ x \in Due
           \/ x[2] \notin Promise!SubscribersOf(x[1])
           \/ x[1] \in ToSet(task_queue_') \ ToSet(task_queue_)
  BY HandlerDue
<1>3. ASSUME NEW v \in Promise!SubscribersOf(t), <<t, v>> \notin Due'
      PROVE  v \notin Promise!SubscribersOf(t)'
  <2>1. Queued(t)'
    BY DEF Queued
  <2>2. ~Debt(t, v)'
    BY <1>3, DebtsWillBe
  <2> QED
    BY <2>1, <2>2, SubscriberFact DEF Debt
<1>4. ASSUME NEW x \in Due', x \notin Due
      PROVE  x \in {t} \X Promise!SubscribersOf(t)
  <2>1. x = <<x[1], x[2]>> /\ Debt(x[1], x[2])'
    BY <1>4, DebtsWillBe
  <2>2. x[2] \in Promise!SubscribersOf(x[1])'
    BY <2>1, SubscriberFact DEF Debt
  <2>3. x[2] \in Promise!SubscribersOf(x[1]) /\ x[1] = t
    BY <1>1, <1>2, <1>4, <2>2
  <2> QED
    BY <2>1, <2>3
<1>5. Promise!Owed(Due \cup ({t} \X Promise!SubscribersOf(t)))
  <2> SUFFICES ASSUME NEW x \in (Due \cup ({t} \X Promise!SubscribersOf(t))) \ Due'
               PROVE  x \in failed' \cup torn' \/ x[2] \notin Promise!SubscribersOf(x[1])'
    BY DEF Promise!Owed
  <2>1. CASE x \in Due
    BY <1>2, <2>1
  <2>2. CASE x \in {t} \X Promise!SubscribersOf(t)
    BY <1>3, <2>2
  <2> QED
    BY <2>1, <2>2
<1>6. Due' \subseteq Due \cup ({t} \X Promise!SubscribersOf(t))
  BY <1>4
<1>7. Promise!Torn
  BY TornOf
<1>8. failed \cup torn \subseteq failed' \cup torn'
  OBVIOUS
<1> QED
  BY <1>5, <1>6, <1>7, <1>8 DEF Promise!ChangePublishers

\* registerPublisher.
LEMMA RegisterPublisherPromise ==
  ASSUME IInv, IInv', Handler, NEW n \in Nodes, NEW t \in Topics, NEW u \in Uris,
         NEW type \in Types \ {AnyType}, RegisterPublisher(n, t, type, u)
  PROVE  Promise!ChangePublishers(t, n)
<1> USE DEF Roles
<1>1. TypeOK /\ RegistryConsistent /\ RegistryConsistent' /\ RegistryEdit(n, t, "pub")
  BY RegisterPublisherEdit DEF IInv
<1>2. ASSUME NEW i \in FirstEntry(t),
             UpdateTopic(i, [topics_[i] EXCEPT
               !.topicTypeName = PublishedType(@, type),
               !.publishers = Upsert(@, NodeInfo(n, u))]),
             QueueUpdate(t)
      PROVE  Promise!ChangePublishers(t, n)
  <2> DEFINE list == Upsert(topics_[i].publishers, NodeInfo(n, u))
             given == PublishedType(topics_[i].topicTypeName, type)
             entry == [topics_[i] EXCEPT !.topicTypeName = given, !.publishers = list]
  <2>1. i \in 1..Len(topics_) /\ topics_[i].topicName = t /\ topics_[i] \in SystemTopicsInfo
    BY <1>1, FirstEntryProperties, EntryType
  <2>2. topics_' = [topics_ EXCEPT ![i] = entry] /\ dirty' = dirty /\ torn' = torn
    BY <1>2 DEF UpdateTopic
  <2>3. entry.topicName = t /\ entry.publishers = list
    BY <2>1 DEF SystemTopicsInfo
  <2> HIDE DEF entry, list, given
  <2>4. /\ Len(topics_') = Len(topics_)
        /\ \A j \in 1..Len(topics_) : topics_'[j] = IF j = i THEN entry ELSE topics_[j]
    BY <1>1, <2>1, <2>2 DEF TypeOK
  <2>5. InPlace
    BY <2>1, <2>2, <2>3, <2>4 DEF InPlace
  <2>6. Promise!Enter(t, "pub", n, u)
    <3>1. i \in 1..Len(topics_') /\ topics_'[i].topicName = t
      BY <2>1, <2>3, <2>4
    <3>2. ListOf(topics_'[i], "pub") = Upsert(topics_[i].publishers, NodeInfo(n, u))
      BY <2>1, <2>3, <2>4 DEF ListOf, list
    <3> QED
      BY <1>1, <3>1, <3>2, EntersFact
  <2>7. ToSet(task_queue_') = ToSet(task_queue_) \cup {t}
    BY <1>1, <1>2, QueueUpdateProperties
  <2>8. UNCHANGED <<told, failed>>
    BY DEF RegisterPublisher
  <2> QED
    BY <1>1, <2>2, <2>5, <2>6, <2>7, <2>8, PublishersChange
<1>3. ASSUME FirstEntry(t) = {},
             AddTopic([topicName |-> t, topicTypeName |-> type,
                       publishers |-> {NodeInfo(n, u)}, subscribers |-> {}]),
             UNCHANGED task_queue_
      PROVE  Promise!ChangePublishers(t, n)
  <2> DEFINE entry == [topicName |-> t, topicTypeName |-> type,
                       publishers |-> {NodeInfo(n, u)}, subscribers |-> {}]
  <2>1. topics_' = Append(topics_, entry) /\ dirty' = Walking /\ torn' = torn \cup TornWalk
    BY <1>3 DEF AddTopic
  <2>2. entry.topicName = t /\ entry.publishers = Upsert({}, NodeInfo(n, u))
    BY DEF Upsert
  <2>3. entry \in SystemTopicsInfo
    BY SingletonList DEF SystemTopicsInfo
  <2> HIDE DEF entry
  <2>4. Len(topics_') = Len(topics_) + 1 /\ topics_'[Len(topics_) + 1] = entry /\ Len(topics_) \in Nat
    BY <1>1, <2>1, <2>3, AppendProperties DEF TypeOK
  <2>5. Promise!Enter(t, "pub", n, u)
    <3>1. Len(topics_) + 1 \in 1..Len(topics_') /\ topics_'[Len(topics_) + 1].topicName = t
      BY <2>2, <2>4
    <3>2. ListOf(topics_'[Len(topics_) + 1], "pub") = Upsert({}, NodeInfo(n, u))
      BY <2>2, <2>4 DEF ListOf
    <3> QED
      BY <1>1, <3>1, <3>2, EntersFact
  <2>6. Promise!SubscribersOf(t) = {}
    BY <1>1, <1>3, FirstEntryProperties, PublishersAre
  <2>7. UNCHANGED <<told, failed>>
    BY DEF RegisterPublisher
  <2> QED
    BY <1>1, <1>3, <2>1, <2>5, <2>6, <2>7, PublishersChange
<1> QED
  BY <1>2, <1>3 DEF RegisterPublisher

\* Nothing that the promise is about changes when nothing changes.
LEMMA NothingPromise ==
  ASSUME UNCHANGED vars
  PROVE  UNCHANGED Promise!promise
<1>1. Registrations' = Registrations
  BY DEF Registrations, vars
<1>2. Due' = Due
  BY DEF Due, Queued, BeingServed, vars, spinVars
<1> QED
  BY <1>1, <1>2 DEF Promise!promise, vars, history

\* An entry that lost a node: what is left of it is all that is known of its topic.
LEMMA ShrinkFacts ==
  ASSUME IInv, NEW t \in Topics, NEW i \in 1..Len(topics_), topics_[i].topicName = t,
         NEW entry \in SystemTopicsInfo, entry.topicName = t, ShrinkTopic(i, entry)
  PROVE  /\ \A role \in Roles : \A x : Fact(t, role, x)' => x \in ListOf(entry, role)
         /\ \/ InPlace /\ torn' = torn
            \/ dirty' = Walking /\ torn' = torn \cup TornWalk
<1>1. topics_ \in Seq(SystemTopicsInfo) /\ RegistryConsistent
  BY DEF IInv, TypeOK
<1>2. CASE Abandoned(entry) /\ RemoveTopic(i)
  <2>1. topics_' = RemoveAt(topics_, i) /\ dirty' = Walking /\ torn' = torn \cup TornWalk
    BY <1>2 DEF RemoveTopic
  <2>2. /\ Len(topics_') = Len(topics_) - 1
        /\ \A j \in 1..(Len(topics_) - 1) :
             topics_'[j] = IF j < i THEN topics_[j] ELSE topics_[j + 1]
    BY <1>1, <2>1, RemoveAtProperties
  <2>3. ASSUME NEW j \in 1..Len(topics_')
        PROVE  topics_'[j].topicName # t
    <3>1. PICK k \in 1..Len(topics_) : k # i /\ topics_'[j] = topics_[k]
      <4>1. CASE j < i
        BY <1>1, <2>2, <4>1
      <4>2. CASE ~(j < i)
        BY <1>1, <2>2, <4>2
      <4> QED
        BY <4>1, <4>2
    <3> QED
      BY <1>1, <3>1 DEF RegistryConsistent
  <2>4. \A role \in Roles : \A x : ~Fact(t, role, x)'
    BY <2>3 DEF Fact
  <2> QED
    BY <2>1, <2>4
<1>3. CASE ~Abandoned(entry) /\ UpdateTopic(i, entry)
  <2>1. topics_' = [topics_ EXCEPT ![i] = entry] /\ dirty' = dirty /\ torn' = torn
    BY <1>3 DEF UpdateTopic
  <2>2. /\ Len(topics_') = Len(topics_)
        /\ \A j \in 1..Len(topics_) : topics_'[j] = IF j = i THEN entry ELSE topics_[j]
    BY <1>1, <2>1
  <2>3. InPlace
    BY <2>1, <2>2 DEF InPlace
  <2>4. \A j \in 1..Len(topics_') : topics_'[j].topicName = t => j = i
    BY <1>1, <2>2 DEF RegistryConsistent
  <2>5. \A role \in Roles : \A x : Fact(t, role, x)' => x \in ListOf(entry, role)
    BY <2>2, <2>4 DEF Fact
  <2> QED
    BY <2>1, <2>3, <2>5
<1> QED
  BY <1>2, <1>3 DEF ShrinkTopic

\* An entry that lost nobody stays as it is.
LEMMA ShrinkNothing ==
  ASSUME IInv, NEW i \in 1..Len(topics_), ShrinkTopic(i, topics_[i])
  PROVE  UNCHANGED <<topics_, dirty, torn>>
<1>1. ~Abandoned(topics_[i])
  BY DEF IInv, RegistryConsistent, Abandoned
<1>2. topics_ \in Seq(SystemTopicsInfo)
  BY DEF IInv, TypeOK
<1>3. [topics_ EXCEPT ![i] = topics_[i]] = topics_
  BY <1>2
<1> QED
  BY <1>1, <1>3 DEF ShrinkTopic, UpdateTopic

\* A node that leaves a list it is in.
LEMMA LeavesPromise ==
  ASSUME IInv, NEW n \in Nodes, NEW t \in Topics, NEW role \in Roles,
         RegistryEdit(n, t, role),
         NEW i \in 1..Len(topics_), topics_[i].topicName = t,
         Erase(ListOf(topics_[i], role), n) # ListOf(topics_[i], role),
         \A x : Fact(t, role, x)' => x \in Erase(ListOf(topics_[i], role), n)
  PROVE  Promise!Leave(t, role, n)
<1>1. Registrations' = Promise!Others(t, role, n)
  BY LeavesFact DEF IInv, Erase
<1>2. PICK x \in ListOf(topics_[i], role) : x.nodeName = n
  BY DEF Erase
<1>3. <<t, role, x>> \in Registrations
  BY <1>2, FactsAre DEF Fact
<1> DEFINE r == <<t, role, x>>
<1>4. r[1] = t /\ r[2] = role /\ r[3] = x
  OBVIOUS
<1> HIDE DEF r
<1>5. r \notin Promise!Others(t, role, n)
  BY <1>2, <1>4 DEF Promise!Others
<1>6. r \in Registrations
  BY <1>3 DEF r
<1> QED
  BY <1>1, <1>5, <1>6 DEF Promise!Leave

\* unregisterPublisher.
LEMMA UnregisterPublisherPromise ==
  ASSUME IInv, IInv', Handler, NEW n \in Nodes, NEW t \in Topics, UnregisterPublisher(n, t)
  PROVE  Promise!ChangePublishers(t, n) \/ UNCHANGED Promise!promise
<1>1. TypeOK /\ RegistryEdit(n, t, "pub")
  BY UnregisterEdit DEF IInv
<1>2. ASSUME NEW i \in FirstEntry(t),
             LET rest == Erase(topics_[i].publishers, n)
             IN /\ IF rest = topics_[i].publishers
                   THEN UNCHANGED task_queue_
                   ELSE QueueUpdate(t)
                /\ ShrinkTopic(i, [topics_[i] EXCEPT !.publishers = rest])
      PROVE  Promise!ChangePublishers(t, n) \/ UNCHANGED Promise!promise
  <2> DEFINE rest == Erase(topics_[i].publishers, n)
             entry == [topics_[i] EXCEPT !.publishers = rest]
  <2>1. /\ i \in 1..Len(topics_) /\ topics_[i].topicName = t
        /\ topics_[i] \in SystemTopicsInfo /\ topics_[i].publishers \in SUBSET SystemNodeInfo
    BY <1>1, FirstEntryProperties, EntryType
  <2>2. ShrinkTopic(i, entry)
    BY <1>2
  <2>3. rest \in SUBSET SystemNodeInfo
    BY <2>1, EraseProperties
  <2>4. rest = topics_[i].publishers => entry = topics_[i]
    BY <2>1 DEF SystemTopicsInfo
  <2>5. \/ rest = topics_[i].publishers /\ UNCHANGED task_queue_
        \/ rest # topics_[i].publishers /\ QueueUpdate(t)
    BY <1>2
  <2>6. UNCHANGED <<told, failed>>
    BY DEF UnregisterPublisher
  <2>7. /\ rest = Erase(ListOf(topics_[i], "pub"), n)
        /\ topics_[i].publishers = ListOf(topics_[i], "pub")
    BY DEF ListOf
  <2> HIDE DEF rest
  <2>8. entry \in SystemTopicsInfo /\ entry.topicName = t /\ entry.publishers = rest
    BY <2>1, <2>3 DEF SystemTopicsInfo
  <2> HIDE DEF entry
  <2>9. CASE rest = topics_[i].publishers
    <3>1. UNCHANGED <<topics_, dirty, torn>>
      BY <2>1, <2>2, <2>4, <2>9, ShrinkNothing
    <3>2. UNCHANGED vars
      BY <2>5, <2>6, <2>9, <3>1 DEF vars, spinVars, history, Handler
    <3> QED
      BY <3>2, NothingPromise
  <2>10. CASE rest # topics_[i].publishers
    <3>1. /\ \A x : Fact(t, "pub", x)' => x \in ListOf(entry, "pub")
          /\ \/ InPlace /\ torn' = torn
             \/ dirty' = Walking /\ torn' = torn \cup TornWalk
      BY <2>1, <2>2, <2>8, ShrinkFacts DEF Roles
    <3>2. \A x : Fact(t, "pub", x)' => x \in Erase(ListOf(topics_[i], "pub"), n)
      BY <2>7, <2>8, <3>1 DEF ListOf
    <3>3. Promise!Leave(t, "pub", n)
      BY <1>1, <2>1, <2>7, <2>10, <3>2, LeavesPromise DEF Roles
    <3>4. ToSet(task_queue_') = ToSet(task_queue_) \cup {t}
      BY <1>1, <2>5, <2>10, QueueUpdateProperties
    <3>5. /\ InPlace \/ (dirty' = Walking /\ TornWalk \subseteq torn')
          /\ torn \subseteq torn' /\ torn' \subseteq torn \cup TornWalk
      BY <3>1
    <3>6. Promise!ChangePublishers(t, n)
      BY <1>1, <2>6, <3>3, <3>4, <3>5, PublishersChange
    <3> QED
      BY <3>6
  <2> QED
    BY <2>9, <2>10
<1>3. CASE FirstEntry(t) = {} /\ UNCHANGED <<topics_, task_queue_, dirty, torn>>
  <2>1. UNCHANGED vars
    BY <1>3 DEF UnregisterPublisher, vars, spinVars, history, Handler
  <2> QED
    BY <2>1, NothingPromise
<1> QED
  BY <1>2, <1>3 DEF UnregisterPublisher

\* unregisterSubscriber.
LEMMA UnregisterSubscriberPromise ==
  ASSUME IInv, IInv', Handler, NEW n \in Nodes, NEW t \in Topics, UnregisterSubscriber(n, t)
  PROVE  Promise!Unsubscribe(t, n) \/ UNCHANGED Promise!promise
<1>1. TypeOK /\ RegistryEdit(n, t, "sub") /\ UNCHANGED <<task_queue_, told, failed>>
  BY UnregisterEdit DEF IInv, UnregisterSubscriber
<1>2. ASSUME NEW i \in FirstEntry(t),
             ShrinkTopic(i, [topics_[i] EXCEPT !.subscribers = Erase(@, n)])
      PROVE  Promise!Unsubscribe(t, n) \/ UNCHANGED Promise!promise
  <2> DEFINE rest == Erase(topics_[i].subscribers, n)
             entry == [topics_[i] EXCEPT !.subscribers = rest]
  <2>1. /\ i \in 1..Len(topics_) /\ topics_[i].topicName = t
        /\ topics_[i] \in SystemTopicsInfo /\ topics_[i].subscribers \in SUBSET SystemNodeInfo
    BY <1>1, FirstEntryProperties, EntryType
  <2>2. ShrinkTopic(i, entry)
    BY <1>2
  <2>3. rest \in SUBSET SystemNodeInfo
    BY <2>1, EraseProperties
  <2>4. rest = topics_[i].subscribers => entry = topics_[i]
    BY <2>1 DEF SystemTopicsInfo
  <2>5. /\ rest = Erase(ListOf(topics_[i], "sub"), n)
        /\ topics_[i].subscribers = ListOf(topics_[i], "sub")
    BY DEF ListOf
  <2> HIDE DEF rest
  <2>6. entry \in SystemTopicsInfo /\ entry.topicName = t /\ entry.subscribers = rest
    BY <2>1, <2>3 DEF SystemTopicsInfo
  <2> HIDE DEF entry
  <2>7. CASE rest = topics_[i].subscribers
    <3>1. UNCHANGED <<topics_, dirty, torn>>
      BY <2>1, <2>2, <2>4, <2>7, ShrinkNothing
    <3>2. UNCHANGED vars
      BY <1>1, <3>1 DEF vars, spinVars, history, Handler
    <3> QED
      BY <3>2, NothingPromise
  <2>8. CASE rest # topics_[i].subscribers
    <3>1. /\ \A x : Fact(t, "sub", x)' => x \in ListOf(entry, "sub")
          /\ \/ InPlace /\ torn' = torn
             \/ dirty' = Walking /\ torn' = torn \cup TornWalk
      BY <2>1, <2>2, <2>6, ShrinkFacts DEF Roles
    <3>2. \A x : Fact(t, "sub", x)' => x \in Erase(ListOf(topics_[i], "sub"), n)
      BY <2>5, <2>6, <3>1 DEF ListOf
    <3>3. Promise!Leave(t, "sub", n)
      BY <1>1, <2>1, <2>5, <2>8, <3>2, LeavesPromise DEF Roles
    <3>4. \A x : Promise!SubscribersOf(x)' \subseteq Promise!SubscribersOf(x)
      <4>1. Registrations' \subseteq Registrations
        BY <3>3 DEF Promise!Leave, Promise!Others
      <4> QED
        BY <4>1 DEF Promise!SubscribersOf, Promise!Of
    <3>5. /\ \A x \in Due \ Due' :
               x \in failed' \cup torn' \/ x[2] \notin Promise!SubscribersOf(x[1])'
          /\ \A x \in Due' :
               \/ x \in Due
               \/ x[2] \notin Promise!SubscribersOf(x[1])
               \/ x[1] \in ToSet(task_queue_') \ ToSet(task_queue_)
      <4>1. \/ InPlace
            \/ dirty' = Walking /\ Due \cap TornWalk \subseteq failed' \cup torn'
        BY <3>1
      <4>2. ToSet(task_queue_) \subseteq ToSet(task_queue_')
        BY <1>1
      <4> QED
        BY <4>1, <4>2, HandlerDue
    <3>6. ASSUME NEW x \in Due'
          PROVE  x \in Due
      <4>1. x = <<x[1], x[2]>> /\ Debt(x[1], x[2])'
        BY DebtsWillBe
      <4>2. x[2] \in Promise!SubscribersOf(x[1])'
        BY <4>1, SubscriberFact DEF Debt
      <4> QED
        BY <1>1, <3>4, <3>5, <4>2
    <3>7. Promise!Owed(Due)
      BY <3>5 DEF Promise!Owed
    <3>8. failed \cup torn \subseteq failed' \cup torn' /\ Promise!Torn
      <4>1. failed' \subseteq failed /\ torn' \subseteq torn \cup TornWalk /\ torn \subseteq torn'
        BY <1>1, <3>1
      <4> QED
        BY <1>1, <4>1, TornOf
    <3> QED
      BY <1>1, <3>3, <3>6, <3>7, <3>8 DEF Promise!Unsubscribe
  <2> QED
    BY <2>7, <2>8
<1>3. CASE FirstEntry(t) = {} /\ UNCHANGED <<topics_, dirty, torn>>
  <2>1. UNCHANGED vars
    BY <1>1, <1>3 DEF vars, spinVars, history, Handler
  <2> QED
    BY <2>1, NothingPromise
<1> QED
  BY <1>2, <1>3 DEF UnregisterSubscriber

\* A subscriber that was told who publishes, and lost nothing but what it is owed no more.
LEMMA SubscribePromise ==
  ASSUME IInv, IInv', Handler, NEW n \in Nodes, NEW t \in Topics, NEW u \in Uris,
         Promise!Enter(t, "sub", n, u),
         told' = [told EXCEPT ![t][u] = Promise!PublishersOf(t)],
         UNCHANGED task_queue_,
         InPlace \/ (dirty' = Walking /\ Due \cap TornWalk \subseteq failed' \cup torn'),
         failed' = failed \ {<<t, u>>},
         torn \ {<<t, u>>} \subseteq torn',
         torn' \subseteq (torn \cup TornWalk) \ {<<t, u>>}
  PROVE  Promise!Subscribe(t, n, u)
<1>1. ASSUME NEW x, NEW v \in Promise!SubscribersOf(x)', v \notin Promise!SubscribersOf(x)
      PROVE  x = t /\ v = u
  <2>1. PICK r \in Registrations' : r[1] = x /\ r[2] = "sub" /\ v = r[3].nodeUri
    BY <1>1 DEF Promise!SubscribersOf, Promise!Of
  <2>2. r \notin Registrations
    BY <1>1, <2>1 DEF Promise!SubscribersOf, Promise!Of
  <2>3. r = <<t, "sub", [nodeName |-> n, nodeUri |-> u]>>
    BY <2>1, <2>2 DEF Promise!Enter, Promise!Others
  <2> QED
    BY <2>1, <2>3
<1>2. /\ \A x \in Due \ Due' :
           x \in failed' \cup torn' \/ x[2] \notin Promise!SubscribersOf(x[1])'
      /\ \A x \in Due' :
           \/ x \in Due
           \/ x[2] \notin Promise!SubscribersOf(x[1])
           \/ x[1] \in ToSet(task_queue_') \ ToSet(task_queue_)
  <2>1. ToSet(task_queue_) \subseteq ToSet(task_queue_')
    OBVIOUS
  <2> QED
    BY <2>1, HandlerDue
<1>3. ASSUME NEW x \in Due', x \notin Due
      PROVE  x = <<t, u>>
  <2>1. x = <<x[1], x[2]>> /\ Debt(x[1], x[2])'
    BY DebtsWillBe
  <2>2. x[2] \in Promise!SubscribersOf(x[1])'
    BY <2>1, SubscriberFact DEF Debt
  <2>3. x[2] \notin Promise!SubscribersOf(x[1])
    BY <1>2, <1>3
  <2> QED
    BY <1>1, <2>1, <2>2, <2>3
<1>4. Promise!Owed(Due)
  BY <1>2 DEF Promise!Owed
<1>5. Due' \subseteq Due \cup {<<t, u>>}
  BY <1>3
<1>6. Promise!Torn
  BY TornOf
<1>7. /\ (failed \cup torn) \ {<<t, u>>} \subseteq failed' \cup torn'
      /\ <<t, u>> \notin failed' \cup torn'
  OBVIOUS
<1> QED
  BY <1>4, <1>5, <1>6, <1>7 DEF Promise!Subscribe

\* registerSubscriber.
LEMMA RegisterSubscriberPromise ==
  ASSUME IInv, IInv', Handler, NEW n \in Nodes, NEW t \in Topics, NEW u \in Uris,
         NEW type \in Types, RegisterSubscriber(n, t, type, u)
  PROVE  Promise!Subscribe(t, n, u)
<1>1. /\ TypeOK /\ RegistryConsistent /\ RegistryConsistent' /\ RegistryEdit(n, t, "sub")
      /\ failed' = failed \ {<<t, u>>} /\ UNCHANGED task_queue_
  BY RegisterSubscriberEdit DEF IInv, RegisterSubscriber
<1>2. ASSUME NEW i \in FirstEntry(t),
             topics_' = [topics_ EXCEPT ![i].subscribers = Upsert(@, NodeInfo(n, u))],
             told' = [told EXCEPT ![t][u] = UrisOf(topics_[i].publishers)],
             torn' = torn \ {<<t, u>>}, UNCHANGED dirty
      PROVE  Promise!Subscribe(t, n, u)
  <2> DEFINE list == Upsert(topics_[i].subscribers, NodeInfo(n, u))
             entry == [topics_[i] EXCEPT !.subscribers = list]
  <2>1. i \in 1..Len(topics_) /\ topics_[i].topicName = t /\ topics_[i] \in SystemTopicsInfo
    BY <1>1, FirstEntryProperties, EntryType
  <2>2. topics_' = [topics_ EXCEPT ![i] = entry]
    BY <1>1, <1>2, <2>1 DEF TypeOK
  <2>3. entry.topicName = t /\ entry.subscribers = list
    BY <2>1 DEF SystemTopicsInfo
  <2> HIDE DEF entry, list
  <2>4. /\ Len(topics_') = Len(topics_)
        /\ \A j \in 1..Len(topics_) : topics_'[j] = IF j = i THEN entry ELSE topics_[j]
    BY <1>1, <2>1, <2>2 DEF TypeOK
  <2>5. InPlace
    BY <1>2, <2>1, <2>3, <2>4 DEF InPlace
  <2>6. Promise!Enter(t, "sub", n, u)
    <3>1. i \in 1..Len(topics_') /\ topics_'[i].topicName = t
      BY <2>1, <2>3, <2>4
    <3>2. ListOf(topics_'[i], "sub") = Upsert(topics_[i].subscribers, NodeInfo(n, u))
      BY <2>1, <2>3, <2>4 DEF ListOf, list
    <3> QED
      BY <1>1, <3>1, <3>2, EntersFact DEF Roles
  <2>7. told' = [told EXCEPT ![t][u] = Promise!PublishersOf(t)]
    BY <1>1, <1>2, <2>1, PublishersAre
  <2> QED
    BY <1>1, <1>2, <2>5, <2>6, <2>7, SubscribePromise
<1>3. ASSUME FirstEntry(t) = {},
             topics_' = Append(topics_,
               [topicName |-> t, topicTypeName |-> type,
                publishers |-> {}, subscribers |-> {NodeInfo(n, u)}]),
             told' = [told EXCEPT ![t][u] = {}],
             torn' = (torn \cup TornWalk) \ {<<t, u>>}, dirty' = Walking
      PROVE  Promise!Subscribe(t, n, u)
  <2> DEFINE entry == [topicName |-> t, topicTypeName |-> type,
                       publishers |-> {}, subscribers |-> {NodeInfo(n, u)}]
  <2>1. topics_' = Append(topics_, entry)
    BY <1>3
  <2>2. entry.topicName = t /\ entry.subscribers = Upsert({}, NodeInfo(n, u))
    BY DEF Upsert
  <2>3. entry \in SystemTopicsInfo
    BY SingletonList DEF SystemTopicsInfo
  <2> HIDE DEF entry
  <2>4. Len(topics_') = Len(topics_) + 1 /\ topics_'[Len(topics_) + 1] = entry /\ Len(topics_) \in Nat
    BY <1>1, <2>1, <2>3, AppendProperties DEF TypeOK
  <2>5. Promise!Enter(t, "sub", n, u)
    <3>1. Len(topics_) + 1 \in 1..Len(topics_') /\ topics_'[Len(topics_) + 1].topicName = t
      BY <2>2, <2>4
    <3>2. ListOf(topics_'[Len(topics_) + 1], "sub") = Upsert({}, NodeInfo(n, u))
      BY <2>2, <2>4 DEF ListOf
    <3> QED
      BY <1>1, <3>1, <3>2, EntersFact DEF Roles
  <2>6. \A i \in 1..Len(topics_) : topics_[i].topicName # t
    BY <1>1, <1>3, FirstEntryProperties
  <2>7. told' = [told EXCEPT ![t][u] = Promise!PublishersOf(t)]
    BY <1>1, <1>3, <2>6, PublishersAre
  <2>8. ASSUME NEW x \in Due \cap TornWalk
        PROVE  x \in failed' \cup torn'
    <3>1. x = <<x[1], x[2]>> /\ Debt(x[1], x[2])
      BY DebtsAre
    <3>2. x # <<t, u>>
      BY <2>6, <3>1 DEF Debt
    <3> QED
      BY <1>3, <3>2
  <2>9. dirty' = Walking /\ Due \cap TornWalk \subseteq failed' \cup torn'
    BY <1>3, <2>8
  <2>10. torn \ {<<t, u>>} \subseteq torn' /\ torn' \subseteq (torn \cup TornWalk) \ {<<t, u>>}
    BY <1>3
  <2> QED
    BY <1>1, <2>5, <2>7, <2>9, <2>10, SubscribePromise
<1> QED
  BY <1>2, <1>3 DEF RegisterSubscriber

\* The registry stays, and so does every debt.
LEMMA DueKept ==
  ASSUME UNCHANGED topics_,
         \A i \in 1..Len(topics_) : \A u \in UrisOf(topics_[i].subscribers) :
           Queued(topics_[i].topicName)' \/ BeingServed(i, u)' <=>
             Queued(topics_[i].topicName) \/ BeingServed(i, u),
         UNCHANGED history
  PROVE  UNCHANGED Promise!promise
<1>1. Registrations' = Registrations
  BY DEF Registrations
<1>2. \A t, u : Debt(t, u)' <=> Debt(t, u)
  BY DEF Debt
<1>3. Due' \subseteq Due
  BY <1>2, DebtsAre, DebtsWillBe
<1>4. Due \subseteq Due'
  BY <1>2, DebtsAre, DebtsWillBe
<1> QED
  BY <1>1, <1>3, <1>4 DEF Promise!promise, history

\* The steps of the spin thread that make no call.
LEMMA WalkPromise ==
  ASSUME IInv, PopTask \/ VisitSlot \/ VisitMovedSlot \/ Crash \/ EndCalls \/ EndTask
  PROVE  UNCHANGED Promise!promise
<1>1. UNCHANGED <<topics_, history>>
  BY DEF PopTask, VisitSlot, VisitMovedSlot, Crash, EndCalls, EndTask
<1> SUFFICES ASSUME NEW i \in 1..Len(topics_), NEW u \in UrisOf(topics_[i].subscribers)
             PROVE  Queued(topics_[i].topicName)' \/ BeingServed(i, u)' <=>
                      Queued(topics_[i].topicName) \/ BeingServed(i, u)
  BY <1>1, DueKept
<1>2. /\ WalkPosition /\ SentListIsFollowedUp /\ Len(topics_) \in Nat /\ Len(seen) \in Nat
      /\ slot \in Nat
  BY DEF IInv, TypeOK
<1>3. \A j, k \in 1..Len(topics_) : topics_[j].topicName = topics_[k].topicName => j = k
  BY DEF IInv, RegistryConsistent
<1>4. CASE PopTask
  <2>1. /\ ToSet(task_queue_) = ToSet(Tail(task_queue_)) \cup {Head(task_queue_)}
        /\ task_queue_' = Tail(task_queue_) /\ task' = Head(task_queue_)
        /\ pc = "idle" /\ pc' = "walk" /\ slot' = 1 /\ dirty' = dirty
    BY <1>4, TailQueued DEF PopTask, IInv, TypeOK
  <2>2. ~dirty
    BY <1>2, <2>1 DEF WalkPosition
  <2>3. ~BeingServed(i, u)
    BY <2>1 DEF BeingServed
  <2>4. BeingServed(i, u)' <=> topics_[i].topicName = Head(task_queue_)
    BY <1>1, <2>1, <2>2 DEF BeingServed
  <2> QED
    BY <1>1, <2>1, <2>3, <2>4 DEF Queued
<1>5. ASSUME task_queue_' = task_queue_, BeingServed(i, u)' <=> BeingServed(i, u)
      PROVE  Queued(topics_[i].topicName)' \/ BeingServed(i, u)' <=>
               Queued(topics_[i].topicName) \/ BeingServed(i, u)
  BY <1>1, <1>5 DEF Queued
<1>6. CASE VisitSlot
  <2>1. pc = "walk" /\ slot <= Len(seen) /\ UNCHANGED <<task_queue_, task, dirty>>
    BY <1>6 DEF VisitSlot
  <2>2. CASE dirty
    BY <1>5, <2>1, <2>2 DEF BeingServed
  <2>3. CASE ~dirty
    <3>1. slot \in 1..Len(topics_) /\ Readable = {topics_[slot]}
      BY <2>1, <2>3, CleanVisit
    <3>2. CASE topics_[slot].topicName = task
      <4>1. pc' = "call" /\ todo' = UrisOf(topics_[slot].subscribers)
        BY <1>6, <3>1, <3>2 DEF VisitSlot
      <4>2. topics_[i].topicName = task <=> i = slot
        BY <1>3, <3>1, <3>2
      <4> QED
        BY <1>1, <1>2, <1>5, <2>1, <2>3, <3>1, <4>1, <4>2 DEF BeingServed
    <3>3. CASE topics_[slot].topicName # task
      <4>1. pc' = "walk" /\ slot' = slot + 1
        BY <1>6, <2>1, <3>1, <3>3 DEF VisitSlot
      <4>2. topics_[i].topicName = task => i # slot
        BY <3>3
      <4> QED
        BY <1>1, <1>2, <1>5, <2>1, <2>3, <4>1, <4>2 DEF BeingServed
    <3> QED
      BY <3>2, <3>3
  <2> QED
    BY <2>2, <2>3
<1>7. CASE VisitMovedSlot \/ Crash
  <2>1. dirty /\ dirty' = dirty /\ task_queue_' = task_queue_
    BY <1>7 DEF VisitMovedSlot, Crash
  <2> QED
    BY <1>5, <2>1 DEF BeingServed
<1>8. CASE EndCalls
  <2>1. /\ pc = "call" /\ todo = {} /\ pc' = "walk" /\ slot' = slot + 1
        /\ UNCHANGED <<task_queue_, task, dirty>>
    BY <1>8 DEF EndCalls
  <2>2. ~BeingServed(i, u)
    BY <2>1 DEF BeingServed
  <2>3. ~BeingServed(i, u)'
    <3> SUFFICES ASSUME ~dirty, task = topics_[i].topicName
                 PROVE  ~(slot + 1 <= i)
      BY <1>1, <2>1 DEF BeingServed
    <3>1. i = slot
      BY <1>2, <1>3, <2>1 DEF SentListIsFollowedUp
    <3> QED
      BY <1>2, <3>1
  <2> QED
    BY <1>5, <2>1, <2>2, <2>3
<1>9. CASE EndTask
  <2>1. pc = "walk" /\ slot > Len(seen) /\ pc' = "idle" /\ task_queue_' = task_queue_
    BY <1>9 DEF EndTask
  <2>2. ~BeingServed(i, u)
    BY <1>2, <2>1 DEF BeingServed, WalkPosition, Walking
  <2>3. ~BeingServed(i, u)'
    BY <2>1 DEF BeingServed
  <2> QED
    BY <1>5, <2>1, <2>2, <2>3
<1> QED
  BY <1>4, <1>6, <1>7, <1>8, <1>9

\* A call pays the debt to its subscriber and to no one else.
LEMMA CallDue ==
  ASSUME IInv, NEW v \in Uris, pc = "call", UNCHANGED <<topics_, task_queue_, pc, task, slot, dirty>>,
         todo' = todo \ {v}
  PROVE  /\ Registrations' = Registrations
         /\ \A x : Promise!SubscribersOf(x)' = Promise!SubscribersOf(x)
         /\ Due' \subseteq Due
         /\ \A x \in Due \ Due' : x = <<task, v>>
         /\ <<task, v>> \notin Due' /\ v \in Promise!SubscribersOf(task) => ~Queued(task)
<1>1. Registrations' = Registrations
  BY DEF Registrations
<1>2. \A x : Promise!SubscribersOf(x)' = Promise!SubscribersOf(x)
  BY <1>1 DEF Promise!SubscribersOf, Promise!Of
<1>3. \A t, u : Debt(t, u)' => Debt(t, u)
  BY DEF Debt, Queued, BeingServed
<1>4. \A t, u : Debt(t, u) /\ ~Debt(t, u)' => t = task /\ u = v
  BY DEF Debt, Queued, BeingServed
<1>5. Due' \subseteq Due
  BY <1>3, DebtsAre, DebtsWillBe
<1>6. ASSUME NEW x \in Due, x \notin Due'
      PROVE  x = <<task, v>>
  <2>1. x = <<x[1], x[2]>> /\ Debt(x[1], x[2])
    BY DebtsAre
  <2>2. ~Debt(x[1], x[2])'
    BY <1>6, <2>1, DebtsWillBe
  <2> QED
    BY <1>4, <2>1, <2>2
<1>7. ASSUME <<task, v>> \notin Due', v \in Promise!SubscribersOf(task)
      PROVE  ~Queued(task)
  <2>1. \A t : <<t, v>> \notin Due' => ~Debt(t, v)'
    BY DebtsWillBe
  <2>2. ~(\E i \in 1..Len(topics_) :
            topics_[i].topicName = task /\ v \in UrisOf(topics_[i].subscribers) /\ Queued(task))
    BY <1>7, <2>1 DEF Debt, Queued
  <2> QED
    BY <1>7, <2>2, SubscriberFact
<1> QED
  BY <1>1, <1>2, <1>5, <1>6, <1>7

\* A call that is answered tells a list: the publishers, or one that is followed by another.
LEMMA CallSucceedsPromise ==
  ASSUME IInv, NEW v \in Uris, CallSucceeds(v)
  PROVE  task \in Topics /\ Promise!Tell(task, v)
<1>1. /\ pc = "call" /\ task \in Topics /\ pubs \in SUBSET Uris
      /\ UNCHANGED <<topics_, task_queue_, pc, task, slot, dirty>>
      /\ todo' = todo \ {v} /\ told' = [told EXCEPT ![task][v] = pubs]
      /\ failed' = failed \ {<<task, v>>}
      /\ torn' = IF dirty THEN torn \cup {<<task, v>>} ELSE torn \ {<<task, v>>}
  BY DEF CallSucceeds, IInv, TypeOK, Walking
<1>2. /\ Registrations' = Registrations
      /\ \A x : Promise!SubscribersOf(x)' = Promise!SubscribersOf(x)
      /\ Due' \subseteq Due
      /\ \A x \in Due \ Due' : x = <<task, v>>
      /\ <<task, v>> \notin Due' /\ v \in Promise!SubscribersOf(task) => ~Queued(task)
  BY <1>1, CallDue
<1>3. ASSUME pubs # Promise!PublishersOf(task), <<task, v>> \notin Due',
             v \in Promise!SubscribersOf(task)
      PROVE  <<task, v>> \in failed' \cup torn'
  <2>1. v \in Promise!SubscribersOf(task) /\ ~Queued(task)
    BY <1>2, <1>3
  <2>2. CASE dirty
    BY <1>1, <2>2
  <2>3. CASE ~dirty
    <3>1. /\ slot \in 1..Len(topics_) /\ topics_[slot].topicName = task
          /\ pubs = UrisOf(topics_[slot].publishers)
      BY <1>1, <2>1, <2>3 DEF IInv, SentListIsFollowedUp
    <3>2. pubs = Promise!PublishersOf(task)
      BY <1>1, <3>1, PublishersAre DEF IInv
    <3> QED
      BY <1>3, <3>2
  <2> QED
    BY <2>2, <2>3
<1>4. ASSUME NEW x \in Due \cup {<<task, v>>}, x \notin Due', pubs # Promise!PublishersOf(task)
      PROVE  x \in failed' \cup torn' \/ x[2] \notin Promise!SubscribersOf(x[1])'
  <2>1. x = <<task, v>>
    BY <1>2, <1>4
  <2>2. x[1] = task /\ x[2] = v
    BY <2>1
  <2>3. Promise!SubscribersOf(x[1])' = Promise!SubscribersOf(x[1])
    BY <1>2
  <2>4. Promise!SubscribersOf(x[1]) = Promise!SubscribersOf(task)
    BY <2>2
  <2> QED
    BY <1>3, <1>4, <2>1, <2>2, <2>3, <2>4
<1>5. Promise!Owed(IF pubs = Promise!PublishersOf(task)
                   THEN Due \ {<<task, v>>} ELSE Due \cup {<<task, v>>})
  BY <1>2, <1>4 DEF Promise!Owed
<1>6. /\ (failed \cup torn) \ {<<task, v>>} \subseteq failed' \cup torn'
      /\ failed' \cup torn' \subseteq failed \cup torn \cup {<<task, v>>}
  BY <1>1
<1> QED
  BY <1>1, <1>2, <1>5, <1>6 DEF Promise!Tell

\* A call that fails.
LEMMA CallFailsPromise ==
  ASSUME IInv, NEW v \in Uris, CallFails(v)
  PROVE  task \in Topics /\ Promise!Lose(task, v)
<1>1. /\ pc = "call" /\ task \in Topics
      /\ UNCHANGED <<topics_, task_queue_, pc, task, slot, dirty, told, torn>>
      /\ todo' = todo \ {v} /\ failed' = failed \cup {<<task, v>>}
  BY DEF CallFails, IInv, TypeOK, Walking
<1>2. /\ Registrations' = Registrations
      /\ Due' \subseteq Due
      /\ \A x \in Due \ Due' : x = <<task, v>>
  BY <1>1, CallDue
<1>3. Promise!Owed(Due)
  BY <1>1, <1>2 DEF Promise!Owed
<1>4. failed' \cup torn' = failed \cup torn \cup {<<task, v>>}
  BY <1>1
<1> QED
  BY <1>1, <1>2, <1>3, <1>4 DEF Promise!Lose

\* A call that comes late is one whose failure was written down.
LEMMA LateCallPromise ==
  ASSUME IInv, NEW m \in late, LateCall(m)
  PROVE  m.topic \in Topics /\ m.uri \in Uris /\ Promise!Tell(m.topic, m.uri)
<1> DEFINE x == <<m.topic, m.uri>>
<1>1. m.topic \in Topics /\ m.uri \in Uris /\ m.pubs \in SUBSET Uris
  BY DEF IInv, TypeOK
<1>2. /\ UNCHANGED <<topics_, task_queue_, spinVars, torn>>
      /\ failed' = failed \cup {x}
      /\ told' = [told EXCEPT ![m.topic][m.uri] = m.pubs]
  BY DEF LateCall
<1>3. Registrations' = Registrations
  BY <1>2 DEF Registrations
<1>4. Due' = Due
  BY <1>2 DEF Due, Queued, BeingServed, spinVars
<1> HIDE DEF x
<1>5. \A debts : debts \subseteq Due \cup {x} => Promise!Owed(debts)
  BY <1>2, <1>4 DEF Promise!Owed
<1>6. Promise!Owed(IF m.pubs = Promise!PublishersOf(m.topic)
                   THEN Due \ {x} ELSE Due \cup {x})
  BY <1>5
<1>7. /\ (failed \cup torn) \ {x} \subseteq failed' \cup torn'
      /\ failed' \cup torn' \subseteq failed \cup torn \cup {x}
  BY <1>2
<1> QED
  BY <1>1, <1>2, <1>3, <1>4, <1>6, <1>7 DEF Promise!Tell, x

\* The empty registry owes nothing.
LEMMA InitPromise == Init => Promise!Init
<1> SUFFICES ASSUME Init PROVE Promise!Init
  OBVIOUS
<1>1. Len(topics_) = 0
  BY DEF Init
<1>2. Registrations = {} /\ Due = {}
  BY <1>1 DEF Registrations, Due
<1> QED
  BY <1>2 DEF Init, Promise!Init

\* Every step of the master is one of the promise, or one the promise does not see.
LEMMA StepPromise == IInv /\ IInv' /\ [Next]_vars => [Promise!Next]_(Promise!promise)
<1> SUFFICES ASSUME IInv, IInv', [Next]_vars
             PROVE  Promise!Next \/ UNCHANGED Promise!promise
  OBVIOUS
<1>1. ASSUME NEW n \in Nodes, NEW t \in Topics, NEW u \in Uris, Request(n, t, u)
      PROVE  Promise!Next \/ UNCHANGED Promise!promise
  <2>1. \/ Promise!ChangePublishers(t, n) \/ Promise!Unsubscribe(t, n)
        \/ Promise!Subscribe(t, n, u) \/ UNCHANGED Promise!promise
    BY <1>1, RegisterPublisherPromise, UnregisterPublisherPromise,
       RegisterSubscriberPromise, UnregisterSubscriberPromise DEF Request
  <2> QED
    BY <2>1 DEF Promise!Next
<1>2. CASE spinOnce
  <2>1. ASSUME NEW u \in Uris, CallSucceeds(u)
        PROVE  Promise!Next
    BY <2>1, CallSucceedsPromise DEF Promise!Next
  <2>2. ASSUME NEW u \in Uris, CallFails(u)
        PROVE  Promise!Next
    BY <2>2, CallFailsPromise DEF Promise!Next
  <2> QED
    BY <1>2, <2>1, <2>2, WalkPromise DEF spinOnce
<1>3. ASSUME NEW m \in late, LateCall(m)
      PROVE  Promise!Next
  BY <1>3, LateCallPromise DEF Promise!Next
<1>4. CASE UNCHANGED vars
  BY <1>4, NothingPromise
<1> QED
  BY <1>1, <1>2, <1>3, <1>4 DEF Next

\* The master keeps its promise: whatever the requests and however they meet the
\* walks, every change of a topic's publishers is owed to each of its subscribers,
\* and a debt goes only with a call that tells the current list, with the
\* subscriber, or into what is written down as lost.
THEOREM TheMasterKeepsItsPromise == Spec => KeepsItsPromise
<1>1. IInv /\ [Next]_vars => IInv'
  BY NextIInv
<1>2. IInv /\ IInv' /\ [Next]_vars => [Promise!Next]_(Promise!promise)
  BY StepPromise
<1> QED
  BY <1>1, <1>2, InitPromise, InitIInv, PTL DEF Spec, KeepsItsPromise, Promise!Spec

\* What it does to the URIs in the other lists, and in its own, when a node leaves one.
LEMMA LeaveLists ==
  ASSUME NEW t, NEW role, NEW n, Promise!Leave(t, role, n)
  PROVE  /\ \A x : \A other \in Roles : x # t \/ other # role =>
              Promise!Of(x, other)' = Promise!Of(x, other)
         /\ \A x : Promise!Of(x, role)' \subseteq Promise!Of(x, role)
<1>1. \A x : \A other \in Roles : x # t \/ other # role =>
        \A r : r[1] = x /\ r[2] = other => (r \in Registrations' <=> r \in Registrations)
  BY DEF Promise!Leave, Promise!Others
<1>2. \A x : \A other \in Roles : x # t \/ other # role =>
        Promise!Of(x, other)' = Promise!Of(x, other)
  BY <1>1 DEF Promise!Of
<1>3. \A x : Promise!Of(x, role)' \subseteq Promise!Of(x, role)
  BY DEF Promise!Leave, Promise!Others, Promise!Of
<1> QED
  BY <1>2, <1>3

\* The same when a node enters one.
LEMMA EnterLists ==
  ASSUME NEW t, NEW role, NEW n, NEW u, Promise!Enter(t, role, n, u)
  PROVE  /\ \A x : \A other \in Roles : x # t \/ other # role =>
              Promise!Of(x, other)' = Promise!Of(x, other)
         /\ \A x : Promise!Of(x, role)' \subseteq Promise!Of(x, role) \cup {u}
<1> DEFINE new == <<t, role, [nodeName |-> n, nodeUri |-> u]>>
<1>1. new[1] = t /\ new[2] = role /\ new[3].nodeUri = u
  OBVIOUS
<1>2. Registrations' = Promise!Others(t, role, n) \cup {new}
  BY DEF Promise!Enter
<1> HIDE DEF new
<1>3. \A x : \A other \in Roles : x # t \/ other # role =>
        \A r : r[1] = x /\ r[2] = other => (r \in Registrations' <=> r \in Registrations)
  BY <1>1, <1>2 DEF Promise!Others
<1>4. \A x : \A other \in Roles : x # t \/ other # role =>
        Promise!Of(x, other)' = Promise!Of(x, other)
  BY <1>3 DEF Promise!Of
<1>5. \A x : Promise!Of(x, role)' \subseteq Promise!Of(x, role) \cup {u}
  BY <1>1, <1>2 DEF Promise!Others, Promise!Of
<1> QED
  BY <1>4, <1>5

\* The types of the promise.
LEMMA PromiseTypes ==
  ASSUME Promise!TypeOK, [Promise!Next]_(Promise!promise)
  PROVE  /\ Promise!TypeOK'
         /\ \A t, role : Promise!Of(t, role) \subseteq Uris
<1>1. \A t, role : Promise!Of(t, role) \subseteq Uris
  BY DEF Promise!Of, Promise!TypeOK
<1>2. ASSUME NEW t \in Topics, NEW role \in {"pub", "sub"}, NEW n \in Nodes, NEW u \in Uris,
             Promise!Leave(t, role, n) \/ Promise!Enter(t, role, n, u)
      PROVE  Registrations' \subseteq
               Topics \X {"pub", "sub"} \X [nodeName : Nodes, nodeUri : Uris]
  BY <1>2 DEF Promise!Leave, Promise!Enter, Promise!Others, Promise!TypeOK
<1>3. ASSUME NEW t \in Topics, NEW u \in Uris, NEW list \in SUBSET Uris,
             told' = [told EXCEPT ![t][u] = list]
      PROVE  told' \in [Topics -> [Uris -> SUBSET Uris]]
  BY <1>3 DEF Promise!TypeOK
<1>4. CASE UNCHANGED Promise!promise
  <2>1. Registrations' = Registrations /\ told' = told
    BY <1>4 DEF Promise!promise
  <2> QED
    BY <1>1, <2>1 DEF Promise!TypeOK
<1>5. ASSUME NEW t \in Topics, NEW n \in Nodes, Promise!ChangePublishers(t, n)
      PROVE  Promise!TypeOK'
  <2>1. CASE Uris = {}
    BY <1>2, <1>5, <2>1 DEF Promise!ChangePublishers, Promise!TypeOK, Promise!Leave, Promise!Others
  <2>2. ASSUME NEW u \in Uris, Promise!Leave(t, "pub", n) \/ Promise!Enter(t, "pub", n, u)
        PROVE  Promise!TypeOK'
    BY <1>2, <1>5, <2>2 DEF Promise!ChangePublishers, Promise!TypeOK
  <2> QED
    BY <1>5, <2>1, <2>2 DEF Promise!ChangePublishers
<1>6. ASSUME NEW t \in Topics, NEW n \in Nodes, Promise!Unsubscribe(t, n)
      PROVE  Promise!TypeOK'
  BY <1>6 DEF Promise!Unsubscribe, Promise!TypeOK, Promise!Leave, Promise!Others
<1>7. ASSUME NEW t \in Topics, NEW n \in Nodes, NEW u \in Uris, Promise!Subscribe(t, n, u)
      PROVE  Promise!TypeOK'
  BY <1>1, <1>2, <1>3, <1>7 DEF Promise!Subscribe, Promise!TypeOK, Promise!PublishersOf
<1>8. ASSUME NEW t \in Topics, NEW u \in Uris, Promise!Tell(t, u)
      PROVE  Promise!TypeOK'
  BY <1>3, <1>8 DEF Promise!Tell, Promise!TypeOK
<1>9. ASSUME NEW t \in Topics, NEW u \in Uris, Promise!Lose(t, u)
      PROVE  Promise!TypeOK'
  BY <1>9 DEF Promise!Lose, Promise!TypeOK
<1> QED
  BY <1>1, <1>4, <1>5, <1>6, <1>7, <1>8, <1>9 DEF Promise!Next

\* A subscriber of a topic whose publishers stay, that was told them, owed them or
\* known to have lost them, and that a step tells nothing.
LEMMA StillToldOrOwed ==
  ASSUME Promise!ToldOrOwed, NEW x \in Topics, NEW v \in Promise!SubscribersOf(x)',
         v \in Promise!SubscribersOf(x),
         Promise!PublishersOf(x)' = Promise!PublishersOf(x), told'[x][v] = told[x][v],
         <<x, v>> \in Due \ Due' => <<x, v>> \in failed' \cup torn',
         <<x, v>> \in failed \cup torn => <<x, v>> \in failed' \cup torn'
  PROVE  told'[x][v] = Promise!PublishersOf(x)' \/ <<x, v>> \in Due' \cup (failed' \cup torn')
BY DEF Promise!ToldOrOwed

\* Whoever keeps the promise leaves no subscriber with an old list that nobody
\* knows of. With TheMasterKeepsItsPromise, that is so of the master.
THEOREM ThePromiseIsWorthIt == Promise!Spec => []Promise!ToldOrOwed
<1>1. Promise!Init => Promise!TypeOK /\ Promise!ToldOrOwed
  BY DEF Promise!Init, Promise!TypeOK, Promise!ToldOrOwed, Promise!SubscribersOf, Promise!Of
<1>2. ASSUME Promise!TypeOK, Promise!ToldOrOwed, [Promise!Next]_(Promise!promise)
      PROVE  Promise!ToldOrOwed'
  <2> USE DEF Promise!PublishersOf, Promise!SubscribersOf
  <2>1. \A t, role : Promise!Of(t, role) \subseteq Uris
    BY <1>2, PromiseTypes
  <2>2. \A x, v : v \in Promise!Of(x, "sub")' => v \in Uris
    BY <1>2, PromiseTypes DEF Promise!TypeOK, Promise!Of
  <2> SUFFICES ASSUME NEW x \in Topics, NEW v \in Promise!SubscribersOf(x)'
               PROVE  \/ told'[x][v] = Promise!PublishersOf(x)'
                      \/ <<x, v>> \in Due' \cup (failed' \cup torn')
    BY DEF Promise!ToldOrOwed
  <2> DEFINE debt == <<x, v>>
  <2>3. v \in Uris /\ debt[1] = x /\ debt[2] = v
    BY <2>2
  <2>4. ASSUME NEW debts, Promise!Owed(debts), debt \in debts \ Due'
        PROVE  debt \in failed' \cup torn'
    <3>1. debt \in failed' \cup torn' \/ debt[2] \notin Promise!SubscribersOf(debt[1])'
      BY <2>4 DEF Promise!Owed
    <3> QED
      BY <2>3, <3>1
  <2> HIDE DEF debt
  <2>5. ASSUME v \in Promise!SubscribersOf(x), Promise!PublishersOf(x)' = Promise!PublishersOf(x),
               told'[x][v] = told[x][v], debt \in Due \ Due' => debt \in failed' \cup torn',
               debt \in failed \cup torn => debt \in failed' \cup torn'
        PROVE  \/ told'[x][v] = Promise!PublishersOf(x)'
               \/ <<x, v>> \in Due' \cup (failed' \cup torn')
    BY <1>2, <2>5, StillToldOrOwed DEF debt
  <2>6. CASE UNCHANGED Promise!promise
    BY <2>5, <2>6 DEF Promise!promise, Promise!Of
  <2>7. ASSUME NEW t \in Topics, NEW n \in Nodes, Promise!ChangePublishers(t, n)
        PROVE  \/ told'[x][v] = Promise!PublishersOf(x)'
               \/ <<x, v>> \in Due' \cup (failed' \cup torn')
    <3>1. /\ Promise!Of(x, "sub")' = Promise!Of(x, "sub")
          /\ x # t => Promise!Of(x, "pub")' = Promise!Of(x, "pub")
      BY <2>7, LeaveLists, EnterLists DEF Promise!ChangePublishers, Roles
    <3>2. CASE x = t
      <4>1. debt \in Due \cup ({t} \X Promise!SubscribersOf(t))
        BY <3>1, <3>2 DEF debt
      <4> QED
        BY <2>4, <2>7, <4>1 DEF Promise!ChangePublishers, debt
    <3>3. CASE x # t
      BY <2>4, <2>5, <2>7, <3>1, <3>3 DEF Promise!ChangePublishers
    <3> QED
      BY <3>2, <3>3
  <2>8. ASSUME NEW t \in Topics, NEW n \in Nodes, Promise!Unsubscribe(t, n)
        PROVE  \/ told'[x][v] = Promise!PublishersOf(x)'
               \/ <<x, v>> \in Due' \cup (failed' \cup torn')
    <3>1. /\ Promise!Of(x, "pub")' = Promise!Of(x, "pub")
          /\ Promise!Of(x, "sub")' \subseteq Promise!Of(x, "sub")
      BY <2>8, LeaveLists DEF Promise!Unsubscribe, Roles
    <3> QED
      BY <2>4, <2>5, <2>8, <3>1 DEF Promise!Unsubscribe
  <2>9. ASSUME NEW t \in Topics, NEW n \in Nodes, NEW u \in Uris, Promise!Subscribe(t, n, u)
        PROVE  \/ told'[x][v] = Promise!PublishersOf(x)'
               \/ <<x, v>> \in Due' \cup (failed' \cup torn')
    <3>1. /\ Promise!Of(x, "pub")' = Promise!Of(x, "pub")
          /\ Promise!Of(x, "sub")' \subseteq Promise!Of(x, "sub") \cup {u}
          /\ x # t => Promise!Of(x, "sub")' = Promise!Of(x, "sub")
      BY <2>9, EnterLists DEF Promise!Subscribe, Roles
    <3>2. CASE x = t /\ v = u
      <4>1. told'[x][v] = Promise!PublishersOf(t)
        BY <1>2, <2>9, <3>2 DEF Promise!Subscribe, Promise!TypeOK
      <4> QED
        BY <3>1, <3>2, <4>1
    <3>3. CASE x # t \/ v # u
      <4>1. told'[x][v] = told[x][v]
        BY <1>2, <2>3, <2>9, <3>3 DEF Promise!Subscribe, Promise!TypeOK
      <4>2. debt # <<t, u>>
        BY <3>3 DEF debt
      <4> QED
        BY <2>4, <2>5, <2>9, <3>1, <3>3, <4>1, <4>2 DEF Promise!Subscribe
    <3> QED
      BY <3>2, <3>3
  <2>10. ASSUME NEW t \in Topics, NEW u \in Uris, Promise!Tell(t, u)
         PROVE  \/ told'[x][v] = Promise!PublishersOf(x)'
                \/ <<x, v>> \in Due' \cup (failed' \cup torn')
    <3>1. PICK list \in SUBSET Uris :
            /\ told' = [told EXCEPT ![t][u] = list]
            /\ Promise!Owed(IF list = Promise!PublishersOf(t)
                            THEN Due \ {<<t, u>>} ELSE Due \cup {<<t, u>>})
      BY <2>10 DEF Promise!Tell
    <3>2. \A role : Promise!Of(x, role)' = Promise!Of(x, role)
      BY <2>10 DEF Promise!Tell, Promise!Of
    <3>3. CASE x = t /\ v = u
      <4>1. told'[x][v] = list
        BY <1>2, <3>1, <3>3 DEF Promise!TypeOK
      <4>2. CASE list = Promise!PublishersOf(t)
        BY <3>2, <3>3, <4>1, <4>2
      <4>3. CASE list # Promise!PublishersOf(t)
        <5>1. Promise!Owed(Due \cup {<<t, u>>}) /\ debt \in Due \cup {<<t, u>>}
          BY <3>1, <3>3, <4>3 DEF debt
        <5> QED
          BY <2>4, <5>1 DEF debt
      <4> QED
        BY <4>2, <4>3
    <3>4. CASE x # t \/ v # u
      <4>1. told'[x][v] = told[x][v]
        BY <1>2, <2>3, <3>1, <3>4 DEF Promise!TypeOK
      <4>2. debt # <<t, u>>
        BY <3>4 DEF debt
      <4>3. debt \in Due \ Due' => debt \in failed' \cup torn'
        BY <2>4, <3>1, <4>2
      <4> QED
        BY <2>5, <2>10, <3>2, <4>1, <4>2, <4>3 DEF Promise!Tell
    <3> QED
      BY <3>3, <3>4
  <2>11. ASSUME NEW t \in Topics, NEW u \in Uris, Promise!Lose(t, u)
         PROVE  \/ told'[x][v] = Promise!PublishersOf(x)'
                \/ <<x, v>> \in Due' \cup (failed' \cup torn')
    <3>1. \A role : Promise!Of(x, role)' = Promise!Of(x, role)
      BY <2>11 DEF Promise!Lose, Promise!Of
    <3> QED
      BY <2>4, <2>5, <2>11, <3>1 DEF Promise!Lose
  <2> QED
    BY <1>2, <2>6, <2>7, <2>8, <2>9, <2>10, <2>11 DEF Promise!Next
<1>3. Promise!TypeOK /\ [Promise!Next]_(Promise!promise) => Promise!TypeOK'
  BY PromiseTypes
<1> QED
  BY <1>1, <1>2, <1>3, PTL DEF Promise!Spec
=============================================================================
