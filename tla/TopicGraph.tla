----------------------------- MODULE TopicGraph -----------------------------
(***************************************************************************)
(* How publishers and subscribers of a topic find each other: the main     *)
(* thread and the slave-server thread of every node (src/src/rosnode.cpp,  *)
(* rosslaveserver.cpp, rossubscriber.cpp) and the master                   *)
(* (src/src/rosmasterserver.cpp).                                          *)
(*                                                                         *)
(* A node's main thread registers with the master and, to subscribe,       *)
(* connects to each publisher of the reply; only then does it enter the    *)
(* publisher or subscriber in its vector, which the slave-server thread    *)
(* reads. The slave-server thread answers requestTopic and, on             *)
(* publisherUpdate, drops the subscriber's connections and connects again  *)
(* to each publisher of the list: it calls other nodes' slave-server       *)
(* threads, and waits for them, while it answers nobody.                   *)
(*                                                                         *)
(* There is one topic; its name, its type and the order of a list play no  *)
(* part, and a node stands for its slave API's URI. The master's handlers  *)
(* are atomic, and so are pop and copy of its spin thread: how they race   *)
(* is the matter of MasterServer.                                          *)
(***************************************************************************)
EXTENDS Integers, Sequences, SequencesExt

CONSTANTS
  Nodes,
  NoNode        \* nobody: value of peer and callee outside a call

ASSUME NoNodeAssumption == NoNode \notin Nodes

VARIABLES
  publishers,   \* the master's entry for the topic: who publishes it
  subscribers,  \* ... and who subscribes to it
  tasks,        \* length of the master's task_queue_
  spin,         \* spin thread of the master: "idle", "walk" or "call"
  pubs,         \* the list of publishers it sends
  todo,         \* the subscribers it has still to call
  callee,       \* the subscriber it is calling
  alive,        \* the nodes that have not crashed
  publishers_,  \* the nodes whose vector publishers_ has the topic
  subscribers_, \* the nodes whose vector subscribers_ has the topic
  thread,       \* state of each node's main and slave-server threads
  inbox,        \* publisherUpdate requests a slave server has not begun
  workers,      \* workers[s][p]: live connections of s to publisher p
  lost          \* history: <<s, p>> whose last notice or attempt failed

masterVars == <<publishers, subscribers, tasks, spin, pubs, todo, callee>>
nodeVars == <<alive, publishers_, subscribers_, thread, inbox, workers>>
vars == <<masterVars, nodeVars, lost>>

(***************************************************************************)
(* Data. A thread at "loop" has the publishers in its todo to connect to,  *)
(* at "request" it waits for its peer to answer requestTopic, at "open" it *)
(* connects to the port it was given, "hung" it waits for a header's rest, *)
(* for which there is no timeout. "advertise" and "unadvertise" are main   *)
(* threads between the master's reply and the change of the vector. live:  *)
(* is the master still waiting for this publisherUpdate?                   *)
(***************************************************************************)
Threads == {"main", "slave"}

Thread == [pc : {"idle", "loop", "request", "open", "hung", "advertise", "unadvertise"},
           peer : Nodes \cup {NoNode}, todo : SUBSET Nodes, live : BOOLEAN]

Update == [pubs : SUBSET Nodes, live : BOOLEAN]

Idle == [pc |-> "idle", peer |-> NoNode, todo |-> {}, live |-> FALSE]
Busy(pc) == [Idle EXCEPT !.pc = pc]
Loop(uris, live) == [pc |-> "loop", peer |-> NoNode, todo |-> uris, live |-> live]

TypeOK ==
  /\ publishers \in SUBSET Nodes /\ subscribers \in SUBSET Nodes
  /\ tasks \in Nat
  /\ spin \in {"idle", "walk", "call"}
  /\ pubs \in SUBSET Nodes /\ todo \in SUBSET Nodes
  /\ callee \in Nodes \cup {NoNode}
  /\ spin = "call" => callee \in Nodes
  /\ alive \in SUBSET Nodes
  /\ publishers_ \in SUBSET Nodes /\ subscribers_ \in SUBSET Nodes
  /\ thread \in [Nodes -> [Threads -> Thread]]
  /\ \A n \in Nodes, k \in Threads :
       thread[n][k].pc \in {"request", "open"} <=> thread[n][k].peer \in Nodes
  /\ inbox \in [Nodes -> Seq(Update)]
  /\ workers \in [Nodes -> [Nodes -> Nat]]
  /\ lost \in SUBSET (Nodes \X Nodes)

Init ==
  /\ publishers = {} /\ subscribers = {} /\ tasks = 0
  /\ spin = "idle" /\ pubs = {} /\ todo = {} /\ callee = NoNode
  /\ alive = Nodes
  /\ publishers_ = {} /\ subscribers_ = {}
  /\ thread = [n \in Nodes |-> [k \in Threads |-> Idle]]
  /\ inbox = [n \in Nodes |-> << >>]
  /\ workers = [n \in Nodes |-> [p \in Nodes |-> 0]]
  /\ lost = {}

-----------------------------------------------------------------------------
(***************************************************************************)
(* The main thread.                                                        *)
(***************************************************************************)
MainIdle(n) == n \in alive /\ thread[n]["main"].pc = "idle"

SetThread(n, k, state) == thread' = [thread EXCEPT ![n][k] = state]

\* The handlers of a registered topic queue a task, a new topic's does not.
\* (Mutant: a publisher is announced only if the topic had one.)
QueueTaskMutant == tasks' = IF publishers = {} THEN tasks ELSE tasks + 1
QueueTask ==
  tasks' = IF publishers = {} /\ subscribers = {} THEN tasks ELSE tasks + 1

\* master_->registerSubscriber, whose reply has the publishers to connect to.
subscribe(n) ==
  /\ MainIdle(n) /\ n \notin subscribers_
  /\ subscribers' = subscribers \cup {n}
  /\ SetThread(n, "main", Loop(publishers, FALSE))
  /\ UNCHANGED <<publishers, tasks, spin, pubs, todo, callee, alive, publishers_,
                 subscribers_, inbox, workers, lost>>

advertise(n) ==
  /\ MainIdle(n) /\ n \notin publishers_
  /\ publishers' = publishers \cup {n}
  /\ QueueTask
  /\ SetThread(n, "main", Busy("advertise"))
  /\ UNCHANGED <<subscribers, spin, pubs, todo, callee, alive, publishers_,
                 subscribers_, inbox, workers, lost>>

\* publishers_.push_back(publisher)
Advertised(n) ==
  /\ n \in alive /\ thread[n]["main"].pc = "advertise"
  /\ publishers_' = publishers_ \cup {n}
  /\ SetThread(n, "main", Idle)
  /\ UNCHANGED <<masterVars, alive, subscribers_, inbox, workers, lost>>

unadvertise(n) ==
  /\ MainIdle(n) /\ n \in publishers_
  /\ publishers' = publishers \ {n}
  /\ tasks' = IF n \in publishers THEN tasks + 1 ELSE tasks
  /\ SetThread(n, "main", Busy("unadvertise"))
  /\ UNCHANGED <<subscribers, spin, pubs, todo, callee, alive, publishers_,
                 subscribers_, inbox, workers, lost>>

\* Nobody holds the publisher any more: its sockets are closed, and whoever is
\* about to connect to one of them is refused.
CloseSockets(p, state) ==
  /\ workers' = [s \in Nodes |-> [workers[s] EXCEPT ![p] = 0]]
  /\ thread' = [s \in Nodes |-> [k \in Threads |->
       IF state[s][k].pc = "open" /\ state[s][k].peer = p
       THEN Loop(state[s][k].todo, state[s][k].live) ELSE state[s][k]]]
  /\ lost' = lost \cup {<<s, p>> : s \in {x \in Nodes : \E k \in Threads :
                                      state[x][k].pc = "open" /\ state[x][k].peer = p}}

\* publishers_.erase(it); the application may still hold the publisher.
Unadvertised(n) ==
  /\ n \in alive /\ thread[n]["main"].pc = "unadvertise"
  /\ publishers_' = publishers_ \ {n}
  /\ LET state == [thread EXCEPT ![n]["main"] = Idle]
     IN \/ CloseSockets(n, state)
        \/ thread' = state /\ UNCHANGED <<workers, lost>>
  /\ UNCHANGED <<masterVars, alive, subscribers_, inbox>>

\* Whoever reads the header of this publisher.
ReadsHeader(s, k, p) == thread[s][k].pc = "open" /\ thread[s][k].peer = p

\* A crashed node's sockets are closed and its requests are gone. If a header's
\* size had been sent and the rest had not, its reader waits for it for ever.
Crash(n) ==
  /\ n \in alive
  /\ alive' = alive \ {n}
  /\ workers' = [s \in Nodes |-> [p \in Nodes |->
                   IF n \in {s, p} THEN 0 ELSE workers[s][p]]]
  /\ \E hangs \in SUBSET {x \in Nodes \X Threads : ReadsHeader(x[1], x[2], n)} :
       thread' = [s \in Nodes |-> [k \in Threads |->
         IF s = n THEN Idle
         ELSE IF thread[s][k].peer # n THEN thread[s][k]
         ELSE [Loop(thread[s][k].todo, thread[s][k].live)
                 EXCEPT !.pc = IF <<s, k>> \in hangs THEN "hung" ELSE "loop"]]]
  /\ inbox' = [inbox EXCEPT ![n] = << >>]
  /\ UNCHANGED <<masterVars, publishers_, subscribers_, lost>>

-----------------------------------------------------------------------------
(***************************************************************************)
(* Connecting to the publishers of a list, by the main thread in subscribe *)
(* and by the slave-server thread in publisherUpdate.                      *)
(***************************************************************************)

\* The attempt is over. (Mutant: the peer is not forgotten.)
FailedMutant(n, k) ==
  /\ SetThread(n, k, [thread[n][k] EXCEPT !.pc = "loop"])
  /\ lost' = lost \cup {<<n, thread[n][k].peer>>}
Failed(n, k) ==
  /\ SetThread(n, k, Loop(thread[n][k].todo, thread[n][k].live))
  /\ lost' = lost \cup {<<n, thread[n][k].peer>>}

\* subscriber->connect(uri): no worker has an http:// URI, so that there is
\* nothing to disconnect; then slave->requestTopic.
connect(n, k) ==
  /\ thread[n][k].pc = "loop"
  /\ \E p \in thread[n][k].todo :
       /\ SetThread(n, k, [thread[n][k] EXCEPT !.pc = "request", !.peer = p,
                                               !.todo = @ \ {p}])
       /\ lost' = lost \ {<<n, p>>}
  /\ UNCHANGED <<masterVars, alive, publishers_, subscribers_, inbox, workers>>

\* The peer's slave-server thread answers: a port, or -1 when its vector does
\* not have the topic.
requestTopic(n, k) ==
  /\ thread[n][k].pc = "request"
  /\ LET p == thread[n][k].peer
     IN /\ p \in alive /\ thread[p]["slave"].pc = "idle"
        /\ \/ /\ p \in publishers_
              /\ SetThread(n, k, [thread[n][k] EXCEPT !.pc = "open"])
              /\ UNCHANGED lost
           \/ p \notin publishers_ /\ Failed(n, k)
  /\ UNCHANGED <<masterVars, alive, publishers_, subscribers_, inbox, workers>>

\* The call ends after 3 s without an answer: the peer's slave-server thread is
\* busy, or gone. (Mutant: a call without timeout.)
GiveUpMutant(n, k) ==
  /\ thread[n][k].pc = "request" /\ thread[n][k].peer \notin alive
  /\ Failed(n, k)
  /\ UNCHANGED <<masterVars, alive, publishers_, subscribers_, inbox, workers>>
GiveUp(n, k) ==
  /\ thread[n][k].pc = "request"
  /\ thread[n][k].peer \in alive => thread[thread[n][k].peer]["slave"].pc # "idle"
  /\ Failed(n, k)
  /\ UNCHANGED <<masterVars, alive, publishers_, subscribers_, inbox, workers>>

\* worker->connect: the TCP connection and the exchange of headers. It fails
\* when another process took the port, or the header does not come in time.
Open(n, k) ==
  /\ thread[n][k].pc = "open"
  /\ LET p == thread[n][k].peer
     IN \/ /\ workers' = [workers EXCEPT ![n][p] = @ + 1]
           /\ lost' = lost \ {<<n, p>>}
           /\ SetThread(n, k, Loop(thread[n][k].todo, thread[n][k].live))
        \/ Failed(n, k) /\ UNCHANGED workers
  /\ UNCHANGED <<masterVars, alive, publishers_, subscribers_, inbox>>

\* subscribers_.push_back(subscriber)
Subscribed(n) ==
  /\ thread[n]["main"].pc = "loop" /\ thread[n]["main"].todo = {}
  /\ subscribers_' = subscribers_ \cup {n}
  /\ SetThread(n, "main", Idle)
  /\ UNCHANGED <<masterVars, alive, publishers_, inbox, workers, lost>>

-----------------------------------------------------------------------------
(***************************************************************************)
(* The slave-server thread and the master's spin thread.                   *)
(***************************************************************************)

\* The master's call returns, if it is still waiting.
Reply(live) ==
  /\ spin' = IF live THEN "walk" ELSE spin
  /\ callee' = IF live THEN NoNode ELSE callee

\* What the subscriber's connections become: all of them are "tcpros://", none
\* is in the list. (Mutant: those whose publisher is in the list are kept.)
DropConnectionsMutant(n, list) == [p \in Nodes |-> IF p \in list THEN workers[n][p] ELSE 0]
DropConnections(n, list) == [p \in Nodes |-> 0]

\* publisherUpdate: a subscriber that is not in the vector is not found, and the
\* list is lost to it.
publisherUpdate(n) ==
  /\ n \in alive /\ thread[n]["slave"].pc = "idle" /\ inbox[n] # << >>
  /\ LET m == Head(inbox[n])
     IN \/ /\ n \in subscribers_
           /\ workers' = [workers EXCEPT ![n] = DropConnections(n, m.pubs)]
           /\ SetThread(n, "slave", Loop(m.pubs, m.live))
           /\ UNCHANGED <<spin, callee, lost>>
        \/ /\ n \notin subscribers_
           /\ lost' = lost \cup ({n} \X m.pubs)
           /\ Reply(m.live)
           /\ UNCHANGED <<workers, thread>>
  /\ inbox' = [inbox EXCEPT ![n] = Tail(@)]
  /\ UNCHANGED <<publishers, subscribers, tasks, pubs, todo, alive, publishers_,
                 subscribers_>>

Updated(n) ==
  /\ thread[n]["slave"].pc = "loop" /\ thread[n]["slave"].todo = {}
  /\ Reply(thread[n]["slave"].live)
  /\ SetThread(n, "slave", Idle)
  /\ UNCHANGED <<publishers, subscribers, tasks, pubs, todo, alive, publishers_,
                 subscribers_, inbox, workers, lost>>

PopTask ==
  /\ spin = "idle" /\ tasks > 0
  /\ tasks' = tasks - 1
  /\ spin' = "walk" /\ pubs' = publishers /\ todo' = subscribers
  /\ UNCHANGED <<publishers, subscribers, callee, nodeVars, lost>>

\* slave->publisherUpdate; a process that is gone refuses the connection.
Call(n) ==
  /\ spin = "walk" /\ n \in todo
  /\ todo' = todo \ {n}
  /\ \/ /\ n \in alive
        /\ spin' = "call" /\ callee' = n
        /\ inbox' = [inbox EXCEPT ![n] = Append(@, [pubs |-> pubs, live |-> TRUE])]
     \/ /\ n \notin alive
        /\ UNCHANGED <<spin, callee, inbox>>
  /\ UNCHANGED <<publishers, subscribers, tasks, pubs, alive, publishers_,
                 subscribers_, thread, workers, lost>>

\* 3 s without an answer from a thread that is busy, or a process that is gone.
\* The request stays with the slave server, which will still handle it.
CallTimeout ==
  /\ spin = "call"
  /\ callee \in alive => thread[callee]["slave"].pc # "idle"
  /\ spin' = "walk" /\ callee' = NoNode
  /\ inbox' = [inbox EXCEPT ![callee] =
                 [i \in DOMAIN @ |-> [@[i] EXCEPT !.live = FALSE]]]
  /\ SetThread(callee, "slave", [thread[callee]["slave"] EXCEPT !.live = FALSE])
  /\ UNCHANGED <<publishers, subscribers, tasks, pubs, todo, alive, publishers_,
                 subscribers_, workers, lost>>

EndTask ==
  /\ spin = "walk" /\ todo = {}
  /\ spin' = "idle" /\ pubs' = {}
  /\ UNCHANGED <<publishers, subscribers, tasks, todo, callee, nodeVars, lost>>

spinOnce ==
  PopTask \/ (\E n \in Nodes : Call(n)) \/ CallTimeout \/ EndTask

ThreadStep(n, k) ==
  \/ connect(n, k) \/ requestTopic(n, k) \/ GiveUp(n, k) \/ Open(n, k)
  \/ k = "main" /\ (Advertised(n) \/ Unadvertised(n) \/ Subscribed(n))
  \/ k = "slave" /\ (publisherUpdate(n) \/ Updated(n))

\* What the applications do: no step anybody can count on. unsubscribe is not
\* among them: disconnect() of ROSSubscriber is not overridden and returns
\* false, and unsubscribe returns there, before it changes anything.
Application(n) ==
  advertise(n) \/ unadvertise(n) \/ subscribe(n) \/ Crash(n)

Next ==
  \/ \E n \in Nodes : Application(n)
  \/ \E n \in Nodes, k \in Threads : ThreadStep(n, k)
  \/ spinOnce

Spec == Init /\ [][Next]_vars

FairSpec ==
  /\ Spec
  /\ WF_vars(spinOnce)
  /\ \A n \in Nodes, k \in Threads : WF_vars(ThreadStep(n, k))

-----------------------------------------------------------------------------
(***************************************************************************)
(* Properties.                                                             *)
(***************************************************************************)

\* A publisher's message reaches a subscriber once: whatever lists arrive while
\* the main thread connects, there is at most one connection between the two.
NoDoubleConnection ==
  \A s, p \in Nodes : workers[s][p] <= 1

\* Nothing is on its way any more.
Quiet ==
  /\ spin = "idle" /\ tasks = 0
  /\ \A n \in Nodes : inbox[n] = << >>
  /\ \A n \in Nodes, k \in Threads : thread[n][k].pc = "idle"

\* When everything has settled, a subscriber is connected to each publisher the
\* master knows, but for those whose last notice or attempt failed.
ConnectedWhenQuiet ==
  Quiet => \A s \in subscribers \cap alive, p \in publishers \cap alive :
             workers[s][p] = 1 \/ <<s, p>> \in lost

\* docs/tutorial.md: a topic that is published and listed can be echoed. Once
\* all is settled, a subscriber is connected to every publisher that is there.
SubscribersAreConnected ==
  Quiet => \A s \in subscribers \cap alive, p \in publishers \cap alive :
             workers[s][p] = 1

\* Every call of the application returns, whatever its peers do, unless one of
\* them dies within the header it sends.
CallsReturn ==
  \A n \in Nodes :
    thread[n]["main"].pc # "idle" ~> thread[n]["main"].pc \in {"idle", "hung"}
=============================================================================
