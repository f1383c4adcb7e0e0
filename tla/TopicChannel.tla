---------------------------- MODULE TopicChannel ----------------------------
(***************************************************************************)
(* The messages of one publisher and one subscriber: ROSPublisherImpl and  *)
(* its workers (src/src/rospublisher.cpp), ROSSubscriberImpl and its       *)
(* workers (src/src/rossubscriber.cpp), the TCPROS connections between     *)
(* them (src/src/rostcpros.cpp), the spin loop and the shutdown flag       *)
(* (src/src/rosnode.cpp, nanoros.cpp).                                     *)
(*                                                                         *)
(* The publisher's process has an application thread that publishes and    *)
(* may let the publisher go, a slave-server thread that adds a worker for  *)
(* each requestTopic, and one thread per worker that listens, accepts one  *)
(* connection and exchanges headers. The subscriber's has a main thread    *)
(* that spins and a slave-server thread that, on publisherUpdate, drops    *)
(* the connections and opens a new one. Connections are numbered in the    *)
(* order of their requestTopic; a message is the number of its publish.    *)
(* How the two find each other is the matter of TopicGraph.                *)
(*                                                                         *)
(* A packet is read when all of it is in the socket's receive buffer. One  *)
(* whose sender died in the middle of it never is, nor is one that is      *)
(* larger than the buffer, which any message may turn out to be: "torn" is *)
(* said of both.                                                           *)
(***************************************************************************)
EXTENDS Integers, Sequences, SequencesExt

CONSTANTS
  MaxConns,      \* bound on the requestTopics that are answered
  MaxMessages,   \* bound on the messages published
  Capacity       \* packets the buffers of a connection hold before write blocks

ASSUME BoundsAssumption ==
  MaxConns \in Nat /\ MaxMessages \in Nat /\ Capacity \in Nat \ {0}

VARIABLES
  pubUp,       \* does the publisher's process run?
  held,        \* does its application, or its node, hold the publisher?
  app,         \* the worker publish() is at, 0 outside; it holds workers_mutex_
  standby,     \* the worker standBy() has still to push, or 0
  dtor,        \* the destructor: "none", "poke", "join", "missed" (it joins a
               \* thread that did not listen when it was poked) or "gone"
  workers_,    \* the publisher's workers
  worker,      \* state of each worker's thread
  connected_,  \* the workers whose flag connected_ is set
  tcpros_,     \* the workers whose pointer tcpros_ is set
  first,       \* who a listening worker will accept: "none", "sub", "torn", "poke"
  stream,      \* the packets on the way on each connection: the header is 0
  sentLast,    \* the last message written, or being written, on each connection,
               \* 0 before
  torn,        \* the connections whose last packet on the way is never all there
  cur,         \* the last connection requested
  subUp,       \* does the subscriber's process run?
  shutdown_flag, \* was it told to end?
  conn,        \* its slave-server thread
  subWorkers_, \* the subscriber's workers
  subTcpros_,  \* ... and those whose pointer tcpros_ is set
  spin,        \* its main thread: [pc, at], the worker spinOnce is at
  published,   \* the number of messages published
  received     \* what the callback was called with

pubVars == <<pubUp, held, app, standby, dtor, workers_>>
threadVars == <<worker, connected_, tcpros_>>
netVars == <<first, stream, sentLast, torn, cur>>
subVars == <<subUp, shutdown_flag, conn, subWorkers_, subTcpros_, spin>>
history == <<published, received>>
vars == <<pubVars, threadVars, netVars, subVars, history>>

Conns == 1..MaxConns

\* A worker's thread is "deaf" when its port was taken and it listens on
\* another one, "stuck" when it waits for the rest of a header.
WorkerState ==
  {"none", "spawned", "listening", "negotiating", "ended", "deaf", "stuck"}

\* The two ends of a connection.
PubOpen(k) == worker[k] = "negotiating" \/ k \in tcpros_

SubOpen(k) == k \in subTcpros_ \/ (k = cur /\ conn \in {"header", "push", "hung"})

\* What is written for a subscriber that has gone, or that still waits to be
\* accepted, is lost.
Written(k, packet) ==
  IF SubOpen(k) /\ first[k] = "sub" THEN Append(stream[k], packet) ELSE stream[k]

\* Is the next packet on k the one that is never all there?
NextIsTorn(k) == k \in torn /\ Len(stream[k]) = 1

TypeOK ==
  /\ pubUp \in BOOLEAN /\ held \in BOOLEAN
  /\ workers_ \in Seq(Conns)
  /\ app \in 0..Len(workers_)
  /\ standby \in 0..cur
  /\ dtor \in {"none", "poke", "join", "missed", "gone"}
  /\ dtor \in {"join", "missed"} => workers_ # << >>
  /\ worker \in [Conns -> WorkerState]
  /\ connected_ \in SUBSET Conns /\ tcpros_ \in SUBSET Conns
  /\ \A k \in connected_ \cup tcpros_ : worker[k] = "ended"
  /\ first \in [Conns -> {"none", "sub", "torn", "poke"}]
  /\ stream \in [Conns -> Seq(0..published)]
  /\ sentLast \in [Conns -> 0..published]
  /\ torn \in SUBSET Conns
  /\ \A k \in Conns : IF SubOpen(k) THEN Len(stream[k]) <= Capacity + 1 ELSE stream[k] = << >>
  /\ cur \in 0..MaxConns
  /\ subUp \in BOOLEAN /\ shutdown_flag \in BOOLEAN
  /\ conn \in {"idle", "drop", "request", "answer", "connect", "header", "push", "hung"}
  /\ subWorkers_ \in Seq(Conns)
  /\ subTcpros_ \subseteq ToSet(subWorkers_)
  /\ spin \in [pc : {"idle", "walk", "hung", "leaving"}, at : Nat]
  /\ spin.at \in 0..Len(subWorkers_)
  /\ published \in 0..MaxMessages
  /\ received \in Seq(1..published)

Init ==
  /\ pubUp = TRUE /\ held = TRUE /\ app = 0 /\ standby = 0 /\ dtor = "none"
  /\ workers_ = << >> /\ worker = [k \in Conns |-> "none"]
  /\ connected_ = {} /\ tcpros_ = {}
  /\ first = [k \in Conns |-> "none"] /\ stream = [k \in Conns |-> << >>]
  /\ sentLast = [k \in Conns |-> 0] /\ torn = {} /\ cur = 0
  /\ subUp = TRUE /\ shutdown_flag = FALSE /\ conn = "idle"
  /\ subWorkers_ = << >> /\ subTcpros_ = {}
  /\ spin = [pc |-> "idle", at |-> 0]
  /\ published = 0 /\ received = << >>

-----------------------------------------------------------------------------
(***************************************************************************)
(* The publisher's application: publish, and letting the publisher go.     *)
(***************************************************************************)
\* publish goes on to the next worker whether this one failed or not.
\* (Mutant: it ends at the first failure.)
NextWorkerMutant(i) == app' = IF i >= Len(workers_) \/ tcpros_' # tcpros_ THEN 0 ELSE i + 1
NextWorker(i) == app' = IF i >= Len(workers_) THEN 0 ELSE i + 1

publish ==
  /\ pubUp /\ held /\ app = 0 /\ published < MaxMessages
  /\ published' = published + 1
  /\ app' = IF workers_ = << >> THEN 0 ELSE 1
  /\ UNCHANGED <<pubUp, held, standby, dtor, workers_, threadVars, netVars, subVars,
                 received>>

\* A worker without a connection is passed over.
\* (Mutant: it is waited for until its thread has accepted one.)
SkipWorkerMutant(k) ==
  k \notin tcpros_ /\ worker[k] = "ended" /\ UNCHANGED <<tcpros_, stream, sentLast, torn>>
SkipWorker(k) == k \notin tcpros_ /\ UNCHANGED <<tcpros_, stream, sentLast, torn>>

\* The packet gets under way, whole or too large to be ever read; what is behind a
\* packet that is never read is of no interest.
Write(k, whole) ==
  /\ sentLast' = [sentLast EXCEPT ![k] = published]
  /\ IF k \in torn
     THEN UNCHANGED <<stream, torn>>
     ELSE /\ stream' = [stream EXCEPT ![k] = Written(k, published)]
          /\ torn' = IF whole \/ stream' = stream THEN torn ELSE torn \cup {k}

\* The packet is written: it, or its rest, has room in the buffers. On success
\* sendPacket runs off its end without a return: what follows is undefined, and a
\* compiler may take the failure for the only way on, and drop the connection.
SendPacket(k) ==
  /\ k \in tcpros_ /\ sentLast[k] # published
  /\ SubOpen(k) => Len(stream[k]) < Capacity
  /\ \E whole \in BOOLEAN : Write(k, whole)
  /\ tcpros_' \in {tcpros_, tcpros_ \ {k}}

\* Full buffers block a write (no step of SendPacket). So does a packet that is not
\* read and does not fit in what room the buffers have: the write has begun, and
\* does not end while the connection is there.
WriteBlocks(k) ==
  /\ k \in tcpros_ /\ sentLast[k] # published
  /\ SubOpen(k) /\ first[k] = "sub" /\ Len(stream[k]) < Capacity
  /\ Write(k, FALSE)
  /\ UNCHANGED <<tcpros_, app>>

\* isConnected sees that the peer has closed, or the write fails.
DetectClosed(k) ==
  /\ k \in tcpros_ /\ ~SubOpen(k)
  /\ tcpros_' = tcpros_ \ {k}
  /\ UNCHANGED <<stream, sentLast, torn>>

PublishStep ==
  /\ app # 0
  /\ LET k == workers_[app]
     IN \/ (SkipWorker(k) \/ SendPacket(k) \/ DetectClosed(k)) /\ NextWorker(app)
        \/ WriteBlocks(k)
  /\ UNCHANGED <<pubUp, held, standby, dtor, workers_, worker, connected_, first, cur,
                 subVars, history>>

\* unadvertise, or the end of main: nobody but a standBy holds the publisher.
Release ==
  /\ pubUp /\ held /\ app = 0
  /\ held' = FALSE
  /\ UNCHANGED <<pubUp, app, standby, dtor, workers_, threadVars, netVars, subVars,
                 history>>

\* The process ends at any point: crashed, killed, by an exception that leaves a
\* destructor, or publish, which catches no SocketException of a write, or by
\* isConnected() of a worker that has no connection yet. A packet may have been
\* written up to its body.
PublisherDies(tears) ==
  /\ pubUp' = FALSE /\ held' = FALSE /\ app' = 0 /\ standby' = 0 /\ dtor' = "gone"
  /\ workers_' = << >> /\ connected_' = {} /\ tcpros_' = {}
  /\ worker' = [k \in Conns |-> IF worker[k] = "none" THEN "none" ELSE "ended"]
  /\ torn' = torn \cup tears
  /\ stream' = [k \in Conns |-> IF k \notin tears THEN stream[k]
                  ELSE Append(stream[k], IF worker[k] = "negotiating" THEN 0 ELSE published)]
  /\ UNCHANGED <<first, sentLast, cur, subVars, history>>

\* Where a packet can be under way when the process ends.
BeingWritten ==
  {k \in Conns : /\ SubOpen(k) /\ first[k] = "sub" /\ k \notin torn
                 /\ \/ worker[k] = "negotiating"
                    \/ /\ app # 0 /\ k = workers_[app] /\ k \in tcpros_
                       /\ sentLast[k] # published}

PublisherCrash ==
  pubUp /\ \E tears \in SUBSET BeingWritten : PublisherDies(tears)

-----------------------------------------------------------------------------
(***************************************************************************)
(* The publisher's slave-server thread and the threads of its workers.     *)
(***************************************************************************)

\* requestTopic of the subscriber starts standBy: a worker's thread is spawned.
Request ==
  /\ conn = "request" /\ pubUp /\ held /\ standby = 0 /\ cur < MaxConns
  /\ cur' = cur + 1 /\ standby' = cur + 1
  /\ worker' = [worker EXCEPT ![cur + 1] = "spawned"]
  /\ conn' = "answer"
  /\ UNCHANGED <<pubUp, held, app, dtor, workers_, connected_, tcpros_, first, stream,
                 sentLast, torn, subUp, shutdown_flag, subWorkers_, subTcpros_, spin,
                 history>>

\* 100 ms later, thread started or not, the worker is pushed, unless publish has
\* the lock.
StandBy ==
  /\ standby # 0 /\ app = 0
  /\ workers_' = Append(workers_, standby)
  /\ standby' = 0
  /\ conn' = IF conn = "answer" THEN "connect" ELSE conn
  /\ UNCHANGED <<pubUp, held, app, dtor, threadVars, netVars, subUp, shutdown_flag,
                 subWorkers_, subTcpros_, spin, history>>

SetWorker(k, state) == worker' = [worker EXCEPT ![k] = state]

\* The thread is done and uses the socket it has, if any.
Established(k) ==
  /\ SetWorker(k, "ended")
  /\ connected_' = connected_ \cup {k}
  /\ tcpros_' = tcpros_ \cup {k}

\* bind and listen. When somebody took the port since getEmptyPort tried it, bind
\* returns false and nobody looks: the thread then listens on a port nobody
\* knows, or fails to and takes the socket it does not have for a connection.
Listen(k) ==
  /\ worker[k] = "spawned"
  /\ \/ /\ \E state \in {"listening", "deaf"} : SetWorker(k, state)
        /\ UNCHANGED <<connected_, tcpros_>>
     \/ Established(k)
  /\ UNCHANGED <<pubVars, netVars, subVars, history>>

Accept(k) ==
  /\ worker[k] = "listening" /\ first[k] # "none"
  /\ SetWorker(k, IF first[k] = "torn" THEN "stuck" ELSE "negotiating")
  /\ UNCHANGED <<pubVars, connected_, tcpros_, netVars, subVars, history>>

\* negotiateHeader: whether a header came or not, one is sent, and the connection
\* is used even when it failed; only an exception of a write to a closed socket
\* prevents that.
Negotiated(k) ==
  /\ worker[k] = "negotiating"
  /\ \/ Established(k) /\ stream' = [stream EXCEPT ![k] = Written(k, 0)]
     \/ ~SubOpen(k) /\ SetWorker(k, "ended") /\ UNCHANGED <<connected_, tcpros_, stream>>
  /\ UNCHANGED <<pubVars, first, sentLast, torn, cur, subVars, history>>

WorkerStep(k) == Listen(k) \/ Accept(k) \/ Negotiated(k)

-----------------------------------------------------------------------------
(***************************************************************************)
(* The publisher's destructor: ~ROSPublisherWorker for each worker.        *)
(***************************************************************************)
Destroy ==
  /\ pubUp /\ ~held /\ standby = 0 /\ dtor \in {"none", "poke"}
  /\ dtor' = IF workers_ = << >> THEN "gone" ELSE "poke"
  /\ dtor # dtor'
  /\ UNCHANGED <<pubUp, held, app, standby, workers_, threadVars, netVars, subVars,
                 history>>

HasPort(k) == worker[k] \in {"listening", "negotiating", "stuck"}

\* A thread that may still wait in accept gets a connection from its own
\* process. (Mutant: nobody connects.)
PokeMutant(k) == UNCHANGED first
Poke(k) ==
  first' = [first EXCEPT ![k] = IF k \notin connected_ /\ @ = "none" THEN "poke" ELSE @]

PokeWorker ==
  /\ pubUp /\ dtor = "poke" /\ workers_ # << >>
  /\ LET k == Head(workers_)
     IN IF k \in connected_ \/ HasPort(k)
        THEN Poke(k) /\ dtor' = "join"
        ELSE dtor' = "missed" /\ UNCHANGED first
  /\ UNCHANGED <<pubUp, held, app, standby, workers_, threadVars, stream, sentLast,
                 torn, cur, subVars, history>>

\* The port does not listen, and the exception leaves the destructor.
RefusedPoke ==
  /\ pubUp /\ dtor = "poke" /\ workers_ # << >>
  /\ LET k == Head(workers_) IN k \notin connected_ /\ ~HasPort(k)
  /\ PublisherDies({})

\* thread_->join(), then the worker's socket is closed.
Join ==
  /\ dtor \in {"join", "missed"} /\ worker[Head(workers_)] = "ended"
  /\ dtor' = "poke"
  /\ workers_' = Tail(workers_)
  /\ tcpros_' = tcpros_ \ {Head(workers_)}
  /\ UNCHANGED <<pubUp, held, app, standby, worker, connected_, netVars, subVars, history>>

DestructorStep == Destroy \/ PokeWorker \/ RefusedPoke \/ Join

-----------------------------------------------------------------------------
(***************************************************************************)
(* The subscriber's slave-server thread. It needs workers_mutex_, which    *)
(* spinOnce holds during its walk.                                         *)
(***************************************************************************)
LockFree == spin.pc \in {"idle", "leaving"}

\* The subscriber's end of these connections is closed, and what it has not read
\* is lost. (Mutant: it can still be read.)
KeepUnread(closed) == UNCHANGED stream /\ torn' = torn \ closed
Close(closed) ==
  /\ stream' = [k \in Conns |-> IF k \in closed THEN << >> ELSE stream[k]]
  /\ torn' = torn \ closed

publisherUpdate ==
  /\ subUp /\ conn = "idle" /\ spin.pc # "leaving"
  /\ conn' = "drop"
  /\ UNCHANGED <<pubVars, threadVars, netVars, subUp, shutdown_flag, subWorkers_,
                 subTcpros_, spin, history>>

\* disconnectUri of each worker; then requestTopic.
\* (Mutant: the workers are kept, for their publisher is in the new list.)
DropMutant == conn' = "request" /\ UNCHANGED <<subWorkers_, subTcpros_, stream, torn>>
Drop ==
  \/ /\ subWorkers_ = << >>
     /\ conn' = "request"
     /\ UNCHANGED <<subWorkers_, subTcpros_, stream, torn>>
  \/ /\ subWorkers_ # << >>
     /\ subWorkers_' = Tail(subWorkers_)
     /\ subTcpros_' = subTcpros_ \ {Head(subWorkers_)}
     /\ Close({Head(subWorkers_)})
     /\ UNCHANGED conn

disconnectUri ==
  /\ conn = "drop" /\ LockFree
  /\ Drop
  /\ UNCHANGED <<pubVars, threadVars, first, sentLast, cur, subUp, shutdown_flag, spin,
                 history>>

\* The request is refused, its process is gone, or 3 s are over.
\* (Mutant: it waits for an answer as long as the publisher's process runs.)
RequestFailsMutant == conn \in {"request", "answer"} /\ (~pubUp \/ ~held)
RequestFails ==
  \/ conn = "request" /\ (~pubUp \/ ~held \/ standby # 0 \/ cur = MaxConns)
  \/ conn = "answer"

GiveUp ==
  /\ RequestFails
  /\ conn' = "idle"
  /\ UNCHANGED <<pubVars, threadVars, netVars, subUp, shutdown_flag, subWorkers_,
                 subTcpros_, spin, history>>

\* tcpros_connect: to a thread that listens, and may accept another connection
\* first; refused, by a thread that does not listen yet or any more.
Connect ==
  /\ conn = "connect"
  /\ IF HasPort(cur)
     THEN /\ first' = [first EXCEPT ![cur] = IF @ = "none" THEN "sub" ELSE @]
          /\ conn' = "header"
     ELSE conn' = "idle" /\ UNCHANGED first
  /\ UNCHANGED <<pubVars, threadVars, stream, sentLast, torn, cur, subUp, shutdown_flag,
                 subWorkers_, subTcpros_, spin, history>>

\* receiveHeader: it comes, or does not within a second, or comes up to its size
\* and is waited for without end.
ReceiveHeader ==
  /\ conn = "header"
  /\ \/ /\ stream[cur] = << >>
        /\ conn' = "idle" /\ UNCHANGED <<stream, torn>>
     \/ /\ NextIsTorn(cur)
        /\ conn' = "hung" /\ UNCHANGED <<stream, torn>>
     \/ /\ stream[cur] # << >> /\ ~NextIsTorn(cur)
        /\ conn' = "push" /\ stream' = [stream EXCEPT ![cur] = Tail(@)] /\ UNCHANGED torn
  /\ UNCHANGED <<pubVars, threadVars, first, sentLast, cur, subUp, shutdown_flag,
                 subWorkers_, subTcpros_, spin, history>>

PushWorker ==
  /\ conn = "push" /\ LockFree
  /\ subWorkers_' = Append(subWorkers_, cur)
  /\ subTcpros_' = subTcpros_ \cup {cur}
  /\ conn' = "idle"
  /\ UNCHANGED <<pubVars, threadVars, netVars, subUp, shutdown_flag, spin, history>>

NeedsLock == disconnectUri \/ PushWorker

ConnStep == GiveUp \/ Connect \/ ReceiveHeader

-----------------------------------------------------------------------------
(***************************************************************************)
(* The subscriber's main thread: spin, and what ends it.                   *)
(***************************************************************************)
SpinIdle == [pc |-> "idle", at |-> 0]

\* On to worker i, or out of spinOnce.
GoTo(i) ==
  spin' = IF i > Len(subWorkers_) THEN SpinIdle ELSE [pc |-> "walk", at |-> i]

StartSpin ==
  /\ subUp /\ spin.pc = "idle" /\ ~shutdown_flag
  /\ GoTo(1)
  /\ UNCHANGED <<subTcpros_, stream, torn, received>>

\* A closed socket is noticed at the latest when there is nothing left to read.
NothingToRead(k) ==
  /\ k \notin subTcpros_ \/ (stream[k] = << >> /\ PubOpen(k))
  /\ GoTo(spin.at + 1)
  /\ UNCHANGED <<subTcpros_, stream, torn, received>>

\* The socket has been closed: the same worker is tried again, and has no socket
\* then. (Mutant: it keeps it.)
DetectLostMutant(k) ==
  ~PubOpen(k) /\ k \in subTcpros_ /\ UNCHANGED <<subTcpros_, stream, torn, received, spin>>
DetectLost(k) ==
  /\ k \in subTcpros_ /\ ~PubOpen(k)
  /\ subTcpros_' = subTcpros_ \ {k}
  /\ Close({k})
  /\ UNCHANGED <<received, spin>>

\* At most one packet of each worker, and its callback.
Receive(k) ==
  /\ k \in subTcpros_ /\ stream[k] # << >> /\ ~NextIsTorn(k)
  /\ stream' = [stream EXCEPT ![k] = Tail(@)]
  /\ received' = Append(received, Head(stream[k]))
  /\ GoTo(spin.at + 1)
  /\ UNCHANGED <<subTcpros_, torn>>

\* receivePacket waits for the rest of a packet, with the lock, whether its publisher
\* died or is in the middle of a write.
Hang(k) ==
  /\ k \in subTcpros_ /\ NextIsTorn(k)
  /\ spin' = [spin EXCEPT !.pc = "hung"]
  /\ UNCHANGED <<subTcpros_, stream, torn, received>>

Walk ==
  /\ spin.pc = "walk"
  /\ LET k == subWorkers_[spin.at]
     IN NothingToRead(k) \/ DetectLost(k) \/ Receive(k) \/ Hang(k)

\* The loop sees the flag; the node's slave server is shut down.
LeaveLoop ==
  /\ subUp /\ spin.pc = "idle" /\ shutdown_flag
  /\ spin' = [spin EXCEPT !.pc = "leaving"]
  /\ UNCHANGED <<subTcpros_, stream, torn, received>>

SpinStep ==
  /\ StartSpin \/ Walk \/ LeaveLoop
  /\ UNCHANGED <<pubVars, threadVars, first, sentLast, cur, subUp, shutdown_flag, conn,
                 subWorkers_, published>>

SignalInt ==
  /\ subUp /\ ~shutdown_flag
  /\ shutdown_flag' = TRUE
  /\ UNCHANGED <<pubVars, threadVars, netVars, subUp, conn, subWorkers_, subTcpros_, spin,
                 history>>

\* The process is gone and its sockets are closed.
SubscriberEnds ==
  /\ subUp' = FALSE /\ conn' = "idle" /\ spin' = SpinIdle
  /\ subWorkers_' = << >> /\ subTcpros_' = {}
  /\ Close(Conns)
  /\ UNCHANGED <<pubVars, connected_, tcpros_, sentLast, cur, shutdown_flag, history>>

\* A header of which only the size was sent keeps the publisher's worker waiting.
SubscriberCrash ==
  /\ subUp
  /\ SubscriberEnds
  /\ \/ UNCHANGED <<first, worker>>
     \/ /\ conn = "header" /\ first[cur] = "sub" /\ worker[cur] = "listening"
        /\ first' = [first EXCEPT ![cur] = "torn"] /\ UNCHANGED worker
     \/ /\ conn = "header" /\ first[cur] = "sub" /\ worker[cur] = "negotiating"
        /\ SetWorker(cur, "stuck") /\ UNCHANGED first

\* The destructor of the node joins the slave-server thread, then main returns.
Leave ==
  /\ spin.pc = "leaving" /\ conn = "idle"
  /\ SubscriberEnds
  /\ UNCHANGED <<first, worker>>

-----------------------------------------------------------------------------
PublisherStep ==
  \/ publish \/ PublishStep \/ Release
  \/ Request \/ StandBy \/ (\E k \in Conns : WorkerStep(k)) \/ DestructorStep

SubscriberStep ==
  publisherUpdate \/ NeedsLock \/ ConnStep \/ SpinStep \/ Leave \/ SignalInt

Next == PublisherStep \/ SubscriberStep \/ PublisherCrash \/ SubscriberCrash

Spec == Init /\ [][Next]_vars

\* Every thread that can go on does; a thread that needs a mutex gets it if it
\* is free again and again, for the loops of the tools and of the examples sleep
\* outside of it. Nobody has to publish, to end or to crash.
Fairness ==
  /\ WF_vars(PublishStep) /\ SF_vars(StandBy) /\ WF_vars(Request)
  /\ \A k \in Conns : WF_vars(WorkerStep(k))
  /\ WF_vars(DestructorStep)
  /\ SF_vars(NeedsLock) /\ WF_vars(ConnStep)
  /\ WF_vars(SpinStep) /\ WF_vars(Leave)

FairSpec == Spec /\ Fairness

-----------------------------------------------------------------------------
(***************************************************************************)
(* Properties.                                                             *)
(***************************************************************************)

\* A connection that is there when a message is published gets it, whatever
\* became of the workers before it in the vector: between two publish calls the
\* last message written on a connection in use is the last one published.
ServedWithoutGaps ==
  app = 0 => \A k \in tcpros_ : sentLast[k] \in {0, published}

\* Messages may be lost, but none is received twice, late or out of nothing.
Abstract == INSTANCE LossyFifo
IsLossyFifo == Abstract!Spec

\* publish returns, although dead and slow subscribers are among its workers, unless
\* the one it writes to waits, in receivePacket, for the rest of a packet: there is
\* no end then, although both processes run and every thread of theirs is scheduled.
PublishReturns ==
  app # 0 ~> (app = 0 \/ (spin.pc = "hung" /\ SubOpen(workers_[app])))

\* The publisher's destructor returns, unless it came before a worker listened,
\* or a worker cannot be reached at its port or waits for a torn header.
Stranded ==
  dtor = "missed" \/ \E k \in ToSet(workers_) : worker[k] \in {"deaf", "stuck"}

DestructorReturns == (pubUp /\ ~held) ~> (dtor = "gone" \/ Stranded)

\* A slave-server thread that drops the connections and requests a new one comes
\* back to its server, unless it or the spin waits for the rest of a packet, its
\* publisher dead or not.
Hung == conn = "hung" \/ spin.pc = "hung"

ReconnectionEnds == conn # "idle" ~> (conn = "idle" \/ Hung)

\* After SIGINT the process ends, with the same exception.
ShutdownIsObeyed == shutdown_flag ~> (~subUp \/ Hung)
=============================================================================
