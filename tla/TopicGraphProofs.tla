-------------------------- MODULE TopicGraphProofs --------------------------
(***************************************************************************)
(* For any number of nodes, calls and crashes: a subscriber never has two  *)
(* connections to one publisher, and when all is quiet it has one, unless  *)
(* its last attempt or notice failed.                                      *)
(***************************************************************************)
EXTENDS TopicGraph, SequenceTheorems, TLAPS

(***************************************************************************)
(* The inductive invariant. NoDoubleConnection holds because only one of   *)
(* the two threads of a node connects at a time, the main thread before    *)
(* the subscriber enters the vector and the slave-server thread after, and *)
(* because neither has a publisher ahead of it that is already connected.  *)
(***************************************************************************)
Connecting(n, k) == thread[n][k].pc \in {"loop", "request", "open", "hung"}

OneThreadConnects ==
  \A n \in Nodes :
    /\ Connecting(n, "main") => n \notin subscribers_
    /\ thread[n]["slave"].pc # "idle" => n \in subscribers_ /\ Connecting(n, "slave")

NothingBefore ==
  \A n \in Nodes :
    n \notin subscribers_ /\ ~Connecting(n, "main") => \A p \in Nodes : workers[n][p] = 0

AheadIsNew ==
  \A n \in Nodes, k \in Threads : Connecting(n, k) =>
    /\ \A p \in thread[n][k].todo : workers[n][p] = 0
    /\ thread[n][k].peer \in Nodes =>
         /\ workers[n][thread[n][k].peer] = 0
         /\ thread[n][k].peer \notin thread[n][k].todo

IInv ==
  /\ TypeOK
  /\ OneThreadConnects
  /\ NothingBefore
  /\ AheadIsNew
  /\ NoDoubleConnection

\* A state of a thread: its fields, and when it has a peer.
ThreadOK(state) ==
  /\ state \in Thread
  /\ state.pc \in {"request", "open"} <=> state.peer \in Nodes

\* The states the actions build are states of a thread.
LEMMA ThreadStates ==
  /\ ThreadOK(Idle) /\ Idle.pc = "idle" /\ Idle.todo = {} /\ Idle.peer = NoNode
  /\ \A pc \in {"advertise", "unadvertise"} :
       ThreadOK(Busy(pc)) /\ Busy(pc).pc = pc /\ Busy(pc).peer = NoNode
  /\ \A uris \in SUBSET Nodes, live \in BOOLEAN :
       /\ ThreadOK(Loop(uris, live))
       /\ Loop(uris, live).pc = "loop" /\ Loop(uris, live).todo = uris
       /\ Loop(uris, live).peer = NoNode
BY NoNodeAssumption DEF ThreadOK, Thread, Idle, Busy, Loop

\* TypeOK without the threads, and the threads.
RestOK ==
  /\ publishers \in SUBSET Nodes /\ subscribers \in SUBSET Nodes
  /\ tasks \in Nat
  /\ spin \in {"idle", "walk", "call"}
  /\ pubs \in SUBSET Nodes /\ todo \in SUBSET Nodes
  /\ callee \in Nodes \cup {NoNode}
  /\ spin = "call" => callee \in Nodes
  /\ alive \in SUBSET Nodes
  /\ publishers_ \in SUBSET Nodes /\ subscribers_ \in SUBSET Nodes
  /\ inbox \in [Nodes -> Seq(Update)]
  /\ workers \in [Nodes -> [Nodes -> Nat]]
  /\ lost \in SUBSET (Nodes \X Nodes)

ThreadsOK ==
  /\ thread \in [Nodes -> [Threads -> Thread]]
  /\ \A n \in Nodes, k \in Threads :
       thread[n][k].pc \in {"request", "open"} <=> thread[n][k].peer \in Nodes

\* The two parts make up TypeOK.
LEMMA TypeParts == TypeOK <=> RestOK /\ ThreadsOK
BY DEF TypeOK, RestOK, ThreadsOK

\* Changing the state of one thread leaves the others alone.
LEMMA SetThreadProperties ==
  ASSUME TypeOK, NEW n \in Nodes, NEW k \in Threads, NEW state, ThreadOK(state),
         SetThread(n, k, state)
  PROVE  /\ thread'[n][k] = state
         /\ \A m \in Nodes, j \in Threads :
              m # n \/ j # k => thread'[m][j] = thread[m][j]
         /\ ThreadsOK'
<1>1. thread' \in [Nodes -> [Threads -> Thread]]
  BY DEF TypeOK, SetThread, ThreadOK
<1>2. thread'[n][k] = state
  BY DEF TypeOK, SetThread
<1>3. ASSUME NEW m \in Nodes, NEW j \in Threads, m # n \/ j # k
      PROVE  thread'[m][j] = thread[m][j]
  BY <1>3 DEF TypeOK, SetThread
<1>4. ASSUME NEW m \in Nodes, NEW j \in Threads
      PROVE  thread'[m][j].pc \in {"request", "open"} <=> thread'[m][j].peer \in Nodes
  <2>1. CASE m = n /\ j = k
    BY <2>1, <1>2 DEF ThreadOK
  <2>2. CASE ~(m = n /\ j = k)
    <3>1. thread'[m][j] = thread[m][j]
      BY <2>2, <1>3
    <3>2. thread[m][j].pc \in {"request", "open"} <=> thread[m][j].peer \in Nodes
      BY DEF TypeOK
    <3> QED
      BY <3>1, <3>2
  <2> QED
    BY <2>1, <2>2
<1> QED
  BY <1>1, <1>2, <1>3, <1>4 DEF ThreadsOK

\* The invariant holds when nothing has been registered.
LEMMA InitIInv == Init => IInv
<1> SUFFICES ASSUME Init PROVE IInv
  OBVIOUS
<1>1. ThreadOK(Idle) /\ Idle.pc = "idle" /\ Idle.peer = NoNode
  BY ThreadStates
<1>2. \A n \in Nodes, k \in Threads : thread[n][k] = Idle
  BY DEF Init
<1>3. TypeOK
  <2>1. inbox \in [Nodes -> Seq(Update)]
    BY DEF Init
  <2>2. thread \in [Nodes -> [Threads -> Thread]]
    BY <1>1 DEF Init, ThreadOK
  <2>3. workers \in [Nodes -> [Nodes -> Nat]]
    BY DEF Init
  <2>4. \A n \in Nodes, k \in Threads :
          thread[n][k].pc \in {"request", "open"} <=> thread[n][k].peer \in Nodes
    BY <1>1, <1>2, NoNodeAssumption
  <2> QED
    BY <2>1, <2>2, <2>3, <2>4 DEF Init, TypeOK
<1>4. \A n \in Nodes, k \in Threads : thread[n][k].pc = "idle"
  BY <1>1, <1>2
<1>5. \A n, p \in Nodes : workers[n][p] = 0
  BY DEF Init
<1>6. "main" \in Threads /\ "slave" \in Threads
  BY DEF Threads
<1> QED
  BY <1>3, <1>4, <1>5, <1>6
  DEF IInv, OneThreadConnects, NothingBefore, AheadIsNew, NoDoubleConnection,
      Connecting

-----------------------------------------------------------------------------
(***************************************************************************)
(* Steps that change one thread and no connection.                         *)
(***************************************************************************)

\* What the new state of the thread must satisfy for the invariant to hold.
LEMMA OneThreadStep ==
  ASSUME IInv, RestOK', NEW n \in Nodes, NEW k \in Threads, NEW state,
         ThreadOK(state), SetThread(n, k, state),
         UNCHANGED <<workers, subscribers_>>,
         k = "main" /\ state.pc \in {"loop", "request", "open", "hung"} => n \notin subscribers_,
         k = "main" /\ n \notin subscribers_ /\ state.pc \notin {"loop", "request", "open", "hung"}
           => \A p \in Nodes : workers[n][p] = 0,
         k = "slave" /\ state.pc # "idle" =>
           n \in subscribers_ /\ state.pc \in {"loop", "request", "open", "hung"},
         state.pc \in {"loop", "request", "open", "hung"} =>
           /\ \A p \in state.todo : workers[n][p] = 0
           /\ state.peer \in Nodes => workers[n][state.peer] = 0 /\ state.peer \notin state.todo
  PROVE  IInv'
<1>1. /\ thread'[n][k] = state
      /\ \A m \in Nodes, j \in Threads : m # n \/ j # k => thread'[m][j] = thread[m][j]
  BY SetThreadProperties DEF IInv
<1>0. TypeOK'
  <2>1. ThreadsOK'
    BY SetThreadProperties DEF IInv
  <2> QED
    BY <2>1 DEF TypeOK, RestOK, ThreadsOK
<1>2. "main" \in Threads /\ "slave" \in Threads /\ (k = "main" \/ k = "slave")
  BY DEF Threads
<1>3. OneThreadConnects'
  <2> SUFFICES ASSUME NEW m \in Nodes
               PROVE  /\ Connecting(m, "main")' => m \notin subscribers_
                      /\ thread'[m]["slave"].pc # "idle" =>
                           m \in subscribers_ /\ Connecting(m, "slave")'
    BY DEF OneThreadConnects
  <2>1. CASE m = n
    BY <1>1, <1>2, <2>1 DEF IInv, OneThreadConnects, Connecting
  <2>2. CASE m # n
    BY <1>1, <1>2, <2>2 DEF IInv, OneThreadConnects, Connecting
  <2> QED
    BY <2>1, <2>2
<1>4. NothingBefore'
  <2> SUFFICES ASSUME NEW m \in Nodes, m \notin subscribers_, ~Connecting(m, "main")'
               PROVE  \A p \in Nodes : workers[m][p] = 0
    BY DEF NothingBefore
  <2>1. CASE m = n /\ k = "main"
    BY <1>1, <2>1 DEF Connecting
  <2>2. CASE ~(m = n /\ k = "main")
    BY <1>1, <1>2, <2>2 DEF IInv, NothingBefore, Connecting
  <2> QED
    BY <2>1, <2>2
<1>5. AheadIsNew'
  <2> SUFFICES ASSUME NEW m \in Nodes, NEW j \in Threads, Connecting(m, j)'
               PROVE  /\ \A p \in thread'[m][j].todo : workers[m][p] = 0
                      /\ thread'[m][j].peer \in Nodes =>
                           /\ workers[m][thread'[m][j].peer] = 0
                           /\ thread'[m][j].peer \notin thread'[m][j].todo
    BY DEF AheadIsNew
  <2>1. CASE m = n /\ j = k
    BY <1>1, <2>1 DEF Connecting
  <2>2. CASE ~(m = n /\ j = k)
    BY <1>1, <2>2 DEF IInv, AheadIsNew, Connecting
  <2> QED
    BY <2>1, <2>2
<1>6. NoDoubleConnection'
  BY DEF IInv, NoDoubleConnection
<1> QED
  BY <1>0, <1>3, <1>4, <1>5, <1>6 DEF IInv

\* The registrations of the application keep the invariant.
LEMMA ApplicationStep ==
  ASSUME IInv, NEW n \in Nodes,
         subscribe(n) \/ advertise(n) \/ Advertised(n) \/ unadvertise(n)
  PROVE  IInv'
<1>1. "main" \in Threads /\ TypeOK /\ RestOK
  BY TypeParts DEF Threads, IInv
<1>2. ~Connecting(n, "main")
  BY DEF subscribe, advertise, Advertised, unadvertise, MainIdle, Connecting
<1>3. n \notin subscribers_ => \A p \in Nodes : workers[n][p] = 0
  BY <1>2 DEF IInv, NothingBefore
<1>4. CASE subscribe(n)
  <2>1. ThreadOK(Loop(publishers, FALSE)) /\ Loop(publishers, FALSE).todo = publishers
        /\ Loop(publishers, FALSE).peer = NoNode /\ Loop(publishers, FALSE).pc = "loop"
    BY <1>1, ThreadStates DEF TypeOK
  <2>2. SetThread(n, "main", Loop(publishers, FALSE)) /\ n \notin subscribers_
    BY <1>4 DEF subscribe
  <2>3. RestOK'
    BY <1>1, <1>4 DEF RestOK, subscribe
  <2>4. UNCHANGED <<workers, subscribers_>> /\ publishers \subseteq Nodes
    BY <1>1, <1>4 DEF subscribe, TypeOK
  <2> QED
    BY <1>1, <1>3, <2>1, <2>2, <2>3, <2>4, OneThreadStep, NoNodeAssumption
<1>5. CASE advertise(n)
  <2>1. SetThread(n, "main", Busy("advertise"))
    BY <1>5 DEF advertise
  <2>2. ThreadOK(Busy("advertise")) /\ Busy("advertise").pc = "advertise"
    BY ThreadStates
  <2>3. RestOK'
    <3>1. tasks' \in Nat
      BY <1>1, <1>5 DEF RestOK, advertise, QueueTask
    <3> QED
      BY <1>1, <1>5, <3>1 DEF RestOK, advertise
  <2>4. UNCHANGED <<workers, subscribers_>>
    BY <1>5 DEF advertise
  <2> QED
    BY <1>1, <1>3, <2>1, <2>2, <2>3, <2>4, OneThreadStep
<1>6. CASE Advertised(n)
  <2>1. SetThread(n, "main", Idle)
    BY <1>6 DEF Advertised
  <2>2. ThreadOK(Idle) /\ Idle.pc = "idle"
    BY ThreadStates
  <2>3. RestOK'
    BY <1>1, <1>6 DEF RestOK, Advertised, masterVars
  <2>4. UNCHANGED <<workers, subscribers_>>
    BY <1>6 DEF Advertised
  <2> QED
    BY <1>1, <1>3, <2>1, <2>2, <2>3, <2>4, OneThreadStep
<1>7. CASE unadvertise(n)
  <2>1. SetThread(n, "main", Busy("unadvertise"))
    BY <1>7 DEF unadvertise
  <2>2. ThreadOK(Busy("unadvertise")) /\ Busy("unadvertise").pc = "unadvertise"
    BY ThreadStates
  <2>3. RestOK'
    <3>1. tasks' \in Nat
      BY <1>1, <1>7 DEF RestOK, unadvertise
    <3> QED
      BY <1>1, <1>7, <3>1 DEF RestOK, unadvertise
  <2>4. UNCHANGED <<workers, subscribers_>>
    BY <1>7 DEF unadvertise
  <2> QED
    BY <1>1, <1>3, <2>1, <2>2, <2>3, <2>4, OneThreadStep
<1> QED
  BY <1>4, <1>5, <1>6, <1>7

\* Of a thread that connects, the state after a failed attempt.
LEMMA FailedStep ==
  ASSUME IInv, NEW n \in Nodes, NEW k \in Threads, thread[n][k].pc \in {"request", "open"},
         Failed(n, k),
         UNCHANGED <<masterVars, alive, publishers_, subscribers_, inbox, workers>>
  PROVE  IInv'
<1> DEFINE old == thread[n][k]
           new == Loop(old.todo, old.live)
<1>1. TypeOK /\ k \in {"main", "slave"} /\ old \in Thread
  BY DEF IInv, TypeOK, Threads
<1>2. old.todo \in SUBSET Nodes /\ old.live \in BOOLEAN /\ old.peer \in Nodes
  BY <1>1 DEF TypeOK, Thread
<1>3. /\ ThreadOK(new) /\ new.pc = "loop" /\ new.todo = old.todo /\ new.peer = NoNode
  BY <1>2, ThreadStates
<1>4. SetThread(n, k, new)
  BY DEF Failed
<1>5. RestOK'
  <2>1. lost' \in SUBSET (Nodes \X Nodes)
    BY <1>1, <1>2 DEF TypeOK, Failed
  <2> QED
    BY <1>1, <2>1, TypeParts DEF RestOK, masterVars
<1>6. /\ k = "main" => n \notin subscribers_
      /\ k = "slave" => n \in subscribers_
      /\ \A p \in old.todo : workers[n][p] = 0
  BY <1>1 DEF IInv, OneThreadConnects, AheadIsNew, Connecting
<1> HIDE DEF new, old
<1> QED
  BY <1>1, <1>3, <1>4, <1>5, <1>6, OneThreadStep, NoNodeAssumption

\* The attempts that fail, and the steps that lead up to a connection.
LEMMA AttemptStep ==
  ASSUME IInv, NEW n \in Nodes, NEW k \in Threads,
         connect(n, k) \/ requestTopic(n, k) \/ GiveUp(n, k)
           \/ (Open(n, k) /\ Failed(n, k) /\ UNCHANGED workers)
  PROVE  IInv'
<1> DEFINE old == thread[n][k]
<1>1. TypeOK /\ RestOK /\ k \in {"main", "slave"} /\ old \in Thread
  <2>1. TypeOK /\ RestOK
    BY TypeParts DEF IInv
  <2>2. thread \in [Nodes -> [Threads -> Thread]]
    BY <2>1 DEF TypeOK
  <2> QED
    BY <2>1, <2>2 DEF Threads
<1>2. CASE GiveUp(n, k) \/ (Open(n, k) /\ Failed(n, k) /\ UNCHANGED workers)
  <2>1. /\ old.pc \in {"request", "open"} /\ Failed(n, k)
        /\ UNCHANGED <<masterVars, alive, publishers_, subscribers_, inbox, workers>>
    BY <1>2 DEF GiveUp, Open
  <2> QED
    BY <2>1, FailedStep
<1>3. CASE requestTopic(n, k) /\ Failed(n, k)
  <2>1. /\ old.pc \in {"request", "open"}
        /\ UNCHANGED <<masterVars, alive, publishers_, subscribers_, inbox, workers>>
    BY <1>3 DEF requestTopic
  <2> QED
    BY <1>3, <2>1, FailedStep
<1>4. CASE requestTopic(n, k) /\ SetThread(n, k, [old EXCEPT !.pc = "open"])
           /\ UNCHANGED lost
  <2> DEFINE new == [old EXCEPT !.pc = "open"]
  <2>1. /\ old.pc = "request" /\ old.peer \in Nodes
        /\ UNCHANGED <<masterVars, alive, publishers_, subscribers_, inbox, workers>>
    BY <1>1, <1>4 DEF requestTopic, TypeOK
  <2>2. new \in Thread /\ new.pc = "open" /\ new.peer = old.peer /\ new.todo = old.todo
    BY <1>1 DEF Thread
  <2>3. ThreadOK(new)
    BY <2>1, <2>2 DEF ThreadOK
  <2>4. RestOK'
    BY <1>1, <1>4, <2>1 DEF RestOK, masterVars
  <2>5. /\ k = "main" => n \notin subscribers_
        /\ k = "slave" => n \in subscribers_
        /\ \A p \in old.todo : workers[n][p] = 0
        /\ workers[n][old.peer] = 0 /\ old.peer \notin old.todo
    BY <1>1, <2>1 DEF IInv, OneThreadConnects, AheadIsNew, Connecting
  <2> HIDE DEF new, old
  <2>6. SetThread(n, k, new)
    BY <1>4 DEF new, old
  <2> QED
    BY <1>1, <2>1, <2>2, <2>3, <2>4, <2>5, <2>6, OneThreadStep
<1>5. CASE connect(n, k)
  <2>1. PICK p \in old.todo :
          /\ SetThread(n, k, [old EXCEPT !.pc = "request", !.peer = p, !.todo = @ \ {p}])
          /\ lost' = lost \ {<<n, p>>}
    BY <1>5 DEF connect
  <2> DEFINE new == [old EXCEPT !.pc = "request", !.peer = p, !.todo = @ \ {p}]
  <2>2. /\ old.pc = "loop" /\ p \in Nodes
        /\ UNCHANGED <<masterVars, alive, publishers_, subscribers_, inbox, workers>>
    BY <1>1, <1>5 DEF connect, Thread
  <2>3. new \in Thread /\ new.pc = "request" /\ new.peer = p /\ new.todo = old.todo \ {p}
    BY <1>1, <2>2 DEF Thread
  <2>4. ThreadOK(new)
    BY <2>2, <2>3 DEF ThreadOK
  <2>5. RestOK'
    BY <1>1, <2>1, <2>2 DEF RestOK, masterVars
  <2>6. /\ k = "main" => n \notin subscribers_
        /\ k = "slave" => n \in subscribers_
        /\ \A q \in old.todo : workers[n][q] = 0
    BY <1>1, <2>2 DEF IInv, OneThreadConnects, AheadIsNew, Connecting
  <2>7. SetThread(n, k, new)
    BY <2>1
  <2> HIDE DEF new, old
  <2> QED
    BY <1>1, <2>2, <2>3, <2>4, <2>5, <2>6, <2>7, OneThreadStep
<1>6. requestTopic(n, k) =>
        Failed(n, k) \/ (SetThread(n, k, [old EXCEPT !.pc = "open"]) /\ UNCHANGED lost)
  BY DEF requestTopic
<1> QED
  BY <1>2, <1>3, <1>4, <1>5, <1>6

\* A thread that loops and is done with the publisher it was connecting to.
LEMMA LoopAgain ==
  ASSUME TypeOK, NEW n \in Nodes, NEW k \in Threads
  PROVE  LET new == Loop(thread[n][k].todo, thread[n][k].live)
         IN /\ ThreadOK(new) /\ new.pc = "loop"
            /\ new.todo = thread[n][k].todo /\ new.peer = NoNode
<1>1. thread[n][k] \in Thread
  BY DEF TypeOK
<1>2. thread[n][k].todo \in SUBSET Nodes /\ thread[n][k].live \in BOOLEAN
  BY <1>1 DEF Thread
<1> QED
  BY <1>2, ThreadStates

\* A new connection: its publisher was not connected, and is not ahead.
LEMMA OpenStep ==
  ASSUME IInv, NEW n \in Nodes, NEW k \in Threads, Open(n, k), ~(UNCHANGED workers)
  PROVE  IInv'
<1> DEFINE p == thread[n][k].peer
           new == Loop(thread[n][k].todo, thread[n][k].live)
<1>1. TypeOK /\ RestOK /\ (k = "main" \/ k = "slave")
      /\ "main" \in Threads /\ "slave" \in Threads
  BY TypeParts DEF IInv, Threads
<1>2. /\ thread[n][k].pc = "open" /\ p \in Nodes
      /\ workers' = [workers EXCEPT ![n][p] = @ + 1]
      /\ lost' = lost \ {<<n, p>>} /\ SetThread(n, k, new)
      /\ UNCHANGED <<masterVars, alive, publishers_, subscribers_, inbox>>
  BY <1>1 DEF Open, TypeOK
<1>3. /\ ThreadOK(new) /\ new.pc = "loop" /\ new.todo = thread[n][k].todo
      /\ new.peer = NoNode
  BY <1>1, LoopAgain
<1>4. /\ Connecting(n, k) /\ p \notin thread[n][k].todo
      /\ workers[n][p] = 0 /\ \A q \in thread[n][k].todo : workers[n][q] = 0
  BY <1>1, <1>2 DEF IInv, AheadIsNew, Connecting
<1>5. /\ thread[n][k].todo \subseteq Nodes
      /\ workers' \in [Nodes -> [Nodes -> Nat]]
      /\ workers'[n][p] = 1
      /\ \A m, q \in Nodes : m # n \/ q # p => workers'[m][q] = workers[m][q]
  <2>1. thread[n][k] \in Thread
    BY <1>1 DEF TypeOK
  <2> QED
    BY <1>1, <1>2, <1>4, <2>1 DEF TypeOK, Thread
<1>6. /\ thread'[n][k] = new
      /\ \A m \in Nodes, j \in Threads : m # n \/ j # k => thread'[m][j] = thread[m][j]
      /\ ThreadsOK'
  <2> HIDE DEF new
  <2> QED
    BY <1>1, <1>2, <1>3, SetThreadProperties
<1> HIDE DEF p, new
<1>7. TypeOK'
  <2>1. RestOK'
    BY <1>1, <1>2, <1>5 DEF RestOK, masterVars
  <2> QED
    BY <1>6, <2>1 DEF TypeOK, RestOK, ThreadsOK
<1>8. \A j \in Threads : j # k => ~Connecting(n, j)
  <2>1. Connecting(n, "main") => ~Connecting(n, "slave")
    BY DEF IInv, OneThreadConnects, Connecting
  <2> QED
    BY <1>1, <1>4, <2>1 DEF Threads
<1>9. OneThreadConnects'
  <2> SUFFICES ASSUME NEW m \in Nodes
               PROVE  /\ Connecting(m, "main")' => m \notin subscribers_
                      /\ thread'[m]["slave"].pc # "idle" =>
                           m \in subscribers_ /\ Connecting(m, "slave")'
    BY <1>2 DEF OneThreadConnects
  <2>1. CASE m = n
    BY <1>1, <1>2, <1>3, <1>4, <1>6, <2>1 DEF IInv, OneThreadConnects, Connecting
  <2>2. CASE m # n
    BY <1>1, <1>6, <2>2 DEF IInv, OneThreadConnects, Connecting
  <2> QED
    BY <2>1, <2>2
<1>10. NothingBefore'
  <2> SUFFICES ASSUME NEW m \in Nodes, m \notin subscribers_, ~Connecting(m, "main")'
               PROVE  \A q \in Nodes : workers'[m][q] = 0
    BY <1>2 DEF NothingBefore
  <2>1. m # n
    BY <1>1, <1>3, <1>4, <1>6 DEF IInv, OneThreadConnects, Connecting
  <2> QED
    BY <1>1, <1>5, <1>6, <2>1 DEF IInv, NothingBefore, Connecting
<1>11. AheadIsNew'
  <2> SUFFICES ASSUME NEW m \in Nodes, NEW j \in Threads, Connecting(m, j)'
               PROVE  /\ \A q \in thread'[m][j].todo : workers'[m][q] = 0
                      /\ thread'[m][j].peer \in Nodes =>
                           /\ workers'[m][thread'[m][j].peer] = 0
                           /\ thread'[m][j].peer \notin thread'[m][j].todo
    BY DEF AheadIsNew
  <2>1. CASE m = n /\ j = k
    <3>1. \A q \in thread[n][k].todo : workers'[n][q] = 0
      BY <1>4, <1>5
    <3> QED
      BY <1>3, <1>6, <2>1, <3>1, NoNodeAssumption
  <2>2. CASE m = n /\ j # k
    BY <1>6, <1>8, <2>2 DEF Connecting
  <2>3. CASE m # n
    <3>1. thread'[m][j] = thread[m][j] /\ thread[m][j].todo \subseteq Nodes
      BY <1>1, <1>6, <2>3 DEF TypeOK, Thread
    <3> QED
      BY <1>5, <2>3, <3>1 DEF IInv, AheadIsNew, Connecting
  <2> QED
    BY <2>1, <2>2, <2>3
<1>12. NoDoubleConnection'
  <2> SUFFICES ASSUME NEW m \in Nodes, NEW q \in Nodes
               PROVE  workers'[m][q] <= 1
    BY DEF NoDoubleConnection
  <2>1. CASE m = n /\ q = p
    BY <1>5, <2>1
  <2>2. CASE m # n \/ q # p
    BY <1>5, <2>2 DEF IInv, NoDoubleConnection
  <2> QED
    BY <2>1, <2>2
<1> QED
  BY <1>7, <1>9, <1>10, <1>11, <1>12 DEF IInv

-----------------------------------------------------------------------------
(***************************************************************************)
(* Steps that take away: connections are closed, attempts given up.        *)
(***************************************************************************)

\* A thread goes on with what it has ahead, or stops connecting.
Less(m, j) ==
  \/ /\ thread'[m][j].pc = thread[m][j].pc
     /\ thread'[m][j].todo = thread[m][j].todo /\ thread'[m][j].peer = thread[m][j].peer
  \/ /\ Connecting(m, j) /\ Connecting(m, j)'
     /\ thread'[m][j].todo = thread[m][j].todo /\ thread'[m][j].peer = NoNode
  \/ /\ ~Connecting(m, j)'
     /\ j = "slave" => thread'[m][j].pc = "idle"
     /\ j = "main" => ~Connecting(m, j) \/ \A p \in Nodes : workers'[m][p] = 0

\* A step that adds no connection and nothing to connect to keeps the invariant.
LEMMA LessStep ==
  ASSUME IInv, TypeOK', subscribers_' = subscribers_,
         \A m, p \in Nodes : workers'[m][p] = workers[m][p] \/ workers'[m][p] = 0,
         \A m \in Nodes, j \in Threads : Less(m, j)
  PROVE  IInv'
<1>1. "main" \in Threads /\ "slave" \in Threads
  BY DEF Threads
<1>2. OneThreadConnects'
  <2> SUFFICES ASSUME NEW m \in Nodes
               PROVE  /\ Connecting(m, "main")' => m \notin subscribers_
                      /\ thread'[m]["slave"].pc # "idle" =>
                           m \in subscribers_ /\ Connecting(m, "slave")'
    BY DEF OneThreadConnects
  <2>1. Less(m, "main") /\ Less(m, "slave")
    BY <1>1
  <2> QED
    BY <2>1 DEF Less, IInv, OneThreadConnects, Connecting
<1>3. NothingBefore'
  <2> SUFFICES ASSUME NEW m \in Nodes, m \notin subscribers_, ~Connecting(m, "main")',
                      NEW p \in Nodes
               PROVE  workers'[m][p] = 0
    BY DEF NothingBefore
  <2>1. Less(m, "main")
    BY <1>1
  <2> QED
    BY <2>1 DEF Less, IInv, NothingBefore, Connecting
<1>4. AheadIsNew'
  <2> SUFFICES ASSUME NEW m \in Nodes, NEW j \in Threads, Connecting(m, j)'
               PROVE  /\ \A p \in thread'[m][j].todo : workers'[m][p] = 0
                      /\ thread'[m][j].peer \in Nodes =>
                           /\ workers'[m][thread'[m][j].peer] = 0
                           /\ thread'[m][j].peer \notin thread'[m][j].todo
    BY DEF AheadIsNew
  <2>1. /\ Connecting(m, j) /\ thread'[m][j].todo = thread[m][j].todo
        /\ thread'[m][j].peer \in Nodes => thread'[m][j].peer = thread[m][j].peer
    BY NoNodeAssumption DEF Less, Connecting
  <2>2. thread[m][j].todo \subseteq Nodes
    <3>1. thread[m][j] \in Thread
      BY DEF IInv, TypeOK
    <3> QED
      BY <3>1 DEF Thread
  <2> QED
    BY <2>1, <2>2 DEF IInv, AheadIsNew
<1>5. NoDoubleConnection'
  <2> SUFFICES ASSUME NEW m \in Nodes, NEW p \in Nodes PROVE workers'[m][p] <= 1
    BY DEF NoDoubleConnection
  <2> QED
    BY DEF IInv, NoDoubleConnection
<1> QED
  BY <1>2, <1>3, <1>4, <1>5 DEF IInv

\* The subscriber enters the vector when its main thread is done connecting.
LEMMA SubscribedStep ==
  ASSUME IInv, NEW n \in Nodes, Subscribed(n)
  PROVE  IInv'
<1>1. "main" \in Threads /\ "slave" \in Threads /\ TypeOK /\ RestOK
  BY TypeParts DEF Threads, IInv
<1>2. /\ thread[n]["main"].pc = "loop" /\ SetThread(n, "main", Idle)
      /\ subscribers_' = subscribers_ \cup {n}
      /\ UNCHANGED <<masterVars, alive, publishers_, inbox, workers, lost>>
  BY DEF Subscribed
<1>3. ThreadOK(Idle) /\ Idle.pc = "idle"
  BY ThreadStates
<1>4. /\ thread'[n]["main"] = Idle
      /\ \A m \in Nodes, j \in Threads :
           m # n \/ j # "main" => thread'[m][j] = thread[m][j]
      /\ ThreadsOK'
  BY <1>1, <1>2, <1>3, SetThreadProperties
<1>5. n \notin subscribers_ /\ thread[n]["slave"].pc = "idle"
  BY <1>2 DEF IInv, OneThreadConnects, Connecting
<1>6. TypeOK'
  <2>1. RestOK'
    BY <1>1, <1>2 DEF RestOK, masterVars
  <2> QED
    BY <1>4, <2>1 DEF TypeOK, RestOK, ThreadsOK
<1>7. OneThreadConnects'
  <2> SUFFICES ASSUME NEW m \in Nodes
               PROVE  /\ Connecting(m, "main")' => m \notin subscribers_'
                      /\ thread'[m]["slave"].pc # "idle" =>
                           m \in subscribers_' /\ Connecting(m, "slave")'
    BY DEF OneThreadConnects
  <2>1. CASE m = n
    BY <1>1, <1>3, <1>4, <1>5, <2>1 DEF Connecting
  <2>2. CASE m # n
    BY <1>1, <1>2, <1>4, <2>2 DEF IInv, OneThreadConnects, Connecting
  <2> QED
    BY <2>1, <2>2
<1>8. NothingBefore'
  <2> SUFFICES ASSUME NEW m \in Nodes, m # n, m \notin subscribers_,
                      ~Connecting(m, "main")'
               PROVE  \A p \in Nodes : workers[m][p] = 0
    BY <1>2 DEF NothingBefore
  <2> QED
    BY <1>1, <1>4 DEF IInv, NothingBefore, Connecting
<1>9. AheadIsNew'
  <2> SUFFICES ASSUME NEW m \in Nodes, NEW j \in Threads, Connecting(m, j)'
               PROVE  /\ \A p \in thread'[m][j].todo : workers[m][p] = 0
                      /\ thread'[m][j].peer \in Nodes =>
                           /\ workers[m][thread'[m][j].peer] = 0
                           /\ thread'[m][j].peer \notin thread'[m][j].todo
    BY <1>2 DEF AheadIsNew
  <2>1. m # n \/ j # "main"
    BY <1>3, <1>4 DEF Connecting
  <2> QED
    BY <1>4, <2>1 DEF IInv, AheadIsNew, Connecting
<1>10. NoDoubleConnection'
  BY <1>2 DEF IInv, NoDoubleConnection
<1> QED
  BY <1>6, <1>7, <1>8, <1>9, <1>10 DEF IInv
\* Every thread is in a state of a thread.
LEMMA EachThread ==
  TypeOK => \A m \in Nodes, j \in Threads : ThreadOK(thread[m][j])
<1> SUFFICES ASSUME TypeOK, NEW m \in Nodes, NEW j \in Threads
             PROVE  ThreadOK(thread[m][j])
  OBVIOUS
<1>1. thread[m][j] \in Thread
  BY DEF TypeOK
<1>2. thread[m][j].pc \in {"request", "open"} <=> thread[m][j].peer \in Nodes
  BY DEF TypeOK
<1> QED
  BY <1>1, <1>2 DEF ThreadOK

\* The sockets of a publisher nobody holds are closed, or the application holds it.
LEMMA UnadvertisedStep ==
  ASSUME IInv, NEW n \in Nodes, Unadvertised(n)
  PROVE  IInv'
<1> DEFINE state == [thread EXCEPT ![n]["main"] = Idle]
           hit(m, j) == state[m][j].pc = "open" /\ state[m][j].peer = n
<1>1. "main" \in Threads /\ TypeOK /\ RestOK /\ ThreadOK(Idle) /\ Idle.pc = "idle"
  BY TypeParts, ThreadStates DEF Threads, IInv
<1>2. /\ thread[n]["main"].pc = "unadvertise" /\ publishers_' = publishers_ \ {n}
      /\ UNCHANGED <<masterVars, alive, subscribers_, inbox>>
  BY DEF Unadvertised
<1>3. /\ state \in [Nodes -> [Threads -> Thread]] /\ state[n]["main"] = Idle
      /\ \A m \in Nodes, j \in Threads :
           m # n \/ j # "main" => state[m][j] = thread[m][j]
  BY <1>1 DEF TypeOK, ThreadOK
<1>4. CASE thread' = state /\ UNCHANGED <<workers, lost>>
  <2>1. SetThread(n, "main", Idle)
    BY <1>4 DEF SetThread
  <2>2. ThreadsOK'
    BY <1>1, <2>1, SetThreadProperties
  <2>3. RestOK'
    BY <1>1, <1>2, <1>4 DEF RestOK, masterVars
  <2>4. TypeOK'
    BY <2>2, <2>3 DEF TypeOK, RestOK, ThreadsOK
  <2>5. ASSUME NEW m \in Nodes, NEW j \in Threads PROVE Less(m, j)
    <3>1. CASE m = n /\ j = "main"
      BY <1>1, <1>2, <1>3, <1>4, <3>1 DEF Less, Connecting
    <3>2. CASE ~(m = n /\ j = "main")
      BY <1>3, <1>4, <3>2 DEF Less
    <3> QED
      BY <3>1, <3>2
  <2> QED
    BY <1>2, <1>4, <2>4, <2>5, LessStep
<1>5. CASE CloseSockets(n, state)
  <2> HIDE DEF state
  <2>1. workers' = [s \in Nodes |-> [workers[s] EXCEPT ![n] = 0]]
    BY <1>5 DEF CloseSockets
  <2>2. /\ workers' \in [Nodes -> [Nodes -> Nat]]
        /\ \A m, p \in Nodes : workers'[m][p] = workers[m][p] \/ workers'[m][p] = 0
    BY <1>1, <2>1 DEF TypeOK
  <2>3. ASSUME NEW m \in Nodes, NEW j \in Threads
        PROVE  /\ state[m][j] \in Thread
               /\ state[m][j].pc \in {"request", "open"} <=> state[m][j].peer \in Nodes
               /\ state[m][j].todo \in SUBSET Nodes /\ state[m][j].live \in BOOLEAN
    <3>1. state[m][j] \in Thread
      BY <1>3
    <3>2. ThreadOK(state[m][j])
      <4>1. CASE m = n /\ j = "main"
        BY <1>1, <1>3, <4>1
      <4>2. CASE ~(m = n /\ j = "main")
        BY <1>1, <1>3, <4>2, EachThread
      <4> QED
        BY <4>1, <4>2
    <3> QED
      BY <3>1, <3>2 DEF Thread, ThreadOK
  <2>4. ASSUME NEW m \in Nodes, NEW j \in Threads
        PROVE  \/ hit(m, j) /\ thread'[m][j] = Loop(state[m][j].todo, state[m][j].live)
               \/ ~hit(m, j) /\ thread'[m][j] = state[m][j]
    BY <1>5 DEF CloseSockets
  <2>5. ASSUME NEW m \in Nodes, NEW j \in Threads
        PROVE  LET l == Loop(state[m][j].todo, state[m][j].live)
               IN ThreadOK(l) /\ l.pc = "loop" /\ l.todo = state[m][j].todo /\ l.peer = NoNode
    BY <2>3, ThreadStates
  <2>6. ASSUME NEW m \in Nodes, NEW j \in Threads
        PROVE  ThreadOK(thread'[m][j])
    BY <2>3, <2>4, <2>5 DEF ThreadOK
  <2>7. thread' \in [Nodes -> [Threads -> Thread]]
    <3>1. thread' = [m \in Nodes |-> [j \in Threads |-> thread'[m][j]]]
      BY <1>5 DEF CloseSockets
    <3>2. \A m \in Nodes, j \in Threads : thread'[m][j] \in Thread
      BY <2>6 DEF ThreadOK
    <3> QED
      BY <3>1, <3>2
  <2>8. lost' \in SUBSET (Nodes \X Nodes)
    BY <1>1, <1>5 DEF CloseSockets, TypeOK
  <2>9. RestOK'
    BY <1>1, <1>2, <2>2, <2>8 DEF RestOK, masterVars
  <2>10. TypeOK'
    BY <2>6, <2>7, <2>9 DEF TypeOK, RestOK, ThreadOK
  <2>11. ASSUME NEW m \in Nodes, NEW j \in Threads PROVE Less(m, j)
    <3>1. CASE hit(m, j)
      <4>1. state[m][j] = thread[m][j]
        BY <1>1, <1>3, <3>1
      <4> QED
        BY <2>4, <2>5, <3>1, <4>1 DEF Less, Connecting
    <3>2. CASE ~hit(m, j)
      <4>1. thread'[m][j] = state[m][j]
        BY <2>4, <3>2
      <4>2. CASE m = n /\ j = "main"
        BY <1>1, <1>2, <1>3, <4>1, <4>2 DEF Less, Connecting
      <4>3. CASE ~(m = n /\ j = "main")
        BY <1>3, <4>1, <4>3 DEF Less
      <4> QED
        BY <4>2, <4>3
    <3> QED
      BY <3>1, <3>2
  <2> QED
    BY <1>2, <2>2, <2>10, <2>11, LessStep
<1> QED
  BY <1>4, <1>5 DEF Unadvertised

\* A thread whose peer crashed: it goes on, or waits for ever.
Bereft(m, j, pc) == [Loop(thread[m][j].todo, thread[m][j].live) EXCEPT !.pc = pc]

\* A crash ends the node's connections, and the attempts to reach it.
LEMMA CrashStep ==
  ASSUME IInv, NEW n \in Nodes, Crash(n)
  PROVE  IInv'
<1>1. TypeOK /\ RestOK /\ ThreadOK(Idle) /\ Idle.pc = "idle"
  BY TypeParts, ThreadStates DEF IInv
<1>2. /\ alive' = alive \ {n} /\ inbox' = [inbox EXCEPT ![n] = << >>]
      /\ UNCHANGED <<masterVars, publishers_, subscribers_, lost>>
  BY DEF Crash
<1>3. /\ workers' \in [Nodes -> [Nodes -> Nat]]
      /\ \A m, p \in Nodes : workers'[m][p] = workers[m][p] \/ workers'[m][p] = 0
      /\ \A p \in Nodes : workers'[n][p] = 0
  BY <1>1 DEF Crash, TypeOK
<1>4. ASSUME NEW m \in Nodes, NEW j \in Threads
      PROVE  \/ m = n /\ thread'[m][j] = Idle
             \/ /\ m # n /\ thread[m][j].peer = n
                /\ \E pc \in {"loop", "hung"} : thread'[m][j] = Bereft(m, j, pc)
             \/ thread'[m][j] = thread[m][j]
  <2>1. PICK hangs : thread' = [s \in Nodes |-> [k \in Threads |->
                       IF s = n THEN Idle
                       ELSE IF thread[s][k].peer # n THEN thread[s][k]
                       ELSE Bereft(s, k, IF <<s, k>> \in hangs THEN "hung" ELSE "loop")]]
    BY DEF Crash, Bereft
  <2>2. thread'[m][j] = IF m = n THEN Idle
                        ELSE IF thread[m][j].peer # n THEN thread[m][j]
                        ELSE Bereft(m, j, IF <<m, j>> \in hangs THEN "hung" ELSE "loop")
    BY <2>1
  <2> QED
    BY <2>2
<1>5. ASSUME NEW m \in Nodes, NEW j \in Threads, NEW pc \in {"loop", "hung"}
      PROVE  LET l == Bereft(m, j, pc)
             IN ThreadOK(l) /\ l.pc = pc /\ l.todo = thread[m][j].todo /\ l.peer = NoNode
  <2>1. LET l == Loop(thread[m][j].todo, thread[m][j].live)
        IN ThreadOK(l) /\ l.todo = thread[m][j].todo /\ l.peer = NoNode
    BY <1>1, LoopAgain
  <2> QED
    BY <2>1, NoNodeAssumption DEF ThreadOK, Thread, Bereft
<1>6. ASSUME NEW m \in Nodes, NEW j \in Threads
      PROVE  ThreadOK(thread'[m][j])
  BY <1>1, <1>4, <1>5, EachThread
<1>7. thread' \in [Nodes -> [Threads -> Thread]]
  <2>1. thread' = [m \in Nodes |-> [j \in Threads |-> thread'[m][j]]]
    BY DEF Crash
  <2>2. \A m \in Nodes, j \in Threads : thread'[m][j] \in Thread
    BY <1>6 DEF ThreadOK
  <2> QED
    BY <2>1, <2>2
<1>8. RestOK'
  <2>1. inbox' \in [Nodes -> Seq(Update)]
    BY <1>1, <1>2 DEF RestOK
  <2> QED
    BY <1>1, <1>2, <1>3, <2>1 DEF RestOK, masterVars
<1>9. TypeOK'
  BY <1>6, <1>7, <1>8 DEF TypeOK, RestOK, ThreadOK
<1>10. ASSUME NEW m \in Nodes, NEW j \in Threads PROVE Less(m, j)
  <2>1. CASE m = n /\ thread'[m][j] = Idle
    BY <1>1, <1>3, <2>1 DEF Less, Connecting
  <2>2. ASSUME thread[m][j].peer = n, NEW pc \in {"loop", "hung"},
               thread'[m][j] = Bereft(m, j, pc)
        PROVE  Less(m, j)
    <3>1. thread[m][j].pc \in {"request", "open"}
      BY <1>1, <2>2 DEF TypeOK
    <3> QED
      BY <1>5, <2>2, <3>1 DEF Less, Connecting
  <2>3. CASE thread'[m][j] = thread[m][j]
    BY <2>3 DEF Less
  <2> QED
    BY <1>4, <2>1, <2>2, <2>3
<1> QED
  BY <1>2, <1>3, <1>9, <1>10, LessStep

\* The steps of the spin thread but for CallTimeout, and the stuttering step.
LEMMA SpinStep ==
  ASSUME IInv, PopTask \/ (\E n \in Nodes : Call(n)) \/ EndTask \/ UNCHANGED vars
  PROVE  IInv'
<1>1. TypeOK /\ RestOK /\ ThreadsOK
  BY TypeParts DEF IInv
<1>2. UNCHANGED <<thread, workers, subscribers_>>
  BY DEF PopTask, Call, EndTask, vars, nodeVars
<1>3. ThreadsOK'
  BY <1>1, <1>2 DEF ThreadsOK
<1>4. RestOK'
  <2>1. CASE PopTask
    <3>1. tasks' \in Nat
      BY <1>1, <2>1 DEF RestOK, PopTask
    <3> QED
      BY <1>1, <2>1, <3>1 DEF RestOK, PopTask, nodeVars
  <2>2. ASSUME NEW n \in Nodes, Call(n) PROVE RestOK'
    <3>1. [pubs |-> pubs, live |-> TRUE] \in Update
      BY <1>1 DEF Update, RestOK
    <3> DEFINE m == [pubs |-> pubs, live |-> TRUE]
    <3>2. \/ UNCHANGED inbox
          \/ inbox' = [inbox EXCEPT ![n] = Append(inbox[n], m)]
      BY <2>2 DEF Call
    <3>3. inbox' \in [Nodes -> Seq(Update)]
      <4> HIDE DEF m
      <4>1. Append(inbox[n], m) \in Seq(Update)
        BY <1>1, <3>1 DEF RestOK, m
      <4> QED
        BY <1>1, <3>2, <4>1 DEF RestOK
    <3> QED
      BY <1>1, <2>2, <3>3 DEF RestOK, Call
  <2>3. CASE EndTask
    BY <1>1, <2>3 DEF RestOK, EndTask, nodeVars
  <2>4. CASE UNCHANGED vars
    BY <1>1, <2>4 DEF RestOK, vars, masterVars, nodeVars
  <2> QED
    BY <2>1, <2>2, <2>3, <2>4
<1>5. TypeOK'
  BY <1>3, <1>4 DEF TypeOK, RestOK, ThreadsOK
<1>6. \A m \in Nodes, j \in Threads : Less(m, j)
  BY <1>2 DEF Less
<1> QED
  BY <1>2, <1>5, <1>6, LessStep

\* A call the master stops waiting for stays as it is but for the mark.
LEMMA CallTimeoutStep ==
  ASSUME IInv, CallTimeout
  PROVE  IInv'
<1> DEFINE old == thread[callee]["slave"]
           new == [old EXCEPT !.live = FALSE]
<1>1. TypeOK /\ RestOK /\ "slave" \in Threads /\ callee \in Nodes
  BY TypeParts DEF IInv, TypeOK, CallTimeout, Threads
<1>2. /\ SetThread(callee, "slave", new) /\ UNCHANGED <<workers, subscribers_>>
      /\ UNCHANGED <<publishers, subscribers, tasks, pubs, todo, alive, publishers_, lost>>
      /\ spin' = "walk" /\ callee' = NoNode
  BY DEF CallTimeout
<1>3. old \in Thread /\ ThreadOK(old)
  BY <1>1, EachThread DEF TypeOK
<1>4. /\ ThreadOK(new)
      /\ new.pc = old.pc /\ new.todo = old.todo /\ new.peer = old.peer
  BY <1>3 DEF ThreadOK, Thread
<1> HIDE DEF new
<1>5. /\ thread'[callee]["slave"] = new /\ ThreadsOK'
      /\ \A m \in Nodes, j \in Threads :
           m # callee \/ j # "slave" => thread'[m][j] = thread[m][j]
  BY <1>1, <1>2, <1>4, SetThreadProperties
<1>6. inbox' \in [Nodes -> Seq(Update)]
  <2> DEFINE box == inbox[callee]
             marked == [i \in DOMAIN box |-> [box[i] EXCEPT !.live = FALSE]]
  <2>1. inbox' = [inbox EXCEPT ![callee] = marked]
    BY DEF CallTimeout
  <2>2. box \in Seq(Update)
    BY <1>1 DEF RestOK
  <2>3. ASSUME NEW i \in 1..Len(box) PROVE [box[i] EXCEPT !.live = FALSE] \in Update
    <3>1. box[i] \in Update
      BY <2>2
    <3> QED
      BY <3>1 DEF Update
  <2>4. marked \in Seq(Update)
    <3>1. DOMAIN box = 1..Len(box) /\ Len(box) \in Nat
      BY <2>2
    <3>2. marked \in [1..Len(box) -> Update]
      BY <2>3, <3>1
    <3> QED
      BY <3>1, <3>2, IsASeq
  <2> HIDE DEF marked
  <2> QED
    BY <1>1, <2>1, <2>4 DEF RestOK
<1>7. TypeOK'
  <2>1. RestOK'
    BY <1>1, <1>2, <1>6 DEF RestOK
  <2> QED
    BY <1>5, <2>1 DEF TypeOK, RestOK, ThreadsOK
<1>8. ASSUME NEW m \in Nodes, NEW j \in Threads PROVE Less(m, j)
  <2>1. CASE m = callee /\ j = "slave"
    BY <1>4, <1>5, <2>1 DEF Less
  <2>2. CASE ~(m = callee /\ j = "slave")
    BY <1>5, <2>2 DEF Less
  <2> QED
    BY <2>1, <2>2
<1> QED
  BY <1>2, <1>7, <1>8, LessStep

\* A notice the vector does not have the subscriber for; the end of one it has.
LEMMA ReplyStep ==
  ASSUME IInv, NEW n \in Nodes,
         Updated(n) \/ (publisherUpdate(n) /\ n \notin subscribers_)
  PROVE  IInv'
<1>1. TypeOK /\ RestOK /\ ThreadsOK /\ "slave" \in Threads
  BY TypeParts DEF IInv, Threads
<1>2. CASE Updated(n)
  <2>1. /\ SetThread(n, "slave", Idle) /\ Reply(thread[n]["slave"].live)
        /\ UNCHANGED <<publishers, subscribers, tasks, pubs, todo, alive, publishers_,
                       subscribers_, inbox, workers, lost>>
    BY <1>2 DEF Updated
  <2>2. ThreadOK(Idle) /\ Idle.pc = "idle"
    BY ThreadStates
  <2>3. /\ thread'[n]["slave"] = Idle /\ ThreadsOK'
        /\ \A m \in Nodes, j \in Threads :
             m # n \/ j # "slave" => thread'[m][j] = thread[m][j]
    BY <1>1, <2>1, <2>2, SetThreadProperties
  <2>4. RestOK'
    BY <1>1, <2>1 DEF RestOK, Reply
  <2>5. TypeOK'
    BY <2>3, <2>4 DEF TypeOK, RestOK, ThreadsOK
  <2>6. ASSUME NEW m \in Nodes, NEW j \in Threads PROVE Less(m, j)
    <3>1. CASE m = n /\ j = "slave"
      BY <2>2, <2>3, <3>1 DEF Less, Connecting
    <3>2. CASE ~(m = n /\ j = "slave")
      BY <2>3, <3>2 DEF Less
    <3> QED
      BY <3>1, <3>2
  <2> QED
    BY <2>1, <2>5, <2>6, LessStep
<1>3. CASE publisherUpdate(n) /\ n \notin subscribers_
  <2>1. /\ Head(inbox[n]) \in Update /\ inbox' = [inbox EXCEPT ![n] = Tail(@)]
        /\ Tail(inbox[n]) \in Seq(Update)
    BY <1>1, <1>3 DEF RestOK, publisherUpdate
  <2>2. /\ lost' = lost \cup ({n} \X Head(inbox[n]).pubs)
        /\ Reply(Head(inbox[n]).live)
        /\ UNCHANGED <<publishers, subscribers, tasks, pubs, todo, alive, publishers_,
                       subscribers_, workers, thread>>
    BY <1>3 DEF publisherUpdate
  <2>3. lost' \in SUBSET (Nodes \X Nodes)
    BY <1>1, <2>1, <2>2 DEF RestOK, Update
  <2>4. inbox' \in [Nodes -> Seq(Update)]
    BY <1>1, <2>1 DEF RestOK
  <2>5. RestOK'
    BY <1>1, <2>2, <2>3, <2>4 DEF RestOK, Reply
  <2>6. TypeOK'
    BY <1>1, <2>2, <2>5 DEF TypeOK, RestOK, ThreadsOK
  <2>7. \A m \in Nodes, j \in Threads : Less(m, j)
    BY <2>2 DEF Less
  <2> QED
    BY <2>2, <2>6, <2>7, LessStep
<1> QED
  BY <1>2, <1>3

\* publisherUpdate drops every connection before it connects again: whatever is
\* in the list is new.
LEMMA UpdateStep ==
  ASSUME IInv, NEW n \in Nodes, publisherUpdate(n), n \in subscribers_
  PROVE  IInv'
<1> DEFINE m == Head(inbox[n])
           new == Loop(m.pubs, m.live)
<1>1. TypeOK /\ RestOK /\ "slave" \in Threads /\ "main" \in Threads
  BY TypeParts DEF IInv, Threads
<1>2. m \in Update /\ Tail(inbox[n]) \in Seq(Update)
  BY <1>1 DEF RestOK, publisherUpdate
<1>3. m.pubs \in SUBSET Nodes /\ m.live \in BOOLEAN
  BY <1>2 DEF Update
<1>4. ThreadOK(new) /\ new.pc = "loop" /\ new.todo = m.pubs /\ new.peer = NoNode
  BY <1>3, ThreadStates
<1>5. /\ SetThread(n, "slave", new) /\ inbox' = [inbox EXCEPT ![n] = Tail(@)]
      /\ workers' = [workers EXCEPT ![n] = [p \in Nodes |-> 0]]
      /\ UNCHANGED <<publishers, subscribers, tasks, spin, pubs, todo, callee, alive,
                     publishers_, subscribers_, lost>>
  BY DEF publisherUpdate, DropConnections
<1> HIDE DEF m, new
<1>6. /\ thread'[n]["slave"] = new /\ ThreadsOK'
      /\ \A x \in Nodes, j \in Threads :
           x # n \/ j # "slave" => thread'[x][j] = thread[x][j]
  BY <1>1, <1>4, <1>5, SetThreadProperties
<1>7. /\ workers' \in [Nodes -> [Nodes -> Nat]]
      /\ \A p \in Nodes : workers'[n][p] = 0
      /\ \A x, p \in Nodes : workers'[x][p] = workers[x][p] \/ workers'[x][p] = 0
  BY <1>1, <1>5 DEF TypeOK
<1>8. TypeOK'
  <2>1. inbox' \in [Nodes -> Seq(Update)]
    BY <1>1, <1>2, <1>5 DEF RestOK
  <2>2. RestOK'
    BY <1>1, <1>5, <1>7, <2>1 DEF RestOK
  <2> QED
    BY <1>6, <2>2 DEF TypeOK, RestOK, ThreadsOK
<1>9. OneThreadConnects'
  <2> SUFFICES ASSUME NEW x \in Nodes
               PROVE  /\ Connecting(x, "main")' => x \notin subscribers_
                      /\ thread'[x]["slave"].pc # "idle" =>
                           x \in subscribers_ /\ Connecting(x, "slave")'
    BY <1>5 DEF OneThreadConnects
  <2>1. CASE x = n
    BY <1>1, <1>4, <1>6, <2>1 DEF IInv, OneThreadConnects, Connecting
  <2>2. CASE x # n
    BY <1>1, <1>6, <2>2 DEF IInv, OneThreadConnects, Connecting
  <2> QED
    BY <2>1, <2>2
<1>10. NothingBefore'
  <2> SUFFICES ASSUME NEW x \in Nodes, x \notin subscribers_,
                      ~Connecting(x, "main")', NEW p \in Nodes
               PROVE  workers'[x][p] = 0
    BY <1>5 DEF NothingBefore
  <2> QED
    BY <1>1, <1>6, <1>7 DEF IInv, NothingBefore, Connecting
<1>11. AheadIsNew'
  <2> SUFFICES ASSUME NEW x \in Nodes, NEW j \in Threads, Connecting(x, j)'
               PROVE  /\ \A p \in thread'[x][j].todo : workers'[x][p] = 0
                      /\ thread'[x][j].peer \in Nodes =>
                           /\ workers'[x][thread'[x][j].peer] = 0
                           /\ thread'[x][j].peer \notin thread'[x][j].todo
    BY DEF AheadIsNew
  <2>1. CASE x = n /\ j = "slave"
    BY <1>3, <1>4, <1>6, <1>7, <2>1, NoNodeAssumption
  <2>2. CASE ~(x = n /\ j = "slave")
    <3>1. thread'[x][j] = thread[x][j] /\ Connecting(x, j)
      BY <1>6, <2>2 DEF Connecting
    <3>2. thread[x][j].todo \subseteq Nodes
      BY <1>1, EachThread DEF ThreadOK, Thread
    <3> QED
      BY <1>7, <3>1, <3>2 DEF IInv, AheadIsNew
  <2> QED
    BY <2>1, <2>2
<1>12. NoDoubleConnection'
  <2> SUFFICES ASSUME NEW x \in Nodes, NEW p \in Nodes PROVE workers'[x][p] <= 1
    BY DEF NoDoubleConnection
  <2> QED
    BY <1>7 DEF IInv, NoDoubleConnection
<1> QED
  BY <1>8, <1>9, <1>10, <1>11, <1>12 DEF IInv

-----------------------------------------------------------------------------
(***************************************************************************)
(* The theorems.                                                           *)
(***************************************************************************)

\* Every step keeps the invariant.
LEMMA NextIInv == IInv /\ [Next]_vars => IInv'
<1> SUFFICES ASSUME IInv, [Next]_vars PROVE IInv'
  OBVIOUS
<1>1. ASSUME NEW n \in Nodes, Application(n) PROVE IInv'
  BY <1>1, ApplicationStep, CrashStep DEF Application
<1>2. ASSUME NEW n \in Nodes, NEW k \in Threads, ThreadStep(n, k) PROVE IInv'
  <2>1. CASE connect(n, k) \/ requestTopic(n, k) \/ GiveUp(n, k)
    BY <2>1, AttemptStep
  <2>2. CASE Open(n, k)
    <3>1. CASE UNCHANGED workers
      <4>1. Failed(n, k) \/ workers' = [workers EXCEPT ![n][thread[n][k].peer] = @ + 1]
        BY <2>2 DEF Open
      <4>2. workers[n][thread[n][k].peer] \in Nat /\ thread[n][k].peer \in Nodes
        BY <2>2 DEF IInv, TypeOK, Open
      <4>3. Failed(n, k)
        BY <3>1, <4>1, <4>2 DEF IInv, TypeOK
      <4> QED
        BY <2>2, <3>1, <4>3, AttemptStep
    <3>2. CASE ~(UNCHANGED workers)
      BY <2>2, <3>2, OpenStep
    <3> QED
      BY <3>1, <3>2
  <2>3. CASE Advertised(n)
    BY <2>3, ApplicationStep
  <2>4. CASE Unadvertised(n)
    BY <2>4, UnadvertisedStep
  <2>5. CASE Subscribed(n)
    BY <2>5, SubscribedStep
  <2>6. CASE publisherUpdate(n)
    BY <2>6, UpdateStep, ReplyStep
  <2>7. CASE Updated(n)
    BY <2>7, ReplyStep
  <2> QED
    BY <1>2, <2>1, <2>2, <2>3, <2>4, <2>5, <2>6, <2>7 DEF ThreadStep
<1>3. CASE spinOnce
  BY <1>3, SpinStep, CallTimeoutStep DEF spinOnce
<1>4. CASE UNCHANGED vars
  BY <1>4, SpinStep
<1> QED
  BY <1>1, <1>2, <1>3, <1>4 DEF Next

\* The invariant holds in every state of every behaviour.
LEMMA SpecIInv == Spec => []IInv
BY InitIInv, NextIInv, PTL DEF Spec

\* Every variable of the nodes and of the master keeps its type, and a thread has
\* a peer exactly while it waits for one.
THEOREM TypeCorrect == Spec => []TypeOK
<1>1. IInv => TypeOK
  BY DEF IInv
<1> QED
  BY <1>1, SpecIInv, PTL

\* However subscribe, publisherUpdate, unadvertise and crashes interleave, a
\* subscriber (rossubscriber.cpp, workers_) never has two connections to one
\* publisher: no message of a topic is received twice.
THEOREM NeverDoublyConnected == Spec => []NoDoubleConnection
<1>1. IInv => NoDoubleConnection
  BY DEF IInv
<1> QED
  BY <1>1, SpecIInv, PTL

-----------------------------------------------------------------------------
(***************************************************************************)
(* How everything settles. A subscriber and a publisher that the master    *)
(* knows are connected, or their attempt failed, or one of the two threads *)
(* of the subscriber has the publisher ahead of it, or a list is on its    *)
(* way. A list that is still to be sent is the current one, or a task will *)
(* send another; of those in an inbox, the last counts.                    *)
(***************************************************************************)
Ahead(s, k, p) ==
  Connecting(s, k) /\ (p \in thread[s][k].todo \/ p = thread[s][k].peer)

Reached(s, p) ==
  \/ workers[s][p] = 1
  \/ <<s, p>> \in lost
  \/ \E k \in Threads : Ahead(s, k, p)

Settling(s, p) ==
  \/ tasks > 0
  \/ s \in todo
  \/ inbox[s] # << >> /\ p \in Last(inbox[s]).pubs
  \/ inbox[s] = << >> /\ Reached(s, p)

CalledAreSubscribers ==
  /\ todo \subseteq subscribers
  /\ \A n \in Nodes : inbox[n] # << >> => n \in subscribers

ListIsCurrent ==
  todo # {} => spin # "idle" /\ (tasks > 0 \/ publishers \subseteq pubs)

LeavingIsUnknown ==
  \A n \in Nodes : thread[n]["main"].pc = "unadvertise" => n \notin publishers

SettlingInv ==
  /\ CalledAreSubscribers
  /\ ListIsCurrent
  /\ LeavingIsUnknown
  /\ \A s \in subscribers \cap alive, p \in publishers \cap alive : Settling(s, p)

\* A step that sends nothing keeps a pair as it is, if it keeps it reached.
LEMMA SettlingStays ==
  ASSUME NEW s \in Nodes, NEW p \in Nodes, Settling(s, p), UNCHANGED <<tasks, todo>>,
         inbox'[s] = inbox[s], Reached(s, p) => Reached(s, p)'
  PROVE  Settling(s, p)'
BY DEF Settling

\* What a step of one thread does to the pairs of its node decides for all.
LEMMA ReachedStays ==
  ASSUME TypeOK, NEW n \in Nodes, NEW k \in Threads, NEW state, ThreadOK(state),
         SetThread(n, k, state), NEW s \in Nodes, NEW p \in Nodes, Reached(s, p),
         workers[s][p] = 1 => workers'[s][p] = 1,
         s # n /\ <<s, p>> \in lost => <<s, p>> \in lost',
         s = n /\ (<<n, p>> \in lost \/ Ahead(n, k, p)) => Reached(s, p)'
  PROVE  Reached(s, p)'
<1>1. \A m \in Nodes, j \in Threads : m # n \/ j # k => thread'[m][j] = thread[m][j]
  BY SetThreadProperties
<1>2. \A j \in Threads : Ahead(s, j, p) /\ (s # n \/ j # k) => Ahead(s, j, p)'
  BY <1>1 DEF Ahead, Connecting
<1> QED
  BY <1>2 DEF Reached

\* Who is leaving stays unknown to the master while it registers nobody.
LEMMA LeavingStays ==
  ASSUME TypeOK, LeavingIsUnknown, NEW n \in Nodes, NEW k \in Threads, NEW state,
         ThreadOK(state), SetThread(n, k, state), k = "main" => state.pc # "unadvertise",
         UNCHANGED publishers
  PROVE  LeavingIsUnknown'
<1>1. /\ thread'[n][k] = state
      /\ \A m \in Nodes, j \in Threads : m # n \/ j # k => thread'[m][j] = thread[m][j]
  BY SetThreadProperties
<1> QED
  BY <1>1 DEF LeavingIsUnknown, Threads

\* A step of one thread that neither the master nor the inboxes notice.
LEMMA ThreadSettles ==
  ASSUME IInv, SettlingInv, NEW n \in Nodes, NEW k \in Threads, NEW state,
         ThreadOK(state), SetThread(n, k, state), k = "main" => state.pc # "unadvertise",
         UNCHANGED <<publishers, subscribers, tasks, pubs, todo, alive, inbox>>,
         spin' = spin \/ spin' = "walk",
         \A s, p \in Nodes : /\ workers[s][p] = 1 => workers'[s][p] = 1
                             /\ s # n /\ <<s, p>> \in lost => <<s, p>> \in lost',
         \A p \in Nodes : <<n, p>> \in lost \/ Ahead(n, k, p) => Reached(n, p)'
  PROVE  SettlingInv'
<1>1. TypeOK /\ subscribers \subseteq Nodes /\ publishers \subseteq Nodes
  BY DEF IInv, TypeOK
<1>2. CalledAreSubscribers' /\ ListIsCurrent'
  BY DEF SettlingInv, CalledAreSubscribers, ListIsCurrent
<1>3. LeavingIsUnknown'
  BY <1>1, LeavingStays DEF SettlingInv
<1>4. ASSUME NEW s \in subscribers \cap alive, NEW p \in publishers \cap alive
      PROVE  Settling(s, p)'
  <2>1. s \in Nodes /\ p \in Nodes /\ Settling(s, p)
    BY <1>1 DEF SettlingInv
  <2>2. /\ workers[s][p] = 1 => workers'[s][p] = 1
        /\ s # n /\ <<s, p>> \in lost => <<s, p>> \in lost'
        /\ s = n /\ (<<n, p>> \in lost \/ Ahead(n, k, p)) => Reached(s, p)'
    BY <2>1
  <2>3. Reached(s, p) => Reached(s, p)'
    BY <1>1, <2>1, <2>2, ReachedStays
  <2> QED
    BY <2>1, <2>3, SettlingStays
<1> QED
  BY <1>2, <1>3, <1>4 DEF SettlingInv

\* The new state of a thread decides what its node has ahead.
LEMMA AheadAfter ==
  ASSUME TypeOK, NEW n \in Nodes, NEW k \in Threads, NEW state, ThreadOK(state),
         SetThread(n, k, state), state.pc \in {"loop", "request", "open", "hung"},
         NEW p \in Nodes, p \in state.todo \/ p = state.peer
  PROVE  Reached(n, p)'
<1>1. thread'[n][k] = state
  BY SetThreadProperties
<1> QED
  BY <1>1 DEF Reached, Ahead, Connecting

\* An attempt that fails is remembered; the publishers ahead stay ahead.
LEMMA FailedSettles ==
  ASSUME IInv, SettlingInv, NEW n \in Nodes, NEW k \in Threads, Failed(n, k),
         UNCHANGED <<masterVars, alive, inbox, workers>>
  PROVE  SettlingInv'
<1> DEFINE new == Loop(thread[n][k].todo, thread[n][k].live)
<1>1. TypeOK
  BY DEF IInv
<1>2. ThreadOK(new) /\ new.pc = "loop" /\ new.todo = thread[n][k].todo
  BY <1>1, LoopAgain
<1>3. SetThread(n, k, new) /\ lost' = lost \cup {<<n, thread[n][k].peer>>}
  BY DEF Failed
<1> HIDE DEF new
<1>4. ASSUME NEW p \in Nodes, <<n, p>> \in lost \/ Ahead(n, k, p) PROVE Reached(n, p)'
  <2>1. CASE p \in thread[n][k].todo
    BY <1>1, <1>2, <1>3, <2>1, AheadAfter
  <2>2. CASE p \notin thread[n][k].todo
    BY <1>3, <1>4, <2>2 DEF Ahead, Reached
  <2> QED
    BY <2>1, <2>2
<1>5. \A s, p \in Nodes : /\ workers[s][p] = 1 => workers'[s][p] = 1
                          /\ s # n /\ <<s, p>> \in lost => <<s, p>> \in lost'
  BY <1>3
<1>6. UNCHANGED <<publishers, subscribers, tasks, pubs, todo, alive, inbox, spin>>
  BY DEF masterVars
<1> QED
  BY <1>2, <1>3, <1>4, <1>5, <1>6, ThreadSettles

\* Whatever becomes of an attempt, the publisher it is for is not forgotten.
LEMMA AttemptSettles ==
  ASSUME IInv, SettlingInv, NEW n \in Nodes, NEW k \in Threads,
         connect(n, k) \/ requestTopic(n, k) \/ GiveUp(n, k) \/ Open(n, k)
  PROVE  SettlingInv'
<1> DEFINE old == thread[n][k]
<1>1. TypeOK /\ old \in Thread
  BY DEF IInv, TypeOK
<1>2. UNCHANGED <<publishers, subscribers, tasks, pubs, todo, alive, inbox, spin>>
  BY DEF connect, requestTopic, GiveUp, Open, masterVars
<1>3. CASE Failed(n, k) /\ UNCHANGED workers
  <2>1. UNCHANGED <<masterVars, alive, inbox, workers>>
    BY <1>3 DEF connect, requestTopic, GiveUp, Open
  <2> QED
    BY <1>3, <2>1, FailedSettles
<1>4. CASE connect(n, k)
  <2>1. PICK q \in old.todo :
          /\ SetThread(n, k, [old EXCEPT !.pc = "request", !.peer = q, !.todo = @ \ {q}])
          /\ lost' = lost \ {<<n, q>>}
    BY <1>4 DEF connect
  <2> DEFINE new == [old EXCEPT !.pc = "request", !.peer = q, !.todo = @ \ {q}]
  <2>2. old.pc = "loop" /\ q \in Nodes /\ UNCHANGED workers
    BY <1>1, <1>4 DEF connect, Thread
  <2>3. new \in Thread /\ new.pc = "request" /\ new.peer = q /\ new.todo = old.todo \ {q}
    BY <1>1, <2>2 DEF Thread
  <2>4. ThreadOK(new)
    BY <2>2, <2>3 DEF ThreadOK
  <2>5. SetThread(n, k, new)
    BY <2>1
  <2>6. \A p \in Nodes : p # old.peer
    BY <1>1, <2>2 DEF TypeOK
  <2> HIDE DEF new
  <2>7. ASSUME NEW p \in Nodes, <<n, p>> \in lost \/ Ahead(n, k, p) PROVE Reached(n, p)'
    <3>1. CASE p = q \/ p \in old.todo
      BY <1>1, <2>3, <2>4, <2>5, <3>1, AheadAfter
    <3>2. CASE p # q /\ p \notin old.todo
      BY <2>1, <2>6, <2>7, <3>2 DEF Ahead, Reached
    <3> QED
      BY <3>1, <3>2
  <2>8. \A s, p \in Nodes : /\ workers[s][p] = 1 => workers'[s][p] = 1
                            /\ s # n /\ <<s, p>> \in lost => <<s, p>> \in lost'
    BY <2>1, <2>2
  <2> HIDE DEF old
  <2> QED
    BY <1>2, <2>3, <2>4, <2>5, <2>7, <2>8, ThreadSettles
<1>5. CASE requestTopic(n, k) /\ SetThread(n, k, [old EXCEPT !.pc = "open"]) /\ UNCHANGED lost
  <2> DEFINE new == [old EXCEPT !.pc = "open"]
  <2>1. old.pc = "request" /\ old.peer \in Nodes /\ UNCHANGED workers
    BY <1>1, <1>5 DEF requestTopic, TypeOK
  <2>2. new \in Thread /\ new.pc = "open" /\ new.peer = old.peer /\ new.todo = old.todo
    BY <1>1 DEF Thread
  <2>3. ThreadOK(new)
    BY <2>1, <2>2 DEF ThreadOK
  <2>4. SetThread(n, k, new)
    BY <1>5
  <2> HIDE DEF new
  <2>5. ASSUME NEW p \in Nodes, <<n, p>> \in lost \/ Ahead(n, k, p) PROVE Reached(n, p)'
    <3>1. CASE <<n, p>> \in lost
      BY <1>5, <3>1 DEF Reached
    <3>2. CASE Ahead(n, k, p)
      BY <1>1, <2>2, <2>3, <2>4, <3>2, AheadAfter DEF Ahead
    <3> QED
      BY <2>5, <3>1, <3>2
  <2>6. \A s, p \in Nodes : /\ workers[s][p] = 1 => workers'[s][p] = 1
                            /\ s # n /\ <<s, p>> \in lost => <<s, p>> \in lost'
    BY <1>5, <2>1
  <2> HIDE DEF old
  <2> QED
    BY <1>2, <2>2, <2>3, <2>4, <2>5, <2>6, ThreadSettles
<1>6. CASE Open(n, k) /\ workers' = [workers EXCEPT ![n][old.peer] = @ + 1]
           /\ lost' = lost \ {<<n, old.peer>>} /\ SetThread(n, k, Loop(old.todo, old.live))
  <2> DEFINE new == Loop(old.todo, old.live)
  <2>1. old.pc = "open" /\ old.peer \in Nodes
    BY <1>1, <1>6 DEF Open, TypeOK
  <2>2. ThreadOK(new) /\ new.pc = "loop" /\ new.todo = old.todo
    BY <1>1, LoopAgain
  <2>3. SetThread(n, k, new)
    BY <1>6
  <2> HIDE DEF new
  <2>4. workers[n][old.peer] = 0
    BY <2>1 DEF IInv, AheadIsNew, Connecting
  <2>5. /\ workers'[n][old.peer] = 1
        /\ \A s, p \in Nodes : s # n \/ p # old.peer => workers'[s][p] = workers[s][p]
    BY <1>1, <1>6, <2>1, <2>4 DEF TypeOK
  <2>6. ASSUME NEW p \in Nodes, <<n, p>> \in lost \/ Ahead(n, k, p) PROVE Reached(n, p)'
    <3>1. CASE p = old.peer
      BY <2>5, <3>1 DEF Reached
    <3>2. CASE p \in old.todo
      BY <1>1, <2>2, <2>3, <3>2, AheadAfter
    <3>3. CASE p # old.peer /\ p \notin old.todo
      BY <1>6, <2>6, <3>3 DEF Ahead, Reached
    <3> QED
      BY <3>1, <3>2, <3>3
  <2>7. \A s, p \in Nodes : /\ workers[s][p] = 1 => workers'[s][p] = 1
                            /\ s # n /\ <<s, p>> \in lost => <<s, p>> \in lost'
    BY <1>6, <2>4, <2>5
  <2> HIDE DEF old
  <2> QED
    BY <1>2, <2>2, <2>3, <2>6, <2>7, ThreadSettles
<1>7. requestTopic(n, k) => \/ SetThread(n, k, [old EXCEPT !.pc = "open"]) /\ UNCHANGED lost
                            \/ Failed(n, k) /\ UNCHANGED workers
  BY DEF requestTopic
<1>8. Open(n, k) => \/ /\ workers' = [workers EXCEPT ![n][old.peer] = @ + 1]
                       /\ lost' = lost \ {<<n, old.peer>>}
                       /\ SetThread(n, k, Loop(old.todo, old.live))
                    \/ Failed(n, k) /\ UNCHANGED workers
  BY DEF Open
<1>9. GiveUp(n, k) => Failed(n, k) /\ UNCHANGED workers
  BY DEF GiveUp
<1> QED
  BY <1>3, <1>4, <1>5, <1>6, <1>7, <1>8, <1>9

\* A main thread that registers has nothing ahead to lose: a new subscriber gets
\* the publishers ahead, a new publisher is announced to who subscribes.
LEMMA RegistrationSettles ==
  ASSUME IInv, SettlingInv, NEW n \in Nodes, subscribe(n) \/ advertise(n) \/ unadvertise(n)
  PROVE  SettlingInv'
<1>1. /\ TypeOK /\ "main" \in Threads /\ thread[n]["main"].pc = "idle"
      /\ subscribers \subseteq Nodes /\ publishers \subseteq Nodes
  BY DEF IInv, TypeOK, Threads, subscribe, advertise, unadvertise, MainIdle
<1>2. UNCHANGED <<spin, pubs, todo, alive, inbox, workers, lost>>
  BY DEF subscribe, advertise, unadvertise
<1>3. ASSUME NEW state, ThreadOK(state), SetThread(n, "main", state),
             NEW s \in Nodes, NEW p \in Nodes, Reached(s, p)
      PROVE  Reached(s, p)'
  <2>1. ~Ahead(n, "main", p)
    BY <1>1 DEF Ahead, Connecting
  <2>2. <<n, p>> \in lost => Reached(n, p)'
    BY <1>2 DEF Reached
  <2> QED
    BY <1>1, <1>2, <1>3, <2>1, <2>2, ReachedStays
<1>4. CASE subscribe(n)
  <2> DEFINE new == Loop(publishers, FALSE)
  <2>1. /\ SetThread(n, "main", new) /\ subscribers' = subscribers \cup {n}
        /\ UNCHANGED <<publishers, tasks>>
    BY <1>4 DEF subscribe
  <2>2. ThreadOK(new) /\ new.pc = "loop" /\ new.todo = publishers
    BY <1>1, ThreadStates
  <2> HIDE DEF new
  <2>3. CalledAreSubscribers' /\ ListIsCurrent'
    BY <1>2, <2>1 DEF SettlingInv, CalledAreSubscribers, ListIsCurrent
  <2>4. LeavingIsUnknown'
    BY <1>1, <2>1, <2>2, LeavingStays DEF SettlingInv
  <2>5. ASSUME NEW s \in subscribers' \cap alive, NEW p \in publishers \cap alive
        PROVE  Settling(s, p)'
    <3>1. s \in Nodes /\ p \in Nodes
      BY <1>1, <2>1
    <3>2. CASE s \in subscribers
      <4>1. Settling(s, p)
        BY <3>2 DEF SettlingInv
      <4>2. Reached(s, p) => Reached(s, p)'
        BY <1>3, <2>1, <2>2, <3>1
      <4> QED
        BY <1>2, <2>1, <3>1, <4>1, <4>2, SettlingStays
    <3>3. CASE s \notin subscribers
      <4>1. s = n /\ inbox[s] = << >>
        BY <2>1, <3>1, <3>3 DEF SettlingInv, CalledAreSubscribers
      <4>2. Reached(s, p)'
        BY <1>1, <2>1, <2>2, <3>1, <4>1, AheadAfter
      <4> QED
        BY <1>2, <4>1, <4>2 DEF Settling
    <3> QED
      BY <3>2, <3>3
  <2> QED
    BY <1>2, <2>1, <2>3, <2>4, <2>5 DEF SettlingInv
<1>5. CASE advertise(n)
  <2>1. /\ SetThread(n, "main", Busy("advertise")) /\ publishers' = publishers \cup {n}
        /\ subscribers' = subscribers
        /\ tasks' = IF publishers = {} /\ subscribers = {} THEN tasks ELSE tasks + 1
    BY <1>5 DEF advertise, QueueTask
  <2>2. ThreadOK(Busy("advertise")) /\ Busy("advertise").pc = "advertise"
    BY ThreadStates
  <2>3. subscribers # {} => tasks' > 0
    BY <1>1, <2>1 DEF TypeOK
  <2>4. CalledAreSubscribers' /\ ListIsCurrent'
    BY <1>2, <2>1, <2>3 DEF SettlingInv, CalledAreSubscribers, ListIsCurrent
  <2>5. LeavingIsUnknown'
    <3>1. /\ thread'[n]["main"] = Busy("advertise")
          /\ \A m \in Nodes : m # n => thread'[m]["main"] = thread[m]["main"]
      BY <1>1, <2>1, <2>2, SetThreadProperties
    <3> QED
      BY <2>1, <2>2, <3>1 DEF SettlingInv, LeavingIsUnknown
  <2>6. ASSUME NEW s \in subscribers', NEW p PROVE Settling(s, p)'
    BY <2>1, <2>3 DEF Settling
  <2> QED
    BY <2>4, <2>5, <2>6 DEF SettlingInv
<1>6. CASE unadvertise(n)
  <2>1. /\ SetThread(n, "main", Busy("unadvertise")) /\ publishers' = publishers \ {n}
        /\ subscribers' = subscribers
        /\ tasks' = tasks \/ tasks' = tasks + 1
    BY <1>6 DEF unadvertise
  <2>2. ThreadOK(Busy("unadvertise")) /\ Busy("unadvertise").pc = "unadvertise"
    BY ThreadStates
  <2>3. tasks \in Nat
    BY <1>1 DEF TypeOK
  <2>4. CalledAreSubscribers' /\ ListIsCurrent'
    BY <1>2, <2>1, <2>3 DEF SettlingInv, CalledAreSubscribers, ListIsCurrent
  <2>5. LeavingIsUnknown'
    <3>1. \A m \in Nodes : m # n => thread'[m]["main"] = thread[m]["main"]
      BY <1>1, <2>1, <2>2, SetThreadProperties
    <3> QED
      BY <2>1, <3>1 DEF SettlingInv, LeavingIsUnknown
  <2>6. ASSUME NEW s \in subscribers \cap alive, NEW p \in publishers' \cap alive
        PROVE  Settling(s, p)'
    <3>1. s \in Nodes /\ p \in Nodes /\ p \in publishers /\ Settling(s, p)
      BY <1>1, <2>1 DEF SettlingInv
    <3>2. Reached(s, p) => Reached(s, p)'
      BY <1>3, <2>1, <2>2, <3>1
    <3>3. CASE tasks' = tasks
      BY <1>2, <3>1, <3>2, <3>3, SettlingStays
    <3>4. CASE tasks' = tasks + 1
      BY <2>3, <3>4 DEF Settling
    <3> QED
      BY <2>1, <3>3, <3>4
  <2> QED
    BY <1>2, <2>1, <2>4, <2>5, <2>6 DEF SettlingInv
<1> QED
  BY <1>4, <1>5, <1>6

\* A thread that had nothing ahead is idle: its call returns.
LEMMA ReturnSettles ==
  ASSUME IInv, SettlingInv, NEW n \in Nodes,
         Advertised(n) \/ Subscribed(n) \/ Updated(n)
  PROVE  SettlingInv'
<1> USE DEF Threads
<1>1. TypeOK /\ ThreadOK(Idle) /\ Idle.pc = "idle"
  BY ThreadStates DEF IInv
<1>2. /\ UNCHANGED <<publishers, subscribers, tasks, pubs, todo, alive, inbox>>
      /\ UNCHANGED <<workers, lost>>
      /\ spin' = spin \/ spin' = "walk"
  BY DEF Advertised, Subscribed, Updated, Reply, masterVars
<1>3. PICK k \in Threads : /\ SetThread(n, k, Idle)
                           /\ thread[n][k].pc = "advertise" \/
                              (thread[n][k].pc = "loop" /\ thread[n][k].todo = {})
  BY DEF Advertised, Subscribed, Updated
<1>4. ASSUME NEW p \in Nodes PROVE ~Ahead(n, k, p)
  <2>1. thread[n][k].pc \in {"request", "open"} <=> thread[n][k].peer \in Nodes
    BY <1>1 DEF TypeOK
  <2>2. thread[n][k].pc = "loop" => p # thread[n][k].peer
    BY <2>1
  <2> QED
    BY <1>3, <2>2 DEF Ahead, Connecting
<1>5. \A p \in Nodes : <<n, p>> \in lost \/ Ahead(n, k, p) => Reached(n, p)'
  BY <1>2, <1>4 DEF Reached
<1>6. \A s, p \in Nodes : /\ workers[s][p] = 1 => workers'[s][p] = 1
                          /\ s # n /\ <<s, p>> \in lost => <<s, p>> \in lost'
  BY <1>2
<1> QED
  BY <1>1, <1>2, <1>3, <1>5, <1>6, ThreadSettles

\* A step that changes the inbox of one node, and sends nothing else.
LEMMA OthersSettle ==
  ASSUME IInv, SettlingInv, NEW n \in Nodes, CalledAreSubscribers', ListIsCurrent',
         LeavingIsUnknown', UNCHANGED <<publishers, subscribers, tasks, todo, alive>>,
         \A s \in Nodes : s # n => inbox'[s] = inbox[s],
         \A s \in subscribers \cap alive, p \in publishers \cap alive :
           /\ s # n /\ Reached(s, p) => Reached(s, p)'
           /\ s = n /\ Settling(s, p) => Settling(s, p)'
  PROVE  SettlingInv'
<1>1. subscribers \subseteq Nodes /\ publishers \subseteq Nodes
  BY DEF IInv, TypeOK
<1>2. ASSUME NEW s \in subscribers \cap alive, NEW p \in publishers \cap alive
      PROVE  Settling(s, p)'
  <2>1. s \in Nodes /\ p \in Nodes /\ Settling(s, p)
    BY <1>1 DEF SettlingInv
  <2>2. CASE s = n
    BY <2>1, <2>2
  <2>3. CASE s # n
    BY <2>1, <2>3, SettlingStays
  <2> QED
    BY <2>2, <2>3
<1> QED
  BY <1>2 DEF SettlingInv

\* A list that is handled was the last, and now its publishers are ahead, or
\* their notice is lost, or the last is still there.
LEMMA HandledSettles ==
  ASSUME IInv, SettlingInv, NEW n \in Nodes, publisherUpdate(n)
  PROVE  SettlingInv'
<1> DEFINE m == Head(inbox[n])
           new == Loop(m.pubs, m.live)
<1>1. /\ TypeOK /\ "slave" \in Threads /\ inbox \in [Nodes -> Seq(Update)]
      /\ inbox[n] # << >> /\ inbox' = [inbox EXCEPT ![n] = Tail(@)]
  BY DEF IInv, TypeOK, Threads, publisherUpdate
<1>2. /\ UNCHANGED <<publishers, subscribers, tasks, pubs, todo, alive>>
      /\ spin' = spin \/ spin' = "walk"
  BY DEF publisherUpdate, Reply
<1>3. inbox[n] \in Seq(Update) /\ m \in Update /\ inbox'[n] = Tail(inbox[n])
  BY <1>1
<1>4. m.pubs \in SUBSET Nodes /\ m.live \in BOOLEAN
  BY <1>3 DEF Update
<1>5. \A s \in Nodes : s # n => inbox'[s] = inbox[s]
  BY <1>1
<1>6. \/ inbox'[n] # << >> /\ Last(inbox'[n]) = Last(inbox[n])
      \/ inbox'[n] = << >> /\ Last(inbox[n]) = m
  <2> DEFINE q == inbox[n]
  <2>1. q \in Seq(Update) /\ q # << >>
    BY <1>1, <1>3
  <2> HIDE DEF q
  <2>2. /\ Tail(q) \in Seq(Update) /\ Len(q) \in Nat /\ Len(q) > 0
        /\ Len(Tail(q)) = Len(q) - 1 /\ Head(q) = q[1]
    BY <2>1
  <2>3. \A i \in 1..Len(q) - 1 : Tail(q)[i] = q[i + 1]
    BY <2>1, <2>2
  <2>4. Tail(q) = << >> <=> Len(Tail(q)) = 0
    <3> DEFINE r == Tail(q)
    <3>1. r \in Seq(Update)
      BY <2>2
    <3> HIDE DEF r
    <3>2. r = << >> <=> Len(r) = 0
      BY <3>1
    <3> QED
      BY <3>2 DEF r
  <2>5. CASE Len(q) = 1
    <3>1. Tail(q) = << >> /\ Last(q) = Head(q)
      BY <2>2, <2>4, <2>5 DEF Last
    <3> QED
      BY <1>3, <3>1 DEF q
  <2>6. CASE Len(q) # 1
    <3>1. /\ Len(Tail(q)) \in 1..Len(q) - 1 /\ Len(Tail(q)) + 1 = Len(q)
          /\ Len(Tail(q)) # 0
      BY <2>2, <2>6
    <3>2. Tail(q)[Len(Tail(q))] = q[Len(q)]
      BY <2>3, <3>1
    <3>3. Tail(q) # << >> /\ Last(Tail(q)) = Last(q)
      BY <2>4, <3>1, <3>2, Zenon DEF Last
    <3> QED
      BY <1>3, <3>3 DEF q
  <2> QED
    BY <2>5, <2>6
<1>7. CalledAreSubscribers' /\ ListIsCurrent'
  BY <1>1, <1>2, <1>3, <1>5 DEF SettlingInv, CalledAreSubscribers, ListIsCurrent
<1>8. ASSUME \A p \in m.pubs : Reached(n, p)'
      PROVE  \A p : Settling(n, p) => Settling(n, p)'
  <2> TAKE p
  <2>1. CASE tasks > 0 \/ n \in todo
    BY <1>2, <2>1 DEF Settling
  <2>2. CASE p \in Last(inbox[n]).pubs
    BY <1>6, <1>8, <2>2 DEF Settling
  <2> HIDE DEF m
  <2> QED
    BY <1>1, <2>1, <2>2 DEF Settling
<1>9. CASE n \in subscribers_ /\ SetThread(n, "slave", new) /\ lost' = lost
           /\ workers' = [workers EXCEPT ![n] = DropConnections(n, m.pubs)]
  <2>1. ThreadOK(new) /\ new.pc = "loop" /\ new.todo = m.pubs
    BY <1>4, ThreadStates
  <2> HIDE DEF new
  <2>2. LeavingIsUnknown'
    BY <1>1, <1>2, <1>9, <2>1, LeavingStays DEF SettlingInv
  <2>3. \A p \in m.pubs : Reached(n, p)'
    BY <1>1, <1>4, <1>9, <2>1, AheadAfter
  <2>4. ASSUME NEW s \in Nodes, NEW p \in Nodes, s # n, Reached(s, p)
        PROVE  Reached(s, p)'
    <3>1. workers'[s][p] = workers[s][p]
      BY <1>1, <1>9, <2>4 DEF TypeOK
    <3> QED
      BY <1>1, <1>9, <2>1, <2>4, <3>1, ReachedStays
  <2>5. subscribers \subseteq Nodes /\ publishers \subseteq Nodes
    BY <1>1 DEF TypeOK
  <2> HIDE DEF m
  <2> QED
    BY <1>2, <1>5, <1>7, <1>8, <2>2, <2>3, <2>4, <2>5, OthersSettle
<1>10. CASE n \notin subscribers_ /\ lost' = lost \cup ({n} \X m.pubs)
            /\ UNCHANGED <<workers, thread>>
  <2>1. LeavingIsUnknown'
    BY <1>2, <1>10 DEF SettlingInv, LeavingIsUnknown
  <2>2. \A p \in m.pubs : Reached(n, p)'
    BY <1>10 DEF Reached
  <2>3. \A s, p \in Nodes : Reached(s, p) => Reached(s, p)'
    BY <1>10 DEF Reached, Ahead, Connecting
  <2>4. subscribers \subseteq Nodes /\ publishers \subseteq Nodes
    BY <1>1 DEF TypeOK
  <2> HIDE DEF m
  <2> QED
    BY <1>2, <1>5, <1>7, <1>8, <2>1, <2>2, <2>3, <2>4, OthersSettle
<1> QED
  BY <1>9, <1>10 DEF publisherUpdate

\* Closed sockets are those of a publisher the master does not know any more.
LEMMA LeftSettles ==
  ASSUME IInv, SettlingInv, NEW n \in Nodes, Unadvertised(n)
  PROVE  SettlingInv'
<1> DEFINE state == [thread EXCEPT ![n]["main"] = Idle]
           hit(m, j) == state[m][j].pc = "open" /\ state[m][j].peer = n
<1>1. "main" \in Threads /\ TypeOK /\ ThreadOK(Idle) /\ Idle.pc = "idle"
  BY ThreadStates DEF Threads, IInv
<1>2. /\ thread[n]["main"].pc = "unadvertise" /\ n \notin publishers
      /\ UNCHANGED <<publishers, subscribers, tasks, spin, pubs, todo, alive, inbox>>
  BY DEF Unadvertised, masterVars, SettlingInv, LeavingIsUnknown
<1>3. /\ state[n]["main"] = Idle
      /\ \A m \in Nodes, j \in Threads :
           m # n \/ j # "main" => state[m][j] = thread[m][j]
  BY <1>1 DEF TypeOK, ThreadOK
<1>3a. CloseSockets(n, state) \/ (thread' = state /\ UNCHANGED <<workers, lost>>)
  BY DEF Unadvertised
<1> HIDE DEF state
<1>4. ASSUME NEW m \in Nodes, NEW j \in Threads
      PROVE  \/ /\ m # n \/ j # "main"
                /\ thread[m][j].pc = "open" /\ thread[m][j].peer = n
                /\ thread'[m][j] = Loop(thread[m][j].todo, thread[m][j].live)
             \/ (m # n \/ j # "main") /\ thread'[m][j] = thread[m][j]
             \/ m = n /\ j = "main" /\ thread'[m][j] = Idle
  <2>1. \/ hit(m, j) /\ thread'[m][j] = Loop(state[m][j].todo, state[m][j].live)
        \/ thread'[m][j] = state[m][j]
    BY <1>3a DEF CloseSockets
  <2> QED
    BY <1>1, <1>3, <2>1
<1>5. ASSUME NEW m \in Nodes, NEW j \in Threads
      PROVE  LET l == Loop(thread[m][j].todo, thread[m][j].live)
             IN l.pc = "loop" /\ l.todo = thread[m][j].todo
  BY <1>1, LoopAgain
<1>6. LeavingIsUnknown'
  <2>1. \A m \in Nodes : thread'[m]["main"].pc = "unadvertise" => thread[m]["main"].pc = "unadvertise"
    BY <1>1, <1>4, <1>5
  <2> QED
    BY <1>2, <2>1 DEF SettlingInv, LeavingIsUnknown
<1>7. CalledAreSubscribers' /\ ListIsCurrent'
  BY <1>2 DEF SettlingInv, CalledAreSubscribers, ListIsCurrent
<1>8. /\ \A s, p \in Nodes : p # n => workers'[s][p] = workers[s][p]
      /\ lost \subseteq lost'
  <2>1. CASE CloseSockets(n, state)
    <3>1. /\ workers' = [s \in Nodes |-> [workers[s] EXCEPT ![n] = 0]]
          /\ lost \subseteq lost'
      BY <2>1 DEF CloseSockets
    <3> QED
      BY <1>1, <3>1 DEF TypeOK
  <2>2. CASE thread' = state /\ UNCHANGED <<workers, lost>>
    BY <2>2
  <2> QED
    BY <1>3a, <2>1, <2>2
<1>9. ASSUME NEW s \in Nodes, NEW p \in Nodes, p # n, Reached(s, p)
      PROVE  Reached(s, p)'
  <2>1. ASSUME NEW j \in Threads, Ahead(s, j, p) PROVE Ahead(s, j, p)'
    <3>1. s # n \/ j # "main"
      BY <1>2, <2>1 DEF Ahead, Connecting
    <3> QED
      BY <1>4, <1>5, <1>9, <2>1, <3>1 DEF Ahead, Connecting
  <2> QED
    BY <1>8, <1>9, <2>1 DEF Reached
<1>10. ASSUME NEW s \in subscribers \cap alive, NEW p \in publishers \cap alive
       PROVE  Settling(s, p)'
  <2>1. s \in Nodes /\ p \in Nodes /\ p # n /\ Settling(s, p)
    BY <1>1, <1>2 DEF SettlingInv, TypeOK
  <2> QED
    BY <1>2, <1>9, <2>1, SettlingStays
<1> QED
  BY <1>2, <1>6, <1>7, <1>10 DEF SettlingInv

\* A crash takes the pairs of its node with it, and no other publisher.
LEMMA CrashSettles ==
  ASSUME IInv, SettlingInv, NEW n \in Nodes, Crash(n)
  PROVE  SettlingInv'
<1>1. TypeOK /\ "main" \in Threads /\ Idle.pc = "idle"
  BY ThreadStates DEF IInv, Threads
<1>2. /\ alive' = alive \ {n} /\ inbox' = [inbox EXCEPT ![n] = << >>]
      /\ UNCHANGED <<publishers, subscribers, tasks, spin, pubs, todo, lost>>
  BY DEF Crash, masterVars
<1>3. ASSUME NEW m \in Nodes, NEW j \in Threads
      PROVE  \/ m = n /\ thread'[m][j] = Idle
             \/ /\ m # n /\ thread[m][j].peer = n
                /\ \E pc \in {"loop", "hung"} : thread'[m][j] = Bereft(m, j, pc)
             \/ m # n /\ thread'[m][j] = thread[m][j]
  <2>1. PICK hangs : thread' = [s \in Nodes |-> [k \in Threads |->
                       IF s = n THEN Idle
                       ELSE IF thread[s][k].peer # n THEN thread[s][k]
                       ELSE Bereft(s, k, IF <<s, k>> \in hangs THEN "hung" ELSE "loop")]]
    BY DEF Crash, Bereft
  <2>2. thread'[m][j] = IF m = n THEN Idle
                        ELSE IF thread[m][j].peer # n THEN thread[m][j]
                        ELSE Bereft(m, j, IF <<m, j>> \in hangs THEN "hung" ELSE "loop")
    BY <2>1
  <2> QED
    BY <2>2
<1>4. ASSUME NEW m \in Nodes, NEW j \in Threads, NEW pc \in {"loop", "hung"}
      PROVE  Bereft(m, j, pc).pc = pc /\ Bereft(m, j, pc).todo = thread[m][j].todo
  BY DEF Bereft, Loop
<1>5. LeavingIsUnknown'
  <2>1. \A m \in Nodes : thread'[m]["main"].pc = "unadvertise" => thread[m]["main"].pc = "unadvertise"
    BY <1>1, <1>3, <1>4
  <2> QED
    BY <1>2, <2>1 DEF SettlingInv, LeavingIsUnknown
<1>6. \A s \in Nodes : s # n => inbox'[s] = inbox[s]
  BY <1>1, <1>2 DEF TypeOK
<1>7. CalledAreSubscribers' /\ ListIsCurrent'
  BY <1>1, <1>2 DEF SettlingInv, CalledAreSubscribers, ListIsCurrent, TypeOK
<1>8. ASSUME NEW s \in Nodes, NEW p \in Nodes, s # n, p # n, Reached(s, p)
      PROVE  Reached(s, p)'
  <2>1. workers'[s][p] = workers[s][p]
    BY <1>8 DEF Crash
  <2>2. ASSUME NEW j \in Threads, Ahead(s, j, p) PROVE Ahead(s, j, p)'
    BY <1>3, <1>4, <1>8, <2>2 DEF Ahead, Connecting
  <2> QED
    BY <1>2, <1>8, <2>1, <2>2 DEF Reached
<1>9. ASSUME NEW s \in subscribers \cap alive', NEW p \in publishers \cap alive'
      PROVE  Settling(s, p)'
  <2>1. s \in Nodes /\ p \in Nodes /\ s # n /\ p # n /\ Settling(s, p)
    BY <1>1, <1>2 DEF SettlingInv, TypeOK
  <2> QED
    BY <1>2, <1>6, <1>8, <2>1, SettlingStays
<1> QED
  BY <1>2, <1>5, <1>7, <1>9 DEF SettlingInv

\* The spin thread: a task sends the current list to every subscriber, and a list
\* that reaches an inbox is its last.
LEMMA SpinSettles ==
  ASSUME IInv, SettlingInv, PopTask \/ (\E n \in Nodes : Call(n)) \/ EndTask
  PROVE  SettlingInv'
<1>1. TypeOK /\ subscribers \subseteq Nodes /\ publishers \subseteq Nodes
  BY DEF IInv, TypeOK
<1>2. UNCHANGED <<publishers, subscribers, alive, thread, workers, lost>>
  BY DEF PopTask, Call, EndTask, nodeVars
<1>3. LeavingIsUnknown'
  BY <1>2 DEF SettlingInv, LeavingIsUnknown
<1>4. \A s, p : Reached(s, p) => Reached(s, p)'
  BY <1>2 DEF Reached, Ahead, Connecting
<1>5. CASE PopTask
  <2>1. CalledAreSubscribers' /\ ListIsCurrent'
    BY <1>5 DEF SettlingInv, CalledAreSubscribers, ListIsCurrent, PopTask, nodeVars
  <2>2. \A s \in subscribers : \A p : Settling(s, p)'
    BY <1>5 DEF PopTask, Settling
  <2> QED
    BY <1>2, <1>3, <2>1, <2>2 DEF SettlingInv
<1>6. ASSUME NEW n \in Nodes, Call(n) PROVE SettlingInv'
  <2> DEFINE m == [pubs |-> pubs, live |-> TRUE]
  <2>1. /\ n \in todo /\ todo' = todo \ {n} /\ UNCHANGED <<tasks, pubs>>
        /\ spin = "walk" /\ (spin' = spin \/ spin' = "call")
    BY <1>6 DEF Call
  <2>2. \/ n \in alive /\ inbox' = [inbox EXCEPT ![n] = Append(inbox[n], m)]
        \/ n \notin alive /\ UNCHANGED inbox
    BY <1>6 DEF Call
  <2>3. m.pubs = pubs
    OBVIOUS
  <2> HIDE DEF m
  <2>4. inbox \in [Nodes -> Seq(Update)] /\ (tasks > 0 \/ publishers \subseteq pubs)
    BY <1>1, <2>1 DEF TypeOK, SettlingInv, ListIsCurrent
  <2>5. \A s \in Nodes : s # n => inbox'[s] = inbox[s]
    BY <2>2, <2>4
  <2>6. CalledAreSubscribers' /\ ListIsCurrent'
    BY <1>2, <2>1, <2>5 DEF SettlingInv, CalledAreSubscribers, ListIsCurrent
  <2>7. n \in alive => inbox'[n] # << >> /\ Last(inbox'[n]).pubs = pubs
    <3> SUFFICES ASSUME n \in alive PROVE inbox'[n] # << >> /\ Last(inbox'[n]).pubs = pubs
      OBVIOUS
    <3> DEFINE q == inbox[n]
    <3>1. q \in Seq(Update) /\ inbox'[n] = Append(q, m)
      BY <2>2, <2>4
    <3> HIDE DEF q
    <3>2. Len(Append(q, m)) = Len(q) + 1 /\ Append(q, m)[Len(q) + 1] = m /\ Len(q) \in Nat
      BY <3>1
    <3>3. Append(q, m) # << >> /\ Last(Append(q, m)) = m
      BY <3>2 DEF Last
    <3> QED
      BY <2>3, <3>1, <3>3
  <2>8. ASSUME NEW s \in subscribers \cap alive, NEW p \in publishers \cap alive
        PROVE  Settling(s, p)'
    <3>1. s \in Nodes /\ p \in Nodes /\ Settling(s, p)
      BY <1>1 DEF SettlingInv
    <3>2. CASE s = n
      BY <2>1, <2>4, <2>7, <3>2 DEF Settling
    <3>3. CASE s # n
      BY <1>4, <2>1, <2>5, <3>1, <3>3 DEF Settling
    <3> QED
      BY <3>2, <3>3
  <2> QED
    BY <1>2, <1>3, <2>6, <2>8 DEF SettlingInv
<1>7. CASE EndTask
  <2>1. UNCHANGED <<tasks, todo, inbox>> /\ todo = {}
    BY <1>7 DEF EndTask, nodeVars
  <2>2. CalledAreSubscribers' /\ ListIsCurrent'
    BY <1>2, <2>1 DEF SettlingInv, CalledAreSubscribers, ListIsCurrent
  <2>3. ASSUME NEW s \in subscribers \cap alive, NEW p \in publishers \cap alive
        PROVE  Settling(s, p)'
    BY <1>1, <1>4, <2>1, SettlingStays DEF SettlingInv
  <2> QED
    BY <1>2, <1>3, <2>2, <2>3 DEF SettlingInv
<1> QED
  BY <1>5, <1>6, <1>7

\* A request the master stops waiting for stays in its place, with its list.
LEMMA TimeoutSettles ==
  ASSUME IInv, SettlingInv, CallTimeout
  PROVE  SettlingInv'
<1> SUFFICES ASSUME NEW c \in Nodes, c = callee PROVE SettlingInv'
  BY DEF IInv, TypeOK, CallTimeout
<1> DEFINE old == thread[c]["slave"]
           new == [old EXCEPT !.live = FALSE]
           box == inbox[c]
           marked == [i \in DOMAIN box |-> [box[i] EXCEPT !.live = FALSE]]
<1>1. TypeOK /\ "slave" \in Threads
  BY DEF IInv, Threads
<1>2. /\ SetThread(c, "slave", new)
      /\ UNCHANGED <<workers, publishers, subscribers, tasks, pubs, todo, alive, lost>>
      /\ spin' = "walk" /\ inbox' = [inbox EXCEPT ![c] = marked]
  BY DEF CallTimeout
<1>3. ThreadOK(old) /\ old \in Thread
  BY <1>1, EachThread DEF TypeOK
<1>4. ThreadOK(new) /\ new.pc = old.pc /\ new.todo = old.todo /\ new.peer = old.peer
  BY <1>3 DEF ThreadOK, Thread
<1>5. box \in Seq(Update) /\ inbox'[c] = marked
      /\ \A s \in Nodes : s # c => inbox'[s] = inbox[s]
  BY <1>1, <1>2 DEF TypeOK
<1>6. /\ box = << >> <=> marked = << >>
      /\ box # << >> => Last(marked).pubs = Last(box).pubs
  <2>1. DOMAIN box = 1..Len(box) /\ Len(box) \in Nat /\ DOMAIN marked = 1..Len(box)
        /\ \A i \in 1..Len(box) : marked[i].pubs = box[i].pubs
    <3>1. \A i \in 1..Len(box) : box[i] \in Update
      BY <1>5
    <3> QED
      BY <1>5, <3>1 DEF Update
  <2> DEFINE Marks == {marked[i] : i \in 1..Len(box)}
  <2>2. marked \in Seq(Marks)
    <3>1. marked = [i \in 1..Len(box) |-> marked[i]]
      BY <2>1
    <3> HIDE DEF marked, box
    <3>2. marked \in [1..Len(box) -> Marks]
      BY <3>1
    <3> QED
      BY <2>1, <3>2, IsASeq
  <2> HIDE DEF marked, box, Marks
  <2>3. Len(marked) = Len(box)
    BY <2>1, <2>2
  <2>4. box = << >> <=> Len(box) = 0
    BY <1>5
  <2>5. marked = << >> <=> Len(marked) = 0
    BY <2>2
  <2> QED
    BY <2>1, <2>3, <2>4, <2>5 DEF Last
<1> HIDE DEF new, marked
<1>7. /\ thread'[c]["slave"] = new
      /\ \A m \in Nodes, j \in Threads :
           m # c \/ j # "slave" => thread'[m][j] = thread[m][j]
  BY <1>1, <1>2, <1>4, SetThreadProperties
<1>8. CalledAreSubscribers' /\ ListIsCurrent'
  BY <1>2, <1>5, <1>6 DEF SettlingInv, CalledAreSubscribers, ListIsCurrent, CallTimeout
<1>9. LeavingIsUnknown'
  BY <1>2, <1>7 DEF SettlingInv, LeavingIsUnknown, Threads
<1>10. ASSUME NEW s \in Nodes, NEW p \in Nodes, Reached(s, p) PROVE Reached(s, p)'
  <2>1. ASSUME NEW j \in Threads, Ahead(s, j, p) PROVE Ahead(s, j, p)'
    <3>1. /\ thread'[s][j].pc = thread[s][j].pc /\ thread'[s][j].todo = thread[s][j].todo
          /\ thread'[s][j].peer = thread[s][j].peer
      BY <1>4, <1>7
    <3> QED
      BY <2>1, <3>1 DEF Ahead, Connecting
  <2> QED
    BY <1>2, <1>10, <2>1 DEF Reached
<1>11. \A p \in Nodes : Settling(c, p) => Settling(c, p)'
  <2> TAKE p \in Nodes
  <2> HIDE DEF box
  <2>1. box = inbox[c] /\ UNCHANGED <<tasks, todo>>
    BY <1>2 DEF box
  <2>2. CASE box = << >>
    <3>1. inbox[c] = << >> /\ inbox'[c] = << >>
      BY <1>5, <1>6, <2>1, <2>2, Zenon
    <3>2. Reached(c, p) => Reached(c, p)'
      BY <1>1, <1>10
    <3> QED
      BY <2>1, <3>1, <3>2 DEF Settling
  <2>3. CASE box # << >>
    <3>1. /\ inbox[c] # << >> /\ inbox'[c] # << >>
          /\ Last(inbox'[c]).pubs = Last(inbox[c]).pubs
      BY <1>5, <1>6, <2>1, <2>3, Zenon
    <3> QED
      BY <2>1, <3>1 DEF Settling
  <2> QED
    BY <2>2, <2>3
<1>12. subscribers \subseteq Nodes /\ publishers \subseteq Nodes
  BY <1>1 DEF TypeOK
<1>13. UNCHANGED <<publishers, subscribers, tasks, todo, alive>>
  BY <1>2
<1> HIDE DEF old, box
<1> QED
  <2>1. \A s \in Nodes : s # c => inbox'[s] = inbox[s]
    BY <1>5
  <2>2. \A s \in subscribers \cap alive, p \in publishers \cap alive :
          /\ s # c /\ Reached(s, p) => Reached(s, p)'
          /\ s = c /\ Settling(s, p) => Settling(s, p)'
    <3> TAKE s \in subscribers \cap alive, p \in publishers \cap alive
    <3>1. s \in Nodes /\ p \in Nodes
      BY <1>12
    <3>2. Settling(c, p) => Settling(c, p)'
      BY <1>11, <3>1
    <3> QED
      BY <1>10, <3>1, <3>2
  <2> QED
    BY <1>1, <1>8, <1>9, <1>13, <2>1, <2>2, OthersSettle

\* Every step keeps what settles settling.
LEMMA NextSettles ==
  IInv /\ SettlingInv /\ [Next]_vars => SettlingInv'
<1> SUFFICES ASSUME IInv, SettlingInv, [Next]_vars PROVE SettlingInv'
  OBVIOUS
<1>1. ASSUME NEW n \in Nodes, Application(n) PROVE SettlingInv'
  BY <1>1, RegistrationSettles, CrashSettles DEF Application
<1>2. ASSUME NEW n \in Nodes, NEW k \in Threads, ThreadStep(n, k) PROVE SettlingInv'
  BY <1>2, AttemptSettles, ReturnSettles, LeftSettles, HandledSettles DEF ThreadStep
<1>3. CASE spinOnce
  BY <1>3, SpinSettles, TimeoutSettles DEF spinOnce
<1>4. CASE UNCHANGED vars
  BY <1>4 DEF vars, masterVars, nodeVars, SettlingInv, CalledAreSubscribers, ListIsCurrent,
     LeavingIsUnknown, Settling, Reached, Ahead, Connecting
<1> QED
  BY <1>1, <1>2, <1>3, <1>4 DEF Next

\* However registrations, notices, late answers and crashes interleave: once all
\* is quiet, a subscriber and a publisher the master knows, both alive, have one
\* connection, or their last attempt or notice failed.
THEOREM ConnectedOnceQuiet == Spec => []ConnectedWhenQuiet
<1>1. Init => SettlingInv
  BY ThreadStates DEF Init, SettlingInv, CalledAreSubscribers, ListIsCurrent, LeavingIsUnknown,
     Threads
<1>2. IInv /\ SettlingInv => ConnectedWhenQuiet
  <2> SUFFICES ASSUME IInv, SettlingInv, Quiet,
                      NEW s \in subscribers \cap alive, NEW p \in publishers \cap alive
               PROVE  workers[s][p] = 1 \/ <<s, p>> \in lost
    BY DEF ConnectedWhenQuiet
  <2>1. s \in Nodes /\ p \in Nodes /\ Settling(s, p)
    BY DEF IInv, TypeOK, SettlingInv
  <2>2. tasks = 0 /\ todo = {} /\ inbox[s] = << >>
    BY <2>1 DEF Quiet, SettlingInv, ListIsCurrent
  <2>3. \A k \in Threads : ~Ahead(s, k, p)
    BY <2>1 DEF Quiet, Ahead, Connecting
  <2> QED
    BY <2>1, <2>2, <2>3 DEF Settling, Reached
<1> QED
  BY <1>1, <1>2, NextSettles, SpecIInv, PTL DEF Spec
=============================================================================
