------------------------- MODULE TopicChannelProofs -------------------------
(***************************************************************************)
(* For any number of connections and messages and any size of the buffers: *)
(* whatever crashes, hangs or is lost, a subscriber gets no message twice, *)
(* late or out of nothing, that is, TopicChannel implements LossyFifo.     *)
(***************************************************************************)
EXTENDS TopicChannel, SequenceTheorems, TLAPS

(***************************************************************************)
(* The parts of TypeOK, by the variables they are about.                   *)
(***************************************************************************)
PubType ==
  /\ pubUp \in BOOLEAN /\ held \in BOOLEAN
  /\ workers_ \in Seq(Conns)
  /\ app \in 0..Len(workers_)
  /\ standby \in 0..cur
  /\ dtor \in {"none", "poke", "join", "missed", "gone"}
  /\ dtor \in {"join", "missed"} => workers_ # << >>

ThreadType ==
  /\ worker \in [Conns -> WorkerState]
  /\ connected_ \in SUBSET Conns /\ tcpros_ \in SUBSET Conns
  /\ \A k \in connected_ \cup tcpros_ : worker[k] = "ended"

NetType ==
  /\ first \in [Conns -> {"none", "sub", "torn", "poke"}]
  /\ stream \in [Conns -> Seq(Nat)]
  /\ sentLast \in [Conns -> Nat]
  /\ torn \in SUBSET Conns
  /\ cur \in 0..MaxConns

SubType ==
  /\ subUp \in BOOLEAN /\ shutdown_flag \in BOOLEAN
  /\ conn \in {"idle", "drop", "request", "answer", "connect", "header", "push", "hung"}
  /\ spin \in [pc : {"idle", "walk", "hung", "leaving"}, at : Nat]

HistoryType ==
  /\ published \in 0..MaxMessages
  /\ received \in Seq(Nat)

\* Nobody has seen a message before it was published.
PublishedInv ==
  /\ app # 0 => published # 0
  /\ \A i \in 1..Len(received) : received[i] \in 1..published
  /\ \A k \in Conns : sentLast[k] <= published
  /\ \A k \in Conns : \A i \in 1..Len(stream[k]) : stream[k][i] <= published

\* Nothing is on the way on a connection that the subscriber has not open.
OpenInv ==
  \A k \in Conns : IF SubOpen(k) THEN Len(stream[k]) <= Capacity + 1 ELSE stream[k] = << >>

(***************************************************************************)
(* The rest of the inductive invariant. A message that is received is      *)
(* newer than all before it because only the connection requested last can *)
(* be open, a publish writes at most once to it, and a connection is       *)
(* pushed into the publisher's vector between two publish calls only.      *)
(***************************************************************************)
\* A publisher that is gone is of no use to anybody.
PublisherInv ==
  /\ ~held => app = 0
  /\ dtor # "none" => ~held /\ standby = 0
  /\ pubUp \/ /\ ~held /\ standby = 0 /\ workers_ = << >> /\ tcpros_ = {}
              /\ \A k \in Conns : worker[k] \in {"none", "ended"}

\* A connection has one worker, which is pushed once.
WorkersInv ==
  /\ \A i \in 1..Len(workers_) : workers_[i] \in 1..cur
  /\ \A i, j \in 1..Len(workers_) : workers_[i] = workers_[j] => i = j
  /\ standby # 0 => standby = cur /\ \A i \in 1..Len(workers_) : workers_[i] # cur

\* Nobody has connected to a worker that does not listen, and none has written
\* anything before it is done.
WorkerInv ==
  \A k \in Conns :
    /\ worker[k] \in {"none", "spawned", "deaf"} => first[k] = "none"
    /\ worker[k] = "negotiating" => first[k] # "none"
    /\ worker[k] # "ended" => stream[k] = << >>
    /\ k > cur => worker[k] = "none"

\* Only the connection requested last can be open.
CurInv ==
  /\ subWorkers_ = << >> \/ (subWorkers_ = <<cur>> /\ cur \in Conns)
  /\ conn \notin {"idle", "drop"} => subWorkers_ = << >>
  /\ conn \notin {"idle", "drop", "request"} => cur \in Conns
  /\ subTcpros_ # {} => subWorkers_ = <<cur>> /\ subTcpros_ = {cur}
  /\ spin.pc \in {"idle", "leaving"} => spin.at = 0
  /\ spin.pc \in {"walk", "hung"} => spin.at = 1 /\ subWorkers_ = <<cur>>

\* The header is the first packet of a connection, and the only one without a message.
HeaderInv ==
  /\ conn = "header" /\ stream[cur] # << >> => stream[cur][1] = 0
  /\ conn = "header" /\ cur \in tcpros_ /\ first[cur] = "sub" => stream[cur] # << >>
  /\ conn = "push" \/ cur \in subTcpros_ =>
       /\ worker[cur] = "ended"
       /\ \A i \in 1..Len(stream[cur]) : stream[cur][i] # 0

\* Only a publisher that dies may leave one packet more than the buffers hold.
RoomInv == pubUp => \A k \in Conns : Len(stream[k]) <= Capacity

Increasing(s) == \A i, j \in 1..Len(s) : i < j => s[i] < s[j]

\* Is the message being published still to be written on the last connection? At the
\* worker publish is at the write may have begun.
Ahead ==
  app # 0 /\ \E i \in app..Len(workers_) :
    workers_[i] = cur /\ (i = app => sentLast[cur] # published)

OrderInv ==
  /\ Increasing(received)
  /\ \A k \in Conns : Increasing(stream[k])
  /\ \A i \in 1..Len(received), k \in Conns : \A j \in 1..Len(stream[k]) :
       stream[k][j] # 0 => received[i] < stream[k][j]
  /\ Ahead => /\ \A i \in 1..Len(received) : received[i] < published
              /\ \A k \in Conns : \A j \in 1..Len(stream[k]) : stream[k][j] < published

\* What the publish at hand has still to write: its message is the last one
\* written on the connections behind it in the vector, not on those ahead, and
\* perhaps on the one it is at.
GapInv ==
  \A k \in Conns :
    /\ worker[k] # "ended" => sentLast[k] = 0
    /\ k \in tcpros_ =>
         /\ \A i \in 1..Len(workers_) : workers_[i] = k =>
              \/ sentLast[k] = 0
              \/ (app = 0 \/ i <= app) /\ sentLast[k] = published
              \/ app # 0 /\ i >= app /\ sentLast[k] = published - 1
         /\ (\A i \in 1..Len(workers_) : workers_[i] # k) => sentLast[k] = 0

IInv ==
  /\ PubType /\ ThreadType /\ NetType /\ SubType /\ HistoryType
  /\ PublishedInv /\ OpenInv /\ PublisherInv /\ WorkersInv /\ WorkerInv /\ CurInv
  /\ HeaderInv /\ RoomInv /\ OrderInv /\ GapInv


-----------------------------------------------------------------------------
(***************************************************************************)
(* Sequences.                                                              *)
(***************************************************************************)

\* What is left of s when some of its front is taken away.
IsRest(t, s) ==
  \E d \in 0..Len(s) : Len(t) = Len(s) - d /\ \A j \in 1..Len(t) : t[j] = s[j + d]

\* What the rest of a stream is, after nothing and after one packet was read.
LEMMA Rests ==
  ASSUME NEW s \in Seq(Nat)
  PROVE  /\ IsRest(s, s) /\ IsRest(<< >>, s) /\ << >> \in Seq(Nat)
         /\ s # << >> => /\ Tail(s) \in Seq(Nat) /\ IsRest(Tail(s), s)
                         /\ Len(Tail(s)) = Len(s) - 1
                         /\ \A j \in 1..Len(Tail(s)) : Tail(s)[j] = s[j + 1]
                         /\ Head(s) = s[1] /\ 1 \in 1..Len(s)
<1>1. Len(s) \in Nat
  BY LenProperties
<1>2. IsRest(s, s)
  <2>1. 0 \in 0..Len(s) /\ Len(s) = Len(s) - 0 /\ \A j \in 1..Len(s) : s[j] = s[j + 0]
    BY <1>1
  <2> QED
    BY <2>1 DEF IsRest
<1>3. IsRest(<< >>, s) /\ << >> \in Seq(Nat)
  <2>1. Len(s) \in 0..Len(s) /\ Len(<< >>) = Len(s) - Len(s)
    BY <1>1
  <2> QED
    BY <2>1 DEF IsRest
<1>4. ASSUME s # << >>
      PROVE  /\ Tail(s) \in Seq(Nat) /\ IsRest(Tail(s), s) /\ Len(Tail(s)) = Len(s) - 1
             /\ \A j \in 1..Len(Tail(s)) : Tail(s)[j] = s[j + 1]
             /\ Head(s) = s[1] /\ 1 \in 1..Len(s)
  <2>1. /\ Tail(s) \in Seq(Nat) /\ Len(Tail(s)) = Len(s) - 1
        /\ \A j \in 1..Len(Tail(s)) : Tail(s)[j] = s[j + 1]
    BY <1>4, HeadTailProperties
  <2>2. 1 \in 0..Len(s) /\ 1 \in 1..Len(s)
    BY <1>1, <1>4, EmptySeq
  <2>3. IsRest(Tail(s), s)
    BY <2>1, <2>2 DEF IsRest
  <2> QED
    BY <2>1, <2>2, <2>3
<1> QED
  BY <1>2, <1>3, <1>4

\* The order is not lost with the front.
LEMMA RestIncreases ==
  ASSUME NEW s \in Seq(Nat), NEW t \in Seq(Nat), IsRest(t, s)
  PROVE  /\ Len(t) <= Len(s) /\ (s = << >> => t = << >>)
         /\ Increasing(s) => Increasing(t)
         /\ \A j \in 1..Len(t) : \E i \in 1..Len(s) : t[j] = s[i]
<1>1. Len(s) \in Nat /\ Len(t) \in Nat
  BY LenProperties
<1>2. PICK d \in 0..Len(s) : Len(t) = Len(s) - d /\ \A j \in 1..Len(t) : t[j] = s[j + d]
  BY DEF IsRest
<1>3. Len(t) <= Len(s) /\ (s = << >> => t = << >>)
  BY <1>1, <1>2, EmptySeq
<1>4. \A j \in 1..Len(t) : j + d \in 1..Len(s) /\ t[j] = s[j + d]
  BY <1>1, <1>2
<1>5. ASSUME Increasing(s), NEW i \in 1..Len(t), NEW j \in 1..Len(t), i < j
      PROVE  t[i] < t[j]
  <2>1. i + d \in 1..Len(s) /\ j + d \in 1..Len(s) /\ i + d < j + d
    BY <1>1, <1>4, <1>5
  <2> QED
    BY <2>1, <1>4, <1>5 DEF Increasing
<1> QED
  BY <1>3, <1>4, <1>5 DEF Increasing

\* A packet that is newer than all the others keeps their order.
LEMMA AppendIncreases ==
  ASSUME NEW s \in Seq(Nat), NEW p \in Nat, Increasing(s), \A i \in 1..Len(s) : s[i] < p
  PROVE  Append(s, p) \in Seq(Nat) /\ Increasing(Append(s, p))
<1> DEFINE t == Append(s, p)
<1>1. /\ t \in Seq(Nat) /\ Len(t) = Len(s) + 1 /\ t[Len(s) + 1] = p
      /\ \A i \in 1..Len(s) : t[i] = s[i]
  BY AppendProperties
<1>2. Len(s) \in Nat
  BY LenProperties
<1>3. ASSUME NEW i \in 1..Len(t), NEW j \in 1..Len(t), i < j
      PROVE  t[i] < t[j]
  <2>1. i \in 1..Len(s)
    BY <1>1, <1>2, <1>3
  <2>2. CASE j \in 1..Len(s)
    BY <1>1, <2>1, <2>2, <1>3 DEF Increasing
  <2>3. CASE j = Len(s) + 1
    BY <1>1, <2>1, <2>3
  <2> QED
    BY <2>2, <2>3, <1>1, <1>2
<1> HIDE DEF t
<1>4. Increasing(t)
  BY <1>3 DEF Increasing
<1> QED
  BY <1>1, <1>4 DEF t

-----------------------------------------------------------------------------
(***************************************************************************)
(* A part whose variables do not change is kept.                           *)
(***************************************************************************)
LEMMA Frames ==
  /\ PubType /\ UNCHANGED <<pubUp, held, app, standby, dtor, workers_, cur>> => PubType'
  /\ ThreadType /\ UNCHANGED <<worker, connected_, tcpros_>> => ThreadType'
  /\ NetType /\ UNCHANGED <<first, stream, sentLast, torn, cur>> => NetType'
  /\ SubType /\ UNCHANGED <<subUp, shutdown_flag, conn, spin>> => SubType'
  /\ HistoryType /\ UNCHANGED <<published, received>> => HistoryType'
  /\ PublishedInv /\ UNCHANGED <<stream, sentLast, published, received, app>> =>
           PublishedInv'
  /\ OpenInv /\ UNCHANGED <<stream, conn, cur, subTcpros_>> => OpenInv'
  /\ PublisherInv /\ UNCHANGED <<pubUp, held, app, standby, dtor, workers_, tcpros_,
           worker>> => PublisherInv'
  /\ WorkersInv /\ UNCHANGED <<workers_, cur, standby>> => WorkersInv'
  /\ WorkerInv /\ UNCHANGED <<worker, first, stream, cur>> => WorkerInv'
  /\ CurInv /\ UNCHANGED <<subWorkers_, conn, cur, subTcpros_, spin>> => CurInv'
  /\ HeaderInv /\ UNCHANGED <<conn, stream, cur, tcpros_, first, subTcpros_, worker>>
           => HeaderInv'
  /\ RoomInv /\ UNCHANGED <<pubUp, stream>> => RoomInv'
  /\ OrderInv /\ UNCHANGED <<stream, sentLast, received, app, workers_, cur, published>>
           => OrderInv'
  /\ GapInv /\ UNCHANGED <<worker, sentLast, tcpros_, workers_, app, published>> =>
           GapInv'
<1>1. PubType /\ UNCHANGED <<pubUp, held, app, standby, dtor, workers_, cur>> => PubType'
  BY DEF PubType
<1>2. ThreadType /\ UNCHANGED <<worker, connected_, tcpros_>> => ThreadType'
  BY DEF ThreadType
<1>3. NetType /\ UNCHANGED <<first, stream, sentLast, torn, cur>> => NetType'
  BY DEF NetType
<1>4. SubType /\ UNCHANGED <<subUp, shutdown_flag, conn, spin>> => SubType'
  BY DEF SubType
<1>5. HistoryType /\ UNCHANGED <<published, received>> => HistoryType'
  BY DEF HistoryType
<1>6. PublishedInv /\ UNCHANGED <<stream, sentLast, published, received, app>> =>
         PublishedInv'
  BY DEF PublishedInv
<1>7. OpenInv /\ UNCHANGED <<stream, conn, cur, subTcpros_>> => OpenInv'
  BY DEF OpenInv, SubOpen
<1>8. PublisherInv /\ UNCHANGED <<pubUp, held, app, standby, dtor, workers_, tcpros_,
         worker>> => PublisherInv'
  BY DEF PublisherInv
<1>9. WorkersInv /\ UNCHANGED <<workers_, cur, standby>> => WorkersInv'
  BY DEF WorkersInv
<1>10. WorkerInv /\ UNCHANGED <<worker, first, stream, cur>> => WorkerInv'
  BY DEF WorkerInv
<1>11. CurInv /\ UNCHANGED <<subWorkers_, conn, cur, subTcpros_, spin>> => CurInv'
  BY DEF CurInv
<1>12. HeaderInv /\ UNCHANGED <<conn, stream, cur, tcpros_, first, subTcpros_, worker>>
         => HeaderInv'
  BY DEF HeaderInv
<1>13. RoomInv /\ UNCHANGED <<pubUp, stream>> => RoomInv'
  BY DEF RoomInv
<1>14. OrderInv /\ UNCHANGED <<stream, sentLast, received, app, workers_, cur, published>>
         => OrderInv'
  BY DEF OrderInv, Increasing, Ahead
<1>15. GapInv /\ UNCHANGED <<worker, sentLast, tcpros_, workers_, app, published>> =>
         GapInv'
  BY DEF GapInv
<1> QED
  BY <1>1, <1>2, <1>3, <1>4, <1>5, <1>6, <1>7, <1>8, <1>9, <1>10, <1>11, <1>12, <1>13,
           <1>14, <1>15

-----------------------------------------------------------------------------
(***************************************************************************)
(* What several actions have in common.                                    *)
(***************************************************************************)

\* A subscriber has no open connection but the last it asked for.
LEMMA OnlyCurIsOpen ==
  ASSUME SubType, CurInv
  PROVE  \A k \in Conns : SubOpen(k) => k = cur
BY DEF SubType, CurInv, SubOpen

\* spinOnce walks along one worker, that of the last connection.
LEMMA TheWalk ==
  ASSUME SubType, CurInv, spin.pc = "walk"
  PROVE  /\ Len(subWorkers_) = 1 /\ spin.at = 1 /\ subWorkers_[spin.at] = cur
         /\ cur \in Conns /\ conn \in {"idle", "drop"}
<1>1. spin.at = 1 /\ subWorkers_ = <<cur>>
  BY DEF CurInv
<1>2. Len(<<cur>>) = 1 /\ <<cur>>[1] = cur /\ <<cur>> # << >>
  OBVIOUS
<1> QED
  BY <1>1, <1>2 DEF CurInv, SubType

\* The end of the walk.
LEMMA WalkEnds ==
  ASSUME SubType, CurInv, spin.pc = "walk", GoTo(spin.at + 1)
  PROVE  spin' = [pc |-> "idle", at |-> 0]
<1>1. spin.at = 1 /\ Len(subWorkers_) = 1
  BY TheWalk
<1>2. spin.at + 1 > Len(subWorkers_)
  BY <1>1
<1> QED
  BY <1>2 DEF GoTo, SpinIdle

\* publish stays with a worker whose write has begun, or goes on: what is behind it
\* and what is ahead of it remain so.
GoesOn ==
  /\ app' \in 0..Len(workers_) /\ (app' = 0 \/ app <= app')
  /\ \A i \in 1..Len(workers_) \ {app} :
       /\ i <= app => app' = 0 \/ i <= app'
       /\ i >= app => app' # 0 /\ i >= app'

\* The message at hand is written to the last connection, if to any, once.
WritesOnce(k) ==
  /\ Ahead' => Ahead
  /\ k = cur /\ sentLast[k] # published => Ahead
  /\ k = cur => ~Ahead'

\* publish goes along the vector: what is behind it grows by the worker it leaves.
LEMMA PublishGoesOn ==
  ASSUME PubType, WorkersInv, NetType, app # 0, NextWorker(app), UNCHANGED <<workers_,
           cur>>, NEW k, k = workers_[app]
  PROVE  GoesOn /\ WritesOnce(k)
<1>1. Len(workers_) \in Nat /\ app \in 1..Len(workers_)
  BY LenProperties DEF PubType
<1>2. app' = IF app >= Len(workers_) THEN 0 ELSE app + 1
  BY DEF NextWorker
<1>3. GoesOn
  BY <1>1, <1>2 DEF GoesOn
<1>4. \A i \in 1..Len(workers_) : app' # 0 /\ i >= app' => i >= app /\ i # app
  BY <1>1, <1>2
<1>5. Ahead <=> \E i \in 1..Len(workers_) :
                  i >= app /\ workers_[i] = cur /\ (i = app => sentLast[cur] # published)
  BY <1>1 DEF Ahead
<1>6. Ahead' => \E i \in 1..Len(workers_) : app' # 0 /\ i >= app' /\ workers_[i] = cur
  <2>1. \A i \in app'..Len(workers_) : app' # 0 => i \in 1..Len(workers_) /\ i >= app'
    BY <1>1, <1>2
  <2> QED
    BY <2>1 DEF Ahead
<1>7. Ahead' => Ahead
  BY <1>4, <1>5, <1>6
<1>8. k = cur => ~Ahead'
  <2>1. k = cur => \A i \in 1..Len(workers_) : workers_[i] = cur => i = app
    BY <1>1 DEF WorkersInv
  <2> QED
    BY <1>4, <1>6, <2>1
<1>9. ASSUME k = cur /\ sentLast[k] # published
      PROVE  Ahead
  <2>1. app >= app /\ workers_[app] = cur /\ sentLast[cur] # published
    BY <1>1, <1>9
  <2> QED
    BY <1>1, <1>5, <2>1
<1> QED
  BY <1>3, <1>7, <1>8, <1>9 DEF WritesOnce

\* While its write is under way publish stays, and the message at hand is written.
LEMMA PublishStays ==
  ASSUME PubType, WorkersInv, NetType, app # 0, UNCHANGED <<app, workers_, cur, published>>,
         NEW k \in Conns, k = workers_[app], sentLast' = [sentLast EXCEPT ![k] = published]
  PROVE  GoesOn /\ WritesOnce(k)
<1>1. Len(workers_) \in Nat /\ app \in 1..Len(workers_) /\ sentLast'[k] = published
  BY LenProperties DEF PubType, NetType
<1>2. GoesOn
  BY <1>1 DEF GoesOn
<1>3. Ahead <=> \E i \in 1..Len(workers_) :
                  i >= app /\ workers_[i] = cur /\ (i = app => sentLast[cur] # published)
  BY <1>1 DEF Ahead
<1>4. Ahead' <=> \E i \in 1..Len(workers_) :
                   i >= app /\ workers_[i] = cur /\ (i = app => sentLast'[cur] # published)
  BY <1>1 DEF Ahead
<1>5. ASSUME Ahead'
      PROVE  Ahead /\ k # cur
  <2>1. PICK i \in 1..Len(workers_) :
          i >= app /\ workers_[i] = cur /\ (i = app => sentLast'[cur] # published)
    BY <1>4, <1>5
  <2>2. i # app
    BY <1>1, <2>1
  <2>3. k # cur
    BY <1>1, <2>1, <2>2 DEF WorkersInv
  <2> QED
    BY <1>3, <2>1, <2>2, <2>3
<1>6. ASSUME k = cur /\ sentLast[k] # published
      PROVE  Ahead
  <2>1. app >= app /\ workers_[app] = cur /\ sentLast[cur] # published
    BY <1>1, <1>6
  <2> QED
    BY <1>1, <1>3, <2>1
<1> QED
  BY <1>2, <1>5, <1>6 DEF WritesOnce

\* A step that writes nothing, and receives nothing, keeps the order.
LEMMA AheadNoMore ==
  ASSUME OrderInv, UNCHANGED <<stream, received, published>>, Ahead' => Ahead
  PROVE  OrderInv'
BY DEF OrderInv, Increasing

\* The subscriber reads or loses the front of its streams.
LEMMA StreamsRest ==
  ASSUME NetType, OrderInv, stream' \in [Conns -> Seq(Nat)],
         \A k \in Conns : IsRest(stream'[k], stream[k])
  PROVE  \A k \in Conns :
           /\ Len(stream'[k]) <= Len(stream[k]) /\ Len(stream'[k]) \in Nat
           /\ stream[k] = << >> => stream'[k] = << >>
           /\ Increasing(stream'[k])
           /\ \A j \in 1..Len(stream'[k]) :
                \E i \in 1..Len(stream[k]) : stream'[k][j] = stream[k][i]
<1> SUFFICES ASSUME NEW k \in Conns
             PROVE  /\ Len(stream'[k]) <= Len(stream[k]) /\ Len(stream'[k]) \in Nat
                    /\ stream[k] = << >> => stream'[k] = << >>
                    /\ Increasing(stream'[k])
                    /\ \A j \in 1..Len(stream'[k]) :
                         \E i \in 1..Len(stream[k]) : stream'[k][j] = stream[k][i]
  OBVIOUS
<1>1. stream[k] \in Seq(Nat) /\ stream'[k] \in Seq(Nat)
  BY DEF NetType
<1>2. Len(stream'[k]) \in Nat
  BY <1>1, LenProperties
<1>3. Increasing(stream[k])
  BY DEF OrderInv
<1> QED
  BY <1>1, <1>2, <1>3, RestIncreases

\* So does one that takes packets away from the front of the streams.
LEMMA ReadingKeeps ==
  ASSUME IInv, stream' \in [Conns -> Seq(Nat)], \A k \in Conns : IsRest(stream'[k], stream[k]),
         UNCHANGED <<pubUp, app, workers_, sentLast, cur, history>>
  PROVE  PublishedInv' /\ RoomInv' /\ OrderInv'
<1>1. NetType /\ PublishedInv /\ RoomInv /\ OrderInv
  BY DEF IInv
<1>2. UNCHANGED <<published, received>>
  BY DEF history
<1>3. \A k \in Conns :
        /\ Len(stream'[k]) <= Len(stream[k]) /\ Len(stream'[k]) \in Nat
        /\ Increasing(stream'[k])
        /\ \A j \in 1..Len(stream'[k]) :
             \E i \in 1..Len(stream[k]) : stream'[k][j] = stream[k][i]
  BY <1>1, StreamsRest
<1>4. PublishedInv'
  BY <1>1, <1>2, <1>3 DEF PublishedInv
<1>5. RoomInv'
  <2> SUFFICES ASSUME pubUp', NEW k \in Conns
               PROVE  Len(stream'[k]) <= Capacity
    BY DEF RoomInv
  <2>1. Len(stream[k]) \in Nat /\ Len(stream[k]) <= Capacity
    BY <1>1, LenProperties DEF RoomInv, NetType
  <2> QED
    BY <2>1, <1>3, BoundsAssumption
<1>6. OrderInv'
  <2>1. Ahead' <=> Ahead
    BY <1>2 DEF Ahead
  <2>2. \A i \in 1..Len(received), k \in Conns : \A j \in 1..Len(stream'[k]) :
          stream'[k][j] # 0 => received[i] < stream'[k][j]
    <3> SUFFICES ASSUME NEW i \in 1..Len(received), NEW k \in Conns,
                        NEW j \in 1..Len(stream'[k]), stream'[k][j] # 0
                 PROVE  received[i] < stream'[k][j]
      OBVIOUS
    <3>1. PICK h \in 1..Len(stream[k]) : stream'[k][j] = stream[k][h]
      BY <1>3
    <3>2. stream[k][h] # 0 => received[i] < stream[k][h]
      BY <1>1 DEF OrderInv
    <3> QED
      BY <3>1, <3>2
  <2>3. Ahead => \A k \in Conns : \A j \in 1..Len(stream'[k]) : stream'[k][j] < published
    <3> SUFFICES ASSUME Ahead, NEW k \in Conns, NEW j \in 1..Len(stream'[k])
                 PROVE  stream'[k][j] < published
      OBVIOUS
    <3>1. PICK h \in 1..Len(stream[k]) : stream'[k][j] = stream[k][h]
      BY <1>3
    <3>2. stream[k][h] < published
      BY <1>1 DEF OrderInv
    <3> QED
      BY <3>1, <3>2
  <2>4. Increasing(received') /\ \A k \in Conns : Increasing(stream'[k])
    BY <1>1, <1>2, <1>3 DEF OrderInv
  <2>5. Ahead => \A i \in 1..Len(received) : received[i] < published
    BY <1>1 DEF OrderInv
  <2> QED
    BY <1>2, <2>1, <2>2, <2>3, <2>4, <2>5 DEF OrderInv, Increasing
<1> QED
  BY <1>4, <1>5, <1>6

\* What is written on a connection is in order: the header is the first packet,
\* and the message at hand newer than all on the way.
WellWritten(t, k, p) ==
  /\ t \in Seq(Nat) /\ Increasing(t) /\ Len(t) = Len(stream[k]) + 1 /\ Len(t) \in Nat
  /\ t[Len(t)] = p /\ p \in 0..published
  /\ \A j \in 1..Len(stream[k]) : t[j] = stream[k][j]
  /\ \A j \in 1..Len(t) : t[j] <= published
  /\ \A i \in 1..Len(received), j \in 1..Len(t) : t[j] # 0 => received[i] < t[j]

\* A packet written is newer than what is on its way and what was received.
LEMMA WritingKeepsOrder ==
  ASSUME IInv, NEW k \in Conns, NEW p,
         \/ p = 0 /\ stream[k] = << >>
         \/ p = published /\ Ahead,
         NEW t, t = Append(stream[k], p)
  PROVE  WellWritten(t, k, p)
<1>1. /\ stream[k] \in Seq(Nat) /\ published \in Nat /\ p \in Nat /\ p <= published
      /\ Len(stream[k]) \in Nat
  BY LenProperties DEF IInv, NetType, HistoryType
<1>2. Increasing(stream[k]) /\ \A j \in 1..Len(stream[k]) : stream[k][j] < p
  <2>1. CASE stream[k] = << >>
    BY <2>1 DEF IInv, OrderInv
  <2>2. CASE p = published /\ Ahead
    BY <2>2 DEF IInv, OrderInv
  <2> QED
    BY <2>1, <2>2
<1>3. /\ t \in Seq(Nat) /\ Increasing(t) /\ Len(t) = Len(stream[k]) + 1
      /\ t[Len(stream[k]) + 1] = p /\ \A j \in 1..Len(stream[k]) : t[j] = stream[k][j]
  <2>1. t \in Seq(Nat) /\ Increasing(t)
    BY <1>1, <1>2, AppendIncreases
  <2>2. /\ Len(t) = Len(stream[k]) + 1
        /\ t[Len(stream[k]) + 1] = p /\ \A j \in 1..Len(stream[k]) : t[j] = stream[k][j]
    BY <1>1, AppendProperties
  <2> QED
    BY <2>1, <2>2
<1>4. \A j \in 1..Len(t) : t[j] <= published
  <2>1. \A j \in 1..Len(stream[k]) : t[j] <= published
    BY <1>3 DEF IInv, PublishedInv
  <2>2. \A j \in 1..Len(t) : j \in 1..Len(stream[k]) \/ j = Len(stream[k]) + 1
    BY <1>1, <1>3
  <2> QED
    BY <1>1, <1>3, <2>1, <2>2
<1>5. ASSUME NEW i \in 1..Len(received), NEW j \in 1..Len(t), t[j] # 0
      PROVE  received[i] < t[j]
  <2>1. CASE j \in 1..Len(stream[k])
    BY <1>3, <1>5, <2>1 DEF IInv, OrderInv
  <2>2. CASE j = Len(stream[k]) + 1
    BY <1>3, <1>5, <2>2 DEF IInv, OrderInv
  <2> QED
    BY <1>1, <1>3, <2>1, <2>2
<1>6. Len(t) \in Nat /\ t[Len(t)] = p /\ p \in 0..published
  BY <1>1, <1>3
<1> QED
  BY <1>3, <1>4, <1>5, <1>6 DEF WellWritten

\* The steps of the publisher: publish, and its walk along the workers.
LEMMA publishKeeps ==
  ASSUME IInv, publish
  PROVE  IInv'
<1>1. UNCHANGED <<pubUp, held, standby, dtor, workers_, worker, connected_, tcpros_,
         first, stream, sentLast, torn, cur, subUp, shutdown_flag, conn, subWorkers_,
         subTcpros_, spin, received>>
  BY DEF publish, pubVars, threadVars, netVars, subVars, history
<1>2. ThreadType' /\ NetType' /\ SubType' /\ OpenInv' /\ WorkersInv' /\ WorkerInv' /\
         CurInv' /\ HeaderInv' /\ RoomInv'
  BY <1>1, Frames DEF IInv
<1>3. PubType'
  BY DEF IInv, publish, pubVars, threadVars, netVars, subVars, history, PubType, NetType
<1>4. HistoryType'
  <2>1. published \in 0..MaxMessages /\ published < MaxMessages /\ published' = published + 1
    BY DEF IInv, HistoryType, publish
  <2>2. published' \in 0..MaxMessages
    BY <2>1, BoundsAssumption
  <2> QED
    BY <2>2 DEF IInv, HistoryType, publish
<1>5. PublishedInv'
  <2>1. /\ published \in Nat /\ published' = published + 1
        /\ UNCHANGED <<sentLast, stream, received>>
    BY DEF IInv, HistoryType, publish, netVars
  <2>2. \A i \in 1..Len(received) : received[i] \in 1..published'
    BY <2>1 DEF IInv, PublishedInv
  <2>3. \A k \in Conns : sentLast[k] <= published'
    BY <2>1 DEF IInv, PublishedInv, NetType
  <2>4. \A k \in Conns : \A i \in 1..Len(stream[k]) : stream[k][i] <= published'
    <3>1. \A k \in Conns : \A i \in 1..Len(stream[k]) :
            stream[k][i] <= published /\ stream[k][i] \in Nat
      BY ElementOfSeq DEF IInv, PublishedInv, NetType
    <3> QED
      BY <2>1, <3>1
  <2> QED
    BY <2>1, <2>2, <2>3, <2>4 DEF PublishedInv
<1>6. PublisherInv'
  BY DEF IInv, publish, pubVars, threadVars, netVars, subVars, history, PublisherInv,
           PubType, ThreadType
<1>7. OrderInv'
  <2>1. /\ published \in Nat /\ published' = published + 1
        /\ UNCHANGED <<stream, received>>
    BY DEF IInv, HistoryType, publish, netVars
  <2>2. \A i \in 1..Len(received) : received[i] < published'
    BY <2>1 DEF IInv, PublishedInv
  <2>3. \A k \in Conns : \A j \in 1..Len(stream[k]) : stream[k][j] < published'
    <3>1. \A k \in Conns : \A j \in 1..Len(stream[k]) :
            stream[k][j] <= published /\ stream[k][j] \in Nat
      BY ElementOfSeq DEF IInv, PublishedInv, NetType
    <3> QED
      BY <2>1, <3>1
  <2> QED
    BY <2>1, <2>2, <2>3 DEF IInv, OrderInv, Increasing
<1>8. GapInv'
  BY DEF IInv, publish, pubVars, threadVars, netVars, subVars, history, GapInv,
           ThreadType, NetType, PubType, HistoryType, WorkersInv
<1> QED
  BY <1>1, <1>2, <1>3, <1>4, <1>5, <1>6, <1>7, <1>8 DEF IInv

LEMMA SkipKeeps ==
  ASSUME IInv, NEW k \in Conns, app # 0, k = workers_[app], SkipWorker(k), NextWorker(app),
         UNCHANGED <<pubUp, held, standby, dtor, workers_, worker, connected_, first,
                     cur, subVars, history>>
  PROVE  IInv'
<1>1. UNCHANGED <<pubUp, held, standby, dtor, workers_, worker, connected_, tcpros_,
         first, stream, sentLast, torn, cur, subUp, shutdown_flag, conn, subWorkers_,
         subTcpros_, spin, published, received>>
  BY DEF SkipWorker, NextWorker, pubVars, threadVars, netVars, subVars, history
<1>2. ThreadType' /\ NetType' /\ SubType' /\ HistoryType' /\ OpenInv' /\ WorkersInv' /\
         WorkerInv' /\ CurInv' /\ HeaderInv' /\ RoomInv'
  BY <1>1, Frames DEF IInv
<1>3. PubType'
  BY DEF IInv, SkipWorker, NextWorker, pubVars, threadVars, netVars, subVars, history,
           PubType, NetType
<1>4. PublishedInv'
  BY DEF IInv, SkipWorker, NextWorker, pubVars, threadVars, netVars, subVars, history,
           PublishedInv, NetType, HistoryType
<1>5. PublisherInv'
  BY DEF IInv, SkipWorker, NextWorker, pubVars, threadVars, netVars, subVars, history,
           PublisherInv, PubType, ThreadType
<1>6. OrderInv'
  <2>1. (Ahead' => Ahead) /\ UNCHANGED <<stream, received, published>>
    BY PublishGoesOn DEF IInv, SkipWorker, history, WritesOnce
  <2> QED
    BY <2>1, AheadNoMore DEF IInv
<1>7. GapInv'
  <2>1. GoesOn
    BY PublishGoesOn DEF IInv
  <2>2. /\ UNCHANGED <<worker, workers_, sentLast, published>>
        /\ tcpros_' \subseteq tcpros_ /\ k \notin tcpros_'
    BY DEF SkipWorker, history
  <2>3. app \in 1..Len(workers_)
    BY LenProperties DEF IInv, PubType
  <2>4. ASSUME NEW j \in Conns, j \in tcpros_', NEW i \in 1..Len(workers_), workers_[i] = j
        PROVE  \/ sentLast[j] = 0
               \/ (app' = 0 \/ i <= app') /\ sentLast[j] = published
               \/ app' # 0 /\ i >= app' /\ sentLast[j] = published - 1
    <3>1. i # app /\ j \in tcpros_
      BY <2>2, <2>4
    <3>2. \/ sentLast[j] = 0
          \/ (app = 0 \/ i <= app) /\ sentLast[j] = published
          \/ app # 0 /\ i >= app /\ sentLast[j] = published - 1
      BY <2>4, <3>1 DEF IInv, GapInv
    <3>3. (i <= app => app' = 0 \/ i <= app') /\ (i >= app => app' # 0 /\ i >= app')
      BY <2>1, <3>1 DEF GoesOn
    <3> QED
      BY <2>3, <3>2, <3>3
  <2> QED
    BY <2>2, <2>4 DEF IInv, GapInv
<1> QED
  BY <1>1, <1>2, <1>3, <1>4, <1>5, <1>6, <1>7 DEF IInv

LEMMA WriteKeeps ==
  ASSUME IInv, NEW k \in Conns, app # 0, k = workers_[app], NEW whole, Write(k, whole),
         k \in tcpros_, sentLast[k] # published, SubOpen(k) => Len(stream[k]) < Capacity,
         GoesOn, WritesOnce(k), tcpros_' \in {tcpros_, tcpros_ \ {k}},
         UNCHANGED <<pubUp, held, standby, dtor, workers_, worker, connected_, first,
                     cur, subVars, history>>
  PROVE  IInv'
<1>1. /\ PubType /\ ThreadType /\ NetType /\ SubType /\ HistoryType
      /\ PublishedInv /\ OpenInv /\ PublisherInv /\ WorkersInv /\ WorkerInv /\ CurInv
      /\ HeaderInv /\ RoomInv /\ OrderInv /\ GapInv
  BY DEF IInv
<1>2. /\ UNCHANGED <<pubUp, held, standby, dtor, workers_, worker, connected_, first,
                     cur, subUp, shutdown_flag, conn, subWorkers_, subTcpros_, spin,
                     published, received>>
      /\ k \in tcpros_ /\ tcpros_' \in {tcpros_, tcpros_ \ {k}}
      /\ sentLast' = [sentLast EXCEPT ![k] = published]
      /\ SubOpen(k) => Len(stream[k]) < Capacity
      /\ torn' \in SUBSET Conns
      /\ IF k \in torn THEN stream' = stream
         ELSE stream' = [stream EXCEPT ![k] = Written(k, published)]
  BY <1>1 DEF Write, NetType, subVars, history
<1>3. /\ app \in 1..Len(workers_) /\ app' \in 0..Len(workers_)
      /\ Ahead' => Ahead
      /\ k = cur => Ahead /\ ~Ahead'
  BY <1>1, LenProperties DEF GoesOn, WritesOnce, PubType
<1> DEFINE t == Written(k, published)
<1>4. ASSUME SubOpen(k) /\ first[k] = "sub" /\ k \notin torn
      PROVE  /\ NetType' /\ PublishedInv' /\ OpenInv' /\ WorkerInv' /\ HeaderInv'
             /\ RoomInv' /\ OrderInv'
  <2>1. k = cur /\ Ahead /\ ~Ahead' /\ t = Append(stream[k], published)
    BY <1>1, <1>3, <1>4, OnlyCurIsOpen DEF Written
  <2>2. /\ t \in Seq(Nat) /\ Increasing(t) /\ Len(t) = Len(stream[k]) + 1 /\ Len(t) \in Nat
        /\ t[Len(t)] = published
        /\ \A j \in 1..Len(stream[k]) : t[j] = stream[k][j]
        /\ \A j \in 1..Len(t) : t[j] <= published
        /\ \A i \in 1..Len(received), j \in 1..Len(t) : t[j] # 0 => received[i] < t[j]
    <3> DEFINE p == published
    <3>1. (p = 0 /\ stream[k] = << >>) \/ (p = published /\ Ahead)
      BY <2>1
    <3>2. t = Append(stream[k], p)
      BY <2>1
    <3> HIDE DEF t, p
    <3>3. WellWritten(t, k, p)
      BY <3>1, <3>2, WritingKeepsOrder
    <3> QED
      BY <3>3 DEF p, WellWritten
  <2> HIDE DEF t
  <2>3. /\ stream'[k] = t /\ \A j \in Conns \ {k} : stream'[j] = stream[j]
        /\ stream' \in [Conns -> Seq(Nat)] /\ stream[k] \in Seq(Nat) /\ Len(stream[k]) \in Nat
        /\ Len(t) <= Capacity
    <3>1. stream' = [stream EXCEPT ![k] = t] /\ Len(stream[k]) < Capacity
      BY <1>2, <1>4 DEF t
    <3>2. stream \in [Conns -> Seq(Nat)] /\ stream[k] \in Seq(Nat) /\ Len(stream[k]) \in Nat
      BY <1>1, LenProperties DEF NetType
    <3> QED
      BY <2>2, <3>1, <3>2, BoundsAssumption
  <2>4. NetType'
    <3>1. published \in Nat /\ sentLast \in [Conns -> Nat]
      BY <1>1 DEF NetType, HistoryType
    <3>2. sentLast' \in [Conns -> Nat]
      BY <1>2, <3>1
    <3>3. first' \in [Conns -> {"none", "sub", "torn", "poke"}] /\ cur' \in 0..MaxConns
      BY <1>1, <1>2 DEF NetType
    <3> QED
      BY <1>2, <2>3, <3>2, <3>3 DEF NetType
  <2>5. PublishedInv'
    <3>1. \A j \in Conns : sentLast'[j] <= published
      BY <1>1, <1>2 DEF PublishedInv, NetType, HistoryType
    <3>2. ASSUME NEW j \in Conns, NEW i \in 1..Len(stream'[j])
          PROVE  stream'[j][i] <= published
      <4>1. CASE j = k
        BY <2>2, <2>3, <4>1
      <4>2. CASE j # k
        <5>1. stream'[j] = stream[j]
          BY <2>3, <4>2
        <5> QED
          BY <1>1, <5>1 DEF PublishedInv
      <4> QED
        BY <4>1, <4>2
    <3> QED
      BY <1>1, <1>2, <2>1, <3>1, <3>2 DEF PublishedInv
  <2>6. OpenInv'
    <3>1. \A j \in Conns : SubOpen(j)' <=> SubOpen(j)
      BY <1>2 DEF SubOpen
    <3>2. Len(t) <= Capacity + 1
      BY <2>2, <2>3, BoundsAssumption
    <3> QED
      BY <1>1, <1>4, <2>3, <3>1, <3>2 DEF OpenInv
  <2>7. WorkerInv'
    BY <1>1, <1>2, <2>3 DEF WorkerInv, ThreadType
  <2>8. HeaderInv'
    <3>1. stream[k] # << >> => stream'[k][1] = stream[k][1]
      <4> SUFFICES ASSUME stream[k] # << >> PROVE stream'[k][1] = stream[k][1]
        OBVIOUS
      <4>1. 1 \in 1..Len(stream[k])
        BY <2>3, EmptySeq
      <4> QED
        BY <2>2, <2>3, <4>1
    <3>2. stream'[k] # << >>
      BY <2>2, <2>3, EmptySeq
    <3>3. ASSUME conn = "header"
          PROVE  stream'[k][1] = 0
      BY <1>1, <1>2, <1>4, <2>1, <3>1, <3>3 DEF HeaderInv
    <3>4. ASSUME conn = "push" \/ cur \in subTcpros_
          PROVE  worker[cur] = "ended" /\ \A i \in 1..Len(t) : t[i] # 0
      <4>1. /\ worker[cur] = "ended" /\ \A i \in 1..Len(stream[k]) : t[i] # 0
            /\ published # 0
        BY <1>1, <2>1, <2>2, <3>4 DEF HeaderInv, PublishedInv, Ahead
      <4>2. \A i \in 1..Len(t) : i \in 1..Len(stream[k]) \/ i = Len(t)
        BY <2>2, <2>3
      <4> QED
        BY <2>2, <4>1, <4>2
    <3> QED
      BY <1>2, <2>1, <2>3, <3>2, <3>3, <3>4 DEF HeaderInv
  <2>9. RoomInv'
    BY <1>1, <1>2, <2>3 DEF RoomInv
  <2>10. OrderInv'
    <3>1. \A j \in Conns : Increasing(stream'[j])
      BY <1>1, <2>2, <2>3 DEF OrderInv
    <3>2. \A i \in 1..Len(received), j \in Conns : \A m \in 1..Len(stream'[j]) :
            stream'[j][m] # 0 => received[i] < stream'[j][m]
      <4> SUFFICES ASSUME NEW i \in 1..Len(received), NEW j \in Conns,
                          NEW m \in 1..Len(stream'[j]), stream'[j][m] # 0
                   PROVE  received[i] < stream'[j][m]
        OBVIOUS
      <4>1. CASE j = k
        BY <2>2, <2>3, <4>1
      <4>2. CASE j # k
        BY <1>1, <2>3, <4>2 DEF OrderInv
      <4> QED
        BY <4>1, <4>2
    <3>3. Increasing(received)
      BY <1>1 DEF OrderInv
    <3>4. received' = received
      BY <1>2
    <3> QED
      BY <2>1, <3>1, <3>2, <3>3, <3>4 DEF OrderInv, Increasing
  <2> QED
    BY <2>4, <2>5, <2>6, <2>7, <2>8, <2>9, <2>10
<1>5. ASSUME ~(SubOpen(k) /\ first[k] = "sub" /\ k \notin torn)
      PROVE  /\ NetType' /\ PublishedInv' /\ OpenInv' /\ WorkerInv' /\ HeaderInv'
             /\ RoomInv' /\ OrderInv'
  <2>1. stream' = stream
    BY <1>1, <1>2, <1>5 DEF Written, NetType
  <2>2. NetType' /\ PublishedInv'
    BY <1>1, <1>2, <1>3, <2>1 DEF NetType, PublishedInv, HistoryType
  <2>3. OpenInv' /\ WorkerInv' /\ RoomInv'
    BY <1>1, <1>2, <2>1, Frames
  <2>4. HeaderInv'
    BY <1>1, <1>2, <2>1 DEF HeaderInv
  <2>5. OrderInv'
    BY <1>1, <1>2, <1>3, <2>1, AheadNoMore
  <2> QED
    BY <2>2, <2>3, <2>4, <2>5
<1>6. PubType'
  BY <1>1, <1>2, <1>3 DEF PubType
<1>7. ThreadType' /\ PublisherInv'
  BY <1>1, <1>2, <1>3 DEF ThreadType, PublisherInv
<1>8. SubType' /\ HistoryType' /\ WorkersInv' /\ CurInv'
  BY <1>1, <1>2, Frames
<1>9. GapInv'
  <2>1. ASSUME NEW j \in Conns, worker'[j] # "ended"
        PROVE  sentLast'[j] = 0
    <3>1. j # k
      BY <1>1, <1>2, <2>1 DEF ThreadType
    <3> QED
      BY <1>1, <1>2, <2>1, <3>1 DEF GapInv, NetType
  <2>2. ASSUME NEW j \in Conns, j \in tcpros_', NEW i \in 1..Len(workers_), workers_[i] = j
        PROVE  \/ sentLast'[j] = 0
               \/ (app' = 0 \/ i <= app') /\ sentLast'[j] = published
               \/ app' # 0 /\ i >= app' /\ sentLast'[j] = published - 1
    <3>1. CASE j = k
      <4>1. i = app
        BY <1>1, <1>3, <2>2, <3>1 DEF WorkersInv
      <4>2. app' = 0 \/ i <= app'
        BY <4>1 DEF GoesOn
      <4> QED
        BY <1>1, <1>2, <3>1, <4>2 DEF NetType
    <3>2. CASE j # k
      <4>1. i # app /\ j \in tcpros_ /\ sentLast'[j] = sentLast[j]
        BY <1>1, <1>2, <2>2, <3>2 DEF NetType
      <4>2. \/ sentLast[j] = 0
            \/ (app = 0 \/ i <= app) /\ sentLast[j] = published
            \/ app # 0 /\ i >= app /\ sentLast[j] = published - 1
        BY <1>1, <2>2, <4>1 DEF GapInv
      <4>3. (i <= app => app' = 0 \/ i <= app') /\ (i >= app => app' # 0 /\ i >= app')
        BY <4>1 DEF GoesOn
      <4> QED
        BY <1>3, <4>1, <4>2, <4>3
    <3> QED
      BY <3>1, <3>2
  <2>3. ASSUME NEW j \in Conns, j \in tcpros_', \A i \in 1..Len(workers_) : workers_[i] # j
        PROVE  sentLast'[j] = 0
    <3>1. j # k
      BY <1>3, <2>3
    <3> QED
      BY <1>1, <1>2, <2>3, <3>1 DEF GapInv, NetType
  <2> QED
    BY <1>2, <2>1, <2>2, <2>3 DEF GapInv
<1> HIDE DEF t
<1> QED
  BY <1>4, <1>5, <1>6, <1>7, <1>8, <1>9 DEF IInv

LEMMA SendKeeps ==
  ASSUME IInv, NEW k \in Conns, app # 0, k = workers_[app], SendPacket(k), NextWorker(app),
         UNCHANGED <<pubUp, held, standby, dtor, workers_, worker, connected_, first,
                     cur, subVars, history>>
  PROVE  IInv'
<1>1. PICK whole \in BOOLEAN : Write(k, whole)
  BY DEF SendPacket
<1>2. GoesOn /\ WritesOnce(k)
  BY PublishGoesOn DEF IInv
<1> QED
  BY <1>1, <1>2, WriteKeeps DEF SendPacket

LEMMA WriteBlocksKeeps ==
  ASSUME IInv, NEW k \in Conns, app # 0, k = workers_[app], WriteBlocks(k),
         UNCHANGED <<pubUp, held, standby, dtor, workers_, worker, connected_, first,
                     cur, subVars, history>>
  PROVE  IInv'
<1>1. GoesOn /\ WritesOnce(k)
  BY PublishStays DEF IInv, WriteBlocks, Write, history
<1> QED
  BY <1>1, WriteKeeps DEF WriteBlocks

LEMMA DetectKeeps ==
  ASSUME IInv, NEW k \in Conns, app # 0, k = workers_[app], DetectClosed(k), NextWorker(app),
         UNCHANGED <<pubUp, held, standby, dtor, workers_, worker, connected_, first,
                     cur, subVars, history>>
  PROVE  IInv'
<1>1. UNCHANGED <<pubUp, held, standby, dtor, workers_, worker, connected_, first,
         stream, sentLast, torn, cur, subUp, shutdown_flag, conn, subWorkers_,
         subTcpros_, spin, published, received>>
  BY DEF DetectClosed, NextWorker, pubVars, threadVars, netVars, subVars, history
<1>2. NetType' /\ SubType' /\ HistoryType' /\ OpenInv' /\ WorkersInv' /\ WorkerInv' /\
         CurInv' /\ RoomInv'
  BY <1>1, Frames DEF IInv
<1>3. PubType'
  BY DEF IInv, DetectClosed, NextWorker, pubVars, threadVars, netVars, subVars,
           history, PubType, NetType
<1>4. ThreadType'
  BY DEF IInv, DetectClosed, NextWorker, pubVars, threadVars, netVars, subVars,
           history, ThreadType
<1>5. PublishedInv'
  BY DEF IInv, DetectClosed, NextWorker, pubVars, threadVars, netVars, subVars,
           history, PublishedInv, NetType, HistoryType
<1>6. PublisherInv'
  BY DEF IInv, DetectClosed, NextWorker, pubVars, threadVars, netVars, subVars,
           history, PublisherInv, PubType, ThreadType
<1>7. HeaderInv'
  BY DEF IInv, DetectClosed, NextWorker, pubVars, threadVars, netVars, subVars,
           history, HeaderInv, CurInv, NetType, ThreadType
<1>8. OrderInv'
  <2>1. (Ahead' => Ahead) /\ UNCHANGED <<stream, received, published>>
    BY PublishGoesOn DEF IInv, DetectClosed, history, WritesOnce
  <2> QED
    BY <2>1, AheadNoMore DEF IInv
<1>9. GapInv'
  <2>1. GoesOn
    BY PublishGoesOn DEF IInv
  <2>2. /\ UNCHANGED <<worker, workers_, sentLast, published>>
        /\ tcpros_' \subseteq tcpros_ /\ k \notin tcpros_'
    BY DEF DetectClosed, history
  <2>3. app \in 1..Len(workers_)
    BY LenProperties DEF IInv, PubType
  <2>4. ASSUME NEW j \in Conns, j \in tcpros_', NEW i \in 1..Len(workers_), workers_[i] = j
        PROVE  \/ sentLast[j] = 0
               \/ (app' = 0 \/ i <= app') /\ sentLast[j] = published
               \/ app' # 0 /\ i >= app' /\ sentLast[j] = published - 1
    <3>1. i # app /\ j \in tcpros_
      BY <2>2, <2>4
    <3>2. \/ sentLast[j] = 0
          \/ (app = 0 \/ i <= app) /\ sentLast[j] = published
          \/ app # 0 /\ i >= app /\ sentLast[j] = published - 1
      BY <2>4, <3>1 DEF IInv, GapInv
    <3>3. (i <= app => app' = 0 \/ i <= app') /\ (i >= app => app' # 0 /\ i >= app')
      BY <2>1, <3>1 DEF GoesOn
    <3> QED
      BY <2>3, <3>2, <3>3
  <2> QED
    BY <2>2, <2>4 DEF IInv, GapInv
<1> QED
  BY <1>1, <1>2, <1>3, <1>4, <1>5, <1>6, <1>7, <1>8, <1>9 DEF IInv

LEMMA ReleaseKeeps ==
  ASSUME IInv, Release
  PROVE  IInv'
<1>1. UNCHANGED <<pubUp, app, standby, dtor, workers_, worker, connected_, tcpros_,
         first, stream, sentLast, torn, cur, subUp, shutdown_flag, conn, subWorkers_,
         subTcpros_, spin, published, received>>
  BY DEF Release, pubVars, threadVars, netVars, subVars, history
<1>2. ThreadType' /\ NetType' /\ SubType' /\ HistoryType' /\ PublishedInv' /\ OpenInv'
         /\ WorkersInv' /\ WorkerInv' /\ CurInv' /\ HeaderInv' /\ RoomInv' /\ OrderInv'
         /\ GapInv'
  BY <1>1, Frames DEF IInv
<1>3. PubType'
  BY DEF IInv, Release, pubVars, threadVars, netVars, subVars, history, PubType, NetType
<1>4. PublisherInv'
  BY DEF IInv, Release, pubVars, threadVars, netVars, subVars, history, PublisherInv,
           PubType, ThreadType
<1> QED
  BY <1>1, <1>2, <1>3, <1>4 DEF IInv

LEMMA DiesKeeps ==
  ASSUME IInv, NEW tears \in SUBSET BeingWritten, pubUp, PublisherDies(tears)
  PROVE  IInv'
<1>1. /\ PubType /\ ThreadType /\ NetType /\ SubType /\ HistoryType
      /\ PublishedInv /\ OpenInv /\ PublisherInv /\ WorkersInv /\ WorkerInv /\ CurInv
      /\ HeaderInv /\ RoomInv /\ OrderInv /\ GapInv
  BY DEF IInv
<1>2. /\ UNCHANGED <<first, sentLast, cur, subUp, shutdown_flag, conn, subWorkers_,
                     subTcpros_, spin, published, received>>
      /\ pubUp' = FALSE /\ held' = FALSE /\ app' = 0 /\ standby' = 0 /\ dtor' = "gone"
      /\ workers_' = << >> /\ connected_' = {} /\ tcpros_' = {}
      /\ worker' = [k \in Conns |-> IF worker[k] = "none" THEN "none" ELSE "ended"]
      /\ torn' = torn \cup tears
  BY DEF PublisherDies, subVars, history
<1> DEFINE p(k) == IF worker[k] = "negotiating" THEN 0 ELSE published
           new(k) == IF k \notin tears THEN stream[k] ELSE Append(stream[k], p(k))
<1>3. stream' = [k \in Conns |-> new(k)]
  BY DEF PublisherDies
<1>4. tears \subseteq Conns
  BY DEF BeingWritten
\* A packet is torn only on the last connection, in the order of the others.
<1>5. ASSUME NEW k \in tears
      PROVE  /\ SubOpen(k) /\ k = cur /\ first[k] = "sub"
             /\ WellWritten(Append(stream[k], p(k)), k, p(k))
             /\ \/ p(k) = 0 /\ stream[k] = << >> /\ worker[k] # "ended"
                \/ p(k) = published /\ published # 0 /\ stream[k] = stream[k] /\ k \in tcpros_
  <2>1. k \in Conns /\ SubOpen(k) /\ k = cur /\ first[k] = "sub"
    BY <1>1, <1>5, OnlyCurIsOpen DEF BeingWritten
  <2>2. CASE worker[k] = "negotiating"
    <3>1. p(k) = 0 /\ stream[k] = << >> /\ worker[k] # "ended"
      BY <1>1, <2>1, <2>2 DEF WorkerInv
    <3> HIDE DEF p
    <3>2. WellWritten(Append(stream[k], p(k)), k, p(k))
      BY <2>1, <3>1, WritingKeepsOrder
    <3> QED
      BY <2>1, <3>1, <3>2
  <2>3. CASE worker[k] # "negotiating"
    <3>1. app # 0 /\ k = workers_[app] /\ k \in tcpros_ /\ sentLast[k] # published
      BY <1>5, <2>3 DEF BeingWritten
    <3>2. Ahead /\ published # 0
      <4>1. app \in app..Len(workers_) /\ workers_[app] = cur /\ sentLast[cur] # published
        BY <1>1, <2>1, <3>1, LenProperties DEF PubType
      <4> QED
        BY <1>1, <3>1, <4>1 DEF Ahead, PublishedInv
    <3>3. p(k) = published
      BY <2>3
    <3> HIDE DEF p
    <3>4. WellWritten(Append(stream[k], p(k)), k, p(k))
      BY <2>1, <3>2, <3>3, WritingKeepsOrder
    <3> QED
      BY <2>1, <3>1, <3>2, <3>3, <3>4
  <2> QED
    BY <2>2, <2>3
<1> HIDE DEF p
<1>6. ASSUME NEW k \in Conns
      PROVE  /\ stream'[k] \in Seq(Nat) /\ Increasing(stream'[k])
             /\ Len(stream'[k]) <= Capacity + 1
             /\ ~SubOpen(k) => stream'[k] = << >>
             /\ \A j \in 1..Len(stream'[k]) : stream'[k][j] <= published
             /\ \A i \in 1..Len(received), j \in 1..Len(stream'[k]) :
                  stream'[k][j] # 0 => received[i] < stream'[k][j]
  <2>1. stream'[k] = new(k)
    BY <1>3
  <2>2. stream[k] \in Seq(Nat) /\ Len(stream[k]) \in Nat /\ Len(stream[k]) <= Capacity
    BY <1>1, LenProperties DEF NetType, RoomInv
  <2>3. CASE k \in tears
    <3>1. stream'[k] = Append(stream[k], p(k)) /\ WellWritten(stream'[k], k, p(k)) /\ SubOpen(k)
      BY <1>5, <2>1, <2>3
    <3> HIDE DEF new
    <3>2. Len(stream'[k]) <= Capacity + 1
      BY <2>2, <3>1, BoundsAssumption DEF WellWritten
    <3> QED
      BY <3>1, <3>2 DEF WellWritten
  <2>4. CASE k \notin tears
    <3>1. stream'[k] = stream[k]
      BY <2>1, <2>4
    <3>2. Len(stream[k]) <= Capacity + 1 /\ (~SubOpen(k) => stream[k] = << >>)
      BY <1>1, <2>2, BoundsAssumption DEF OpenInv
    <3>3. \A j \in 1..Len(stream[k]) : stream[k][j] <= published
      BY <1>1 DEF PublishedInv
    <3>4. /\ Increasing(stream[k])
          /\ \A i \in 1..Len(received), j \in 1..Len(stream[k]) :
               stream[k][j] # 0 => received[i] < stream[k][j]
      BY <1>1 DEF OrderInv
    <3> QED
      BY <2>2, <3>1, <3>2, <3>3, <3>4, Zenon
  <2> QED
    BY <2>3, <2>4
<1>7. PubType'
  <2>1. workers_' \in Seq(Conns) /\ app' \in 0..Len(workers_')
    <3>1. << >> \in Seq(Conns) /\ Len(<< >>) = 0
      BY EmptySeq
    <3> QED
      BY <1>2, <3>1
  <2>2. standby' \in 0..cur'
    BY <1>1, <1>2, BoundsAssumption DEF NetType
  <2> QED
    BY <1>2, <2>1, <2>2 DEF PubType
<1>8. ThreadType'
  BY <1>1, <1>2 DEF ThreadType, WorkerState
<1>9. NetType'
  <2>1. stream' \in [Conns -> Seq(Nat)]
    BY <1>3, <1>6
  <2> QED
    BY <1>1, <1>2, <1>4, <2>1 DEF NetType
<1>10. PublishedInv'
  BY <1>1, <1>2, <1>6 DEF PublishedInv
<1>11. OpenInv'
  <2>1. \A k \in Conns : SubOpen(k)' <=> SubOpen(k)
    BY <1>2 DEF SubOpen
  <2> QED
    BY <1>2, <1>6, <2>1 DEF OpenInv
<1>12. PublisherInv' /\ WorkersInv'
  BY <1>2 DEF PublisherInv, WorkersInv
<1>13. WorkerInv'
  <2>1. \A k \in Conns : worker[k] = "none" => stream'[k] = << >>
    <3> SUFFICES ASSUME NEW k \in Conns, worker[k] = "none"
                 PROVE  stream'[k] = << >>
      OBVIOUS
    <3>1. first[k] = "none" /\ stream[k] = << >>
      BY <1>1 DEF WorkerInv
    <3>2. k \notin tears
      BY <1>5, <3>1
    <3> QED
      BY <1>3, <3>1, <3>2
  <2> QED
    BY <1>1, <1>2, <2>1 DEF WorkerInv
<1>14. HeaderInv'
  <2>1. ASSUME conn = "header", stream'[cur] # << >>
        PROVE  stream'[cur][1] = 0
    <3>1. cur \in Conns /\ subTcpros_ = {}
      BY <1>1, <2>1 DEF CurInv
    <3>2. CASE cur \in tears
      <4>1. WellWritten(stream'[cur], cur, p(cur))
        BY <1>3, <1>5, <3>1, <3>2
      <4>2. CASE p(cur) = 0 /\ stream[cur] = << >>
        <5>1. Len(stream'[cur]) = 1
          BY <4>1, <4>2 DEF WellWritten
        <5> QED
          BY <4>1, <4>2, <5>1 DEF WellWritten
      <4>3. CASE cur \in tcpros_
        <5>1. stream[cur] # << >> /\ stream[cur] \in Seq(Nat)
          BY <1>1, <1>5, <2>1, <3>1, <3>2, <4>3 DEF HeaderInv, NetType
        <5>2. 1 \in 1..Len(stream[cur]) /\ stream[cur][1] = 0
          BY <1>1, <2>1, <5>1, EmptySeq DEF HeaderInv
        <5> QED
          BY <4>1, <5>2 DEF WellWritten
      <4> QED
        BY <1>5, <3>2, <4>2, <4>3
    <3>3. CASE cur \notin tears
      BY <1>1, <1>3, <2>1, <3>1, <3>3 DEF HeaderInv
    <3> QED
      BY <3>2, <3>3
  <2>2. ASSUME conn = "push" \/ cur \in subTcpros_
        PROVE  worker'[cur] = "ended" /\ \A i \in 1..Len(stream'[cur]) : stream'[cur][i] # 0
    <3>1. /\ cur \in Conns /\ worker[cur] = "ended"
          /\ \A i \in 1..Len(stream[cur]) : stream[cur][i] # 0
      BY <1>1, <2>2 DEF HeaderInv, CurInv
    <3>2. worker'[cur] = "ended"
      BY <1>2, <3>1
    <3>3. CASE cur \in tears
      <4>1. WellWritten(stream'[cur], cur, p(cur)) /\ p(cur) # 0
        BY <1>3, <1>5, <3>1, <3>3
      <4>2. Len(stream[cur]) \in Nat
        BY <1>1, <3>1, LenProperties DEF NetType
      <4>3. \A i \in 1..Len(stream'[cur]) :
              i \in 1..Len(stream[cur]) \/ i = Len(stream'[cur])
        BY <4>1, <4>2 DEF WellWritten
      <4> QED
        BY <3>1, <3>2, <4>1, <4>3 DEF WellWritten
    <3>4. CASE cur \notin tears
      BY <1>3, <3>1, <3>2, <3>4
    <3> QED
      BY <3>3, <3>4
  <2> QED
    BY <1>2, <2>1, <2>2 DEF HeaderInv
<1>15. RoomInv'
  BY <1>2 DEF RoomInv
<1>16. OrderInv'
  <2>1. ~Ahead' /\ Increasing(received)
    BY <1>1, <1>2 DEF Ahead, OrderInv
  <2> QED
    BY <1>2, <1>6, <2>1 DEF OrderInv, Increasing
<1>17. GapInv'
  BY <1>1, <1>2 DEF GapInv
<1>18. SubType' /\ HistoryType' /\ CurInv'
  BY <1>1, <1>2, Frames
<1> QED
  BY <1>7, <1>8, <1>9, <1>10, <1>11, <1>12, <1>13, <1>14, <1>15, <1>16, <1>17, <1>18
           DEF IInv

LEMMA RequestKeeps ==
  ASSUME IInv, Request
  PROVE  IInv'
<1>1. /\ PubType /\ ThreadType /\ NetType /\ SubType /\ HistoryType
      /\ PublishedInv /\ OpenInv /\ PublisherInv /\ WorkersInv /\ WorkerInv /\ CurInv
      /\ HeaderInv /\ RoomInv /\ OrderInv /\ GapInv
  BY DEF IInv
<1>2. /\ UNCHANGED <<pubUp, held, app, dtor, workers_, connected_, tcpros_, first, stream,
                     sentLast, torn, subUp, shutdown_flag, subWorkers_, subTcpros_, spin,
                     published, received>>
      /\ conn = "request" /\ pubUp /\ held /\ standby = 0 /\ cur < MaxConns
      /\ cur' = cur + 1 /\ standby' = cur + 1 /\ conn' = "answer"
      /\ worker' = [worker EXCEPT ![cur + 1] = "spawned"]
  BY DEF Request, history
<1>3. cur \in Nat /\ cur' \in Conns /\ cur' \in 1..MaxConns /\ cur' > cur
  BY <1>1, <1>2, BoundsAssumption DEF NetType, Conns
<1>4. /\ worker[cur'] = "none" /\ worker'[cur'] = "spawned"
      /\ \A k \in Conns \ {cur'} : worker'[k] = worker[k]
      /\ worker' \in [Conns -> WorkerState]
      /\ first[cur'] = "none" /\ stream[cur'] = << >> /\ sentLast[cur'] = 0
      /\ cur' \notin connected_ \cup tcpros_
  <2>1. worker[cur'] = "none"
    BY <1>1, <1>3 DEF WorkerInv
  <2>2. first[cur'] = "none" /\ stream[cur'] = << >> /\ sentLast[cur'] = 0
    BY <1>1, <1>3, <2>1 DEF WorkerInv, GapInv
  <2>3. cur' \notin connected_ \cup tcpros_
    BY <1>1, <1>3, <2>1 DEF ThreadType
  <2>4. /\ worker'[cur'] = "spawned" /\ \A k \in Conns \ {cur'} : worker'[k] = worker[k]
        /\ worker' \in [Conns -> WorkerState]
    BY <1>1, <1>2, <1>3 DEF ThreadType, WorkerState
  <2> QED
    BY <2>1, <2>2, <2>3, <2>4
<1>5. PubType' /\ SubType' /\ HistoryType' /\ PublishedInv' /\ RoomInv'
  <2>1. PubType'
    BY <1>1, <1>2, <1>3 DEF PubType
  <2>2. SubType'
    BY <1>1, <1>2 DEF SubType
  <2> QED
    BY <1>1, <1>2, <2>1, <2>2, Frames
<1>6. ThreadType'
  BY <1>1, <1>2, <1>4 DEF ThreadType
<1>7. NetType'
  BY <1>1, <1>2, <1>3 DEF NetType
<1>8. OpenInv'
  <2>1. subTcpros_ = {} /\ \A k \in Conns : ~SubOpen(k)
    BY <1>1, <1>2 DEF CurInv, SubOpen
  <2>2. \A k \in Conns : ~SubOpen(k)'
    BY <1>2, <2>1 DEF SubOpen
  <2> QED
    BY <1>1, <1>2, <2>1, <2>2 DEF OpenInv
<1>9. PublisherInv'
  BY <1>1, <1>2 DEF PublisherInv
<1>10. WorkersInv'
  <2>1. \A i \in 1..Len(workers_) : workers_[i] \in 1..cur /\ workers_[i] # cur'
    BY <1>1, <1>3 DEF WorkersInv
  <2>2. 1..cur \subseteq 1..cur'
    BY <1>3
  <2> QED
    BY <1>1, <1>2, <2>1, <2>2 DEF WorkersInv
<1>11. WorkerInv'
  <2>1. \A k \in Conns : k > cur' => k > cur /\ k # cur'
    BY <1>3 DEF Conns
  <2> QED
    BY <1>1, <1>2, <1>4, <2>1 DEF WorkerInv
<1>12. CurInv'
  BY <1>1, <1>2, <1>3 DEF CurInv
<1>13. HeaderInv'
  BY <1>1, <1>2 DEF HeaderInv, CurInv
<1>14. OrderInv'
  <2>1. ~Ahead'
    <3>1. \A i \in 1..Len(workers_) : workers_[i] # cur'
      BY <1>1, <1>3 DEF WorkersInv
    <3>2. app # 0 => app..Len(workers_) \subseteq 1..Len(workers_)
      BY <1>1, LenProperties DEF PubType
    <3> QED
      BY <1>2, <3>1, <3>2 DEF Ahead
  <2> QED
    BY <1>1, <1>2, <2>1, AheadNoMore
<1>15. GapInv'
  <2>1. \A k \in Conns : worker'[k] # "ended" => sentLast[k] = 0
    BY <1>1, <1>4 DEF GapInv
  <2> QED
    BY <1>1, <1>2, <2>1 DEF GapInv
<1> QED
  BY <1>5, <1>6, <1>7, <1>8, <1>9, <1>10, <1>11, <1>12, <1>13, <1>14, <1>15 DEF IInv

LEMMA StandByKeeps ==
  ASSUME IInv, StandBy
  PROVE  IInv'
<1>1. UNCHANGED <<pubUp, held, app, dtor, worker, connected_, tcpros_, first, stream,
         sentLast, torn, cur, subUp, shutdown_flag, subWorkers_, subTcpros_, spin,
         published, received>>
  BY DEF StandBy, pubVars, threadVars, netVars, subVars, history
<1>2. ThreadType' /\ NetType' /\ HistoryType' /\ PublishedInv' /\ WorkerInv' /\ RoomInv'
  BY <1>1, Frames DEF IInv
<1>3. PubType'
  <2>1. workers_ \in Seq(Conns) /\ standby \in Conns
    BY BoundsAssumption DEF IInv, PubType, NetType, StandBy, Conns
  <2>2. /\ Append(workers_, standby) \in Seq(Conns)
        /\ Len(Append(workers_, standby)) = Len(workers_) + 1
        /\ Append(workers_, standby) # << >> /\ Len(workers_) \in Nat
    BY <2>1, AppendProperties, LenProperties
  <2> QED
    BY <2>2, BoundsAssumption DEF IInv, PubType, NetType, StandBy, netVars
<1>4. SubType'
  BY DEF IInv, StandBy, pubVars, threadVars, netVars, subVars, history, SubType
<1>5. OpenInv'
  BY DEF IInv, StandBy, pubVars, threadVars, netVars, subVars, history, OpenInv,
           NetType, CurInv, SubType, SubOpen
<1>6. PublisherInv'
  BY DEF IInv, StandBy, pubVars, threadVars, netVars, subVars, history, PublisherInv,
           PubType, ThreadType
<1>7. WorkersInv'
  BY DEF IInv, StandBy, pubVars, threadVars, netVars, subVars, history, WorkersInv,
           PubType, NetType
<1>8. CurInv'
  BY DEF IInv, StandBy, pubVars, threadVars, netVars, subVars, history, CurInv,
           SubType, NetType
<1>9. HeaderInv'
  BY DEF IInv, StandBy, pubVars, threadVars, netVars, subVars, history, HeaderInv,
           CurInv, NetType, ThreadType
<1>10. OrderInv'
  BY DEF IInv, StandBy, pubVars, threadVars, netVars, subVars, history, OrderInv,
           NetType, PubType, HistoryType, PublishedInv, Increasing, Ahead
<1>11. GapInv'
  <2>1. /\ workers_' = Append(workers_, standby) /\ app = 0 /\ app' = 0
        /\ UNCHANGED <<worker, tcpros_, sentLast, published>>
    BY DEF StandBy, threadVars, netVars, history
  <2>2. workers_ \in Seq(Conns) /\ standby \in Conns
    BY BoundsAssumption DEF IInv, PubType, NetType, StandBy, Conns
  <2>3. /\ Len(workers_') = Len(workers_) + 1 /\ workers_'[Len(workers_) + 1] = standby
        /\ \A i \in 1..Len(workers_) : workers_'[i] = workers_[i]
        /\ Len(workers_) \in Nat
    BY <2>1, <2>2, AppendProperties, LenProperties
  <2>4. \A i \in 1..Len(workers_) : workers_[i] # standby
    BY DEF IInv, WorkersInv, StandBy
  <2>5. ASSUME NEW k \in Conns, k \in tcpros_, NEW i \in 1..Len(workers_'), workers_'[i] = k
        PROVE  sentLast[k] \in {0, published}
    <3>1. CASE i \in 1..Len(workers_)
      BY <2>1, <2>3, <2>5, <3>1 DEF IInv, GapInv
    <3>2. CASE i = Len(workers_) + 1
      BY <2>1, <2>3, <2>4, <2>5, <3>2 DEF IInv, GapInv
    <3> QED
      BY <2>3, <3>1, <3>2
  <2>6. ASSUME NEW k \in Conns, k \in tcpros_, \A i \in 1..Len(workers_') : workers_'[i] # k
        PROVE  sentLast[k] = 0
    <3>1. \A i \in 1..Len(workers_) : workers_[i] # k
      BY <2>3, <2>6
    <3> QED
      BY <2>6, <3>1 DEF IInv, GapInv
  <2> QED
    BY <2>1, <2>5, <2>6 DEF IInv, GapInv
<1> QED
  BY <1>1, <1>2, <1>3, <1>4, <1>5, <1>6, <1>7, <1>8, <1>9, <1>10, <1>11 DEF IInv

LEMMA ListenKeeps ==
  ASSUME IInv, NEW k \in Conns, Listen(k)
  PROVE  IInv'
<1>1. UNCHANGED <<pubUp, held, app, standby, dtor, workers_, first, stream, sentLast,
         torn, cur, subUp, shutdown_flag, conn, subWorkers_, subTcpros_, spin,
         published, received>>
  BY DEF Listen, SetWorker, Established, pubVars, threadVars, netVars, subVars, history
<1>2. PubType' /\ NetType' /\ SubType' /\ HistoryType' /\ PublishedInv' /\ OpenInv' /\
         WorkersInv' /\ CurInv' /\ RoomInv' /\ OrderInv'
  BY <1>1, Frames DEF IInv
<1>3. ThreadType'
  <2>1. worker[k] = "spawned" /\ worker \in [Conns -> WorkerState]
    BY DEF IInv, Listen, ThreadType
  <2>2. k \notin connected_ \cup tcpros_
    BY <2>1 DEF IInv, ThreadType
  <2>3. PICK state \in {"listening", "deaf", "ended"} :
          /\ worker' = [worker EXCEPT ![k] = state]
          /\ state # "ended" => UNCHANGED <<connected_, tcpros_>>
          /\ state = "ended" => connected_' = connected_ \cup {k} /\ tcpros_' = tcpros_ \cup {k}
    <3>1. CASE Established(k)
      BY <3>1 DEF Established, SetWorker
    <3>2. CASE /\ \E state \in {"listening", "deaf"} : SetWorker(k, state)
               /\ UNCHANGED <<connected_, tcpros_>>
      BY <3>2 DEF SetWorker
    <3> QED
      BY <3>1, <3>2 DEF Listen
  <2>4. worker' \in [Conns -> WorkerState] /\ worker'[k] = state
        /\ \A j \in Conns \ {k} : worker'[j] = worker[j]
    BY <2>1, <2>3 DEF WorkerState
  <2>5. connected_' \in SUBSET Conns /\ tcpros_' \in SUBSET Conns
    BY <2>3 DEF IInv, ThreadType
  <2>6. \A j \in connected_' \cup tcpros_' : worker'[j] = "ended"
    BY <2>2, <2>3, <2>4 DEF IInv, ThreadType
  <2> QED
    BY <2>4, <2>5, <2>6 DEF ThreadType
<1>4. PublisherInv'
  BY DEF IInv, Listen, SetWorker, Established, pubVars, threadVars, netVars, subVars,
           history, PublisherInv, PubType, ThreadType
<1>5. WorkerInv'
  BY DEF IInv, Listen, SetWorker, Established, pubVars, threadVars, netVars, subVars,
           history, WorkerInv, ThreadType, NetType
<1>6. HeaderInv'
  <2>1. worker[k] = "spawned" /\ UNCHANGED <<conn, stream, cur, first, subTcpros_>>
    BY DEF Listen, netVars, subVars
  <2>2. \A j \in Conns \ {k} : worker'[j] = worker[j] /\ (j \in tcpros_' => j \in tcpros_)
    BY DEF IInv, ThreadType, Listen, SetWorker, Established
  <2>3. first[k] = "none"
    BY <2>1 DEF IInv, WorkerInv
  <2>4. (conn = "push" \/ cur \in subTcpros_) => cur # k /\ cur \in Conns
    BY <2>1 DEF IInv, HeaderInv, CurInv
  <2>5. conn = "header" => cur \in Conns
    BY DEF IInv, CurInv
  <2> QED
    BY <2>1, <2>2, <2>3, <2>4, <2>5 DEF IInv, HeaderInv
<1>7. GapInv'
  BY DEF IInv, Listen, SetWorker, Established, pubVars, threadVars, netVars, subVars,
           history, GapInv, ThreadType, NetType, PubType, HistoryType, WorkersInv
<1> QED
  BY <1>1, <1>2, <1>3, <1>4, <1>5, <1>6, <1>7 DEF IInv

LEMMA AcceptKeeps ==
  ASSUME IInv, NEW k \in Conns, Accept(k)
  PROVE  IInv'
<1>1. UNCHANGED <<pubUp, held, app, standby, dtor, workers_, connected_, tcpros_,
         first, stream, sentLast, torn, cur, subUp, shutdown_flag, conn, subWorkers_,
         subTcpros_, spin, published, received>>
  BY DEF Accept, SetWorker, pubVars, threadVars, netVars, subVars, history
<1>2. PubType' /\ NetType' /\ SubType' /\ HistoryType' /\ PublishedInv' /\ OpenInv' /\
         WorkersInv' /\ CurInv' /\ RoomInv' /\ OrderInv'
  BY <1>1, Frames DEF IInv
<1>3. ThreadType'
  <2>1. /\ worker[k] = "listening" /\ UNCHANGED <<connected_, tcpros_>>
        /\ \E state \in {"stuck", "negotiating"} : worker' = [worker EXCEPT ![k] = state]
    BY DEF Accept, SetWorker
  <2> QED
    BY <2>1 DEF IInv, ThreadType, WorkerState
<1>4. PublisherInv'
  BY DEF IInv, Accept, SetWorker, pubVars, threadVars, netVars, subVars, history,
           PublisherInv, PubType, ThreadType
<1>5. WorkerInv'
  BY DEF IInv, Accept, SetWorker, pubVars, threadVars, netVars, subVars, history,
           WorkerInv, ThreadType, NetType
<1>6. HeaderInv'
  BY DEF IInv, Accept, SetWorker, pubVars, threadVars, netVars, subVars, history,
           HeaderInv, CurInv, NetType, ThreadType
<1>7. GapInv'
  BY DEF IInv, Accept, SetWorker, pubVars, threadVars, netVars, subVars, history,
           GapInv, ThreadType, NetType, PubType, HistoryType, WorkersInv
<1> QED
  BY <1>1, <1>2, <1>3, <1>4, <1>5, <1>6, <1>7 DEF IInv

LEMMA NegotiatedKeeps ==
  ASSUME IInv, NEW k \in Conns, Negotiated(k)
  PROVE  IInv'
<1>1. /\ PubType /\ ThreadType /\ NetType /\ SubType /\ HistoryType
      /\ PublishedInv /\ OpenInv /\ PublisherInv /\ WorkersInv /\ WorkerInv /\ CurInv
      /\ HeaderInv /\ RoomInv /\ OrderInv /\ GapInv
  BY DEF IInv
<1>2. /\ UNCHANGED <<pubUp, held, app, standby, dtor, workers_, first, sentLast, torn,
         cur,
                     subUp, shutdown_flag, conn, subWorkers_, subTcpros_, spin, published,
                     received>>
      /\ worker[k] = "negotiating" /\ worker' = [worker EXCEPT ![k] = "ended"]
      /\ \/ /\ connected_' = connected_ \cup {k} /\ tcpros_' = tcpros_ \cup {k}
            /\ stream' = [stream EXCEPT ![k] = Written(k, 0)]
         \/ UNCHANGED <<connected_, tcpros_, stream>> /\ ~SubOpen(k)
  BY DEF Negotiated, Established, SetWorker, pubVars, subVars, history
<1>3. /\ stream[k] = << >> /\ sentLast[k] = 0 /\ k \notin tcpros_ /\ k \notin connected_
      /\ worker'[k] = "ended" /\ \A j \in Conns \ {k} : worker'[j] = worker[j]
      /\ worker' \in [Conns -> WorkerState]
  BY <1>1, <1>2 DEF WorkerInv, GapInv, ThreadType, WorkerState
\* Either the header is sent to a subscriber that waits for it, or nothing is.
<1>4. /\ \A j \in Conns \ {k} : stream'[j] = stream[j]
      /\ stream' \in [Conns -> Seq(Nat)]
      /\ \/ /\ SubOpen(k) /\ k = cur /\ first[k] = "sub"
            /\ WellWritten(stream'[k], k, 0) /\ k \in tcpros_'
         \/ stream' = stream /\ (k \in tcpros_' => ~(SubOpen(k) /\ first[k] = "sub"))
  <2>1. CASE UNCHANGED stream /\ tcpros_' = tcpros_
    BY <1>1, <1>3, <2>1 DEF NetType
  <2>2. CASE /\ stream' = [stream EXCEPT ![k] = Written(k, 0)]
             /\ SubOpen(k) /\ first[k] = "sub" /\ k \in tcpros_'
    <3>1. stream' = [stream EXCEPT ![k] = Append(stream[k], 0)]
      BY <2>2 DEF Written
    <3>2. WellWritten(Append(stream[k], 0), k, 0)
      BY <1>3, WritingKeepsOrder
    <3>3. k = cur
      BY <1>1, <2>2, OnlyCurIsOpen
    <3>4. Append(stream[k], 0) \in Seq(Nat)
      BY <3>2 DEF WellWritten
    <3> HIDE DEF WellWritten
    <3> QED
      BY <1>1, <2>2, <3>1, <3>2, <3>3, <3>4 DEF NetType
  <2>3. CASE /\ stream' = [stream EXCEPT ![k] = Written(k, 0)]
             /\ ~(SubOpen(k) /\ first[k] = "sub")
    <3>1. stream' = stream
      BY <1>1, <2>3 DEF Written, NetType
    <3> QED
      BY <1>1, <2>3, <3>1 DEF NetType
  <2> QED
    BY <1>2, <2>1, <2>2, <2>3
<1>5. ASSUME NEW j \in Conns
      PROVE  /\ Increasing(stream'[j]) /\ Len(stream'[j]) <= Capacity
             /\ ~SubOpen(j) => stream'[j] = << >>
             /\ \A i \in 1..Len(stream'[j]) : stream'[j][i] <= published
             /\ \A i \in 1..Len(received), m \in 1..Len(stream'[j]) :
                  stream'[j][m] # 0 => received[i] < stream'[j][m]
             /\ Ahead => \A m \in 1..Len(stream'[j]) : stream'[j][m] < published
  <2>1. CASE stream'[j] = stream[j]
    <3>1. pubUp
      BY <1>1, <1>2 DEF PublisherInv
    <3> QED
      BY <1>1, <2>1, <3>1 DEF OpenInv, PublishedInv, OrderInv, RoomInv
  <2>2. CASE j = k /\ SubOpen(k) /\ WellWritten(stream'[k], k, 0)
    <3>1. Len(stream'[k]) = 1 /\ stream'[k][1] = 0
      BY <1>3, <2>2, EmptySeq DEF WellWritten
    <3>2. Ahead => 0 < published
      BY <1>1 DEF Ahead, PublishedInv, HistoryType
    <3> QED
      BY <2>2, <3>1, <3>2, BoundsAssumption DEF WellWritten
  <2> QED
    BY <1>4, <2>1, <2>2
<1>6. PubType' /\ SubType' /\ HistoryType' /\ WorkersInv' /\ CurInv'
  BY <1>1, <1>2, Frames
<1>7. ThreadType'
  BY <1>1, <1>2, <1>3 DEF ThreadType
<1>8. NetType'
  BY <1>1, <1>2, <1>4 DEF NetType
<1>9. PublishedInv'
  BY <1>1, <1>2, <1>5 DEF PublishedInv
<1>10. OpenInv'
  <2>1. \A j \in Conns : SubOpen(j)' <=> SubOpen(j)
    BY <1>2 DEF SubOpen
  <2>2. \A j \in Conns : Len(stream'[j]) <= Capacity + 1
    <3> SUFFICES ASSUME NEW j \in Conns
                 PROVE  Len(stream'[j]) <= Capacity + 1
      OBVIOUS
    <3>1. Len(stream'[j]) \in Nat
      BY <1>4, LenProperties
    <3> QED
      BY <1>5, <3>1, BoundsAssumption
  <2> QED
    BY <1>5, <2>1, <2>2 DEF OpenInv
<1>11. PublisherInv'
  BY <1>1, <1>2 DEF PublisherInv
<1>12. WorkerInv'
  BY <1>1, <1>2, <1>3, <1>4 DEF WorkerInv
<1>13. HeaderInv'
  <2>1. ASSUME conn = "header", stream'[cur] # << >>
        PROVE  stream'[cur][1] = 0
    <3>1. cur \in Conns
      BY <1>1, <2>1 DEF CurInv
    <3>2. CASE stream'[cur] = stream[cur]
      BY <1>1, <2>1, <3>2 DEF HeaderInv
    <3>3. CASE cur = k /\ WellWritten(stream'[k], k, 0)
      BY <1>3, <3>3, EmptySeq DEF WellWritten
    <3> QED
      BY <1>4, <3>1, <3>2, <3>3
  <2>2. ASSUME conn = "header", cur \in tcpros_', first[cur] = "sub"
        PROVE  stream'[cur] # << >>
    <3>1. cur \in Conns /\ SubOpen(cur)
      BY <1>1, <2>2 DEF CurInv, SubOpen
    <3>2. CASE cur # k
      BY <1>1, <1>2, <1>4, <2>2, <3>1, <3>2 DEF HeaderInv
    <3>3. CASE cur = k
      <4>1. WellWritten(stream'[k], k, 0)
        BY <1>4, <2>2, <3>1, <3>3
      <4>2. Len(stream'[k]) = 1
        BY <1>3, <4>1, EmptySeq DEF WellWritten
      <4> QED
        BY <3>3, <4>2, EmptySeq
    <3> QED
      BY <3>2, <3>3
  <2>3. ASSUME conn = "push" \/ cur \in subTcpros_
        PROVE  worker'[cur] = "ended" /\ \A i \in 1..Len(stream'[cur]) : stream'[cur][i] # 0
    <3>1. cur \in Conns /\ worker[cur] = "ended"
      BY <1>1, <2>3 DEF HeaderInv, CurInv
    <3>2. cur # k
      BY <1>2, <3>1
    <3> QED
      BY <1>1, <1>3, <1>4, <2>3, <3>1, <3>2 DEF HeaderInv
  <2> QED
    BY <1>2, <2>1, <2>2, <2>3 DEF HeaderInv
<1>14. RoomInv'
  BY <1>5 DEF RoomInv
<1>15. OrderInv'
  <2>1. Ahead' <=> Ahead
    BY <1>2 DEF Ahead
  <2>2. Increasing(received) /\ (Ahead => \A i \in 1..Len(received) : received[i] < published)
    BY <1>1 DEF OrderInv
  <2> QED
    BY <1>2, <1>5, <2>1, <2>2 DEF OrderInv, Increasing
<1>16. GapInv'
  <2>1. k \in tcpros_' => sentLast[k] = 0
    BY <1>3
  <2> QED
    BY <1>1, <1>2, <1>3, <2>1 DEF GapInv
<1> QED
  BY <1>6, <1>7, <1>8, <1>9, <1>10, <1>11, <1>12, <1>13, <1>14, <1>15, <1>16 DEF IInv

LEMMA DestroyKeeps ==
  ASSUME IInv, Destroy
  PROVE  IInv'
<1>1. UNCHANGED <<pubUp, held, app, standby, workers_, worker, connected_, tcpros_,
         first, stream, sentLast, torn, cur, subUp, shutdown_flag, conn, subWorkers_,
         subTcpros_, spin, published, received>>
  BY DEF Destroy, pubVars, threadVars, netVars, subVars, history
<1>2. ThreadType' /\ NetType' /\ SubType' /\ HistoryType' /\ PublishedInv' /\ OpenInv'
         /\ WorkersInv' /\ WorkerInv' /\ CurInv' /\ HeaderInv' /\ RoomInv' /\ OrderInv'
         /\ GapInv'
  BY <1>1, Frames DEF IInv
<1>3. PubType'
  BY DEF IInv, Destroy, pubVars, threadVars, netVars, subVars, history, PubType, NetType
<1>4. PublisherInv'
  BY DEF IInv, Destroy, pubVars, threadVars, netVars, subVars, history, PublisherInv,
           PubType, ThreadType
<1> QED
  BY <1>1, <1>2, <1>3, <1>4 DEF IInv

LEMMA PokeWorkerKeeps ==
  ASSUME IInv, PokeWorker
  PROVE  IInv'
<1>1. UNCHANGED <<pubUp, held, app, standby, workers_, worker, connected_, tcpros_,
         stream, sentLast, torn, cur, subUp, shutdown_flag, conn, subWorkers_,
         subTcpros_, spin, published, received>>
  BY DEF PokeWorker, Poke, HasPort, pubVars, threadVars, netVars, subVars, history
<1>2. ThreadType' /\ SubType' /\ HistoryType' /\ PublishedInv' /\ OpenInv' /\
         WorkersInv' /\ CurInv' /\ RoomInv' /\ OrderInv' /\ GapInv'
  BY <1>1, Frames DEF IInv
<1>3. PubType'
  BY DEF IInv, PokeWorker, Poke, HasPort, pubVars, threadVars, netVars, subVars,
           history, PubType, NetType
<1>4. NetType'
  BY DEF IInv, PokeWorker, Poke, HasPort, pubVars, threadVars, netVars, subVars,
           history, NetType
<1>5. PublisherInv'
  BY DEF IInv, PokeWorker, Poke, HasPort, pubVars, threadVars, netVars, subVars,
           history, PublisherInv, PubType, ThreadType
<1>6. WorkerInv'
  BY DEF IInv, PokeWorker, Poke, HasPort, pubVars, threadVars, netVars, subVars,
           history, WorkerInv, ThreadType, NetType
<1>7. HeaderInv'
  BY DEF IInv, PokeWorker, Poke, HasPort, pubVars, threadVars, netVars, subVars,
           history, HeaderInv, CurInv, NetType, ThreadType
<1> QED
  BY <1>1, <1>2, <1>3, <1>4, <1>5, <1>6, <1>7 DEF IInv

LEMMA JoinKeeps ==
  ASSUME IInv, Join
  PROVE  IInv'
<1>1. UNCHANGED <<pubUp, held, app, standby, worker, connected_, first, stream,
         sentLast, torn, cur, subUp, shutdown_flag, conn, subWorkers_, subTcpros_,
         spin, published, received>>
  BY DEF Join, pubVars, threadVars, netVars, subVars, history
<1>2. NetType' /\ SubType' /\ HistoryType' /\ PublishedInv' /\ OpenInv' /\ WorkerInv'
         /\ CurInv' /\ RoomInv'
  BY <1>1, Frames DEF IInv
<1>3. PubType'
  <2>1. workers_ \in Seq(Conns) /\ workers_ # << >> /\ ~held /\ app = 0 /\ standby = 0
    BY DEF IInv, PubType, PublisherInv, Join
  <2>2. Tail(workers_) \in Seq(Conns) /\ Len(Tail(workers_)) \in Nat
    BY <2>1, HeadTailProperties, LenProperties
  <2> QED
    BY <2>1, <2>2 DEF IInv, PubType, Join, netVars
<1>4. ThreadType'
  BY DEF IInv, Join, pubVars, threadVars, netVars, subVars, history, ThreadType
<1>5. PublisherInv'
  BY DEF IInv, Join, pubVars, threadVars, netVars, subVars, history, PublisherInv,
           PubType, ThreadType
<1>6. WorkersInv'
  BY DEF IInv, Join, pubVars, threadVars, netVars, subVars, history, WorkersInv,
           PubType, NetType
<1>7. HeaderInv'
  BY DEF IInv, Join, pubVars, threadVars, netVars, subVars, history, HeaderInv, CurInv,
           NetType, ThreadType
<1>8. OrderInv'
  BY DEF IInv, Join, pubVars, threadVars, netVars, subVars, history, OrderInv, NetType,
           PubType, HistoryType, PublishedInv, Increasing, Ahead
<1>9. GapInv'
  <2>1. workers_ \in Seq(Conns) /\ workers_ # << >> /\ app = 0
    BY DEF IInv, PubType, PublisherInv, Join
  <2>2. /\ tcpros_' = tcpros_ \ {Head(workers_)} /\ workers_' = Tail(workers_)
        /\ UNCHANGED <<app, worker, sentLast, published>>
    BY DEF Join, netVars, history
  <2>3. /\ Len(workers_') = Len(workers_) - 1 /\ Len(workers_) \in Nat
        /\ \A i \in 1..Len(workers_') : workers_'[i] = workers_[i + 1]
        /\ Head(workers_) = workers_[1]
    BY <2>1, <2>2, HeadTailProperties, LenProperties
  <2>4. ASSUME NEW k \in Conns, k \in tcpros_', NEW i \in 1..Len(workers_'), workers_'[i] = k
        PROVE  sentLast[k] \in {0, published}
    <3>1. i + 1 \in 1..Len(workers_) /\ workers_[i + 1] = k /\ k \in tcpros_
      BY <2>2, <2>3, <2>4
    <3> QED
      BY <2>1, <3>1 DEF IInv, GapInv
  <2>5. ASSUME NEW k \in Conns, k \in tcpros_', \A i \in 1..Len(workers_') : workers_'[i] # k
        PROVE  sentLast[k] = 0
    <3>1. k \in tcpros_ /\ k # workers_[1]
      BY <2>2, <2>3, <2>5
    <3>2. ASSUME NEW i \in 1..Len(workers_)
          PROVE  workers_[i] # k
      <4>1. CASE i = 1
        BY <3>1, <4>1
      <4>2. CASE i # 1
        <5>1. i - 1 \in 1..Len(workers_') /\ workers_'[i - 1] = workers_[i]
          BY <2>3, <4>2
        <5> QED
          BY <2>5, <5>1
      <4> QED
        BY <4>1, <4>2
    <3> QED
      BY <2>5, <3>1, <3>2 DEF IInv, GapInv
  <2> QED
    BY <2>1, <2>2, <2>4, <2>5 DEF IInv, GapInv
<1> QED
  BY <1>1, <1>2, <1>3, <1>4, <1>5, <1>6, <1>7, <1>8, <1>9 DEF IInv

LEMMA publisherUpdateKeeps ==
  ASSUME IInv, publisherUpdate
  PROVE  IInv'
<1>1. UNCHANGED <<pubUp, held, app, standby, dtor, workers_, worker, connected_,
         tcpros_, first, stream, sentLast, torn, cur, subUp, shutdown_flag,
         subWorkers_, subTcpros_, spin, published, received>>
  BY DEF publisherUpdate, pubVars, threadVars, netVars, subVars, history
<1>2. PubType' /\ ThreadType' /\ NetType' /\ HistoryType' /\ PublishedInv' /\
         PublisherInv' /\ WorkersInv' /\ WorkerInv' /\ RoomInv' /\ OrderInv' /\ GapInv'
  BY <1>1, Frames DEF IInv
<1>3. SubType'
  BY DEF IInv, publisherUpdate, pubVars, threadVars, netVars, subVars, history, SubType
<1>4. OpenInv'
  BY DEF IInv, publisherUpdate, pubVars, threadVars, netVars, subVars, history,
           OpenInv, NetType, CurInv, SubType, SubOpen
<1>5. CurInv'
  BY DEF IInv, publisherUpdate, pubVars, threadVars, netVars, subVars, history, CurInv,
           SubType, NetType
<1>6. HeaderInv'
  BY DEF IInv, publisherUpdate, pubVars, threadVars, netVars, subVars, history,
           HeaderInv, CurInv, NetType, ThreadType
<1> QED
  BY <1>1, <1>2, <1>3, <1>4, <1>5, <1>6 DEF IInv

LEMMA disconnectUriKeeps ==
  ASSUME IInv, disconnectUri
  PROVE  IInv'
<1>1. /\ PubType /\ ThreadType /\ NetType /\ SubType /\ HistoryType
      /\ PublishedInv /\ OpenInv /\ PublisherInv /\ WorkersInv /\ WorkerInv /\ CurInv
      /\ HeaderInv /\ RoomInv /\ OrderInv /\ GapInv
  BY DEF IInv
<1>2. /\ UNCHANGED <<pubUp, held, app, standby, dtor, workers_, worker, connected_,
         tcpros_,
                     first, sentLast, cur, subUp, shutdown_flag, spin, published, received>>
      /\ conn = "drop" /\ spin.pc \in {"idle", "leaving"}
  BY DEF disconnectUri, LockFree, pubVars, threadVars, history
<1>3. CASE subWorkers_ = << >>
  <2>1. conn' = "request" /\ UNCHANGED <<subWorkers_, subTcpros_, stream, torn>>
    BY <1>3 DEF disconnectUri, Drop
  <2>2. SubType' /\ CurInv' /\ HeaderInv' /\ OpenInv'
    BY <1>1, <1>2, <1>3, <2>1 DEF SubType, CurInv, HeaderInv, OpenInv, SubOpen
  <2> QED
    BY <1>1, <1>2, <2>1, <2>2, Frames DEF IInv
<1>4. CASE subWorkers_ # << >>
  <2>1. subWorkers_ = <<cur>> /\ cur \in Conns
    BY <1>1, <1>4 DEF CurInv
  <2>2. Head(<<cur>>) = cur /\ Tail(<<cur>>) = << >> /\ << >> # <<cur>>
    OBVIOUS
  <2>3. subWorkers_' = << >> /\ subTcpros_' = subTcpros_ \ {cur} /\ Close({cur}) /\ conn' = conn
    BY <1>4, <2>1, <2>2 DEF disconnectUri, Drop
  <2>4. subTcpros_' = {}
    BY <1>1, <2>3 DEF CurInv
  <2>5. /\ stream' \in [Conns -> Seq(Nat)] /\ torn' \in SUBSET Conns /\ stream'[cur] = << >>
        /\ \A k \in Conns : k # cur => stream'[k] = stream[k]
        /\ \A k \in Conns : IsRest(stream'[k], stream[k])
    BY <1>1, <2>1, <2>3, Rests DEF Close, NetType
  <2>6. PublishedInv' /\ RoomInv' /\ OrderInv'
    BY <1>2, <2>5, ReadingKeeps DEF history
  <2>7. NetType' /\ SubType' /\ WorkerInv'
    BY <1>1, <1>2, <2>3, <2>5 DEF NetType, SubType, WorkerInv
  <2>8. CurInv' /\ HeaderInv'
    BY <1>1, <1>2, <2>3, <2>4 DEF CurInv, HeaderInv
  <2>9. OpenInv'
    <3>1. \A k \in Conns : ~SubOpen(k)'
      BY <1>2, <2>3, <2>4 DEF SubOpen
    <3>2. \A k \in Conns : k # cur => stream[k] = << >>
      BY <1>1, OnlyCurIsOpen DEF OpenInv
    <3> QED
      BY <2>5, <3>1, <3>2 DEF OpenInv
  <2> QED
    BY <1>1, <1>2, <2>6, <2>7, <2>8, <2>9, Frames DEF IInv
<1> QED
  BY <1>3, <1>4

LEMMA GiveUpKeeps ==
  ASSUME IInv, GiveUp
  PROVE  IInv'
<1>1. UNCHANGED <<pubUp, held, app, standby, dtor, workers_, worker, connected_,
         tcpros_, first, stream, sentLast, torn, cur, subUp, shutdown_flag,
         subWorkers_, subTcpros_, spin, published, received>>
  BY DEF GiveUp, RequestFails, pubVars, threadVars, netVars, subVars, history
<1>2. PubType' /\ ThreadType' /\ NetType' /\ HistoryType' /\ PublishedInv' /\
         PublisherInv' /\ WorkersInv' /\ WorkerInv' /\ RoomInv' /\ OrderInv' /\ GapInv'
  BY <1>1, Frames DEF IInv
<1>3. SubType'
  BY DEF IInv, GiveUp, RequestFails, pubVars, threadVars, netVars, subVars, history,
           SubType
<1>4. OpenInv'
  BY DEF IInv, GiveUp, RequestFails, pubVars, threadVars, netVars, subVars, history,
           OpenInv, NetType, CurInv, SubType, SubOpen
<1>5. CurInv'
  BY DEF IInv, GiveUp, RequestFails, pubVars, threadVars, netVars, subVars, history,
           CurInv, SubType, NetType
<1>6. HeaderInv'
  BY DEF IInv, GiveUp, RequestFails, pubVars, threadVars, netVars, subVars, history,
           HeaderInv, CurInv, NetType, ThreadType
<1> QED
  BY <1>1, <1>2, <1>3, <1>4, <1>5, <1>6 DEF IInv

LEMMA ConnectKeeps ==
  ASSUME IInv, Connect
  PROVE  IInv'
<1>1. UNCHANGED <<pubUp, held, app, standby, dtor, workers_, worker, connected_,
         tcpros_, stream, sentLast, torn, cur, subUp, shutdown_flag, subWorkers_,
         subTcpros_, spin, published, received>>
  BY DEF Connect, HasPort, pubVars, threadVars, netVars, subVars, history
<1>2. PubType' /\ ThreadType' /\ HistoryType' /\ PublishedInv' /\ PublisherInv' /\
         WorkersInv' /\ RoomInv' /\ OrderInv' /\ GapInv'
  BY <1>1, Frames DEF IInv
<1>3. NetType'
  BY DEF IInv, Connect, HasPort, pubVars, threadVars, netVars, subVars, history, NetType
<1>4. SubType'
  BY DEF IInv, Connect, HasPort, pubVars, threadVars, netVars, subVars, history, SubType
<1>5. OpenInv'
  <2>1. /\ conn = "connect" /\ conn' \in {"header", "idle"}
        /\ UNCHANGED <<stream, cur, subTcpros_>>
    BY DEF Connect
  <2>2. subTcpros_ = {} /\ cur \in Conns
    BY <2>1 DEF IInv, CurInv
  <2>3. \A k \in Conns : stream[k] = << >>
    BY <2>1, <2>2 DEF IInv, OpenInv, SubOpen
  <2>4. Len(<< >>) <= Capacity + 1
    BY EmptySeq, BoundsAssumption
  <2> QED
    BY <2>1, <2>3, <2>4 DEF OpenInv
<1>6. WorkerInv'
  BY DEF IInv, Connect, HasPort, pubVars, threadVars, netVars, subVars, history,
           WorkerInv, ThreadType, NetType
<1>7. CurInv'
  BY DEF IInv, Connect, HasPort, pubVars, threadVars, netVars, subVars, history,
           CurInv, SubType, NetType
<1>8. HeaderInv'
  <2>1. /\ conn = "connect" /\ UNCHANGED <<stream, cur, subTcpros_, worker, tcpros_>>
        /\ \/ conn' = "idle"
           \/ conn' = "header" /\ worker[cur] \in {"listening", "negotiating", "stuck"}
    BY DEF Connect, HasPort, threadVars
  <2>2. subTcpros_ = {} /\ cur \in Conns
    BY <2>1 DEF IInv, CurInv
  <2>3. stream[cur] = << >>
    BY <2>1, <2>2 DEF IInv, OpenInv, SubOpen
  <2>4. conn' = "header" => cur \notin tcpros_
    BY <2>1, <2>2 DEF IInv, ThreadType
  <2> QED
    BY <2>1, <2>2, <2>3, <2>4 DEF HeaderInv
<1> QED
  BY <1>1, <1>2, <1>3, <1>4, <1>5, <1>6, <1>7, <1>8 DEF IInv

LEMMA ReceiveHeaderKeeps ==
  ASSUME IInv, ReceiveHeader
  PROVE  IInv'
<1>1. /\ PubType /\ ThreadType /\ NetType /\ SubType /\ HistoryType
      /\ PublishedInv /\ OpenInv /\ PublisherInv /\ WorkersInv /\ WorkerInv /\ CurInv
      /\ HeaderInv /\ RoomInv /\ OrderInv /\ GapInv
  BY DEF IInv
<1>2. /\ UNCHANGED <<pubUp, held, app, standby, dtor, workers_, worker, connected_,
         tcpros_,
                     first, sentLast, cur, subUp, shutdown_flag, subWorkers_, subTcpros_,
                     spin, torn, published, received>>
      /\ conn = "header"
      /\ \/ stream[cur] = << >> /\ conn' = "idle" /\ UNCHANGED stream
         \/ stream[cur] # << >> /\ conn' = "hung" /\ UNCHANGED stream
         \/ /\ stream[cur] # << >> /\ conn' = "push"
            /\ stream' = [stream EXCEPT ![cur] = Tail(@)]
  <2>1. NextIsTorn(cur) => stream[cur] # << >>
    BY EmptySeq DEF NextIsTorn
  <2> QED
    BY <2>1 DEF ReceiveHeader, pubVars, threadVars, history
<1>3. cur \in Conns /\ subTcpros_ = {} /\ stream[cur] \in Seq(Nat) /\ SubOpen(cur)
  BY <1>1, <1>2 DEF CurInv, NetType, SubOpen
<1>4. SubType' /\ CurInv'
  BY <1>1, <1>2 DEF SubType, CurInv
<1>5. CASE UNCHANGED stream /\ conn' \in {"idle", "hung"}
  <2>1. HeaderInv'
    BY <1>2, <1>3, <1>5 DEF HeaderInv
  <2>2. OpenInv'
    <3>1. \A k \in Conns : SubOpen(k)' => SubOpen(k)
      BY <1>2, <1>3 DEF SubOpen
    <3>2. \A k \in Conns : SubOpen(k) /\ ~SubOpen(k)' => stream[k] = << >>
      BY <1>2, <1>3, <1>5 DEF SubOpen
    <3> QED
      BY <1>1, <1>5, <3>1, <3>2 DEF OpenInv
  <2> QED
    BY <1>1, <1>2, <1>4, <1>5, <2>1, <2>2, Frames DEF IInv
<1>6. CASE /\ stream[cur] # << >> /\ conn' = "push"
           /\ stream' = [stream EXCEPT ![cur] = Tail(@)]
  <2>1. /\ stream' \in [Conns -> Seq(Nat)] /\ stream'[cur] = Tail(stream[cur])
        /\ \A k \in Conns : k # cur => stream'[k] = stream[k]
        /\ \A k \in Conns : IsRest(stream'[k], stream[k])
    BY <1>1, <1>3, <1>6, Rests DEF NetType
  <2>2. PublishedInv' /\ RoomInv' /\ OrderInv'
    BY <1>2, <2>1, ReadingKeeps DEF history
  <2>3. NetType'
    BY <1>1, <1>2, <2>1 DEF NetType
  <2>4. \A k \in Conns : /\ Len(stream'[k]) <= Len(stream[k]) /\ Len(stream'[k]) \in Nat
                         /\ stream[k] = << >> => stream'[k] = << >>
    BY <1>1, <2>1, StreamsRest
  <2>5. OpenInv'
    <3>1. \A k \in Conns : SubOpen(k)' <=> SubOpen(k)
      BY <1>2, <1>6 DEF SubOpen
    <3>2. ASSUME NEW k \in Conns, SubOpen(k)
          PROVE  Len(stream'[k]) <= Capacity + 1
      <4>1. Len(stream[k]) <= Capacity + 1 /\ Len(stream[k]) \in Nat
        BY <1>1, <3>2, LenProperties DEF OpenInv, NetType
      <4> QED
        BY <2>4, <4>1, BoundsAssumption
    <3> QED
      BY <1>1, <2>4, <3>1, <3>2 DEF OpenInv
  <2>6. WorkerInv'
    BY <1>1, <1>2, <2>4 DEF WorkerInv
  <2>7. HeaderInv'
    <3>1. worker[cur] = "ended"
      BY <1>1, <1>3, <1>6 DEF WorkerInv
    <3>2. ASSUME NEW i \in 1..Len(stream'[cur])
          PROVE  stream'[cur][i] # 0
      <4>1. stream'[cur][i] = stream[cur][i + 1] /\ i + 1 \in 1..Len(stream[cur])
        BY <1>3, <1>6, <2>1, <3>2, HeadTailProperties, LenProperties
      <4>2. stream[cur][1] = 0 /\ 1 \in 1..Len(stream[cur])
        BY <1>1, <1>2, <1>3, <1>6, Rests DEF HeaderInv
      <4>3. stream[cur][1] < stream[cur][i + 1]
        <5>1. Increasing(stream[cur])
          BY <1>1, <1>3 DEF OrderInv
        <5>2. i \in Nat /\ 1 < i + 1
          BY <3>2
        <5> QED
          BY <4>1, <4>2, <5>1, <5>2 DEF Increasing
      <4> QED
        BY <4>1, <4>2, <4>3
    <3> QED
      BY <1>2, <1>3, <1>6, <3>1, <3>2 DEF HeaderInv
  <2> QED
    BY <1>1, <1>2, <1>4, <2>2, <2>3, <2>5, <2>6, <2>7, Frames DEF IInv
<1> QED
  BY <1>2, <1>5, <1>6

LEMMA PushWorkerKeeps ==
  ASSUME IInv, PushWorker
  PROVE  IInv'
<1>1. UNCHANGED <<pubUp, held, app, standby, dtor, workers_, worker, connected_,
         tcpros_, first, stream, sentLast, torn, cur, subUp, shutdown_flag, spin,
         published, received>>
  BY DEF PushWorker, LockFree, pubVars, threadVars, netVars, subVars, history
<1>2. PubType' /\ ThreadType' /\ NetType' /\ HistoryType' /\ PublishedInv' /\
         PublisherInv' /\ WorkersInv' /\ WorkerInv' /\ RoomInv' /\ OrderInv' /\ GapInv'
  BY <1>1, Frames DEF IInv
<1>3. SubType'
  BY DEF IInv, PushWorker, LockFree, pubVars, threadVars, netVars, subVars, history,
           SubType
<1>4. OpenInv'
  BY DEF IInv, PushWorker, LockFree, pubVars, threadVars, netVars, subVars, history,
           OpenInv, NetType, CurInv, SubType, SubOpen
<1>5. CurInv'
  BY DEF IInv, PushWorker, LockFree, pubVars, threadVars, netVars, subVars, history,
           CurInv, SubType, NetType
<1>6. HeaderInv'
  BY DEF IInv, PushWorker, LockFree, pubVars, threadVars, netVars, subVars, history,
           HeaderInv, CurInv, NetType, ThreadType
<1> QED
  BY <1>1, <1>2, <1>3, <1>4, <1>5, <1>6 DEF IInv

LEMMA StartSpinKeeps ==
  ASSUME IInv, StartSpin, UNCHANGED <<pubVars, threadVars, first, sentLast, cur, subUp,
           shutdown_flag, conn, subWorkers_, published>>
  PROVE  IInv'
<1>1. UNCHANGED <<pubUp, held, app, standby, dtor, workers_, worker, connected_,
         tcpros_, first, stream, sentLast, torn, cur, subUp, shutdown_flag, conn,
         subWorkers_, subTcpros_, published, received>>
  BY DEF StartSpin, GoTo, SpinIdle, pubVars, threadVars, netVars, subVars, history
<1>2. PubType' /\ ThreadType' /\ NetType' /\ HistoryType' /\ PublishedInv' /\ OpenInv'
         /\ PublisherInv' /\ WorkersInv' /\ WorkerInv' /\ HeaderInv' /\ RoomInv' /\
         OrderInv' /\ GapInv'
  BY <1>1, Frames DEF IInv
<1>3. SubType'
  BY DEF IInv, StartSpin, GoTo, SpinIdle, pubVars, threadVars, netVars, subVars,
           history, SubType
<1>4. CurInv'
  BY DEF IInv, StartSpin, GoTo, SpinIdle, pubVars, threadVars, netVars, subVars,
           history, CurInv, SubType, NetType
<1> QED
  BY <1>1, <1>2, <1>3, <1>4 DEF IInv

LEMMA LeaveLoopKeeps ==
  ASSUME IInv, LeaveLoop, UNCHANGED <<pubVars, threadVars, first, sentLast, cur, subUp,
           shutdown_flag, conn, subWorkers_, published>>
  PROVE  IInv'
<1>1. UNCHANGED <<pubUp, held, app, standby, dtor, workers_, worker, connected_,
         tcpros_, first, stream, sentLast, torn, cur, subUp, shutdown_flag, conn,
         subWorkers_, subTcpros_, published, received>>
  BY DEF LeaveLoop, pubVars, threadVars, netVars, subVars, history
<1>2. PubType' /\ ThreadType' /\ NetType' /\ HistoryType' /\ PublishedInv' /\ OpenInv'
         /\ PublisherInv' /\ WorkersInv' /\ WorkerInv' /\ HeaderInv' /\ RoomInv' /\
         OrderInv' /\ GapInv'
  BY <1>1, Frames DEF IInv
<1>3. SubType'
  BY DEF IInv, LeaveLoop, pubVars, threadVars, netVars, subVars, history, SubType
<1>4. CurInv'
  BY DEF IInv, LeaveLoop, pubVars, threadVars, netVars, subVars, history, CurInv,
           SubType, NetType
<1> QED
  BY <1>1, <1>2, <1>3, <1>4 DEF IInv

LEMMA NothingToReadKeeps ==
  ASSUME IInv, NEW k \in Conns, spin.pc = "walk", k = subWorkers_[spin.at], NothingToRead(k),
         UNCHANGED <<pubVars, threadVars, first, sentLast, cur, subUp, shutdown_flag,
                  conn, subWorkers_, published>>
  PROVE  IInv'
<1>1. UNCHANGED <<pubUp, held, app, standby, dtor, workers_, worker, connected_,
         tcpros_, first, stream, sentLast, torn, cur, subUp, shutdown_flag, conn,
         subWorkers_, subTcpros_, published, received>>
  BY DEF NothingToRead, GoTo, SpinIdle, pubVars, threadVars, netVars, subVars, history
<1>2. PubType' /\ ThreadType' /\ NetType' /\ HistoryType' /\ PublishedInv' /\ OpenInv'
         /\ PublisherInv' /\ WorkersInv' /\ WorkerInv' /\ HeaderInv' /\ RoomInv' /\
         OrderInv' /\ GapInv'
  BY <1>1, Frames DEF IInv
<1>3. SubType'
  BY DEF IInv, NothingToRead, GoTo, SpinIdle, pubVars, threadVars, netVars, subVars,
           history, SubType
<1>4. CurInv'
  <2>1. spin' = [pc |-> "idle", at |-> 0]
    BY WalkEnds DEF IInv, NothingToRead
  <2>2. UNCHANGED <<conn, cur, subWorkers_, subTcpros_>>
    BY DEF NothingToRead
  <2> QED
    BY <2>1, <2>2 DEF IInv, CurInv
<1> QED
  BY <1>1, <1>2, <1>3, <1>4 DEF IInv

LEMMA DetectLostKeeps ==
  ASSUME IInv, NEW k \in Conns, spin.pc = "walk", k = subWorkers_[spin.at], DetectLost(k),
         UNCHANGED <<pubVars, threadVars, first, sentLast, cur, subUp, shutdown_flag,
                     conn, subWorkers_, published>>
  PROVE  IInv'
<1>1. /\ PubType /\ ThreadType /\ NetType /\ SubType /\ HistoryType
      /\ PublishedInv /\ OpenInv /\ PublisherInv /\ WorkersInv /\ WorkerInv /\ CurInv
      /\ HeaderInv /\ RoomInv /\ OrderInv /\ GapInv
  BY DEF IInv
<1>2. /\ UNCHANGED <<pubUp, held, app, standby, dtor, workers_, worker, connected_,
         tcpros_,
                     first, sentLast, cur, subUp, shutdown_flag, conn, subWorkers_, spin,
                     published, received>>
      /\ subTcpros_' = subTcpros_ \ {k} /\ Close({k})
  BY DEF DetectLost, pubVars, threadVars
<1>3. k = cur /\ conn \in {"idle", "drop"}
  BY <1>1, TheWalk
<1>4. /\ stream' \in [Conns -> Seq(Nat)] /\ torn' \in SUBSET Conns /\ stream'[k] = << >>
      /\ \A j \in Conns : j # k => stream'[j] = stream[j]
      /\ \A j \in Conns : IsRest(stream'[j], stream[j])
  BY <1>1, <1>2, Rests DEF Close, NetType
<1>5. PublishedInv' /\ RoomInv' /\ OrderInv'
  BY <1>2, <1>4, ReadingKeeps DEF history
<1>6. NetType' /\ WorkerInv'
  BY <1>1, <1>2, <1>4 DEF NetType, WorkerInv
<1>7. subTcpros_' = {}
  BY <1>1, <1>2, <1>3 DEF CurInv
<1>8. CurInv' /\ HeaderInv'
  BY <1>1, <1>2, <1>3, <1>7 DEF CurInv, HeaderInv
<1>9. OpenInv'
  <2>1. \A j \in Conns : ~SubOpen(j)'
    BY <1>2, <1>3, <1>7 DEF SubOpen
  <2>2. \A j \in Conns : j # k => stream[j] = << >>
    BY <1>1, <1>3, OnlyCurIsOpen DEF OpenInv
  <2> QED
    BY <1>4, <2>1, <2>2 DEF OpenInv
<1> QED
  BY <1>1, <1>2, <1>5, <1>6, <1>8, <1>9, Frames DEF IInv

LEMMA ReceiveKeeps ==
  ASSUME IInv, NEW k \in Conns, spin.pc = "walk", k = subWorkers_[spin.at], Receive(k),
         UNCHANGED <<pubVars, threadVars, first, sentLast, cur, subUp, shutdown_flag,
                     conn, subWorkers_, published>>
  PROVE  IInv' /\ Head(stream[k]) \in 1..published
         /\ \A i \in 1..Len(received) : received[i] < Head(stream[k])
<1>1. /\ PubType /\ ThreadType /\ NetType /\ SubType /\ HistoryType
      /\ PublishedInv /\ OpenInv /\ PublisherInv /\ WorkersInv /\ WorkerInv /\ CurInv
      /\ HeaderInv /\ RoomInv /\ OrderInv /\ GapInv
  BY DEF IInv
<1>2. /\ UNCHANGED <<pubUp, held, app, standby, dtor, workers_, worker, connected_,
         tcpros_,
                     first, sentLast, torn, cur, subUp, shutdown_flag, conn, subWorkers_,
                     subTcpros_, published>>
      /\ k \in subTcpros_ /\ stream[k] # << >>
      /\ stream' = [stream EXCEPT ![k] = Tail(@)]
      /\ received' = Append(received, Head(stream[k]))
  BY DEF Receive, pubVars, threadVars
<1>3. k = cur /\ conn \in {"idle", "drop"}
  BY <1>1, TheWalk
<1>4. spin' = [pc |-> "idle", at |-> 0]
  BY <1>1, WalkEnds DEF Receive
<1>5. /\ stream' \in [Conns -> Seq(Nat)] /\ stream'[k] = Tail(stream[k])
      /\ \A j \in Conns : j # k => stream'[j] = stream[j]
      /\ \A j \in Conns : IsRest(stream'[j], stream[j])
  BY <1>1, <1>2, Rests DEF NetType
<1>6. \A j \in Conns :
        /\ Len(stream'[j]) <= Len(stream[j]) /\ Len(stream'[j]) \in Nat
        /\ stream[j] = << >> => stream'[j] = << >>
        /\ Increasing(stream'[j])
        /\ \A m \in 1..Len(stream'[j]) :
             \E i \in 1..Len(stream[j]) : stream'[j][m] = stream[j][i]
  BY <1>1, <1>5, StreamsRest
<1>7. \A j \in Conns : stream[j] \in Seq(Nat) /\ Len(stream[j]) \in Nat
  BY <1>1, LenProperties DEF NetType
<1> DEFINE m == Head(stream[k])
\* What is read is newer than all that was received, and older than the rest.
<1>8. m = stream[k][1] /\ 1 \in 1..Len(stream[k])
  BY <1>2, <1>7, Rests
<1> HIDE DEF m
<1>9. m # 0 /\ m \in Nat /\ m <= published /\ m \in 1..published
  <2>1. m # 0
    BY <1>1, <1>2, <1>3, <1>8 DEF HeaderInv
  <2>2. m \in Nat
    BY <1>7, <1>8, ElementOfSeq
  <2>3. m <= published
    BY <1>1, <1>8 DEF PublishedInv
  <2>4. published \in Nat
    BY <1>1 DEF HistoryType
  <2> QED
    BY <2>1, <2>2, <2>3, <2>4
<1>10. \A i \in 1..Len(received) : received[i] < m
  BY <1>1, <1>8, <1>9 DEF OrderInv
<1>11. ASSUME NEW i \in 1..Len(stream'[k])
       PROVE  m < stream'[k][i]
  <2>1. stream'[k][i] = stream[k][i + 1] /\ i + 1 \in 1..Len(stream[k])
    BY <1>2, <1>5, <1>7, HeadTailProperties
  <2>2. Increasing(stream[k])
    BY <1>1 DEF OrderInv
  <2>3. i \in Nat /\ 1 < i + 1
    OBVIOUS
  <2> QED
    BY <1>8, <2>1, <2>2, <2>3 DEF Increasing
<1>12. /\ received \in Seq(Nat) /\ received' \in Seq(Nat) /\ Len(received) \in Nat
       /\ Len(received') = Len(received) + 1 /\ received'[Len(received) + 1] = m
       /\ \A i \in 1..Len(received) : received'[i] = received[i]
  <2>1. received \in Seq(Nat) /\ received' = Append(received, m)
    BY <1>1, <1>2 DEF HistoryType, m
  <2> QED
    BY <1>9, <2>1, AppendProperties, LenProperties
<1>13. \A i \in 1..Len(received') : i \in 1..Len(received) \/ i = Len(received) + 1
  BY <1>12
<1>14. Increasing(received')
  <2>1. received' = Append(received, m)
    BY <1>2 DEF m
  <2>2. Increasing(received)
    BY <1>1 DEF OrderInv
  <2> QED
    BY <1>9, <1>10, <1>12, <2>1, <2>2, AppendIncreases
<1>15. PublishedInv'
  <2>1. \A i \in 1..Len(received') : received'[i] \in 1..published
    BY <1>1, <1>9, <1>12, <1>13 DEF PublishedInv
  <2>2. \A j \in Conns : \A i \in 1..Len(stream'[j]) : stream'[j][i] <= published
    BY <1>1, <1>6 DEF PublishedInv
  <2> QED
    BY <1>1, <1>2, <2>1, <2>2 DEF PublishedInv
<1>16. \A j \in Conns : j # k => stream[j] = << >>
  BY <1>1, <1>3, OnlyCurIsOpen DEF OpenInv
<1>17. OrderInv'
  <2>1. ASSUME NEW i \in 1..Len(received'), NEW j \in Conns, NEW n \in 1..Len(stream'[j])
        PROVE  received'[i] < stream'[j][n]
    <3>1. j = k
      BY <1>6, <1>16, <2>1, EmptySeq
    <3>2. m < stream'[k][n] /\ stream'[k][n] \in Nat
      BY <1>5, <1>11, <2>1, <3>1, ElementOfSeq
    <3>3. CASE i \in 1..Len(received)
      <4>1. received'[i] < m /\ received'[i] \in Nat
        BY <1>10, <1>12, <3>3, ElementOfSeq
      <4>2. received'[i] < stream'[k][n]
        BY <1>9, <3>2, <4>1
      <4> QED
        BY <3>1, <4>2
    <3>4. CASE i = Len(received) + 1
      BY <1>12, <3>1, <3>2, <3>4
    <3> QED
      BY <1>13, <2>1, <3>3, <3>4
  <2>2. ASSUME Ahead
        PROVE  /\ \A i \in 1..Len(received') : received'[i] < published
               /\ \A j \in Conns : \A n \in 1..Len(stream'[j]) : stream'[j][n] < published
    <3>1. m < published
      BY <1>1, <1>8, <2>2 DEF OrderInv
    <3>2. \A i \in 1..Len(received) : received[i] < published
      BY <1>1, <2>2 DEF OrderInv
    <3>3. \A j \in Conns : \A n \in 1..Len(stream[j]) : stream[j][n] < published
      BY <1>1, <2>2 DEF OrderInv
    <3>4. \A i \in 1..Len(received') : received'[i] < published
      BY <1>12, <1>13, <3>1, <3>2
    <3> QED
      BY <1>6, <3>3, <3>4
  <2>3. (Ahead' <=> Ahead) /\ published' = published
    BY <1>2 DEF Ahead
  <2>4. \A j \in Conns : Increasing(stream'[j])
    BY <1>6
  <2> QED
    BY <1>14, <2>1, <2>2, <2>3, <2>4 DEF OrderInv, Increasing
<1>18. RoomInv'
  <2>1. ASSUME pubUp, NEW j \in Conns
        PROVE  Len(stream'[j]) <= Capacity
    <3>1. Len(stream[j]) <= Capacity
      BY <1>1, <2>1 DEF RoomInv
    <3> QED
      BY <1>6, <1>7, <3>1, BoundsAssumption
  <2> QED
    BY <1>2, <2>1 DEF RoomInv
<1>19. OpenInv'
  <2>1. \A j \in Conns : SubOpen(j)' <=> SubOpen(j)
    BY <1>2 DEF SubOpen
  <2>2. ASSUME NEW j \in Conns, SubOpen(j)
        PROVE  Len(stream'[j]) <= Capacity + 1
    <3>1. Len(stream[j]) <= Capacity + 1
      BY <1>1, <2>2 DEF OpenInv
    <3> QED
      BY <1>6, <1>7, <3>1, BoundsAssumption
  <2> QED
    BY <1>1, <1>6, <2>1, <2>2 DEF OpenInv
<1>20. NetType' /\ HistoryType' /\ WorkerInv'
  <2>1. NetType'
    <3>1. NetType /\ UNCHANGED <<first, sentLast, torn, cur>> /\ stream' \in [Conns -> Seq(Nat)]
      BY <1>1, <1>2, <1>5
    <3> QED
      BY <3>1 DEF NetType
  <2>2. HistoryType'
    BY <1>1, <1>2, <1>12 DEF HistoryType
  <2>3. WorkerInv'
    <3>1. WorkerInv /\ UNCHANGED <<worker, first, cur>>
      BY <1>1, <1>2
    <3>2. \A j \in Conns : stream[j] = << >> => stream'[j] = << >>
      BY <1>6
    <3> QED
      BY <3>1, <3>2 DEF WorkerInv
  <2> QED
    BY <2>1, <2>2, <2>3
<1>21. SubType' /\ CurInv'
  BY <1>1, <1>2, <1>3, <1>4 DEF SubType, CurInv
<1>22. HeaderInv'
  <2>1. \A i \in 1..Len(stream'[k]) : stream'[k][i] # 0
    BY <1>1, <1>2, <1>3, <1>6 DEF HeaderInv
  <2> QED
    BY <1>1, <1>2, <1>3, <2>1 DEF HeaderInv
<1>23. PubType' /\ ThreadType' /\ PublisherInv' /\ WorkersInv' /\ GapInv'
  BY <1>1, <1>2, Frames
<1>24. IInv'
  BY <1>15, <1>17, <1>18, <1>19, <1>20, <1>21, <1>22, <1>23 DEF IInv
<1> QED
  BY <1>9, <1>10, <1>24 DEF m

LEMMA HangKeeps ==
  ASSUME IInv, NEW k \in Conns, spin.pc = "walk", k = subWorkers_[spin.at], Hang(k),
         UNCHANGED <<pubVars, threadVars, first, sentLast, cur, subUp, shutdown_flag,
                  conn, subWorkers_, published>>
  PROVE  IInv'
<1>1. UNCHANGED <<pubUp, held, app, standby, dtor, workers_, worker, connected_,
         tcpros_, first, stream, sentLast, torn, cur, subUp, shutdown_flag, conn,
         subWorkers_, subTcpros_, published, received>>
  BY DEF Hang, pubVars, threadVars, netVars, subVars, history
<1>2. PubType' /\ ThreadType' /\ NetType' /\ HistoryType' /\ PublishedInv' /\ OpenInv'
         /\ PublisherInv' /\ WorkersInv' /\ WorkerInv' /\ HeaderInv' /\ RoomInv' /\
         OrderInv' /\ GapInv'
  BY <1>1, Frames DEF IInv
<1>3. SubType'
  BY DEF IInv, Hang, pubVars, threadVars, netVars, subVars, history, SubType
<1>4. CurInv'
  BY DEF IInv, Hang, pubVars, threadVars, netVars, subVars, history, CurInv, SubType,
           NetType
<1> QED
  BY <1>1, <1>2, <1>3, <1>4 DEF IInv

LEMMA SignalIntKeeps ==
  ASSUME IInv, SignalInt
  PROVE  IInv'
<1>1. UNCHANGED <<pubUp, held, app, standby, dtor, workers_, worker, connected_,
         tcpros_, first, stream, sentLast, torn, cur, subUp, conn, subWorkers_,
         subTcpros_, spin, published, received>>
  BY DEF SignalInt, pubVars, threadVars, netVars, subVars, history
<1>2. PubType' /\ ThreadType' /\ NetType' /\ HistoryType' /\ PublishedInv' /\ OpenInv'
         /\ PublisherInv' /\ WorkersInv' /\ WorkerInv' /\ CurInv' /\ HeaderInv' /\
         RoomInv' /\ OrderInv' /\ GapInv'
  BY <1>1, Frames DEF IInv
<1>3. SubType'
  BY DEF IInv, SignalInt, pubVars, threadVars, netVars, subVars, history, SubType
<1> QED
  BY <1>1, <1>2, <1>3 DEF IInv

\* The process of the subscriber is gone; at most one worker of the publisher is stuck.
LEMMA SubscriberGone ==
  ASSUME IInv, SubscriberEnds,
         \/ UNCHANGED <<first, worker>>
         \/ /\ conn = "header" /\ first[cur] = "sub" /\ worker[cur] = "listening"
            /\ first' = [first EXCEPT ![cur] = "torn"] /\ UNCHANGED worker
         \/ /\ conn = "header" /\ first[cur] = "sub" /\ worker[cur] = "negotiating"
            /\ SetWorker(cur, "stuck") /\ UNCHANGED first
  PROVE  IInv'
<1>1. /\ PubType /\ ThreadType /\ NetType /\ SubType /\ HistoryType
      /\ PublishedInv /\ OpenInv /\ PublisherInv /\ WorkersInv /\ WorkerInv /\ CurInv
      /\ HeaderInv /\ RoomInv /\ OrderInv /\ GapInv
  BY DEF IInv
<1>2. /\ UNCHANGED <<pubUp, held, app, standby, dtor, workers_, connected_, tcpros_,
                     sentLast, cur, shutdown_flag, published, received>>
      /\ subUp' = FALSE /\ conn' = "idle" /\ spin' = [pc |-> "idle", at |-> 0]
      /\ subWorkers_' = << >> /\ subTcpros_' = {} /\ Close(Conns)
  BY DEF SubscriberEnds, SpinIdle, pubVars, history
<1>3. \/ UNCHANGED <<first, worker>>
      \/ /\ cur \in Conns /\ first[cur] = "sub" /\ worker[cur] = "listening"
         /\ first' = [first EXCEPT ![cur] = "torn"] /\ UNCHANGED worker
      \/ /\ cur \in Conns /\ first[cur] = "sub" /\ worker[cur] = "negotiating" /\ cur > 0
         /\ worker' = [worker EXCEPT ![cur] = "stuck"] /\ UNCHANGED first
  BY <1>1 DEF CurInv, SetWorker, Conns
<1>4. /\ stream' \in [Conns -> Seq(Nat)] /\ torn' \in SUBSET Conns
      /\ \A j \in Conns : stream'[j] = << >>
      /\ \A j \in Conns : IsRest(stream'[j], stream[j])
  BY <1>1, <1>2, Rests DEF Close, NetType
<1>5. PublishedInv' /\ RoomInv' /\ OrderInv'
  BY <1>2, <1>4, ReadingKeeps DEF history
<1>6. ThreadType'
  BY <1>1, <1>2, <1>3 DEF ThreadType, WorkerState
<1>7. NetType'
  BY <1>1, <1>2, <1>3, <1>4 DEF NetType
<1>8. SubType' /\ CurInv'
  BY <1>1, <1>2 DEF SubType, CurInv
<1>9. OpenInv'
  BY <1>4, <1>2 DEF OpenInv, SubOpen
<1>10. PublisherInv'
  BY <1>1, <1>2, <1>3 DEF PublisherInv, ThreadType
<1>11. WorkerInv'
  BY <1>1, <1>2, <1>3, <1>4 DEF WorkerInv, ThreadType, NetType
<1>12. HeaderInv'
  BY <1>2 DEF HeaderInv
<1>13. GapInv'
  BY <1>1, <1>2, <1>3 DEF GapInv, ThreadType
<1>14. PubType' /\ HistoryType' /\ WorkersInv'
  BY <1>1, <1>2, Frames
<1> QED
  BY <1>5, <1>6, <1>7, <1>8, <1>9, <1>10, <1>11, <1>12, <1>13, <1>14 DEF IInv

LEMMA SubscriberCrashKeeps ==
  ASSUME IInv, SubscriberCrash
  PROVE  IInv'
BY SubscriberGone DEF SubscriberCrash

LEMMA LeaveKeeps ==
  ASSUME IInv, Leave
  PROVE  IInv'
BY SubscriberGone DEF Leave

-----------------------------------------------------------------------------
(***************************************************************************)
(* The theorems.                                                           *)
(***************************************************************************)
LEMMA InitIInv ==
  ASSUME Init
  PROVE  IInv
<1>1. << >> \in Seq(Nat) /\ << >> \in Seq(Conns) /\ Len(<< >>) = 0
  BY EmptySeq
<1>2. PubType /\ ThreadType /\ SubType /\ PublisherInv
  <2>1. workers_ \in Seq(Conns) /\ app \in 0..Len(workers_) /\ standby \in 0..cur
    BY <1>1 DEF Init
  <2>2. PubType
    BY <2>1 DEF Init, PubType
  <2> QED
    BY <2>2 DEF Init, ThreadType, SubType, PublisherInv, WorkerState
<1>3. NetType /\ HistoryType /\ CurInv
  BY <1>1, BoundsAssumption DEF Init, NetType, HistoryType, CurInv
<1>4. PublishedInv /\ WorkersInv /\ WorkerInv /\ HeaderInv /\ GapInv
  BY <1>1 DEF Init, PublishedInv, WorkersInv, WorkerInv, HeaderInv, GapInv
<1>5. OpenInv /\ RoomInv /\ OrderInv
  BY <1>1, BoundsAssumption
     DEF Init, OpenInv, SubOpen, RoomInv, OrderInv, Increasing, Ahead
<1> QED
  BY <1>2, <1>3, <1>4, <1>5 DEF IInv

LEMMA PublishStepKeeps ==
  ASSUME IInv, PublishStep
  PROVE  IInv'
<1> DEFINE k == workers_[app]
<1>1. k \in Conns
  <2>1. workers_ \in Seq(Conns) /\ app \in 1..Len(workers_)
    BY LenProperties DEF IInv, PubType, PublishStep
  <2> QED
    BY <2>1, ElementOfSeq
<1>2. /\ app # 0
      /\ UNCHANGED <<pubUp, held, standby, dtor, workers_, worker, connected_, first,
                     cur, subVars, history>>
      /\ \/ (SkipWorker(k) \/ SendPacket(k) \/ DetectClosed(k)) /\ NextWorker(app)
         \/ WriteBlocks(k)
  BY DEF PublishStep
<1> HIDE DEF k
<1>3. k = workers_[app]
  BY DEF k
<1> QED
  BY <1>1, <1>2, <1>3, SkipKeeps, SendKeeps, DetectKeeps, WriteBlocksKeeps

\* The walk receives a message that was published and is newer than all before
\* it, or the callback is not called.
LEMMA WalkKeeps ==
  ASSUME IInv, SpinStep
  PROVE  /\ IInv' /\ published' = published
         /\ \/ received' = received
            \/ \E m \in 1..published : /\ \A i \in 1..Len(received) : received[i] < m
                                       /\ received' = Append(received, m)
<1> DEFINE k == subWorkers_[spin.at]
<1>1. /\ StartSpin \/ Walk \/ LeaveLoop
      /\ UNCHANGED <<pubVars, threadVars, first, sentLast, cur, subUp, shutdown_flag,
                     conn, subWorkers_, published>>
  BY DEF SpinStep
<1>2. CASE StartSpin
  BY <1>1, <1>2, StartSpinKeeps DEF StartSpin
<1>3. CASE LeaveLoop
  BY <1>1, <1>3, LeaveLoopKeeps DEF LeaveLoop
<1>4. CASE Walk
  <2>1. spin.pc = "walk" /\ (NothingToRead(k) \/ DetectLost(k) \/ Receive(k) \/ Hang(k))
    BY <1>4 DEF Walk
  <2>2. k \in Conns
    BY <2>1, TheWalk DEF IInv
  <2> HIDE DEF k
  <2>3. k = subWorkers_[spin.at]
    BY DEF k
  <2>4. CASE NothingToRead(k)
    BY <1>1, <2>1, <2>2, <2>3, <2>4, NothingToReadKeeps DEF NothingToRead
  <2>5. CASE DetectLost(k)
    BY <1>1, <2>1, <2>2, <2>3, <2>5, DetectLostKeeps DEF DetectLost
  <2>6. CASE Hang(k)
    BY <1>1, <2>1, <2>2, <2>3, <2>6, HangKeeps DEF Hang
  <2>7. CASE Receive(k)
    <3>1. /\ IInv' /\ Head(stream[k]) \in 1..published
          /\ \A i \in 1..Len(received) : received[i] < Head(stream[k])
      BY <1>1, <2>1, <2>2, <2>3, <2>7, ReceiveKeeps
    <3>2. received' = Append(received, Head(stream[k])) /\ published' = published
      BY <1>1, <2>7 DEF Receive
    <3> QED
      BY <3>1, <3>2
  <2> QED
    BY <2>1, <2>4, <2>5, <2>6, <2>7
<1> QED
  BY <1>1, <1>2, <1>3, <1>4

LEMMA CrashKeeps ==
  ASSUME IInv, PublisherCrash \/ RefusedPoke
  PROVE  IInv'
<1>1. CASE PublisherCrash
  BY <1>1, DiesKeeps DEF PublisherCrash
<1>2. CASE RefusedPoke
  <2>1. {} \in SUBSET BeingWritten /\ pubUp /\ PublisherDies({})
    BY <1>2 DEF RefusedPoke
  <2> QED
    BY <2>1, DiesKeeps
<1> QED
  BY <1>1, <1>2

\* Every step keeps the invariant, and is a publish, a walk, or nothing to LossyFifo.
LEMMA NextKeeps ==
  ASSUME IInv, Next
  PROVE  IInv' /\ (publish \/ SpinStep \/ UNCHANGED <<published, received>>)
<1>1. CASE publish
  BY <1>1, publishKeeps
<1>2. CASE PublishStep
  BY <1>2, PublishStepKeeps DEF PublishStep, history
<1>3. CASE Release \/ Request \/ StandBy
  BY <1>3, ReleaseKeeps, RequestKeeps, StandByKeeps DEF Release, Request, StandBy, history
<1>4. ASSUME NEW k \in Conns, WorkerStep(k)
      PROVE  IInv' /\ UNCHANGED <<published, received>>
  BY <1>4, ListenKeeps, AcceptKeeps, NegotiatedKeeps
     DEF WorkerStep, Listen, Accept, Negotiated, history
<1>5. CASE DestructorStep
  BY <1>5, DestroyKeeps, PokeWorkerKeeps, JoinKeeps, CrashKeeps
     DEF DestructorStep, Destroy, PokeWorker, Join, RefusedPoke, PublisherDies, history
<1>6. CASE publisherUpdate \/ SignalInt
  BY <1>6, publisherUpdateKeeps, SignalIntKeeps DEF publisherUpdate, SignalInt, history
<1>7. CASE NeedsLock
  BY <1>7, disconnectUriKeeps, PushWorkerKeeps
     DEF NeedsLock, disconnectUri, PushWorker, history
<1>8. CASE ConnStep
  BY <1>8, GiveUpKeeps, ConnectKeeps, ReceiveHeaderKeeps
     DEF ConnStep, GiveUp, Connect, ReceiveHeader, history
<1>9. CASE SpinStep
  BY <1>9, WalkKeeps
<1>10. CASE Leave \/ SubscriberCrash
  BY <1>10, LeaveKeeps, SubscriberCrashKeeps
     DEF Leave, SubscriberCrash, SubscriberEnds, history
<1>11. CASE PublisherCrash
  BY <1>11, CrashKeeps DEF PublisherCrash, PublisherDies, history
<1> QED
  BY <1>1, <1>2, <1>3, <1>4, <1>5, <1>6, <1>7, <1>8, <1>9, <1>10, <1>11
     DEF Next, PublisherStep, SubscriberStep

LEMMA StutterKeeps ==
  ASSUME IInv, UNCHANGED vars
  PROVE  IInv' /\ UNCHANGED <<published, received>>
<1>1. UNCHANGED <<pubUp, held, app, standby, dtor, workers_, worker, connected_, tcpros_,
                  first, stream, sentLast, torn, cur, subUp, shutdown_flag, conn,
                  subWorkers_, subTcpros_, spin, published, received>>
  BY DEF vars, pubVars, threadVars, netVars, subVars, history
<1> QED
  BY <1>1, Frames DEF IInv

\* The invariant holds in every reachable state.
LEMMA Inductive == Spec => []IInv
<1>1. Init => IInv
  BY InitIInv
<1>2. IInv /\ [Next]_vars => IInv'
  BY NextKeeps, StutterKeeps
<1> QED
  BY <1>1, <1>2, PTL DEF Spec

\* A sequence whose elements are in a set is a sequence over that set.
LEMMA SeqOfSubset ==
  ASSUME NEW T, NEW S, NEW s \in Seq(T), \A i \in 1..Len(s) : s[i] \in S
  PROVE  s \in Seq(S)
<1>1. s \in [1..Len(s) -> T] /\ Len(s) \in Nat
  BY LenProperties
<1>2. s \in [1..Len(s) -> S]
  BY <1>1
<1> QED
  BY <1>1, <1>2, SeqDef

\* Every variable keeps its type, whatever the number of connections, messages and
\* packets: a worker that is connected has ended its thread, what is on the way fits
\* the buffers but for one torn packet, and nothing is on the way to a closed socket.
THEOREM TypeCorrect == Spec => []TypeOK
<1>1. ASSUME IInv
      PROVE  TypeOK
  <2>1. /\ PubType /\ ThreadType /\ NetType /\ SubType /\ HistoryType
        /\ PublishedInv /\ OpenInv /\ CurInv
    BY <1>1 DEF IInv
  <2>2. stream \in [Conns -> Seq(0..published)]
    <3>1. ASSUME NEW k \in Conns
          PROVE  stream[k] \in Seq(0..published)
      <4>1. stream[k] \in Seq(Nat)
        BY <2>1 DEF NetType
      <4>2. \A i \in 1..Len(stream[k]) : stream[k][i] \in Nat /\ stream[k][i] <= published
        BY <2>1, <4>1, ElementOfSeq DEF PublishedInv
      <4>3. \A i \in 1..Len(stream[k]) : stream[k][i] \in 0..published
        BY <2>1, <4>2 DEF HistoryType
      <4> QED
        BY <4>1, <4>3, SeqOfSubset
    <3> QED
      BY <2>1, <3>1 DEF NetType
  <2>3. sentLast \in [Conns -> 0..published]
    BY <2>1 DEF NetType, PublishedInv, HistoryType
  <2>4. received \in Seq(1..published)
    BY <2>1, SeqOfSubset DEF HistoryType, PublishedInv
  <2>5. /\ subWorkers_ \in Seq(Conns) /\ subTcpros_ \subseteq ToSet(subWorkers_)
        /\ spin.at \in 0..Len(subWorkers_)
    <3>1. CASE subWorkers_ = << >>
      <4>1. << >> \in Seq(Conns) /\ Len(<< >>) = 0 /\ << >> # <<cur>>
        BY EmptySeq
      <4>2. subTcpros_ = {} /\ spin.at = 0
        BY <2>1, <3>1, <4>1 DEF CurInv, SubType
      <4> QED
        BY <3>1, <4>1, <4>2
    <3>2. CASE subWorkers_ = <<cur>> /\ cur \in Conns
      <4>1. <<cur>> \in Seq(Conns) /\ Len(<<cur>>) = 1 /\ cur \in ToSet(<<cur>>)
        BY <3>2 DEF ToSet
      <4>2. subTcpros_ \subseteq {cur} /\ spin.at \in 0..1
        BY <2>1 DEF CurInv, SubType
      <4> QED
        BY <3>2, <4>1, <4>2
    <3> QED
      BY <2>1, <3>1, <3>2 DEF CurInv
  <2> QED
    BY <2>1, <2>2, <2>3, <2>4, <2>5
       DEF TypeOK, PubType, ThreadType, NetType, SubType, HistoryType, OpenInv
<1> QED
  BY <1>1, Inductive, PTL

\* A connection that is there when a message is published gets it, for any number
\* of workers in the vector and whichever of them fail.
THEOREM ConnectionsAreServed == Spec => []ServedWithoutGaps
<1>1. ASSUME IInv
      PROVE  ServedWithoutGaps
  <2> SUFFICES ASSUME app = 0, NEW k \in tcpros_
               PROVE  sentLast[k] \in {0, published}
    BY DEF ServedWithoutGaps
  <2>1. k \in Conns
    BY <1>1 DEF IInv, ThreadType
  <2>2. CASE \E i \in 1..Len(workers_) : workers_[i] = k
    BY <1>1, <2>1, <2>2 DEF IInv, GapInv
  <2>3. CASE \A i \in 1..Len(workers_) : workers_[i] # k
    BY <1>1, <2>1, <2>3 DEF IInv, GapInv
  <2> QED
    BY <2>2, <2>3
<1> QED
  BY <1>1, Inductive, PTL

\* The publisher, its workers, the connections and the subscriber together are a FIFO
\* that only loses: what the callback gets was published, comes once and in order,
\* through any reconnections, crashes and torn packets.
THEOREM ChannelIsALossyFifo == Spec => IsLossyFifo
<1>1. Init => Abstract!Init
  BY DEF Init, Abstract!Init
<1>2. ASSUME IInv, [Next]_vars
      PROVE  [Abstract!Next]_(Abstract!topic)
  <2>1. CASE publish
    BY <2>1 DEF publish, Abstract!Next, Abstract!Publish
  <2>2. CASE SpinStep
    <3>1. CASE UNCHANGED <<published, received>>
      BY <3>1 DEF Abstract!topic
    <3>2. ASSUME NEW m \in 1..published, \A i \in 1..Len(received) : received[i] < m,
                 received' = Append(received, m), published' = published
          PROVE  Abstract!Deliver(m)
      <4>1. DOMAIN received = 1..Len(received)
        BY <1>2, LenProperties DEF IInv, HistoryType
      <4> QED
        BY <3>2, <4>1 DEF Abstract!Deliver
    <3> QED
      BY <1>2, <2>2, <3>1, <3>2, WalkKeeps DEF Abstract!Next
  <2>3. CASE UNCHANGED <<published, received>>
    BY <2>3 DEF Abstract!topic
  <2> QED
    BY <1>2, <2>1, <2>2, <2>3, NextKeeps, StutterKeeps
<1> QED
  BY <1>1, <1>2, Inductive, PTL DEF Spec, IsLossyFifo, Abstract!Spec
=============================================================================
