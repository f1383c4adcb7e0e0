-------------------------- MODULE ServiceCallProofs --------------------------
(***************************************************************************)
(* For any number of consumers, any backlog and any number of calls: a     *)
(* consumer that never gave up waiting and whose calls never failed gets   *)
(* to each call the reply to that call, although a reply has no number.    *)
(***************************************************************************)
EXTENDS ServiceCall, SequenceTheorems, TLAPS

(***************************************************************************)
(* The inductive invariant. A consumer is in the backlog or served, once,  *)
(* and not before it connected; and a consumer that was never offbeat is   *)
(* in phase with the provider: where the two are determines what is in     *)
(* their streams.                                                          *)
(***************************************************************************)
Queued(c) == \E i \in 1..Len(queue) : queue[i] = c

AcceptedOnce ==
  /\ \A i, j \in 1..Len(queue) : queue[i] = queue[j] => i = j
  /\ \A c \in Consumers : peer = c => ~Queued(c)
  /\ \A c \in Consumers : client[c] \in {"idle", "crashed"} => peer # c /\ ~Queued(c)

At(c, state) == peer = c /\ server = state

\* No end of the provider's is left to c, or none was ever there.
Left(c) == c \notin open /\ peer # c /\ ~Queued(c)

Silent(c) == up[c] = << >> /\ down[c] = << >>

Request(c) == Packet("request", calls[c])
Response(c) == Packet("response", calls[c])

NotServedYet(c) ==
  /\ client[c] \in {"idle", "hello", "crashed"} /\ Silent(c) /\ result[c] = calls[c]
  /\ client[c] = "hello" => (c \in open /\ (Queued(c) \/ At(c, "header"))) \/ Left(c)

Greeting(c) ==
  /\ client[c] = "await" /\ result[c] = calls[c]
  /\ \/ /\ c \in open /\ (Queued(c) \/ At(c, "header"))
        /\ up[c] \in {<<Header>>, <<Probe>>} /\ down[c] = << >>
     \/ ((c \in open /\ At(c, "greet")) \/ Left(c)) /\ Silent(c)
     \/ /\ (c \in open /\ At(c, "serve")) \/ Left(c)
        /\ up[c] = << >> /\ down[c] = <<Header>>

BetweenCalls(c) ==
  /\ client[c] = "ready" /\ result[c] = calls[c] /\ Silent(c)
  /\ (c \in open /\ At(c, "serve")) \/ Left(c)

AwaitingByte(c) ==
  /\ client[c] = "byte"
  /\ \/ Left(c) /\ Silent(c)
     \/ /\ c \in open /\ At(c, "serve")
        /\ \/ up[c] \in {<<Request(c)>>, <<Partial>>} /\ down[c] = << >>
           \/ up[c] = << >> /\ down[c] \in {<<Error, Text>>, <<Ok, Response(c)>>, <<Ok, Partial>>}
     \/ c \in open /\ At(c, "hung") /\ Silent(c)
     \/ c \in open /\ At(c, "decode") /\ work = Request(c) /\ Silent(c)
     \/ /\ c \in open /\ At(c, "respond") /\ work = Request(c)
        /\ up[c] = << >> /\ down[c] = <<Ok>>

AwaitingReply(c) ==
  /\ client[c] = "packet" /\ c \in open /\ up[c] = << >>
  /\ \/ At(c, "respond") /\ work = Request(c) /\ down[c] = << >>
     \/ At(c, "serve") /\ down[c] \in {<<Response(c)>>, <<Partial>>}

Hanging(c) ==
  client[c] = "stuck" /\ c \in open /\ At(c, "serve") /\ up[c] = << >> /\ down[c] = <<Partial>>

InPhase(c) ==
  /\ c \notin skewed
  /\ \/ NotServedYet(c) \/ Greeting(c) \/ BetweenCalls(c) \/ AwaitingByte(c)
     \/ AwaitingReply(c) \/ Hanging(c) \/ client[c] = "gone"

PhaseInv == \A c \in Consumers \ offbeat : InPhase(c)

IInv == TypeOK /\ AcceptedOnce /\ PhaseInv

-----------------------------------------------------------------------------
(***************************************************************************)
(* Types.                                                                  *)
(***************************************************************************)
LEMMA TokenTypes ==
  /\ Header \in Tokens /\ Probe \in Tokens /\ Partial \in Tokens /\ Nothing \in Tokens
  /\ Ok \in Tokens /\ Error \in Tokens /\ Text \in Tokens
  /\ \A n \in {Garbage} \cup Nat :
       Packet("request", n) \in Tokens /\ Packet("response", n) \in Tokens
BY DEF Header, Probe, Partial, Nothing, Ok, Error, Text, Packet, Tokens

\* While the provider serves a connection it has a peer, with two streams.
LEMMA Served ==
  ASSUME TypeOK, server \notin {"accept", "crashed"}
  PROVE  peer \in Consumers /\ up[peer] \in Seq(Tokens) /\ down[peer] \in Seq(Tokens)
BY DEF TypeOK

\* A token sent keeps the streams well typed.
LEMMA AppendToken ==
  ASSUME NEW f \in [Consumers -> Seq(Tokens)], NEW c \in Consumers, NEW x \in Tokens
  PROVE  [f EXCEPT ![c] = Append(@, x)] \in [Consumers -> Seq(Tokens)]
<1>1. Append(f[c], x) \in Seq(Tokens)
  BY AppendProperties
<1> QED
  BY <1>1

\* So do the tokens of several writes.
LEMMA ConcatTokens ==
  ASSUME NEW f \in [Consumers -> Seq(Tokens)], NEW c \in Consumers, NEW s \in Seq(Tokens)
  PROVE  [f EXCEPT ![c] = @ \o s] \in [Consumers -> Seq(Tokens)]
<1>1. f[c] \o s \in Seq(Tokens)
  BY ConcatProperties
<1> QED
  BY <1>1

\* Reading a token leaves well-typed streams.
LEMMA TailTokens ==
  ASSUME NEW f \in [Consumers -> Seq(Tokens)], NEW c \in Consumers, f[c] # << >>
  PROVE  /\ [f EXCEPT ![c] = Tail(@)] \in [Consumers -> Seq(Tokens)]
         /\ Head(f[c]) \in Tokens
<1>1. Tail(f[c]) \in Seq(Tokens) /\ Head(f[c]) \in Tokens
  BY HeadTailProperties
<1> QED
  BY <1>1

\* What a consumer sends keeps the streams well typed.
LEMMA SentUp ==
  ASSUME TypeOK, NEW c \in Consumers, NEW x \in Tokens, SendUp(c, x)
  PROVE  up' \in [Consumers -> Seq(Tokens)]
BY AppendToken DEF TypeOK, SendUp

\* So does what the provider sends.
LEMMA SentDown ==
  ASSUME TypeOK, NEW c \in Consumers, NEW s \in Seq(Tokens), SendDown(c, s)
  PROVE  down' \in [Consumers -> Seq(Tokens)]
BY ConcatTokens DEF TypeOK, SendDown

\* What is sent down in one or two writes.
LEMMA Replies ==
  /\ <<Header>> \in Seq(Tokens) /\ <<Ok>> \in Seq(Tokens) /\ <<Error, Text>> \in Seq(Tokens)
  /\ \A x \in Tokens : <<x>> \in Seq(Tokens)
BY TokenTypes

\* The closed connection.
LEMMA Disconnected ==
  ASSUME TypeOK, server \notin {"accept", "crashed"}, Disconnect
  PROVE  /\ server' = "accept" /\ peer' = NoPeer /\ work' \in Tokens
         /\ open' \in SUBSET Consumers /\ up' \in [Consumers -> Seq(Tokens)]
<1>1. << >> \in Seq(Tokens)
  BY EmptySeq
<1> QED
  BY <1>1, TokenTypes, Served DEF TypeOK, Disconnect

\* The state of a consumer moves on.
LEMMA Moved ==
  ASSUME TypeOK, NEW c \in Consumers, NEW s, NEW t \in ClientStates, Move(c, s, t)
  PROVE  /\ client' \in [Consumers -> ClientStates] /\ client[c] = s /\ client'[c] = t
         /\ \A j \in Consumers : j # c => client'[j] = client[j]
BY DEF TypeOK, Move

\* The provider keeps the types.
LEMMA ProviderTypes ==
  ASSUME TypeOK, Provider
  PROVE  TypeOK'
<1>1. CASE accept
  <2>1. Head(queue) \in Consumers /\ Tail(queue) \in Seq(Consumers)
        /\ Len(Tail(queue)) = Len(queue) - 1 /\ Len(queue) \in Nat
    BY <1>1, HeadTailProperties, LenProperties DEF TypeOK, accept
  <2>2. queue' \in Seq(Consumers) /\ Len(queue') <= Backlog
    BY <1>1, <2>1, BacklogAssumption DEF TypeOK, accept
  <2> QED
    BY <1>1, <2>1, <2>2, NoPeerAssumption DEF TypeOK, accept, ServerStates, caller
<1>2. ASSUME NEW next \in {"greet", "decode"}, receivePacket(next),
             server \notin {"accept", "crashed"}
      PROVE  TypeOK'
  <2>1. up' \in [Consumers -> Seq(Tokens)] /\ work' \in Tokens
    BY <1>2, Served, TailTokens DEF TypeOK, receivePacket
  <2>2. server' \in ServerStates \ {"accept", "crashed"}
    BY <1>2 DEF receivePacket, ServerStates
  <2> QED
    BY <1>2, <2>1, <2>2 DEF TypeOK, receivePacket, caller
<1>3. CASE HeaderTimeout
  BY <1>3, Served, TokenTypes DEF TypeOK, HeaderTimeout, ServerStates, connection
<1>4. CASE sendHeader
  <2>1. down' \in [Consumers -> Seq(Tokens)]
    BY <1>4, Served, SentDown, Replies DEF sendHeader
  <2>2. CASE Disconnect /\ dropped' = dropped \cup {peer}
    BY <1>4, <2>1, <2>2, Served, Disconnected DEF TypeOK, sendHeader, ServerStates, caller
  <2>3. CASE server' = "serve" /\ work' = Nothing /\ UNCHANGED <<peer, dropped, open, up>>
    BY <1>4, <2>1, <2>3, TokenTypes DEF TypeOK, sendHeader, ServerStates, caller
  <2> QED
    BY <1>4, <2>2, <2>3 DEF sendHeader
<1>5. CASE PeerClosed \/ CallbackThrows \/ WriteThrows
  <2>1. /\ server \notin {"accept", "crashed"} /\ Disconnect
        /\ dropped' \in {dropped, dropped \cup {peer}} /\ UNCHANGED <<queue, down, caller>>
    BY <1>5 DEF PeerClosed, CallbackThrows, WriteThrows
  <2>2. dropped' \in SUBSET Consumers
    BY <2>1, Served DEF TypeOK
  <2> QED
    BY <2>1, <2>2, Disconnected DEF TypeOK, ServerStates, caller
<1>6. CASE Fail
  <2>1. down' \in [Consumers -> Seq(Tokens)]
    BY <1>6, Served, SentDown, Replies DEF Fail
  <2> QED
    BY <1>6, <2>1, TokenTypes DEF TypeOK, Fail, ServerStates, caller
<1>7. CASE Callback
  <2>1. down' \in [Consumers -> Seq(Tokens)]
    BY <1>7, Served, SentDown, Replies DEF Callback
  <2> QED
    BY <1>7, <2>1 DEF TypeOK, Callback, ServerStates, caller
<1>8. CASE sendPacket
  <2>1. Packet("response", work.id) \in Tokens
    BY TokenTypes DEF TypeOK, Tokens
  <2>2. down' \in [Consumers -> Seq(Tokens)]
    BY <1>8, <2>1, Served, SentDown, Replies, TokenTypes DEF sendPacket
  <2> QED
    BY <1>8, <2>2, TokenTypes DEF TypeOK, sendPacket, ServerStates, caller
<1>9. CASE HeaderThrows
  <2>1. /\ << >> \in Seq(Consumers) /\ Len(<< >>) <= Backlog
        /\ [c \in Consumers |-> << >>] \in [Consumers -> Seq(Tokens)]
    BY EmptySeq, BacklogAssumption
  <2> QED
    BY <1>9, <2>1, TokenTypes DEF TypeOK, HeaderThrows, ServerStates, caller
<1> QED
  BY <1>1, <1>2, <1>3, <1>4, <1>5, <1>6, <1>7, <1>8, <1>9
     DEF Provider, receiveHeader, receiveRequest

\* A consumer keeps the types.
LEMMA ConsumerTypes ==
  ASSUME TypeOK, NEW c \in Consumers, Consumer(c)
  PROVE  TypeOK'
<1>1. CASE tcpros_connect(c)
  <2>1. queue' \in Seq(Consumers) /\ Len(queue') <= Backlog
    <3>1. queue' = Append(queue, c) /\ Len(queue) < Backlog /\ queue \in Seq(Consumers)
      BY <1>1 DEF TypeOK, tcpros_connect
    <3> QED
      BY <3>1, AppendProperties, LenProperties, BacklogAssumption
  <2>2. client' \in [Consumers -> ClientStates]
    BY <1>1, Moved DEF tcpros_connect, ClientStates
  <2> QED
    BY <1>1, <2>1, <2>2 DEF TypeOK, tcpros_connect, thread
<1>2. CASE ConnectFails(c)
  <2>1. client' \in [Consumers -> ClientStates]
    BY <1>2, Moved DEF ConnectFails, ClientStates
  <2> QED
    BY <1>2, <2>1 DEF TypeOK, ConnectFails, thread, connection
<1>3. CASE SendHello(c)
  <2>1. client' \in [Consumers -> ClientStates]
    BY <1>3, Moved DEF SendHello, ClientStates
  <2>2. up' \in [Consumers -> Seq(Tokens)]
    BY <1>3, SentUp, TokenTypes DEF SendHello
  <2> QED
    BY <1>3, <2>1, <2>2 DEF TypeOK, SendHello, thread
<1>14. CASE HelloThrows(c)
  <2>1. client' \in [Consumers -> ClientStates]
    BY <1>14, Moved DEF HelloThrows, ClientStates
  <2> QED
    BY <1>14, <2>1 DEF TypeOK, HelloThrows, thread, connection
<1>4. CASE ReceiveHello(c)
  <2>1. client' \in [Consumers -> ClientStates]
    BY <1>4, Moved DEF ReceiveHello, ClientStates
  <2>2. down' \in [Consumers -> Seq(Tokens)]
    BY <1>4, TailTokens DEF TypeOK, ReceiveHello
  <2> QED
    BY <1>4, <2>1, <2>2 DEF TypeOK, ReceiveHello, thread
<1>5. CASE HelloTimeout(c)
  <2>1. client' \in [Consumers -> ClientStates]
    BY <1>5, Moved DEF HelloTimeout, ClientStates
  <2> QED
    BY <1>5, <2>1 DEF TypeOK, HelloTimeout, thread, connection
<1>6. CASE call(c)
  <2>1. client' \in [Consumers -> ClientStates]
    BY <1>6, Moved DEF call, ClientStates
  <2>2. calls[c] + 1 \in Nat
    BY DEF TypeOK
  <2>3. up' \in [Consumers -> Seq(Tokens)]
    BY <1>6, <2>2, SentUp, TokenTypes DEF call
  <2> QED
    BY <1>6, <2>1, <2>2, <2>3 DEF TypeOK, call, thread
<1>7. CASE CallRefused(c)
  BY <1>7 DEF TypeOK, CallRefused, thread, connection
<1>8. CASE receiveByteOk(c)
  <2>1. client' \in [Consumers -> ClientStates]
    BY <1>8, Moved DEF receiveByteOk, ClientStates
  <2>2. down' \in [Consumers -> Seq(Tokens)]
    BY <1>8, TailTokens DEF TypeOK, receiveByteOk
  <2> QED
    BY <1>8, <2>1, <2>2 DEF TypeOK, receiveByteOk, thread
<1>9. CASE receiveByteError(c)
  <2>1. client' \in [Consumers -> ClientStates]
    BY <1>9, Moved DEF receiveByteError, ClientStates
  <2>2. down' \in [Consumers -> Seq(Tokens)]
    BY <1>9, TailTokens DEF TypeOK, receiveByteError
  <2> QED
    BY <1>9, <2>1, <2>2 DEF TypeOK, receiveByteError, thread
<1>10. CASE receiveByteSkewed(c)
  <2>1. client' \in [Consumers -> ClientStates]
    BY <1>10, Moved DEF TypeOK, receiveByteSkewed, ClientStates
  <2>2. result' \in [Consumers -> {Garbage} \cup Nat]
    BY <1>10 DEF TypeOK, receiveByteSkewed
  <2> QED
    BY <1>10, <2>1, <2>2 DEF TypeOK, receiveByteSkewed, thread, connection
<1>11. CASE receiveReply(c)
  <2>1. client' \in [Consumers -> ClientStates]
    BY <1>11, Moved DEF receiveReply, ClientStates
  <2>2. down' \in [Consumers -> Seq(Tokens)] /\ Head(down[c]) \in Tokens
    BY <1>11, TailTokens DEF TypeOK, receiveReply
  <2>3. Head(down[c]).id \in {Garbage} \cup Nat
    BY <2>2 DEF Tokens
  <2> QED
    BY <1>11, <2>1, <2>2, <2>3 DEF TypeOK, receiveReply, thread
<1>15. CASE receiveReplyHangs(c)
  <2>1. client' \in [Consumers -> ClientStates]
    BY <1>15, Moved DEF receiveReplyHangs, ClientStates
  <2> QED
    BY <1>15, <2>1 DEF TypeOK, receiveReplyHangs, thread, connection
<1>12. CASE ReplyTimeout(c)
  <2>1. client' \in [Consumers -> ClientStates]
    BY <1>12, Moved DEF ReplyTimeout, ClientStates
  <2> QED
    BY <1>12, <2>1 DEF TypeOK, ReplyTimeout, thread, connection
<1>13. CASE Close(c)
  <2>1. client' \in [Consumers -> ClientStates] /\ open' \in SUBSET Consumers
    BY <1>13 DEF TypeOK, Close, ClientStates
  <2>2. up' \in [Consumers -> Seq(Tokens)]
    <3>1. up \in [Consumers -> Seq(Tokens)] /\ Partial \in Tokens
      BY TokenTypes DEF TypeOK
    <3>2. up' = up \/ up' = [up EXCEPT ![c] = Append(@, Partial)]
      BY <1>13 DEF Close
    <3>3. [up EXCEPT ![c] = Append(@, Partial)] \in [Consumers -> Seq(Tokens)]
      BY <3>1, AppendToken
    <3> QED
      BY <3>1, <3>2, <3>3
  <2>3. down' \in [Consumers -> Seq(Tokens)]
    BY <1>13, EmptySeq DEF TypeOK, Close
  <2> QED
    BY <1>13, <2>1, <2>2, <2>3 DEF TypeOK, Close, thread
<1> QED
  BY <1>1, <1>2, <1>3, <1>4, <1>5, <1>6, <1>7, <1>8, <1>9, <1>10, <1>11, <1>12, <1>13,
     <1>14, <1>15 DEF Consumer, Reads

\* The types hold at the beginning.
LEMMA TypeAtStart ==
  Init => TypeOK
<1>1. << >> \in Seq(Tokens) /\ << >> \in Seq(Consumers) /\ Len(<< >>) = 0
  BY EmptySeq
<1> QED
  BY <1>1, BacklogAssumption, TokenTypes DEF Init, TypeOK, ServerStates, ClientStates

\* Every step keeps the types.
LEMMA TypeKept ==
  TypeOK /\ [Next]_vars => TypeOK'
<1>1. TypeOK /\ UNCHANGED vars => TypeOK'
  BY DEF TypeOK, vars, thread, connection, caller
<1> QED
  BY <1>1, ProviderTypes, ConsumerTypes DEF Next

\* Every variable keeps its type, for any consumers and any backlog: the provider has
\* a connection exactly when it is not accepting, and the backlog is never overfull.
THEOREM TypeCorrect == Spec => []TypeOK
BY TypeAtStart, TypeKept, PTL DEF Spec

-----------------------------------------------------------------------------
(***************************************************************************)
(* Who waits and who is served.                                            *)
(***************************************************************************)
LEMMA StreamFacts ==
  ASSUME NEW x, NEW y
  PROVE  /\ Head(<<x>>) = x /\ Tail(<<x>>) = << >> /\ <<x>> # << >>
         /\ Append(<< >>, x) = <<x>> /\ << >> \o <<x>> = <<x>>
         /\ Head(<<x, y>>) = x /\ Tail(<<x, y>>) = <<y>> /\ <<x, y>> # << >>
         /\ << >> \o <<x, y>> = <<x, y>>
         /\ <<x>> \o <<y>> = <<x, y>>
<1>1. Head(<<x>>) = x /\ Head(<<x, y>>) = x
  OBVIOUS
<1>2. Tail(<<x>>) = << >>
  OBVIOUS
<1>3. Tail(<<x, y>>) = <<y>>
  OBVIOUS
<1>4. <<x>> # << >> /\ <<x, y>> # << >>
  OBVIOUS
<1>5. Append(<< >>, x) = <<x>>
  OBVIOUS
<1>7. << >> \o <<x>> = <<x>>
  OBVIOUS
<1>8. << >> \o <<x, y>> = <<x, y>>
  OBVIOUS
<1>9. <<x>> \o <<y>> = <<x, y>>
  <2>1. <<x>> \in Seq({x, y}) /\ <<y>> \in Seq({x, y}) /\ <<x, y>> \in Seq({x, y})
    OBVIOUS
  <2>2. /\ <<x>> \o <<y>> \in Seq({x, y}) /\ Len(<<x>> \o <<y>>) = 2
        /\ (<<x>> \o <<y>>)[1] = x /\ (<<x>> \o <<y>>)[2] = y
    BY <2>1, ConcatProperties
  <2>3. \A i \in 1..Len(<<x>> \o <<y>>) : (<<x>> \o <<y>>)[i] = <<x, y>>[i]
    <3>1. \A i \in 1..2 : i = 1 \/ i = 2
      OBVIOUS
    <3> QED
      BY <2>2, <3>1
  <2>4. Len(<<x>> \o <<y>>) = Len(<<x, y>>)
    BY <2>2
  <2> QED
    BY <2>1, <2>2, <2>3, <2>4, SeqEqual
<1> QED
  BY <1>1, <1>2, <1>3, <1>4, <1>5, <1>7, <1>8, <1>9

\* Tokens are told apart, and a packet has the number of its call.
LEMMA PacketsDiffer ==
  /\ Ok # Error /\ Header # Ok /\ Header # Probe /\ Header # Partial /\ Probe # Partial
  /\ Nothing # Probe /\ Nothing # Header
  /\ Ok # Partial
  /\ \A n : /\ Packet("request", n) # Partial /\ Packet("response", n) # Partial
            /\ Packet("request", n).id = n /\ Packet("response", n).id = n
BY DEF Ok, Error, Header, Probe, Partial, Nothing, Packet

\* The head of the backlog leaves it.
LEMMA Accepted ==
  ASSUME TypeOK, AcceptedOnce, NEW h, h = Head(queue), queue # << >>, queue' = Tail(queue)
  PROVE  /\ h \in Consumers /\ Queued(h) /\ ~Queued(h)'
         /\ \A c \in Consumers : c # h => (Queued(c)' <=> Queued(c))
         /\ \A i, j \in 1..Len(queue') : queue'[i] = queue'[j] => i = j
<1>1. /\ queue \in Seq(Consumers) /\ Len(queue) \in Nat /\ Len(queue') = Len(queue) - 1
      /\ \A i \in 1..Len(queue') : queue'[i] = queue[i + 1]
      /\ h = queue[1] /\ h \in Consumers
  BY HeadTailProperties, LenProperties DEF TypeOK
<1>2. 1 \in 1..Len(queue)
  BY <1>1, EmptySeq
<1>3. \A i \in 1..Len(queue') : i + 1 \in 1..Len(queue) /\ i + 1 # 1
  BY <1>1
<1>4. \A i \in 1..Len(queue) : i # 1 => i - 1 \in 1..Len(queue') /\ queue'[i - 1] = queue[i]
  BY <1>1
<1>5. Queued(h)
  BY <1>1, <1>2 DEF Queued
<1>6. ~Queued(h)'
  <2>1. \A i \in 1..Len(queue') : queue'[i] # h
    BY <1>1, <1>2, <1>3 DEF AcceptedOnce
  <2> QED
    BY <2>1 DEF Queued
<1>7. ASSUME NEW c \in Consumers, c # h
      PROVE  Queued(c)' <=> Queued(c)
  <2>1. Queued(c)' => Queued(c)
    BY <1>1, <1>3 DEF Queued
  <2>2. Queued(c) => Queued(c)'
    BY <1>1, <1>4, <1>7 DEF Queued
  <2> QED
    BY <2>1, <2>2
<1>8. ASSUME NEW i \in 1..Len(queue'), NEW j \in 1..Len(queue'), queue'[i] = queue'[j]
      PROVE  i = j
  <2>1. i + 1 = j + 1
    BY <1>1, <1>3, <1>8 DEF AcceptedOnce
  <2> QED
    BY <2>1
<1> QED
  BY <1>1, <1>5, <1>6, <1>7, <1>8

\* A consumer enters the backlog.
LEMMA Entered ==
  ASSUME TypeOK, AcceptedOnce, NEW c \in Consumers, ~Queued(c), queue' = Append(queue, c)
  PROVE  /\ Queued(c)' /\ \A j \in Consumers : j # c => (Queued(j)' <=> Queued(j))
         /\ \A i, j \in 1..Len(queue') : queue'[i] = queue'[j] => i = j
<1>1. /\ Len(queue) \in Nat /\ Len(queue') = Len(queue) + 1 /\ queue'[Len(queue) + 1] = c
      /\ \A i \in 1..Len(queue) : queue'[i] = queue[i]
  BY AppendProperties, LenProperties DEF TypeOK
<1>2. /\ Len(queue) + 1 \in 1..Len(queue') /\ 1..Len(queue) \subseteq 1..Len(queue')
      /\ \A i \in 1..Len(queue') : i \in 1..Len(queue) \/ i = Len(queue) + 1
  BY <1>1
<1>3. Queued(c)' /\ \A j \in Consumers : j # c => (Queued(j)' <=> Queued(j))
  BY <1>1, <1>2 DEF Queued
<1>4. \A i, j \in 1..Len(queue') : queue'[i] = queue'[j] => i = j
  BY <1>1, <1>2 DEF Queued, AcceptedOnce
<1> QED
  BY <1>3, <1>4

\* No connection is in the backlog twice, nor there and accepted.
LEMMA AcceptedOnceKept ==
  ASSUME IInv, Next
  PROVE  AcceptedOnce'
<1>1. TypeOK /\ AcceptedOnce
  BY DEF IInv
<1>2. CASE accept
  <2>1. PICK h : h = Head(queue)
    OBVIOUS
  <2>2. /\ server = "accept" /\ queue # << >> /\ peer' = h /\ queue' = Tail(queue)
        /\ UNCHANGED client
    BY <1>2, <2>1 DEF accept, caller
  <2>3. /\ Queued(h) /\ ~Queued(h)' /\ h \in Consumers
        /\ \A c \in Consumers : c # h => (Queued(c)' <=> Queued(c))
        /\ \A i, j \in 1..Len(queue') : queue'[i] = queue'[j] => i = j
    BY <1>1, <2>1, <2>2, Accepted
  <2>4. \A c \in Consumers : client[c] \in {"idle", "crashed"} => c # h /\ ~Queued(c)
    BY <1>1, <2>3 DEF AcceptedOnce
  <2>5. \A c \in Consumers : client'[c] \in {"idle", "crashed"} => peer' # c /\ ~Queued(c)'
    BY <2>2, <2>3, <2>4
  <2> QED
    BY <2>2, <2>3, <2>5 DEF AcceptedOnce
<1>6. CASE HeaderThrows
  <2>1. queue' = << >> /\ peer' = NoPeer
    BY <1>6 DEF HeaderThrows
  <2>2. 1..Len(queue') = {}
    BY <2>1, EmptySeq
  <2> QED
    BY <2>1, <2>2, NoPeerAssumption DEF AcceptedOnce, Queued
<1>3. CASE Provider /\ ~accept /\ ~HeaderThrows
  <2>1. UNCHANGED <<queue, client>> /\ peer' \in {peer, NoPeer}
    BY <1>3 DEF Provider, receiveHeader, HeaderTimeout, sendHeader, receiveRequest,
                PeerClosed, Fail, Callback, CallbackThrows, sendPacket, WriteThrows,
                receivePacket,
                Disconnect, connection, caller
  <2>2. \A c \in Consumers : Queued(c)' <=> Queued(c)
    BY <2>1 DEF Queued
  <2> QED
    BY <1>1, <2>1, <2>2, NoPeerAssumption DEF AcceptedOnce
<1>4. ASSUME NEW c \in Consumers, tcpros_connect(c)
      PROVE  AcceptedOnce'
  <2>1. /\ client[c] = "idle" /\ client'[c] = "hello" /\ queue' = Append(queue, c)
        /\ \A j \in Consumers : j # c => client'[j] = client[j]
        /\ UNCHANGED peer
    BY <1>1, <1>4, Moved DEF tcpros_connect, ClientStates, thread
  <2>2. peer # c /\ ~Queued(c)
    BY <1>1, <2>1 DEF AcceptedOnce
  <2>3. /\ Queued(c)' /\ \A j \in Consumers : j # c => (Queued(j)' <=> Queued(j))
        /\ \A i, j \in 1..Len(queue') : queue'[i] = queue'[j] => i = j
    BY <1>1, <2>1, <2>2, Entered
  <2> QED
    BY <1>1, <2>1, <2>2, <2>3 DEF AcceptedOnce
<1>5. ASSUME NEW c \in Consumers, Consumer(c), ~tcpros_connect(c)
      PROVE  AcceptedOnce'
  <2>1. UNCHANGED <<queue, peer>>
    BY <1>5 DEF Consumer, Reads, ConnectFails, SendHello, HelloThrows, receiveReplyHangs, call, CallRefused, ReceiveHello,
                HelloTimeout, receiveByteOk, receiveByteError, receiveByteSkewed,
                receiveReply, ReplyTimeout, Close, thread, connection
  <2>2. \A j \in Consumers : client'[j] \in {"idle", "crashed"} =>
          client[j] \in {"idle", "crashed"}
    BY <1>1, <1>5
       DEF Consumer, Reads, ConnectFails, SendHello, HelloThrows, receiveReplyHangs, call, CallRefused, ReceiveHello,
           HelloTimeout, receiveByteOk, receiveByteError, receiveByteSkewed,
           receiveReply, ReplyTimeout, Close, Move, TypeOK
  <2>3. \A j \in Consumers : Queued(j)' <=> Queued(j)
    BY <2>1 DEF Queued
  <2> QED
    BY <1>1, <2>1, <2>2, <2>3 DEF AcceptedOnce
<1> QED
  BY <1>2, <1>3, <1>4, <1>5, <1>6 DEF Next

-----------------------------------------------------------------------------
(***************************************************************************)
(* Each in phase: the others of a step.                                    *)
(***************************************************************************)
LEMMA PhaseFrame ==
  ASSUME NEW c, InPhase(c),
         client'[c] = client[c], up'[c] = up[c], down'[c] = down[c],
         calls'[c] = calls[c], result'[c] = result[c],
         c \in open' <=> c \in open, c \in skewed' <=> c \in skewed,
         Queued(c)' <=> Queued(c), peer' = c <=> peer = c,
         peer = c => server' = server /\ work' = work
  PROVE  InPhase(c)'
<1>1. \A s : At(c, s)' <=> At(c, s)
  BY DEF At
<1>2. (Left(c)' <=> Left(c)) /\ (Silent(c)' <=> Silent(c))
  BY DEF Left, Silent
<1>3. Request(c)' = Request(c) /\ Response(c)' = Response(c)
  BY DEF Request, Response
<1>4. NotServedYet(c) => NotServedYet(c)'
  BY <1>1, <1>2 DEF NotServedYet
<1>5. Greeting(c) => Greeting(c)'
  BY <1>1, <1>2 DEF Greeting
<1>6. BetweenCalls(c) => BetweenCalls(c)'
  BY <1>1, <1>2 DEF BetweenCalls
<1>7. AwaitingByte(c) => AwaitingByte(c)'
  BY <1>1, <1>2, <1>3 DEF AwaitingByte, At
<1>8. AwaitingReply(c) => AwaitingReply(c)'
  BY <1>1, <1>3 DEF AwaitingReply, At
<1>9. Hanging(c) => Hanging(c)'
  BY <1>1 DEF Hanging
<1> QED
  BY <1>4, <1>5, <1>6, <1>7, <1>8, <1>9 DEF InPhase

\* A step of the provider with its peer leaves the others where they are.
LEMMA OthersOfProvider ==
  ASSUME IInv, peer' \in {peer, NoPeer}, open \ {peer} \subseteq open', open' \subseteq open,
         \A c \in Consumers : c # peer => up'[c] = up[c] /\ down'[c] = down[c],
         UNCHANGED <<queue, client, skewed, calls, result>>, offbeat \subseteq offbeat'
  PROVE  \A c \in Consumers \ offbeat' : c # peer => InPhase(c)'
<1> SUFFICES ASSUME NEW c \in Consumers \ offbeat', c # peer
             PROVE  InPhase(c)'
  OBVIOUS
<1>1. InPhase(c)
  BY DEF IInv, PhaseInv
<1>2. peer # c /\ peer' # c /\ (Queued(c)' <=> Queued(c)) /\ (c \in open' <=> c \in open)
  BY NoPeerAssumption DEF Queued
<1> QED
  BY <1>1, <1>2, PhaseFrame

\* So does a step of a consumer.
LEMMA OthersOfConsumer ==
  ASSUME IInv, NEW c \in Consumers, UNCHANGED thread, offbeat \subseteq offbeat',
         \A j \in Consumers : j # c =>
           /\ client'[j] = client[j] /\ up'[j] = up[j] /\ down'[j] = down[j]
           /\ calls'[j] = calls[j] /\ result'[j] = result[j]
           /\ j \in open' <=> j \in open
           /\ j \in skewed' <=> j \in skewed
           /\ Queued(j)' <=> Queued(j)
  PROVE  \A j \in Consumers \ offbeat' : j # c => InPhase(j)'
<1> SUFFICES ASSUME NEW j \in Consumers \ offbeat', j # c
             PROVE  InPhase(j)'
  OBVIOUS
<1>1. InPhase(j)
  BY DEF IInv, PhaseInv
<1>2. UNCHANGED <<server, peer, work>>
  BY DEF thread
<1> QED
  BY <1>1, <1>2, PhaseFrame

-----------------------------------------------------------------------------
(***************************************************************************)
(* Each in phase: the provider's steps.                                    *)
(***************************************************************************)
LEMMA Wrote ==
  ASSUME TypeOK, NEW p \in Consumers, NEW s
  PROVE  /\ SendDown(p, s) => \A c \in Consumers : c # p => down'[c] = down[c]
         /\ SendDown(p, s) /\ p \in open => down'[p] = down[p] \o s
         /\ SendDown(p, s) /\ p \notin open => down'[p] = down[p]
         /\ SendUp(p, s) => \A c \in Consumers : c # p => up'[c] = up[c]
         /\ SendUp(p, s) /\ p \in open => up'[p] = Append(up[p], s)
         /\ SendUp(p, s) /\ p \notin open => up'[p] = up[p]
BY DEF SendDown, SendUp, TypeOK

\* A consumer in phase whose end is served is there, or gone.
LEMMA PeerIsThere ==
  ASSUME NEW p, InPhase(p), peer = p, p \in Consumers, IInv
  PROVE  /\ p \notin skewed /\ ~Left(p)
         /\ client[p] = "gone" \/ p \in open
BY DEF IInv, AcceptedOnce, InPhase, NotServedYet, Greeting, BetweenCalls, AwaitingByte,
       AwaitingReply, Hanging, Left, At

\* What the invariant says of one consumer.
LEMMA PhaseOf ==
  ASSUME IInv, NEW p \in Consumers \ offbeat
  PROVE  /\ InPhase(p) /\ TypeOK
         /\ peer = p => server \notin {"accept", "crashed"}
BY NoPeerAssumption DEF IInv, PhaseInv, TypeOK

\* A consumer that left before stays gone.
LEMMA GoneInPhase ==
  ASSUME NEW c, InPhase(c), client[c] = "gone", client'[c] = client[c], skewed' = skewed
  PROVE  InPhase(c)'
BY DEF InPhase

\* Where the provider is with a consumer tells how far that one is.
LEMMA ServerTells ==
  ASSUME NEW p, InPhase(p), peer = p, ~Left(p), ~Queued(p), client[p] \notin {"gone", "idle", "crashed"}
  PROVE  /\ server = "header" => NotServedYet(p) \/ Greeting(p)
         /\ server = "greet" => Greeting(p)
         /\ server = "serve" => ~NotServedYet(p)
         /\ server = "decode" => AwaitingByte(p)
         /\ server = "respond" => AwaitingByte(p) \/ AwaitingReply(p)
<1>1. NotServedYet(p) => server = "header"
  BY DEF NotServedYet, At
<1>2. Greeting(p) => server \in {"header", "greet", "serve"}
  BY DEF Greeting, At
<1>3. BetweenCalls(p) => server = "serve"
  BY DEF BetweenCalls, At
<1>4. AwaitingByte(p) => server \in {"serve", "decode", "respond", "hung"}
  BY DEF AwaitingByte, At
<1>5. AwaitingReply(p) => server \in {"serve", "respond"}
  BY DEF AwaitingReply, At
<1>6. \/ NotServedYet(p) \/ Greeting(p) \/ BetweenCalls(p) \/ AwaitingByte(p)
      \/ AwaitingReply(p) \/ Hanging(p)
  BY DEF InPhase
<1>7. Hanging(p) => server = "serve"
  BY DEF Hanging, At
<1> QED
  BY <1>1, <1>2, <1>3, <1>4, <1>5, <1>6, <1>7

\* A consumer in phase that is served, and not gone.
LEMMA ServedInPhase ==
  ASSUME IInv, NEW p \in Consumers \ offbeat, peer = p
  PROVE  /\ InPhase(p) /\ p \notin skewed /\ ~Left(p) /\ ~Queued(p) /\ TypeOK
         /\ client[p] \notin {"idle", "crashed"}
BY PhaseOf, PeerIsThere DEF IInv, AcceptedOnce

\* Accepting a connection keeps every consumer in its phase.
LEMMA AcceptKeeps ==
  ASSUME IInv, accept
  PROVE  PhaseInv'
<1>1. PICK h : h = Head(queue)
  OBVIOUS
<1>2. /\ server = "accept" /\ peer = NoPeer /\ queue # << >> /\ queue' = Tail(queue)
      /\ peer' = h /\ server' = "header"
      /\ UNCHANGED <<work, open, up, down, client, skewed, calls, result, offbeat>>
  BY <1>1 DEF IInv, TypeOK, accept, caller
<1>3. h \in Consumers /\ Queued(h) /\ ~Queued(h)'
      /\ \A c \in Consumers : c # h => (Queued(c)' <=> Queued(c))
  BY <1>1, <1>2, Accepted DEF IInv
<1>4. ASSUME NEW c \in Consumers \ offbeat', c # h
      PROVE  InPhase(c)'
  <2>1. InPhase(c) /\ peer # c /\ peer' # c
    BY <1>2, <1>4, PhaseOf, NoPeerAssumption
  <2> QED
    BY <1>2, <1>3, <1>4, <2>1, PhaseFrame
<1>5. ASSUME h \in Consumers \ offbeat'
      PROVE  InPhase(h)'
  <2>1. InPhase(h) /\ ~Left(h) /\ peer # h /\ client[h] \notin {"idle", "crashed"}
    BY <1>2, <1>3, <1>5, PhaseOf, NoPeerAssumption DEF Left, IInv, AcceptedOnce
  <2>2. At(h, "header")' /\ (\A s : ~At(h, s)) /\ (Silent(h)' <=> Silent(h))
    BY <1>2, <2>1 DEF At, Silent
  <2>3. NotServedYet(h) => NotServedYet(h)'
    BY <1>2, <2>1, <2>2 DEF NotServedYet
  <2>4. Greeting(h) => Greeting(h)'
    BY <1>2, <2>1, <2>2 DEF Greeting
  <2>5. ~BetweenCalls(h) /\ ~AwaitingByte(h) /\ ~AwaitingReply(h) /\ ~Hanging(h)
    BY <2>1, <2>2 DEF BetweenCalls, AwaitingByte, AwaitingReply, Hanging
  <2> QED
    BY <1>2, <2>1, <2>3, <2>4, <2>5 DEF InPhase
<1> QED
  BY <1>4, <1>5 DEF PhaseInv

\* The provider reads the header of its peer.
LEMMA ReceiveHeaderKeeps ==
  ASSUME IInv, NEW p \in Consumers \ offbeat, peer = p, receiveHeader
  PROVE  InPhase(p)'
<1>1. InPhase(p) /\ p \notin skewed /\ ~Left(p) /\ up \in [Consumers -> Seq(Tokens)]
  BY PhaseOf, PeerIsThere DEF TypeOK
<1>2. /\ server = "header" /\ up[p] # << >> /\ peer' = p
      /\ up'[p] = Tail(up[p]) /\ work' = Head(up[p])
      /\ server' = IF Head(up[p]) = Partial THEN "hung" ELSE "greet"
      /\ UNCHANGED <<queue, open, down, client, skewed, calls, result>>
  BY <1>1 DEF receiveHeader, receivePacket, caller
<1>3. client[p] # "gone" =>
        /\ client[p] = "await" /\ result[p] = calls[p] /\ p \in open
        /\ up[p] \in {<<Header>>, <<Probe>>} /\ down[p] = << >>
  BY <1>1, <1>2
     DEF InPhase, NotServedYet, Greeting, BetweenCalls, AwaitingByte, AwaitingReply,
         Hanging, At, Silent
<1>4. client[p] # "gone" => Greeting(p)'
  BY <1>2, <1>3, StreamFacts, PacketsDiffer DEF Greeting, At, Silent
<1> QED
  BY <1>1, <1>2, <1>4 DEF InPhase

\* The provider answers with its own header.
LEMMA SendHeaderKeeps ==
  ASSUME IInv, NEW p \in Consumers \ offbeat, peer = p, sendHeader
  PROVE  InPhase(p)'
<1>1. /\ InPhase(p) /\ p \notin skewed /\ ~Left(p) /\ TypeOK /\ ~Queued(p)
      /\ client[p] \notin {"idle", "crashed"}
  BY ServedInPhase
<1>2. /\ server = "greet" /\ SendDown(p, <<Header>>)
      /\ UNCHANGED <<queue, client, skewed, calls, result>>
      /\ \/ server' = "accept" /\ peer' = NoPeer /\ open' = open \ {p} /\ up'[p] = << >>
         \/ server' = "serve" /\ peer' = p /\ open' = open /\ up' = up
  BY <1>1 DEF sendHeader, Disconnect, caller, TypeOK
<1>3. client[p] # "gone" =>
        client[p] = "await" /\ result[p] = calls[p] /\ p \in open /\ Silent(p)
  BY <1>1, <1>2, ServerTells DEF Greeting, At
<1>4. client[p] # "gone" => up'[p] = << >> /\ down'[p] = <<Header>>
  BY <1>1, <1>2, <1>3, Wrote, StreamFacts DEF Silent
<1>5. client[p] # "gone" => (p \in open' /\ At(p, "serve")') \/ Left(p)'
  BY <1>1, <1>2, <1>3, NoPeerAssumption DEF At, Left, Queued
<1>6. client[p] # "gone" => Greeting(p)'
  BY <1>2, <1>3, <1>4, <1>5 DEF Greeting
<1> QED
  BY <1>1, <1>2, <1>6 DEF InPhase

\* The provider reads the request its peer waits with.
LEMMA ReceiveRequestKeeps ==
  ASSUME IInv, NEW p \in Consumers \ offbeat, peer = p, receiveRequest
  PROVE  InPhase(p)'
<1>1. /\ InPhase(p) /\ p \notin skewed /\ ~Left(p) /\ ~Queued(p)
      /\ up \in [Consumers -> Seq(Tokens)] /\ client[p] \notin {"idle", "crashed"}
  BY ServedInPhase DEF TypeOK
<1>2. /\ server = "serve" /\ up[p] # << >> /\ peer' = p
      /\ up'[p] = Tail(up[p]) /\ work' = Head(up[p])
      /\ server' = IF Head(up[p]) = Partial THEN "hung" ELSE "decode"
      /\ UNCHANGED <<queue, open, down, client, skewed, calls, result>>
  BY <1>1 DEF receiveRequest, receivePacket, caller
<1>3. client[p] # "gone" =>
        /\ client[p] = "byte" /\ p \in open
        /\ up[p] \in {<<Request(p)>>, <<Partial>>} /\ down[p] = << >>
  <2> SUFFICES ASSUME client[p] # "gone"
               PROVE  /\ client[p] = "byte" /\ p \in open
                      /\ up[p] \in {<<Request(p)>>, <<Partial>>} /\ down[p] = << >>
    OBVIOUS
  <2>1. /\ ~Greeting(p) /\ ~BetweenCalls(p) /\ ~AwaitingReply(p) /\ ~Hanging(p)
        /\ ~Silent(p)
    BY <1>1, <1>2, PacketsDiffer
       DEF Greeting, BetweenCalls, AwaitingReply, Hanging, At, Silent
  <2>2. AwaitingByte(p)
    BY <1>1, <1>2, <2>1, ServerTells DEF InPhase
  <2> QED
    BY <1>1, <1>2, <2>1, <2>2 DEF AwaitingByte, At
<1>4. Request(p) # Partial /\ Request(p)' = Request(p)
  BY <1>2, PacketsDiffer DEF Request
<1>5. CASE client[p] # "gone" /\ up[p] = <<Request(p)>>
  <2>1. At(p, "decode")' /\ work' = Request(p) /\ Silent(p)'
    BY <1>2, <1>3, <1>4, <1>5, StreamFacts DEF At, Silent
  <2>2. AwaitingByte(p)'
    BY <1>2, <1>3, <1>4, <1>5, <2>1 DEF AwaitingByte
  <2> QED
    BY <1>1, <1>2, <2>2 DEF InPhase
<1>6. CASE client[p] # "gone" /\ up[p] = <<Partial>>
  <2>1. At(p, "hung")' /\ Silent(p)'
    BY <1>2, <1>3, <1>6, StreamFacts DEF At, Silent
  <2>2. AwaitingByte(p)'
    BY <1>2, <1>3, <1>6, <2>1 DEF AwaitingByte
  <2> QED
    BY <1>1, <1>2, <2>2 DEF InPhase
<1> QED
  BY <1>1, <1>2, <1>3, <1>5, <1>6 DEF InPhase

\* Nobody in phase is found to have closed, or cannot be written to, but who is gone.
LEMMA PeerClosedKeeps ==
  ASSUME IInv, NEW p \in Consumers \ offbeat, peer = p, PeerClosed \/ WriteThrows
  PROVE  InPhase(p)'
<1>1. InPhase(p) /\ (client[p] = "gone" \/ p \in open)
  BY PhaseOf, PeerIsThere
<1> QED
  BY <1>1, GoneInPhase DEF PeerClosed, WriteThrows, caller

\* When the provider's process ends every connection does.
LEMMA HeaderThrowsKeeps ==
  ASSUME IInv, HeaderThrows
  PROVE  PhaseInv'
<1>1. /\ server = "greet" /\ peer \in Consumers /\ peer \notin open
      /\ queue' = << >> /\ open' = {} /\ peer' = NoPeer
      /\ (\A c \in Consumers : up'[c] = << >>)
      /\ UNCHANGED <<down, client, skewed, calls, result, offbeat>>
  BY Served DEF IInv, HeaderThrows, caller
<1>2. 1..Len(queue') = {}
  BY <1>1, EmptySeq
<1> SUFFICES ASSUME NEW c \in Consumers \ offbeat, client[c] # "gone"
             PROVE  InPhase(c)'
  BY <1>1, PhaseOf DEF PhaseInv, InPhase
<1>3. InPhase(c) /\ c \notin skewed /\ peer # c
  <2>1. InPhase(c) /\ c \notin skewed
    BY PhaseOf DEF InPhase
  <2>2. peer = c => c \in open
    BY <2>1, PeerIsThere
  <2> QED
    BY <1>1, <2>1, <2>2
<1>4. Left(c)' /\ (\A s : ~At(c, s))
  BY <1>1, <1>2, <1>3, NoPeerAssumption DEF Left, Queued, At
<1>5. NotServedYet(c) => NotServedYet(c)'
  BY <1>1, <1>4 DEF NotServedYet, Silent
<1>6. Greeting(c) => Greeting(c)'
  BY <1>1, <1>4 DEF Greeting, Silent
<1>7. BetweenCalls(c) => BetweenCalls(c)'
  BY <1>1, <1>4 DEF BetweenCalls, Silent
<1>8. AwaitingByte(c) => AwaitingByte(c)'
  BY <1>1, <1>4 DEF AwaitingByte, Silent
<1>9. ~AwaitingReply(c) /\ ~Hanging(c)
  BY <1>4 DEF AwaitingReply, Hanging
<1> QED
  BY <1>1, <1>3, <1>5, <1>6, <1>7, <1>8, <1>9 DEF InPhase

\* What the provider decodes is the request of the call.
LEMMA InDecode ==
  ASSUME IInv, NEW p \in Consumers \ offbeat, peer = p, server = "decode",
         client[p] # "gone"
  PROVE  /\ client[p] = "byte" /\ p \in open /\ work = Request(p) /\ Silent(p)
         /\ p \notin skewed /\ ~Queued(p)
<1>1. /\ InPhase(p) /\ p \notin skewed /\ ~Left(p) /\ ~Queued(p)
      /\ client[p] \notin {"idle", "crashed"}
  BY ServedInPhase
<1>2. AwaitingByte(p)
  BY <1>1, ServerTells
<1> QED
  BY <1>1, <1>2 DEF AwaitingByte, At

\* The provider answers with an error, for which its peer waits as for a reply.
LEMMA FailKeeps ==
  ASSUME IInv, NEW p \in Consumers \ offbeat, peer = p, Fail
  PROVE  InPhase(p)'
<1>1. InPhase(p) /\ TypeOK
  BY PhaseOf
<1>2. /\ server = "decode" /\ SendDown(p, <<Error, Text>>) /\ server' = "serve"
      /\ UNCHANGED <<peer, queue, open, up, client, skewed, calls, result>>
  BY DEF Fail, caller
<1>3. CASE client[p] = "gone"
  BY <1>1, <1>2, <1>3, GoneInPhase
<1>4. CASE client[p] # "gone"
  <2>1. client[p] = "byte" /\ p \in open /\ Silent(p) /\ p \notin skewed
    BY <1>2, <1>4, InDecode
  <2>2. up'[p] = << >> /\ down'[p] = <<Error, Text>> /\ At(p, "serve")'
    <3>1. down'[p] = << >> \o <<Error, Text>>
      BY <1>1, <1>2, <2>1, Wrote DEF Silent
    <3> QED
      BY <1>2, <2>1, <3>1, StreamFacts DEF Silent, At
  <2>3. AwaitingByte(p)'
    BY <1>2, <2>1, <2>2 DEF AwaitingByte
  <2> QED
    BY <1>2, <2>1, <2>3 DEF InPhase
<1> QED
  BY <1>3, <1>4

\* The reply has the number of the request it answers.
LEMMA CallbackKeeps ==
  ASSUME IInv, NEW p \in Consumers \ offbeat, peer = p, Callback
  PROVE  InPhase(p)'
<1>1. InPhase(p) /\ TypeOK
  BY PhaseOf
<1>2. /\ server = "decode" /\ SendDown(p, <<Ok>>) /\ server' = "respond"
      /\ UNCHANGED <<peer, work, queue, open, up, client, skewed, calls, result>>
  BY DEF Callback, caller
<1>3. CASE client[p] = "gone"
  BY <1>1, <1>2, <1>3, GoneInPhase
<1>4. CASE client[p] # "gone"
  <2>1. /\ client[p] = "byte" /\ p \in open /\ work = Request(p) /\ Silent(p)
        /\ p \notin skewed
    BY <1>2, <1>4, InDecode
  <2>2. up'[p] = << >> /\ down'[p] = <<Ok>> /\ At(p, "respond")'
    BY <1>1, <1>2, <2>1, Wrote, StreamFacts DEF Silent, At
  <2>3. work' = Request(p)'
    BY <1>2, <2>1 DEF Request
  <2>4. AwaitingByte(p)'
    BY <1>2, <2>1, <2>2, <2>3 DEF AwaitingByte
  <2> QED
    BY <1>2, <2>1, <2>4 DEF InPhase
<1> QED
  BY <1>3, <1>4

\* The consumer waits on, for a byte that will not come.
LEMMA CallbackThrowsKeeps ==
  ASSUME IInv, NEW p \in Consumers \ offbeat, peer = p, CallbackThrows
  PROVE  InPhase(p)'
<1>1. InPhase(p) /\ TypeOK
  BY PhaseOf
<1>2. /\ server = "decode" /\ peer' = NoPeer /\ open' = open \ {p} /\ up'[p] = << >>
      /\ UNCHANGED <<queue, down, client, skewed, calls, result>>
  BY <1>1 DEF CallbackThrows, Disconnect, caller, TypeOK
<1>3. CASE client[p] = "gone"
  BY <1>1, <1>2, <1>3, GoneInPhase
<1>4. CASE client[p] # "gone"
  <2>1. client[p] = "byte" /\ Silent(p) /\ p \notin skewed /\ ~Queued(p)
    BY <1>2, <1>4, InDecode
  <2>2. Left(p)' /\ Silent(p)'
    BY <1>2, <2>1, NoPeerAssumption DEF Left, Silent, Queued
  <2>3. AwaitingByte(p)'
    BY <1>2, <2>1, <2>2 DEF AwaitingByte
  <2> QED
    BY <1>2, <2>1, <2>3 DEF InPhase
<1> QED
  BY <1>3, <1>4

\* The response follows the byte, whether or not that was read.
LEMMA SendPacketKeeps ==
  ASSUME IInv, NEW p \in Consumers \ offbeat, peer = p, sendPacket
  PROVE  InPhase(p)'
<1>1. /\ InPhase(p) /\ p \notin skewed /\ ~Left(p) /\ ~Queued(p) /\ TypeOK
      /\ client[p] \notin {"idle", "crashed"}
  BY ServedInPhase
<1>2. PICK x \in {Packet("response", work.id), Partial} : SendDown(p, <<x>>)
  BY DEF sendPacket
<1>5. /\ server = "respond"
      /\ server' = "serve" /\ UNCHANGED <<peer, queue, open, up, client, skewed, calls, result>>
  BY DEF sendPacket, caller
<1>3. CASE client[p] = "gone"
  BY <1>1, <1>3, <1>5, GoneInPhase
<1>4. CASE client[p] # "gone"
  <2>1. /\ p \in open /\ up[p] = << >> /\ work = Request(p)
        /\ \/ client[p] = "byte" /\ down[p] = <<Ok>>
           \/ client[p] = "packet" /\ down[p] = << >>
    <3>1. AwaitingByte(p) \/ AwaitingReply(p)
      BY <1>1, <1>5, <1>4, ServerTells
    <3> QED
      BY <1>1, <1>5, <3>1 DEF AwaitingByte, AwaitingReply, At
  <2>2. x \in {Response(p), Partial} /\ Response(p)' = Response(p)
    BY <1>2, <1>5, <2>1, PacketsDiffer DEF Request, Response
  <2>3. down'[p] = down[p] \o <<x>> /\ At(p, "serve")'
    BY <1>1, <1>2, <1>5, <2>1, Wrote DEF At
  <2>4. CASE client[p] = "byte"
    <3>1. down'[p] = <<Ok, x>>
      BY <2>1, <2>3, <2>4, StreamFacts
    <3>2. AwaitingByte(p)'
      BY <1>5, <2>1, <2>2, <2>3, <2>4, <3>1 DEF AwaitingByte
    <3> QED
      BY <1>1, <1>5, <3>2 DEF InPhase
  <2>5. CASE client[p] = "packet"
    <3>1. down'[p] = <<x>>
      BY <2>1, <2>3, <2>5, StreamFacts
    <3>2. AwaitingReply(p)'
      BY <1>5, <2>1, <2>2, <2>3, <2>5, <3>1 DEF AwaitingReply
    <3> QED
      BY <1>1, <1>5, <3>2 DEF InPhase
  <2> QED
    BY <2>1, <2>4, <2>5
<1> QED
  BY <1>3, <1>4

\* Whatever the provider does, every consumer is in a phase.
LEMMA ProviderKeepsPhase ==
  ASSUME IInv, Provider
  PROVE  PhaseInv'
<1>1. CASE accept
  BY <1>1, AcceptKeeps
<1>3. CASE HeaderThrows
  BY <1>3, HeaderThrowsKeeps
<1>2. CASE ~accept /\ ~HeaderThrows
  <2>1. /\ server \notin {"accept", "crashed"} /\ peer' \in {peer, NoPeer} /\ open \ {peer} \subseteq open'
        /\ open' \subseteq open /\ UNCHANGED <<queue, client, skewed, calls, result>>
        /\ offbeat \subseteq offbeat'
    BY <1>2 DEF Provider, receiveHeader, HeaderTimeout, sendHeader, receiveRequest,
                PeerClosed, Fail, Callback, CallbackThrows, sendPacket, WriteThrows,
                receivePacket,
                Disconnect, connection, caller
  <2>2. TypeOK /\ peer \in Consumers
    BY <2>1, Served DEF IInv
  <2>3. \A c \in Consumers : c # peer => up'[c] = up[c]
    BY <1>2, <2>2
       DEF Provider, receiveHeader, HeaderTimeout, sendHeader, receiveRequest,
           PeerClosed, Fail, Callback, CallbackThrows, sendPacket, WriteThrows,
                receivePacket,
           Disconnect, connection, TypeOK
  <2>4. \A c \in Consumers : c # peer => down'[c] = down[c]
    BY <1>2, <2>2, Wrote
       DEF Provider, receiveHeader, HeaderTimeout, sendHeader, receiveRequest,
           PeerClosed, Fail, Callback, CallbackThrows, sendPacket, WriteThrows,
                receivePacket,
           connection
  <2>5. \A c \in Consumers \ offbeat' : c # peer => InPhase(c)'
    BY <2>1, <2>3, <2>4, OthersOfProvider
  <2>6. ASSUME NEW p \in Consumers \ offbeat', p = peer
        PROVE  InPhase(p)'
    <3>1. p \in Consumers \ offbeat /\ ~HeaderTimeout
      BY <2>1, <2>6 DEF HeaderTimeout
    <3> QED
      BY <1>2, <2>6, <3>1, ReceiveHeaderKeeps, SendHeaderKeeps, ReceiveRequestKeeps,
         PeerClosedKeeps, FailKeeps, CallbackKeeps, CallbackThrowsKeeps, SendPacketKeeps
         DEF Provider
  <2> QED
    BY <2>5, <2>6 DEF PhaseInv
<1> QED
  BY <1>1, <1>2, <1>3

-----------------------------------------------------------------------------
(***************************************************************************)
(* Each in phase: the consumers' steps.                                    *)
(***************************************************************************)
LEMMA Elsewhere ==
  ASSUME UNCHANGED <<thread, queue>>, NEW c
  PROVE  /\ Queued(c)' <=> Queued(c)
         /\ \A s : At(c, s)' <=> At(c, s)
         /\ (c \in open' <=> c \in open) => (Left(c)' <=> Left(c))
BY DEF thread, Queued, At, Left

\* A connection that enters the backlog.
LEMMA ConnectKeeps ==
  ASSUME IInv, NEW c \in Consumers \ offbeat, tcpros_connect(c)
  PROVE  InPhase(c)'
<1>1. InPhase(c) /\ TypeOK /\ AcceptedOnce
  BY PhaseOf DEF IInv
<1>2. /\ client[c] = "idle" /\ client'[c] = "hello" /\ queue' = Append(queue, c)
      /\ c \in open' /\ UNCHANGED <<up, down, skewed, calls, result>>
  BY <1>1, Moved DEF tcpros_connect, ClientStates
<1>3. NotServedYet(c)
  BY <1>1, <1>2 DEF InPhase, Greeting, BetweenCalls, AwaitingByte, AwaitingReply, Hanging
<1>4. Queued(c)'
  BY <1>1, <1>2, Entered DEF AcceptedOnce
<1>5. NotServedYet(c)'
  BY <1>2, <1>3, <1>4 DEF NotServedYet, Silent
<1> QED
  BY <1>1, <1>2, <1>5 DEF InPhase

\* A connection that is refused leaves its consumer unconnected.
LEMMA ConnectFailsKeeps ==
  ASSUME IInv, NEW c \in Consumers \ offbeat, ConnectFails(c)
  PROVE  InPhase(c)'
<1>1. InPhase(c) /\ TypeOK
  BY PhaseOf
<1>2. /\ client[c] = "idle" /\ client'[c] = "crashed"
      /\ UNCHANGED <<up, down, skewed, calls, result>>
  BY <1>1, Moved DEF ConnectFails, ClientStates, connection
<1>3. NotServedYet(c)
  BY <1>1, <1>2 DEF InPhase, Greeting, BetweenCalls, AwaitingByte, AwaitingReply, Hanging
<1>4. NotServedYet(c)'
  BY <1>2, <1>3 DEF NotServedYet, Silent
<1> QED
  BY <1>1, <1>2, <1>4 DEF InPhase

\* The consumer sends its header.
LEMMA SendHelloKeeps ==
  ASSUME IInv, NEW c \in Consumers \ offbeat, SendHello(c)
  PROVE  InPhase(c)'
<1>1. InPhase(c) /\ TypeOK
  BY PhaseOf
<1>2. /\ client[c] = "hello" /\ client'[c] = "await"
      /\ UNCHANGED <<thread, queue, open, down, skewed, calls, result>>
  BY <1>1, Moved DEF SendHello, ClientStates
<1>3. NotServedYet(c)
  BY <1>1, <1>2 DEF InPhase, Greeting, BetweenCalls, AwaitingByte, AwaitingReply, Hanging
<1>4. /\ up[c] = << >> /\ down[c] = << >> /\ result[c] = calls[c]
      /\ (c \in open /\ (Queued(c) \/ At(c, "header"))) \/ Left(c)
  BY <1>2, <1>3 DEF NotServedYet, Silent
<1>5. PICK x \in {Header, Probe} : SendUp(c, x)
  BY DEF SendHello
<1>6. CASE c \in open
  <2>1. up'[c] \in {<<Header>>, <<Probe>>}
    <3>1. up'[c] = Append(<< >>, x)
      BY <1>1, <1>4, <1>5, <1>6, Wrote
    <3> QED
      BY <3>1, StreamFacts
  <2>2. Queued(c)' \/ At(c, "header")'
    BY <1>2, <1>4, <1>6, Elsewhere DEF Left
  <2>3. Greeting(c)'
    BY <1>2, <1>4, <1>6, <2>1, <2>2 DEF Greeting
  <2> QED
    BY <1>1, <1>2, <2>3 DEF InPhase
<1>7. CASE c \notin open
  <2>1. Left(c)' /\ Silent(c)'
    BY <1>1, <1>2, <1>4, <1>5, <1>7, Wrote, Elsewhere DEF Silent
  <2>2. Greeting(c)'
    BY <1>2, <1>4, <2>1 DEF Greeting
  <2> QED
    BY <1>1, <1>2, <2>2 DEF InPhase
<1> QED
  BY <1>6, <1>7

\* The consumer reads the header of the provider.
LEMMA ReceiveHelloKeeps ==
  ASSUME IInv, NEW c \in Consumers \ offbeat, ReceiveHello(c)
  PROVE  InPhase(c)'
<1>1. InPhase(c) /\ TypeOK
  BY PhaseOf
<1>2. /\ client[c] = "await" /\ client'[c] = "ready"
      /\ UNCHANGED <<thread, queue, open, up, skewed, calls, result>>
      /\ down[c] # << >> /\ down'[c] = Tail(down[c])
  BY <1>1, Moved DEF ReceiveHello, ClientStates, TypeOK
<1>3. Greeting(c)
  BY <1>1, <1>2 DEF InPhase, NotServedYet, BetweenCalls, AwaitingByte, AwaitingReply, Hanging
<1>4. /\ (c \in open /\ At(c, "serve")) \/ Left(c)
      /\ up[c] = << >> /\ down[c] = <<Header>> /\ result[c] = calls[c]
  BY <1>2, <1>3 DEF Greeting, Silent
<1>5. (c \in open' /\ At(c, "serve")') \/ Left(c)'
  BY <1>2, <1>4, Elsewhere
<1>6. Silent(c)'
  BY <1>2, <1>4, StreamFacts DEF Silent
<1>7. BetweenCalls(c)'
  BY <1>2, <1>4, <1>5, <1>6 DEF BetweenCalls
<1> QED
  BY <1>1, <1>2, <1>7 DEF InPhase

\* A call sends its request, which is the only one on the way.
LEMMA CallKeeps ==
  ASSUME IInv, NEW c \in Consumers \ offbeat, call(c)
  PROVE  InPhase(c)'
<1>1. InPhase(c) /\ TypeOK
  BY PhaseOf
<1>2. /\ client[c] = "ready" /\ client'[c] = "byte" /\ calls'[c] = calls[c] + 1
      /\ UNCHANGED <<thread, queue, open, down, skewed, result>>
  BY <1>1, Moved DEF call, ClientStates, TypeOK
<1>3. BetweenCalls(c)
  BY <1>1, <1>2 DEF InPhase, NotServedYet, Greeting, AwaitingByte, AwaitingReply, Hanging
<1>4. up[c] = << >> /\ down[c] = << >>
  BY <1>3 DEF BetweenCalls, Silent
<1>5. PICK x \in {Request(c)', Partial} : SendUp(c, x)
  BY <1>2 DEF Request, call
<1>6. CASE c \in open /\ At(c, "serve")
  <2>1. up'[c] \in {<<Request(c)'>>, <<Partial>>}
    <3>1. up'[c] = Append(<< >>, x)
      BY <1>1, <1>4, <1>5, <1>6, Wrote
    <3> QED
      BY <3>1, StreamFacts
  <2>2. c \in open' /\ At(c, "serve")' /\ down'[c] = << >>
    BY <1>2, <1>4, <1>6, Elsewhere
  <2>3. AwaitingByte(c)'
    BY <1>2, <2>1, <2>2 DEF AwaitingByte
  <2> QED
    BY <1>1, <1>2, <2>3 DEF InPhase
<1>7. CASE Left(c)
  <2>1. Left(c)' /\ up'[c] = << >> /\ down'[c] = << >>
    BY <1>1, <1>2, <1>4, <1>5, <1>7, Wrote, Elsewhere DEF Left
  <2>2. AwaitingByte(c)'
    BY <1>2, <2>1 DEF AwaitingByte, Silent
  <2> QED
    BY <1>1, <1>2, <2>2 DEF InPhase
<1> QED
  BY <1>3, <1>6, <1>7 DEF BetweenCalls

\* What is under way to a consumer that waits for the byte.
LEMMA ByteUnderWay ==
  ASSUME IInv, NEW c \in Consumers \ offbeat, client[c] = "byte", down[c] # << >>
  PROVE  /\ c \in open /\ up[c] = << >>
         /\ \/ /\ At(c, "serve")
               /\ down[c] \in {<<Error, Text>>, <<Ok, Response(c)>>, <<Ok, Partial>>}
            \/ At(c, "respond") /\ work = Request(c) /\ down[c] = <<Ok>>
<1>1. InPhase(c)
  BY PhaseOf
<1>2. AwaitingByte(c)
  BY <1>1 DEF InPhase, NotServedYet, Greeting, BetweenCalls, AwaitingReply, Hanging
<1> QED
  BY <1>2 DEF AwaitingByte, Silent

\* The byte before a reply says that there is one.
LEMMA ReceiveByteOkKeeps ==
  ASSUME IInv, NEW c \in Consumers \ offbeat, receiveByteOk(c)
  PROVE  InPhase(c)'
<1>1. InPhase(c) /\ TypeOK
  BY PhaseOf
<1>2. /\ client[c] = "byte" /\ client'[c] = "packet" /\ c \notin skewed
      /\ UNCHANGED <<thread, queue, open, up, skewed, calls, result>>
      /\ down[c] # << >> /\ Head(down[c]) = Ok /\ down'[c] = Tail(down[c])
  BY <1>1, Moved DEF receiveByteOk, ClientStates, TypeOK
<1>3. down[c] # <<Error, Text>>
  BY <1>2, StreamFacts, PacketsDiffer
<1>4. /\ c \in open /\ up[c] = << >>
      /\ \/ At(c, "serve") /\ down[c] \in {<<Ok, Response(c)>>, <<Ok, Partial>>}
         \/ At(c, "respond") /\ work = Request(c) /\ down[c] = <<Ok>>
  BY <1>2, <1>3, ByteUnderWay
<1>5. \/ At(c, "serve") /\ down'[c] \in {<<Response(c)>>, <<Partial>>}
      \/ At(c, "respond") /\ work = Request(c) /\ down'[c] = << >>
  <2>1. CASE At(c, "serve") /\ down[c] \in {<<Ok, Response(c)>>, <<Ok, Partial>>}
    <3>1. PICK x \in {Response(c), Partial} : down[c] = <<Ok, x>>
      BY <2>1
    <3> QED
      BY <1>2, <2>1, <3>1, StreamFacts
  <2>2. CASE At(c, "respond") /\ work = Request(c) /\ down[c] = <<Ok>>
    BY <1>2, <2>2, StreamFacts
  <2> QED
    BY <1>4, <2>1, <2>2
<1>6. Request(c)' = Request(c) /\ Response(c)' = Response(c) /\ work' = work
  BY <1>2 DEF Request, Response, thread
<1>7. \/ At(c, "serve")' /\ down'[c] \in {<<Response(c)'>>, <<Partial>>}
      \/ At(c, "respond")' /\ work' = Request(c)' /\ down'[c] = << >>
  BY <1>2, <1>5, <1>6, Elsewhere
<1>8. AwaitingReply(c)'
  BY <1>2, <1>4, <1>7 DEF AwaitingReply
<1> QED
  BY <1>2, <1>8 DEF InPhase

\* To a consumer in phase nothing comes that is no answer.
LEMMA NeverSkewed ==
  ASSUME IInv, NEW c \in Consumers \ offbeat
  PROVE  ~receiveByteSkewed(c)
<1>1. c \notin skewed
  BY PhaseOf DEF InPhase
<1>2. client[c] = "byte" /\ down[c] # << >> => Head(down[c]) \in {Ok, Error}
  BY ByteUnderWay, StreamFacts
<1> QED
  BY <1>1, <1>2 DEF receiveByteSkewed

\* The reply is the one to the call being made.
LEMMA ReceiveReplyKeeps ==
  ASSUME IInv, NEW c \in Consumers \ offbeat, receiveReply(c)
  PROVE  InPhase(c)'
<1>1. InPhase(c) /\ TypeOK
  BY PhaseOf
<1>2. /\ client[c] = "packet" /\ client'[c] = "ready"
      /\ UNCHANGED <<thread, queue, open, up, skewed, calls>>
      /\ down[c] # << >> /\ Head(down[c]) # Partial
      /\ down'[c] = Tail(down[c]) /\ result'[c] = Head(down[c]).id
  BY <1>1, Moved DEF receiveReply, ClientStates, TypeOK
<1>3. AwaitingReply(c)
  BY <1>1, <1>2 DEF InPhase, NotServedYet, Greeting, BetweenCalls, AwaitingByte, Hanging
<1>4. c \in open /\ up[c] = << >> /\ At(c, "serve") /\ down[c] = <<Response(c)>>
  BY <1>2, <1>3, StreamFacts DEF AwaitingReply
<1>5. down'[c] = << >> /\ result'[c] = calls'[c]
  BY <1>2, <1>4, StreamFacts, PacketsDiffer DEF Response
<1>6. BetweenCalls(c)'
  BY <1>2, <1>4, <1>5, Elsewhere DEF BetweenCalls, Silent
<1> QED
  BY <1>1, <1>2, <1>6 DEF InPhase

\* A response that is too large is waited for, without being read.
LEMMA ReceiveReplyHangsKeeps ==
  ASSUME IInv, NEW c \in Consumers \ offbeat, receiveReplyHangs(c)
  PROVE  InPhase(c)'
<1>1. InPhase(c) /\ TypeOK
  BY PhaseOf
<1>2. /\ client[c] = "packet" /\ client'[c] = "stuck"
      /\ UNCHANGED <<thread, queue, open, up, down, skewed, calls, result>>
      /\ down[c] # << >> /\ Head(down[c]) = Partial
  BY <1>1, Moved DEF receiveReplyHangs, ClientStates, connection
<1>3. AwaitingReply(c)
  BY <1>1, <1>2 DEF InPhase, NotServedYet, Greeting, BetweenCalls, AwaitingByte, Hanging
<1>4. c \in open /\ up[c] = << >> /\ At(c, "serve") /\ down[c] = <<Partial>>
  BY <1>2, <1>3, StreamFacts, PacketsDiffer DEF AwaitingReply, Response
<1>5. Hanging(c)'
  BY <1>2, <1>4, Elsewhere DEF Hanging
<1> QED
  BY <1>1, <1>2, <1>5 DEF InPhase

\* A consumer whose header cannot be written is not made.
LEMMA HelloThrowsKeeps ==
  ASSUME IInv, NEW c \in Consumers \ offbeat, HelloThrows(c)
  PROVE  InPhase(c)'
<1>1. InPhase(c) /\ TypeOK
  BY PhaseOf
<1>2. client'[c] = "gone" /\ skewed' = skewed
  BY <1>1, Moved DEF HelloThrows, ClientStates
<1> QED
  BY <1>1, <1>2 DEF InPhase

\* A consumer closes its end.
LEMMA CloseKeeps ==
  ASSUME IInv, NEW c \in Consumers \ offbeat, Close(c)
  PROVE  InPhase(c)'
<1>1. InPhase(c) /\ TypeOK
  BY PhaseOf
<1>2. client'[c] = "gone" /\ skewed' = skewed
  BY <1>1 DEF Close, TypeOK
<1> QED
  BY <1>1, <1>2 DEF InPhase

\* Whatever a consumer does, every consumer is in a phase.
LEMMA ConsumerKeepsPhase ==
  ASSUME IInv, NEW c \in Consumers, Consumer(c)
  PROVE  PhaseInv'
<1>1. TypeOK /\ AcceptedOnce /\ offbeat \subseteq offbeat' /\ UNCHANGED thread
  BY DEF IInv, Consumer, Reads, tcpros_connect, ConnectFails, SendHello, HelloThrows, receiveReplyHangs, call, CallRefused,
         ReceiveHello, HelloTimeout, receiveByteOk, receiveByteError, receiveByteSkewed,
         receiveReply, ReplyTimeout, Close
<1>2. \A j \in Consumers : j # c =>
        /\ client'[j] = client[j] /\ down'[j] = down[j]
        /\ calls'[j] = calls[j] /\ result'[j] = result[j]
        /\ j \in open' <=> j \in open
        /\ j \in skewed' <=> j \in skewed
  BY <1>1
     DEF Consumer, Reads, tcpros_connect, ConnectFails, SendHello, HelloThrows, receiveReplyHangs, call, CallRefused,
         ReceiveHello, HelloTimeout, receiveByteOk, receiveByteError, receiveByteSkewed,
         receiveReply, ReplyTimeout, Close, Move, TypeOK, connection
<1>3. \A j \in Consumers : j # c => up'[j] = up[j]
  BY <1>1, Wrote
     DEF Consumer, Reads, tcpros_connect, ConnectFails, SendHello, HelloThrows, receiveReplyHangs, call, CallRefused,
         ReceiveHello, HelloTimeout, receiveByteOk, receiveByteError, receiveByteSkewed,
         receiveReply, ReplyTimeout, Close, TypeOK, connection
<1>4. \A j \in Consumers : j # c => (Queued(j)' <=> Queued(j))
  <2>1. CASE tcpros_connect(c)
    <3>1. ~Queued(c) /\ queue' = Append(queue, c)
      BY <1>1, <2>1 DEF AcceptedOnce, tcpros_connect, Move
    <3> QED
      BY <1>1, <3>1, Entered
  <2>2. CASE ~tcpros_connect(c)
    <3>1. UNCHANGED queue
      BY <2>2 DEF Consumer, Reads, ConnectFails, SendHello, HelloThrows, receiveReplyHangs, call, CallRefused, ReceiveHello,
                  HelloTimeout, receiveByteOk, receiveByteError, receiveByteSkewed,
                  receiveReply, ReplyTimeout, Close, connection
    <3> QED
      BY <3>1 DEF Queued
  <2> QED
    BY <2>1, <2>2
<1>5. \A j \in Consumers \ offbeat' : j # c => InPhase(j)'
  BY <1>1, <1>2, <1>3, <1>4, OthersOfConsumer
<1>6. ASSUME c \notin offbeat'
      PROVE  InPhase(c)'
  <2>1. c \in Consumers \ offbeat
    BY <1>1, <1>6
  <2>2. ~CallRefused(c) /\ ~HelloTimeout(c) /\ ~receiveByteError(c) /\ ~ReplyTimeout(c)
    BY <1>6 DEF CallRefused, HelloTimeout, receiveByteError, ReplyTimeout
  <2> QED
    BY <2>1, <2>2, ConnectKeeps, ConnectFailsKeeps, SendHelloKeeps, ReceiveHelloKeeps,
       CallKeeps, ReceiveByteOkKeeps, NeverSkewed, ReceiveReplyKeeps, CloseKeeps,
       ReceiveReplyHangsKeeps, HelloThrowsKeeps
       DEF Consumer, Reads
<1> QED
  BY <1>5, <1>6 DEF PhaseInv

-----------------------------------------------------------------------------
\* The place in the stream tells which call a reply is for: a consumer whose waits were
\* all in time and whose calls all succeeded gets from call() the response to that call,
\* for any number of consumers and calls.
THEOREM CallsGetTheirReplies == Spec => []RepliesMatch
<1>1. Init => IInv
  <2> SUFFICES ASSUME Init
               PROVE  IInv
    OBVIOUS
  <2>1. TypeOK
    BY TypeAtStart
  <2>2. peer = NoPeer /\ queue = << >> /\ open = {} /\ Len(queue) = 0
    BY EmptySeq DEF Init
  <2>3. AcceptedOnce
    BY <2>2, NoPeerAssumption DEF AcceptedOnce, Queued
  <2>4. ASSUME NEW c \in Consumers
        PROVE  InPhase(c)
    <3>1. /\ client[c] = "idle" /\ up[c] = << >> /\ down[c] = << >> /\ result[c] = calls[c]
          /\ c \notin skewed
      BY DEF Init
    <3> QED
      BY <3>1 DEF InPhase, NotServedYet, Silent
  <2> QED
    BY <2>1, <2>3, <2>4 DEF IInv, PhaseInv
<1>2. IInv /\ [Next]_vars => IInv'
  <2>1. IInv /\ UNCHANGED vars => IInv'
    <3> SUFFICES ASSUME IInv, UNCHANGED vars
                 PROVE  IInv'
      OBVIOUS
    <3>1. UNCHANGED <<server, peer, work, queue, client, open, up, down, skewed, calls,
                      result, offbeat>>
      BY DEF vars, thread, connection, caller
    <3>2. \A c \in Consumers : Queued(c)' <=> Queued(c)
      BY <3>1 DEF Queued
    <3>3. AcceptedOnce'
      BY <3>1, <3>2 DEF IInv, AcceptedOnce
    <3>4. PhaseInv'
      BY <3>1, <3>2, PhaseFrame DEF IInv, PhaseInv
    <3> QED
      BY <3>1, <3>3, <3>4, TypeKept DEF IInv, vars, thread, connection, caller
  <2>2. IInv /\ Next => IInv'
    <3> SUFFICES ASSUME IInv, Next
                 PROVE  IInv'
      OBVIOUS
    <3>1. TypeOK'
      BY TypeKept DEF IInv
    <3>2. PhaseInv'
      BY ProviderKeepsPhase, ConsumerKeepsPhase DEF Next
    <3> QED
      BY <3>1, <3>2, AcceptedOnceKept DEF IInv
  <2> QED
    BY <2>1, <2>2
<1>3. IInv => RepliesMatch
  <2> SUFFICES ASSUME IInv
               PROVE  RepliesMatch
    OBVIOUS
  <2>1. ASSUME NEW c \in Consumers \ offbeat
        PROVE  c \notin skewed /\ (client[c] = "ready" => result[c] = calls[c])
    BY PhaseOf
       DEF InPhase, NotServedYet, Greeting, BetweenCalls, AwaitingByte, AwaitingReply, Hanging
  <2> QED
    BY <2>1, Zenon DEF RepliesMatch
<1> QED
  BY <1>1, <1>2, <1>3, PTL DEF Spec
=============================================================================
