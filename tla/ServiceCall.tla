----------------------------- MODULE ServiceCall -----------------------------
(***************************************************************************)
(* Calls of one service: its provider (src/src/rosserviceprovider.cpp),    *)
(* its consumers (src/src/rosserviceconsumer.cpp) and the TCP connections  *)
(* between them (src/src/rostcpros.cpp).                                   *)
(*                                                                         *)
(* The provider's thread serves one connection at a time; the others wait  *)
(* in the backlog of its socket. A connection carries two streams of       *)
(* bytes, here of tokens: what one send writes is one token, and a read of *)
(* the wrong length, which the code does not notice, leaves the stream     *)
(* skewed: what is read from then on is anything.                          *)
(*                                                                         *)
(* The body of a packet is waited for until all of it is in the socket's   *)
(* receive buffer. That never happens when its sender went away in the     *)
(* middle of it, nor when the body is larger than the buffer: in both      *)
(* cases what arrived is a size without a body, a partial packet. Whether  *)
(* the sender of a packet that is too large is kept in write or goes on to *)
(* wait for what comes next makes no difference, neither has an end.       *)
(*                                                                         *)
(* Three waits end by a timeout: those for the headers after 1 s, and that *)
(* for the size of a reply after 1 ms (a timeout of 1.0 s given where      *)
(* milliseconds are expected). All others have none.                       *)
(***************************************************************************)
EXTENDS Integers, Sequences

CONSTANTS
  Consumers,
  NoPeer,      \* value of peer while the provider has no connection
  Backlog      \* connections the provider's socket holds until they are accepted

ASSUME NoPeerAssumption == NoPeer \notin Consumers
ASSUME BacklogAssumption == Backlog \in Nat \ {0}

VARIABLES
  server,      \* the provider's thread: see ServerStates
  peer,        \* the consumer it is connected to
  work,        \* the packet it took from the stream
  queue,       \* consumers that connected and are not accepted yet
  client,      \* client[c]: where consumer c is, see ClientStates
  open,        \* consumers whose connection has both ends
  up, down,    \* the tokens under way to the provider and to the consumer
  skewed,      \* consumers that read a token's bytes as something else
  calls,       \* calls[c]: how many calls c made
  result,      \* result[c]: which call the last reply c returned was for
  dropped,     \* history: consumers whose connection the provider closed: their
               \* header was a probe, or the callback of their call threw
  offbeat      \* history: consumers a wait of which timed out, or one of whose
               \* calls failed

connection == <<queue, open, up, down>>
thread == <<server, peer, work, dropped>>
caller == <<client, skewed, calls, result, offbeat>>
vars == <<thread, connection, caller>>

ServerStates == {"accept", "header", "greet", "serve", "decode", "respond", "hung", "crashed"}
ClientStates == {"idle", "hello", "await", "ready", "byte", "packet", "stuck",
                 "crashed", "gone"}

\* Packets, all of them a size and a body. A probe is a header. The reply to a request, or to what was taken for
\* one, carries the number of the request, or Garbage.
Garbage == -1
Packet(kind, id) == [kind |-> kind, id |-> id]
Header == Packet("header", Garbage)
Probe == Packet("probe", Garbage)
Partial == Packet("partial", Garbage)
Nothing == Packet("nothing", Garbage)
Ok == Packet("ok", Garbage)          \* the byte 1
Error == Packet("error", Garbage)    \* the byte 0
Text == Packet("text", Garbage)      \* the string after it

Tokens == [kind : {"header", "probe", "partial", "nothing", "ok", "error", "text",
                   "request", "response"},
           id : {Garbage} \cup Nat]

TypeOK ==
  /\ server \in ServerStates
  /\ peer \in Consumers \cup {NoPeer}
  /\ peer = NoPeer <=> server \in {"accept", "crashed"}
  /\ work \in Tokens
  /\ queue \in Seq(Consumers)
  /\ Len(queue) <= Backlog
  /\ client \in [Consumers -> ClientStates]
  /\ open \in SUBSET Consumers
  /\ up \in [Consumers -> Seq(Tokens)]
  /\ down \in [Consumers -> Seq(Tokens)]
  /\ skewed \in SUBSET Consumers
  /\ calls \in [Consumers -> Nat]
  /\ result \in [Consumers -> {Garbage} \cup Nat]
  /\ offbeat \in SUBSET Consumers
  /\ dropped \in SUBSET Consumers

Init ==
  /\ server = "accept" /\ peer = NoPeer /\ work = Nothing
  /\ queue = << >> /\ open = {}
  /\ client = [c \in Consumers |-> "idle"]
  /\ up = [c \in Consumers |-> << >>]
  /\ down = [c \in Consumers |-> << >>]
  /\ skewed = {} /\ offbeat = {} /\ dropped = {}
  /\ calls = [c \in Consumers |-> 0]
  /\ result = [c \in Consumers |-> 0]

\* A write into a connection whose other end is closed is lost, or else throws:
\* the actions in which it throws are CallRefused and HelloThrows of a consumer,
\* WriteThrows and HeaderThrows of the provider.
SendUp(c, token) ==
  up' = IF c \in open THEN [up EXCEPT ![c] = Append(@, token)] ELSE up
SendDown(c, tokens) ==
  down' = IF c \in open THEN [down EXCEPT ![c] = @ \o tokens] ELSE down

-----------------------------------------------------------------------------
(***************************************************************************)
(* The provider's thread.                                                  *)
(***************************************************************************)
accept ==
  /\ server = "accept" /\ queue # << >>
  /\ peer' = Head(queue) /\ queue' = Tail(queue)
  /\ server' = "header"
  /\ UNCHANGED <<work, dropped, open, up, down, caller>>

\* The body of a packet is waited for without a timeout: on a partial packet the
\* provider hangs. (Mutant: the packet stays in the stream.)
receivePacketMutant(next) ==
  /\ up[peer] # << >>
  /\ work' = Head(up[peer])
  /\ server' = IF Head(up[peer]) = Partial THEN "hung" ELSE next
  /\ UNCHANGED <<peer, dropped, queue, open, up, down, caller>>
receivePacket(next) ==
  /\ up[peer] # << >>
  /\ work' = Head(up[peer])
  /\ up' = [up EXCEPT ![peer] = Tail(@)]
  /\ server' = IF Head(up[peer]) = Partial THEN "hung" ELSE next
  /\ UNCHANGED <<peer, dropped, queue, open, down, caller>>

receiveHeader == server = "header" /\ receivePacket("greet")

\* No size within 1 s: the header is empty, and the connection is served.
HeaderTimeout ==
  /\ server = "header" /\ up[peer] = << >>
  /\ server' = "greet" /\ work' = Nothing
  /\ offbeat' = offbeat \cup {peer}
  /\ UNCHANGED <<peer, dropped, connection, client, skewed, calls, result>>

\* The thread closes the connection and goes back to accept.
Disconnect ==
  /\ server' = "accept" /\ peer' = NoPeer /\ work' = Nothing
  /\ open' = open \ {peer}
  /\ up' = [up EXCEPT ![peer] = << >>]

\* A header with a probe ends the connection. (Mutant: without closing it.)
sendHeaderMutant ==
  /\ server = "greet"
  /\ SendDown(peer, <<Header>>)
  /\ server' = IF work = Probe THEN "accept" ELSE "serve"
  /\ work' = Nothing
  /\ UNCHANGED <<peer, dropped, queue, open, up, caller>>
sendHeader ==
  /\ server = "greet"
  /\ SendDown(peer, <<Header>>)
  /\ \/ work = Probe /\ Disconnect /\ dropped' = dropped \cup {peer}
     \/ /\ work # Probe
        /\ server' = "serve" /\ work' = Nothing
        /\ UNCHANGED <<peer, dropped, open, up>>
  /\ UNCHANGED <<queue, caller>>

\* Nothing catches what the write of the header throws when the consumer is gone:
\* the provider's process ends, and with it all its connections.
HeaderThrows ==
  /\ server = "greet" /\ peer \notin open
  /\ server' = "crashed" /\ peer' = NoPeer /\ work' = Nothing
  /\ queue' = << >> /\ open' = {}
  /\ up' = [c \in Consumers |-> << >>]
  /\ UNCHANGED <<dropped, down, caller>>

receiveRequest == server = "serve" /\ receivePacket("decode")

\* The other end is closed, found by the loop that waits for a request. (Mutant:
\* the loop asks for the size of the next packet only.)
PeerClosedMutant ==
  /\ server = "serve" /\ peer \notin open /\ up[peer] # << >>
  /\ Disconnect
  /\ UNCHANGED <<dropped, queue, down, caller>>
PeerClosed ==
  /\ server = "serve" /\ peer \notin open
  /\ Disconnect
  /\ UNCHANGED <<dropped, queue, down, caller>>

\* Decoding, the callback or encoding fails: an error, and the loop goes on.
\* (Mutant: the loop goes on without an answer.)
FailMutant ==
  /\ server = "decode"
  /\ server' = "serve" /\ work' = Nothing
  /\ UNCHANGED <<peer, dropped, connection, caller>>
Fail ==
  /\ server = "decode"
  /\ SendDown(peer, <<Error, Text>>)
  /\ server' = "serve" /\ work' = Nothing
  /\ UNCHANGED <<peer, dropped, queue, open, up, caller>>

\* The callback's response. What is no request may decode as one.
Callback ==
  /\ server = "decode"
  /\ SendDown(peer, <<Ok>>)
  /\ server' = "respond"
  /\ UNCHANGED <<peer, work, dropped, queue, open, up, caller>>

\* The callback throws.
CallbackThrows ==
  /\ server = "decode"
  /\ Disconnect /\ dropped' = dropped \cup {peer}
  /\ UNCHANGED <<queue, down, caller>>

\* The response may be too large.
sendPacket ==
  /\ server = "respond"
  /\ SendDown(peer, <<Packet("response", work.id)>>) \/ SendDown(peer, <<Partial>>)
  /\ server' = "serve" /\ work' = Nothing
  /\ UNCHANGED <<peer, dropped, queue, open, up, caller>>

\* The answer cannot be written, the consumer is gone: caught like what the
\* callback throws.
WriteThrows ==
  /\ server \in {"decode", "respond"} /\ peer \notin open
  /\ Disconnect
  /\ UNCHANGED <<dropped, queue, down, caller>>

Provider ==
  \/ accept \/ receiveHeader \/ HeaderTimeout \/ sendHeader \/ HeaderThrows
  \/ receiveRequest \/ PeerClosed \/ Fail \/ Callback \/ CallbackThrows
  \/ sendPacket \/ WriteThrows

-----------------------------------------------------------------------------
(***************************************************************************)
(* A consumer: connect, then any number of calls.                          *)
(***************************************************************************)
Move(c, from, to) == client[c] = from /\ client' = [client EXCEPT ![c] = to]

\* The master's answer led here. The system completes the connection as long as
\* there is room in the backlog.
tcpros_connect(c) ==
  /\ Move(c, "idle", "hello")
  /\ server # "crashed" /\ Len(queue) < Backlog
  /\ queue' = Append(queue, c) /\ open' = open \cup {c}
  /\ UNCHANGED <<thread, up, down, skewed, calls, result, offbeat>>

\* Nobody listens at the URI, or not in time: the null pointer is used.
ConnectFails(c) ==
  /\ Move(c, "idle", "crashed")
  /\ UNCHANGED <<thread, connection, skewed, calls, result, offbeat>>

\* The consumers of other implementations may only probe.
SendHello(c) ==
  /\ Move(c, "hello", "await")
  /\ SendUp(c, Header) \/ SendUp(c, Probe)
  /\ UNCHANGED <<thread, queue, open, down, skewed, calls, result, offbeat>>

ReceiveHello(c) ==
  /\ Move(c, "await", "ready")
  /\ down[c] # << >>
  /\ down' = [down EXCEPT ![c] = Tail(@)]
  /\ UNCHANGED <<thread, queue, open, up, skewed, calls, result, offbeat>>

\* What the write of the header throws leaves connect(), and no consumer is made.
HelloThrows(c) ==
  /\ Move(c, "hello", "gone") /\ c \notin open
  /\ UNCHANGED <<thread, connection, skewed, calls, result, offbeat>>

\* No header within 1 s: connect() returns true all the same.
HelloTimeout(c) ==
  /\ Move(c, "await", "ready")
  /\ down[c] = << >>
  /\ offbeat' = offbeat \cup {c}
  /\ UNCHANGED <<thread, connection, skewed, calls, result>>

\* call sends the request, which may be too large, and then waits for a byte
\* without a timeout.
call(c) ==
  /\ Move(c, "ready", "byte")
  /\ calls' = [calls EXCEPT ![c] = @ + 1]
  /\ SendUp(c, Packet("request", calls[c] + 1)) \/ SendUp(c, Partial)
  /\ UNCHANGED <<thread, queue, open, down, skewed, result, offbeat>>

\* The request cannot be sent: call returns nothing, or throws.
CallRefused(c) ==
  /\ client[c] = "ready" /\ c \notin open
  /\ calls' = [calls EXCEPT ![c] = @ + 1]
  /\ offbeat' = offbeat \cup {c}
  /\ UNCHANGED <<thread, connection, client, skewed, result>>

receiveByteOk(c) ==
  /\ Move(c, "byte", "packet")
  /\ c \notin skewed /\ down[c] # << >> /\ Head(down[c]) = Ok
  /\ down' = [down EXCEPT ![c] = Tail(@)]
  /\ UNCHANGED <<thread, queue, open, up, skewed, calls, result, offbeat>>

\* The string that follows is left in the stream.
receiveByteError(c) ==
  /\ Move(c, "byte", "ready")
  /\ c \notin skewed /\ down[c] # << >> /\ Head(down[c]) = Error
  /\ down' = [down EXCEPT ![c] = Tail(@)]
  /\ offbeat' = offbeat \cup {c}
  /\ UNCHANGED <<thread, queue, open, up, skewed, calls, result>>

\* The first byte of a size is taken for the answer: it is 0, or the next four
\* bytes are a size there is a packet for, or one there will never be.
receiveByteSkewed(c) ==
  /\ client[c] = "byte"
  /\ c \in skewed \/ (down[c] # << >> /\ Head(down[c]) \notin {Ok, Error})
  /\ skewed' = skewed \cup {c}
  /\ \/ UNCHANGED <<client, result>>
     \/ Move(c, "byte", "ready") /\ UNCHANGED result
     \/ Move(c, "byte", "ready") /\ result' = [result EXCEPT ![c] = Garbage]
     \/ Move(c, "byte", "stuck") /\ UNCHANGED result
  /\ UNCHANGED <<thread, connection, calls, offbeat>>

receiveReply(c) ==
  /\ Move(c, "packet", "ready")
  /\ down[c] # << >> /\ Head(down[c]) # Partial
  /\ result' = [result EXCEPT ![c] = Head(down[c]).id]
  /\ down' = [down EXCEPT ![c] = Tail(@)]
  /\ UNCHANGED <<thread, queue, open, up, skewed, calls, offbeat>>

receiveReplyHangs(c) ==
  /\ Move(c, "packet", "stuck")
  /\ down[c] # << >> /\ Head(down[c]) = Partial
  /\ UNCHANGED <<thread, connection, skewed, calls, result, offbeat>>

\* No size within 1 ms: call returns nothing, and the reply comes later.
ReplyTimeout(c) ==
  /\ Move(c, "packet", "ready")
  /\ down[c] = << >>
  /\ offbeat' = offbeat \cup {c}
  /\ UNCHANGED <<thread, connection, skewed, calls, result>>

\* The consumer is destroyed between two calls, or its process ends at any time,
\* in the middle of a packet too.
Close(c) ==
  /\ client[c] \in ClientStates \ {"idle", "crashed", "gone"}
  /\ client' = [client EXCEPT ![c] = "gone"]
  /\ open' = open \ {c}
  /\ \/ UNCHANGED up
     \/ /\ c \in open /\ client[c] \in {"hello", "ready"}
        /\ up' = [up EXCEPT ![c] = Append(@, Partial)]
  /\ down' = [down EXCEPT ![c] = << >>]
  /\ UNCHANGED <<thread, queue, skewed, calls, result, offbeat>>

Reads(c) ==
  \/ ReceiveHello(c) \/ HelloTimeout(c)
  \/ receiveByteOk(c) \/ receiveByteError(c) \/ receiveByteSkewed(c)
  \/ receiveReply(c) \/ receiveReplyHangs(c) \/ ReplyTimeout(c)

Consumer(c) ==
  \/ tcpros_connect(c) \/ ConnectFails(c) \/ SendHello(c) \/ HelloThrows(c)
  \/ call(c) \/ CallRefused(c) \/ Reads(c) \/ Close(c)

Next == Provider \/ \E c \in Consumers : Consumer(c)

Spec == Init /\ [][Next]_vars

\* Both sides keep running; callbacks return. Nothing makes anybody connect,
\* call or close.
FairSpec == Spec /\ WF_vars(Provider) /\ \A c \in Consumers : WF_vars(Reads(c))

-----------------------------------------------------------------------------
(***************************************************************************)
(* Properties.                                                             *)
(***************************************************************************)

\* A consumer whose waits were all in time and whose calls all succeeded never
\* takes anything for a reply but the reply to the call it is making. The
\* protocol has no number in a reply: it is the place in the stream that counts.
RepliesMatch ==
  \A c \in Consumers \ offbeat :
    /\ c \notin skewed
    /\ client[c] = "ready" => result[c] = calls[c]

\* A call returns, whatever fails in it, unless
\*   - the consumer had a timeout or an error before: nobody serves it, or it takes
\*     one thing for another;
\*   - the provider closed the connection, after a probe or because the callback
\*     threw: receiveByte has no timeout and does not ask whether it is connected;
\*   - the request is a packet that is too large, for which the provider waits; or
\*   - the response is one, for which the consumer waits.
\* The provider is busy with others until their owners let them go: a consumer that
\* waited for that longer than 1 s is of the first kind.
Returned(c) == client[c] \in {"ready", "gone"}

CallsReturn ==
  \A c \in Consumers :
    client[c] \in {"byte", "packet"} ~>
      \/ Returned(c)
      \/ c \in offbeat \cup dropped
      \/ peer = c /\ server = "hung"
      \/ client[c] = "stuck" /\ Head(down[c]) = Partial

\* A consumer that is gone does not keep the provider from the others for ever: it
\* accepts again, unless it waits for the body of a packet the consumer left it
\* without, or the consumer left before it got the header and the write of it ended
\* the provider's process. Past the header nothing of the consumer's can do that.
GoneAreLeft ==
  \A c \in Consumers :
    /\ peer = c /\ c \notin open ~> server \in {"accept", "hung", "crashed"}
    /\ peer = c /\ c \notin open /\ server \in {"serve", "decode", "respond"} ~>
         server \in {"accept", "hung"}
=============================================================================
