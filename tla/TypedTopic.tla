------------------------------ MODULE TypedTopic ------------------------------
(***************************************************************************)
(* A topic of two processes, each with definitions, generated packers and  *)
(* libraries of its own: what the subscriber's callback is called with,    *)
(* what the echo tool prints and the pub tool publishes of it              *)
(* (src/include/nanoros/rosnode.h, src/src/rospublisher.cpp,               *)
(* src/src/rossubscriber.cpp, src/apps/nanorostopic.cpp). Connections keep *)
(* the order of messages (TopicChannel): here one is under way at a time.  *)
(* They are made whatever the packers' hashes are; nobody compares them.   *)
(***************************************************************************)
EXTENDS PackerFactory, MsgJson, FiniteSets

CONSTANTS
  Pub, Sub,        \* the two processes
  Topic,           \* the type of the topic
  Cases,           \* a sequence of records [tree, messages]: definitions of each process, messages
  Slots,           \* <<process, directory, type>> where libraries come and go
  MaxChanges,      \* times a library is removed or replaced by another
  Nothing

\* No chain of messages within messages has a type twice, and so none is longer.
ASSUME DepthAssumption == IsFiniteSet(Messages) /\ Cardinality(Messages) <= Levels

ASSUME TopicAssumption == {Pub, Sub} = Procs /\ Pub # Sub /\ Topic \in Messages

ASSUME ChangesAssumption == MaxChanges \in Nat

\* The definitions are about these messages, and the application has messages of them.
Line ==
  [kind : {"field", "const", "bad"}, type : Primitive \cup Messages,
   dims : Nat \cup {Vector}, here : BOOLEAN, name : STRING]
ASSUME CasesAssumption ==
  /\ Messages \cap Primitive = {}
  /\ \A c \in DOMAIN Cases :
       /\ \A p \in Procs :
            /\ DOMAIN Cases[c].tree[p] \subseteq Messages
            /\ \A t \in DOMAIN Cases[c].tree[p] : Cases[c].tree[p][t] \in Seq(Line)
       /\ \A m \in Cases[c].messages : IsMsg(Cases[c].tree[Pub], Topic, m)

VARIABLES
  source,          \* which of Cases are the definitions, and what is published
  generated,       \* [Procs -> SUBSET Messages]: types with generated code
  alive,           \* [Procs -> BOOLEAN]: not ended by an exception
  advertised, subscribed,
  wire,            \* the packet under way, with what was written by whom
  got,             \* what the callback was called with last
  printed,         \* what echo printed last
  changes          \* number of libraries removed or replaced

vars == <<factoryVars, source, generated, alive, advertised, subscribed, wire, got,
          printed, changes>>
toolVars == <<source, generated, changes>>
topicVars == <<alive, advertised, subscribed, wire, got, printed>>

Tree(p) == Cases[source].tree[p]

TypeOK ==
  /\ FactoryTypeOK
  /\ source \in DOMAIN Cases
  /\ generated \in [Procs -> SUBSET Messages]
  /\ alive \in [Procs -> BOOLEAN]
  /\ advertised \in BOOLEAN /\ subscribed \in BOOLEAN
  /\ wire # Nothing => ToSet(wire.bytes) \subseteq Byte
  /\ printed # Nothing => subscribed
  /\ changes \in 0..MaxChanges

Init ==
  /\ FactoryInit
  /\ source \in DOMAIN Cases
  /\ generated = [p \in Procs |-> {}]
  /\ alive = [p \in Procs |-> TRUE]
  /\ advertised = FALSE /\ subscribed = FALSE
  /\ wire = Nothing /\ got = Nothing /\ printed = Nothing
  /\ changes = 0

-----------------------------------------------------------------------------
\* What the generator may leave, for each of the cases.
Outcomes == [c \in DOMAIN Cases |-> [p \in Procs |-> Generated(Cases[c].tree[p])]]

\* The generator leaves the files of earlier runs.
Generate(p) ==
  \E some \in Outcomes[source][p] :
    /\ ~some \subseteq generated[p]
    /\ generated' = [generated EXCEPT ![p] = @ \cup some]
    /\ UNCHANGED <<factoryVars, source, changes, topicVars>>

\* A library is built and installed, while processes run or before. Those of
\* services are not generated.
Install(p, d, t) ==
  /\ ChangeDisk(p, d, t, "good")
  /\ t \in Services \cup Buildable(Tree(p), generated[p])
  /\ UNCHANGED <<toolVars, topicVars>>

Spoil(p, d, t, status) ==
  /\ changes < MaxChanges
  /\ disk[p][<<d, t>>] = "good"
  /\ ChangeDisk(p, d, t, status)
  /\ changes' = changes + 1
  /\ UNCHANGED <<source, generated, topicVars>>

-----------------------------------------------------------------------------
\* advertise<T>, subscribe<T> and the tools look the packer up; without one they
\* return, and may be called again.
advertise ==
  /\ alive[Pub] /\ ~advertised
  /\ LookUp(Pub, {<<App, Topic>>})
  /\ advertised' = Found(Pub, Topic)
  /\ UNCHANGED <<toolVars, alive, subscribed, wire, got, printed>>

subscribe ==
  /\ alive[Sub] /\ ~subscribed
  /\ LookUp(Sub, {<<App, Topic>>})
  /\ subscribed' = Found(Sub, Topic)
  /\ UNCHANGED <<toolVars, alive, advertised, wire, got, printed>>

\* advertiseService<T>, and the tool that calls a service.
useService(p, t) ==
  /\ alive[p] /\ t \in Services
  /\ LookUp(p, {<<App, t>>})
  /\ UNCHANGED <<toolVars, topicVars>>

\* The packers getMsgPacker finds.
KnownMsgs(p) == KnownTo(p) \cap Messages

\* toPacket looks up the packers of the members it comes to.
Send(m, of) ==
  LET known == KnownMsgs(Pub)
  IN /\ LookUp(Pub, Asked(Tree(Pub), known, Topic, m))
     /\ wire' = [bytes |-> toPacket(Tree(Pub), known, Topic, m), msg |-> m,
                 known |-> known, of |-> of]

publish(m) ==
  /\ alive[Pub] /\ advertised /\ subscribed /\ wire = Nothing
  /\ Send(m, Nothing)
  /\ UNCHANGED <<toolVars, alive, advertised, subscribed, got, printed>>

\* spinOnce of the subscriber: what toMsg throws ends the process.
Deliver(read, known) ==
  /\ IF read.threw THEN UNCHANGED factoryVars
     ELSE LookUp(Sub, Asked(Tree(Sub), known, Topic, read.val))
  /\ alive' = [alive EXCEPT ![Sub] = ~read.threw]
  /\ got' = [msg |-> read.val, at |-> read.at, threw |-> read.threw,
             known |-> known, sent |-> wire]

spinOnce ==
  /\ alive[Sub] /\ subscribed /\ wire # Nothing
  /\ Deliver(toMsg(Tree(Sub), KnownMsgs(Sub), Topic, wire.bytes, 0), KnownMsgs(Sub))
  /\ wire' = Nothing
  /\ UNCHANGED <<toolVars, advertised, subscribed, printed>>

\* The callback of echo: text that is no JSON is an exception. (Quotes in strings, and
\* blanks and quotes among the bytes of an array, may happen to complete each other:
\* what is printed then is other JSON, which is left out.)
echo ==
  LET json == toJSON(Tree(Sub), Topic, got.msg)
  IN /\ alive[Sub] /\ got # Nothing
     /\ printed' = [json |-> json, msg |-> got.msg]
     /\ printed' # printed
     /\ \/ UNCHANGED alive
        \/ json.is = "bad" /\ alive' = [alive EXCEPT ![Sub] = FALSE]
     /\ UNCHANGED <<factoryVars, toolVars, advertised, subscribed, wire, got>>

\* The pub tool, with the publisher's definitions, of what echo printed.
publishJSON ==
  LET known == KnownMsgs(Pub)
      m == fromJSON(Tree(Pub), known, Topic, printed.json)
  IN /\ alive[Pub] /\ advertised /\ wire = Nothing
     /\ printed # Nothing /\ printed.json.is # "bad"
     /\ IF m.threw
        THEN alive' = [alive EXCEPT ![Pub] = FALSE] /\ UNCHANGED <<factoryVars, wire>>
        ELSE Send(m.val, printed.msg) /\ UNCHANGED alive
     /\ UNCHANGED <<toolVars, advertised, subscribed, got, printed>>

Next ==
  \/ \E p \in Procs : Generate(p)
  \/ \E p \in Procs, d \in Dirs, t \in Types :
       /\ <<p, d, t>> \in Slots
       /\ Install(p, d, t) \/ \E status \in {"absent", "noinit"} : Spoil(p, d, t, status)
  \/ advertise \/ subscribe
  \/ \E p \in Procs, t \in Services : useService(p, t)
  \/ \E m \in Cases[source].messages : publish(m)
  \/ spinOnce \/ echo \/ publishJSON

Spec == Init /\ [][Next]_vars

-----------------------------------------------------------------------------
\* The members of message types have the same types, and are one or many alike.
SameShape(tree1, tree2) ==
  \A t \in DOMAIN tree1 \cap DOMAIN tree2 :
    \A i \in DOMAIN Fields(tree1, t) \cap DOMAIN Fields(tree2, t) :
      LET f == Fields(tree1, t)[i]
          g == Fields(tree2, t)[i]
      IN ~to_cxx_typeName(f) \/ ~to_cxx_typeName(g)
           => f.type = g.type /\ is_array(f) = is_array(g)

\* The cases in which the two have packers with the same hash.
SameHash ==
  {c \in DOMAIN Cases :
     LET tree == Cases[c].tree
     IN /\ Topic \in Parsed(tree[Pub]) \cap Parsed(tree[Sub])
        /\ md5sum(tree[Pub], Topic) = md5sum(tree[Sub], Topic)
        /\ SameShape(tree[Pub], tree[Sub])}

\* Packers with the same hash understand each other, although nobody compares the
\* hashes: the callback gets every member that was sent, and nothing is left in the
\* packet. Three conditions are the code's: T[] and T of a message type have the same
\* hash, and so have two types with the same text (these are SameShape), and the two
\* processes must have found packers for the same members.
RoundTrip ==
  got # Nothing /\ source \in SameHash /\ got.known = got.sent.known
    => /\ ~got.threw
       /\ got.msg = Masked(Tree(Pub), got.known, Topic, got.sent.msg)
       /\ got.at = Len(got.sent.bytes)

\* Whatever the two definitions are, a packet is never read beyond its end.
ReadWithinPacket == got # Nothing => got.at <= Len(got.sent.bytes)

\* A message that was printed by echo and is published by the pub tool is the same
\* but for its vectors, which are empty, its bytes, which are the digits they were
\* printed as, its floats, of which six digits are left, and its strings, in which
\* what began with a backslash is what it stood for. One that has no JSON, as with
\* nan or a quote in a string, does not get there.
JsonKeepsTheRest ==
  wire # Nothing /\ Tree(Pub) = Tree(Sub) /\ wire.of # Nothing
    => wire.msg = Left(Tree(Pub), wire.known, Topic, wire.of)
=============================================================================
