------------------------------ MODULE NodeLife ------------------------------
(***************************************************************************)
(* The life of one node (src/src/rosnode.cpp): what its application        *)
(* advertises, subscribes and takes back, its three vectors, its           *)
(* registrations at the master, the master client its two threads share    *)
(* (src/src/rosmaster.cpp) and its destructor.                             *)
(*                                                                         *)
(* Each call of the application asks the master first and changes a vector *)
(* when the answer, or the failure, is there. The client refuses a call    *)
(* while another thread is in one. Whom the node connects to is the matter *)
(* of TopicGraph, what it sends that of TopicChannel.                      *)
(***************************************************************************)
EXTENDS Integers, Sequences, SequencesExt

CONSTANTS
  Topics,      \* topics it may advertise
  Inputs,      \* topics it may subscribe to
  Services,    \* services it may advertise
  NoName       \* value of name outside a call

ASSUME NoNameAssumption == NoName \notin Topics \cup Inputs \cup Services

VARIABLES
  registered,         \* the master's entries for this node
  publishers_, subscribers_, serviceProviders_,
  packed,             \* the subscribed topics whose packer is known
  main,               \* main thread: [pc, op, name, ok]
  slave,              \* slave-server thread: a topic whose type it asks, or NoName
  client,             \* who is in a call of the master client: "main", "slave", "free"
  slots,              \* the publishers when the destructor began
  slot,               \* which of them unadvertiseAll is at, 0 before
  failed              \* history: entries whose last call failed

vectors == <<publishers_, subscribers_, serviceProviders_>>
vars == <<registered, vectors, packed, main, slave, client, slots, slot, failed>>

Entry ==
  ({"pub"} \X Topics) \cup ({"sub"} \X Inputs) \cup ({"srv"} \X Services)

Ops == {"subscribe", "advertise", "advertiseService", "unadvertise",
        "unadvertiseService", "getTopicTypes", "none"}

Registers == {"subscribe", "advertise", "advertiseService"}
Unregisters == {"unadvertise", "unadvertiseService"}

KindOf(op) ==
  CASE op \in {"subscribe", "getTopicTypes"} -> "sub"
    [] op \in {"advertise", "unadvertise"} -> "pub"
    [] OTHER -> "srv"

\* The entry the main thread's call is about.
Current == <<KindOf(main.op), main.name>>

Held ==
  ({"pub"} \X ToSet(publishers_)) \cup ({"sub"} \X ToSet(subscribers_))
    \cup ({"srv"} \X ToSet(serviceProviders_))

\* "hung": in the join of a service provider's thread, whose loop has no end.
MainPcs == {"idle", "call", "executing", "reply", "slot", "stop", "hung", "gone", "crashed"}

TypeOK ==
  /\ registered \in SUBSET Entry /\ failed \in SUBSET Entry
  /\ publishers_ \in Seq(Topics) /\ IsInjective(publishers_)
  /\ subscribers_ \in Seq(Inputs) /\ IsInjective(subscribers_)
  /\ serviceProviders_ \in Seq(Services) /\ IsInjective(serviceProviders_)
  /\ packed \in SUBSET Inputs
  /\ main \in [pc : MainPcs, op : Ops, name : Topics \cup Inputs \cup Services \cup {NoName},
               ok : BOOLEAN]
  /\ main.pc \in {"call", "executing", "reply"} => Current \in Entry
  /\ slave \in Inputs \cup {NoName}
  /\ client \in {"main", "slave", "free"}
  /\ main.pc # "crashed" => (client = "main" <=> main.pc = "executing")
  /\ main.pc # "crashed" => (client = "slave" <=> slave # NoName)
  /\ slots \in Seq(Topics) /\ slot \in 0..Len(slots) + 1

Idle == [pc |-> "idle", op |-> "none", name |-> NoName, ok |-> TRUE]

Init ==
  /\ registered = {} /\ failed = {} /\ packed = {}
  /\ publishers_ = << >> /\ subscribers_ = << >> /\ serviceProviders_ = << >>
  /\ main = Idle /\ slave = NoName /\ client = "free"
  /\ slots = << >> /\ slot = 0

-----------------------------------------------------------------------------
(***************************************************************************)
(* The calls of the application. A name that is registered already, a name *)
(* that is not, and a missing packer end them before they change anything; *)
(* so does unsubscribe always, whose disconnect() is the base class's and  *)
(* returns false.                                                          *)
(***************************************************************************)
Start(op, name) ==
  main' = [pc |-> "call", op |-> op, name |-> name, ok |-> TRUE]

Unchanged == UNCHANGED <<registered, vectors, slave, client, slots, slot, failed>>

\* With a packer, or without: the type is then asked from the master.
subscribe(t) ==
  /\ main.pc = "idle" /\ t \notin ToSet(subscribers_)
  /\ Start("subscribe", t)
  /\ packed' \in {packed \cup {t}, packed \ {t}}
  /\ Unchanged

advertise(t) ==
  /\ main.pc = "idle" /\ t \notin ToSet(publishers_)
  /\ Start("advertise", t) /\ UNCHANGED packed /\ Unchanged

advertiseService(s) ==
  /\ main.pc = "idle" /\ s \notin ToSet(serviceProviders_)
  /\ Start("advertiseService", s) /\ UNCHANGED packed /\ Unchanged

unadvertise(t) ==
  /\ main.pc = "idle" /\ t \in ToSet(publishers_)
  /\ Start("unadvertise", t) /\ UNCHANGED packed /\ Unchanged

unadvertiseService(s) ==
  /\ main.pc = "idle" /\ s \in ToSet(serviceProviders_)
  /\ Start("unadvertiseService", s) /\ UNCHANGED packed /\ Unchanged

Application ==
  \/ \E t \in Inputs : subscribe(t)
  \/ \E t \in Topics : advertise(t) \/ unadvertise(t)
  \/ \E s \in Services : advertiseService(s) \/ unadvertiseService(s)

-----------------------------------------------------------------------------
(***************************************************************************)
(* client_.execute of the main thread.                                     *)
(***************************************************************************)
Crash == main' = [main EXCEPT !.pc = "crashed"]

Replied(ok) == main' = [main EXCEPT !.pc = "reply", !.ok = ok]

\* The history of the entry's last call.
Note(ok) ==
  failed' = IF main.op = "getTopicTypes" THEN failed
            ELSE IF ok THEN failed \ {Current} ELSE failed \cup {Current}

execute ==
  /\ main.pc = "call" /\ client = "free"
  /\ client' = "main"
  /\ main' = [main EXCEPT !.pc = "executing"]
  /\ UNCHANGED <<registered, vectors, packed, slave, slots, slot, failed>>

\* The slave-server thread is in a call: execute returns false.
Refused ==
  /\ main.pc = "call" /\ client = "slave"
  /\ Replied(FALSE) /\ Note(FALSE)
  /\ UNCHANGED <<registered, vectors, packed, slave, client, slots, slot>>

\* The client can be used again. (Mutant: not after a call that failed.)
ReleaseMutant(ok) == client' = IF ok THEN "free" ELSE client
Release(ok) == client' = "free"

\* What the master does with the request.
Handled ==
  registered' = CASE main.op \in Registers -> registered \cup {Current}
                  [] main.op \in Unregisters -> registered \ {Current}
                  [] OTHER -> registered

\* The request is handled and answered, or handled and the answer is lost, or it
\* does not arrive.
Answered ==
  /\ main.pc = "executing"
  /\ \/ Handled /\ \E ok \in BOOLEAN : Replied(ok) /\ Note(ok) /\ Release(ok)
     \/ Replied(FALSE) /\ Note(FALSE) /\ Release(FALSE) /\ UNCHANGED registered
  /\ UNCHANGED <<vectors, packed, slave, slots, slot>>

\* The answer is a fault: the exception is caught in registerPublisher alone.
Fault ==
  /\ main.pc = "executing"
  /\ Release(TRUE)
  /\ IF main.op = "advertise" THEN Replied(FALSE) ELSE Crash
  /\ Note(FALSE)
  /\ UNCHANGED <<registered, vectors, packed, slave, slots, slot>>

-----------------------------------------------------------------------------
(***************************************************************************)
(* What the main thread does with the answer.                              *)
(***************************************************************************)

\* The loop of unadvertiseAll goes on, or the call returns.
Return == main' = IF slot = 0 THEN Idle ELSE [Idle EXCEPT !.pc = "slot"]

Push ==
  CASE main.op = "advertise" ->
         publishers_' = Append(publishers_, main.name) /\ UNCHANGED <<subscribers_, serviceProviders_>>
    [] main.op = "advertiseService" ->
         serviceProviders_' = Append(serviceProviders_, main.name) /\ UNCHANGED <<publishers_, subscribers_>>
    [] OTHER ->
         subscribers_' = Append(subscribers_, main.name) /\ UNCHANGED <<publishers_, serviceProviders_>>

\* The entry of the vector with that name is erased; no name is in it twice.
\* (Mutant: the first entry.)
WithoutMutant(vector, name) == Tail(vector)
Without(vector, name) == RemoveAt(vector, CHOOSE i \in 1..Len(vector) : vector[i] = name)

\* The answer, or the null it stands for, which is used all the same: the process
\* ends there, or goes on with what it reads as an answer.
Registered ==
  /\ main.pc = "reply" /\ main.op \in Registers
  /\ main.op = "subscribe" => main.name \in packed
  /\ \/ Push /\ Return
     \/ ~main.ok /\ Crash /\ UNCHANGED vectors
  /\ UNCHANGED <<registered, packed, slave, client, slots, slot, failed>>

\* A subscriber without a packer connects to the publishers of the answer, if it
\* has any, and asks for the type first. (What fails is asked again for the next
\* publisher of the answer: one question stands for them all.)
AskType ==
  /\ main.pc = "reply" /\ main.op = "subscribe" /\ main.name \notin packed
  /\ \/ Start("getTopicTypes", main.name) /\ UNCHANGED vectors
     \/ Push /\ Return
     \/ ~main.ok /\ Crash /\ UNCHANGED vectors
  /\ UNCHANGED <<registered, packed, slave, client, slots, slot, failed>>

TypeAsked ==
  /\ main.pc = "reply" /\ main.op = "getTopicTypes"
  /\ Push /\ Return
  /\ \/ main.ok /\ packed' = packed \cup {main.name}
     \/ UNCHANGED packed
  /\ UNCHANGED <<registered, slave, client, slots, slot, failed>>

\* The entry is erased whether the master was told or not.
Unadvertised ==
  /\ main.pc = "reply" /\ main.op = "unadvertise"
  /\ publishers_' = Without(publishers_, main.name)
  /\ Return
  /\ UNCHANGED <<registered, subscribers_, serviceProviders_, packed, slave, client, slots,
                 slot, failed>>

\* The provider's destructor joins a thread that never ends.
ServiceUnadvertised ==
  /\ main.pc = "reply" /\ main.op = "unadvertiseService"
  /\ serviceProviders_' = Without(serviceProviders_, main.name)
  /\ main' = [main EXCEPT !.pc = "hung"]
  /\ UNCHANGED <<registered, publishers_, subscribers_, packed, slave, client, slots, slot,
                 failed>>

Reply == Registered \/ AskType \/ TypeAsked \/ Unadvertised \/ ServiceUnadvertised

-----------------------------------------------------------------------------
(***************************************************************************)
(* The destructor: unsubscribeAll, which changes nothing, unadvertiseAll,  *)
(* unadvertiseServiceAll, then the slave server's.                         *)
(***************************************************************************)

\* (Mutant: the step over the erased entry is made twice.)
NextSlotMutant == slot' = IF slot + 2 > Len(slots) + 1 THEN Len(slots) + 1 ELSE slot + 2
NextSlot == slot' = slot + 1

\* For each subscriber unsubscribe, which stops at its disconnect().
unsubscribeAll == UNCHANGED <<registered, subscribers_>>

Destroy ==
  /\ main.pc = "idle"
  /\ unsubscribeAll
  /\ slots' = publishers_ /\ slot' = 1
  /\ main' = [Idle EXCEPT !.pc = "slot"]
  /\ UNCHANGED <<publishers_, serviceProviders_, packed, slave, client, failed>>

\* The loop's iterator counts the slots the vector had; each erase moves the rest
\* one slot down, so that the next one is passed over. What it reads behind the
\* vector's end is a null pointer, left by the moves, or no pointer at all.
UnadvertiseSlot ==
  /\ main.pc = "slot" /\ slot <= Len(slots)
  /\ NextSlot
  /\ IF slot <= Len(publishers_)
     THEN Start("unadvertise", publishers_[slot])
     ELSE Crash \/ UNCHANGED main
  /\ UNCHANGED <<registered, vectors, packed, slave, client, slots, failed>>

UnadvertiseServices ==
  /\ main.pc = "slot" /\ slot > Len(slots)
  /\ IF serviceProviders_ # << >>
     THEN Start("unadvertiseService", Head(serviceProviders_))
     ELSE main' = [Idle EXCEPT !.pc = "stop"]
  /\ UNCHANGED <<registered, vectors, packed, slave, client, slots, slot, failed>>

\* The slave-server thread is joined when it is out of its callback.
Stop ==
  /\ main.pc = "stop" /\ slave = NoName
  /\ main' = [main EXCEPT !.pc = "gone"]
  /\ publishers_' = << >> /\ subscribers_' = << >> /\ serviceProviders_' = << >>
  /\ UNCHANGED <<registered, packed, slave, client, slots, slot, failed>>

-----------------------------------------------------------------------------
(***************************************************************************)
(* The slave-server thread.                                                *)
(***************************************************************************)
Runs == main.pc \notin {"gone", "crashed"}

\* A publisherUpdate for a subscriber without a packer asks for the type, unless
\* the main thread is in a call, and does not connect then.
SlaveAsksType(t) ==
  /\ Runs /\ main.pc # "stop" /\ slave = NoName /\ client = "free"
  /\ t \in ToSet(subscribers_) \ packed
  /\ slave' = t /\ client' = "slave"
  /\ UNCHANGED <<registered, vectors, packed, main, slots, slot, failed>>

SlaveAnswered ==
  /\ Runs /\ slave # NoName
  /\ slave' = NoName /\ Release(TRUE)
  /\ packed' \in {packed, packed \cup {slave}}
  /\ UNCHANGED <<registered, vectors, main, slots, slot, failed>>

\* A request that looks a topic up while the main thread changes the vector, or
\* after it destroyed it, reads what is not there.
TornLookup ==
  /\ main.pc \in {"reply", "stop"} /\ slave = NoName
  /\ Crash
  /\ UNCHANGED <<registered, vectors, packed, slave, client, slots, slot, failed>>

\* getSubscriptions asks every subscriber for its type, which a subscriber without
\* a packer reads through a null pointer.
GetSubscriptions ==
  /\ Runs /\ slave = NoName /\ ToSet(subscribers_) \ packed # {}
  /\ Crash
  /\ UNCHANGED <<registered, vectors, packed, slave, client, slots, slot, failed>>

-----------------------------------------------------------------------------
MainStep ==
  \/ execute \/ Refused \/ Answered \/ Fault \/ Reply
  \/ UnadvertiseSlot \/ UnadvertiseServices \/ Stop

Next ==
  \/ Application \/ Destroy \/ MainStep
  \/ SlaveAnswered \/ TornLookup \/ GetSubscriptions \/ \E t \in Inputs : SlaveAsksType(t)

Spec == Init /\ [][Next]_vars

\* A call to the master ends, with an answer or with a closed connection.
FairSpec == Spec /\ WF_vars(MainStep) /\ WF_vars(SlaveAnswered)

-----------------------------------------------------------------------------
(***************************************************************************)
(* Properties.                                                             *)
(***************************************************************************)

\* Between two calls of the application the master has exactly the entries of
\* the node's vectors, but for those whose last call failed.
RegisteredAsHeld ==
  main.pc = "idle" => \A e \in Entry : (e \in registered <=> e \in Held) \/ e \in failed

\* The destructor takes back every second publisher, beginning with the first:
\* the others, and all the subscriptions, stay registered with a node that is
\* gone.
LeftBehind ==
  main.pc \in {"stop", "gone"} =>
    \A i \in 1..Len(slots) :
      \/ <<"pub", slots[i]>> \in registered <=> i % 2 = 0
      \/ <<"pub", slots[i]>> \in failed

\* Every call and the destructor come to an end, unless the process crashes or a
\* service has to be taken back.
MainReturns ==
  main.pc # "idle" ~> main.pc \in {"idle", "gone", "crashed", "hung"}

\* What a node that goes on has in a vector it never loses but by its own call.
OnlyOwnCalls ==
  [][\A e \in Held : e \in Held' \/ e = Current \/ main.pc = "stop"]_vars
=============================================================================
