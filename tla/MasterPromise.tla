---------------------------- MODULE MasterPromise ----------------------------
(***************************************************************************)
(* What the master promises to the subscribers of a topic: each has been   *)
(* told who publishes it, or will be, unless it is written down that the   *)
(* telling was lost. It knows no vector, no queue and no thread: a request *)
(* changes one registration, and what it makes of the debts is all in one  *)
(* step. Debts are paid one by one, and a list that is told may be old as  *)
(* long as the subscriber is owed another.                                 *)
(***************************************************************************)
CONSTANTS Nodes, Topics, Uris

VARIABLES
  registered,  \* who publishes and subscribes what: <<topic, role, [nodeName, nodeUri]>>
  told,        \* told[t][u]: the URIs the slave at u was told last
  due,         \* <<topic, uri>> of those who will be told
  lost         \* <<topic, uri>> of those whose last telling may be lost

promise == <<registered, told, due, lost>>

Of(t, role) == {r[3].nodeUri : r \in {f \in registered : f[1] = t /\ f[2] = role}}
PublishersOf(t) == Of(t, "pub")
SubscribersOf(t) == Of(t, "sub")

Init ==
  /\ registered = {}
  /\ told = [t \in Topics |-> [u \in Uris |-> {}]]
  /\ due = {}
  /\ lost = {}

-----------------------------------------------------------------------------
\* The registrations but that of one node for one topic in one role.
Others(t, role, n) ==
  {r \in registered : r[1] # t \/ r[2] # role \/ r[3].nodeName # n}

Enter(t, role, n, u) ==
  registered' = Others(t, role, n) \cup {<<t, role, [nodeName |-> n, nodeUri |-> u]>>}

Leave(t, role, n) ==
  /\ registered # Others(t, role, n)
  /\ registered' = Others(t, role, n)

\* Whoever was owed something still is, but for those it was lost for and those
\* who no longer subscribe.
Owed(debts) ==
  \A x \in debts \ due' : x \in lost' \/ x[2] \notin SubscribersOf(x[1])'

\* With a request, what is under way for one topic may get lost.
Torn == \E x \in Topics : lost' \subseteq lost \cup ({x} \X Uris)

\* A list of publishers that changed is owed to all subscribers.
ChangePublishers(t, n) ==
  /\ Leave(t, "pub", n) \/ \E u \in Uris : Enter(t, "pub", n, u)
  /\ Owed(due \cup ({t} \X SubscribersOf(t)))
  /\ due' \subseteq due \cup ({t} \X SubscribersOf(t))
  /\ lost \subseteq lost' /\ Torn
  /\ UNCHANGED told

\* A subscriber is told by the answer.
Subscribe(t, n, u) ==
  /\ Enter(t, "sub", n, u)
  /\ told' = [told EXCEPT ![t][u] = PublishersOf(t)]
  /\ Owed(due)
  /\ due' \subseteq due \cup {<<t, u>>}
  /\ lost \ {<<t, u>>} \subseteq lost' /\ Torn
  /\ <<t, u>> \notin lost'

Unsubscribe(t, n) ==
  /\ Leave(t, "sub", n)
  /\ Owed(due)
  /\ due' \subseteq due
  /\ lost \subseteq lost' /\ Torn
  /\ UNCHANGED told

\* A call that succeeds. One that tells an old list pays nothing.
Tell(t, u) ==
  /\ \E list \in SUBSET Uris :
       /\ told' = [told EXCEPT ![t][u] = list]
       /\ Owed(IF list = PublishersOf(t) THEN due \ {<<t, u>>} ELSE due \cup {<<t, u>>})
  /\ due' \subseteq due
  /\ lost \ {<<t, u>>} \subseteq lost' /\ lost' \subseteq lost \cup {<<t, u>>}
  /\ UNCHANGED registered

\* A call that fails.
Lose(t, u) ==
  /\ Owed(due)
  /\ due' \subseteq due
  /\ lost' = lost \cup {<<t, u>>}
  /\ UNCHANGED <<registered, told>>

Next ==
  \E t \in Topics :
    \/ \E n \in Nodes :
         \/ ChangePublishers(t, n)
         \/ Unsubscribe(t, n)
         \/ \E u \in Uris : Subscribe(t, n, u)
    \/ \E u \in Uris : Tell(t, u) \/ Lose(t, u)

Spec == Init /\ [][Next]_promise

-----------------------------------------------------------------------------
\* What the promise is worth: a subscriber was told who publishes, or is owed it,
\* or is known to have lost it.
ToldOrOwed ==
  \A t \in Topics : \A u \in SubscribersOf(t) :
    told[t][u] = PublishersOf(t) \/ <<t, u>> \in due \cup lost

TypeOK ==
  /\ registered \subseteq Topics \X {"pub", "sub"} \X [nodeName : Nodes, nodeUri : Uris]
  /\ told \in [Topics -> [Uris -> SUBSET Uris]]
=============================================================================
