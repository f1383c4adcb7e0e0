--------------------------- MODULE MCMasterServer ---------------------------
(***************************************************************************)
(* A small master: which node publishes or subscribes with which URI, and  *)
(* how many requests are made before the clients fall silent.              *)
(***************************************************************************)
EXTENDS MasterServer, FiniteSets

CONSTANTS Publishers, Subscribers, UriOf, MaxRequests, MaxLate

VARIABLE requests

MCvars == <<vars, requests>>

PublisherRequest ==
  \E n \in Publishers, t \in Topics :
    \/ \E type \in Types \ {AnyType}, u \in UriOf[n] :
         Handler /\ RegisterPublisher(n, t, type, u)
    \/ Handler /\ UnregisterPublisher(n, t)

SubscriberRequest ==
  \E n \in Subscribers, t \in Topics :
    \/ \E type \in Types, u \in UriOf[n] :
         Handler /\ RegisterSubscriber(n, t, type, u)
    \/ Handler /\ UnregisterSubscriber(n, t)

MCInit == Init /\ requests = 0

MCNext ==
  \/ /\ requests < MaxRequests
     /\ requests' = requests + 1
     /\ PublisherRequest \/ SubscriberRequest
  \/ /\ spinOnce \/ \E m \in late : LateCall(m)
     /\ Cardinality(late') <= MaxLate
     /\ UNCHANGED requests

MCSpec == MCInit /\ [][MCNext]_MCvars

\* The behaviours in which the walk never reads through a dangling iterator.
DefinedRead == ~(pc = "walk" /\ dirty /\ slot <= Len(seen))

MCDefinedSpec == MCInit /\ [][DefinedRead /\ MCNext]_MCvars

MCFairSpec == MCSpec /\ WF_MCvars(spinOnce /\ UNCHANGED requests)

MCUriOf == [n \in Nodes |-> CASE n = "p" -> {"up", "up2"}
                              [] n = "s" -> {"us"} [] n = "r" -> {"ur"}]
=============================================================================
