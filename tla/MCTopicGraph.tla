---------------------------- MODULE MCTopicGraph ----------------------------
(***************************************************************************)
(* A few nodes, some of them publishers, some subscribers, and a bound on  *)
(* what their applications do and on how many crash.                       *)
(***************************************************************************)
EXTENDS TopicGraph, FiniteSets

CONSTANTS Publishers, Subscribers, MaxCalls, MaxCrashes

VARIABLE calls

MCvars == <<vars, calls>>

Crashed == Nodes \ alive

MCApplication ==
  /\ calls < MaxCalls
  /\ calls' = calls + 1
  /\ \/ \E n \in Publishers : advertise(n) \/ unadvertise(n)
     \/ \E n \in Subscribers : subscribe(n)

MCCrash ==
  /\ Cardinality(Crashed) < MaxCrashes
  /\ \E n \in Nodes : Crash(n)
  /\ UNCHANGED calls

MCInit == Init /\ calls = 0

MCNext ==
  \/ MCApplication \/ MCCrash
  \/ /\ spinOnce \/ \E n \in Nodes, k \in Threads : ThreadStep(n, k)
     /\ UNCHANGED calls

MCSpec == MCInit /\ [][MCNext]_MCvars

MCFairSpec ==
  /\ MCSpec
  /\ WF_MCvars(spinOnce /\ UNCHANGED calls)
  /\ \A n \in Nodes, k \in Threads : WF_MCvars(ThreadStep(n, k) /\ UNCHANGED calls)

\* The behaviours without crashes, in which every call is answered in time and
\* every connection to an open port succeeds.
CalmStep(n, k) ==
  \/ connect(n, k) \/ requestTopic(n, k)
  \/ Open(n, k) /\ workers' # workers
  \/ k = "main" /\ (Advertised(n) \/ Unadvertised(n) \/ Subscribed(n))
  \/ k = "slave" /\ (publisherUpdate(n) \/ Updated(n))

MCCalmNext ==
  \/ MCApplication
  \/ /\ PopTask \/ EndTask \/ \E n \in Nodes : Call(n) \/ \E k \in Threads : CalmStep(n, k)
     /\ UNCHANGED calls

MCCalmSpec == MCInit /\ [][MCCalmNext]_MCvars
=============================================================================
