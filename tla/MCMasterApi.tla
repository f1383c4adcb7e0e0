----------------------------- MODULE MCMasterApi -----------------------------
(***************************************************************************)
(* A few nodes, one of which was restarted under another URI, and a bound  *)
(* on what they register and unregister.                                   *)
(***************************************************************************)
EXTENDS MasterApi, FiniteSets

CONSTANTS UriOf, MaxCalls

VARIABLE calls

MCvars == <<apiVars, calls>>

MCInit == ApiInit /\ calls = 0

Count == calls < MaxCalls /\ calls' = calls + 1

MCNext ==
  \/ /\ Count
     /\ \E n \in Nodes, t \in Topics : \E u \in UriOf[n] : TopicCall(n, t, u)
  \/ /\ Count
     /\ \E n \in Nodes, s \in Services : \E u \in UriOf[n] : ServiceCall(n, s, u)
  \/ /\ \/ \E n \in Nodes : lookupNode(n)
        \/ \E s \in Services : lookupService(s)
     /\ UNCHANGED calls

MCSpec == MCInit /\ [][MCNext]_MCvars

MCUriOf == [n \in Nodes |-> IF n = "p" THEN {"up", "up2"} ELSE {"uq"}]
=============================================================================
