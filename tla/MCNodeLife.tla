----------------------------- MODULE MCNodeLife -----------------------------
(***************************************************************************)
(* A node with a few topics, and a bound on the calls of its application.  *)
(***************************************************************************)
EXTENDS NodeLife

CONSTANT MaxCalls

VARIABLE calls

MCvars == <<vars, calls>>

MCInit == Init /\ calls = 0

MCNext ==
  \/ /\ calls < MaxCalls
     /\ calls' = calls + 1
     /\ Application
  \/ /\ Destroy \/ MainStep \/ SlaveAnswered \/ TornLookup \/ GetSubscriptions
        \/ \E t \in Inputs : SlaveAsksType(t)
     /\ UNCHANGED calls

MCSpec ==
  /\ MCInit /\ [][MCNext]_MCvars
  /\ WF_MCvars(MainStep /\ UNCHANGED calls)
  /\ WF_MCvars(SlaveAnswered /\ UNCHANGED calls)
=============================================================================
