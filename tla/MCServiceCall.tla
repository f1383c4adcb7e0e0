---------------------------- MODULE MCServiceCall ----------------------------
(***************************************************************************)
(* A bound on the calls of all consumers together.                         *)
(***************************************************************************)
EXTENDS ServiceCall, Functions

CONSTANT MaxCalls

MCConsumer(c) ==
  \/ FoldFunction(+, 0, calls) < MaxCalls /\ (call(c) \/ CallRefused(c))
  \/ tcpros_connect(c) \/ ConnectFails(c) \/ SendHello(c) \/ HelloThrows(c)
  \/ Reads(c) \/ Close(c)

MCNext == Provider \/ \E c \in Consumers : MCConsumer(c)

MCFairSpec ==
  /\ Init /\ [][MCNext]_vars
  /\ WF_vars(Provider) /\ \A c \in Consumers : WF_vars(Reads(c))
=============================================================================
