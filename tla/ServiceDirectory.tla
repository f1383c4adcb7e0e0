-------------------------- MODULE ServiceDirectory --------------------------
(***************************************************************************)
(* What the master promises about services: a directory that holds, for    *)
(* each service and node, the URI the node registered last, and a look-up  *)
(* that answers one of the service's URIs exactly when there is one. It    *)
(* knows no lists, no order and no entries that could be left empty.       *)
(***************************************************************************)
CONSTANTS Services, Nodes, ServiceUris

VARIABLES
  providers,   \* who provides what, and where
  found        \* the answer to the last look-up

directory == <<providers, found>>

Provider == [service : Services, node : Nodes, uri : ServiceUris]

Init == providers = {} /\ found = [service |-> {}, uris |-> {}]

Others(s, n) == {p \in providers : p.service # s \/ p.node # n}

Register(s, n, v) ==
  /\ providers' = Others(s, n) \cup {[service |-> s, node |-> n, uri |-> v]}
  /\ UNCHANGED found

Unregister(s, n) ==
  /\ providers' = Others(s, n)
  /\ UNCHANGED found

Lookup(s) ==
  /\ \/ \E p \in providers :
          p.service = s /\ found' = [service |-> {s}, uris |-> {p.uri}]
     \/ /\ \A p \in providers : p.service # s
        /\ found' = [service |-> {s}, uris |-> {}]
  /\ UNCHANGED providers

Next ==
  \E s \in Services :
    \/ \E n \in Nodes : Unregister(s, n) \/ \E v \in ServiceUris : Register(s, n, v)
    \/ Lookup(s)

Spec == Init /\ [][Next]_directory
=============================================================================
