----------------------------- MODULE LossyFifo -----------------------------
(***************************************************************************)
(* What a topic promises a subscriber: messages may be lost, whole runs of *)
(* them, but what arrives was published, arrives once and in the order of  *)
(* its publication. It knows no connections, no threads and no processes.  *)
(***************************************************************************)
EXTENDS Naturals, Sequences

VARIABLES
  published,   \* the number of messages published, each named by its number
  received     \* the messages the subscriber's callback was called with

topic == <<published, received>>

Init == published = 0 /\ received = << >>

Publish == published' = published + 1 /\ UNCHANGED received

Deliver(m) ==
  /\ m \in 1..published
  /\ \A i \in DOMAIN received : received[i] < m
  /\ received' = Append(received, m)
  /\ UNCHANGED published

Next == Publish \/ \E m \in 1..published : Deliver(m)

Spec == Init /\ [][Next]_topic
=============================================================================
