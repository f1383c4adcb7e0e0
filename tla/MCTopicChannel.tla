--------------------------- MODULE MCTopicChannel ---------------------------
(***************************************************************************)
(* A publisher and a subscriber with a few connections and messages.       *)
(***************************************************************************)
EXTENDS TopicChannel
=============================================================================
