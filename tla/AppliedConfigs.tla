--------------------------- MODULE AppliedConfigs ---------------------------
(***************************************************************************)
(* What Viola promises to the operator, and what the variable cluster of   *)
(* NodeSync stands for: the node configs of a provider and node name are   *)
(* what some document sent for that provider and name said, documents are  *)
(* applied one at a time and in any order, and nothing else touches them.  *)
(***************************************************************************)
CONSTANTS
    Keys,       \* provider and node name
    NoConfig    \* nothing was applied for this key yet

VARIABLES
    sent,       \* documents of all requests, with their keys
    applied     \* the config of each key

SentInit == sent = {} /\ applied = [k \in Keys |-> NoConfig]

\* Requests arrive.
Send == sent \subseteq sent' /\ UNCHANGED applied

\* One document takes effect, at once or long after it was sent.
Apply == /\ \E d \in sent : applied' = [applied EXCEPT ![d[1]] = d[2]]
         /\ UNCHANGED sent

AppliedSpec == SentInit /\ [][Send \/ Apply]_<<sent, applied>>
=============================================================================
