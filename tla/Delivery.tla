------------------------------ MODULE Delivery ------------------------------
(***************************************************************************)
(* What the outbox, the broker and the inbox promise together about the    *)
(* delivery of an event to one consumer: a fact staged with the state      *)
(* change it describes is owed to the consumer until the consumer's        *)
(* handler takes effect, once, or until it is parked for a human to look   *)
(* at.  It is never forgotten, and nothing that was not staged is handled. *)
(***************************************************************************)
CONSTANT Events
VARIABLE fate

Init == fate = [e \in Events |-> "none"]

Stage(e) == fate[e] = "none" /\ fate' = [fate EXCEPT ![e] = "owed"]

Handle(e) == fate[e] = "owed" /\ fate' = [fate EXCEPT ![e] = "handled"]

\* Rows the relay gave up, and copies in the dead-letter queue: the commit of a
\* batch may be the last word on several of them.
Park(S) ==
  /\ S # {}
  /\ \A e \in S : fate[e] = "owed"
  /\ fate' = [e \in Events |-> IF e \in S THEN "parked" ELSE fate[e]]

Next ==
  \/ \E e \in Events : Stage(e) \/ Handle(e)
  \/ \E S \in SUBSET Events : Park(S)

Spec == Init /\ [][Next]_fate

=============================================================================
