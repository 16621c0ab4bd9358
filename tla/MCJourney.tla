----------------------------- MODULE MCJourney ------------------------------
(* A small instance of Journey. *)
EXTENDS Journey

CONSTANTS bob, ip

\* Two of the rows carry the same created_at.
MCCreatedAt == [r \in Rows |-> IF r < 3 THEN 1 ELSE 2]

\* A request of every other caller, and of every kind that is turned away.
MCOtherRequests ==
  {[route |-> "reservations", from |-> ip, token |-> bob],
   [route |-> "stripe", from |-> ip, token |-> "absent"],
   [route |-> "unknown", from |-> ip, token |-> bob],
   [route |-> "payments", from |-> ip, token |-> "malformed"],
   [route |-> "resources", from |-> ip, token |-> "invalid"]}

=============================================================================
