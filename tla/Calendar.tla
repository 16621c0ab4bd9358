------------------------------ MODULE Calendar ------------------------------
(***************************************************************************)
(* What Availability promises to its callers, without keys, transactions,  *)
(* locks, clocks or sweepers: every reservation is held once, for a window *)
(* nobody else has, is confirmed at most once, and is released for good.   *)
(***************************************************************************)
EXTENDS Integers

CONSTANTS
  Ids,        \* reservation ids
  Wishes,     \* what can be asked for, [resource, booking, from, to]
  NoWish      \* what a reservation that does not exist was asked for

VARIABLE slot  \* the reservations, [status, what, reason]

Reasons == {"payment_failed", "booking_cancelled", "hold_expired"}

Free == [status |-> "none", what |-> NoWish, reason |-> "none"]

Overlap(a, b) ==
  /\ a.resource = b.resource
  /\ a.from < b.to
  /\ b.from < a.to

Taken(r) == slot[r].status \in {"held", "confirmed"}

Init == slot = [r \in Ids |-> Free]

Hold(r, w) ==
  /\ slot[r].status = "none"
  /\ \A q \in Ids : Taken(q) => ~Overlap(slot[q].what, w)
  /\ slot' = [slot EXCEPT ![r] =
                [status |-> "held", what |-> w, reason |-> "none"]]

Confirm(r) ==
  /\ slot[r].status = "held"
  /\ slot' = [slot EXCEPT ![r].status = "confirmed"]

Release(r, why) ==
  /\ Taken(r)
  /\ slot' = [slot EXCEPT ![r].status = "released", ![r].reason = why]

Next ==
  \E r \in Ids :
    \/ \E w \in Wishes : Hold(r, w)
    \/ Confirm(r)
    \/ \E why \in Reasons : Release(r, why)

Spec == Init /\ [][Next]_slot

=============================================================================
