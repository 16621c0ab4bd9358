------------------------------ MODULE Booking -------------------------------
(***************************************************************************)
(* The Booking service and the saga it runs: POST /v1/bookings, cancel,    *)
(* and the consumers of PaymentSucceeded, PaymentFailed and                *)
(* ReservationReleased, between Availability and Payment.                  *)
(*                                                                         *)
(* Availability is its promise, Calendar, behind the Idempotency-Key of    *)
(* its reserve endpoint (Availability.tla shows that the service keeps     *)
(* that promise); Payment is an outcome, stated at most once per booking   *)
(* (Payment.tla).  An event is delivered as Delivery promises: its handler *)
(* takes effect once, at any later time and in any order, or it is parked  *)
(* in a dead-letter queue.                                                 *)
(*                                                                         *)
(* Every call that creates a booking mints one booking id, so a booking,   *)
(* and the reservation made for it, is named by its call.                  *)
(***************************************************************************)
EXTENDS Integers, Sequences, FiniteSets

CONSTANTS
  Calls,          \* calls of POST /v1/bookings, and the ids they mint
  Keys,           \* Idempotency-Key header values
  Windows,        \* request bodies, [resource, from, to]
  TTLOutlivesRequests, \* whether a request ends before its hold expires
  MaxFaults,      \* bound: failed transactions, lost answers, dead letters
  NoCall, NoReq, NoWish

ASSUME BookingAssumption ==
  /\ \A w \in Windows : w.from \in Int /\ w.to \in Int /\ w.from < w.to
  /\ TTLOutlivesRequests \in BOOLEAN
  /\ MaxFaults \in Nat
  /\ NoCall \notin Calls
  /\ NoReq \notin [key : Keys, body : Windows]

VARIABLES
  slot,     \* Availability: the reservations
  holds,    \* Availability: the reservation each key stands for
  book,     \* the booking table
  keys,     \* Booking: the booking each key stands for
  facts,    \* Booking's outbox, per booking
  pc, req, answer,  \* the calls of POST /v1/bookings
  lock,     \* the PaymentSucceeded consumer that holds the booking's row
  fate,     \* what became of every event so far
  charge,   \* Payment: how the payment of each booking ended
  faults

callVars == <<keys, pc, req, answer>>
vars == <<slot, holds, book, facts, callVars, lock, fate, charge, faults>>

-----------------------------------------------------------------------------
Message(event, b) == [event |-> event, booking |-> b]
Messages ==
  [event : {"BookingHeld", "BookingConfirmed", "BookingCancelled",
            "PaymentSucceeded", "PaymentFailed", "ReservationReleased"},
   booking : Calls]

Answer == [kind : {"none", "stored", "rejected", "slot_unavailable", "key_reuse",
                   "error"},
           id : Calls \cup {NoCall}]
Rejected(kind) == [kind |-> kind, id |-> NoCall]
Stored(b) == [kind |-> "stored", id |-> b]

Row == [status : {"none", "held", "confirmed", "cancelled"},
        reason : {"none", "customer_cancelled", "payment_failed", "hold_expired"}]
RowOf(status, reason) == [status |-> status, reason |-> reason]

WishOf(b, w) == [resource |-> w.resource, booking |-> b, from |-> w.from, to |-> w.to]
Wishes == {WishOf(b, w) : b \in Calls, w \in Windows}

Wish(c) == WishOf(c, req[c].body)

Cal == INSTANCE Calendar WITH
  Ids <- Calls, Wishes <- Wishes, NoWish <- NoWish, slot <- slot

Init ==
  /\ Cal!Init
  /\ holds = [k \in Keys |-> NoCall]
  /\ book = [b \in Calls |-> RowOf("none", "none")]
  /\ keys = [k \in Keys |-> NoCall]
  /\ facts = [b \in Calls |-> <<>>]
  /\ pc = [c \in Calls |-> "idle"]
  /\ req = [c \in Calls |-> NoReq]
  /\ answer = [c \in Calls |-> Rejected("none")]
  /\ lock = [b \in Calls |-> "free"]
  /\ fate = [m \in Messages |-> "none"]
  /\ charge = [b \in Calls |-> "none"]
  /\ faults = 0

Fault == faults < MaxFaults /\ faults' = faults + 1

Owed(event, b) == fate[Message(event, b)] = "owed"

\* Events staged and events handled by the transaction of one step.
Deliver(handled, staged) ==
  fate' = [m \in Messages |-> IF m \in staged THEN "owed"
                              ELSE IF m \in handled THEN "handled" ELSE fate[m]]

Goto(c, where) == pc' = [pc EXCEPT ![c] = where] /\ UNCHANGED answer

Finish(c, a) ==
  /\ pc' = [pc EXCEPT ![c] = "done"]
  /\ answer' = [answer EXCEPT ![c] = a]

-----------------------------------------------------------------------------
(* POST /v1/bookings. *)

\* The product is looked up and the request validated before anything else.
CreateBooking(c, k, w) ==
  /\ pc[c] = "idle"
  /\ req' = [req EXCEPT ![c] = [key |-> k, body |-> w]]
  /\ Finish(c, Rejected("rejected")) \/ Goto(c, "find")
  /\ UNCHANGED <<slot, holds, book, keys, facts, lock, fate, charge, faults>>

Holder(c) == keys[req[c].key]

SameFingerprint(c) == req[Holder(c)].body = req[c].body

FindIdempotent(c) ==
  /\ pc[c] = "find"
  /\ \/ Holder(c) = NoCall /\ Goto(c, "hold")
     \/ Holder(c) # NoCall /\ SameFingerprint(c) /\ Finish(c, Stored(Holder(c)))
     \/ Holder(c) # NoCall /\ ~SameFingerprint(c) /\ Finish(c, Rejected("key_reuse"))
  /\ UNCHANGED <<slot, holds, book, keys, req, facts, lock, fate, charge, faults>>

\* Availability's reserve endpoint under the key of this call.  Its body holds
\* the booking id this call minted, so no other call's body has its fingerprint.
\* The HTTP client may repeat the request, and gets the same reservation.
Hold(c) ==
  /\ pc[c] = "hold"
  /\ \/ /\ holds[req[c].key] = NoCall
        /\ Cal!Hold(c, Wish(c))
        /\ holds' = [holds EXCEPT ![req[c].key] = c]
        /\ \/ Goto(c, "insert") /\ UNCHANGED faults
           \/ Finish(c, Rejected("error")) /\ Fault
     \/ /\ holds[req[c].key] = NoCall
        /\ \E q \in Calls : Cal!Taken(q) /\ Cal!Overlap(slot[q].what, Wish(c))
        /\ Finish(c, Rejected("slot_unavailable"))
        /\ UNCHANGED <<slot, holds, faults>>
     \/ /\ holds[req[c].key] # NoCall
        /\ Finish(c, Rejected("key_reuse"))
        /\ UNCHANGED <<slot, holds, faults>>
  /\ UNCHANGED <<book, keys, req, facts, lock, fate, charge>>

\* The key, the held booking and BookingHeld, in one transaction.  Only one call
\* per key gets past Hold, so the claim of the key always finds it new: its
\* branches for a replay and for a reuse are not reached.  The answer may be
\* lost here, too.
Insert(c) ==
  /\ pc[c] = "insert"
  /\ Holder(c) = NoCall
  /\ book' = [book EXCEPT ![c] = RowOf("held", "none")]
  /\ keys' = [keys EXCEPT ![req[c].key] = c]
  /\ facts' = [facts EXCEPT ![c] = Append(@, "BookingHeld")]
  /\ Deliver({}, {Message("BookingHeld", c)})
  /\ \/ Finish(c, Stored(c)) /\ UNCHANGED faults
     \/ Finish(c, Rejected("error")) /\ Fault
  /\ UNCHANGED <<slot, holds, req, lock, charge>>

\* A database error, an unreachable Availability or a crash.
AbortCreate(c) ==
  /\ pc[c] \in {"find", "hold", "insert"}
  /\ Finish(c, Rejected("error"))
  /\ Fault
  /\ UNCHANGED <<slot, holds, book, keys, req, facts, lock, fate, charge>>

-----------------------------------------------------------------------------
(* Transitions of a booking, under its row lock. *)

\* Mutant: a duplicate cancel is not recognised.
CancelAgain(r, why) ==
  [next |-> RowOf("cancelled", why), emits |-> <<"BookingCancelled">>]

CancelT(r, why) ==
  IF r.status = "cancelled"
  THEN [next |-> r, emits |-> <<>>]
  ELSE [next |-> RowOf("cancelled", why), emits |-> <<"BookingCancelled">>]

ConfirmT(r) ==
  IF r.status = "held"
  THEN [next |-> RowOf("confirmed", "none"), emits |-> <<"BookingConfirmed">>]
  ELSE [next |-> r, emits |-> <<>>]

Apply(b, t, handled) ==
  /\ book' = [book EXCEPT ![b] = t.next]
  /\ facts' = [facts EXCEPT ![b] = @ \o t.emits]
  /\ Deliver(handled, {Message(t.emits[i], b) : i \in DOMAIN t.emits})

\* DELETE /v1/bookings by its owner, whatever its status.
Cancel(b) ==
  /\ book[b].status # "none"
  /\ lock[b] = "free"
  /\ Apply(b, CancelT(book[b], "customer_cancelled"), {})
  /\ UNCHANGED <<slot, holds, callVars, lock, charge, faults>>

\* Mutant: the event's name is recorded as the reason.
CompensateMislabelled(r) ==
  IF r.status = "held" THEN CancelT(r, "PaymentFailed")
  ELSE [next |-> r, emits |-> <<>>]

\* PaymentFailed cancels a booking that is still held.
CompensateT(r) ==
  IF r.status = "held" THEN CancelT(r, "payment_failed")
  ELSE [next |-> r, emits |-> <<>>]

PaymentFailed(b) ==
  /\ Owed("PaymentFailed", b)
  /\ lock[b] = "free"
  /\ Apply(b, CompensateT(book[b]), {Message("PaymentFailed", b)})
  /\ UNCHANGED <<slot, holds, callVars, lock, charge, faults>>

\* Mutant: the end of a hold is Availability's affair.
ExpireHoldIgnored(r) == [next |-> r, emits |-> <<>>]

\* So does a hold that expired.  A booking that does not exist is no error, and
\* the event is done.
ExpireHoldT(r) ==
  IF r.status = "held" THEN CancelT(r, "hold_expired")
  ELSE [next |-> r, emits |-> <<>>]

ReservationReleased(b) ==
  /\ Owed("ReservationReleased", b)
  /\ lock[b] = "free"
  /\ Apply(b, ExpireHoldT(book[b]), {Message("ReservationReleased", b)})
  /\ UNCHANGED <<slot, holds, callVars, lock, charge, faults>>

\* PaymentSucceeded: the booking is locked, Availability is asked to confirm
\* while it is, and the booking follows what Availability says.
PaymentSucceeded(b) ==
  /\ Owed("PaymentSucceeded", b)
  /\ lock[b] = "free"
  /\ IF book[b].status = "held"
     THEN lock' = [lock EXCEPT ![b] = "asking"] /\ UNCHANGED fate
     ELSE Deliver({Message("PaymentSucceeded", b)}, {}) /\ UNCHANGED lock
  /\ UNCHANGED <<slot, holds, book, facts, callVars, charge, faults>>

ConfirmReservation(b) ==
  /\ lock[b] = "asking"
  /\ \/ Cal!Confirm(b) /\ lock' = [lock EXCEPT ![b] = "confirmed"]
     \/ /\ slot[b].status = "confirmed"
        /\ lock' = [lock EXCEPT ![b] = "confirmed"]
        /\ UNCHANGED slot
     \/ /\ slot[b].status = "released"
        /\ lock' = [lock EXCEPT ![b] = "released"]
        /\ UNCHANGED slot
  /\ UNCHANGED <<holds, book, facts, callVars, fate, charge, faults>>

\* Mutant: a released reservation is taken for a confirmed one.
ConfirmAnyway(b) == ConfirmT(book[b])

ConfirmOnPayment(b) ==
  IF lock[b] = "confirmed" THEN ConfirmT(book[b])
  ELSE CancelT(book[b], "hold_expired")

CommitPayment(b) ==
  /\ lock[b] \in {"confirmed", "released"}
  /\ Apply(b, ConfirmOnPayment(b), {Message("PaymentSucceeded", b)})
  /\ lock' = [lock EXCEPT ![b] = "free"]
  /\ UNCHANGED <<slot, holds, callVars, charge, faults>>

\* Mutant: the event is acknowledged before the transaction has committed.
RollbackAndAck(b) ==
  /\ lock[b] # "free"
  /\ lock' = [lock EXCEPT ![b] = "free"]
  /\ Deliver({Message("PaymentSucceeded", b)}, {})
  /\ Fault
  /\ UNCHANGED <<slot, holds, book, facts, callVars, charge>>

\* The transaction is lost, and what Availability did is not: the event will be
\* delivered again.
RollbackPayment(b) ==
  /\ lock[b] # "free"
  /\ lock' = [lock EXCEPT ![b] = "free"]
  /\ Fault
  /\ UNCHANGED <<slot, holds, book, facts, callVars, fate, charge>>

-----------------------------------------------------------------------------
(* The other services, as their own modules describe them. *)

\* Payment learns of the booking, and a while later how its payment ended.
PrepareContext(b) ==
  /\ Owed("BookingHeld", b)
  /\ Deliver({Message("BookingHeld", b)}, {})
  /\ UNCHANGED <<slot, holds, book, facts, callVars, lock, charge, faults>>

Charge(b, outcome) ==
  /\ fate[Message("BookingHeld", b)] = "handled"
  /\ charge[b] = "none"
  /\ charge' = [charge EXCEPT ![b] = outcome]
  /\ Deliver({}, {Message(outcome, b)})
  /\ UNCHANGED <<slot, holds, book, facts, callVars, lock, faults>>

\* The sweeper releases a hold at its deadline.
Sweep(b) ==
  /\ slot[b].status = "held"
  /\ TTLOutlivesRequests => pc[b] # "insert"
  /\ Cal!Release(b, "hold_expired")
  /\ Deliver({}, {Message("ReservationReleased", b)})
  /\ UNCHANGED <<holds, book, facts, callVars, lock, charge, faults>>

\* Mutant: a reservation that was confirmed is not given back.
CompensateHeldOnly(b) ==
  /\ Owed("BookingCancelled", b)
  /\ IF slot[b].status = "held" THEN Cal!Release(b, "booking_cancelled")
     ELSE UNCHANGED slot
  /\ Deliver({Message("BookingCancelled", b)}, {})
  /\ UNCHANGED <<holds, book, facts, callVars, lock, charge, faults>>

\* Availability gives back the window of a cancelled booking, unless it is free
\* already.  (Booking ignores a release for any reason but hold_expired.)
Compensate(b) ==
  /\ Owed("BookingCancelled", b)
  /\ IF Cal!Taken(b) THEN Cal!Release(b, "booking_cancelled") ELSE UNCHANGED slot
  /\ Deliver({Message("BookingCancelled", b)}, {})
  /\ UNCHANGED <<holds, book, facts, callVars, lock, charge, faults>>

Park(m) ==
  /\ fate[m] = "owed"
  /\ lock[m.booking] = "free"
  /\ fate' = [fate EXCEPT ![m] = "parked"]
  /\ Fault
  /\ UNCHANGED <<slot, holds, book, facts, callVars, lock, charge>>

-----------------------------------------------------------------------------
Create(c) == FindIdempotent(c) \/ Hold(c) \/ Insert(c)

ConfirmPaid(b) == PaymentSucceeded(b) \/ ConfirmReservation(b) \/ CommitPayment(b)

Consume(b) == PaymentFailed(b) \/ ReservationReleased(b) \/ Compensate(b)

Next ==
  \/ \E c \in Calls, k \in Keys, w \in Windows : CreateBooking(c, k, w)
  \/ \E c \in Calls : Create(c) \/ AbortCreate(c)
  \/ \E b \in Calls :
       \/ Cancel(b)
       \/ ConfirmPaid(b)
       \/ RollbackPayment(b)
       \/ Consume(b)
       \/ PrepareContext(b)
       \/ Sweep(b)
  \/ \E b \in Calls, outcome \in {"PaymentSucceeded", "PaymentFailed"} :
       Charge(b, outcome)
  \/ \E m \in Messages : Park(m)

Spec == Init /\ [][Next]_vars

\* Every event is delivered, a consumer goes on with its transaction, the clock
\* passes every deadline, and a request does not hang.  No step can be repeated
\* for ever (rolled back transactions are bounded), so that fairness to all of
\* them together starves none.  A customer, who pays and cancels, owes nothing.
Progress(b) ==
  Create(b) \/ ConfirmPaid(b) \/ Consume(b) \/ PrepareContext(b) \/ Sweep(b)

Fairness == WF_vars(\E b \in Calls : Progress(b))

FairSpec == Spec /\ Fairness

-----------------------------------------------------------------------------
(* Properties. *)

TypeOK ==
  /\ slot \in [Calls -> [status : {"none", "held", "confirmed", "released"},
                         what : Wishes \cup {NoWish},
                         reason : Cal!Reasons \cup {"none"}]]
  /\ holds \in [Keys -> Calls \cup {NoCall}]
  /\ book \in [Calls -> Row]
  /\ keys \in [Keys -> Calls \cup {NoCall}]
  /\ facts \in [Calls -> Seq({"BookingHeld", "BookingConfirmed",
                              "BookingCancelled"})]
  /\ pc \in [Calls -> {"idle", "find", "hold", "insert", "done"}]
  /\ req \in [Calls -> [key : Keys, body : Windows] \cup {NoReq}]
  /\ answer \in [Calls -> Answer]
  /\ lock \in [Calls -> {"free", "asking", "confirmed", "released"}]
  /\ fate \in [Messages -> {"none", "owed", "handled", "parked"}]
  /\ charge \in [Calls -> {"none", "PaymentSucceeded", "PaymentFailed"}]
  /\ faults \in 0 .. MaxFaults

Confirmed(b) == book[b].status = "confirmed"

\* A confirmed booking was paid for and has its watercraft: its reservation is
\* confirmed, in another database, under every order of the events, and no
\* other confirmed booking has any of its time.
ConfirmedIsBacked ==
  \A b \in Calls : Confirmed(b) =>
    /\ charge[b] = "PaymentSucceeded"
    /\ slot[b].status = "confirmed"
    /\ \A q \in Calls \ {b} :
         Confirmed(q) => ~Cal!Overlap(slot[b].what, slot[q].what)

\* A booking's facts tell its life: held, then confirmed at most once, then
\* cancelled at most once, each stated in the transaction that made it true.
FactsMatchBooking ==
  \A b \in Calls :
    CASE book[b].status = "none" -> facts[b] = <<>>
      [] book[b].status = "held" -> facts[b] = <<"BookingHeld">>
      [] Confirmed(b) -> facts[b] = <<"BookingHeld", "BookingConfirmed">>
      [] OTHER -> facts[b] \in {<<"BookingHeld", "BookingCancelled">>,
                                <<"BookingHeld", "BookingConfirmed",
                                  "BookingCancelled">>}

\* No reservation is confirmed for nothing: its booking is confirmed, or will
\* be once its PaymentSucceeded is through, or was cancelled and the news is on
\* its way to Availability (the consumer confirms there before it commits here).
NoStrandedReservation ==
  \A b \in Calls : slot[b].status = "confirmed" =>
    \/ Confirmed(b)
    \/ book[b].status = "held"
       /\ fate[Message("PaymentSucceeded", b)] \in {"owed", "parked"}
    \/ book[b].status = "cancelled"
       /\ fate[Message("BookingCancelled", b)] \in {"owed", "parked"}

\* A key is called reused only when it came with a different body before.
OnlyReuseIsRefused ==
  [][\A c \in Calls :
       answer[c].kind = "none" /\ answer'[c].kind = "key_reuse" =>
         \E d \in Calls \ {c} : req[d] # NoReq /\ req[d].key = req[c].key
                                /\ req[d].body # req[c].body]_vars

\* A hold is over: the booking is confirmed or cancelled, and the window of a
\* cancelled booking, or of one that never came to be, is given back.
HoldIsOver(b) ==
  /\ book[b].status # "held"
  /\ Cal!Taken(b) => ~(book[b].status = "cancelled" \/ answer[b].kind = "error")
                     \/ Confirmed(b)

\* Unless an event was parked, every hold is over in the end, although its
\* request, its payment or its event fails.
SagaSettles ==
  <>[](\/ \A b \in Calls : HoldIsOver(b)
       \/ \E m \in Messages : fate[m] = "parked")

=============================================================================
