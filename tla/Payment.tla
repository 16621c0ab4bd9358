------------------------------ MODULE Payment -------------------------------
(***************************************************************************)
(* The Payment service: POST /v1/payments, the BookingHeld projection it   *)
(* reads the price from, Stripe as the code uses it, and the webhook that  *)
(* alone decides how a payment ended.                                      *)
(*                                                                         *)
(* A call is the sequence of reads, the request to Stripe and the          *)
(* transaction of createPayment, each a step of its own: nothing holds a   *)
(* lock between them.  A payment is named by the call that inserts it, so  *)
(* its booking and its idempotency key are that call's.  Stripe makes one  *)
(* intent per idempotency key, so an intent is named by its key.           *)
(***************************************************************************)
EXTENDS Integers, Sequences, FiniteSets

CONSTANTS
  Calls,      \* calls of POST /v1/payments, and the ids they mint
  Keys,       \* Idempotency-Key header values, and Stripe's intents
  Bookings,   \* booking ids
  Hooks,      \* transactions of the webhook handler
  MaxFaults,  \* bound: database errors, lost answers and provider errors
  NoCall,     \* no payment id
  NoBooking,  \* an intent that does not exist
  NoReq       \* a call that was not made yet

ASSUME PaymentAssumption ==
  /\ MaxFaults \in Nat
  /\ NoCall \notin Calls
  /\ NoBooking \notin Bookings
  /\ NoReq \notin [key : Keys, booking : Bookings]

VARIABLES
  context,   \* booking_context: held bookings Payment was told of
  expired,   \* bookings whose hold_expires_at has passed
  payment,   \* the payment table: the status of each payment
  keys,      \* idempotency_key: the payment each key maps to
  facts,     \* the outbox, per payment
  pc,        \* where each call stands
  req,       \* what each call asked for
  answer,    \* what each call was answered
  intent,    \* Stripe: the booking of each intent
  outcome,   \* Stripe: the event types it has for each intent
  acked,     \* Stripe: events it was answered 2xx for
  seen,      \* stripe_event: events recorded as processed
  hook,      \* the webhook transactions that hold a payment's row lock
  faults

callVars == <<context, expired, keys, pc, req, answer>>
stripeVars == <<intent, outcome, acked>>
vars == <<callVars, payment, facts, stripeVars, seen, hook, faults>>

-----------------------------------------------------------------------------
Statuses == {"none", "pending", "succeeded", "failed"}
EventTypes == {"payment_intent.succeeded", "payment_intent.payment_failed",
               "payment_intent.processing"}
Event == [intent : Keys, type : EventTypes]

Answer == [kind : {"none", "stored", "booking_not_found", "booking_not_payable",
                   "key_reuse", "payment_already_exists", "error"},
           id : Calls \cup {NoCall}]
Rejected(kind) == [kind |-> kind, id |-> NoCall]
Stored(r) == [kind |-> "stored", id |-> r]

Idle == [pc |-> "idle", id |-> NoCall]

Init ==
  /\ context = {}
  /\ expired = {}
  /\ payment = [r \in Calls |-> "none"]
  /\ keys = [k \in Keys |-> NoCall]
  /\ facts = [r \in Calls |-> <<>>]
  /\ pc = [c \in Calls |-> "idle"]
  /\ req = [c \in Calls |-> NoReq]
  /\ answer = [c \in Calls |-> Rejected("none")]
  /\ intent = [k \in Keys |-> NoBooking]
  /\ outcome = [k \in Keys |-> {}]
  /\ acked = {}
  /\ seen = {}
  /\ hook = [h \in Hooks |-> Idle]
  /\ faults = 0

Fault == faults < MaxFaults /\ faults' = faults + 1

Exists(r) == payment[r] # "none"

\* BookingHeld was consumed; a second copy changes nothing.
BookingHeld(b) ==
  /\ b \notin context
  /\ context' = context \cup {b}
  /\ UNCHANGED <<expired, keys, pc, req, answer, payment, facts, stripeVars,
                 seen, hook, faults>>

\* The clock passes the hold's deadline.
Expire(b) ==
  /\ b \in context \ expired
  /\ expired' = expired \cup {b}
  /\ UNCHANGED <<context, keys, pc, req, answer, payment, facts, stripeVars,
                 seen, hook, faults>>

-----------------------------------------------------------------------------
(* POST /v1/payments. *)

Goto(c, where) == pc' = [pc EXCEPT ![c] = where] /\ UNCHANGED answer

Finish(c, a) ==
  /\ pc' = [pc EXCEPT ![c] = "done"]
  /\ answer' = [answer EXCEPT ![c] = a]

\* The booking's context and its expiry come first, before the key is looked at.
CreatePayment(c, k, b) ==
  /\ pc[c] = "idle"
  /\ req' = [req EXCEPT ![c] = [key |-> k, booking |-> b]]
  /\ \/ b \notin context /\ Finish(c, Rejected("booking_not_found"))
     \/ b \in expired /\ Finish(c, Rejected("booking_not_payable"))
     \/ b \in context \ expired /\ Goto(c, "find")
  /\ UNCHANGED <<context, expired, keys, payment, facts, stripeVars, seen, hook,
                 faults>>

Holder(c) == keys[req[c].key]

\* The body is the booking id, and the fingerprint its hash.
SameFingerprint(c) == req[Holder(c)].booking = req[c].booking

FindIdempotent(c) ==
  /\ pc[c] = "find"
  /\ \/ Holder(c) = NoCall /\ Goto(c, "check")
     \/ Holder(c) # NoCall /\ SameFingerprint(c) /\ Goto(c, "recover")
     \/ Holder(c) # NoCall /\ ~SameFingerprint(c) /\ Finish(c, Rejected("key_reuse"))
  /\ UNCHANGED <<context, expired, keys, req, payment, facts, stripeVars, seen,
                 hook, faults>>

\* PaymentByBooking: what is committed now, without a lock.
CheckBooking(c) ==
  /\ pc[c] = "check"
  /\ IF \E r \in Calls : Exists(r) /\ req[r].booking = req[c].booking
     THEN Finish(c, Rejected("payment_already_exists"))
     ELSE Goto(c, "intend")
  /\ UNCHANGED <<context, expired, keys, req, payment, facts, stripeVars, seen,
                 hook, faults>>

\* Stripe makes an intent for a new key, returns the intent of a known key, and
\* refuses a known key with other parameters.
Intended(c) == intent' = [intent EXCEPT ![req[c].key] = req[c].booking]
Accepts(c) == intent[req[c].key] \in {NoBooking, req[c].booking}

\* createIntent, for a new payment ("intend") or to recover the client secret
\* of an existing one ("recover").  An answer that is lost is a provider error
\* although Stripe may have made the intent.
CreateIntent(c) ==
  /\ pc[c] \in {"intend", "recover"}
  /\ \/ /\ Accepts(c)
        /\ Intended(c)
        /\ IF pc[c] = "intend"
           THEN Goto(c, "claim")
           ELSE Finish(c, Stored(Holder(c)))
        /\ UNCHANGED faults
     \/ /\ ~Accepts(c)
        /\ Finish(c, Rejected("error"))
        /\ UNCHANGED <<intent, faults>>
     \/ /\ Accepts(c)
        /\ Finish(c, Rejected("error"))
        /\ Intended(c) \/ UNCHANGED intent
        /\ Fault
  /\ UNCHANGED <<context, expired, keys, req, payment, facts, outcome, acked,
                 seen, hook>>

\* InsertPayment, one transaction: the claim of the key waits for another that
\* is not committed, ...
KeyBusy(c) ==
  \E d \in Calls \ {c} : /\ pc[d] \in {"claimed", "inserted"}
                         /\ req[d].key = req[c].key

ClaimKey(c) ==
  /\ pc[c] = "claim"
  /\ ~KeyBusy(c)
  /\ \/ Holder(c) = NoCall /\ Goto(c, "claimed")
     \/ Holder(c) # NoCall /\ SameFingerprint(c) /\ Finish(c, Stored(Holder(c)))
     \/ Holder(c) # NoCall /\ ~SameFingerprint(c) /\ Finish(c, Rejected("key_reuse"))
  /\ UNCHANGED <<context, expired, keys, req, payment, facts, stripeVars, seen,
                 hook, faults>>

\* ... and so does the insert for an uncommitted payment of the same booking.
BookingBusy(c) ==
  \E d \in Calls \ {c} : pc[d] = "inserted" /\ req[d].booking = req[c].booking

\* Mutant: the table without payment_booking_id_unique.
NotUnique(c) == FALSE

\* payment_booking_id_unique.
UniqueViolation(c) ==
  \E r \in Calls : Exists(r) /\ req[r].booking = req[c].booking

\* Mutant: the booking's payment is returned instead of a conflict.
ReturnExisting(c) ==
  /\ pc[c] = "claimed"
  /\ ~BookingBusy(c)
  /\ IF UniqueViolation(c)
     THEN \E r \in Calls : /\ Exists(r) /\ req[r].booking = req[c].booking
                          /\ Finish(c, Stored(r))
     ELSE Goto(c, "inserted")
  /\ UNCHANGED <<context, expired, keys, req, payment, facts, stripeVars, seen,
                 hook, faults>>

InsertPayment(c) ==
  /\ pc[c] = "claimed"
  /\ ~BookingBusy(c)
  /\ IF UniqueViolation(c)
     THEN Finish(c, Rejected("payment_already_exists"))
     ELSE Goto(c, "inserted")
  /\ UNCHANGED <<context, expired, keys, req, payment, facts, stripeVars, seen,
                 hook, faults>>

\* The caller gets the client secret, unless the answer is lost.
CommitPayment(c) ==
  /\ pc[c] = "inserted"
  /\ payment' = [payment EXCEPT ![c] = "pending"]
  /\ keys' = [keys EXCEPT ![req[c].key] = c]
  /\ \/ Finish(c, Stored(c)) /\ UNCHANGED faults
     \/ Finish(c, Rejected("error")) /\ Fault
  /\ UNCHANGED <<context, expired, req, facts, stripeVars, seen, hook>>

\* A database error or a crash; the transaction, if there is one, is undone.
AbortPayment(c) ==
  /\ pc[c] \notin {"idle", "done"}
  /\ Finish(c, Rejected("error"))
  /\ Fault
  /\ UNCHANGED <<context, expired, keys, req, payment, facts, stripeVars, seen,
                 hook>>

-----------------------------------------------------------------------------
(* Stripe, external: what a customer who holds a client secret can cause. *)

SecretKnown(k) ==
  \E c \in Calls : answer[c].kind = "stored" /\ req[c].key = k

Charged(k) == "payment_intent.succeeded" \in outcome[k]

\* An intent can be declined and tried again; once charged it is final.
StripeOutcome(k, type) ==
  /\ SecretKnown(k)
  /\ ~Charged(k)
  /\ type \notin outcome[k]
  /\ outcome' = [outcome EXCEPT ![k] = @ \cup {type}]
  /\ UNCHANGED <<callVars, payment, facts, intent, acked, seen, hook, faults>>

-----------------------------------------------------------------------------
(* The webhook.  Stripe delivers an event in no particular order, again when *)
(* it was not answered 2xx, and sometimes again all the same.                *)

\* Mutant: every event about an intent is taken for an outcome.
AnyEventIsOutcome(e) == TRUE

IsPaymentOutcome(e) ==
  e.type \in {"payment_intent.succeeded", "payment_intent.payment_failed"}

Of(e) == {r \in Calls : Exists(r) /\ req[r].key = e.intent}

\* Mutant: the read before the write takes no lock.
NeverLocked(r) == TRUE

\* SELECT ... FOR UPDATE.
Unlocked(r) == \A h \in Hooks : hook[h].id # r

Ack(e) == acked' = acked \cup {e}

\* An event that is no outcome, or one of an unknown intent, is acknowledged
\* and otherwise ignored.
IgnoreEvent(e) ==
  /\ e.type \in outcome[e.intent]
  /\ ~IsPaymentOutcome(e) \/ Of(e) = {}
  /\ Ack(e)
  /\ UNCHANGED <<callVars, payment, facts, intent, outcome, seen, hook, faults>>

LockPayment(h, e) ==
  /\ hook[h].pc = "idle"
  /\ e.type \in outcome[e.intent]
  /\ IsPaymentOutcome(e)
  /\ \E r \in Of(e) :
       /\ Unlocked(r)
       /\ hook' = [hook EXCEPT
            ![h] = [pc |-> "locked", event |-> e, id |-> r, read |-> payment[r]]]
  /\ UNCHANGED <<callVars, payment, facts, stripeVars, seen, faults>>

Keep(status) == [next |-> status, emits |-> <<>>]

MarkSucceeded(status) ==
  IF status = "pending"
  THEN [next |-> "succeeded", emits |-> <<"PaymentSucceeded">>]
  ELSE Keep(status)

\* Mutant: a status the schema does not have.
MarkDeclined(status) ==
  IF status = "pending"
  THEN [next |-> "declined", emits |-> <<"PaymentFailed">>]
  ELSE Keep(status)

MarkFailed(status) ==
  IF status = "pending"
  THEN [next |-> "failed", emits |-> <<"PaymentFailed">>]
  ELSE Keep(status)

OutcomeTransition(h) ==
  CASE hook[h].event \in seen -> Keep(hook[h].read)
    [] hook[h].event \notin seen
       /\ hook[h].event.type = "payment_intent.succeeded" -> MarkSucceeded(hook[h].read)
    [] OTHER -> MarkFailed(hook[h].read)

\* A transition that changes nothing writes nothing but the event's id.
CommitOutcome(h) ==
  /\ hook[h].pc = "locked"
  /\ LET t == OutcomeTransition(h)
         r == hook[h].id
     IN /\ payment' = IF t.emits = <<>> THEN payment
                      ELSE [payment EXCEPT ![r] = t.next]
        /\ facts' = [facts EXCEPT ![r] = @ \o t.emits]
  /\ seen' = seen \cup {hook[h].event}
  /\ Ack(hook[h].event)
  /\ hook' = [hook EXCEPT ![h] = Idle]
  /\ UNCHANGED <<callVars, intent, outcome, faults>>

\* Mutant: the failure is logged, and answered with 200.
RollbackAndAck(h) ==
  /\ hook[h].pc = "locked"
  /\ hook' = [hook EXCEPT ![h] = Idle]
  /\ Ack(hook[h].event)
  /\ Fault
  /\ UNCHANGED <<callVars, payment, facts, intent, outcome, seen>>

\* A database error is a 500: Stripe will deliver the event again.
RollbackOutcome(h) ==
  /\ hook[h].pc = "locked"
  /\ hook' = [hook EXCEPT ![h] = Idle]
  /\ Fault
  /\ UNCHANGED <<callVars, payment, facts, stripeVars, seen>>

-----------------------------------------------------------------------------
Serve(c) ==
  \/ FindIdempotent(c)
  \/ CheckBooking(c)
  \/ CreateIntent(c)
  \/ ClaimKey(c)
  \/ InsertPayment(c)
  \/ CommitPayment(c)
  \/ AbortPayment(c)

Next ==
  \/ \E b \in Bookings : BookingHeld(b) \/ Expire(b)
  \/ \E c \in Calls, k \in Keys, b \in Bookings : CreatePayment(c, k, b)
  \/ \E c \in Calls : Serve(c)
  \/ \E k \in Keys, type \in EventTypes : StripeOutcome(k, type)
  \/ \E e \in Event : IgnoreEvent(e)
  \/ \E h \in Hooks, e \in Event : LockPayment(h, e)
  \/ \E h \in Hooks : CommitOutcome(h) \/ RollbackOutcome(h)

Spec == Init /\ [][Next]_vars

-----------------------------------------------------------------------------
(* Properties. *)

TypeOK ==
  /\ context \subseteq Bookings
  /\ expired \subseteq Bookings
  /\ payment \in [Calls -> Statuses]
  /\ keys \in [Keys -> Calls \cup {NoCall}]
  /\ facts \in [Calls -> Seq({"PaymentSucceeded", "PaymentFailed"})]
  /\ pc \in [Calls -> {"idle", "find", "recover", "check", "intend", "claim",
                       "claimed", "inserted", "done"}]
  /\ req \in [Calls -> [key : Keys, booking : Bookings] \cup {NoReq}]
  /\ answer \in [Calls -> Answer]
  /\ intent \in [Keys -> Bookings \cup {NoBooking}]
  /\ outcome \in [Keys -> SUBSET EventTypes]
  /\ acked \subseteq Event
  /\ seen \subseteq Event
  /\ hook \in [Hooks -> [pc : {"locked"}, event : Event, id : Calls,
                         read : Statuses] \cup {Idle}]
  /\ faults \in 0 .. MaxFaults

\* A booking is charged at most once, and what is charged has a payment that
\* waits for its outcome: no retry, race, crash or lost answer leaves a second
\* chargeable intent in a customer's hands, or one Payment knows nothing of.
NoDoubleCharge ==
  \A k \in Keys : SecretKnown(k) =>
    /\ \E r \in Calls : /\ Exists(r)
                        /\ req[r].key = k
                        /\ req[r].booking = intent[k]
    /\ \A j \in Keys \ {k} : SecretKnown(j) => intent[j] # intent[k]

\* A call that is answered with a payment is answered with one for its own
\* booking, under its own key.
AnswerIsOwnPayment ==
  \A c \in Calls : answer[c].kind = "stored" =>
    LET r == answer[c].id IN
      Exists(r) /\ req[r] = req[c] /\ keys[req[c].key] = r

\* Nothing but Stripe's word for that very intent ends a payment, and a payment
\* states its outcome exactly once, the one that is stored: events delivered
\* twice, out of order, or to two replicas at once add nothing to it.
OutcomeStatedOnce ==
  \A r \in Calls :
    CASE payment[r] \in {"none", "pending"} -> facts[r] = <<>>
      [] payment[r] = "succeeded" ->
           facts[r] = <<"PaymentSucceeded">> /\ Charged(req[r].key)
      [] payment[r] = "failed" ->
           /\ facts[r] = <<"PaymentFailed">>
           /\ "payment_intent.payment_failed" \in outcome[req[r].key]

\* An outcome Stripe was answered 2xx for, and so will not deliver again, is on
\* record: the payment it is about has ended, and the customer's charge is not
\* forgotten because a transaction failed or the payment was not found.
NoOutcomeDropped ==
  \A e \in acked : IsPaymentOutcome(e) =>
    /\ e \in seen
    /\ \E r \in Of(e) : payment[r] \in {"succeeded", "failed"}

=============================================================================
