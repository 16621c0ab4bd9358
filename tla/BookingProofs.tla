---------------------------- MODULE BookingProofs ----------------------------
(***************************************************************************)
(* Theorems about Booking and its saga, for every set of calls, keys and   *)
(* windows, every number of faults, and requests slower than the hold too. *)
(***************************************************************************)
EXTENDS Booking, TLAPS, SequenceTheorems

-----------------------------------------------------------------------------
(* Messages and rows. *)

Requests == [key : Keys, body : Windows]
Places == {"idle", "find", "hold", "insert", "done"}
EventNames == {"BookingHeld", "BookingConfirmed", "BookingCancelled",
               "PaymentSucceeded", "PaymentFailed", "ReservationReleased"}
FactNames == {"BookingHeld", "BookingConfirmed", "BookingCancelled"}

\* A message is its event and its booking, and nothing else.
LEMMA MessageIs ==
  /\ \A e \in EventNames, b \in Calls : Message(e, b) \in Messages
  /\ \A e, f, b, c : Message(e, b) = Message(f, c) => e = f /\ b = c
BY DEF Message, Messages, EventNames

\* Delivery writes the fate of what was handled and of what was staged.
LEMMA DeliverEffect ==
  ASSUME NEW handled, NEW staged, Deliver(handled, staged)
  PROVE  \A m \in Messages :
           fate'[m] = IF m \in staged THEN "owed"
                      ELSE IF m \in handled THEN "handled" ELSE fate[m]
BY DEF Deliver

\* The messages staged by no fact, and by one.
LEMMA StagedBy ==
  ASSUME NEW b, NEW x
  PROVE  /\ {Message(<<>>[i], b) : i \in DOMAIN <<>>} = {}
         /\ {Message(<<x>>[i], b) : i \in DOMAIN <<x>>} = {Message(x, b)}
OBVIOUS

\* What the transaction of a transition does to the row of booking b: nothing,
\* a confirm under a confirmed reservation, or a cancel.
Kept(b, handled) ==
  /\ UNCHANGED <<book, facts>>
  /\ Deliver(handled, {})

Confirms(b, handled) ==
  /\ book[b].status = "held"
  /\ lock[b] = "confirmed"
  /\ book' = [book EXCEPT ![b] = RowOf("confirmed", "none")]
  /\ facts' = [facts EXCEPT ![b] = @ \o <<"BookingConfirmed">>]
  /\ Deliver(handled, {Message("BookingConfirmed", b)})

Cancels(b, handled) ==
  /\ book[b].status \in {"held", "confirmed"}
  /\ \E why \in {"customer_cancelled", "payment_failed", "hold_expired"} :
       book' = [book EXCEPT ![b] = RowOf("cancelled", why)]
  /\ facts' = [facts EXCEPT ![b] = @ \o <<"BookingCancelled">>]
  /\ Deliver(handled, {Message("BookingCancelled", b)})

RowStep(b, handled) ==
  Kept(b, handled) \/ Confirms(b, handled) \/ Cancels(b, handled)

\* A transaction that states one fact.
LEMMA ApplyOne ==
  ASSUME NEW b, NEW handled, NEW n, NEW x,
         Apply(b, [next |-> n, emits |-> <<x>>], handled)
  PROVE  /\ book' = [book EXCEPT ![b] = n]
         /\ facts' = [facts EXCEPT ![b] = @ \o <<x>>]
         /\ Deliver(handled, {Message(x, b)})
<1> DEFINE t == [next |-> n, emits |-> <<x>>]
<1>1. t.next = n /\ t.emits = <<x>>
  OBVIOUS
<1>2. /\ book' = [book EXCEPT ![b] = t.next]
      /\ facts' = [facts EXCEPT ![b] = @ \o t.emits]
      /\ Deliver(handled, {Message(t.emits[i], b) : i \in DOMAIN t.emits})
  BY DEF Apply
<1> HIDE DEF t
<1>3. {Message(t.emits[i], b) : i \in DOMAIN t.emits} = {Message(x, b)}
  BY <1>1, StagedBy
<1>4. QED
  BY <1>1, <1>2, <1>3

\* A transaction with nothing to say leaves the row and its facts alone.
LEMMA ApplyKeep ==
  ASSUME TypeOK, NEW b \in Calls, NEW handled,
         Apply(b, [next |-> book[b], emits |-> <<>>], handled)
  PROVE  Kept(b, handled)
<1>1. book' = book
  BY DEF Apply, TypeOK
<1>2. facts' = facts
  <2>1. facts[b] \o <<>> = facts[b]
    BY ConcatEmptySeq DEF TypeOK
  <2>2. QED
    BY <2>1 DEF Apply, TypeOK
<1>3. Deliver(handled, {})
  BY StagedBy DEF Apply
<1>4. QED
  BY <1>1, <1>2, <1>3 DEF Kept

\* A cancel is a cancel, whoever asks for it and why.
LEMMA ApplyCancel ==
  ASSUME TypeOK, NEW b \in Calls, NEW handled, book[b].status # "none",
         NEW why \in {"customer_cancelled", "payment_failed", "hold_expired"},
         Apply(b, CancelT(book[b], why), handled)
  PROVE  \/ book[b].status = "cancelled" /\ Kept(b, handled)
         \/ Cancels(b, handled)
<1>1. CASE book[b].status = "cancelled"
  BY <1>1, ApplyKeep DEF CancelT
<1>2. CASE book[b].status # "cancelled"
  <2>1. book[b].status \in {"held", "confirmed"}
    BY <1>2 DEF TypeOK, Row
  <2>2. CancelT(book[b], why) =
          [next |-> RowOf("cancelled", why), emits |-> <<"BookingCancelled">>]
    BY <1>2 DEF CancelT
  <2>3. QED
    <3>1. Apply(b, [next |-> RowOf("cancelled", why),
                    emits |-> <<"BookingCancelled">>], handled)
      BY <2>2
    <3>2. /\ book' = [book EXCEPT ![b] = RowOf("cancelled", why)]
          /\ facts' = [facts EXCEPT ![b] = @ \o <<"BookingCancelled">>]
          /\ Deliver(handled, {Message("BookingCancelled", b)})
      BY <3>1, ApplyOne
    <3>3. Cancels(b, handled)
      BY <2>1, <3>2 DEF Cancels
    <3>4. QED
      BY <3>3
<1>3. QED
  BY <1>1, <1>2

\* Every transaction that writes a booking's row does one of the three.
LEMMA RowEffect ==
  ASSUME TypeOK, NEW b \in Calls, lock[b] # "free" => book[b].status = "held"
  PROVE  /\ Cancel(b) => RowStep(b, {})
         /\ PaymentFailed(b) => RowStep(b, {Message("PaymentFailed", b)})
         /\ ReservationReleased(b) =>
              RowStep(b, {Message("ReservationReleased", b)})
         /\ CommitPayment(b) =>
              \/ Confirms(b, {Message("PaymentSucceeded", b)})
              \/ Cancels(b, {Message("PaymentSucceeded", b)})
<1>1. Cancel(b) => RowStep(b, {})
  BY ApplyCancel DEF Cancel, RowStep
<1>2. PaymentFailed(b) => RowStep(b, {Message("PaymentFailed", b)})
  <2>1. CASE book[b].status = "held"
    BY <2>1, ApplyCancel DEF PaymentFailed, CompensateT, RowStep
  <2>2. CASE book[b].status # "held"
    BY <2>2, ApplyKeep DEF PaymentFailed, CompensateT, RowStep
  <2>3. QED
    BY <2>1, <2>2
<1>3. ReservationReleased(b) => RowStep(b, {Message("ReservationReleased", b)})
  <2>1. CASE book[b].status = "held"
    BY <2>1, ApplyCancel DEF ReservationReleased, ExpireHoldT, RowStep
  <2>2. CASE book[b].status # "held"
    BY <2>2, ApplyKeep DEF ReservationReleased, ExpireHoldT, RowStep
  <2>3. QED
    BY <2>1, <2>2
<1>4. CommitPayment(b) =>
        \/ Confirms(b, {Message("PaymentSucceeded", b)})
        \/ Cancels(b, {Message("PaymentSucceeded", b)})
  <2>1. SUFFICES ASSUME CommitPayment(b)
                 PROVE  \/ Confirms(b, {Message("PaymentSucceeded", b)})
                        \/ Cancels(b, {Message("PaymentSucceeded", b)})
    OBVIOUS
  <2>2. book[b].status = "held"
    BY <2>1 DEF CommitPayment
  <2>3. CASE lock[b] = "confirmed"
    <3>1. ConfirmOnPayment(b) =
            [next |-> RowOf("confirmed", "none"), emits |-> <<"BookingConfirmed">>]
      BY <2>2, <2>3 DEF ConfirmOnPayment, ConfirmT
    <3> DEFINE r == RowOf("confirmed", "none")
               handled == {Message("PaymentSucceeded", b)}
    <3>2. Apply(b, [next |-> r, emits |-> <<"BookingConfirmed">>], handled)
      BY <2>1, <3>1 DEF CommitPayment
    <3>3. Confirms(b, handled) <=>
            /\ book[b].status = "held" /\ lock[b] = "confirmed"
            /\ book' = [book EXCEPT ![b] = r]
            /\ facts' = [facts EXCEPT ![b] = @ \o <<"BookingConfirmed">>]
            /\ Deliver(handled, {Message("BookingConfirmed", b)})
      BY DEF Confirms
    <3> HIDE DEF r, handled
    <3>4. /\ book' = [book EXCEPT ![b] = r]
          /\ facts' = [facts EXCEPT ![b] = @ \o <<"BookingConfirmed">>]
          /\ Deliver(handled, {Message("BookingConfirmed", b)})
      BY <3>2, ApplyOne
    <3>5. Confirms(b, handled)
      BY <2>2, <2>3, <3>3, <3>4
    <3> QED
      BY <3>5 DEF handled
  <2>4. CASE lock[b] # "confirmed"
    BY <2>1, <2>2, <2>4, ApplyCancel DEF CommitPayment, ConfirmOnPayment
  <2>5. QED
    BY <2>3, <2>4
<1>5. QED
  BY <1>1, <1>2, <1>3, <1>4

-----------------------------------------------------------------------------
(* The inductive invariant. *)

\* Only a call that was not made yet has asked for nothing.
Asked == \A c \in Calls : pc[c] # "idle" => req[c] \in Requests

\* Availability's reservations do not overlap.
Apart ==
  \A r, q \in Calls :
    r # q /\ Cal!Taken(r) /\ Cal!Taken(q) =>
      ~Cal!Overlap(slot[r].what, slot[q].what)

\* A booking is there once its call is done; its window is asked back only
\* when it is cancelled, its PaymentSucceeded is Payment's, and whoever asks
\* Availability to confirm does so for a held booking that was paid for.
Saga ==
  /\ \A b \in Calls : book[b].status # "none" => pc[b] = "done"
  /\ \A b \in Calls : fate[Message("BookingCancelled", b)] # "none" =>
       book[b].status = "cancelled"
  /\ \A b \in Calls : fate[Message("PaymentSucceeded", b)] # "none" =>
       charge[b] = "PaymentSucceeded"
  /\ \A b \in Calls : lock[b] # "free" =>
       book[b].status = "held" /\ Owed("PaymentSucceeded", b)
  /\ \A b \in Calls : lock[b] = "confirmed" => slot[b].status = "confirmed"

\* A confirmed booking is paid for, and its reservation is confirmed.
Backed ==
  \A b \in Calls : Confirmed(b) =>
    charge[b] = "PaymentSucceeded" /\ slot[b].status = "confirmed"

SagaInv ==
  /\ TypeOK
  /\ Asked
  /\ Apart
  /\ Saga
  /\ Backed
  /\ NoStrandedReservation
  /\ FactsMatchBooking

-----------------------------------------------------------------------------
(* Types. *)

SlotRow == [status : {"none", "held", "confirmed", "released"},
            what : Wishes \cup {NoWish}, reason : Cal!Reasons \cup {"none"}]

\* The empty service.
LEMMA InitType == Init => TypeOK /\ Asked
<1> SUFFICES ASSUME Init PROVE TypeOK /\ Asked
  OBVIOUS
<1>1. slot \in [Calls -> SlotRow]
  BY DEF Init, Cal!Init, Cal!Free, SlotRow
<1>2. Asked
  BY DEF Init, Asked
<1>3. QED
  BY <1>1, <1>2, BookingAssumption
     DEF Init, TypeOK, Row, RowOf, Answer, Rejected, SlotRow

\* What Availability's steps keep of its own types.
LEMMA SlotType ==
  ASSUME slot \in [Calls -> SlotRow], NEW b \in Calls,
         \/ \E w \in Wishes : Cal!Hold(b, w)
         \/ Cal!Confirm(b)
         \/ \E why \in Cal!Reasons : Cal!Release(b, why)
  PROVE  slot' \in [Calls -> SlotRow]
<1>1. CASE \E w \in Wishes : Cal!Hold(b, w)
  BY <1>1 DEF Cal!Hold, SlotRow
<1>2. CASE Cal!Confirm(b)
  BY <1>2 DEF Cal!Confirm, SlotRow
<1>3. CASE \E why \in Cal!Reasons : Cal!Release(b, why)
  <2>1. PICK why \in Cal!Reasons : Cal!Release(b, why)
    BY <1>3
  <2>2. slot[b] \in SlotRow
    OBVIOUS
  <2>3. [slot[b] EXCEPT !.status = "released", !.reason = why] \in SlotRow
    BY <2>2 DEF SlotRow
  <2>4. slot' = [slot EXCEPT
          ![b] = [slot[b] EXCEPT !.status = "released", !.reason = why]]
    BY <2>1 DEF Cal!Release
  <2> QED
    BY <2>3, <2>4
<1>4. QED
  BY <1>1, <1>2, <1>3

\* Delivery keeps the fates' type.
LEMMA DeliverType ==
  ASSUME TypeOK, NEW handled, NEW staged, Deliver(handled, staged)
  PROVE  fate' \in [Messages -> {"none", "owed", "handled", "parked"}]
BY DEF TypeOK, Deliver

\* So does a step of a call keep those of the calls.
LEMMA CreateTypeStep ==
  ASSUME TypeOK, Asked, NEW c \in Calls,
         \/ \E k \in Keys, w \in Windows : CreateBooking(c, k, w)
         \/ Create(c) \/ AbortCreate(c)
  PROVE  TypeOK' /\ Asked'
<1> USE BookingAssumption
<1>1. /\ \A kind \in {"rejected", "slot_unavailable", "key_reuse", "error"} :
           Rejected(kind) \in Answer
      /\ Stored(c) \in Answer
  BY DEF Answer, Rejected, Stored
<1>2. \A a \in Answer : Finish(c, a) =>
        /\ pc' \in [Calls -> Places] /\ answer' \in [Calls -> Answer]
        /\ \A d \in Calls : d # c => pc'[d] = pc[d]
  BY DEF Finish, TypeOK, Places
<1>3. \A p \in Places : Goto(c, p) =>
        /\ pc' \in [Calls -> Places] /\ answer' \in [Calls -> Answer]
        /\ \A d \in Calls : d # c => pc'[d] = pc[d]
  BY DEF Goto, TypeOK, Places
<1>4. CASE \E k \in Keys, w \in Windows : CreateBooking(c, k, w)
  <2>1. (\E a \in Answer : Finish(c, a)) \/ \E p \in Places : Goto(c, p)
    BY <1>1, <1>4 DEF CreateBooking, Places
  <2>2. req' \in [Calls -> Requests \cup {NoReq}] /\ req'[c] \in Requests
        /\ \A d \in Calls : d # c => req'[d] = req[d]
    BY <1>4 DEF CreateBooking, TypeOK, Requests
  <2>3. TypeOK'
    BY <1>2, <1>3, <1>4, <2>1, <2>2 DEF CreateBooking, TypeOK, Places, Requests
  <2>4. Asked'
    BY <1>2, <1>3, <2>1, <2>2 DEF Asked
  <2>5. QED
    BY <2>3, <2>4
<1>5. CASE Create(c) \/ AbortCreate(c)
  <2>1. req[c] \in Requests /\ req[c].key \in Keys /\ req[c].body \in Windows
        /\ req' = req
    BY <1>5 DEF Asked, Requests, Create, FindIdempotent, Hold, Insert, AbortCreate
  <2>2. Holder(c) # NoCall => Stored(Holder(c)) \in Answer
    BY <2>1 DEF TypeOK, Holder, Stored, Answer
  <2>3. (\E a \in Answer : Finish(c, a)) \/ \E p \in Places : Goto(c, p)
    <3>1. CASE FindIdempotent(c) \/ AbortCreate(c)
      BY <1>1, <2>2, <3>1 DEF FindIdempotent, AbortCreate, Places
    <3>2. CASE Hold(c)
      BY <1>1, <3>2 DEF Hold, Places
    <3>3. CASE Insert(c)
      BY <1>1, <3>3 DEF Insert
    <3>4. QED
      BY <1>5, <3>1, <3>2, <3>3 DEF Create
  <2>4. Asked'
    BY <1>2, <1>3, <1>5, <2>1, <2>3 DEF Asked
  <2>5. faults' \in 0 .. MaxFaults
    BY <1>5 DEF TypeOK, Create, FindIdempotent, Hold, Insert, AbortCreate, Fault
  <2>6. CASE Hold(c)
    <3>1. Wish(c) \in Wishes
      BY <2>1 DEF Wish, Wishes
    <3>2. slot' \in [Calls -> SlotRow] /\ holds' \in [Keys -> Calls \cup {NoCall}]
      BY <2>1, <2>6, <3>1, SlotType, ZenonT(40) DEF Hold, TypeOK, SlotRow
    <3>3. TypeOK'
      BY <1>2, <1>3, <2>1, <2>3, <2>5, <2>6, <3>2, SMTT(30)
         DEF Hold, TypeOK, Places, SlotRow
    <3>4. QED
      BY <2>4, <3>3
  <2>7. CASE Insert(c)
    <3>1. fate' \in [Messages -> {"none", "owed", "handled", "parked"}]
      BY <2>7, DeliverType DEF Insert
    <3>2. /\ book' \in [Calls -> Row]
          /\ keys' \in [Keys -> Calls \cup {NoCall}]
      BY <2>1, <2>7 DEF Insert, TypeOK, Row, RowOf
    <3>3. facts' \in [Calls -> Seq({"BookingHeld", "BookingConfirmed",
                                    "BookingCancelled"})]
      BY <2>7 DEF Insert, TypeOK
    <3>4. TypeOK'
      BY <1>2, <1>3, <2>1, <2>3, <2>5, <2>7, <3>1, <3>2, <3>3
         DEF Insert, TypeOK, Places
    <3>5. QED
      BY <2>4, <3>4
  <2>8. CASE FindIdempotent(c) \/ AbortCreate(c)
    <3>1. TypeOK'
      BY <1>2, <1>3, <2>1, <2>3, <2>5, <2>8
         DEF FindIdempotent, AbortCreate, TypeOK, Places
    <3>2. QED
      BY <2>4, <3>1
  <2>9. QED
    BY <1>5, <2>6, <2>7, <2>8 DEF Create
<1>6. QED
  BY <1>4, <1>5

\* A step on a row keeps the types of the rows and the outbox.
LEMMA RowType ==
  ASSUME TypeOK, NEW b \in Calls, NEW handled, RowStep(b, handled)
  PROVE  /\ book' \in [Calls -> Row]
         /\ facts' \in [Calls -> Seq(FactNames)]
         /\ fate' \in [Messages -> {"none", "owed", "handled", "parked"}]
<1>1. <<"BookingConfirmed">> \in Seq(FactNames) /\ <<"BookingCancelled">> \in Seq(FactNames)
  BY DEF FactNames
<1>2. facts \in [Calls -> Seq(FactNames)] /\ book \in [Calls -> Row]
  BY DEF TypeOK, FactNames
<1>3. fate' \in [Messages -> {"none", "owed", "handled", "parked"}]
  BY DeliverType DEF RowStep, Kept, Confirms, Cancels
<1>4. facts[b] \o <<"BookingConfirmed">> \in Seq(FactNames)
      /\ facts[b] \o <<"BookingCancelled">> \in Seq(FactNames)
  BY <1>1, <1>2, ConcatProperties
<1>5. facts' \in [Calls -> Seq(FactNames)]
  BY <1>2, <1>4 DEF RowStep, Kept, Confirms, Cancels
<1>6. book' \in [Calls -> Row]
  <2>1. \E r \in Row : book' = book \/ book' = [book EXCEPT ![b] = r]
    <3>1. \A why \in {"customer_cancelled", "payment_failed", "hold_expired"} :
            RowOf("cancelled", why) \in Row
      BY DEF Row, RowOf
    <3>2. RowOf("confirmed", "none") \in Row
      BY DEF Row, RowOf
    <3>3. QED
      BY <3>1, <3>2 DEF RowStep, Kept, Confirms, Cancels
  <2>2. QED
    BY <1>2, <2>1
<1>7. QED
  BY <1>3, <1>5, <1>6

\* Every step keeps the types; a lock is held for a held booking.
LEMMA TypeStep ==
  ASSUME TypeOK, Asked, [Next]_vars,
         \A b \in Calls : lock[b] # "free" => book[b].status = "held"
  PROVE  TypeOK' /\ Asked'
<1> USE BookingAssumption
<1>1. CASE \/ \E c \in Calls, k \in Keys, w \in Windows : CreateBooking(c, k, w)
           \/ \E c \in Calls : Create(c) \/ AbortCreate(c)
  BY <1>1, CreateTypeStep
<1>2. CASE UNCHANGED vars
  BY <1>2 DEF vars, callVars, TypeOK, Asked
<1>3. ASSUME UNCHANGED <<pc, req>> PROVE Asked'
  BY <1>3 DEF Asked
<1>4. ASSUME NEW b \in Calls,
             Cancel(b) \/ PaymentFailed(b) \/ ReservationReleased(b) \/ CommitPayment(b)
      PROVE  TypeOK' /\ Asked'
  <2>1. \E handled : RowStep(b, handled)
    BY <1>4, RowEffect DEF RowStep
  <2>2. /\ book' \in [Calls -> Row]
        /\ facts' \in [Calls -> Seq({"BookingHeld", "BookingConfirmed",
                                     "BookingCancelled"})]
        /\ fate' \in [Messages -> {"none", "owed", "handled", "parked"}]
    BY <2>1, RowType DEF FactNames
  <2>3. lock' \in [Calls -> {"free", "asking", "confirmed", "released"}]
    BY <1>4 DEF Cancel, PaymentFailed, ReservationReleased, CommitPayment, TypeOK
  <2>4. UNCHANGED <<slot, holds, keys, pc, req, answer, charge, faults>>
    BY <1>4 DEF Cancel, PaymentFailed, ReservationReleased, CommitPayment, callVars
  <2>5. QED
    BY <1>3, <2>2, <2>3, <2>4 DEF TypeOK
<1>5. ASSUME NEW b \in Calls, PaymentSucceeded(b) \/ RollbackPayment(b) \/ PrepareContext(b)
      PROVE  TypeOK' /\ Asked'
  <2>1. fate' \in [Messages -> {"none", "owed", "handled", "parked"}]
    BY <1>5, DeliverType DEF PaymentSucceeded, RollbackPayment, PrepareContext, TypeOK
  <2>2. lock' \in [Calls -> {"free", "asking", "confirmed", "released"}]
    <3>1. \E v \in {"free", "asking"} : lock' = lock \/ lock' = [lock EXCEPT ![b] = v]
      BY <1>5 DEF PaymentSucceeded, RollbackPayment, PrepareContext
    <3>2. QED
      BY <3>1 DEF TypeOK
  <2>3. faults' \in 0 .. MaxFaults
    BY <1>5 DEF PaymentSucceeded, RollbackPayment, PrepareContext, Fault, TypeOK
  <2>4. UNCHANGED <<slot, holds, book, facts, keys, pc, req, answer, charge>>
    BY <1>5 DEF PaymentSucceeded, RollbackPayment, PrepareContext, callVars
  <2>5. QED
    BY <1>3, <2>1, <2>2, <2>3, <2>4 DEF TypeOK
<1>6. ASSUME NEW b \in Calls, ConfirmReservation(b) PROVE TypeOK' /\ Asked'
  <2>1. slot' \in [Calls -> SlotRow]
    BY <1>6, SlotType DEF ConfirmReservation, TypeOK, SlotRow
  <2>2. QED
    BY <1>3, <1>6, <2>1 DEF ConfirmReservation, callVars, TypeOK, SlotRow
<1>7. ASSUME NEW b \in Calls, Compensate(b) \/ Sweep(b) PROVE TypeOK' /\ Asked'
  <2>1. "booking_cancelled" \in Cal!Reasons /\ "hold_expired" \in Cal!Reasons
    BY DEF Cal!Reasons
  <2>2. slot' \in [Calls -> SlotRow]
    BY <1>7, <2>1, SlotType DEF Compensate, Sweep, TypeOK, SlotRow
  <2>3. fate' \in [Messages -> {"none", "owed", "handled", "parked"}]
    BY <1>7, DeliverType DEF Compensate, Sweep
  <2>4. QED
    BY <1>3, <1>7, <2>2, <2>3 DEF Compensate, Sweep, callVars, TypeOK, SlotRow
<1>8. ASSUME NEW b \in Calls, NEW outcome \in {"PaymentSucceeded", "PaymentFailed"},
             Charge(b, outcome)
      PROVE  TypeOK' /\ Asked'
  <2>1. fate' \in [Messages -> {"none", "owed", "handled", "parked"}]
    BY <1>8, DeliverType DEF Charge
  <2>2. QED
    BY <1>3, <1>8, <2>1 DEF Charge, callVars, TypeOK
<1>9. ASSUME NEW m \in Messages, Park(m) PROVE TypeOK' /\ Asked'
  BY <1>3, <1>9 DEF Park, Fault, callVars, TypeOK
<1>10. QED
  BY <1>1, <1>2, <1>4, <1>5, <1>6, <1>7, <1>8, <1>9
     DEF Next, ConfirmPaid, Consume

-----------------------------------------------------------------------------
(* The saga. *)

Paid(b) == fate[Message("PaymentSucceeded", b)]
News(b) == fate[Message("BookingCancelled", b)]

\* What the steps have to keep, beside the types.
SagaKept == Apart /\ Saga /\ Backed /\ NoStrandedReservation /\ FactsMatchBooking

\* No reservation, no booking, no event.
LEMMA SagaInit == Init => SagaInv
<1> SUFFICES ASSUME Init PROVE SagaInv
  OBVIOUS
<1>1. TypeOK /\ Asked
  BY InitType
<1>2. /\ \A b \in Calls : slot[b].status = "none" /\ book[b].status = "none"
      /\ \A b \in Calls : facts[b] = <<>> /\ lock[b] = "free"
      /\ \A m \in Messages : fate[m] = "none"
  BY DEF Init, Cal!Init, Cal!Free, RowOf
<1>3. \A b \in Calls : Message("PaymentSucceeded", b) \in Messages
                       /\ Message("BookingCancelled", b) \in Messages
  BY MessageIs DEF EventNames
<1>4. Apart
  BY <1>2 DEF Apart, Cal!Taken
<1>5. Saga /\ Backed /\ NoStrandedReservation
  BY <1>2, <1>3 DEF Saga, Backed, Confirmed, NoStrandedReservation
<1>6. FactsMatchBooking
  BY <1>2 DEF FactsMatchBooking, Confirmed
<1>7. QED
  BY <1>1, <1>4, <1>5, <1>6 DEF SagaInv

\* The fates that matter, when an event is handled and another staged.
LEMMA FateStep ==
  ASSUME NEW handled, NEW staged, Deliver(handled, staged), NEW b \in Calls
  PROVE  /\ Paid(b)' = IF Message("PaymentSucceeded", b) \in staged THEN "owed"
                       ELSE IF Message("PaymentSucceeded", b) \in handled
                            THEN "handled" ELSE Paid(b)
         /\ News(b)' = IF Message("BookingCancelled", b) \in staged THEN "owed"
                       ELSE IF Message("BookingCancelled", b) \in handled
                            THEN "handled" ELSE News(b)
<1>1. Message("PaymentSucceeded", b) \in Messages
      /\ Message("BookingCancelled", b) \in Messages
  BY MessageIs DEF EventNames
<1>2. QED
  BY <1>1, DeliverEffect DEF Paid, News

\* A step that changes nothing but the calls that are not done, ...
LEMMA QuietStep ==
  ASSUME SagaInv, UNCHANGED <<slot, book, facts, lock, charge>>,
         \A b \in Calls : Paid(b)' = Paid(b) /\ News(b)' = News(b),
         \A b \in Calls : pc[b] = "done" => pc'[b] = "done"
  PROVE  SagaKept'
<1>1. Apart'
  BY DEF SagaInv, Apart, Cal!Taken
<1>2. Saga'
  BY DEF SagaInv, Saga, Paid, News, Owed
<1>3. Backed' /\ NoStrandedReservation'
  BY DEF SagaInv, Backed, NoStrandedReservation, Confirmed, Paid, News
<1>4. FactsMatchBooking'
  BY DEF SagaInv, FactsMatchBooking, Confirmed
<1>5. QED
  BY <1>1, <1>2, <1>3, <1>4 DEF SagaKept

\* ... and one that holds a window for such a call.
LEMMA HoldStep ==
  ASSUME SagaInv, NEW c \in Calls, Hold(c)
  PROVE  SagaKept'
<1>1. /\ UNCHANGED <<book, facts, lock, fate, charge>>
      /\ pc[c] = "hold"
      /\ UNCHANGED slot \/ Cal!Hold(c, Wish(c))
  BY DEF Hold
<1>2. \A b \in Calls : pc[b] = "done" => pc'[b] = "done"
  BY DEF Hold, Goto, Finish, SagaInv, TypeOK
<1>3. CASE UNCHANGED slot
  BY <1>1, <1>2, <1>3, QuietStep DEF Paid, News
<1>4. CASE Cal!Hold(c, Wish(c))
  <2>1. /\ slot[c].status = "none"
        /\ \A q \in Calls : Cal!Taken(q) => ~Cal!Overlap(slot[q].what, Wish(c))
        /\ slot'[c] = [status |-> "held", what |-> Wish(c), reason |-> "none"]
        /\ \A q \in Calls : q # c => slot'[q] = slot[q]
    BY <1>4 DEF Cal!Hold, SagaInv, TypeOK
  <2>2. Apart'
    <3>1. \A q \in Calls : q # c => (Cal!Taken(q)' <=> Cal!Taken(q))
      BY <2>1 DEF Cal!Taken
    <3>2. \A a, b : Cal!Overlap(a, b) => Cal!Overlap(b, a)
      BY DEF Cal!Overlap
    <3>3. slot'[c].what = Wish(c)
      BY <2>1
    <3>4. ASSUME NEW r \in Calls, NEW q \in Calls, r # q, Cal!Taken(r)', Cal!Taken(q)'
          PROVE  ~Cal!Overlap(slot'[r].what, slot'[q].what)
      <4>1. CASE r = c
        BY <2>1, <3>1, <3>2, <3>3, <3>4, <4>1
      <4>2. CASE q = c
        BY <2>1, <3>1, <3>3, <3>4, <4>2
      <4>3. CASE r # c /\ q # c
        BY <2>1, <3>1, <3>4, <4>3 DEF SagaInv, Apart
      <4>4. QED
        BY <4>1, <4>2, <4>3
    <3>5. QED
      BY <3>4 DEF Apart, Cal!Overlap
  <2>3. Saga'
    BY <1>1, <1>2, <2>1 DEF SagaInv, Saga, Owed
  <2>4. Backed' /\ NoStrandedReservation'
    BY <1>1, <2>1 DEF SagaInv, Backed, NoStrandedReservation, Confirmed
  <2>5. FactsMatchBooking'
    BY <1>1 DEF SagaInv, FactsMatchBooking, Confirmed
  <2>6. QED
    BY <2>2, <2>3, <2>4, <2>5 DEF SagaKept
<1>5. QED
  BY <1>1, <1>3, <1>4

\* A booking that is stored was not there before.
LEMMA InsertStep ==
  ASSUME SagaInv, NEW c \in Calls, Insert(c)
  PROVE  SagaKept'
<1>1. /\ book[c].status = "none" /\ lock[c] = "free" /\ facts[c] = <<>>
      /\ slot[c].status # "confirmed" /\ News(c) = "none"
  BY MessageIs DEF Insert, SagaInv, Saga, FactsMatchBooking, NoStrandedReservation,
                   Confirmed, News, TypeOK, EventNames
<1>2. /\ UNCHANGED <<slot, lock, charge>>
      /\ book'[c] = RowOf("held", "none")
      /\ \A b \in Calls : b # c => book'[b] = book[b] /\ facts'[b] = facts[b]
      /\ pc'[c] = "done"
      /\ \A b \in Calls : b # c => pc'[b] = pc[b]
      /\ facts'[c] = Append(<<>>, "BookingHeld")
  BY <1>1 DEF Insert, SagaInv, TypeOK, Finish
<1>3. \A b \in Calls : Paid(b)' = Paid(b) /\ News(b)' = News(b)
  <2>1. \A b \in Calls : /\ Message("PaymentSucceeded", b) \notin {Message("BookingHeld", c)}
                         /\ Message("BookingCancelled", b) \notin {Message("BookingHeld", c)}
    BY MessageIs
  <2>2. QED
    BY <2>1, FateStep DEF Insert
<1>4. Apart'
  BY <1>2 DEF SagaInv, Apart, Cal!Taken
<1>5. Saga'
  BY <1>1, <1>2, <1>3 DEF SagaInv, Saga, Owed, Paid, News
<1>6. Backed' /\ NoStrandedReservation'
  BY <1>1, <1>2, <1>3
     DEF SagaInv, Backed, NoStrandedReservation, Confirmed, Paid, News, RowOf
<1>7. FactsMatchBooking'
  <2>1. Append(<<>>, "BookingHeld") = <<"BookingHeld">>
    OBVIOUS
  <2>2. book'[c].status = "held"
    BY <1>2 DEF RowOf
  <2>3. QED
    BY <1>2, <2>1, <2>2 DEF SagaInv, FactsMatchBooking, Confirmed
<1>8. QED
  BY <1>4, <1>5, <1>6, <1>7 DEF SagaKept

\* The facts of a row, after one more.
LEMMA FactsAppend ==
  ASSUME NEW a, NEW b, NEW c
  PROVE  <<a>> \o <<b>> = <<a, b>> /\ <<a, b>> \o <<c>> = <<a, b, c>>
<1> DEFINE S == {a, b, c}
<1>1. /\ <<a>> \in Seq(S) /\ <<b>> \in Seq(S) /\ <<c>> \in Seq(S)
      /\ <<a, b>> \in Seq(S) /\ <<a, b, c>> \in Seq(S)
      /\ Len(<<a>>) = 1 /\ Len(<<b>>) = 1 /\ Len(<<c>>) = 1
      /\ Len(<<a, b>>) = 2 /\ Len(<<a, b, c>>) = 3
  OBVIOUS
<1>2. <<a>> \o <<b>> = <<a, b>>
  <2>1. <<a>> \o <<b>> \in Seq(S) /\ Len(<<a>> \o <<b>>) = 2
    BY <1>1, ConcatProperties
  <2>2. (<<a>> \o <<b>>)[1] = <<a>>[1] /\ (<<a>> \o <<b>>)[2] = <<b>>[1]
    BY <1>1, ConcatProperties
  <2>3. \A i \in 1 .. 2 : (<<a>> \o <<b>>)[i] = <<a, b>>[i]
    BY <2>2
  <2>4. QED
    BY <1>1, <2>1, <2>3, SeqEqual
<1>3. <<a, b>> \o <<c>> = <<a, b, c>>
  <2>1. <<a, b>> \o <<c>> \in Seq(S) /\ Len(<<a, b>> \o <<c>>) = 3
    BY <1>1, ConcatProperties
  <2>2. /\ (<<a, b>> \o <<c>>)[1] = <<a, b>>[1]
        /\ (<<a, b>> \o <<c>>)[2] = <<a, b>>[2]
        /\ (<<a, b>> \o <<c>>)[3] = <<c>>[1]
    BY <1>1, ConcatProperties
  <2>3. \A i \in 1 .. 3 : (<<a, b>> \o <<c>>)[i] = <<a, b, c>>[i]
    BY <2>2
  <2>4. QED
    BY <1>1, <2>1, <2>3, SeqEqual
<1>4. QED
  BY <1>2, <1>3

\* A transaction on a row states what it does to it.
LEMMA RowFacts ==
  ASSUME SagaInv, NEW b \in Calls, NEW handled, RowStep(b, handled)
  PROVE  FactsMatchBooking'
<1>1. book \in [Calls -> Row] /\ facts \in [Calls -> Seq(FactNames)]
  BY DEF SagaInv, TypeOK, FactNames
<1>2. CASE Kept(b, handled)
  BY <1>2 DEF Kept, SagaInv, FactsMatchBooking, Confirmed
<1>3. CASE Confirms(b, handled)
  <2>1. /\ \A q \in Calls : q # b => book'[q] = book[q] /\ facts'[q] = facts[q]
        /\ book'[b] = RowOf("confirmed", "none")
        /\ facts'[b] = facts[b] \o <<"BookingConfirmed">>
    BY <1>1, <1>3 DEF Confirms
  <2>2. facts[b] = <<"BookingHeld">>
    BY <1>3 DEF Confirms, SagaInv, FactsMatchBooking, Confirmed
  <2>3. facts'[b] = <<"BookingHeld", "BookingConfirmed">>
    BY <2>1, <2>2, FactsAppend
  <2>4. book'[b].status = "confirmed"
    BY <2>1 DEF RowOf
  <2>5. QED
    BY <2>1, <2>3, <2>4 DEF SagaInv, FactsMatchBooking, Confirmed
<1>4. CASE Cancels(b, handled)
  <2>1. /\ \A q \in Calls : q # b => book'[q] = book[q] /\ facts'[q] = facts[q]
        /\ book'[b].status = "cancelled"
        /\ facts'[b] = facts[b] \o <<"BookingCancelled">>
    BY <1>1, <1>4 DEF Cancels, RowOf
  <2>2. facts[b] \in {<<"BookingHeld">>, <<"BookingHeld", "BookingConfirmed">>}
    BY <1>4 DEF Cancels, SagaInv, FactsMatchBooking, Confirmed
  <2>3. facts'[b] \in {<<"BookingHeld", "BookingCancelled">>,
                       <<"BookingHeld", "BookingConfirmed", "BookingCancelled">>}
    BY <2>1, <2>2, FactsAppend
  <2>4. QED
    BY <2>1, <2>3 DEF SagaInv, FactsMatchBooking, Confirmed
<1>5. QED
  BY <1>2, <1>3, <1>4 DEF RowStep

\* A transaction on a row, its own event handled.
LEMMA RowSagaStep ==
  ASSUME SagaInv, NEW b \in Calls, NEW handled, RowStep(b, handled),
         \A q \in Calls : Message("BookingCancelled", q) \notin handled,
         \A q \in Calls : Message("PaymentSucceeded", q) \in handled =>
           q = b /\ ~Kept(b, handled) /\ Owed("PaymentSucceeded", b),
         lock'[b] = "free", \A q \in Calls : q # b => lock'[q] = lock[q],
         UNCHANGED <<slot, pc, charge>>
  PROVE  SagaKept'
<1>1. book \in [Calls -> Row]
  BY DEF SagaInv, TypeOK
<1>2. /\ \A q \in Calls : q # b => book'[q] = book[q]
      /\ \/ Kept(b, handled) /\ book'[b] = book[b]
         \/ /\ lock[b] = "confirmed" /\ book[b].status = "held"
            /\ book'[b].status = "confirmed"
         \/ /\ book[b].status \in {"held", "confirmed"}
            /\ book'[b].status = "cancelled"
            /\ News(b)' = "owed"
  <2>1. CASE Kept(b, handled)
    BY <2>1 DEF Kept
  <2>2. CASE Confirms(b, handled)
    BY <1>1, <2>2 DEF Confirms, RowOf
  <2>3. CASE Cancels(b, handled)
    <3>1. News(b)' = "owed"
      BY <2>3, FateStep DEF Cancels
    <3>2. QED
      BY <1>1, <2>3, <3>1 DEF Cancels, RowOf
  <2>4. QED
    BY <2>1, <2>2, <2>3 DEF RowStep
<1>3. \A q \in Calls : q # b => Paid(q)' = Paid(q) /\ News(q)' = News(q)
  BY MessageIs, FateStep DEF RowStep, Kept, Confirms, Cancels
<1>4. /\ Paid(b)' \in {Paid(b), "handled"}
      /\ Paid(b)' # Paid(b) =>
           Message("PaymentSucceeded", b) \in handled
      /\ News(b)' # News(b) => Cancels(b, handled)
  BY MessageIs, FateStep DEF RowStep, Kept, Confirms, Cancels
<1>5. Apart'
  BY DEF SagaInv, Apart, Cal!Taken
<1>6. book'[b].status = "none" <=> book[b].status = "none"
  BY <1>2
<1>7. Saga'
  <2>1. \A q \in Calls : book'[q].status # "none" => pc[q] = "done"
    BY <1>2, <1>6 DEF SagaInv, Saga
  <2>2. \A q \in Calls : News(q)' # "none" => book'[q].status = "cancelled"
    <3>1. Cancels(b, handled) => book'[b].status = "cancelled"
      BY <1>1 DEF Cancels, RowOf
    <3>2. News(b) # "none" => book[b].status = "cancelled"
      BY DEF SagaInv, Saga, News
    <3>3. News(b)' # "none" => book'[b].status = "cancelled"
      BY <1>2, <1>4, <3>1, <3>2
    <3>4. QED
      BY <1>2, <1>3, <3>3 DEF SagaInv, Saga, News
  <2>3. \A q \in Calls : Paid(q)' # "none" => charge[q] = "PaymentSucceeded"
    <3>1. Message("PaymentSucceeded", b) \in handled => Paid(b) # "none"
      BY DEF Owed, Paid
    <3>2. QED
      BY <1>3, <1>4, <3>1 DEF SagaInv, Saga, Paid
  <2>4. \A q \in Calls : lock'[q] # "free" =>
          q # b /\ book'[q].status = "held" /\ Paid(q)' = "owed"
    BY <1>2, <1>3 DEF SagaInv, Saga, Owed, Paid
  <2>5. \A q \in Calls : lock'[q] = "confirmed" => slot[q].status = "confirmed"
    BY DEF SagaInv, Saga
  <2>6. QED
    BY <2>1, <2>2, <2>3, <2>4, <2>5 DEF Saga, Owed, Paid, News
<1>8. Backed'
  <2>1. lock[b] = "confirmed" =>
          charge[b] = "PaymentSucceeded" /\ slot[b].status = "confirmed"
    BY DEF SagaInv, Saga, Owed
  <2>2. QED
    BY <1>2, <2>1 DEF SagaInv, Backed, Confirmed
<1>9. NoStrandedReservation'
  <2>1. \A q \in Calls : q # b /\ slot[q].status = "confirmed" =>
          \/ book'[q].status = "confirmed"
          \/ book'[q].status = "held" /\ Paid(q)' \in {"owed", "parked"}
          \/ book'[q].status = "cancelled" /\ News(q)' \in {"owed", "parked"}
    BY <1>2, <1>3 DEF SagaInv, NoStrandedReservation, Confirmed, Paid, News
  <2>2. slot[b].status = "confirmed" =>
          \/ book'[b].status = "confirmed"
          \/ book'[b].status = "held" /\ Paid(b)' \in {"owed", "parked"}
          \/ book'[b].status = "cancelled" /\ News(b)' \in {"owed", "parked"}
    <3>1. CASE Kept(b, handled)
      <4>1. Paid(b)' = Paid(b)
        BY <1>4, <3>1
      <4>2. News(b)' = News(b)
        BY MessageIs, FateStep, <3>1 DEF Kept
      <4>3. book'[b] = book[b]
        BY <3>1 DEF Kept
      <4>4. QED
        BY <4>1, <4>2, <4>3 DEF SagaInv, NoStrandedReservation, Confirmed, Paid, News
    <3>2. CASE ~Kept(b, handled)
      BY <1>2, <3>2
    <3>3. QED
      BY <3>1, <3>2
  <2>3. QED
    BY <2>1, <2>2 DEF NoStrandedReservation, Confirmed, Paid, News
<1>10. FactsMatchBooking'
  BY RowFacts
<1>11. QED
  BY <1>5, <1>7, <1>8, <1>9, <1>10 DEF SagaKept

\* A payment is confirmed with Availability under the booking's lock.
LEMMA ConfirmStep ==
  ASSUME SagaInv, NEW b \in Calls,
         PaymentSucceeded(b) \/ ConfirmReservation(b) \/ RollbackPayment(b)
  PROVE  SagaKept'
<1>1. /\ UNCHANGED <<book, facts, pc, charge>>
      /\ \A q \in Calls : q # b => lock'[q] = lock[q] /\ slot'[q] = slot[q]
  BY DEF PaymentSucceeded, ConfirmReservation, RollbackPayment, callVars,
         SagaInv, TypeOK, Cal!Confirm
<1>2. FactsMatchBooking'
  BY <1>1 DEF SagaInv, FactsMatchBooking, Confirmed
<1>3. CASE PaymentSucceeded(b) /\ book[b].status = "held"
  <2>1. UNCHANGED <<slot, fate>> /\ lock'[b] = "asking" /\ Owed("PaymentSucceeded", b)
    BY <1>3 DEF PaymentSucceeded, SagaInv, TypeOK
  <2>2. Apart' /\ Saga' /\ Backed' /\ NoStrandedReservation'
    BY <1>1, <1>3, <2>1
       DEF SagaInv, Apart, Cal!Taken, Saga, Backed, NoStrandedReservation, Confirmed, Owed
  <2>3. QED
    BY <1>2, <2>2 DEF SagaKept
<1>4. CASE PaymentSucceeded(b) /\ book[b].status # "held"
  <2>1. /\ UNCHANGED <<slot, lock>>
        /\ Deliver({Message("PaymentSucceeded", b)}, {})
        /\ Owed("PaymentSucceeded", b) /\ lock[b] = "free"
    BY <1>4 DEF PaymentSucceeded
  <2>2. /\ \A q \in Calls : News(q)' = News(q)
        /\ \A q \in Calls : q # b => Paid(q)' = Paid(q)
    BY <2>1, MessageIs, FateStep
  <2>3. Apart'
    BY <2>1 DEF SagaInv, Apart, Cal!Taken
  <2>4. Paid(b) = "owed"
    BY <2>1 DEF Owed, Paid
  <2>5. Saga'
    BY <1>1, <2>1, <2>2, <2>4 DEF SagaInv, Saga, Owed, Paid, News
  <2>6. Backed' /\ NoStrandedReservation'
    BY <1>1, <1>4, <2>1, <2>2
       DEF SagaInv, Backed, NoStrandedReservation, Confirmed, Paid, News
  <2>7. QED
    BY <1>2, <2>3, <2>5, <2>6 DEF SagaKept
<1>5. CASE ConfirmReservation(b)
  <2>1. /\ lock[b] = "asking" /\ UNCHANGED fate
        /\ lock'[b] \in {"confirmed", "released"}
        /\ lock'[b] = "confirmed" => slot'[b].status = "confirmed"
        /\ slot'[b].what = slot[b].what
        /\ Cal!Taken(b)' <=> Cal!Taken(b)
        /\ slot[b].status = "confirmed" => slot'[b].status = "confirmed"
    <3>1. CASE Cal!Confirm(b) /\ lock' = [lock EXCEPT ![b] = "confirmed"]
      BY <1>5, <3>1 DEF ConfirmReservation, Cal!Confirm, SagaInv, TypeOK, Cal!Taken
    <3>2. CASE UNCHANGED slot
      BY <1>5, <3>2 DEF ConfirmReservation, SagaInv, TypeOK, Cal!Taken, Cal!Confirm
    <3>3. QED
      BY <1>5, <3>1, <3>2 DEF ConfirmReservation
  <2>2. book[b].status = "held" /\ Owed("PaymentSucceeded", b)
    BY <2>1 DEF SagaInv, Saga
  <2>3. Apart'
    <3>1. \A q \in Calls : slot'[q].what = slot[q].what /\ (Cal!Taken(q)' <=> Cal!Taken(q))
      BY <1>1, <2>1 DEF Cal!Taken
    <3>2. QED
      BY <3>1 DEF SagaInv, Apart, Cal!Overlap
  <2>4. Saga'
    BY <1>1, <2>1, <2>2 DEF SagaInv, Saga, Owed
  <2>5. Backed' /\ NoStrandedReservation'
    BY <1>1, <2>1, <2>2 DEF SagaInv, Backed, NoStrandedReservation, Confirmed, Owed
  <2>6. QED
    BY <1>2, <2>3, <2>4, <2>5 DEF SagaKept
<1>6. CASE RollbackPayment(b)
  <2>1. UNCHANGED <<slot, fate>> /\ lock'[b] = "free"
    BY <1>6 DEF RollbackPayment, SagaInv, TypeOK
  <2>2. Apart' /\ Saga' /\ Backed' /\ NoStrandedReservation'
    BY <1>1, <2>1
       DEF SagaInv, Apart, Cal!Taken, Saga, Backed, NoStrandedReservation, Confirmed, Owed
  <2>3. QED
    BY <1>2, <2>2 DEF SagaKept
<1>7. QED
  BY <1>3, <1>4, <1>5, <1>6

\* Availability gives a window back: at the deadline of a hold, or when the
\* booking was cancelled, never under a confirmed booking.
LEMMA GiveBackStep ==
  ASSUME SagaInv, NEW b \in Calls, Compensate(b) \/ Sweep(b)
  PROVE  SagaKept'
<1>1. /\ UNCHANGED <<book, facts, pc, lock, charge>>
      /\ \A q \in Calls : q # b => slot'[q] = slot[q]
  BY DEF Compensate, Sweep, callVars, SagaInv, TypeOK, Cal!Release
<1>2. \/ UNCHANGED slot
      \/ slot'[b].status = "released" /\ slot'[b].what = slot[b].what
  BY DEF Compensate, Sweep, SagaInv, TypeOK, Cal!Release
<1>3. FactsMatchBooking'
  BY <1>1 DEF SagaInv, FactsMatchBooking, Confirmed
<1>4. Apart'
  <2>1. \A q \in Calls : slot'[q].what = slot[q].what /\ (Cal!Taken(q)' => Cal!Taken(q))
    BY <1>1, <1>2 DEF Cal!Taken
  <2>2. QED
    BY <2>1 DEF SagaInv, Apart, Cal!Overlap
<1>5. CASE Compensate(b)
  <2>1. Deliver({Message("BookingCancelled", b)}, {}) /\ News(b) = "owed"
    BY <1>5 DEF Compensate, Owed, News
  <2>2. book[b].status = "cancelled"
    BY <2>1 DEF SagaInv, Saga, News
  <2>3. /\ \A q \in Calls : Paid(q)' = Paid(q)
        /\ \A q \in Calls : q # b => News(q)' = News(q)
    BY <2>1, MessageIs, FateStep
  <2>4. slot'[b].status # "confirmed"
    BY <1>5 DEF Compensate, Cal!Release, Cal!Taken, SagaInv, TypeOK
  <2>5. lock[b] = "free"
    BY <2>2 DEF SagaInv, Saga
  <2>6. Saga'
    BY <1>1, <2>2, <2>3, <2>5 DEF SagaInv, Saga, Owed, Paid, News
  <2>7. Backed' /\ NoStrandedReservation'
    BY <1>1, <2>2, <2>3, <2>4
       DEF SagaInv, Backed, NoStrandedReservation, Confirmed, Paid, News
  <2>8. QED
    BY <1>3, <1>4, <2>6, <2>7 DEF SagaKept
<1>6. CASE Sweep(b)
  <2>1. /\ slot[b].status = "held" /\ slot'[b].status = "released"
        /\ Deliver({}, {Message("ReservationReleased", b)})
    BY <1>6 DEF Sweep, Cal!Release, SagaInv, TypeOK
  <2>2. \A q \in Calls : Paid(q)' = Paid(q) /\ News(q)' = News(q)
    BY <2>1, MessageIs, FateStep
  <2>3. Saga'
    BY <1>1, <2>1, <2>2 DEF SagaInv, Saga, Owed, Paid, News
  <2>4. Backed' /\ NoStrandedReservation'
    BY <1>1, <2>1, <2>2
       DEF SagaInv, Backed, NoStrandedReservation, Confirmed, Paid, News
  <2>5. QED
    BY <1>3, <1>4, <2>3, <2>4 DEF SagaKept
<1>7. QED
  BY <1>5, <1>6

\* Payment states how a payment ended, once.
LEMMA ChargeStep ==
  ASSUME SagaInv, NEW b \in Calls,
         NEW outcome \in {"PaymentSucceeded", "PaymentFailed"}, Charge(b, outcome)
  PROVE  SagaKept'
<1>1. /\ charge[b] = "none" /\ charge'[b] = outcome
      /\ \A q \in Calls : q # b => charge'[q] = charge[q]
      /\ UNCHANGED <<slot, book, facts, pc, lock>>
      /\ Deliver({}, {Message(outcome, b)})
  BY DEF Charge, callVars, SagaInv, TypeOK
<1>2. Paid(b) = "none" /\ ~Confirmed(b) /\ lock[b] = "free"
  BY <1>1 DEF SagaInv, Saga, Backed, Owed, Paid
<1>3. /\ \A q \in Calls : News(q)' = News(q)
      /\ \A q \in Calls : q # b => Paid(q)' = Paid(q)
      /\ Paid(b)' # "none" => outcome = "PaymentSucceeded"
  BY <1>1, <1>2, MessageIs, FateStep
<1>4. Apart' /\ FactsMatchBooking'
  BY <1>1 DEF SagaInv, Apart, Cal!Taken, FactsMatchBooking, Confirmed
<1>5. Saga'
  BY <1>1, <1>2, <1>3 DEF SagaInv, Saga, Owed, Paid, News
<1>6. Backed'
  BY <1>1, <1>2 DEF SagaInv, Backed, Confirmed
<1>7. NoStrandedReservation'
  BY <1>1, <1>2, <1>3 DEF SagaInv, NoStrandedReservation, Confirmed, Paid, News
<1>8. QED
  BY <1>4, <1>5, <1>6, <1>7 DEF SagaKept

\* A parked event is not lost: what waits for it still waits.
LEMMA ParkStep ==
  ASSUME SagaInv, NEW m \in Messages, Park(m)
  PROVE  SagaKept'
<1>1. /\ UNCHANGED <<slot, book, facts, pc, lock, charge>>
      /\ fate[m] = "owed" /\ lock[m.booking] = "free"
      /\ fate' = [fate EXCEPT ![m] = "parked"]
  BY DEF Park, callVars
<1>2. \A n \in Messages : fate'[n] = IF n = m THEN "parked" ELSE fate[n]
  BY <1>1 DEF SagaInv, TypeOK
<1>3. \A q \in Calls : /\ Message("PaymentSucceeded", q) \in Messages
                       /\ Message("BookingCancelled", q) \in Messages
                       /\ Message("PaymentSucceeded", q).booking = q
  BY MessageIs DEF EventNames, Message
<1>4. \A q \in Calls :
        /\ Paid(q)' = Paid(q) \/ (Paid(q) = "owed" /\ Paid(q)' = "parked" /\ lock[q] = "free")
        /\ News(q)' = News(q) \/ (News(q) = "owed" /\ News(q)' = "parked")
  BY <1>1, <1>2, <1>3 DEF Paid, News
<1>5. Apart' /\ FactsMatchBooking' /\ Backed'
  BY <1>1 DEF SagaInv, Apart, Cal!Taken, FactsMatchBooking, Confirmed, Backed
<1>6. Saga'
  BY <1>1, <1>4 DEF SagaInv, Saga, Owed, Paid, News
<1>7. NoStrandedReservation'
  BY <1>1, <1>4 DEF SagaInv, NoStrandedReservation, Confirmed, Paid, News
<1>8. QED
  BY <1>5, <1>6, <1>7 DEF SagaKept

\* Every step of the saga, of its callers and of the services around it.
LEMMA SagaStep == SagaInv /\ [Next]_vars => SagaInv'
<1> SUFFICES ASSUME SagaInv, [Next]_vars PROVE SagaInv'
  OBVIOUS
<1>1. TypeOK' /\ Asked'
  BY TypeStep DEF SagaInv, Saga
<1>2. SUFFICES SagaKept'
  BY <1>1 DEF SagaInv, SagaKept
<1>3. ASSUME NEW c \in Calls,
             \/ \E k \in Keys, w \in Windows : CreateBooking(c, k, w)
             \/ FindIdempotent(c) \/ AbortCreate(c)
      PROVE  SagaKept'
  <2>1. /\ UNCHANGED <<slot, book, facts, lock, charge, fate>>
        /\ \A b \in Calls : pc[b] = "done" => pc'[b] = "done"
    BY <1>3 DEF CreateBooking, FindIdempotent, AbortCreate, Finish, Goto, SagaInv, TypeOK
  <2>2. QED
    BY <2>1, QuietStep DEF Paid, News
<1>4. CASE UNCHANGED vars
  BY <1>4, QuietStep DEF vars, callVars, Paid, News
<1>5. ASSUME NEW b \in Calls, PrepareContext(b) PROVE SagaKept'
  <2>1. \A q \in Calls : Paid(q)' = Paid(q) /\ News(q)' = News(q)
    BY <1>5, MessageIs, FateStep DEF PrepareContext
  <2>2. QED
    BY <1>5, <2>1, QuietStep DEF PrepareContext, callVars
<1>6. ASSUME NEW b \in Calls,
             Cancel(b) \/ PaymentFailed(b) \/ ReservationReleased(b) \/ CommitPayment(b)
      PROVE  SagaKept'
  <2>1. /\ lock'[b] = "free" /\ \A q \in Calls : q # b => lock'[q] = lock[q]
        /\ UNCHANGED <<slot, pc, charge>>
    BY <1>6 DEF Cancel, PaymentFailed, ReservationReleased, CommitPayment, callVars,
                SagaInv, TypeOK
  <2>2. lock[b] # "free" => book[b].status = "held" /\ Owed("PaymentSucceeded", b)
    BY DEF SagaInv, Saga
  <2>3. CASE CommitPayment(b)
    <3>1. \/ Confirms(b, {Message("PaymentSucceeded", b)})
          \/ Cancels(b, {Message("PaymentSucceeded", b)})
      BY <2>2, <2>3, RowEffect DEF SagaInv
    <3>2. book' # book
      BY <3>1 DEF Confirms, Cancels, SagaInv, TypeOK, RowOf
    <3>3. Owed("PaymentSucceeded", b)
      BY <2>2, <2>3 DEF CommitPayment
    <3>4. QED
      BY <2>1, <3>1, <3>2, <3>3, RowSagaStep, MessageIs DEF RowStep, Kept
  <2>4. CASE Cancel(b) \/ PaymentFailed(b) \/ ReservationReleased(b)
    <3>1. PICK handled \in {{}, {Message("PaymentFailed", b)},
                            {Message("ReservationReleased", b)}} : RowStep(b, handled)
      BY <2>2, <2>4, RowEffect DEF SagaInv
    <3>2. \A q \in Calls : /\ Message("BookingCancelled", q) \notin handled
                           /\ Message("PaymentSucceeded", q) \notin handled
      BY MessageIs
    <3>3. QED
      BY <2>1, <3>1, <3>2, RowSagaStep
  <2>5. QED
    BY <1>6, <2>3, <2>4
<1>7. QED
  BY <1>3, <1>4, <1>5, <1>6, HoldStep, InsertStep, ConfirmStep, GiveBackStep,
     ChargeStep, ParkStep
     DEF Next, Create, ConfirmPaid, Consume

\* Every variable stays within its type, from the first state on.
THEOREM TypeCorrect == Spec => []TypeOK
<1>1. SagaInv => TypeOK
  BY DEF SagaInv
<1>2. QED
  BY <1>1, SagaInit, SagaStep, PTL DEF Spec

\* A confirmed booking was paid for and has its watercraft to itself.
THEOREM ConfirmedBookingsAreBacked == Spec => []ConfirmedIsBacked
<1>1. SagaInv => ConfirmedIsBacked
  BY DEF SagaInv, ConfirmedIsBacked, Backed, Apart, Cal!Taken
<1>2. QED
  BY <1>1, SagaInit, SagaStep, PTL DEF Spec

\* What Booking's outbox says of a booking is what happened to it.
THEOREM BookingTellsTheTruth == Spec => []FactsMatchBooking
<1>1. SagaInv => FactsMatchBooking
  BY DEF SagaInv
<1>2. QED
  BY <1>1, SagaInit, SagaStep, PTL DEF Spec

\* Nobody's window is confirmed for good without a booking, or an event on its
\* way or in a dead-letter queue, that accounts for it.
THEOREM NoReservationIsStranded == Spec => []NoStrandedReservation
<1>1. SagaInv => NoStrandedReservation
  BY DEF SagaInv
<1>2. QED
  BY <1>1, SagaInit, SagaStep, PTL DEF Spec

-----------------------------------------------------------------------------
(* What Booking takes for granted of its events is what Delivery promises. *)

\* The change an event tells of.
Ground(event, b) ==
  \/ event = "BookingHeld" /\ book[b].status # "none"
  \/ event = "BookingConfirmed" /\ book[b].status \in {"confirmed", "cancelled"}
  \/ event = "BookingCancelled" /\ book[b].status = "cancelled"
  \/ event = "PaymentSucceeded" /\ charge[b] = "PaymentSucceeded"
  \/ event = "PaymentFailed" /\ charge[b] = "PaymentFailed"
  \/ event = "ReservationReleased" /\ slot[b].status = "released"

\* No event without the change it tells of.
Grounded ==
  \A e \in EventNames, b \in Calls :
    fate[Message(e, b)] # "none" => Ground(e, b)

Moves(m) ==
  \/ fate'[m] = fate[m]
  \/ fate[m] = "none" /\ fate'[m] = "owed"
  \/ fate[m] = "owed" /\ fate'[m] \in {"handled", "parked"}

EventsMove == Grounded' /\ \A m \in Messages : Moves(m)

GroundsLast == \A e \in EventNames, b \in Calls : Ground(e, b) => Ground(e, b)'

\* A booking goes from held to confirmed to cancelled, a payment ends once, and a
\* released reservation stays so: such changes are never undone.
LEMMA ChangesLast ==
  ASSUME \A b \in Calls :
           /\ \/ book'[b].status = book[b].status
              \/ book[b].status = "none"
              \/ book[b].status = "held" /\ book'[b].status \in {"confirmed", "cancelled"}
              \/ book'[b].status = "cancelled"
           /\ charge'[b] = charge[b] \/ charge[b] = "none"
           /\ slot[b].status = "released" => slot'[b].status = "released"
  PROVE  GroundsLast
BY DEF GroundsLast, Ground

\* A transaction handles what it is owed, and stages an event with the change it
\* tells of.
LEMMA DeliveryMoves ==
  ASSUME Grounded, GroundsLast, NEW handled, NEW staged, Deliver(handled, staged),
         \A m \in Messages : m \in handled => fate[m] = "owed",
         \A e \in EventNames, b \in Calls :
           Message(e, b) \in staged => ~Ground(e, b) /\ Ground(e, b)'
  PROVE  EventsMove
<1>1. \A m \in Messages :
        fate'[m] = IF m \in staged THEN "owed"
                   ELSE IF m \in handled THEN "handled" ELSE fate[m]
  BY DeliverEffect
<1>2. \A m \in Messages : \E e \in EventNames, b \in Calls : m = Message(e, b)
  BY DEF Messages, Message, EventNames
<1>3. \A m \in Messages : m \in staged => fate[m] = "none"
  BY <1>2 DEF Grounded
<1>4. \A m \in Messages : Moves(m)
  BY <1>1, <1>3 DEF Moves
<1>5. Grounded'
  <2> SUFFICES ASSUME NEW e \in EventNames, NEW b \in Calls,
                      fate'[Message(e, b)] # "none"
               PROVE  Ground(e, b)'
    BY DEF Grounded
  <2>1. Message(e, b) \in Messages
    BY MessageIs
  <2>2. Message(e, b) \in staged \/ fate[Message(e, b)] # "none"
    BY <1>1, <2>1
  <2> QED
    BY <2>2 DEF Grounded, GroundsLast
<1> QED
  BY <1>4, <1>5 DEF EventsMove

\* A transaction that stages one event ...
LEMMA StagingMoves ==
  ASSUME Grounded, GroundsLast, NEW handled,
         NEW e \in EventNames, NEW b \in Calls, Deliver(handled, {Message(e, b)}),
         \A m \in Messages : m \in handled => fate[m] = "owed",
         ~Ground(e, b), Ground(e, b)'
  PROVE  EventsMove
<1>1. \A f \in EventNames, d \in Calls :
        Message(f, d) \in {Message(e, b)} => ~Ground(f, d) /\ Ground(f, d)'
  <2> SUFFICES ASSUME NEW f \in EventNames, NEW d \in Calls,
                      Message(f, d) \in {Message(e, b)}
               PROVE  ~Ground(f, d) /\ Ground(f, d)'
    OBVIOUS
  <2>1. f = e /\ d = b
    BY MessageIs
  <2> QED
    BY <2>1
<1> DEFINE staged == {Message(e, b)}
<1> HIDE DEF staged
<1>2. Deliver(handled, staged)
  BY DEF staged
<1>3. \A f \in EventNames, d \in Calls :
        Message(f, d) \in staged => ~Ground(f, d) /\ Ground(f, d)'
  BY <1>1 DEF staged
<1> QED
  BY <1>2, <1>3, DeliveryMoves

\* ... with or without handling another, ...
LEMMA AnnouncingMoves ==
  ASSUME Grounded, GroundsLast, NEW e \in EventNames, NEW b \in Calls,
         Deliver({}, {Message(e, b)}), ~Ground(e, b), Ground(e, b)'
  PROVE  EventsMove
<1> DEFINE handled == {}
<1>1. /\ Deliver(handled, {Message(e, b)})
      /\ \A m \in Messages : m \in handled => fate[m] = "owed"
  OBVIOUS
<1> HIDE DEF handled
<1> QED
  BY <1>1, StagingMoves

\* ... or handles one.
LEMMA HandlingMoves ==
  ASSUME Grounded, GroundsLast, NEW e \in EventNames, NEW b \in Calls,
         Owed(e, b), Deliver({Message(e, b)}, {})
  PROVE  EventsMove
<1> DEFINE handled == {Message(e, b)}
           staged == {}
<1>1. /\ Deliver(handled, staged)
      /\ \A m \in Messages : m \in handled => fate[m] = "owed"
      /\ \A f \in EventNames, d \in Calls : Message(f, d) \notin staged
  BY DEF Owed
<1> HIDE DEF handled, staged
<1> QED
  BY <1>1, DeliveryMoves

\* So does a step that delivers nothing.
LEMMA NothingMoves ==
  ASSUME Grounded, GroundsLast, fate' = fate
  PROVE  EventsMove
BY DEF Grounded, GroundsLast, EventsMove, Moves

\* Every step moves each event as Delivery lets it.
LEMMA EventsStep == SagaInv /\ Grounded /\ [Next]_vars => EventsMove
<1> SUFFICES ASSUME SagaInv, Grounded, [Next]_vars
             PROVE  EventsMove
  OBVIOUS
<1> USE DEF SagaInv, TypeOK
<1>1. ASSUME NEW c \in Calls,
             \/ \E k \in Keys, w \in Windows : CreateBooking(c, k, w)
             \/ FindIdempotent(c) \/ AbortCreate(c) \/ Hold(c)
      PROVE  EventsMove
  <2>1. UNCHANGED <<book, charge, fate>>
    BY <1>1 DEF CreateBooking, FindIdempotent, AbortCreate, Hold
  <2>2. \/ slot' = slot
        \/ slot[c].status = "none" /\ \A b \in Calls \ {c} : slot'[b] = slot[b]
    BY <1>1 DEF CreateBooking, FindIdempotent, AbortCreate, Hold, Cal!Hold
  <2>3. GroundsLast
    BY <2>1, <2>2, ChangesLast
  <2> QED
    BY <2>1, <2>3, NothingMoves
<1>2. ASSUME NEW b \in Calls, ConfirmReservation(b) \/ RollbackPayment(b)
      PROVE  EventsMove
  <2>1. UNCHANGED <<book, charge, fate>>
    BY <1>2 DEF ConfirmReservation, RollbackPayment
  <2>2. \/ slot' = slot
        \/ slot[b].status = "held" /\ \A d \in Calls \ {b} : slot'[d] = slot[d]
    BY <1>2 DEF ConfirmReservation, RollbackPayment, Cal!Confirm
  <2>3. GroundsLast
    BY <2>1, <2>2, ChangesLast
  <2> QED
    BY <2>1, <2>3, NothingMoves
<1>3. CASE UNCHANGED vars
  <2>1. UNCHANGED <<book, charge, fate, slot>>
    BY <1>3 DEF vars
  <2> QED
    BY <2>1, ChangesLast, NothingMoves
<1>4. ASSUME NEW b \in Calls, PaymentSucceeded(b)
      PROVE  EventsMove
  <2>1. UNCHANGED <<book, charge, slot>> /\ Owed("PaymentSucceeded", b)
        /\ (fate' = fate \/ Deliver({Message("PaymentSucceeded", b)}, {}))
    BY <1>4 DEF PaymentSucceeded
  <2>2. GroundsLast
    BY <2>1, ChangesLast
  <2> QED
    BY <2>1, <2>2, NothingMoves, HandlingMoves DEF EventNames
<1>5. ASSUME NEW b \in Calls, PrepareContext(b)
      PROVE  EventsMove
  <2>1. UNCHANGED <<book, charge, slot>> /\ Owed("BookingHeld", b)
        /\ Deliver({Message("BookingHeld", b)}, {})
    BY <1>5 DEF PrepareContext
  <2>2. GroundsLast
    BY <2>1, ChangesLast
  <2> QED
    BY <2>1, <2>2, HandlingMoves DEF EventNames
<1>6. ASSUME NEW b \in Calls, Compensate(b)
      PROVE  EventsMove
  <2>1. UNCHANGED <<book, charge>> /\ Owed("BookingCancelled", b)
        /\ Deliver({Message("BookingCancelled", b)}, {})
    BY <1>6 DEF Compensate
  <2>2. \/ slot' = slot
        \/ Cal!Taken(b) /\ \A d \in Calls \ {b} : slot'[d] = slot[d]
    BY <1>6 DEF Compensate, Cal!Release
  <2>3. GroundsLast
    BY <2>1, <2>2, ChangesLast DEF Cal!Taken
  <2> QED
    BY <2>1, <2>3, HandlingMoves DEF EventNames
<1>7. ASSUME NEW b \in Calls, Sweep(b)
      PROVE  EventsMove
  <2>1. UNCHANGED <<book, charge>> /\ slot[b].status = "held"
        /\ Deliver({}, {Message("ReservationReleased", b)})
    BY <1>7 DEF Sweep
  <2>2. slot'[b].status = "released" /\ \A d \in Calls \ {b} : slot'[d] = slot[d]
    BY <1>7 DEF Sweep, Cal!Release
  <2>3. GroundsLast
    BY <2>1, <2>2, ChangesLast
  <2>4. ~Ground("ReservationReleased", b) /\ Ground("ReservationReleased", b)'
    BY <2>1, <2>2 DEF Ground
  <2> QED
    BY <2>1, <2>3, <2>4, AnnouncingMoves DEF EventNames
<1>8. ASSUME NEW b \in Calls, NEW outcome \in {"PaymentSucceeded", "PaymentFailed"},
             Charge(b, outcome)
      PROVE  EventsMove
  <2>1. UNCHANGED <<book, slot>> /\ charge[b] = "none" /\ charge'[b] = outcome
        /\ \A d \in Calls \ {b} : charge'[d] = charge[d]
    BY <1>8 DEF Charge
  <2>2. GroundsLast
    BY <2>1, ChangesLast
  <2>3. ~Ground(outcome, b) /\ Ground(outcome, b)'
    BY <2>1 DEF Ground
  <2>4. Deliver({}, {Message(outcome, b)})
    BY <1>8 DEF Charge
  <2> QED
    BY <2>2, <2>3, <2>4, AnnouncingMoves DEF EventNames
<1>9. ASSUME NEW c \in Calls, Insert(c)
      PROVE  EventsMove
  <2>1. UNCHANGED <<charge, slot>> /\ book[c].status = "none"
        /\ Deliver({}, {Message("BookingHeld", c)})
    BY <1>9 DEF Insert, Saga
  <2>2. book'[c].status = "held" /\ \A d \in Calls \ {c} : book'[d] = book[d]
    BY <1>9 DEF Insert, RowOf
  <2>3. GroundsLast
    BY <2>1, <2>2, ChangesLast
  <2>4. ~Ground("BookingHeld", c) /\ Ground("BookingHeld", c)'
    BY <2>1, <2>2 DEF Ground
  <2> QED
    BY <2>1, <2>3, <2>4, AnnouncingMoves DEF EventNames
<1>10. ASSUME NEW b \in Calls, NEW handled, RowStep(b, handled),
              UNCHANGED <<charge, slot>>,
              \A m \in Messages : m \in handled => fate[m] = "owed"
       PROVE  EventsMove
  <2>1. CASE Kept(b, handled)
    <3>1. GroundsLast
      BY <1>10, <2>1, ChangesLast DEF Kept
    <3> DEFINE staged == {}
    <3>2. /\ Deliver(handled, staged)
          /\ \A e \in EventNames, d \in Calls : Message(e, d) \notin staged
      BY <2>1 DEF Kept
    <3> HIDE DEF staged
    <3> QED
      BY <1>10, <3>1, <3>2, DeliveryMoves
  <2>2. ASSUME NEW x \in {"BookingConfirmed", "BookingCancelled"},
               \/ book[b].status = "held"
               \/ x = "BookingCancelled" /\ Confirmed(b),
               book'[b].status = IF x = "BookingConfirmed" THEN "confirmed" ELSE "cancelled",
               \A d \in Calls \ {b} : book'[d] = book[d],
               Deliver(handled, {Message(x, b)})
        PROVE  EventsMove
    <3>1. GroundsLast
      BY <1>10, <2>2, ChangesLast
    <3>2. ~Ground(x, b) /\ Ground(x, b)'
      BY <2>2 DEF Ground, Confirmed
    <3> QED
      <4>1. x \in EventNames
        BY DEF EventNames
      <4>2. Deliver(handled, {Message(x, b)})
        BY <2>2
      <4>3. \A m \in Messages : m \in handled => fate[m] = "owed"
        BY <1>10
      <4> HIDE DEF SagaInv, TypeOK
      <4> QED
        BY <3>1, <3>2, <4>1, <4>2, <4>3, StagingMoves
  <2>3. CASE Confirms(b, handled)
    BY <2>2, <2>3 DEF Confirms, RowOf
  <2>4. CASE Cancels(b, handled)
    BY <2>2, <2>4 DEF Cancels, RowOf, Confirmed
  <2> QED
    BY <1>10, <2>1, <2>3, <2>4 DEF RowStep
<1>11. ASSUME NEW b \in Calls,
              Cancel(b) \/ PaymentFailed(b) \/ ReservationReleased(b) \/ CommitPayment(b)
       PROVE  EventsMove
  <2>1. lock[b] # "free" => book[b].status = "held" /\ Owed("PaymentSucceeded", b)
    BY DEF Saga
  <2>2. UNCHANGED <<charge, slot>>
    BY <1>11 DEF Cancel, PaymentFailed, ReservationReleased, CommitPayment
  <2>3. CASE Cancel(b)
    <3>1. RowStep(b, {}) /\ \A m \in Messages : m \in {} => fate[m] = "owed"
      BY <2>1, <2>3, RowEffect
    <3> QED
      BY <1>10, <2>2, <3>1
  <2>4. ASSUME NEW e \in EventNames, Owed(e, b), RowStep(b, {Message(e, b)})
        PROVE  EventsMove
    BY <1>10, <2>2, <2>4 DEF Owed
  <2>5. CASE PaymentFailed(b)
    BY <2>1, <2>4, <2>5, RowEffect DEF PaymentFailed, EventNames
  <2>6. CASE ReservationReleased(b)
    BY <2>1, <2>4, <2>6, RowEffect DEF ReservationReleased, EventNames
  <2>7. CASE CommitPayment(b)
    <3>1. Owed("PaymentSucceeded", b)
      BY <2>1, <2>7 DEF CommitPayment
    <3> QED
      BY <2>1, <2>4, <2>7, <3>1, RowEffect DEF RowStep, EventNames
  <2> QED
    BY <1>11, <2>3, <2>5, <2>6, <2>7
<1>12. ASSUME NEW m \in Messages, Park(m)
       PROVE  EventsMove
  <2>1. /\ UNCHANGED <<book, charge, slot>> /\ fate[m] = "owed"
        /\ fate'[m] = "parked" /\ \A n \in Messages \ {m} : fate'[n] = fate[n]
    BY <1>12 DEF Park
  <2>2. GroundsLast
    BY <2>1, ChangesLast
  <2> QED
    BY <2>1, <2>2, MessageIs DEF EventsMove, Moves, Grounded, GroundsLast
<1> QED
  BY <1>1, <1>2, <1>3, <1>4, <1>5, <1>6, <1>7, <1>8, <1>9, <1>11, <1>12
     DEF Next, Create, ConfirmPaid, Consume

\* Each event on its own is delivered as Delivery promises.
Delivered(m) == INSTANCE Delivery WITH Events <- {m}, fate <- [x \in {m} |-> fate[x]]

\* The saga takes no more for granted of its events than Delivery promises, which
\* EventPipeline implements: each is staged at most once, with the change it tells
\* of, and once it was handled or parked nothing more becomes of it.
THEOREM EventsAreDelivered == Spec => \A m \in Messages : Delivered(m)!Spec
<1> SUFFICES ASSUME NEW m \in Messages
             PROVE  Spec => Delivered(m)!Spec
  OBVIOUS
<1>1. Init => Grounded
  BY MessageIs DEF Init, Grounded
<1>2. Init => Delivered(m)!Init
  BY DEF Init, Delivered!Init
<1>3. SagaInv /\ Grounded /\ [Next]_vars =>
        [Delivered(m)!Next]_([x \in {m} |-> fate[x]])
  <2> SUFFICES ASSUME SagaInv, Grounded, [Next]_vars
               PROVE  [Delivered(m)!Next]_([x \in {m} |-> fate[x]])
    OBVIOUS
  <2>1. Moves(m)
    BY EventsStep DEF EventsMove
  <2>2. CASE fate[m] = "none" /\ fate'[m] = "owed"
    BY <2>2 DEF Delivered!Next, Delivered!Stage
  <2>3. CASE fate[m] = "owed" /\ fate'[m] = "handled"
    BY <2>3 DEF Delivered!Next, Delivered!Handle
  <2>4. CASE fate[m] = "owed" /\ fate'[m] = "parked"
    <3>1. Delivered(m)!Park({m})
      BY <2>4 DEF Delivered!Park
    <3> QED
      BY <3>1 DEF Delivered!Next
  <2> QED
    BY <2>1, <2>2, <2>3, <2>4 DEF Moves
<1>4. SagaInv /\ Grounded /\ [Next]_vars => Grounded'
  BY EventsStep DEF EventsMove
<1> QED
  BY <1>1, <1>2, <1>3, <1>4, SagaInit, SagaStep, PTL DEF Spec, Delivered!Spec

=============================================================================
