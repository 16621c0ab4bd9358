---------------------------- MODULE PaymentProofs ----------------------------
(***************************************************************************)
(* Theorems about Payment, for every set of calls, keys, bookings and      *)
(* webhook transactions, and every number of faults.                       *)
(***************************************************************************)
EXTENDS Payment, TLAPS, SequenceTheorems

-----------------------------------------------------------------------------
(* The inductive invariant. *)

Requests == [key : Keys, booking : Bookings]
InTransaction == {"claimed", "inserted"}

\* Only a call that was not made yet has asked for nothing, and a call that
\* recovers a client secret has found the payment its key stands for.
Asked ==
  \A c \in Calls : /\ pc[c] # "idle" => req[c] \in Requests
                   /\ pc[c] = "recover" => Holder(c) # NoCall

\* A key and the payment it stands for point at each other; a key that is being
\* claimed stands for nothing yet, and one transaction at a time claims it.
KeyTable ==
  /\ \A k \in Keys : keys[k] # NoCall => Exists(keys[k]) /\ req[keys[k]].key = k
  /\ \A r \in Calls : Exists(r) => pc[r] = "done" /\ keys[req[r].key] = r
  /\ \A c \in Calls : pc[c] \in InTransaction => Holder(c) = NoCall
  /\ \A c, d \in Calls :
       c # d /\ pc[c] \in InTransaction /\ pc[d] \in InTransaction =>
         req[c].key # req[d].key

\* Whoever is past the request to Stripe has an intent for its own booking: an
\* intent is never given to another booking.
Intents ==
  \A c \in Calls :
    pc[c] \in {"claim", "claimed", "inserted"} \/ Exists(c) =>
      intent[req[c].key] = req[c].booking

\* A booking has one payment, committed or about to be.
OnePaymentPerBooking ==
  /\ \A r, q \in Calls :
       r # q /\ Exists(r) /\ Exists(q) => req[r].booking # req[q].booking
  /\ \A c, r \in Calls :
       pc[c] = "inserted" /\ Exists(r) => req[r].booking # req[c].booking
  /\ \A c, d \in Calls :
       c # d /\ pc[c] = "inserted" /\ pc[d] = "inserted" =>
         req[d].booking # req[c].booking

\* A call that recovers a client secret found a payment for its own request,
\* and a call has its answer when it is done.
Answers ==
  /\ \A c \in Calls : pc[c] = "recover" => SameFingerprint(c)
  /\ \A c \in Calls : answer[c].kind = "stored" =>
       pc[c] = "done" /\ answer[c].id \in Calls
  /\ AnswerIsOwnPayment

CallInv ==
  /\ TypeOK
  /\ Asked
  /\ KeyTable
  /\ Intents
  /\ OnePaymentPerBooking
  /\ Answers

-----------------------------------------------------------------------------
(* Types. *)

\* The empty service.
LEMMA InitType == Init => TypeOK /\ Asked
BY PaymentAssumption DEF Init, TypeOK, Asked, Idle, Answer, Rejected, Statuses

\* What a transition of a payment returns.
LEMMA TransitionType ==
  ASSUME TypeOK, NEW h \in Hooks, hook[h].pc = "locked"
  PROVE  /\ OutcomeTransition(h).next \in Statuses
         /\ OutcomeTransition(h).emits \in Seq({"PaymentSucceeded", "PaymentFailed"})
<1> DEFINE S == {"PaymentSucceeded", "PaymentFailed"}
<1>1. hook[h].read \in Statuses
  BY DEF TypeOK, Idle
<1>2. <<>> \in Seq(S) /\ <<"PaymentSucceeded">> \in Seq(S) /\ <<"PaymentFailed">> \in Seq(S)
  OBVIOUS
<1>3. \A status \in Statuses :
        /\ Keep(status).next \in Statuses /\ Keep(status).emits \in Seq(S)
        /\ MarkSucceeded(status).next \in Statuses
        /\ MarkSucceeded(status).emits \in Seq(S)
        /\ MarkFailed(status).next \in Statuses
        /\ MarkFailed(status).emits \in Seq(S)
  BY <1>2 DEF Keep, MarkSucceeded, MarkFailed, Statuses
<1>4. OutcomeTransition(h) \in {Keep(hook[h].read), MarkSucceeded(hook[h].read),
                               MarkFailed(hook[h].read)}
  BY DEF OutcomeTransition
<1>5. QED
  BY <1>1, <1>3, <1>4

\* A call's answer is of the answers' type, and its place one of the places.
LEMMA FinishType ==
  ASSUME TypeOK, NEW c \in Calls, NEW a \in Answer, Finish(c, a)
  PROVE  /\ pc' = [pc EXCEPT ![c] = "done"]
         /\ pc' \in [Calls -> {"idle", "find", "recover", "check", "intend", "claim",
                               "claimed", "inserted", "done"}]
         /\ answer' \in [Calls -> Answer]
BY DEF TypeOK, Finish

\* Every step of a call keeps the types.
LEMMA CallTypeStep ==
  ASSUME TypeOK, Asked, NEW c \in Calls,
         (\E k \in Keys, b \in Bookings : CreatePayment(c, k, b)) \/ Serve(c)
  PROVE  TypeOK' /\ Asked'
<1> USE PaymentAssumption
<1> DEFINE Places == {"idle", "find", "recover", "check", "intend", "claim",
                      "claimed", "inserted", "done"}
<1>1. /\ \A kind \in {"booking_not_found", "booking_not_payable", "key_reuse",
                      "payment_already_exists", "error"} : Rejected(kind) \in Answer
      /\ Stored(c) \in Answer
      /\ pc[c] # "idle" /\ Holder(c) # NoCall => Stored(Holder(c)) \in Answer
  BY DEF Answer, Rejected, Stored, TypeOK, Asked, Requests, Holder
<1>2. \A a \in Answer : Finish(c, a) =>
        pc' \in [Calls -> Places] /\ answer' \in [Calls -> Answer]
  BY FinishType
<1>3. \A p \in Places : Goto(c, p) =>
        pc' \in [Calls -> Places] /\ answer' \in [Calls -> Answer]
  BY DEF Goto, TypeOK
<1> HIDE DEF Places
<1>4. \A d \in Calls : d # c => pc'[d] = pc[d]
  BY DEF CreatePayment, Serve, FindIdempotent, CheckBooking, CreateIntent, ClaimKey,
         InsertPayment, CommitPayment, AbortPayment, Finish, Goto, TypeOK
<1>5. CASE \E k \in Keys, b \in Bookings : CreatePayment(c, k, b)
  <2>1. pc' \in [Calls -> Places] /\ answer' \in [Calls -> Answer]
    BY <1>1, <1>2, <1>3, <1>5 DEF CreatePayment, Places
  <2>2. req' \in [Calls -> [key : Keys, booking : Bookings] \cup {NoReq}]
        /\ req'[c] \in Requests /\ \A d \in Calls : d # c => req'[d] = req[d]
    BY <1>5 DEF CreatePayment, TypeOK, Requests
  <2>3. TypeOK'
    BY <1>5, <2>1, <2>2 DEF CreatePayment, TypeOK, stripeVars, Places
  <2>4. keys' = keys /\ pc'[c] \in {"find", "done"}
    BY <1>5 DEF CreatePayment, Finish, Goto, TypeOK
  <2>5. Asked'
    BY <1>4, <2>2, <2>4 DEF Asked, Holder
  <2>6. QED
    BY <2>3, <2>5
<1>6. CASE Serve(c)
  <2>1. pc[c] # "idle"
    BY <1>6
       DEF Serve, FindIdempotent, CheckBooking, CreateIntent, ClaimKey,
           InsertPayment, CommitPayment, AbortPayment
  <2>2. \/ \E a \in Answer : Finish(c, a)
        \/ \E p \in Places : Goto(c, p)
    <3>1. CASE FindIdempotent(c) \/ CheckBooking(c) \/ AbortPayment(c) \/ InsertPayment(c)
      BY <1>1, <3>1 DEF FindIdempotent, CheckBooking, AbortPayment, InsertPayment, Places
    <3>2. CASE CreateIntent(c)
      <4>1. pc[c] = "recover" => Holder(c) # NoCall
        BY DEF Asked
      <4>2. QED
        BY <1>1, <2>1, <3>2, <4>1 DEF CreateIntent, Places
    <3>3. CASE ClaimKey(c) \/ CommitPayment(c)
      BY <1>1, <2>1, <3>3 DEF ClaimKey, CommitPayment, Places
    <3>4. QED
      BY <1>6, <3>1, <3>2, <3>3 DEF Serve
  <2>3. pc' \in [Calls -> Places] /\ answer' \in [Calls -> Answer]
    BY <1>2, <1>3, <2>2
  <2>4. intent' \in [Keys -> Bookings \cup {NoBooking}]
    BY <1>6, <2>1
       DEF Serve, FindIdempotent, CheckBooking, CreateIntent, ClaimKey, Intended,
           InsertPayment, CommitPayment, AbortPayment, TypeOK, stripeVars, Asked, Requests
  <2>5. payment' \in [Calls -> Statuses] /\ keys' \in [Keys -> Calls \cup {NoCall}]
    <3>1. CASE CommitPayment(c)
      <4>1. req[c].key \in Keys
        BY <2>1 DEF Asked, Requests
      <4>2. QED
        BY <3>1, <4>1 DEF CommitPayment, TypeOK, Statuses
    <3>2. CASE UNCHANGED <<payment, keys>>
      BY <3>2 DEF TypeOK
    <3>3. QED
      BY <1>6, <3>1, <3>2
         DEF Serve, FindIdempotent, CheckBooking, CreateIntent, ClaimKey,
             InsertPayment, AbortPayment
  <2>6. faults' \in 0 .. MaxFaults
    BY <1>6
       DEF Serve, FindIdempotent, CheckBooking, CreateIntent, ClaimKey, Fault,
           InsertPayment, CommitPayment, AbortPayment, TypeOK
  <2>7. UNCHANGED <<context, expired, req, facts, outcome, acked, seen, hook>>
    BY <1>6
       DEF Serve, FindIdempotent, CheckBooking, CreateIntent, ClaimKey,
           InsertPayment, CommitPayment, AbortPayment, stripeVars
  <2>8. TypeOK'
    BY <2>3, <2>4, <2>5, <2>6, <2>7 DEF TypeOK, Places
  <2>9. \A k \in Keys : keys[k] # NoCall => keys'[k] # NoCall
    BY <1>6, PaymentAssumption
       DEF Serve, FindIdempotent, CheckBooking, CreateIntent, ClaimKey,
           InsertPayment, CommitPayment, AbortPayment, TypeOK
  <2>10. pc'[c] = "recover" => Holder(c) # NoCall
    BY <1>6
       DEF Serve, FindIdempotent, CheckBooking, CreateIntent, ClaimKey, Finish,
           Goto, InsertPayment, CommitPayment, AbortPayment, TypeOK, Places
  <2>11. Asked'
    BY <1>4, <2>1, <2>7, <2>9, <2>10 DEF Asked, Holder, Requests
  <2>12. QED
    BY <2>8, <2>11
<1>7. QED
  BY <1>5, <1>6

\* So does every step of the webhook, of Stripe, of the projection, and time.
LEMMA OtherTypeStep ==
  ASSUME TypeOK, Asked,
         \/ \E b \in Bookings : BookingHeld(b) \/ Expire(b)
         \/ \E k \in Keys, type \in EventTypes : StripeOutcome(k, type)
         \/ \E e \in Event : IgnoreEvent(e)
         \/ \E h \in Hooks, e \in Event : LockPayment(h, e)
         \/ \E h \in Hooks : CommitOutcome(h) \/ RollbackOutcome(h)
         \/ UNCHANGED vars
  PROVE  TypeOK' /\ Asked'
<1> USE PaymentAssumption
<1>1. UNCHANGED <<pc, req, keys>>
  BY DEF BookingHeld, Expire, StripeOutcome, IgnoreEvent, LockPayment, CommitOutcome,
         RollbackOutcome, vars, callVars
<1>2. Asked'
  BY <1>1 DEF Asked, Holder
<1> SUFFICES TypeOK'
  BY <1>2
<1>3. CASE \E b \in Bookings : BookingHeld(b) \/ Expire(b)
  BY <1>3 DEF BookingHeld, Expire, TypeOK, stripeVars
<1>4. CASE \E k \in Keys, type \in EventTypes : StripeOutcome(k, type)
  BY <1>4 DEF StripeOutcome, TypeOK, callVars
<1>5. CASE \E e \in Event : IgnoreEvent(e)
  BY <1>5 DEF IgnoreEvent, Ack, TypeOK, callVars
<1>6. CASE \E h \in Hooks, e \in Event : LockPayment(h, e)
  BY <1>6 DEF LockPayment, Of, TypeOK, callVars, stripeVars
<1>7. ASSUME NEW h \in Hooks, CommitOutcome(h) PROVE TypeOK'
  <2>1. hook[h].id \in Calls /\ hook[h].event \in Event
    <3>1. PICK k : k = hook[h]
      OBVIOUS
    <3>2. k \in [pc : {"locked"}, event : Event, id : Calls, read : Statuses] \cup {Idle}
      BY <3>1 DEF TypeOK
    <3>3. k.pc = "locked"
      BY <1>7, <3>1 DEF CommitOutcome
    <3>4. k.id \in Calls /\ k.event \in Event
      BY <3>2, <3>3 DEF Idle
    <3> QED
      BY <3>1, <3>4
  <2>2. /\ OutcomeTransition(h).next \in Statuses
        /\ OutcomeTransition(h).emits \in Seq({"PaymentSucceeded", "PaymentFailed"})
    BY <1>7, TransitionType DEF CommitOutcome
  <2>3. payment' \in [Calls -> Statuses]
    BY <1>7, <2>1, <2>2 DEF CommitOutcome, TypeOK
  <2>4. facts' \in [Calls -> Seq({"PaymentSucceeded", "PaymentFailed"})]
    <3> DEFINE F == Seq({"PaymentSucceeded", "PaymentFailed"})
               emits == OutcomeTransition(h).emits
    <3>1. facts' = [facts EXCEPT ![hook[h].id] = facts[hook[h].id] \o emits]
      BY <1>7 DEF CommitOutcome
    <3>2. facts \in [Calls -> F] /\ facts[hook[h].id] \in F /\ emits \in F
      BY <2>1, <2>2 DEF TypeOK
    <3>3. facts[hook[h].id] \o emits \in F
      BY <3>2, ConcatProperties
    <3> HIDE DEF F, emits
    <3>4. facts' \in [Calls -> F]
      BY <3>1, <3>2, <3>3
    <3> QED
      BY <3>4 DEF F
  <2>5. hook' \in [Hooks -> [pc : {"locked"}, event : Event, id : Calls,
                             read : Statuses] \cup {Idle}]
    BY <1>7 DEF CommitOutcome, TypeOK
  <2>6. QED
    BY <1>7, <2>1, <2>3, <2>4, <2>5 DEF CommitOutcome, Ack, TypeOK, callVars
<1>8. CASE \E h \in Hooks : RollbackOutcome(h)
  BY <1>8 DEF RollbackOutcome, Fault, TypeOK, callVars, stripeVars
<1>9. CASE UNCHANGED vars
  BY <1>9 DEF vars, callVars, stripeVars, TypeOK
<1>10. QED
  BY <1>3, <1>4, <1>5, <1>6, <1>7, <1>8, <1>9

\* Every step keeps the types.
LEMMA TypeStep == TypeOK /\ Asked /\ [Next]_vars => TypeOK' /\ Asked'
BY CallTypeStep, OtherTypeStep DEF Next

\* Every variable stays within its type, from the first state on.
THEOREM TypeCorrect == Spec => []TypeOK
BY InitType, TypeStep, PTL DEF Spec

-----------------------------------------------------------------------------
(* The calls. *)

\* What the invariant of the calls says beside the types.
CallsApart == KeyTable /\ Intents /\ OnePaymentPerBooking /\ Answers

\* No call, no payment.
LEMMA CallInit == Init => CallInv
<1> SUFFICES ASSUME Init PROVE CallInv
  OBVIOUS
<1>1. TypeOK /\ Asked
  BY InitType
<1>2. \A c \in Calls : ~Exists(c) /\ pc[c] = "idle" /\ answer[c].kind = "none"
  BY DEF Init, Exists, Rejected
<1>3. \A k \in Keys : keys[k] = NoCall
  BY DEF Init
<1>4. QED
  BY <1>1, <1>2, <1>3
     DEF CallInv, KeyTable, Intents, OnePaymentPerBooking, Answers,
         AnswerIsOwnPayment, InTransaction

\* The rest of the service leaves the calls alone.
LEMMA CallFrame ==
  ASSUME CallInv, UNCHANGED <<pc, req, keys, answer, intent>>,
         \A r \in Calls : Exists(r)' <=> Exists(r)
  PROVE  CallsApart'
<1>1. KeyTable'
  BY DEF CallInv, KeyTable, Holder, TypeOK
<1>2. Intents'
  BY DEF CallInv, Intents
<1>3. OnePaymentPerBooking'
  BY DEF CallInv, OnePaymentPerBooking
<1>4. Answers'
  BY DEF CallInv, Answers, AnswerIsOwnPayment, Holder, SameFingerprint, TypeOK, Answer
<1>5. QED
  BY <1>1, <1>2, <1>3, <1>4 DEF CallsApart

\* An intent once made for a booking stays that booking's.
IntentsStand ==
  \A d \in Calls :
    req[d] \in Requests /\ intent[req[d].key] = req[d].booking =>
      intent'[req[d].key] = req[d].booking

\* A call that writes nothing, moves on outside the transaction, and is not
\* answered with a payment that is not its own.
LEMMA CallMoves ==
  ASSUME CallInv, NEW c \in Calls, pc[c] # "idle", pc[c] # "done",
         UNCHANGED <<payment, req, keys>>, IntentsStand,
         \/ Goto(c, "check") \/ Goto(c, "intend")
         \/ Goto(c, "recover") /\ SameFingerprint(c)
         \/ Goto(c, "claim") /\ intent'[req[c].key] = req[c].booking
         \/ \E a \in Answer : Finish(c, a) /\ a.kind # "stored"
         \/ /\ Holder(c) # NoCall
            /\ SameFingerprint(c)
            /\ Finish(c, Stored(Holder(c)))
  PROVE  CallsApart'
<1>1. \A d \in Calls : d # c => pc'[d] = pc[d] /\ answer'[d] = answer[d]
  BY DEF CallInv, TypeOK, Goto, Finish
<1>2. pc'[c] \notin {"claimed", "inserted"}
  BY DEF CallInv, TypeOK, Goto, Finish
<1>3. \A r \in Calls : (Exists(r)' <=> Exists(r)) /\ (Exists(r) => r # c)
  BY DEF CallInv, KeyTable, Exists
<1>4. KeyTable'
  <2>1. \A k \in Keys : keys[k] # NoCall => Exists(keys[k])' /\ req[keys[k]].key = k
    BY <1>3 DEF CallInv, KeyTable, TypeOK
  <2>2. \A r \in Calls : Exists(r)' => pc'[r] = "done" /\ keys[req[r].key] = r
    BY <1>1, <1>3 DEF CallInv, KeyTable
  <2>3. \A d \in Calls : pc'[d] \in InTransaction => d # c /\ pc[d] \in InTransaction
    BY <1>1, <1>2 DEF InTransaction
  <2>4. QED
    BY <2>1, <2>2, <2>3 DEF CallInv, KeyTable, Holder
<1>5. Intents'
  <2>1. pc'[c] = "claim" => intent'[req[c].key] = req[c].booking
    BY DEF CallInv, TypeOK, Goto, Finish
  <2>2. \A d \in Calls : pc[d] \in {"claim", "claimed", "inserted"} \/ Exists(d) =>
          /\ req[d] \in Requests
          /\ intent[req[d].key] = req[d].booking
    BY DEF CallInv, Asked, Intents, KeyTable
  <2>3. QED
    BY <1>1, <1>2, <1>3, <2>1, <2>2 DEF Intents, IntentsStand
<1>6. OnePaymentPerBooking'
  BY <1>1, <1>2, <1>3 DEF CallInv, OnePaymentPerBooking
<1>7. Answers'
  <2>1. pc'[c] = "recover" => SameFingerprint(c)
    BY DEF CallInv, TypeOK, Goto, Finish
  <2>2. \A d \in Calls : SameFingerprint(d)' <=> SameFingerprint(d)
    BY DEF SameFingerprint, Holder
  <2>3. Holder(c) # NoCall /\ SameFingerprint(c) =>
          LET r == Holder(c) IN
            r \in Calls /\ Exists(r) /\ req[r] = req[c] /\ keys[req[c].key] = r
    <3>1. SUFFICES ASSUME Holder(c) # NoCall, SameFingerprint(c)
                   PROVE  /\ Holder(c) \in Calls /\ Exists(Holder(c))
                          /\ req[Holder(c)] = req[c]
                          /\ keys[req[c].key] = Holder(c)
      OBVIOUS
    <3>2. req[c] \in Requests /\ req[c].key \in Keys
      BY DEF CallInv, Asked, Requests
    <3>3. /\ Holder(c) \in Calls /\ Exists(Holder(c))
          /\ req[Holder(c)].key = req[c].key
      BY <3>1, <3>2 DEF CallInv, TypeOK, KeyTable, Holder
    <3>4. req[Holder(c)] \in Requests
      BY <3>3 DEF CallInv, KeyTable, Asked
    <3>5. req[Holder(c)] = req[c]
      BY <3>1, <3>2, <3>3, <3>4 DEF SameFingerprint, Requests
    <3>6. QED
      BY <3>3, <3>5 DEF Holder
  <2>4. answer'[c].kind = "stored" =>
          /\ pc'[c] = "done"
          /\ Holder(c) # NoCall /\ SameFingerprint(c)
          /\ answer'[c].id = Holder(c)
    <3>1. CASE UNCHANGED answer
      BY <3>1 DEF CallInv, Answers
    <3>2. ASSUME NEW a, Finish(c, a) PROVE pc'[c] = "done" /\ answer'[c] = a
      BY <3>2 DEF CallInv, TypeOK, Finish
    <3>3. QED
      BY <3>1, <3>2 DEF Goto, Stored
  <2>5. AnswerIsOwnPayment'
    <3> DEFINE Own(d, r) == Exists(r) /\ req[r] = req[d] /\ keys[req[d].key] = r
    <3>1. \A d \in Calls : answer[d].kind = "stored" => Own(d, answer[d].id)
      BY DEF CallInv, Answers, AnswerIsOwnPayment
    <3>2. \A d \in Calls : answer'[d].kind = "stored" => Own(d, answer'[d].id)
      BY <1>1, <2>3, <2>4, <3>1
    <3>3. QED
      BY <3>2 DEF AnswerIsOwnPayment, Exists
  <2>6. QED
    BY <1>1, <2>1, <2>2, <2>3, <2>4, <2>5 DEF CallInv, Answers
<1>8. QED
  BY <1>4, <1>5, <1>6, <1>7 DEF CallsApart

\* Stripe returns the intent of a known key, and refuses it to another booking.
LEMMA CreateIntentStep ==
  ASSUME CallInv, NEW c \in Calls, CreateIntent(c)
  PROVE  CallsApart'
<1>1. req[c] \in Requests /\ pc[c] \in {"intend", "recover"}
  BY DEF CallInv, Asked, CreateIntent
<1>2. Accepts(c) /\ Intended(c) =>
        IntentsStand /\ intent'[req[c].key] = req[c].booking
  BY <1>1, PaymentAssumption
     DEF CallInv, TypeOK, Accepts, Intended, IntentsStand, Requests
<1>3. UNCHANGED intent => IntentsStand
  BY DEF IntentsStand
<1>4. Rejected("error") \in Answer /\ Rejected("error").kind # "stored"
  BY DEF Rejected, Answer
<1>5. pc[c] = "recover" => Holder(c) # NoCall /\ SameFingerprint(c)
  BY DEF CallInv, Asked, Answers
<1>6. UNCHANGED <<payment, req, keys>>
  BY DEF CreateIntent
<1>7. IntentsStand
  BY <1>2, <1>3 DEF CreateIntent
<1>8. \/ Goto(c, "claim") /\ intent'[req[c].key] = req[c].booking
      \/ Finish(c, Rejected("error"))
      \/ /\ Holder(c) # NoCall
         /\ SameFingerprint(c)
         /\ Finish(c, Stored(Holder(c)))
  BY <1>1, <1>2, <1>5 DEF CreateIntent
<1>9. QED
  BY <1>1, <1>4, <1>6, <1>7, <1>8, CallMoves

\* A request touches nothing but its own call.
LEMMA CreatePaymentStep ==
  ASSUME CallInv, NEW c \in Calls, NEW k \in Keys, NEW b \in Bookings,
         CreatePayment(c, k, b)
  PROVE  CallsApart'
<1>1. /\ pc[c] = "idle" /\ pc'[c] \in {"find", "done"}
      /\ \A d \in Calls : d # c =>
           pc'[d] = pc[d] /\ req'[d] = req[d] /\ answer'[d] = answer[d]
      /\ UNCHANGED <<payment, keys, intent>>
  BY DEF CallInv, TypeOK, CreatePayment, Goto, Finish, stripeVars
<1>2. /\ \A r \in Calls : (Exists(r)' <=> Exists(r)) /\ (Exists(r) => r # c)
      /\ answer[c].kind # "stored"
  BY <1>1 DEF CallInv, KeyTable, Exists, Answers
<1>3. answer'[c].kind # "stored"
  BY <1>2 DEF CreatePayment, Goto, Finish, Rejected, CallInv, TypeOK
<1>4. KeyTable'
  <2>1. \A j \in Keys : keys[j] # NoCall => Exists(keys[j])' /\ req'[keys[j]].key = j
    BY <1>1, <1>2 DEF CallInv, KeyTable, TypeOK
  <2>2. \A r \in Calls : Exists(r)' => pc'[r] = "done" /\ keys[req'[r].key] = r
    BY <1>1, <1>2 DEF CallInv, KeyTable
  <2>3. \A d \in Calls : pc'[d] \in InTransaction => d # c /\ pc[d] \in InTransaction
    BY <1>1 DEF InTransaction
  <2>4. QED
    BY <1>1, <2>1, <2>2, <2>3 DEF CallInv, KeyTable, Holder
<1>5. Intents'
  BY <1>1, <1>2 DEF CallInv, Intents
<1>6. OnePaymentPerBooking'
  BY <1>1, <1>2 DEF CallInv, OnePaymentPerBooking
<1>7. Answers'
  <2>1. \A d \in Calls : pc'[d] = "recover" => SameFingerprint(d)'
    <3>1. SUFFICES ASSUME NEW d \in Calls, pc'[d] = "recover"
                   PROVE  SameFingerprint(d)'
      OBVIOUS
    <3>2. d # c /\ pc[d] = "recover" /\ req'[d] = req[d]
      BY <1>1, <3>1
    <3>3. Holder(d) # NoCall /\ SameFingerprint(d) /\ req[d].key \in Keys
      BY <3>2 DEF CallInv, Asked, Answers, Requests
    <3>4. Holder(d) \in Calls /\ Holder(d) # c
      BY <1>2, <3>3 DEF CallInv, KeyTable, TypeOK, Holder
    <3>5. QED
      BY <1>1, <3>2, <3>3, <3>4 DEF SameFingerprint, Holder
  <2>2. \A d \in Calls : answer'[d].kind = "stored" =>
          /\ d # c /\ answer'[d].id \in Calls /\ pc'[d] = "done"
          /\ req'[d] = req[d] /\ answer[d].kind = "stored"
          /\ answer'[d].id = answer[d].id /\ Exists(answer[d].id)
    BY <1>1, <1>3 DEF CallInv, Answers, AnswerIsOwnPayment
  <2>3. AnswerIsOwnPayment'
    <3> DEFINE Own(d, r) == Exists(r) /\ req'[r] = req'[d] /\ keys[req'[d].key] = r
    <3>1. \A d \in Calls : answer'[d].kind = "stored" => Own(d, answer'[d].id)
      BY <1>1, <1>2, <2>2 DEF CallInv, Answers, AnswerIsOwnPayment
    <3>2. QED
      BY <1>1, <3>1 DEF AnswerIsOwnPayment, Exists
  <2>4. QED
    BY <2>1, <2>2, <2>3 DEF Answers
<1>8. QED
  BY <1>4, <1>5, <1>6, <1>7 DEF CallsApart

\* A claim waits for the others of its key.
LEMMA ClaimKeyStep ==
  ASSUME CallInv, NEW c \in Calls, ClaimKey(c)
  PROVE  CallsApart'
<1>1. /\ pc[c] = "claim" /\ ~KeyBusy(c)
      /\ UNCHANGED <<payment, req, keys, intent>>
  BY DEF ClaimKey, stripeVars
<1>2. CASE Holder(c) = NoCall /\ Goto(c, "claimed")
  <2>1. /\ pc'[c] = "claimed" /\ answer' = answer
        /\ \A d \in Calls : d # c => pc'[d] = pc[d]
    BY <1>2 DEF CallInv, TypeOK, Goto
  <2>2. \A r \in Calls : (Exists(r)' <=> Exists(r)) /\ (Exists(r) => r # c)
    BY <1>1 DEF CallInv, KeyTable, Exists
  <2>3. KeyTable'
    <3>1. \A k \in Keys : keys[k] # NoCall => Exists(keys[k])' /\ req[keys[k]].key = k
      BY <1>1, <2>2 DEF CallInv, KeyTable, TypeOK, Exists
    <3>2. \A r \in Calls : Exists(r)' => pc'[r] = "done" /\ keys[req[r].key] = r
      BY <2>1, <2>2 DEF CallInv, KeyTable
    <3>3. \A d \in Calls : pc'[d] \in InTransaction =>
            d = c \/ (pc[d] \in InTransaction /\ req[d].key # req[c].key)
      BY <1>1, <2>1 DEF InTransaction, KeyBusy
    <3>4. QED
      BY <1>1, <1>2, <3>1, <3>2, <3>3 DEF CallInv, KeyTable, Holder
  <2>4. Intents'
    BY <1>1, <2>1, <2>2 DEF CallInv, Intents
  <2>5. OnePaymentPerBooking'
    BY <1>1, <2>1, <2>2 DEF CallInv, OnePaymentPerBooking
  <2>6. Answers'
    <3>1. \A d \in Calls : answer[d].kind = "stored" => d # c
      BY <1>1 DEF CallInv, Answers
    <3>2. AnswerIsOwnPayment'
      BY <1>1, <2>1, <2>2 DEF CallInv, Answers, AnswerIsOwnPayment, Exists
    <3>3. QED
      BY <1>1, <2>1, <3>1, <3>2 DEF CallInv, Answers, SameFingerprint, Holder
  <2>7. QED
    BY <2>3, <2>4, <2>5, <2>6 DEF CallsApart
<1>3. CASE ~(Holder(c) = NoCall /\ Goto(c, "claimed"))
  <2>1. Rejected("key_reuse") \in Answer /\ Rejected("key_reuse").kind # "stored"
    BY DEF Rejected, Answer
  <2>2. IntentsStand
    BY <1>1 DEF IntentsStand
  <2>3. QED
    BY <1>1, <1>3, <2>1, <2>2, CallMoves DEF ClaimKey
<1>4. QED
  BY <1>2, <1>3

\* An insert waits for the others of its booking.
LEMMA InsertPaymentStep ==
  ASSUME CallInv, NEW c \in Calls, InsertPayment(c)
  PROVE  CallsApart'
<1>1. /\ pc[c] = "claimed" /\ ~BookingBusy(c)
      /\ UNCHANGED <<payment, req, keys, intent>>
  BY DEF InsertPayment, stripeVars
<1>2. CASE ~UniqueViolation(c)
  <2>1. /\ pc'[c] = "inserted" /\ answer' = answer
        /\ \A d \in Calls : d # c => pc'[d] = pc[d]
    BY <1>2 DEF CallInv, TypeOK, InsertPayment, Goto
  <2>2. \A r \in Calls : (Exists(r)' <=> Exists(r)) /\ (Exists(r) => r # c)
    BY <1>1 DEF CallInv, KeyTable, Exists
  <2>3. KeyTable'
    <3>1. \A k \in Keys : keys[k] # NoCall => Exists(keys[k])' /\ req[keys[k]].key = k
      BY <1>1, <2>2 DEF CallInv, KeyTable, TypeOK, Exists
    <3>2. \A r \in Calls : Exists(r)' => pc'[r] = "done" /\ keys[req[r].key] = r
      BY <2>1, <2>2 DEF CallInv, KeyTable
    <3>3. \A d \in Calls : pc'[d] \in InTransaction <=> pc[d] \in InTransaction
      BY <1>1, <2>1 DEF InTransaction
    <3>4. QED
      BY <1>1, <3>1, <3>2, <3>3 DEF CallInv, KeyTable, Holder
  <2>4. Intents'
    BY <1>1, <2>1, <2>2 DEF CallInv, Intents
  <2>5. OnePaymentPerBooking'
    BY <1>1, <1>2, <2>1, <2>2
       DEF CallInv, OnePaymentPerBooking, UniqueViolation, BookingBusy
  <2>6. Answers'
    <3>1. \A d \in Calls : answer[d].kind = "stored" => d # c
      BY <1>1 DEF CallInv, Answers
    <3>2. AnswerIsOwnPayment'
      BY <1>1, <2>1, <2>2 DEF CallInv, Answers, AnswerIsOwnPayment, Exists
    <3>3. QED
      BY <1>1, <2>1, <3>1, <3>2 DEF CallInv, Answers, SameFingerprint, Holder
  <2>7. QED
    BY <2>3, <2>4, <2>5, <2>6 DEF CallsApart
<1>3. CASE UniqueViolation(c)
  <2>1. /\ Rejected("payment_already_exists") \in Answer
        /\ Rejected("payment_already_exists").kind # "stored"
    BY DEF Rejected, Answer
  <2>2. IntentsStand
    BY <1>1 DEF IntentsStand
  <2>3. QED
    BY <1>1, <1>3, <2>1, <2>2, CallMoves DEF InsertPayment
<1>4. QED
  BY <1>2, <1>3

\* A commit makes the payment its key and its booking stand for.
LEMMA CommitPaymentStep ==
  ASSUME CallInv, NEW c \in Calls, CommitPayment(c)
  PROVE  CallsApart'
<1>1. /\ pc[c] = "inserted" /\ req[c] \in Requests /\ req[c].key \in Keys
      /\ payment' = [payment EXCEPT ![c] = "pending"]
      /\ keys' = [keys EXCEPT ![req[c].key] = c]
      /\ UNCHANGED <<req, intent>>
  BY DEF CallInv, Asked, CommitPayment, stripeVars, Requests
<1>2. /\ pc'[c] = "done" /\ answer'[c] \in {Stored(c), Rejected("error")}
      /\ \A d \in Calls : d # c => pc'[d] = pc[d] /\ answer'[d] = answer[d]
  BY DEF CallInv, TypeOK, CommitPayment, Finish
<1>3. /\ ~Exists(c) /\ Exists(c)'
      /\ \A r \in Calls : r # c => (Exists(r)' <=> Exists(r))
  BY <1>1 DEF CallInv, TypeOK, KeyTable, Exists
<1>4. /\ keys[req[c].key] = NoCall
      /\ keys'[req[c].key] = c
      /\ \A k \in Keys : k # req[c].key => keys'[k] = keys[k]
      /\ \A d \in Calls : d # c /\ pc[d] \in InTransaction => req[d].key # req[c].key
  BY <1>1 DEF CallInv, TypeOK, KeyTable, Holder, InTransaction
<1>5. \A d \in Calls : pc[d] # "idle" => req[d] \in Requests /\ req[d].key \in Keys
  BY DEF CallInv, Asked, Requests
<1>6. \A r \in Calls : Exists(r) =>
        /\ pc[r] = "done" /\ req[r].key \in Keys /\ req[r].key # req[c].key
        /\ keys'[req[r].key] = r
  BY <1>4, <1>5, PaymentAssumption DEF CallInv, KeyTable
<1>7. KeyTable'
  <2>1. \A k \in Keys : keys'[k] # NoCall =>
          payment'[keys'[k]] # "none" /\ req[keys'[k]].key = k
    <3>1. ASSUME NEW k \in Keys, k # req[c].key, keys'[k] # NoCall
          PROVE  keys[k] \in Calls /\ Exists(keys[k]) /\ keys[k] # c /\ req[keys[k]].key = k
      BY <1>3, <1>4, <3>1 DEF CallInv, KeyTable, TypeOK
    <3>2. QED
      BY <1>3, <1>4, <3>1 DEF Exists
  <2>2. \A r \in Calls : Exists(r)' => pc'[r] = "done" /\ keys'[req[r].key] = r
    BY <1>2, <1>3, <1>4, <1>6
  <2>3. \A d \in Calls : pc'[d] \in InTransaction =>
          /\ d # c /\ pc[d] \in InTransaction /\ req[d].key \in Keys
          /\ keys'[req[d].key] = NoCall
    BY <1>2, <1>4, <1>5 DEF InTransaction, CallInv, KeyTable, Holder
  <2>4. QED
    <3>1. \A d, q \in Calls :
            /\ d # q
            /\ pc'[d] \in InTransaction /\ pc'[q] \in InTransaction
            => req[d].key # req[q].key
      BY <2>3 DEF CallInv, KeyTable
    <3>2. QED
      BY <1>1, <2>1, <2>2, <2>3, <3>1 DEF KeyTable, Holder, Exists
<1>8. Intents'
  BY <1>1, <1>2, <1>3 DEF CallInv, Intents
<1>9. OnePaymentPerBooking'
  BY <1>1, <1>2, <1>3 DEF CallInv, OnePaymentPerBooking
<1>10. Answers'
  <2>1. \A d \in Calls : pc'[d] = "recover" => SameFingerprint(d)'
    <3>1. SUFFICES ASSUME NEW d \in Calls, pc'[d] = "recover"
                   PROVE  SameFingerprint(d)'
      OBVIOUS
    <3>2. d # c /\ pc[d] = "recover"
      BY <1>2, <3>1
    <3>3. Holder(d) # NoCall /\ SameFingerprint(d) /\ req[d].key \in Keys
      BY <1>5, <3>2 DEF CallInv, Asked, Answers
    <3>4. keys'[req[d].key] = keys[req[d].key]
      BY <1>4, <3>3 DEF Holder
    <3>5. QED
      BY <1>1, <3>3, <3>4 DEF SameFingerprint, Holder
  <2>2. \A d \in Calls : answer'[d].kind = "stored" =>
          /\ pc'[d] = "done" /\ answer'[d].id \in Calls
          /\ \/ d = c /\ answer'[d].id = c
             \/ d # c /\ answer'[d] = answer[d]
    BY <1>2 DEF CallInv, Answers, Stored, Rejected
  <2>3. AnswerIsOwnPayment'
    <3> DEFINE Own(d, r) == Exists(r)' /\ req[r] = req[d] /\ keys'[req[d].key] = r
    <3>1. Own(c, c)
      BY <1>3, <1>4
    <3>2. \A d \in Calls : d # c /\ answer[d].kind = "stored" =>
            /\ answer[d].id \in Calls /\ Exists(answer[d].id)
            /\ req[answer[d].id] = req[d]
      BY DEF CallInv, Answers, AnswerIsOwnPayment
    <3>3. \A d \in Calls : \A r \in Calls :
            d # c /\ answer[d].kind = "stored" /\ r = answer[d].id =>
              payment'[r] # "none" /\ req[r] = req[d] /\ keys'[req[d].key] = r
      BY <1>3, <1>6, <3>2 DEF Exists
    <3>4. \A d \in Calls : answer'[d].kind = "stored" =>
            /\ payment'[answer'[d].id] # "none"
            /\ req[answer'[d].id] = req[d]
            /\ keys'[req[d].key] = answer'[d].id
      BY <2>2, <3>1, <3>3 DEF Exists
    <3>5. QED
      BY <1>1, <3>4 DEF AnswerIsOwnPayment, Exists
  <2>4. QED
    BY <2>1, <2>2, <2>3 DEF Answers
<1>11. QED
  BY <1>7, <1>8, <1>9, <1>10 DEF CallsApart

\* Every step of every call keeps the calls apart ...
LEMMA ServeStep ==
  ASSUME CallInv, NEW c \in Calls, Serve(c)
  PROVE  CallsApart'
<1>1. \A kind \in {"key_reuse", "payment_already_exists", "error"} :
        Rejected(kind) \in Answer /\ Rejected(kind).kind # "stored"
  BY DEF Rejected, Answer
<1>2. UNCHANGED intent => IntentsStand
  BY DEF IntentsStand
<1>3. CASE FindIdempotent(c) \/ CheckBooking(c) \/ AbortPayment(c)
  BY <1>1, <1>2, <1>3, CallMoves DEF FindIdempotent, CheckBooking, AbortPayment, stripeVars
<1>4. QED
  BY <1>3, CreateIntentStep, ClaimKeyStep, InsertPaymentStep, CommitPaymentStep
     DEF Serve

\* ... and nothing else the service does touches them: a payment changes its
\* status, and exists as before.
LEMMA CallStep ==
  ASSUME CallInv, [Next]_vars,
         \A h \in Hooks : hook[h].pc = "locked" => Exists(hook[h].id)
  PROVE  CallInv'
<1>1. TypeOK' /\ Asked'
  BY TypeStep DEF CallInv
<1>2. SUFFICES CallsApart'
  BY <1>1 DEF CallInv, CallsApart
<1>3. CASE \E c \in Calls, k \in Keys, b \in Bookings : CreatePayment(c, k, b)
  BY <1>3, CreatePaymentStep
<1>4. CASE \E c \in Calls : Serve(c)
  BY <1>4, ServeStep
<1>5. CASE \/ \E b \in Bookings : BookingHeld(b) \/ Expire(b)
           \/ \E k \in Keys, type \in EventTypes : StripeOutcome(k, type)
           \/ \E e \in Event : IgnoreEvent(e)
           \/ \E h \in Hooks, e \in Event : LockPayment(h, e)
           \/ \E h \in Hooks : RollbackOutcome(h)
           \/ UNCHANGED vars
  <2>1. UNCHANGED <<payment, pc, req, keys, answer, intent>>
    BY <1>5 DEF BookingHeld, Expire, StripeOutcome, IgnoreEvent, LockPayment,
                RollbackOutcome, vars, callVars, stripeVars
  <2>2. QED
    BY <2>1, CallFrame DEF Exists
<1>6. CASE \E h \in Hooks : CommitOutcome(h)
  <2>1. PICK h \in Hooks : CommitOutcome(h)
    BY <1>6
  <2>2. UNCHANGED <<pc, req, keys, answer, intent>>
    BY <2>1 DEF CommitOutcome, callVars
  <2>3. Exists(hook[h].id)
    BY <2>1 DEF CommitOutcome
  <2>4. \/ UNCHANGED payment
        \/ \E status : /\ status # "none"
                       /\ payment' = [payment EXCEPT ![hook[h].id] = status]
    BY <2>1 DEF CommitOutcome, OutcomeTransition, MarkSucceeded, MarkFailed, Keep
  <2>5. \A r \in Calls : Exists(r)' <=> Exists(r)
    BY <2>3, <2>4 DEF Exists, CallInv, TypeOK
  <2>6. QED
    BY <2>2, <2>5, CallFrame
<1>7. QED
  BY <1>3, <1>4, <1>5, <1>6 DEF Next

-----------------------------------------------------------------------------
(* The webhook. *)

Ended(r) == payment[r] \in {"succeeded", "failed"}

\* A transaction that holds a payment's row lock has read the payment as it is,
\* for an outcome Stripe has of that very intent, and no other holds that lock.
Locks ==
  /\ \A h \in Hooks : hook[h].pc = "locked" =>
       /\ hook[h].id \in Of(hook[h].event)
       /\ hook[h].read = payment[hook[h].id]
       /\ IsPaymentOutcome(hook[h].event)
       /\ hook[h].event.type \in outcome[hook[h].event.intent]
  /\ \A h, g \in Hooks :
       h # g /\ hook[h].pc = "locked" /\ hook[g].pc = "locked" =>
         hook[h].id # hook[g].id

\* Stripe has outcomes only of intents Payment has a payment for, ...
KnownIntents ==
  \A k \in Keys : outcome[k] # {} => \E r \in Calls : Exists(r) /\ req[r].key = k

\* ... and an event that is recorded as processed has ended its payment.
SeenEnded ==
  \A e \in seen : IsPaymentOutcome(e) /\ \E r \in Of(e) : Ended(r)

PaymentInv ==
  /\ CallInv
  /\ Locks
  /\ KnownIntents
  /\ SeenEnded
  /\ OutcomeStatedOnce
  /\ NoOutcomeDropped

\* Nothing is locked, nothing has happened.
LEMMA PaymentInit == Init => PaymentInv
<1> SUFFICES ASSUME Init PROVE PaymentInv
  OBVIOUS
<1>1. CallInv
  BY CallInit
<1>2. Locks /\ KnownIntents /\ SeenEnded /\ NoOutcomeDropped
  BY DEF Init, Idle, Locks, KnownIntents, SeenEnded, NoOutcomeDropped
<1>3. OutcomeStatedOnce
  BY DEF Init, OutcomeStatedOnce
<1>4. QED
  BY <1>1, <1>2, <1>3 DEF PaymentInv

\* One payment per key.
LEMMA OneOf ==
  ASSUME KeyTable, NEW e \in Event
  PROVE  \A r, q \in Of(e) : r = q
BY DEF KeyTable, Of

\* What a call asked for stands once its payment exists, ...
LEMMA RequestsStand ==
  ASSUME CallInv, [Next]_vars, NEW r \in Calls, Exists(r)
  PROVE  req'[r] = req[r]
<1>1. pc[r] = "done" /\ req \in [Calls -> Requests \cup {NoReq}]
  BY DEF CallInv, TypeOK, KeyTable, Requests
<1>2. CASE \E c \in Calls, k \in Keys, b \in Bookings : CreatePayment(c, k, b)
  BY <1>1, <1>2 DEF CreatePayment
<1>3. CASE UNCHANGED req
  BY <1>3
<1>4. QED
  BY <1>2, <1>3
     DEF Next, Serve, FindIdempotent, CheckBooking, CreateIntent, ClaimKey,
         InsertPayment, CommitPayment, AbortPayment, BookingHeld, Expire,
         StripeOutcome, IgnoreEvent, LockPayment, CommitOutcome, RollbackOutcome,
         vars, callVars

\* ... and a step of a call, which makes at most a pending payment, leaves the
\* webhook's part alone.
LEMMA CallsOutcomes ==
  ASSUME PaymentInv, [Next]_vars, CallInv', UNCHANGED <<facts, outcome, acked, seen, hook>>,
         UNCHANGED payment \/ \E c \in Calls : ~Exists(c) /\ payment' = [payment EXCEPT ![c] = "pending"]
  PROVE  PaymentInv'
<1>1. \A r \in Calls : Exists(r) =>
        payment'[r] = payment[r] /\ req'[r] = req[r] /\ Exists(r)'
  BY RequestsStand DEF PaymentInv, CallInv, TypeOK, Exists
<1>2. \A e \in Event : \A r \in Of(e) :
        r \in Of(e)' /\ payment'[r] = payment[r] /\ (Ended(r) => Ended(r)')
  BY <1>1 DEF Of, Ended
<1>3. seen \subseteq Event /\ acked \subseteq Event
  BY DEF PaymentInv, CallInv, TypeOK
<1>4. Locks'
  <2>1. \A h \in Hooks : hook[h].pc = "locked" => hook[h].event \in Event
    BY DEF PaymentInv, CallInv, TypeOK, Idle
  <2>2. QED
    BY <1>2, <2>1 DEF PaymentInv, Locks, IsPaymentOutcome
<1>5. KnownIntents'
  BY <1>1 DEF PaymentInv, KnownIntents
<1>6. SeenEnded'
  BY <1>2, <1>3 DEF PaymentInv, SeenEnded, IsPaymentOutcome
<1>7. OutcomeStatedOnce'
  <2>1. \A r \in Calls : ~Exists(r) => facts[r] = <<>> /\ payment'[r] \in {"none", "pending"}
    BY DEF PaymentInv, CallInv, TypeOK, OutcomeStatedOnce, Exists
  <2>2. QED
    BY <1>1, <2>1 DEF PaymentInv, OutcomeStatedOnce, Charged
<1>8. NoOutcomeDropped'
  BY <1>2, <1>3 DEF PaymentInv, NoOutcomeDropped, IsPaymentOutcome, Ended
<1>9. QED
  BY <1>4, <1>5, <1>6, <1>7, <1>8 DEF PaymentInv

\* A customer can pay what Payment gave a client secret for.
LEMMA StripeStep ==
  ASSUME PaymentInv, CallInv', NEW k \in Keys, NEW type \in EventTypes, StripeOutcome(k, type)
  PROVE  PaymentInv'
<1>1. /\ outcome' = [outcome EXCEPT ![k] = @ \cup {type}]
      /\ UNCHANGED <<payment, keys, req, pc, answer, facts, intent, acked, seen, hook>>
  BY DEF StripeOutcome, callVars
<1>2. \A j \in Keys : outcome[j] \subseteq outcome'[j]
  BY <1>1 DEF PaymentInv, CallInv, TypeOK
<1>3. \E r \in Calls : Exists(r) /\ req[r].key = k
  BY DEF StripeOutcome, SecretKnown, PaymentInv, CallInv, Answers, AnswerIsOwnPayment
<1>4. KnownIntents'
  BY <1>1, <1>3 DEF PaymentInv, KnownIntents, CallInv, TypeOK, Exists
<1>5. Locks'
  <2>1. \A h \in Hooks : hook[h].pc = "locked" => hook[h].event.intent \in Keys
    BY DEF PaymentInv, CallInv, TypeOK, Idle, Event
  <2>2. QED
    BY <1>1, <1>2, <2>1 DEF PaymentInv, Locks, IsPaymentOutcome, Of, Exists
<1>6. SeenEnded' /\ NoOutcomeDropped'
  BY <1>1 DEF PaymentInv, SeenEnded, NoOutcomeDropped, IsPaymentOutcome, Of, Exists, Ended
<1>7. OutcomeStatedOnce'
  <2>1. \A r \in Calls : payment[r] \in {"succeeded", "failed"} => req[r].key \in Keys
    BY DEF PaymentInv, CallInv, KeyTable, Asked, Requests, Exists
  <2>2. \A r \in Calls : payment[r] \in Statuses
    BY DEF PaymentInv, CallInv, TypeOK
  <2>3. SUFFICES ASSUME NEW r \in Calls
                 PROVE  CASE payment[r] \in {"none", "pending"} -> facts[r] = <<>>
                          [] payment[r] = "succeeded" ->
                               /\ facts[r] = <<"PaymentSucceeded">>
                               /\ "payment_intent.succeeded" \in outcome'[req[r].key]
                          [] payment[r] = "failed" ->
                               /\ facts[r] = <<"PaymentFailed">>
                               /\ "payment_intent.payment_failed" \in outcome'[req[r].key]
    BY <1>1 DEF OutcomeStatedOnce, Charged
  <2>4. QED
    BY <1>2, <2>1, <2>2 DEF PaymentInv, OutcomeStatedOnce, Charged, Statuses
<1>8. QED
  BY <1>4, <1>5, <1>6, <1>7 DEF PaymentInv

\* No outcome is ignored: an intent with an outcome has its payment.
LEMMA IgnoreStep ==
  ASSUME PaymentInv, CallInv', NEW e \in Event, IgnoreEvent(e)
  PROVE  PaymentInv'
<1>1. /\ acked' = acked \cup {e}
      /\ UNCHANGED <<payment, keys, req, pc, answer, facts, intent, outcome, seen, hook>>
  BY DEF IgnoreEvent, Ack, callVars
<1>2. ~IsPaymentOutcome(e)
  BY DEF IgnoreEvent, Of, PaymentInv, KnownIntents, Event
<1>3. Locks' /\ KnownIntents' /\ SeenEnded' /\ OutcomeStatedOnce'
  BY <1>1 DEF PaymentInv, Locks, KnownIntents, SeenEnded, OutcomeStatedOnce, Of,
              Exists, IsPaymentOutcome, Ended, Charged
<1>4. NoOutcomeDropped'
  BY <1>1, <1>2 DEF PaymentInv, NoOutcomeDropped, Of, Exists, IsPaymentOutcome
<1>5. QED
  BY <1>3, <1>4 DEF PaymentInv

\* A lock is taken of a payment nobody has locked, and given up.
LEMMA LockStep ==
  ASSUME PaymentInv, CallInv', NEW h \in Hooks,
         (\E e \in Event : LockPayment(h, e)) \/ RollbackOutcome(h)
  PROVE  PaymentInv'
<1>1. UNCHANGED <<payment, keys, req, pc, answer, facts, intent, outcome, acked, seen>>
  BY DEF LockPayment, RollbackOutcome, callVars, stripeVars
<1>2. KnownIntents' /\ SeenEnded' /\ OutcomeStatedOnce' /\ NoOutcomeDropped'
  BY <1>1 DEF PaymentInv, KnownIntents, SeenEnded, OutcomeStatedOnce, NoOutcomeDropped,
              Of, Exists, IsPaymentOutcome, Ended, Charged
<1>3. hook \in [Hooks -> [pc : {"locked"}, event : Event, id : Calls,
                          read : Statuses] \cup {Idle}]
  BY DEF PaymentInv, CallInv, TypeOK
<1>4. CASE RollbackOutcome(h)
  <2>1. \A g \in Hooks : hook'[g].pc = "locked" => hook'[g] = hook[g]
    BY <1>3, <1>4 DEF RollbackOutcome, Idle
  <2>2. Locks'
    BY <1>1, <2>1 DEF PaymentInv, Locks, Of, Exists, IsPaymentOutcome
  <2>3. QED
    BY <1>2, <2>2 DEF PaymentInv
<1>5. ASSUME NEW e \in Event, LockPayment(h, e) PROVE PaymentInv'
  <2>1. PICK r \in Of(e) :
          /\ Unlocked(r)
          /\ hook' = [hook EXCEPT
               ![h] = [pc |-> "locked", event |-> e, id |-> r, read |-> payment[r]]]
    BY <1>5 DEF LockPayment
  <2>2. /\ hook'[h].event = e /\ hook'[h].id = r /\ hook'[h].read = payment[r]
        /\ \A g \in Hooks : g # h => hook'[g] = hook[g] /\ hook[g].id # r
    BY <1>3, <2>1 DEF Unlocked
  <2>3. IsPaymentOutcome(e) /\ e.type \in outcome[e.intent]
    BY <1>5 DEF LockPayment
  <2>4. Locks'
    BY <1>1, <2>1, <2>2, <2>3 DEF PaymentInv, Locks, Of, Exists, IsPaymentOutcome
  <2>5. QED
    BY <1>2, <2>4 DEF PaymentInv
<1>6. QED
  BY <1>4, <1>5

\* What the commit of an outcome writes: the first one ends a pending payment
\* and states it, whatever comes later changes nothing.
LEMMA CommitEnds ==
  ASSUME PaymentInv, NEW h \in Hooks, CommitOutcome(h)
  PROVE  LET r == hook[h].id
             type == hook[h].event.type
         IN /\ \A q \in Calls : q # r => payment'[q] = payment[q] /\ facts'[q] = facts[q]
            /\ \/ Ended(r) /\ payment'[r] = payment[r] /\ facts'[r] = facts[r]
               \/ /\ payment[r] = "pending"
                  /\ payment'[r] = "succeeded"
                  /\ facts'[r] = <<"PaymentSucceeded">>
                  /\ type = "payment_intent.succeeded"
               \/ /\ payment[r] = "pending"
                  /\ payment'[r] = "failed"
                  /\ facts'[r] = <<"PaymentFailed">>
                  /\ type = "payment_intent.payment_failed"
<1> DEFINE r == hook[h].id
           e == hook[h].event
           t == OutcomeTransition(h)
<1>1. /\ hook[h].pc = "locked" /\ r \in Of(e) /\ r \in Calls /\ e \in Event
      /\ hook[h].read = payment[r] /\ IsPaymentOutcome(e)
  BY DEF CommitOutcome, PaymentInv, Locks, CallInv, TypeOK, Idle
<1>2. /\ payment \in [Calls -> Statuses]
      /\ facts \in [Calls -> Seq({"PaymentSucceeded", "PaymentFailed"})]
  BY DEF PaymentInv, CallInv, TypeOK
<1>3. payment[r] \in {"pending", "succeeded", "failed"}
  BY <1>1, <1>2 DEF Of, Exists, Statuses
<1>4. e \in seen => Ended(r)
  BY <1>1, OneOf DEF PaymentInv, SeenEnded, CallInv
<1>5. /\ payment' = IF t.emits = <<>> THEN payment ELSE [payment EXCEPT ![r] = t.next]
      /\ facts' = [facts EXCEPT ![r] = @ \o t.emits]
  BY DEF CommitOutcome
<1>6. \/ t = Keep(payment[r]) /\ Ended(r)
      \/ /\ payment[r] = "pending"
         /\ t = [next |-> "succeeded", emits |-> <<"PaymentSucceeded">>]
         /\ e.type = "payment_intent.succeeded"
      \/ /\ payment[r] = "pending"
         /\ t = [next |-> "failed", emits |-> <<"PaymentFailed">>]
         /\ e.type = "payment_intent.payment_failed"
  <2>1. CASE e \in seen
    BY <1>1, <1>4, <2>1 DEF OutcomeTransition
  <2>2. CASE e \notin seen /\ e.type = "payment_intent.succeeded"
    BY <1>1, <1>3, <2>2 DEF OutcomeTransition, MarkSucceeded, Ended
  <2>3. CASE e \notin seen /\ e.type # "payment_intent.succeeded"
    <3>1. e.type = "payment_intent.payment_failed"
      BY <1>1, <2>3 DEF IsPaymentOutcome
    <3>2. t = MarkFailed(hook[h].read)
      BY <2>3 DEF OutcomeTransition
    <3>3. QED
      BY <1>1, <1>3, <3>1, <3>2 DEF MarkFailed, Ended
  <2>4. QED
    BY <2>1, <2>2, <2>3
<1>7. payment[r] = "pending" => facts[r] = <<>>
  BY <1>1 DEF PaymentInv, OutcomeStatedOnce
<1>8. <<>> \o <<"PaymentSucceeded">> = <<"PaymentSucceeded">>
      /\ <<>> \o <<"PaymentFailed">> = <<"PaymentFailed">>
      /\ facts[r] \o <<>> = facts[r]
  BY <1>1, <1>2, ConcatEmptySeq
<1> HIDE DEF r, e, t
<1>9. \A q \in Calls : q # r => payment'[q] = payment[q] /\ facts'[q] = facts[q]
  BY <1>2, <1>5
<1>10. facts'[r] = facts[r] \o t.emits /\ (t.emits # <<>> => payment'[r] = t.next)
       /\ (t.emits = <<>> => payment'[r] = payment[r])
  BY <1>1, <1>2, <1>5
<1>11. \/ Ended(r) /\ payment'[r] = payment[r] /\ facts'[r] = facts[r]
       \/ /\ payment[r] = "pending"
          /\ payment'[r] = "succeeded"
          /\ facts'[r] = <<"PaymentSucceeded">>
          /\ e.type = "payment_intent.succeeded"
       \/ /\ payment[r] = "pending"
          /\ payment'[r] = "failed"
          /\ facts'[r] = <<"PaymentFailed">>
          /\ e.type = "payment_intent.payment_failed"
  <2>1. CASE t = Keep(payment[r]) /\ Ended(r)
    BY <1>8, <1>10, <2>1 DEF Keep
  <2>2. CASE /\ payment[r] = "pending"
             /\ t = [next |-> "succeeded", emits |-> <<"PaymentSucceeded">>]
             /\ e.type = "payment_intent.succeeded"
    <3>1. <<"PaymentSucceeded">> # <<>>
      OBVIOUS
    <3>2. QED
      BY <1>7, <1>8, <1>10, <2>2, <3>1
  <2>3. CASE /\ payment[r] = "pending"
             /\ t = [next |-> "failed", emits |-> <<"PaymentFailed">>]
             /\ e.type = "payment_intent.payment_failed"
    <3>1. <<"PaymentFailed">> # <<>>
      OBVIOUS
    <3>2. QED
      BY <1>7, <1>8, <1>10, <2>3, <3>1
  <2>4. QED
    BY <1>6, <2>1, <2>2, <2>3
<1>12. QED
  BY <1>9, <1>11 DEF r, e

\* So it keeps every promise.
LEMMA CommitOutcomeStep ==
  ASSUME PaymentInv, CallInv', NEW h \in Hooks, CommitOutcome(h)
  PROVE  PaymentInv'
<1>0. PICK r \in Calls, e \in Event : r = hook[h].id /\ e = hook[h].event
  BY DEF CommitOutcome, PaymentInv, CallInv, TypeOK, Idle
<1>1. /\ hook[h].pc = "locked" /\ r \in Of(e) /\ r \in Calls /\ e \in Event
      /\ IsPaymentOutcome(e) /\ e.type \in outcome[e.intent]
      /\ req[r].key = e.intent
  BY <1>0 DEF CommitOutcome, PaymentInv, Locks, Of
<1>2. /\ seen' = seen \cup {e} /\ acked' = acked \cup {e}
      /\ hook' = [hook EXCEPT ![h] = Idle]
      /\ UNCHANGED <<req, outcome>>
  BY <1>0 DEF CommitOutcome, Ack, callVars
<1>3. /\ \A q \in Calls : q # r => payment'[q] = payment[q] /\ facts'[q] = facts[q]
      /\ \/ Ended(r) /\ payment'[r] = payment[r] /\ facts'[r] = facts[r]
         \/ /\ payment[r] = "pending"
            /\ payment'[r] = "succeeded"
            /\ facts'[r] = <<"PaymentSucceeded">>
            /\ e.type = "payment_intent.succeeded"
         \/ /\ payment[r] = "pending"
            /\ payment'[r] = "failed"
            /\ facts'[r] = <<"PaymentFailed">>
            /\ e.type = "payment_intent.payment_failed"
  BY <1>0, CommitEnds
<1>4. /\ payment'[r] \in {"succeeded", "failed"}
      /\ \A q \in Calls : payment'[q] # "none" <=> payment[q] # "none"
      /\ \A q \in Calls : Ended(q) => payment'[q] \in {"succeeded", "failed"}
  <2>1. payment[r] # "none"
    BY <1>1 DEF Of, Exists
  <2>2. payment'[r] \in {"succeeded", "failed"}
    BY <1>3 DEF Ended
  <2>3. QED
    BY <1>3, <2>1, <2>2 DEF Ended
<1>5. \A f \in Event : Of(f)' = Of(f) /\ Of(f) \subseteq Calls
  BY <1>2, <1>4 DEF Of, Exists
<1>6. seen \subseteq Event /\ acked \subseteq Event
      /\ hook \in [Hooks -> [pc : {"locked"}, event : Event, id : Calls,
                             read : Statuses] \cup {Idle}]
  BY DEF PaymentInv, CallInv, TypeOK
<1>7. Locks'
  <2>1. \A g \in Hooks : hook'[g].pc = "locked" =>
          /\ g # h /\ hook'[g] = hook[g] /\ hook[g].event \in Event
          /\ hook[g].id \in Calls /\ hook[g].id # r
    BY <1>0, <1>1, <1>2, <1>6 DEF Idle, PaymentInv, Locks
  <2>2. QED
    BY <1>2, <1>3, <1>5, <2>1 DEF PaymentInv, Locks, IsPaymentOutcome
<1>8. KnownIntents'
  BY <1>2, <1>4 DEF PaymentInv, KnownIntents, Exists
<1>9. SeenEnded' /\ NoOutcomeDropped'
  <2>1. SeenEnded'
    BY <1>1, <1>2, <1>4, <1>5, <1>6 DEF PaymentInv, SeenEnded, IsPaymentOutcome, Ended
  <2>2. NoOutcomeDropped'
    BY <1>1, <1>2, <1>4, <1>5, <1>6
       DEF PaymentInv, NoOutcomeDropped, IsPaymentOutcome, Ended
  <2>3. QED
    BY <2>1, <2>2
<1>10. OutcomeStatedOnce'
  BY <1>1, <1>2, <1>3, ZenonT(40) DEF PaymentInv, OutcomeStatedOnce, Charged, Ended
<1>11. QED
  BY <1>7, <1>8, <1>9, <1>10 DEF PaymentInv

\* Every step of the service.
LEMMA PaymentStep == PaymentInv /\ [Next]_vars => PaymentInv'
<1> SUFFICES ASSUME PaymentInv, [Next]_vars PROVE PaymentInv'
  OBVIOUS
<1>1. CallInv'
  BY CallStep DEF PaymentInv, Locks, Of
<1>2. CASE \/ \E c \in Calls, k \in Keys, b \in Bookings : CreatePayment(c, k, b)
           \/ \E c \in Calls : Serve(c)
           \/ \E b \in Bookings : BookingHeld(b) \/ Expire(b)
           \/ UNCHANGED vars
  <2>1. UNCHANGED <<facts, outcome, acked, seen, hook>>
    BY <1>2 DEF CreatePayment, Serve, FindIdempotent, CheckBooking, CreateIntent,
                ClaimKey, InsertPayment, CommitPayment, AbortPayment, BookingHeld,
                Expire, vars, stripeVars
  <2>2. UNCHANGED payment \/ \E c \in Calls : CommitPayment(c)
    BY <1>2 DEF CreatePayment, Serve, FindIdempotent, CheckBooking, CreateIntent,
                ClaimKey, InsertPayment, AbortPayment, BookingHeld, Expire, vars
  <2>3. \A c \in Calls : CommitPayment(c) =>
          ~Exists(c) /\ payment' = [payment EXCEPT ![c] = "pending"]
    BY DEF CommitPayment, PaymentInv, CallInv, KeyTable
  <2>4. QED
    BY <1>1, <2>1, <2>2, <2>3, CallsOutcomes
<1>3. CASE \E k \in Keys, type \in EventTypes : StripeOutcome(k, type)
  BY <1>1, <1>3, StripeStep
<1>4. CASE \E e \in Event : IgnoreEvent(e)
  BY <1>1, <1>4, IgnoreStep
<1>5. CASE \/ \E h \in Hooks, e \in Event : LockPayment(h, e)
           \/ \E h \in Hooks : RollbackOutcome(h)
  BY <1>1, <1>5, LockStep
<1>6. CASE \E h \in Hooks : CommitOutcome(h)
  BY <1>1, <1>6, CommitOutcomeStep
<1>7. QED
  BY <1>2, <1>3, <1>4, <1>5, <1>6 DEF Next

\* A customer is never charged twice for a booking: two intents whose secret a
\* customer holds are never for the same booking, whatever calls race, crash,
\* are retried or lose their answer.
THEOREM NobodyPaysTwice == Spec => []NoDoubleCharge
<1>1. CallInv => NoDoubleCharge
  <2>1. SUFFICES ASSUME CallInv,
                        NEW k \in Keys, SecretKnown(k)
                 PROVE  /\ \E r \in Calls : /\ Exists(r)
                                             /\ req[r].key = k
                                             /\ req[r].booking = intent[k]
                        /\ \A j \in Keys \ {k} : SecretKnown(j) => intent[j] # intent[k]
    BY DEF NoDoubleCharge
  <2>2. \A j \in Keys : SecretKnown(j) =>
          \E r \in Calls : /\ Exists(r)
                           /\ req[r].key = j
                           /\ req[r].booking = intent[j]
    <3>1. SUFFICES ASSUME NEW j \in Keys, NEW c \in Calls,
                          answer[c].kind = "stored", req[c].key = j
                   PROVE  \E r \in Calls : /\ Exists(r)
                                           /\ req[r].key = j
                                           /\ req[r].booking = intent[j]
      BY DEF SecretKnown
    <3>2. /\ answer[c].id \in Calls /\ Exists(answer[c].id)
          /\ req[answer[c].id] = req[c]
      BY <2>1, <3>1 DEF CallInv, Answers, AnswerIsOwnPayment
    <3>3. QED
      BY <2>1, <3>1, <3>2 DEF CallInv, Intents
  <2>3. QED
    BY <2>1, <2>2 DEF CallInv, OnePaymentPerBooking
<1>2. PaymentInv => CallInv
  BY DEF PaymentInv
<1>3. QED
  BY <1>1, <1>2, PaymentInit, PaymentStep, PTL DEF Spec

\* Every answer that names a payment names the caller's own.
THEOREM AnswersAreOwn == Spec => []AnswerIsOwnPayment
<1>1. PaymentInv => AnswerIsOwnPayment
  BY DEF PaymentInv, CallInv, Answers
<1>2. QED
  BY <1>1, PaymentInit, PaymentStep, PTL DEF Spec

\* A payment ends once, as Stripe said it ended, and says so once.
THEOREM OutcomesAreStatedOnce == Spec => []OutcomeStatedOnce
<1>1. PaymentInv => OutcomeStatedOnce
  BY DEF PaymentInv
<1>2. QED
  BY <1>1, PaymentInit, PaymentStep, PTL DEF Spec

\* What Stripe was answered 2xx for is on record.
THEOREM NoOutcomeIsDropped == Spec => []NoOutcomeDropped
<1>1. PaymentInv => NoOutcomeDropped
  BY DEF PaymentInv
<1>2. QED
  BY <1>1, PaymentInit, PaymentStep, PTL DEF Spec

=============================================================================
