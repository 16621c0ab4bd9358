------------------------------ MODULE Exchange ------------------------------
(***************************************************************************)
(* The calls one booking makes: getProduct at the catalog and              *)
(* createReservation at availability when it is created, and               *)
(* confirmReservation once it is paid for.  Every call goes through the    *)
(* retrying transport of httpx: an attempt can be lost on its way, carried *)
(* out although its answer is lost, or carried out late, when the client   *)
(* has long tried again or given up.                                       *)
(*                                                                         *)
(* Availability is the part of Availability that answers these calls: one  *)
(* window, one idempotency key, one reservation.                           *)
(***************************************************************************)
EXTENDS Integers

CONSTANTS
  MaxRetries,    \* retries after the first attempt
  MaxCalls       \* bound: confirm calls, one per delivery of the payment

ASSUME ExchangeAssumption ==
  /\ MaxRetries \in Nat \ {0}
  /\ MaxCalls \in Nat \ {0}

VARIABLES
  pc,        \* "idle", "sent", "backoff" or "done"
  stage,     \* the call: "product", "reserve" or "confirm"
  attempt,   \* of the call, from 0; MaxRetries + 1 is the re-issue
  calls,     \* confirm calls made
  reply,     \* what the server answered to the attempt
  strays,    \* attempts given up that the server may still carry out
  key,       \* the idempotency key: unused, "mine", or used by an "other" body
  resv,      \* the reservation made under the key
  taken,     \* whether another reservation holds the window
  freed,     \* history: another reservation gave the window back
  answer     \* what the client made of each call

exchangeVars ==
  <<pc, stage, attempt, calls, reply, strays, key, resv, taken, freed, answer>>

Stages == {"product", "reserve", "confirm"}
Unhandled == "unhandled"

ExchangeInit ==
  /\ pc = "idle"
  /\ stage = "product"
  /\ attempt = 0
  /\ calls = 0
  /\ reply = Unhandled
  /\ strays = [s \in {"reserve", "confirm"} |-> 0]
  /\ key \in {"none", "other"}
  /\ resv = "none"
  /\ taken \in BOOLEAN
  /\ freed = FALSE
  /\ answer = [s \in Stages |-> "none"]

-----------------------------------------------------------------------------
(* Requests and their answers. *)

\* What the builders of the generated clients make of the three calls.
ProductRequest == [method |-> "GET", keyed |-> FALSE]
HoldRequest == [method |-> "POST", keyed |-> TRUE]
ConfirmRequest == [method |-> "POST", keyed |-> FALSE]

Request(s) ==
  CASE s = "product" -> ProductRequest
    [] s = "reserve" -> HoldRequest
    [] OTHER -> ConfirmRequest

Retryable(q) == q.method = "GET" \/ (q.method = "POST" /\ q.keyed)

RetryableStatus(status) == status \in {429, 500, 502, 503, 504}

\* The response a server's handler comes to: the status, and the error code in
\* its body.  A fault is answered 500.
Response(status, code) == [status |-> status, code |-> code]
Faulty == Response(500, "internal_error")

ProductResponse(o) ==
  CASE o = "ok" -> Response(200, "none")
    [] o = "not_found" -> Response(404, "product_not_found")
    [] OTHER -> Faulty

HoldResponse(o) ==
  CASE o = "created" -> Response(201, "none")
    [] o = "overlap" -> Response(409, "reservation_overlap")
    [] o = "key_reuse" -> Response(409, "idempotency_key_reuse")
    [] OTHER -> Faulty

ConfirmResponse(o) ==
  CASE o = "ok" -> Response(200, "none")
    [] o = "not_found" -> Response(404, "reservation_not_found")
    [] o = "released" -> Response(422, "reservation_already_released")
    [] OTHER -> Faulty

ResponseTo(s, o) ==
  CASE s = "product" -> ProductResponse(o)
    [] s = "reserve" -> HoldResponse(o)
    [] OTHER -> ConfirmResponse(o)

\* What the generated client returns: an error unless the whole body is there,
\* or else the response.
Error == Response(0, "none")
ParsedProduct(o, whole) == IF whole THEN ProductResponse(o) ELSE Error
ParsedHold(o, whole) == IF whole THEN HoldResponse(o) ELSE Error
ParsedConfirm(o, whole) == IF whole THEN ConfirmResponse(o) ELSE Error

Parsed(s, o, whole) ==
  CASE s = "product" -> ParsedProduct(o, whole)
    [] s = "reserve" -> ParsedHold(o, whole)
    [] OTHER -> ParsedConfirm(o, whole)

\* What booking makes of it.
ProductAnswer(r) ==
  CASE r.status = 200 -> "found"
    [] r.status = 404 -> "not_found"
    [] r = Error \/ r.status \in {500, 502, 503, 504} -> "unavailable"
    [] OTHER -> "unexpected"

HoldAnswer(r) ==
  CASE r.status = 201 -> "held"
    [] r.status = 409 /\ r.code = "idempotency_key_reuse" -> "key_reuse"
    [] r.status = 409 /\ r.code # "idempotency_key_reuse" -> "slot_unavailable"
    [] r = Error \/ r.status \in {500, 502, 503, 504} -> "unavailable"
    [] OTHER -> "unexpected"

ConfirmAnswer(r) ==
  CASE r.status = 200 -> "confirmed"
    [] r.status = 404 -> "not_found"
    [] r.status = 422 -> "released"
    [] OTHER -> "unavailable"

AnswerTo(s, r) ==
  CASE s = "product" -> ProductAnswer(r)
    [] s = "reserve" -> HoldAnswer(r)
    [] OTHER -> ConfirmAnswer(r)

-----------------------------------------------------------------------------
(* The servers: what carrying out a request may come to. *)

Outcome(o, k, v) == [reply |-> o, key |-> k, resv |-> v]
Unchanged(o) == Outcome(o, key, resv)

\* Mutant: the window is looked at before the key.
HeldSlotFirst ==
  IF taken \/ resv \in {"held", "confirmed"} THEN Unchanged("overlap")
  ELSE CASE key = "mine" -> Unchanged("created")
         [] key = "other" -> Unchanged("key_reuse")
         [] OTHER -> Outcome("created", "mine", "held")

\* createReservation: the key is claimed first, in the transaction that inserts
\* the reservation; a replay answers with the reservation as it is now.
Held ==
  CASE key = "mine" -> Unchanged("created")
    [] key = "other" -> Unchanged("key_reuse")
    [] key = "none" /\ taken -> Unchanged("overlap")
    [] OTHER -> Outcome("created", "mine", "held")

\* confirmReservation is idempotent.
Confirmed ==
  CASE resv = "none" -> Unchanged("not_found")
    [] resv = "released" -> Unchanged("released")
    [] OTHER -> Outcome("ok", key, "confirmed")

\* A fault: before the transaction, or after it was committed.
OrFault(o) == {o, Unchanged("fault"), [o EXCEPT !.reply = "fault"]}

\* getProduct only reads.
GetProduct == {Unchanged(o) : o \in {"ok", "not_found", "fault"}}
CreateReservation == OrFault(Held)
ConfirmReservation == OrFault(Confirmed)

Outcomes(s) ==
  CASE s = "product" -> GetProduct
    [] s = "reserve" -> CreateReservation
    [] OTHER -> ConfirmReservation

Serve ==
  /\ pc = "sent"
  /\ reply = Unhandled
  /\ \E o \in Outcomes(stage) :
       reply' = o.reply /\ key' = o.key /\ resv' = o.resv
  /\ UNCHANGED <<pc, stage, attempt, calls, strays, taken, freed, answer>>

\* Nobody waits for the answer any more.
ServeLate(s) ==
  /\ strays[s] > 0
  /\ strays' = [strays EXCEPT ![s] = @ - 1]
  /\ \E o \in Outcomes(s) : key' = o.key /\ resv' = o.resv
  /\ UNCHANGED <<pc, stage, attempt, calls, reply, taken, freed, answer>>

-----------------------------------------------------------------------------
(* The client. *)

Call(s) ==
  /\ stage' = s
  /\ pc' = "sent"
  /\ attempt' = 0
  /\ reply' = Unhandled

Over ==
  /\ pc' = "done"
  /\ reply' = Unhandled
  /\ UNCHANGED <<stage, attempt>>

\* The call returned r.  A confirm that came to nothing rolls the delivery of
\* the payment back, and the next delivery calls again.
Conclude(r) ==
  LET a == AnswerTo(stage, r)
      failed == stage = "confirm" /\ a \in {"unavailable", "not_found"}
  IN /\ answer' = [answer EXCEPT ![stage] = a]
     /\ CASE a = "found" -> Call("reserve") /\ UNCHANGED calls
          [] a = "held" -> Call("confirm") /\ calls' = 1
          [] failed /\ calls < MaxCalls -> Call("confirm") /\ calls' = calls + 1
          [] OTHER -> Over /\ UNCHANGED calls

\* RoundTrip, when an attempt failed: with an error, or with a status that is
\* worth a retry.
AfterBackoff ==
  /\ attempt < MaxRetries
  /\ pc' = "backoff"
  /\ reply' = Unhandled
  /\ attempt' = attempt + 1
  /\ UNCHANGED <<stage, calls, answer>>

\* After the last attempt, a status is asked for once more, at once.  The body
\* was used up by then: the transport rewinds it on a reused connection, and
\* fails on a fresh one.
Reissue ==
  /\ attempt = MaxRetries
  /\ \/ /\ pc' = "sent"
        /\ reply' = Unhandled
        /\ attempt' = attempt + 1
        /\ UNCHANGED <<stage, calls, answer>>
     \/ /\ Request(stage).method = "POST"
        /\ Conclude(Error)

AttemptError ==
  IF Retryable(Request(stage)) /\ attempt < MaxRetries
  THEN AfterBackoff ELSE Conclude(Error)

AttemptAnswered ==
  IF /\ Retryable(Request(stage)) /\ attempt <= MaxRetries
     /\ RetryableStatus(ResponseTo(stage, reply).status)
  THEN AfterBackoff \/ Reissue
  ELSE \E whole \in BOOLEAN : Conclude(Parsed(stage, reply, whole))

\* The attempt that is on its way is given up: it never arrives, or it does
\* later.
GiveUp ==
  \/ UNCHANGED strays
  \/ /\ pc = "sent" /\ reply = Unhandled
     /\ stage \in DOMAIN strays
     /\ strays' = [strays EXCEPT ![stage] = @ + 1]

serverVars == <<key, resv, taken, freed>>

\* CreateBooking: the product, then the hold; the saga's consumer, the confirm.
Begin ==
  /\ pc = "idle"
  /\ Call("product")
  /\ UNCHANGED <<calls, strays, serverVars, answer>>

\* The status line arrives, and the body with it or not.
Receive ==
  /\ pc = "sent"
  /\ reply # Unhandled
  /\ AttemptAnswered
  /\ UNCHANGED <<strays, serverVars>>

\* The connection fails before the status line.
Break ==
  /\ pc = "sent"
  /\ GiveUp
  /\ AttemptError
  /\ UNCHANGED serverVars

Backoff ==
  /\ pc = "backoff"
  /\ pc' = "sent"
  /\ UNCHANGED <<stage, attempt, calls, reply, strays, serverVars, answer>>

\* Mutant: only the wait between two attempts is cut off.
ExpireInBackoff ==
  /\ pc = "backoff"
  /\ Conclude(Error)
  /\ UNCHANGED <<strays, serverVars>>

\* The timeout of the http.Client covers the call with all of its attempts.
Expire ==
  /\ pc \in {"sent", "backoff"}
  /\ GiveUp
  /\ Conclude(Error)
  /\ UNCHANGED serverVars

-----------------------------------------------------------------------------
(* Others: the sweeper, and whoever wants the same window. *)

clientVars == <<pc, stage, attempt, calls, reply, strays, answer>>

SweepHold ==
  /\ resv = "held"
  /\ resv' = "released"
  /\ UNCHANGED <<clientVars, key, taken, freed>>

TakeSlot ==
  /\ ~taken /\ resv \notin {"held", "confirmed"}
  /\ taken' = TRUE
  /\ UNCHANGED <<clientVars, key, resv, freed>>

GiveBack ==
  /\ taken
  /\ taken' = FALSE
  /\ freed' = TRUE
  /\ UNCHANGED <<clientVars, key, resv>>

Client == Begin \/ Receive \/ Break \/ Backoff \/ Expire
Server == Serve \/ \E s \in {"reserve", "confirm"} : ServeLate(s)
Others == SweepHold \/ TakeSlot \/ GiveBack

ExchangeNext == Client \/ Server \/ Others

-----------------------------------------------------------------------------
(* Properties. *)

ExchangeTypeOK ==
  /\ pc \in {"idle", "sent", "backoff", "done"}
  /\ stage \in Stages
  /\ attempt \in 0 .. MaxRetries + 1
  /\ calls \in 0 .. MaxCalls
  /\ reply \in {Unhandled, "ok", "not_found", "fault", "created", "overlap",
                "key_reuse", "released"}
  /\ strays \in [{"reserve", "confirm"} -> 0 .. MaxRetries + 2 + MaxCalls]
  /\ key \in {"none", "mine", "other"}
  /\ resv \in {"none", "held", "confirmed", "released"}
  /\ taken \in BOOLEAN /\ freed \in BOOLEAN
  /\ answer \in [Stages -> {"none", "found", "not_found", "unavailable",
                   "unexpected", "held", "key_reuse", "slot_unavailable",
                   "confirmed", "released"}]

\* Whatever was lost, repeated or late, a definite answer is true: a held
\* reservation was made under the caller's key, a confirmed one is confirmed and
\* a released one released, and no call is told that the slot is another's, or
\* the key, when the reservation in the way is the one it made itself.
AnswerIsTrue ==
  /\ answer["reserve"] = "held" => key = "mine" /\ resv # "none"
  /\ answer["reserve"] = "slot_unavailable" /\ ~freed => resv = "none"
  /\ answer["reserve"] = "key_reuse" => resv = "none"
  /\ answer["confirm"] = "confirmed" => resv = "confirmed"
  /\ answer["confirm"] = "released" => resv = "released"

=============================================================================
