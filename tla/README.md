# Verification of wakewake

wakewake books watercraft by the hour. Five services (Availability, Booking,
Payment, Notification, Catalog) and a gateway, each with its own PostgreSQL
database, talk over HTTP and over RabbitMQ with a transactional outbox and an
inbox. This directory holds TLA+ models of the parts in which order matters,
the TLC runs that check them on small instances, and proofs, checked by TLAPS,
of the results that should hold for every instance.

Paths below are relative to the repository's root, which is mounted as `src/`
in `PROJECT.json`.

## Inventory

| Component | State it keeps | Operations | What makes it correct |
|---|---|---|---|
| Availability, reservations (`services/availability`) | `reservation`, `idempotency_key`, `outbox` | reserve, confirm, release, consume BookingCancelled | no two live reservations of a resource overlap; one reservation per key; released is final; each fact is staged once, with its state change |
| Availability, TTL sweeper | the deadline column | scan and release of expired holds, by every replica | every hold ends; never early; never what was paid for meanwhile |
| Booking (`services/booking`) | `booking`, `idempotency_key`, `outbox`, `processed_event` | create, cancel, consume PaymentSucceeded, PaymentFailed, ReservationReleased | a confirmed booking was paid for and has its watercraft; every held booking ends; the window of a dead one is given back |
| Payment (`services/payment`) | `payment`, `booking_context`, `idempotency_key`, `stripe_event`, `outbox` | createPayment, Stripe webhook, consume BookingHeld | a booking is charged at most once; an outcome is stated once and is the one Stripe reported; none is dropped |
| Outbox and relay (`shared/platform/outbox`) | the `outbox` table | stage, claim, publish, mark, give up, prune | a staged event is published or given up for cause; marked only once the broker has it |
| Publisher and topology (`shared/platform/broker`) | a confirm-mode AMQP channel | publish, declare a queue | a publish that returns success has reached the queue |
| Consumer and inbox (`shared/platform/consumer`, `inbox`) | `processed_event`, the queue and its dead letters | receive, claim, handle, retry, ack, dead-letter | an event takes effect at most once; no delivery is lost; all settle |
| Idempotency keys (`shared/platform/idempotency`) | `idempotency_key` | claim, look up | one resource per key and body |
| Transactions (`shared/platform/pgxx`) | none | commit or roll back | a failed transaction leaves nothing |
| HTTP client retries (`shared/platform/httpx`) | attempts of one call | send, back off, repeat, time out | a repeated request is harmless; what the caller makes of an answer is true; every call returns |
| Notification (`services/notification`) | `sent_notification`, `processed_event` | consume BookingConfirmed, hand an email to the SMTP relay | every confirmation is mailed; a second email only after a fault |
| Catalog (`services/catalog`) | `product` (read only) | list, get | a walk through the pages neither repeats nor skips |
| Gateway, routing and authentication (`services/gateway`) | the identity provider's keys | route, verify a token, forward | only authenticated requests get to a protected upstream; the limiter sees who asks |
| Gateway, rate limiter | a map of token buckets, in memory | allow, evict | a caller has its budget, to the token, and memory is bounded |
| Process lifecycle and configuration (`services/*/cmd`, `services/*/internal/config`) | settings, open resources, goroutines | load, open, run, fail, drain, close | nothing is closed under its users; a stop ends; a failed process serves again |
| Webhook signatures, logging, tracing, correlation, test kit, infrastructure | none of the system's state | | |

How they interact. Booking calls Availability's HTTP API (hold, confirm) and
Catalog's, through a transport that repeats requests. The gateway stands before
all of them. Everything else between services is events: `BookingHeld` to Payment,
`PaymentSucceeded` and `PaymentFailed` to Booking, `BookingCancelled` to
Availability, `ReservationReleased` to Booking, `BookingConfirmed` to
Notification. A fact is staged in the transaction that makes it true, a relay
publishes it, a consumer handles it in a transaction that also records its id.

What is hard here: database transactions that interleave (keys, exclusion
constraints, row locks), several replicas of each relay, sweeper and consumer,
crashes between a commit and the message that tells of it, events handled
twice, late or in another order, HTTP answers that are lost after the effect
happened, listings that change while they are walked through, processes that
fail while they serve, and two databases that change together only by way of
events. The list, line by line, is `hazards` in `PROJECT.json`, with the properties that
would catch each one going wrong, or the reason why none does yet.

## Modules

| Module | Stands for | Shape |
|---|---|---|
| `Calendar` | what Availability promises, without keys, transactions, locks, clocks or sweepers | abstract specification |
| `Availability` | the reservation table and all that writes to it | one action per step another transaction can observe |
| `MCAvailability` | windows and symmetry for TLC | |
| `Delivery` | what outbox, broker and inbox promise about one event | abstract specification |
| `Outbox` | outbox table, relay replicas, their AMQP channels, the broker's side | one action per step of `publishBatch` and `Publish` |
| `Consumer` | a queue, its replicas, the inbox transaction, the dead-letter queue | one action per step of `handleDelivery` and `Process` |
| `EventPipeline` | `Outbox` and `Consumer` composed: what is routed is what arrives | implements `Delivery` |
| `Payment` | createPayment, BookingHeld, Stripe as used, the webhook | one action per read, request and transaction |
| `MCPayment` | symmetry for TLC | |
| `Booking` | Booking and the saga, over `Calendar` and over events as `Delivery` delivers them | one action per request step and per handler |
| `MCBooking` | windows for TLC | |
| `Notification` | the handler of BookingConfirmed and the SMTP relay | extends `Consumer`: its steps, with a row and an email |
| `Gateway` | router, authentication and rate limiter | one action per fate of a request |
| `Listing` | the keyset pages of products and of bookings | one action per page, one per row that appears or no longer matches |
| `Exchange` | getProduct, createReservation and confirmReservation through `httpx` | one action per event of an attempt, at the client or at the server |
| `Journey` | a customer at the edge: `Gateway` before `Listing` and `Exchange` | composes the three |
| `MCJourney` | rows and other callers for TLC | |
| `Lifecycle` | `run()` of the six services, and what surrounds it | one action per step of `run`, of a goroutine, of a dependency |
| `AvailabilityProofs`, `BookingProofs`, `PaymentProofs`, `OutboxProofs`, `NotificationProofs`, `PipelineProofs`, `JourneyProofs`, `LifecycleProofs` | theorems about `Availability`, `Booking`, `Payment`, `Outbox`, `Consumer` and `Notification`, `EventPipeline`, `Journey` with the three it composes, `Lifecycle` | |

The composition follows the promises: `Availability` implements `Calendar`
(property `ImplementsCalendar`), `EventPipeline` implements `Delivery`
(`ImplementsDelivery`), and `Booking` instantiates `Calendar` and treats each
event the way `Delivery` allows (`fate`: none, owed, then handled or parked).
That is what keeps the saga small enough to check in every order of its events.
`Notification` runs on `Consumer` itself, as the email goes out inside the
consumer's transaction. In `Journey` a page is fetched, and a booking made, only
by a request the limiter admits and the router sends to the listing's service, or
to Booking (`Upstream`).

### How state and actions correspond to the code

*Availability.* `row`, `keys` and `facts` are the tables `reservation`,
`idempotency_key` and `outbox` as committed. A reserve call goes through
`Reserve` (decode, fingerprint, validate), `ClaimKey`, `InsertRow` and
`CommitReserve`; what it has written but not committed shows only in the waits
of others: `KeyBusy` for `INSERT ... ON CONFLICT` on a key another transaction
claimed, `SlotBusy` for the exclusion constraint against a row another
transaction inserted. A transition locks (`LockRow`, `SELECT ... FOR UPDATE`),
decides with one of the pure operators `ConfirmT`, `ReleaseT`,
`ReleaseIfExpiredT`, `CompensateT`, and commits. The sweeper reads the clock,
scans, and decides each row again under its lock, with the time it read first.
`AbortReserve`, `RollbackTransition` and `SweepStop` are the database errors and
process stops; `CommitReserve` may also lose its answer.

*Outbox.* `relay[p]` is one `publishBatch`: the rows claimed (locked), the rows
still to be tried, and what the commit will write. `wire` and `confirms` are the
two directions of the publisher's channel, so that a confirmation that comes
late is still there for the next publish to read. A rolled back or crashed
batch leaves its messages where they were.

*Consumer.* `worker[w]` is one `handleDelivery`, one delivery at a time, as the
loop is. The inbox transaction is visible between `ClaimEvent` and `Commit`:
another replica's claim of the same event waits. The queue itself is derived:
what arrived and is neither acknowledged, dead-lettered nor in hand.

*Payment.* createPayment holds nothing between its steps: context and expiry,
`FindIdempotent`, `PaymentByBooking`, Stripe, and then one transaction. Stripe
is external: one intent per idempotency key, outcomes only for an intent whose
client secret somebody has, webhooks in any order and repeatedly.

*Booking.* `slot` is Availability's calendar and `holds` its keys. The
PaymentSucceeded consumer is three steps, as it asks Availability while it holds
the booking's row; all other handlers are one. `Park` is the dead-letter queue.
`charge` is Payment's one outcome per booking.

*Notification.* `sent` is the table `sent_notification` as committed, `mails`
counts what the SMTP relay accepted. `Notify` is `ConfirmationHandler.Handle`:
`RecordSent`, then the email, then (`Commit`, `Keep`) the transaction of the
inbox. `SendFails` is a send whose acceptance may not have been heard of.

*Gateway.* `bucket` is the limiter's map; a bucket holds whole tokens and the
ticks since it was used, up to where `evictIdle` stops telling them apart. A
bucket that was just made has a zero seen time (`Unseen`) and goes into the map
before the eviction it sets off. `allowance` and `crowded` are history: what a
caller's own requests leave of its budget, and the callers whose new bucket was
dropped at once.

*Listing.* Rows become visible in any order, since `created_at` is the start of
the inserting transaction. `Page` is the query with one row more than the page
and the cursor made from the last row kept. `api` says which listing it is: they
treat parameters, and cursors that do not decode, differently. `steady` is
history: the rows that matched during the whole walk.

*Exchange.* The client's state is the call (`stage`), the attempt, and whether it
waits for an answer or between attempts. A request that is given up is forgotten
or becomes a stray, which the server may carry out at any later time. The server
is one key, one window and one reservation: what `Availability` can answer these
calls with. `Parsed...` are the generated parsers, `...Answer` the adapters in
`services/booking/internal/infra`. A confirm that fails is made again with the
next delivery of the payment.

*Lifecycle.* `service` chooses which of the six runs. `pc` is where `run()`
stands; `worker` its goroutines, `reported` the failure channel, with the
buffer each service gives it; `opened` what `run` has opened, in order, and closes in
reverse (the gateway's proxies, which have nothing to close, are among it as the next
thing that may fail). A process starts with at most one defective setting: `Fails` are
those `Load` refuses (`configured`), `Spoils` those that it passes on to something
that then can never be opened or listened on (`spoilt`). `keyed` says whether the
gateway has signing keys, which `/readyz` asks; `RefreshKeys` is keyfunc's fetch
in the background. `Restart` is docker-compose's policy.

### Two reductions

A reservation, a payment and a booking are named by the call that inserts them:
each call mints one id and inserts at most one row, so that the immutable
columns of a row are its call's request. And fingerprints are equal exactly when
the bodies are: they are SHA-256 of the decoded body.

## Runs

| Run | Question | Bounds |
|---|---|---|
| `AvailabilityReserve` | Do three reserve calls on two keys, with a concurrent transition, keep the calendar? | windows [1,2), [2,3) and [1,3): back to back, and overlapping both; one transaction, no sweeper, one fault |
| `AvailabilitySweep` | Do a sweeper and a transaction that go for the same rows ever free too much, too early, or twice? Does every hold end? | two neighbouring reservations, batch 1, so that a pass that released a full batch starts over; one fault |
| `OutboxRelay` | Does a backlog with an unpublishable row at its head drain, without rows given up early and without needless duplicates? | two relays, two rows, batch 2, two attempts, two faults, one late confirm, queue not bound at first |
| `Notification` | Is every event handled once or dead-lettered for cause, and every confirmation mailed, once unless there was a fault? | an event that can be mailed, one nobody can be found for, one that does not parse; two copies of each, two replicas, two attempts, two faults |
| `EventPipeline` | Do outbox and inbox together keep the promise of `Delivery`? | two events, one of them poisoned, one relay, one worker, a fault of the outbox and two of the consumer |
| `Payment` | Can a booking be charged twice, or an outcome be lost, doubled or invented? | two calls, keys, bookings and webhook transactions, three event types, one fault |
| `Booking` | Is a confirmed booking always backed, and is every hold over in the end? | two calls for overlapping windows, with the same or different keys, one fault |
| `Lifecycle` | Does any failure leave a process hanging, or close what is in use? | all six services, each with sound settings or one defect: any required or range-checked setting, `DATABASE_MAX_CONNS` or `HTTP_ADDR` that is unset, malformed or out of range; one request in flight, two faults among outages, lost connections, failing listeners and kills |
| `Journey` | Are budgets exact, pages complete and answers true, and does every errand end? | two subjects and an address, burst and rate 1, threshold 3; three rows, two of them created at one time; limits absent, malformed, 0, 1 and above the maximum; a malformed cursor; two retries, two confirm calls |
| `OutboxLateConfirm` | violation, see findings | |
| `OutboxUnroutable` | violation, see findings | |
| `BookingRetry` | violation, see findings | |

Why the bounds are enough. A race needs two contenders, and a conflict with
both neighbours of a window needs three reservations; `AvailabilityReserve` has
them. Two replicas of a relay, sweeper or consumer are what any pairwise lock
has to keep apart. Two attempts make the last one and one before it. Faults are
counted (`MaxFaults`, `MaxLapses`, `MaxTimeouts`), and one is enough to stop
any step half way while the rest goes on; where two faults in a row matter
(a retry that fails too, a second part of a process that fails) the run has
two. In `Journey`, three callers and a threshold of three fill the map, an
`IdleTTL` of 0 makes a bucket idle after one tick, and three rows make two pages
with a row to look ahead at; `MaxRetries` is the code's own value.
`MaxNow` bounds Availability's clock:
a call starts only if its deadline lies within it, so that no hold outlives the
modelled time. `MaxCopies` bounds the duplicates of an event. Symmetry is used
for safety only, over names the specifications never tell apart.
The theorems have none of these bounds.

`CHECK_DEADLOCK FALSE` is set everywhere: each instance has a finite number of
calls and events, and stops when they are done. That nothing stops before is
what the liveness properties say.

### Fairness

* `Availability`: the clock advances; a ticker fires and a pass goes on
  (`sweeper.Run` loops until the process ends, and a failed pass does not end
  it); a transaction that holds a lock ends; a sweep that waits for a row lock
  gets it, strongly fair, because PostgreSQL queues waiters. No call has to be
  made, confirmed or released by anyone.
* `Outbox`: the poll ticker fires, a relay goes on with its batch, the broker
  handles what it was sent, and a service whose connection is gone is started
  again. Enqueueing, kicks, faults and pruning are not fair.
* `Consumer` and `Notification`: a replica goes on; a queue is first in, first
  out, hence strong fairness for taking each event. A failing email is a fault, of
  which each run has a bounded number.
* `Lifecycle`: `run` and each goroutine go on, an outage ends, keyfunc fetches the
  keys again in the background, and docker-compose starts a failed process again. No request in flight need end
  (that is what the grace period is for), and nobody need send a signal.
* `Journey`: time passes; a customer that asks over and over is answered at last
  (strong fairness for a page that is admitted and answered: the other callers
  may take turns with it, and it may be refused, mistaken or unlucky any number
  of times in between); the customer posts the booking; and the timer of the
  `http.Client` fires. No server has to answer a call of a booking, ever.
* `Booking`: requests do not hang, events are delivered, deadlines pass. A
  customer who pays or cancels owes nothing. Fairness is weak, of the
  disjunction of those steps: none can be repeated for ever, as rolled back
  transactions are bounded, so none is starved.

## Findings

Each is a violation run of one property, the sentence the repository says of
itself.

1. `OutboxLateConfirm`: a confirmation that comes after `confirmWait` is read as
   the answer to the next publish (`shared/platform/broker/broker.go:208`), and a
   row is marked published without its own acknowledgement, against
   `broker.go:162-163`. The same relay satisfies the property when no confirm
   is late.
2. `OutboxUnroutable`: `mandatory` is set but nobody listens for returns
   (`broker.go:203`); an event published before its queue is bound is lost and
   marked published, against `broker.go:200-202`.
3. `BookingRetry`: a booking id is minted per attempt
   (`services/booking/internal/domain/service.go:78`) and is part of the body
   Availability fingerprints, so a concurrent or repeated request is refused as
   a reuse of its key, against `services/booking/internal/domain/booking.go:60-61`
   and `contracts/openapi/booking.yaml:251-252`.

Other observations, made while modelling and followed by the models as the code
has them:

* A full batch that stopped at a failed publish is followed by the next at once
  (`shared/platform/outbox/relay.go:139`), although `relay.go:232-233` leaves the
  rest to the next tick.
* `MaxRetries` "defaults to 2 (so 3 attempts total)" (`httpx/httpx.go:70`), but
  when all three are answered with a retryable status a fourth request goes out
  (`retry.go:86`); and "Timeout per attempt" (`httpx.go:67`) is the timeout of the
  whole call with its backoffs.
* An answer that is lost after its effect makes the "no hold was created" of
  `services/booking/internal/infra/availability.go:65` and
  `api/server.go:125` untrue; the hold then ends with its deadline. This is why
  `AnswerIsTrue` is about definite answers only.
* A listing of bookings has no upper limit, and a malformed cursor starts it from
  the top where the catalog answers 400 (`FetchMalformed`).
* When the limiter's map has reached its threshold, the bucket of a new caller
  is dropped with the idle ones as it has not been seen yet
  (`ratelimit.go:71-75`), so that the caller's next request finds a full bucket
  again. `BudgetExact` is about all other callers (`crowded` names these), and
  `BucketsBounded` holds because of it.
* Background workers are stopped by the same signal that begins the drain: that
  requests are drained before the workers go is true of a component's failure
  only (`RequestsKeepWorkers`).
* docker-compose gives the catalog no restart policy (`Restarted`).
* A number or a duration that is malformed falls back on its default silently,
  all but `SMTP_PORT` (`config.go:118-160`). URLs and addresses are not parsed by
  `Load` at all, and neither is the sign of `DATABASE_MAX_CONNS` looked at: where
  one of them cannot be used, opening the pool (`pgxx.go:46-49`, `70-73`), the
  connection (`broker.go:57-60`), the verifier or a proxy (`proxy.go:30-36`), or
  listening, fails each start, and docker-compose starts the process again for
  ever (`Spoils`). Whether that or an exit for good is better is not for a property
  to say; `EndsOrServes` excepts such settings (`Sound`).
* Without Keycloak the gateway "exits" (`docker-compose.yml:60-61`,
  `verifier.go:37-40`), or starts "against an empty key set" and is not ready until
  the next refresh (`infra/docker-compose.yml:71-74`). Which it is, is the library's
  (`keyfunc`) affair; the model allows both (`OpenKeys`, `RefreshKeys`).
* A repeated createReservation is answered 201 with its reservation even when that
  was swept in the meantime (`services/availability/internal/infra/store.go:138-147`), and
  booking does not look at the status it is given. `AnswerIsTrue` therefore reads
  "held" as: the key made this reservation. Whoever confirms it is told the truth.
* The primary key of `sent_notification` keeps a second row from being written,
  not a second email from being sent, if the commit after the email failed.

Conditions under which the passing runs hold, and which the code does not
enforce: Booking assumes that a request ends before the hold it made expires
(`TTLOutlivesRequests`; a sweep between the two is accepted for an unknown
booking and the booking stays held), that nobody calls Availability's release
endpoint for a confirmed reservation (no service in the repository does), and
Stripe's one intent per key. `NoStrandedReservation` and
`SagaSettles` except events that were dead-lettered: those wait for a human.

## Proofs

Eight modules of theorems, one per component or composition; each `EXTENDS` the
module it is about. TLC checks each property below on the instance of a run; the
theorem holds for every value of the constants the module's `ASSUME`s allow. All
of the safety properties that the passing runs check are theorems, the two
refinements included. Three theorems have a premise, named below.

| Module | Theorems and the properties they state |
|---|---|
| `AvailabilityProofs` | `TypeCorrect` (`TypeOK`), `NoDoubleBooking` (`NoOverlap`), `IsolationHolds` (`Isolation`), `OutboxTellsTheTruth` (`FactsMatchRow`), `KeysMakeOneReservation` (`OneReservationPerKey`), `LivesAreProper` (`ReservationLifecycle`), `NoCallConflictsWithItself` (`NeverOwnConflict`), `AvailabilityIsACalendar` (`ImplementsCalendar`) |
| `BookingProofs` | `TypeCorrect`, `ConfirmedBookingsAreBacked` (`ConfirmedIsBacked`), `BookingTellsTheTruth` (`FactsMatchBooking`), `NoReservationIsStranded` (`NoStrandedReservation`), `EventsAreDelivered` |
| `PaymentProofs` | `TypeCorrect`, `NobodyPaysTwice` (`NoDoubleCharge`), `AnswersAreOwn` (`AnswerIsOwnPayment`), `OutcomesAreStatedOnce` (`OutcomeStatedOnce`), `NoOutcomeIsDropped` (`NoOutcomeDropped`) |
| `OutboxProofs` | `TypeCorrect`, `RowsAreGivenUpForCause` (`GivenUpForCause`), `DuplicatesAreOwed` (`DuplicatesNeedFaults`); with `MaxTimeouts = 0`, `PublishedIsConfirmed` (`ConfirmedBeforePublished`); with `ConsumersFirst` as well, `PublishedReachesItsQueue` (`PublishedIsQueued`) |
| `NotificationProofs` | `NotificationIsAConsumer`, `HandlersTakeEffectOnce` (`EffectOnce`), `NoDeliveryIsLost` (`NothingDropped`), `TypeCorrect` (`NotificationTypeOK`), `ConfirmationsAreMailed` (`ConfirmationMailed`) |
| `PipelineProofs` | with `MaxTimeouts = 0` and `ConsumersFirst`, `PipelineDelivers` (`ImplementsDelivery`) |
| `JourneyProofs` | `TypeCorrect`, `BudgetsAreKept` (`BudgetExact`), `MapIsKeptSmall` (`BucketsBounded`), `WalksAreExact` (`WalkIsExact`), `AnswersAreTrue` (`AnswerIsTrue`) |
| `LifecycleProofs` | `TypeCorrect`, `ClosedAfterUse` (`NothingUsedAfterClose`), `DrainComesFirst` (`RequestsKeepWorkers`) |

Hardly any of these properties is inductive as it stands. What each proof adds,
and why:

*Availability.* A commit writes a row that must overlap no live row *now*, which
follows from the check at the insert only if nothing that overlaps was committed
or brought back to life since. `SafeInv == TypeOK /\ Isolation /\ RowsApart`
says it: the row a lock holder read is the row of the table, no two hold one
row, a row inserted and not yet committed overlaps neither a live row nor
another such row, and live rows are apart (`RowsApart`). `TransitionNeverRevives` (no transition makes a released row
live) is the step that matters. `KeyInv` adds `KeysAreClaims` (a key stands for
a committed reservation, or for one transaction that is about to commit it), for
`OneReservationPerKey` and `NeverOwnConflict`. The properties themselves speak of
instants (`Collide`), not of the comparison the exclusion constraint makes (`Overlaps`):
a boundary that is off by one makes one of the two fail. `ApartMeansNoCollision` and
`OverlapIsACollision`, for windows that end after they start (`WindowsValid`),
are the two halves of why it is right. The facts and the lifecycle need
`Roles`: only sweepers sweep, and none reads the clock ahead of time, so that
what a sweep releases is past its deadline even if the scan was long ago.

The refinement takes the same invariants. The mapping reads a reservation off
its row once it is committed; a reserve that commits is a `Hold`, and what
`Isolation` says of the uncommitted row is what the guard of `Hold` asks for; a transition that
commits is a `Confirm`, a `Release`, or a stutter, by what the lock holder read
(`Isolation`); all other steps are stutters.

*Payment.* `CallInv` (about calls) and `PaymentInv` (webhooks added). `TypeOK`
alone is not inductive: that a call has a request at all depends on where it
stands (`Asked`). A booking has one payment because a payment is inserted under
the unique booking id, be it committed or not (`OnePaymentPerBooking`), and one
intent pays for one booking because Stripe's key is the caller's (`Intents`,
`KeyTable`). An outcome is stated once because a transaction that holds the
payment's lock has read the payment as it is, and for an outcome of its own
intent (`Locks`); nothing is dropped because an event on record as processed has
ended its payment (`SeenEnded`).

*Booking.* `SagaInv`: Availability's reservations do not overlap (`Apart`, what
`Calendar` promises), and `Saga` ties a booking to what is owed to it: whoever
asks Availability to confirm does so under a booking that is held and was paid
for, and news of a cancellation is only about when it was cancelled. Every
handler, in whatever order events come, keeps the row, confirms under a confirmed
reservation, or cancels (`RowStep`), which is why there is one argument and not
one for each handler. `EventsAreDelivered` joins `Booking` to `Delivery`: an event
is staged only with the change it tells of (`Grounded`), and such a change is made
once and never undone, so that each event goes its way to the handler or the
dead-letter queue once. What `Booking` assumes of events is thus no more than
`PipelineDelivers` proves of outbox and inbox.

*Consumer and Notification.* `ConsumerInv`: one transaction at a time works on an
event (`OneTransaction`, the dedupe row), a delivery in hand is sound (attempts
left, and failures owed to lapses), and no copy is settled or in hand that did not
arrive (`Accounts`), which counts the replicas that hold an event. It is
shown of `Consumer`'s steps, and `NotificationIsAConsumer` carries it over.
`MailInv` adds the ledger of emails (`Mailed`): an email goes out before the
transaction commits, so that `1 + lapses` bounds them only together with what
holds while the event is neither recorded nor about to be.

*Outbox.* `RelayInv`: locked rows are pending and locked by one relay (`Claims`),
a relay's batch, its sent and its bad rows are what it claimed, apart from each
other (`Batches`), and rows that may still be published have attempts left.
`DuplicatesNeedFaults` counts what reached the broker, which a copy on the
wire does only later, when the relay that sent it may be gone. The ledger
`CopiesOwed` therefore counts for each event the copies routed, those on the
wire and the nacks not yet read, and allows one per fault or late confirm
and one more (`Excused`) while the event is on its way to a commit on a channel
that works, or committed. Each step of a relay either adds nothing, uses the one
excuse, or pays with a fault or a timeout of its own.

Two properties that the code does not have, as the findings show, hold under the
premise each finding names. When no confirm comes after `confirmWait`, a channel
holds nothing but what its relay waits for, the message in hand or the answer to
it (`Turns`), although the relay never looks at a delivery tag; so crashes, nacks
and lost connections alone never mark a row published that was not acknowledged.
When the consumer declared its queue first, what was acknowledged is in it
(`Queued`).

*EventPipeline.* The refinement is put together from the two sides.
`PipelineProofs` takes the lemmas of `OutboxProofs` and `NotificationProofs`
through `INSTANCE` (`OP`, `CP`), after showing that their actions are those of
`EventPipeline` (`SameOutbox`, `SameConsumer`). `PipelineInv` is `LedgerInv`,
`Turns` and `Queued` of the one, `ConsumerInv` of the other, and that what is
handled was routed. The ledger of copies is what makes them fit: the broker's
copy is an arrival only below `MaxCopies`, and the ledger says that there are
never more than that. The fate of an event then follows from its row, from the
copies that have not been settled and from the inbox (`FatesKnown`); nothing is
ever "lost" because a row leaves the backlog for a copy that is in the queue, or
was handled or dead-lettered. A step of the outbox does one thing at a time
(`OneThingAtATime`), a step of the consumer settles copies of one event
(`OneEventAtATime`). Without the two premises a published event may have no copy
at all, and the refinement fails.

The proof corrected `Delivery`: it allowed one event to be parked at a time, but
the commit of a batch may be the last word on several, all of whose copies were
dead-lettered while the relay had not committed yet. `Park` takes a set now, and
the run has the two consumer faults it takes to see it.

*Journey.* Each theorem rests on an invariant of one part, inductive for the part
alone (`LimiterInductive`, `ExchangeInductive`, `WalkInductive`), and on
`EachStepsAlone`: to the limiter, to the walk and to the calls, every step of
`Journey` is one of their own or a stutter.

`BudgetExact` needs `Refilled` (a bucket that is not full has got back `Rate` for
every tick since it was used): with `Burst <= Rate * (IdleTTL + 1)`, which the
code's constants meet, an idle bucket is full (`IdleIsFull`), and dropping it
changes nothing. The bound on the map needs that it is finite, and that the
eviction drops at least the bucket that was just made (`WithBucketKeeps`).

`AnswerIsTrue`: an answer becomes true at the server and known at the client in
different steps, with the sweeper, other callers and late attempts in between.
`ExchangeInv` says the same of a reply on its way (`Tells`) as of an answer that
has arrived (`Stands`); `OutcomeKeeps` is what no outcome of the server may undo,
waited for or not. That `strays` keeps its bound needs the count of attempts per
call (`Attempts`).

`WalkIsExact` speaks of the end of a walk. `WalkInv` says the same above the
cursor: what was returned is in order and reaches down to it, and no row that
was there all the time is missing above it. The rest is about one page. That a
page holds the newest rows after the cursor, that they can be put in order, and
that the last of them is the next cursor would each be an induction over the
size of a set. Instead a row's rank is the number of rows before it: ranks
are distinct and below the size of the set, so that by the pigeonhole principle
(`FS_Injection`) every rank is some row's (`Ranks`), and a page is the rows
whose rank is below its size (`NewestByRank`).

*Lifecycle.* What is open is always the first so many things that the service
opens (`Stack`), and what is open and who is at work follows from where `run`
stands (`Phases`).

The assumptions are the `ASSUME`s of the modules, evaluated by TLC in every run
that extends them. Two of them are about finite sets, as what is counted must be
countable: a deployment runs finitely many replicas (`ConsumerAssumption`), and a
table holds finitely many rows (`ListingAssumption`).

Only model-checked is liveness: `HoldsEnd`, `BacklogDrains`, `EveryEventSettles`,
`EveryFactSettles`, `SagaSettles`, `EndsOrServes` and `JourneyEnds`. The prover has
no means for properties that rest on fairness or `ENABLED`. It cannot instantiate induction theorems that take an
operator either, and proves nothing in modules that declare a `RECURSIVE`
operator; the modules here have none.

## Not modelled

* Webhook signatures: a keyed hash over bytes. A webhook in `Payment` is one
  whose signature was verified; so is a token in `Gateway`.
* Slot listing, payment look-up and the other reads that change nothing and
  decide nothing.
* The generated code of operations other than those of `Exchange`, of
  createBooking and of the two listings. It encodes, decodes and binds
  parameters in the same way for each operation; the shapes of events are
  abstracted to whether they parse.
* Header and path rewriting in the gateway, emails' wording, logging, tracing (its
  set-up before anything is opened included) and correlation ids.
* Settings that are used only once a service is ready: with a wrong `OIDC_ISSUER`,
  Stripe key or base URL of booking's clients a process serves, to no use.
* The size of a connection pool and the lifetime of its connections.
* Test kit and deployment files, but for docker-compose's restart policy.

PostgreSQL, RabbitMQ, Stripe and the SMTP relay are modelled as the code uses
them. Hazards that no property covers carry a note in `PROJECT.json`.

## Plan

What is left is to prove more, on `Outbox` above all: how much late confirms can
cost at most. `ConfirmedBeforePublished` is proved for runs without any.
