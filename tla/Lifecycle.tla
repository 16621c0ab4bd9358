----------------------------- MODULE Lifecycle ------------------------------
(***************************************************************************)
(* The life of one service process: run() reads the settings, opens what   *)
(* the service depends on, starts its background workers and its HTTP      *)
(* server, waits for a failure or a signal, and tears everything down      *)
(* again.  Around it: the requests in flight, the dependencies that come   *)
(* and go, and docker-compose, which starts a failed process again.        *)
(*                                                                         *)
(* All six services have this shape; which one runs is chosen at the start.*)
(***************************************************************************)
EXTENDS Integers, Sequences, FiniteSets

CONSTANTS
  MaxRequests,   \* bound: requests in flight at once
  MaxFaults      \* bound: outages, lost connections, failing listeners, kills

ASSUME LifecycleAssumption == MaxRequests \in Nat /\ MaxFaults \in Nat

-----------------------------------------------------------------------------
(* Settings: what each service requires of its environment, what it checks  *)
(* the range of, and what it takes as it is.                                *)

PostgresSettings == {"DATABASE_URL"}
AMQPSettings == {"RABBITMQ_URL"}

GatewayUpstreams ==
  {"CATALOG_BASE_URL", "AVAILABILITY_BASE_URL", "BOOKING_BASE_URL",
   "PAYMENT_BASE_URL"}
GatewaySettings == {"OIDC_ISSUER", "OIDC_JWKS_URL"} \cup GatewayUpstreams

AvailabilityRanges ==
  {"BOOKING_HOLD_TTL_SECONDS", "AVAILABILITY_SWEEP_INTERVAL_SECONDS",
   "AVAILABILITY_SWEEP_BATCH_SIZE"}
BookingRanges == {"BOOKING_HOLD_TTL_SECONDS"}
OptionalSettings == {"DATABASE_MAX_CONNS", "HTTP_ADDR"}
PaymentSettings == {"STRIPE_SECRET_KEY", "STRIPE_WEBHOOK_SECRET"}
PaymentRanges == {"STRIPE_WEBHOOK_TOLERANCE_SECONDS"}
NotificationRanges == {"SMTP_PORT"}

-----------------------------------------------------------------------------
(* The services: their settings; what run opens, in order; what it starts  *)
(* beside the HTTP server; the buffer its failures are reported through.   *)

Gateway ==
  [required |-> GatewaySettings, checked |-> {},
   opens |-> <<"keys", "upstreams">>, background |-> {}, buffer |-> 1]

Catalog ==
  [required |-> PostgresSettings, checked |-> {},
   opens |-> <<"pool">>, background |-> {}, buffer |-> 1]

Availability ==
  [required |-> PostgresSettings \cup AMQPSettings,
   checked |-> AvailabilityRanges,
   opens |-> <<"pool", "conn", "publisher">>,
   background |-> {"relay", "sweeper", "BookingCancelled"}, buffer |-> 4]

\* Mutant: a buffer for one failure.
BookingOneFailure ==
  [required |-> PostgresSettings \cup AMQPSettings, checked |-> BookingRanges,
   opens |-> <<"pool", "conn", "publisher">>,
   background |->
     {"relay", "PaymentSucceeded", "PaymentFailed", "ReservationReleased"},
   buffer |-> 1]

Booking ==
  [required |-> PostgresSettings \cup AMQPSettings, checked |-> BookingRanges,
   opens |-> <<"pool", "conn", "publisher">>,
   background |->
     {"relay", "PaymentSucceeded", "PaymentFailed", "ReservationReleased"},
   buffer |-> 5]

Payment ==
  [required |-> PostgresSettings \cup AMQPSettings \cup PaymentSettings,
   checked |-> PaymentRanges,
   opens |-> <<"pool", "conn", "publisher">>,
   background |-> {"relay", "BookingHeld"}, buffer |-> 4]

Notification ==
  [required |-> PostgresSettings \cup AMQPSettings,
   checked |-> NotificationRanges,
   opens |-> <<"pool", "conn">>, background |-> {"BookingConfirmed"},
   buffer |-> 2]

Services == {Gateway, Catalog, Availability, Booking, Payment, Notification}

\* A setting that is missing, malformed or out of range.
Defects ==
  [setting : OptionalSettings \cup UNION {s.required \cup s.checked : s \in Services},
   fault : {"unset", "malformed", "range"}]

\* The defects Load finds.  It parses SMTP_PORT strictly, and falls back on a
\* default where any other number is malformed.
Fails(s, d) ==
  \/ d.fault = "unset" /\ d.setting \in s.required
  \/ d.fault = "range" /\ d.setting \in s.checked
  \/ d.fault = "malformed" /\ d.setting \in s.checked \cap NotificationRanges

\* The defects Load lets pass, as it does not parse URLs and addresses, and what
\* run then can never open.
Spoils(d) ==
  CASE d.fault = "malformed" /\ d.setting \in PostgresSettings -> {"pool"}
    [] d.fault = "range" /\ d.setting = "DATABASE_MAX_CONNS" -> {"pool"}
    [] d.fault = "malformed" /\ d.setting \in AMQPSettings -> {"conn"}
    [] d.fault = "malformed" /\ d.setting = "OIDC_JWKS_URL" -> {"keys"}
    [] d.fault = "malformed" /\ d.setting \in GatewayUpstreams -> {"upstreams"}
    [] d.fault = "malformed" /\ d.setting = "HTTP_ADDR" -> {"listener"}
    [] OTHER -> {}

\* The ones docker-compose restarts on failure: all but the catalog.
Restarted == Services \ {Catalog}

VARIABLES
  service,      \* which one this is
  configured,   \* whether Load accepts its environment
  spoilt,       \* what its environment will never let it open
  pc,           \* where run stands
  opened,       \* what it has opened
  worker,       \* its goroutines, the HTTP server's among them
  reported,     \* failures in the channel, not yet read
  failure,      \* whether run returns an error
  signalled,    \* SIGTERM or SIGINT arrived: ctx is cancelled
  cancelled,    \* cancelAll was called
  late,         \* the grace period of Shutdown ran out
  keyed,        \* the gateway holds signing keys
  requests,     \* requests in flight
  up,           \* dependencies that can be reached
  connected,    \* the AMQP connection is alive
  faults

settings == <<service, configured, spoilt>>
vars == <<settings, pc, opened, worker, reported, failure, signalled,
          cancelled, late, keyed, requests, up, connected, faults>>
environment == <<settings, signalled, up, connected, faults>>
progress == <<reported, failure, cancelled, late, keyed>>

-----------------------------------------------------------------------------
Workers == service.background \cup {"http"}
Consumers == service.background \ {"relay", "sweeper"}

\* What a resource depends on.  The publisher is a channel of the connection,
\* and the reverse proxies are built without a look at their upstreams.
DependsOn(r) ==
  CASE r = "pool" -> {"postgres"}
    [] r = "keys" -> {"keycloak"}
    [] r = "upstreams" -> {}
    [] OTHER -> {"rabbitmq"}

\* What a worker needs while it runs.
Uses(w) ==
  CASE w = "relay" -> {"pool", "publisher"}
    [] w = "sweeper" -> {"pool"}
    [] w = "http" -> {}
    [] OTHER -> {"pool", "conn"}

\* cancelCtx is derived from ctx, so a signal cancels it too.
WorkersCancelled == signalled \/ cancelled

Opens(n) == service.opens[n]
Upcoming == Cardinality(opened) + 1   \* of what run opens

\* Opening r would succeed.
Available(r) ==
  /\ r \notin spoilt
  /\ DependsOn(r) \subseteq up
  /\ r = "publisher" => connected

Fresh ==
  /\ pc' = "configure"
  /\ opened' = {}
  /\ worker' = [w \in Workers |-> "off"]
  /\ reported' = 0
  /\ failure' = FALSE
  /\ cancelled' = FALSE
  /\ late' = FALSE
  /\ keyed' = FALSE
  /\ requests' = 0

Init ==
  /\ service \in Services
  /\ \E defects \in {{}} \cup {{d} : d \in Defects} :
       /\ configured = ~\E d \in defects : Fails(service, d)
       /\ spoilt = UNION {Spoils(d) : d \in defects}
                     \cap ({Opens(n) : n \in 1 .. Len(service.opens)}
                             \cup {"listener"})
  /\ pc = "configure"
  /\ opened = {}
  /\ worker = [w \in Workers |-> "off"]
  /\ reported = 0
  /\ failure = FALSE
  /\ signalled = FALSE
  /\ cancelled = FALSE
  /\ late = FALSE
  /\ keyed = FALSE
  /\ requests = 0
  /\ up = {"postgres", "rabbitmq", "keycloak"}
  /\ connected = TRUE
  /\ faults = 0

Fault == faults < MaxFaults /\ faults' = faults + 1

-----------------------------------------------------------------------------
(* Starting. *)

Load ==
  /\ pc = "configure"
  /\ IF configured
     THEN pc' = "open" /\ UNCHANGED failure
     ELSE pc' = "close" /\ failure' = TRUE
  /\ UNCHANGED <<opened, worker, reported, cancelled, late, keyed, requests,
                 environment>>

\* A dependency that cannot be reached, or a setting that cannot be used, fails
\* the start; what was opened before is closed again.
OpenFails ==
  /\ pc' = "close"
  /\ failure' = TRUE
  /\ UNCHANGED <<opened, keyed, connected>>

\* keyfunc fetches the keys.  When the first fetch fails it may give up, or go on
\* with none and fetch again later: the repository expects the one and the other.
OpenKeys ==
  /\ opened' = opened \cup {"keys"}
  /\ keyed' = Available("keys")
  /\ UNCHANGED <<pc, failure, connected>>

OpenNext(r) ==
  /\ Available(r)
  /\ opened' = opened \cup {r}
  /\ connected' = (connected \/ r = "conn")
  /\ UNCHANGED <<pc, failure, keyed>>

Open ==
  /\ pc = "open"
  /\ Upcoming <= Len(service.opens)
  /\ LET r == Opens(Upcoming) IN
     \/ r # "keys" /\ OpenNext(r)
     \/ r = "keys" /\ OpenKeys
     \/ ~Available(r) /\ OpenFails
  /\ UNCHANGED <<worker, reported, cancelled, late, requests, settings,
                 signalled, up, faults>>

\* The ping of a new pool and the first fetch of the keys are bound to ctx: a
\* signal ends them, and that is no failure.
OpenCancelled ==
  /\ pc = "open"
  /\ Upcoming <= Len(service.opens)
  /\ Opens(Upcoming) \in {"pool", "keys"} \ spoilt
  /\ signalled
  /\ pc' = "close"
  /\ UNCHANGED <<opened, worker, progress, requests, environment>>

\* ListenAndServe fails at once on an address it cannot listen on.
Start ==
  /\ pc = "open"
  /\ Upcoming > Len(service.opens)
  /\ pc' = "serve"
  /\ worker' = [w \in Workers |->
       IF w = "http" /\ "listener" \in spoilt THEN "failing" ELSE "runs"]
  /\ UNCHANGED <<opened, progress, requests, environment>>

-----------------------------------------------------------------------------
(* Serving. *)

\* The listener is closed first thing in Shutdown.
Accept ==
  /\ pc = "serve"
  /\ worker["http"] = "runs"
  /\ requests < MaxRequests
  /\ requests' = requests + 1
  /\ UNCHANGED <<pc, opened, worker, progress, environment>>

Finish ==
  /\ requests > 0
  /\ requests' = requests - 1
  /\ UNCHANGED <<pc, opened, worker, progress, environment>>

\* A consumer returns when its deliveries end.  The relay and the sweeper log
\* their failures and go on.
ConsumerFails(w) ==
  /\ worker[w] = "runs"
  /\ w \in Consumers
  /\ ~connected
  /\ worker' = [worker EXCEPT ![w] = "failing"]
  /\ UNCHANGED <<pc, opened, progress, requests, environment>>

ListenFails ==
  /\ pc = "serve"
  /\ worker["http"] = "runs"
  /\ worker' = [worker EXCEPT !["http"] = "failing"]
  /\ Fault
  /\ UNCHANGED <<pc, opened, progress, requests, settings, signalled, up,
                 connected>>

\* keyfunc fetches the keys again in the background, for the life of ctx.
RefreshKeys ==
  /\ "keys" \in opened
  /\ Available("keys")
  /\ ~signalled
  /\ ~keyed
  /\ keyed' = TRUE
  /\ UNCHANGED <<pc, opened, worker, reported, failure, cancelled, late,
                 requests, environment>>

\* A send on the channel waits while its buffer is full.
Report(w) ==
  /\ worker[w] = "failing"
  /\ reported < service.buffer
  /\ reported' = reported + 1
  /\ worker' = [worker EXCEPT ![w] = "failed"]
  /\ UNCHANGED <<pc, opened, failure, cancelled, late, keyed, requests,
                 environment>>

\* A clean stop: the context is cancelled, or the server is shut down.
Stop(w) ==
  /\ worker[w] = "runs"
  /\ IF w = "http" THEN pc \in {"drain", "join"} ELSE WorkersCancelled
  /\ worker' = [worker EXCEPT ![w] = "stopped"]
  /\ UNCHANGED <<pc, opened, progress, requests, environment>>

-----------------------------------------------------------------------------
(* Stopping. *)

\* Mutant: the workers are cancelled before the requests are drained.
StopOnFailureAtOnce ==
  /\ pc = "serve"
  /\ reported > 0
  /\ reported' = reported - 1
  /\ failure' = TRUE
  /\ cancelled' = TRUE
  /\ pc' = "drain"
  /\ UNCHANGED <<opened, worker, late, keyed, requests, environment>>

\* The first failure, or a signal, whichever select picks.
StopOnFailure ==
  /\ pc = "serve"
  /\ reported > 0
  /\ reported' = reported - 1
  /\ failure' = TRUE
  /\ pc' = "drain"
  /\ UNCHANGED <<opened, worker, cancelled, late, keyed, requests, environment>>

StopOnSignal ==
  /\ pc = "serve"
  /\ signalled
  /\ pc' = "drain"
  /\ UNCHANGED <<opened, worker, progress, requests, environment>>

\* Shutdown returns when no request is left or when its grace period is over.
Drained ==
  /\ pc = "drain"
  /\ late' = (requests > 0)
  /\ cancelled' = TRUE
  /\ pc' = "join"
  /\ UNCHANGED <<opened, worker, reported, failure, keyed, requests, environment>>

\* Mutant: run returns without waiting for its goroutines.
JoinAtOnce ==
  /\ pc = "join"
  /\ pc' = "close"
  /\ UNCHANGED <<opened, worker, progress, requests, environment>>

\* wg.Wait.  The two services without background workers wait for nobody.
Join ==
  /\ pc = "join"
  /\ \/ service.background = {}
     \/ \A w \in Workers : worker[w] \in {"failed", "stopped"}
  /\ pc' = "close"
  /\ UNCHANGED <<opened, worker, progress, requests, environment>>

\* Mutant: what was opened first is closed first.
CloseFirstOpened ==
  /\ pc = "close"
  /\ opened # {}
  /\ opened' = opened \ {Opens(1)}
  /\ UNCHANGED <<pc, worker, progress, requests, environment>>

\* The deferred closes, in the reverse of the order they were opened in.
Close ==
  /\ pc = "close"
  /\ opened # {}
  /\ opened' = opened \ {Opens(Cardinality(opened))}
  /\ UNCHANGED <<pc, worker, progress, requests, environment>>

\* Requests that outlived their grace period are cut off.
Exit ==
  /\ pc = "close"
  /\ opened = {}
  /\ pc' = "exited"
  /\ worker' = [w \in Workers |-> "off"]
  /\ requests' = 0
  /\ UNCHANGED <<opened, progress, environment>>

-----------------------------------------------------------------------------
(* Around the process. *)

Signal ==
  /\ pc # "exited"
  /\ ~signalled
  /\ signalled' = TRUE
  /\ UNCHANGED <<settings, pc, opened, worker, progress, requests, up,
                 connected, faults>>

\* The process dies on the spot, with an exit status that is not 0.
Kill ==
  /\ pc # "exited"
  /\ Fault
  /\ pc' = "exited"
  /\ opened' = {}
  /\ worker' = [w \in Workers |-> "off"]
  /\ failure' = TRUE
  /\ requests' = 0
  /\ UNCHANGED <<reported, cancelled, late, keyed, settings, signalled, up,
                 connected>>

\* restart: on-failure.  A process that was told to stop stays down.
Restart ==
  /\ pc = "exited"
  /\ failure
  /\ ~signalled
  /\ service \in Restarted
  /\ Fresh
  /\ UNCHANGED environment

Outage(d) ==
  /\ d \in up
  /\ up' = up \ {d}
  /\ connected' = (connected /\ d # "rabbitmq")
  /\ Fault
  /\ UNCHANGED <<settings, pc, opened, worker, progress, requests, signalled>>

Recover(d) ==
  /\ up' = up \cup {d}
  /\ d \notin up
  /\ UNCHANGED <<settings, pc, opened, worker, progress, requests, signalled,
                 connected, faults>>

\* Nothing dials again: a connection once lost is lost for this process.
LoseConnection ==
  /\ connected
  /\ connected' = FALSE
  /\ Fault
  /\ UNCHANGED <<settings, pc, opened, worker, progress, requests, signalled,
                 up>>

-----------------------------------------------------------------------------
Run ==
  \/ Load \/ Open \/ Start
  \/ StopOnFailure \/ StopOnSignal \/ Drained \/ Join \/ Close \/ Exit

Goroutine(w) == ConsumerFails(w) \/ Report(w) \/ Stop(w)

Dependencies == {"postgres", "rabbitmq", "keycloak"}

Next ==
  \/ Run
  \/ OpenCancelled
  \/ \E w \in Workers : Goroutine(w)
  \/ Accept \/ Finish \/ ListenFails \/ RefreshKeys
  \/ Signal \/ Kill \/ Restart
  \/ \E d \in Dependencies : Outage(d) \/ Recover(d)
  \/ LoseConnection

Spec == Init /\ [][Next]_vars

\* run and its goroutines go on, keyfunc keeps fetching, an outage ends, and a
\* failed process is started again.  No request ends in time, and nobody need send a signal.
Fairness ==
  /\ WF_vars(Run)
  /\ \A w \in UNION {s.background : s \in Services} \cup {"http"} :
       WF_vars(w \in Workers /\ Goroutine(w))
  /\ WF_vars(RefreshKeys)
  /\ WF_vars(Restart)
  /\ \A d \in Dependencies : WF_vars(Recover(d))

FairSpec == Spec /\ Fairness

-----------------------------------------------------------------------------
(* Properties. *)

TypeOK ==
  /\ service \in Services
  /\ configured \in BOOLEAN
  /\ spoilt \subseteq {"pool", "conn", "keys", "upstreams", "listener"}
  /\ pc \in {"configure", "open", "serve", "drain", "join", "close", "exited"}
  /\ opened = {Opens(n) : n \in 1 .. Cardinality(opened)}
  /\ worker \in [Workers -> {"off", "runs", "failing", "failed", "stopped"}]
  /\ reported \in 0 .. service.buffer
  /\ {failure, signalled, cancelled, late, keyed, connected} \subseteq BOOLEAN
  /\ requests \in 0 .. MaxRequests
  /\ up \subseteq Dependencies
  /\ faults \in 0 .. MaxFaults

\* Nothing is closed under whoever uses it: a worker that runs has its pool,
\* connection and channel, and so has a request unless its grace period is
\* over.
NothingUsedAfterClose ==
  /\ \A w \in Workers : worker[w] \in {"runs", "failing"} => Uses(w) \subseteq opened
  /\ requests > 0 /\ ~late => Len(service.opens) = Cardinality(opened)

\* After the failure of one component the workers that requests in flight
\* depend on go on until those are answered or out of time.  Only a signal
\* stops them at once.
RequestsKeepWorkers ==
  requests > 0 /\ (\E w \in service.background : worker[w] = "stopped")
    => signalled \/ late

\* The readiness probe: every check passes.
Ready ==
  /\ pc = "serve"
  /\ worker["http"] = "runs"
  /\ \A r \in opened : CASE r = "pool" -> "postgres" \in up
                         [] r = "conn" -> connected
                         [] r = "keys" -> keyed
                         [] OTHER -> TRUE

\* Its environment lets the service start: Load accepts it, and nothing that run
\* opens is spoilt by it.
Sound == configured /\ spoilt = {}

\* A process told to stop stops, however many of its parts have failed; and one
\* that is not told to comes back: no failure leaves it hanging, up but never
\* ready again, or down for good, if its settings can be used.
EndsOrServes ==
  /\ signalled ~> pc = "exited"
  /\ []<>(Ready \/ signalled \/ ~Sound \/ service \notin Restarted)

=============================================================================
