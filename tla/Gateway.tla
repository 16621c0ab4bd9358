------------------------------ MODULE Gateway -------------------------------
(***************************************************************************)
(* The edge: every request passes the router, on a protected route the     *)
(* authentication, then the rate limiter, and only then reaches the        *)
(* reverse proxy of its upstream.                                          *)
(*                                                                         *)
(* The limiter keeps one token bucket per caller in a map, and drops idle  *)
(* ones when the map is full.  Times are ages: a bucket holds the tokens   *)
(* it has by now, and for how many ticks it was not used.                  *)
(***************************************************************************)
EXTENDS Integers, FiniteSets

CONSTANTS
  Subjects,    \* authenticated callers
  Addresses,   \* IP addresses: callers of the public webhook
  Burst,       \* tokens of a full bucket
  Rate,        \* tokens added per tick
  IdleTTL,     \* ticks after which an unused bucket may be dropped
  Threshold    \* evictThreshold: buckets at which idle ones are dropped

Callers == Subjects \cup Addresses

\* Both clamped in New; idleTTL is ten minutes, and a bucket is full again
\* after burst / rps seconds.
ASSUME GatewayAssumption ==
  /\ Burst \in Nat \ {0}
  /\ Rate \in Nat \ {0}
  /\ IdleTTL \in Nat
  /\ Threshold \in Nat \ {0}
  /\ Burst <= Rate * (IdleTTL + 1)

VARIABLES
  bucket,     \* the map: caller to [tokens, idle]
  allowance,  \* history: what each caller may still be granted
  crowded     \* history: callers whose new bucket was dropped at once

limiterVars == <<bucket, allowance, crowded>>

-----------------------------------------------------------------------------
(* Router and authentication. *)

\* Requests: a route, and what the Authorization header holds.
Routes == {"products", "resources", "reservations", "bookings", "payments",
           "stripe", "unknown"}
Requests ==
  [route : Routes, from : Addresses,
   token : Subjects \cup {"absent", "malformed", "invalid", "no_subject"}]

Public(r) == r.route = "stripe"
Protected(r) == r.route \notin {"stripe", "unknown"}

\* bearerToken, then Verify: signature, issuer, expiry and a subject.
BearerToken(r) == r.token \notin {"absent", "malformed"}
Verify(r) == r.token \in Subjects
Authenticated(r) == BearerToken(r) /\ Verify(r)

\* The service a route is proxied to.
Upstream(r) ==
  CASE r.route = "products" -> "catalog"
    [] r.route \in {"resources", "reservations"} -> "availability"
    [] r.route = "bookings" -> "booking"
    [] OTHER -> "payment"

\* The limiter runs behind the authentication, so it knows the subject.
KeyFor(r) == IF Protected(r) THEN r.token ELSE r.from

-----------------------------------------------------------------------------
(* Rate limiter. *)

Full == [tokens |-> Burst, idle |-> 0]

\* A zero seen time is longer ago than any idleTTL.
Longest == IdleTTL + 1
Unseen == [Full EXCEPT !.idle = Longest]

LimiterInit ==
  /\ bucket = [k \in {} |-> Full]
  /\ allowance = [k \in Callers |-> Burst]
  /\ crowded = {}

\* Mutant: a bucket that was not used for idleTTL exactly counts as idle.
IdleEarly(b) == b.idle >= IdleTTL

Idle(b) == b.idle > IdleTTL

\* Mutant: a full map is left as it is.
KeepAll(m) == m

\* evictIdle.
Evict(m) ==
  IF Cardinality(DOMAIN m) < Threshold THEN m
  ELSE [k \in {x \in DOMAIN m : ~Idle(m[x])} |-> m[k]]

\* The map a caller's bucket is looked up in.  A new bucket goes in before the
\* eviction, and has not been seen yet.
WithBucket(k) ==
  IF k \in DOMAIN bucket THEN bucket
  ELSE Evict([x \in DOMAIN bucket \cup {k} |->
                IF x = k THEN Unseen ELSE bucket[x]])

Tokens(k) == IF k \in DOMAIN bucket THEN bucket[k].tokens ELSE Burst

\* The bucket is used, whether the map still holds it or not.
Use(k, tokens) ==
  LET m == WithBucket(k) IN
  /\ bucket' = [x \in DOMAIN m |->
                  IF x = k THEN [tokens |-> tokens, idle |-> 0] ELSE m[x]]
  /\ crowded' = IF k \in DOMAIN m THEN crowded ELSE crowded \cup {k}

\* Allow returns true.  Below zero one more grant makes no difference.
Grant(k) ==
  /\ Tokens(k) > 0
  /\ Use(k, Tokens(k) - 1)
  /\ allowance' = [allowance EXCEPT ![k] = IF @ < 0 THEN @ ELSE @ - 1]

\* Allow returns false: 429, and the bucket counts as used all the same.
Refuse(k) ==
  /\ Tokens(k) = 0
  /\ Use(k, 0)
  /\ UNCHANGED allowance

\* Mutant: tokens pile up beyond the burst.
Uncapped(n, m) == n

AtMost(n, m) == IF n > m THEN m ELSE n

\* A tick passes for every bucket.
Tick ==
  /\ bucket' = [k \in DOMAIN bucket |->
       [tokens |-> AtMost(bucket[k].tokens + Rate, Burst),
        idle |-> AtMost(bucket[k].idle + 1, Longest)]]
  /\ allowance' = [k \in Callers |-> AtMost(allowance[k] + Rate, Burst)]
  /\ UNCHANGED crowded

-----------------------------------------------------------------------------
(* The middleware chain: what becomes of one request. *)

Accepted(r) == Public(r) \/ (Protected(r) /\ Authenticated(r))

\* 404, or 401: neither reaches the limiter.
TurnedAway(r) ==
  /\ ~Accepted(r)
  /\ UNCHANGED limiterVars

Limited(r) ==
  /\ Accepted(r)
  /\ Refuse(KeyFor(r))

\* On to the upstream.
Admitted(r) ==
  /\ Accepted(r)
  /\ Grant(KeyFor(r))

Handle(r) == TurnedAway(r) \/ Limited(r) \/ Admitted(r)

LimiterNext == Tick \/ \E r \in Requests : Handle(r)

-----------------------------------------------------------------------------
(* Properties. *)

LimiterTypeOK ==
  /\ DOMAIN bucket \subseteq Callers
  /\ \A k \in DOMAIN bucket :
       bucket[k] \in [tokens : 0 .. Burst, idle : 0 .. Longest]
  /\ allowance \in [Callers -> -1 .. Burst]
  /\ crowded \subseteq Callers

\* Dropping a bucket forgives nothing and takes nothing: but for callers whose
\* bucket never got into the full map, what the limiter has for a caller is what
\* its own requests left of its budget, to the token.  No caller's requests cost
\* another one's, and a 429 means that the budget is used up.
BudgetExact == \A k \in Callers \ crowded : Tokens(k) = allowance[k]

\* However many callers come, the map stays below its threshold.
BucketsBounded == Cardinality(DOMAIN bucket) < Threshold

=============================================================================
