---------------------------- MODULE JourneyProofs ----------------------------
(***************************************************************************)
(* Theorems about Journey: the rate limiter, the walk through a listing    *)
(* and the calls of a booking keep, side by side, what each keeps alone.   *)
(***************************************************************************)
EXTENDS Journey, SequenceTheorems, FiniteSetTheorems, TLAPS

-----------------------------------------------------------------------------
(* The rate limiter: every set of callers, budget, idle time and threshold. *)

\* A bucket is full, or has got back what came in while it was idle.
Refilled ==
  \A k \in DOMAIN bucket :
    bucket[k].tokens = Burst \/ bucket[k].tokens >= Rate * bucket[k].idle

LimiterInv ==
  /\ LimiterTypeOK
  /\ Refilled
  /\ IsFiniteSet(DOMAIN bucket)
  /\ BucketsBounded
  /\ BudgetExact

Bucket == [tokens : 0 .. Burst, idle : 0 .. Longest]

-----------------------------------------------------------------------------
(* The map. *)

\* Only a full bucket is idle long enough to be dropped.
LEMMA IdleIsFull ==
  ASSUME LimiterTypeOK, Refilled, NEW k \in DOMAIN bucket, Idle(bucket[k])
  PROVE  bucket[k].tokens = Burst
<1> USE GatewayAssumption
<1>1. bucket[k] \in Bucket
  BY DEF LimiterTypeOK, Bucket
<1>2. bucket[k].idle = IdleTTL + 1
  BY <1>1 DEF Idle, Longest, Bucket
<1>3. bucket[k].tokens = Burst \/ bucket[k].tokens >= Rate * (IdleTTL + 1)
  BY <1>2 DEF Refilled
<1>4. Rate * (IdleTTL + 1) \in Int
  OBVIOUS
<1>5. QED
  BY <1>1, <1>3, <1>4 DEF Bucket

\* The map a caller's bucket is looked up in: it has lost none but full buckets,
\* changed none, gained none but the caller's, and stays below the threshold.
LEMMA WithBucketKeeps ==
  ASSUME LimiterTypeOK, Refilled, IsFiniteSet(DOMAIN bucket), BucketsBounded,
         NEW k \in Callers
  PROVE  LET m == WithBucket(k) IN
         /\ DOMAIN m \subseteq DOMAIN bucket \cup {k}
         /\ IsFiniteSet(DOMAIN m)
         /\ Cardinality(DOMAIN m) < Threshold
         /\ \A x \in DOMAIN m : x # k => x \in DOMAIN bucket /\ m[x] = bucket[x]
         /\ \A x \in DOMAIN bucket \ DOMAIN m : bucket[x].tokens = Burst
<1> USE GatewayAssumption
<1> DEFINE wide == [x \in DOMAIN bucket \cup {k} |->
                      IF x = k THEN Unseen ELSE bucket[x]]
           busy == {x \in DOMAIN wide : ~Idle(wide[x])}
<1>1. CASE k \in DOMAIN bucket
  <2>1. WithBucket(k) = bucket
    BY <1>1 DEF WithBucket
  <2>2. QED
    BY <2>1 DEF BucketsBounded
<1>2. CASE k \notin DOMAIN bucket
  <2>1. WithBucket(k) = Evict(wide)
    BY <1>2 DEF WithBucket
  <2>2. /\ IsFiniteSet(DOMAIN wide)
        /\ Cardinality(DOMAIN wide) = Cardinality(DOMAIN bucket) + 1
    BY <1>2, FS_AddElement
  <2>3. Cardinality(DOMAIN bucket) \in Nat /\ Cardinality(DOMAIN wide) <= Threshold
    BY <2>2, FS_CardinalityType DEF BucketsBounded
  <2>4. CASE Cardinality(DOMAIN wide) < Threshold
    <3>1. WithBucket(k) = wide
      BY <2>1, <2>4 DEF Evict
    <3>2. QED
      BY <3>1, <2>2, <2>4
  <2>5. CASE ~(Cardinality(DOMAIN wide) < Threshold)
    <3>1. WithBucket(k) = [x \in busy |-> wide[x]]
      BY <2>1, <2>5 DEF Evict
    <3>2. Idle(wide[k])
      BY DEF Idle, Unseen, Full, Longest
    <3>3. busy \subseteq DOMAIN bucket
      BY <3>2
    <3>4. IsFiniteSet(busy) /\ Cardinality(busy) < Threshold
      <4> HIDE DEF busy
      <4>1. IsFiniteSet(busy) /\ Cardinality(busy) <= Cardinality(DOMAIN bucket)
        BY <3>3, FS_Subset
      <4>2. Cardinality(busy) \in Nat /\ Cardinality(DOMAIN bucket) \in Nat
        BY <4>1, FS_CardinalityType
      <4>3. QED
        BY <4>1, <4>2 DEF BucketsBounded
    <3>5. \A x \in DOMAIN bucket \ busy : bucket[x].tokens = Burst
      BY <1>2, IdleIsFull
    <3>6. QED
      BY <3>1, <3>3, <3>4, <3>5
  <2>6. QED
    BY <2>4, <2>5
<1>3. QED
  BY <1>1, <1>2

\* Using a bucket costs no other caller anything.
LEMMA UseKeeps ==
  ASSUME LimiterInv, NEW k \in Callers, NEW n \in 0 .. Burst, Use(k, n)
  PROVE  /\ DOMAIN bucket' \subseteq Callers
         /\ \A x \in DOMAIN bucket' : bucket'[x] \in Bucket
         /\ crowded' \subseteq Callers
         /\ crowded \subseteq crowded'
         /\ Refilled'
         /\ IsFiniteSet(DOMAIN bucket')
         /\ BucketsBounded'
         /\ \A x \in Callers \ {k} : Tokens(x)' = Tokens(x)
         /\ k \notin crowded' => Tokens(k)' = n
<1> USE GatewayAssumption
<1> DEFINE m == WithBucket(k)
<1>0. /\ LimiterTypeOK /\ Refilled /\ IsFiniteSet(DOMAIN bucket) /\ BucketsBounded
  BY DEF LimiterInv
<1>1. /\ DOMAIN m \subseteq DOMAIN bucket \cup {k}
      /\ IsFiniteSet(DOMAIN m)
      /\ Cardinality(DOMAIN m) < Threshold
      /\ \A x \in DOMAIN m : x # k => x \in DOMAIN bucket /\ m[x] = bucket[x]
      /\ \A x \in DOMAIN bucket \ DOMAIN m : bucket[x].tokens = Burst
  BY <1>0, WithBucketKeeps
<1>2. /\ bucket' = [x \in DOMAIN m |->
                      IF x = k THEN [tokens |-> n, idle |-> 0] ELSE m[x]]
      /\ crowded' = IF k \in DOMAIN m THEN crowded ELSE crowded \cup {k}
  BY DEF Use
<1> HIDE DEF m
<1>3. [tokens |-> n, idle |-> 0] \in Bucket
  BY DEF Bucket, Longest
<1>4. \A x \in DOMAIN bucket : bucket[x] \in Bucket
  BY <1>0 DEF LimiterTypeOK, Bucket
<1>5. DOMAIN bucket' = DOMAIN m
  BY <1>2
<1>6. \A x \in DOMAIN m : bucket'[x] = IF x = k THEN [tokens |-> n, idle |-> 0]
                                       ELSE bucket[x]
  BY <1>1, <1>2
<1>7. DOMAIN bucket' \subseteq Callers
  BY <1>0, <1>1, <1>5 DEF LimiterTypeOK
<1>8. \A x \in DOMAIN bucket' : bucket'[x] \in Bucket
  BY <1>1, <1>3, <1>4, <1>5, <1>6
<1>9. crowded' \subseteq Callers /\ crowded \subseteq crowded'
  BY <1>0, <1>2 DEF LimiterTypeOK
<1>10. Refilled'
  <2> SUFFICES ASSUME NEW x \in DOMAIN bucket'
               PROVE  bucket'[x].tokens = Burst \/ bucket'[x].tokens >= Rate * bucket'[x].idle
    BY DEF Refilled
  <2>1. CASE x = k
    <3>1. bucket'[x].tokens = n /\ bucket'[x].idle = 0
      BY <1>5, <1>6, <2>1
    <3>2. Rate * 0 = 0
      OBVIOUS
    <3>3. QED
      BY <3>1, <3>2
  <2>2. CASE x # k
    BY <1>0, <1>1, <1>5, <1>6, <2>2 DEF Refilled
  <2>3. QED
    BY <2>1, <2>2
<1>11. IsFiniteSet(DOMAIN bucket') /\ BucketsBounded'
  BY <1>1, <1>5 DEF BucketsBounded
<1>12. \A x \in Callers \ {k} : Tokens(x)' = Tokens(x)
  BY <1>1, <1>5, <1>6 DEF Tokens
<1>13. k \notin crowded' => Tokens(k)' = n
  BY <1>2, <1>5, <1>6 DEF Tokens
<1>14. QED
  BY <1>7, <1>8, <1>9, <1>10, <1>11, <1>12, <1>13

\* What is left of a budget is a number of tokens.
LEMMA TokensType ==
  ASSUME LimiterTypeOK, NEW k \in Callers
  PROVE  Tokens(k) \in 0 .. Burst
BY GatewayAssumption DEF LimiterTypeOK, Tokens

-----------------------------------------------------------------------------
(* One step each. *)

\* At first the map is empty and every budget full.
LEMMA InitStep == LimiterInit => LimiterInv
<1> SUFFICES ASSUME LimiterInit PROVE LimiterInv
  OBVIOUS
<1> USE GatewayAssumption
<1>1. DOMAIN bucket = {} /\ crowded = {}
  BY DEF LimiterInit
<1>2. allowance = [k \in Callers |-> Burst]
  BY DEF LimiterInit
<1>3. IsFiniteSet(DOMAIN bucket) /\ BucketsBounded
  BY <1>1, FS_EmptySet DEF BucketsBounded
<1>4. LimiterTypeOK /\ Refilled /\ BudgetExact
  BY <1>1, <1>2 DEF LimiterTypeOK, Refilled, BudgetExact, Tokens
<1>5. QED
  BY <1>3, <1>4 DEF LimiterInv

\* Time: every bucket and every budget gain the same.
LEMMA TickStep ==
  ASSUME LimiterInv, Tick
  PROVE  LimiterInv'
<1> USE GatewayAssumption
<1>1. LimiterTypeOK /\ Refilled /\ BudgetExact
  BY DEF LimiterInv
<1>2. /\ DOMAIN bucket' = DOMAIN bucket
      /\ crowded' = crowded
      /\ \A k \in DOMAIN bucket :
           /\ bucket'[k].tokens = AtMost(bucket[k].tokens + Rate, Burst)
           /\ bucket'[k].idle = AtMost(bucket[k].idle + 1, Longest)
           /\ bucket'[k] = [tokens |-> bucket'[k].tokens, idle |-> bucket'[k].idle]
      /\ allowance' = [k \in Callers |-> AtMost(allowance[k] + Rate, Burst)]
  BY DEF Tick
<1>3. \A k \in DOMAIN bucket :
        bucket[k].tokens \in 0 .. Burst /\ bucket[k].idle \in 0 .. Longest
  BY <1>1 DEF LimiterTypeOK
<1>4. LimiterTypeOK'
  <2>1. \A k \in DOMAIN bucket' :
          bucket'[k] \in [tokens : 0 .. Burst, idle : 0 .. Longest]
    BY <1>2, <1>3 DEF AtMost, Longest
  <2>2. allowance' \in [Callers -> -1 .. Burst]
    BY <1>1, <1>2 DEF LimiterTypeOK, AtMost
  <2>3. QED
    BY <1>1, <1>2, <2>1, <2>2 DEF LimiterTypeOK
<1>5. Refilled'
  <2> SUFFICES ASSUME NEW k \in DOMAIN bucket'
               PROVE  bucket'[k].tokens = Burst \/ bucket'[k].tokens >= Rate * bucket'[k].idle
    BY DEF Refilled
  <2> DEFINE t == bucket[k].tokens
             i == bucket[k].idle
  <2>1. t \in 0 .. Burst /\ i \in 0 .. Longest /\ k \in DOMAIN bucket
    BY <1>2, <1>3
  <2>2. t = Burst \/ t >= Rate * i
    BY <1>1, <2>1 DEF Refilled
  <2>3. bucket'[k].tokens = AtMost(t + Rate, Burst)
        /\ bucket'[k].idle = AtMost(i + 1, Longest)
    BY <1>2, <2>1
  <2> HIDE DEF t, i
  <2>4. t + Rate >= Burst => bucket'[k].tokens = Burst
    BY <2>1, <2>3 DEF AtMost
  <2>5. CASE t + Rate < Burst
    <3>1. bucket'[k].tokens = t + Rate
      BY <2>1, <2>3, <2>5 DEF AtMost
    <3>2. t >= Rate * i
      BY <2>1, <2>2, <2>5
    <3>3. Rate * (i + 1) = Rate * i + Rate /\ Rate * i \in Int
      BY <2>1
    <3>4. t + Rate >= Rate * (i + 1)
      BY <2>1, <3>2, <3>3
    <3>5. bucket'[k].idle = i + 1 \/ (bucket'[k].idle = i)
      BY <2>1, <2>3 DEF AtMost, Longest
    <3>6. CASE bucket'[k].idle = i
      BY <2>1, <3>1, <3>2, <3>3, <3>6
    <3>7. CASE bucket'[k].idle = i + 1
      BY <3>1, <3>4, <3>7
    <3>8. QED
      BY <3>5, <3>6, <3>7
  <2>6. QED
    BY <2>1, <2>4, <2>5
<1>6. BudgetExact'
  BY <1>1, <1>2, <1>3 DEF BudgetExact, Tokens, LimiterTypeOK, AtMost
<1>7. IsFiniteSet(DOMAIN bucket') /\ BucketsBounded'
  BY <1>2 DEF LimiterInv, BucketsBounded
<1>8. QED
  BY <1>4, <1>5, <1>6, <1>7 DEF LimiterInv

\* A grant takes one token off the bucket and one off the budget.
LEMMA GrantStep ==
  ASSUME LimiterInv, NEW k \in Callers, Grant(k)
  PROVE  LimiterInv'
<1> USE GatewayAssumption
<1>1. LimiterTypeOK /\ BudgetExact
  BY DEF LimiterInv
<1>2. Tokens(k) \in 0 .. Burst /\ Tokens(k) > 0
  BY <1>1, TokensType DEF Grant
<1>3. Tokens(k) - 1 \in 0 .. Burst
  BY <1>2
<1>4. /\ Use(k, Tokens(k) - 1)
      /\ allowance' = [allowance EXCEPT ![k] = IF @ < 0 THEN @ ELSE @ - 1]
  BY DEF Grant
<1>5. /\ DOMAIN bucket' \subseteq Callers
      /\ \A x \in DOMAIN bucket' : bucket'[x] \in Bucket
      /\ crowded' \subseteq Callers
      /\ crowded \subseteq crowded'
      /\ Refilled'
      /\ IsFiniteSet(DOMAIN bucket')
      /\ BucketsBounded'
      /\ \A x \in Callers \ {k} : Tokens(x)' = Tokens(x)
      /\ k \notin crowded' => Tokens(k)' = Tokens(k) - 1
  BY <1>3, <1>4, UseKeeps
<1>6. allowance \in [Callers -> -1 .. Burst]
  BY <1>1 DEF LimiterTypeOK
<1>7. allowance' \in [Callers -> -1 .. Burst]
  BY <1>4, <1>6
<1>8. LimiterTypeOK'
  BY <1>5, <1>7 DEF LimiterTypeOK, Bucket
<1>9. BudgetExact'
  <2> SUFFICES ASSUME NEW x \in Callers, x \notin crowded'
               PROVE  Tokens(x)' = allowance'[x]
    BY DEF BudgetExact
  <2>1. Tokens(x) = allowance[x]
    BY <1>1, <1>5 DEF BudgetExact
  <2>2. CASE x = k
    <3>1. allowance'[k] = allowance[k] - 1
      BY <1>2, <1>4, <1>6, <2>1, <2>2
    <3>2. QED
      BY <1>5, <2>1, <2>2, <3>1
  <2>3. CASE x # k
    BY <1>4, <1>5, <1>6, <2>1, <2>3
  <2>4. QED
    BY <2>2, <2>3
<1>10. QED
  BY <1>5, <1>8, <1>9 DEF LimiterInv

\* A refusal takes nothing.
LEMMA RefuseStep ==
  ASSUME LimiterInv, NEW k \in Callers, Refuse(k)
  PROVE  LimiterInv'
<1> USE GatewayAssumption
<1>1. LimiterTypeOK /\ BudgetExact
  BY DEF LimiterInv
<1>2. Tokens(k) = 0 /\ Use(k, 0) /\ allowance' = allowance
  BY DEF Refuse
<1>3. 0 \in 0 .. Burst
  OBVIOUS
<1>4. /\ DOMAIN bucket' \subseteq Callers
      /\ \A x \in DOMAIN bucket' : bucket'[x] \in Bucket
      /\ crowded' \subseteq Callers
      /\ crowded \subseteq crowded'
      /\ Refilled'
      /\ IsFiniteSet(DOMAIN bucket')
      /\ BucketsBounded'
      /\ \A x \in Callers \ {k} : Tokens(x)' = Tokens(x)
      /\ k \notin crowded' => Tokens(k)' = 0
  BY <1>2, <1>3, UseKeeps
<1>5. LimiterTypeOK'
  BY <1>1, <1>2, <1>4 DEF LimiterTypeOK, Bucket
<1>6. BudgetExact'
  <2> SUFFICES ASSUME NEW x \in Callers, x \notin crowded'
               PROVE  Tokens(x)' = allowance'[x]
    BY DEF BudgetExact
  <2>1. Tokens(x) = allowance[x]
    BY <1>1, <1>4 DEF BudgetExact
  <2>2. QED
    BY <1>2, <1>4, <2>1
<1>7. QED
  BY <1>4, <1>5, <1>6 DEF LimiterInv

\* What gets to the limiter has a caller.
LEMMA KeyForType ==
  ASSUME NEW r \in Requests, Accepted(r)
  PROVE  KeyFor(r) \in Callers
BY DEF Requests, Accepted, Public, Protected, Authenticated, Verify, KeyFor, Callers

\* Every step of the limiter keeps its invariant.
LEMMA LimiterStep ==
  ASSUME LimiterInv, [LimiterNext]_limiterVars
  PROVE  LimiterInv'
<1>1. CASE Tick
  BY <1>1, TickStep
<1>2. ASSUME NEW r \in Requests, Admitted(r)
      PROVE  LimiterInv'
  BY <1>2, KeyForType, GrantStep DEF Admitted
<1>3. ASSUME NEW r \in Requests, Limited(r)
      PROVE  LimiterInv'
  BY <1>3, KeyForType, RefuseStep DEF Limited
<1>4. CASE UNCHANGED limiterVars
  BY <1>4 DEF limiterVars, LimiterInv, LimiterTypeOK, Refilled, BucketsBounded,
              BudgetExact, Tokens
<1>5. QED
  BY <1>1, <1>2, <1>3, <1>4 DEF LimiterNext, Handle, TurnedAway

-----------------------------------------------------------------------------
\* LimiterInv is inductive.  From it follow Allow's budget (whatever the eviction
\* drops) and evictIdle's bound on the map, in ratelimit.go.
THEOREM LimiterInductive ==
  /\ LimiterInit => LimiterInv
  /\ LimiterInv /\ [LimiterNext]_limiterVars => LimiterInv'
  /\ LimiterInv => BudgetExact /\ BucketsBounded
<1>1. LimiterInv => BudgetExact /\ BucketsBounded
  BY DEF LimiterInv
<1>2. QED
  BY <1>1, InitStep, LimiterStep

-----------------------------------------------------------------------------
(* The calls of a booking: every number of retries and of calls. *)

Answers == {"none", "found", "not_found", "unavailable", "unexpected", "held",
            "key_reuse", "slot_unavailable", "confirmed", "released"}

ExchangeTypes ==
  /\ stage \in Stages
  /\ key \in {"none", "mine", "other"}
  /\ resv \in {"none", "held", "confirmed", "released"}
  /\ taken \in BOOLEAN /\ freed \in BOOLEAN
  /\ answer \in [Stages -> Answers]

\* The key is the caller's exactly when the reservation is there.
KeyIsMine == key = "mine" <=> resv # "none"

\* What an outcome o of the call s says of the server.
Tells(s, o) ==
  /\ s = "reserve" /\ o = "created" => key = "mine"
  /\ s = "reserve" /\ o = "overlap" /\ ~freed => taken /\ resv = "none"
  /\ s = "reserve" /\ o = "key_reuse" => key = "other"
  /\ s = "confirm" /\ o = "ok" => resv = "confirmed"
  /\ s = "confirm" /\ o = "released" => resv = "released"

\* The same of an answer a, which the caller keeps while others go on.
Stands(s, a) ==
  /\ s = "reserve" /\ a = "held" => key = "mine"
  /\ s = "reserve" /\ a = "slot_unavailable" /\ ~freed => taken /\ resv = "none"
  /\ s = "reserve" /\ a = "key_reuse" => key = "other"
  /\ s = "confirm" /\ a = "confirmed" => resv = "confirmed"
  /\ s = "confirm" /\ a = "released" => resv = "released"

ExchangeInv ==
  /\ ExchangeTypes
  /\ KeyIsMine
  /\ Tells(stage, reply)
  /\ \A s \in Stages : Stands(s, answer[s])

-----------------------------------------------------------------------------
(* From the server's outcome to the client's answer. *)

\* Only the one outcome leads to each definite answer of the hold.
LEMMA HoldAnswers ==
  ASSUME NEW o, NEW whole \in BOOLEAN
  PROVE  /\ HoldAnswer(ParsedHold(o, whole)) \in Answers
         /\ HoldAnswer(ParsedHold(o, whole)) = "held" => o = "created"
         /\ HoldAnswer(ParsedHold(o, whole)) = "slot_unavailable" => o = "overlap"
         /\ HoldAnswer(ParsedHold(o, whole)) = "key_reuse" => o = "key_reuse"
<1> DEFINE r == ParsedHold(o, whole)
<1>1. CASE ~whole \/ o \notin {"created", "overlap", "key_reuse"}
  <2>1. r = Error \/ r.status = 500
    BY <1>1 DEF ParsedHold, HoldResponse, Error, Faulty, Response
  <2> HIDE DEF r
  <2>2. HoldAnswer(r) = "unavailable"
    BY <2>1 DEF HoldAnswer
  <2>3. QED
    BY <2>2 DEF r, Answers
<1>2. CASE whole /\ o = "created"
  <2>1. r.status = 201
    BY <1>2 DEF ParsedHold, HoldResponse, Response
  <2> HIDE DEF r
  <2>2. HoldAnswer(r) = "held"
    BY <2>1 DEF HoldAnswer, Error, Response
  <2>3. QED
    BY <1>2, <2>2 DEF r, Answers
<1>3. CASE whole /\ o = "overlap"
  <2>1. r.status = 409 /\ r.code = "reservation_overlap"
    BY <1>3 DEF ParsedHold, HoldResponse, Response
  <2> HIDE DEF r
  <2>2. HoldAnswer(r) = "slot_unavailable"
    BY <2>1 DEF HoldAnswer, Error, Response
  <2>3. QED
    BY <1>3, <2>2 DEF r, Answers
<1>4. CASE whole /\ o = "key_reuse"
  <2>1. r.status = 409 /\ r.code = "idempotency_key_reuse"
    BY <1>4 DEF ParsedHold, HoldResponse, Response
  <2> HIDE DEF r
  <2>2. HoldAnswer(r) = "key_reuse"
    BY <2>1 DEF HoldAnswer, Error, Response
  <2>3. QED
    BY <1>4, <2>2 DEF r, Answers
<1>5. QED
  BY <1>1, <1>2, <1>3, <1>4

\* And of the confirmation.
LEMMA ConfirmAnswers ==
  ASSUME NEW o, NEW whole \in BOOLEAN
  PROVE  /\ ConfirmAnswer(ParsedConfirm(o, whole)) \in Answers
         /\ ConfirmAnswer(ParsedConfirm(o, whole)) = "confirmed" => o = "ok"
         /\ ConfirmAnswer(ParsedConfirm(o, whole)) = "released" => o = "released"
<1> DEFINE r == ParsedConfirm(o, whole)
<1>1. CASE ~whole \/ o \notin {"ok", "not_found", "released"}
  <2>1. r.status \in {0, 500}
    BY <1>1 DEF ParsedConfirm, ConfirmResponse, Error, Faulty, Response
  <2> HIDE DEF r
  <2>2. ConfirmAnswer(r) = "unavailable"
    BY <2>1 DEF ConfirmAnswer
  <2>3. QED
    BY <2>2 DEF r, Answers
<1>2. CASE whole /\ o \in {"ok", "not_found"}
  <2>1. r.status = IF o = "ok" THEN 200 ELSE 404
    BY <1>2 DEF ParsedConfirm, ConfirmResponse, Response
  <2> HIDE DEF r
  <2>2. ConfirmAnswer(r) = IF o = "ok" THEN "confirmed" ELSE "not_found"
    BY <1>2, <2>1 DEF ConfirmAnswer
  <2>3. QED
    BY <1>2, <2>2 DEF r, Answers
<1>3. CASE whole /\ o = "released"
  <2>1. r.status = 422
    BY <1>3 DEF ParsedConfirm, ConfirmResponse, Response
  <2> HIDE DEF r
  <2>2. ConfirmAnswer(r) = "released"
    BY <2>1 DEF ConfirmAnswer
  <2>3. QED
    BY <1>3, <2>2 DEF r, Answers
<1>4. QED
  BY <1>1, <1>2, <1>3

\* And of the product.
LEMMA ProductAnswers == \A r : ProductAnswer(r) \in Answers
BY DEF ProductAnswer, Answers

\* The answer to what was parsed stands if the outcome tells the truth.
LEMMA ParsedStands ==
  ASSUME NEW s \in Stages, NEW o, NEW whole \in BOOLEAN, Tells(s, o)
  PROVE  /\ AnswerTo(s, Parsed(s, o, whole)) \in Answers
         /\ Stands(s, AnswerTo(s, Parsed(s, o, whole)))
<1>1. CASE s = "product"
  BY <1>1, ProductAnswers DEF AnswerTo, Stands
<1>2. CASE s = "reserve"
  <2>1. AnswerTo(s, Parsed(s, o, whole)) = HoldAnswer(ParsedHold(o, whole))
    BY <1>2 DEF AnswerTo, Parsed
  <2>2. QED
    BY <1>2, <2>1, HoldAnswers DEF Stands, Tells
<1>3. CASE s = "confirm"
  <2>1. AnswerTo(s, Parsed(s, o, whole)) = ConfirmAnswer(ParsedConfirm(o, whole))
    BY <1>3 DEF AnswerTo, Parsed
  <2>2. QED
    BY <1>3, <2>1, ConfirmAnswers DEF Stands, Tells
<1>4. QED
  BY <1>1, <1>2, <1>3 DEF Stages

\* An error says nothing.
LEMMA ErrorStands ==
  ASSUME NEW s \in Stages
  PROVE  AnswerTo(s, Error) \in Answers /\ Stands(s, AnswerTo(s, Error))
<1>1. AnswerTo(s, Error) = "unavailable"
  BY DEF AnswerTo, ProductAnswer, HoldAnswer, ConfirmAnswer, Error, Response, Stages
<1>2. QED
  BY <1>1 DEF Stands, Answers

-----------------------------------------------------------------------------
(* The server's steps. *)

\* An outcome of the server: what it leaves behind, and what it says of that.
LEMMA OutcomeKeeps ==
  ASSUME ExchangeInv, NEW s \in Stages, NEW o \in Outcomes(s),
         key' = o.key, resv' = o.resv, UNCHANGED <<taken, freed>>
  PROVE  /\ key' \in {"none", "mine", "other"}
         /\ resv' \in {"none", "held", "confirmed", "released"}
         /\ KeyIsMine'
         /\ key = "mine" => key' = "mine"
         /\ key = "other" => key' = "other"
         /\ taken => (resv = "none" => resv' = "none")
         /\ resv = "confirmed" => resv' = "confirmed"
         /\ resv = "released" => resv' = "released"
         /\ s = "reserve" /\ o.reply = "created" => key' = "mine"
         /\ s = "reserve" /\ o.reply = "overlap" => taken /\ resv' = "none"
         /\ s = "reserve" /\ o.reply = "key_reuse" => key' = "other"
         /\ s = "confirm" /\ o.reply = "ok" => resv' = "confirmed"
         /\ s = "confirm" /\ o.reply = "released" => resv' = "released"
<1>0. /\ key \in {"none", "mine", "other"}
      /\ resv \in {"none", "held", "confirmed", "released"}
      /\ taken \in BOOLEAN
      /\ KeyIsMine
  BY DEF ExchangeInv, ExchangeTypes
<1>1. CASE s = "product"
  <2>1. o.key = key /\ o.resv = resv
    BY <1>1 DEF Outcomes, GetProduct, Unchanged, Outcome
  <2>2. QED
    BY <1>0, <1>1, <2>1 DEF KeyIsMine
<1>2. CASE s = "reserve"
  <2>1. o \in OrFault(Held)
    BY <1>2 DEF Outcomes, CreateReservation
  <2>2. CASE o = Unchanged("fault")
    BY <1>0, <1>2, <2>2 DEF Unchanged, Outcome, KeyIsMine
  <2>3. CASE o = Held \/ o = [Held EXCEPT !.reply = "fault"]
    <3>1. CASE key = "mine"
      <4>1. Held = [reply |-> "created", key |-> "mine", resv |-> resv]
        BY <3>1 DEF Held, Unchanged, Outcome
      <4>2. QED
        BY <1>0, <1>2, <2>3, <3>1, <4>1 DEF KeyIsMine
    <3>2. CASE key = "other"
      <4>1. Held = [reply |-> "key_reuse", key |-> "other", resv |-> resv]
        BY <3>2 DEF Held, Unchanged, Outcome
      <4>2. QED
        BY <1>0, <1>2, <2>3, <3>2, <4>1 DEF KeyIsMine
    <3>3. CASE key = "none" /\ taken
      <4>1. Held = [reply |-> "overlap", key |-> key, resv |-> resv]
        BY <3>3 DEF Held, Unchanged, Outcome
      <4>2. QED
        BY <1>0, <1>2, <2>3, <3>3, <4>1 DEF KeyIsMine
    <3>4. CASE key = "none" /\ ~taken
      <4>1. Held = [reply |-> "created", key |-> "mine", resv |-> "held"]
        BY <3>4 DEF Held, Outcome
      <4>2. QED
        BY <1>0, <1>2, <2>3, <3>4, <4>1 DEF KeyIsMine
    <3>5. QED
      BY <1>0, <3>1, <3>2, <3>3, <3>4
  <2>4. QED
    BY <2>1, <2>2, <2>3 DEF OrFault
<1>3. CASE s = "confirm"
  <2>1. o \in OrFault(Confirmed)
    BY <1>3 DEF Outcomes, ConfirmReservation
  <2>2. CASE o = Unchanged("fault")
    BY <1>0, <1>3, <2>2 DEF Unchanged, Outcome, KeyIsMine
  <2>3. CASE o = Confirmed \/ o = [Confirmed EXCEPT !.reply = "fault"]
    <3>1. CASE resv = "none"
      <4>1. Confirmed = [reply |-> "not_found", key |-> key, resv |-> resv]
        BY <3>1 DEF Confirmed, Unchanged, Outcome
      <4>2. QED
        BY <1>0, <1>3, <2>3, <3>1, <4>1 DEF KeyIsMine
    <3>2. CASE resv = "released"
      <4>1. Confirmed = [reply |-> "released", key |-> key, resv |-> resv]
        BY <3>2 DEF Confirmed, Unchanged, Outcome
      <4>2. QED
        BY <1>0, <1>3, <2>3, <3>2, <4>1 DEF KeyIsMine
    <3>3. CASE resv \in {"held", "confirmed"}
      <4>1. Confirmed = [reply |-> "ok", key |-> key, resv |-> "confirmed"]
        BY <3>3 DEF Confirmed, Outcome
      <4>2. QED
        BY <1>0, <1>3, <2>3, <3>3, <4>1 DEF KeyIsMine
    <3>4. QED
      BY <1>0, <3>1, <3>2, <3>3
  <2>4. QED
    BY <2>1, <2>2, <2>3 DEF OrFault
<1>4. QED
  BY <1>1, <1>2, <1>3 DEF Stages

\* An attempt that is waited for is carried out.
LEMMA ServeStep ==
  ASSUME ExchangeInv, Serve
  PROVE  ExchangeInv'
<1>1. PICK o \in Outcomes(stage) :
        reply' = o.reply /\ key' = o.key /\ resv' = o.resv
  BY DEF Serve
<1>2. UNCHANGED <<stage, taken, freed, answer>>
  BY DEF Serve
<1>3. stage \in Stages /\ answer \in [Stages -> Answers]
      /\ taken \in BOOLEAN /\ freed \in BOOLEAN
  BY DEF ExchangeInv, ExchangeTypes
<1>4. ExchangeTypes' /\ KeyIsMine' /\ Tells(stage, reply)'
  BY <1>1, <1>2, <1>3, OutcomeKeeps DEF ExchangeTypes, Tells
<1>5. \A s \in Stages : Stands(s, answer[s])'
  BY <1>1, <1>2, <1>3, OutcomeKeeps DEF ExchangeInv, Stands
<1>6. QED
  BY <1>4, <1>5 DEF ExchangeInv

\* An attempt that was given up, and is carried out late.
LEMMA ServeLateStep ==
  ASSUME ExchangeInv, NEW s \in {"reserve", "confirm"}, ServeLate(s)
  PROVE  ExchangeInv'
<1>1. PICK o \in Outcomes(s) : key' = o.key /\ resv' = o.resv
  BY DEF ServeLate
<1>2. UNCHANGED <<stage, reply, taken, freed, answer>>
  BY DEF ServeLate
<1>3. stage \in Stages /\ s \in Stages /\ answer \in [Stages -> Answers]
      /\ taken \in BOOLEAN /\ freed \in BOOLEAN
  BY DEF ExchangeInv, ExchangeTypes, Stages
<1>4. ExchangeTypes' /\ KeyIsMine'
  BY <1>1, <1>2, <1>3, OutcomeKeeps DEF ExchangeTypes
<1>5. Tells(stage, reply)' /\ \A x \in Stages : Stands(x, answer[x])'
  BY <1>1, <1>2, <1>3, OutcomeKeeps DEF ExchangeInv, Stands, Tells
<1>6. QED
  BY <1>4, <1>5 DEF ExchangeInv

\* The sweeper, and others who take the window or give it back.
LEMMA OthersStep ==
  ASSUME ExchangeInv, Others
  PROVE  ExchangeInv'
BY DEF Others, SweepHold, TakeSlot, GiveBack, clientVars, ExchangeInv,
       ExchangeTypes, KeyIsMine, Tells, Stands

-----------------------------------------------------------------------------
(* The client's steps. *)

\* A call that is over leaves an answer that stands.
LEMMA ConcludeStep ==
  ASSUME ExchangeInv, NEW r, Conclude(r), UNCHANGED serverVars,
         AnswerTo(stage, r) \in Answers, Stands(stage, AnswerTo(stage, r))
  PROVE  ExchangeInv'
<1> DEFINE a == AnswerTo(stage, r)
<1>1. /\ stage \in Stages
      /\ answer \in [Stages -> Answers]
  BY DEF ExchangeInv, ExchangeTypes
<1>2. answer' = [answer EXCEPT ![stage] = a]
  BY DEF Conclude
<1>3. reply' = Unhandled /\ stage' \in Stages
  BY <1>1 DEF Conclude, Call, Over, Stages
<1>4. UNCHANGED <<key, resv, taken, freed>>
  BY DEF serverVars
<1> HIDE DEF a
<1>5. a \in Answers /\ Stands(stage, a)
  BY DEF a
<1>6. ExchangeTypes' /\ KeyIsMine'
  BY <1>1, <1>2, <1>3, <1>4, <1>5 DEF ExchangeInv, ExchangeTypes, KeyIsMine
<1>7. Tells(stage, reply)'
  BY <1>3 DEF Tells, Unhandled
<1>8. \A s \in Stages : Stands(s, answer[s])'
  BY <1>1, <1>2, <1>4, <1>5 DEF ExchangeInv, Stands
<1>9. QED
  BY <1>6, <1>7, <1>8 DEF ExchangeInv

\* An attempt begins, or begins again.
LEMMA AgainStep ==
  ASSUME ExchangeInv, reply' = Unhandled, stage' \in Stages, answer' = answer,
         UNCHANGED serverVars
  PROVE  ExchangeInv'
BY DEF ExchangeInv, ExchangeTypes, KeyIsMine, Tells, Stands, serverVars, Unhandled

\* Every step of the client keeps the invariant.
LEMMA ClientStep ==
  ASSUME ExchangeInv, Client
  PROVE  ExchangeInv'
<1>0. stage \in Stages /\ Tells(stage, reply)
  BY DEF ExchangeInv, ExchangeTypes
<1>1. ASSUME Conclude(Error), UNCHANGED serverVars PROVE ExchangeInv'
  BY <1>0, <1>1, ErrorStands, ConcludeStep
<1>2. ASSUME AfterBackoff, UNCHANGED serverVars PROVE ExchangeInv'
  BY <1>0, <1>2, AgainStep DEF AfterBackoff
<1>3. CASE Begin
  BY <1>3, AgainStep DEF Begin, Call, Stages
<1>4. CASE Receive
  <2>1. UNCHANGED serverVars
    BY <1>4 DEF Receive
  <2>2. CASE Reissue
    BY <1>0, <1>1, <2>1, <2>2, AgainStep DEF Reissue
  <2>3. ASSUME NEW whole \in BOOLEAN, Conclude(Parsed(stage, reply, whole))
        PROVE  ExchangeInv'
    BY <1>0, <2>1, <2>3, ParsedStands, ConcludeStep
  <2>4. QED
    BY <1>2, <1>4, <2>1, <2>2, <2>3 DEF Receive, AttemptAnswered
<1>5. CASE Break
  BY <1>1, <1>2, <1>5 DEF Break, AttemptError
<1>6. CASE Backoff
  BY <1>0, <1>6 DEF Backoff, ExchangeInv, ExchangeTypes, KeyIsMine, Tells, Stands, serverVars
<1>7. CASE Expire
  BY <1>1, <1>7 DEF Expire
<1>8. QED
  BY <1>3, <1>4, <1>5, <1>6, <1>7 DEF Client

-----------------------------------------------------------------------------
\* ExchangeInv is inductive, and every definite answer follows from it.
THEOREM ExchangeInductive ==
  /\ ExchangeInit => ExchangeInv
  /\ ExchangeInv /\ [ExchangeNext]_exchangeVars => ExchangeInv'
  /\ ExchangeInv => AnswerIsTrue
<1>1. ExchangeInit => ExchangeInv
  BY DEF ExchangeInit, ExchangeInv, ExchangeTypes, KeyIsMine, Tells, Stands,
         Stages, Answers, Unhandled
<1>2. ASSUME ExchangeInv, [ExchangeNext]_exchangeVars PROVE ExchangeInv'
  <2>1. CASE UNCHANGED exchangeVars
    BY <1>2, <2>1 DEF exchangeVars, ExchangeInv, ExchangeTypes, KeyIsMine, Tells, Stands
  <2>2. QED
    BY <1>2, <2>1, ClientStep, ServeStep, ServeLateStep, OthersStep
       DEF ExchangeNext, Server
<1>3. ExchangeInv => AnswerIsTrue
  BY DEF ExchangeInv, ExchangeTypes, KeyIsMine, Stands, AnswerIsTrue, Stages
<1>4. QED
  BY <1>1, <1>2, <1>3

-----------------------------------------------------------------------------
(* The calls of a booking again: how often each of them is made. *)

Replies == {Unhandled, "ok", "not_found", "fault", "created", "overlap",
            "key_reuse", "released"}

\* A hold leaves an attempt behind whenever it tries again, and one more at its
\* end; a confirm is never tried again, and leaves one for a call.
Attempts ==
  /\ pc \in {"idle", "sent", "backoff", "done"}
  /\ attempt \in 0 .. MaxRetries + 1
  /\ calls \in 0 .. MaxCalls
  /\ reply \in Replies
  /\ strays \in [{"reserve", "confirm"} -> Nat]
  /\ pc = "idle" => stage = "product"
  /\ stage = "product" => strays["reserve"] = 0
  /\ stage = "reserve" /\ pc # "done" => strays["reserve"] <= attempt
  /\ strays["reserve"] <= MaxRetries + 2
  /\ stage # "confirm" => strays["confirm"] = 0
  /\ stage = "confirm" => calls >= 1
  /\ stage = "confirm" /\ pc # "done" => strays["confirm"] < calls
  /\ strays["confirm"] <= calls

\* Once an attempt is answered or given up, what is left of it is counted.
LeftBehind ==
  /\ strays' \in [{"reserve", "confirm"} -> Nat]
  /\ stage = "product" => strays'["reserve"] = 0
  /\ stage = "reserve" => strays'["reserve"] <= attempt + 1
  /\ strays'["reserve"] <= MaxRetries + 2
  /\ stage # "confirm" => strays'["confirm"] = 0
  /\ strays'["confirm"] <= calls

CountsInv == ExchangeTypes /\ Attempts

\* What the server says is a reply.
LEMMA ServersReply ==
  ASSUME NEW s, NEW o \in Outcomes(s)
  PROVE  o.reply \in Replies
<1>1. CASE s = "product"
  BY <1>1 DEF Outcomes, GetProduct, Unchanged, Outcome, Replies
<1>2. CASE s = "reserve"
  <2>1. \E k, v : Held \in {Outcome("created", k, v), Outcome("key_reuse", k, v),
                            Outcome("overlap", k, v)}
    <3>1. CASE key = "mine"
      BY <3>1 DEF Held, Unchanged
    <3>2. CASE key = "other"
      BY <3>2 DEF Held, Unchanged
    <3>3. CASE key = "none" /\ taken
      BY <3>3 DEF Held, Unchanged
    <3>4. CASE key # "mine" /\ key # "other" /\ ~(key = "none" /\ taken)
      BY <3>4 DEF Held
    <3> QED
      BY <3>1, <3>2, <3>3, <3>4
  <2> QED
    BY <1>2, <2>1 DEF Outcomes, CreateReservation, OrFault, Unchanged, Outcome, Replies
<1>3. CASE s \notin {"product", "reserve"}
  <2>1. \E k, v : Confirmed \in {Outcome("not_found", k, v), Outcome("released", k, v),
                                 Outcome("ok", k, v)}
    <3>1. CASE resv = "none"
      BY <3>1 DEF Confirmed, Unchanged
    <3>2. CASE resv = "released"
      BY <3>2 DEF Confirmed, Unchanged
    <3>3. CASE resv # "none" /\ resv # "released"
      BY <3>3 DEF Confirmed
    <3> QED
      BY <3>1, <3>2, <3>3
  <2> QED
    BY <1>3, <2>1 DEF Outcomes, ConfirmReservation, OrFault, Unchanged, Outcome, Replies
<1> QED
  BY <1>1, <1>2, <1>3

\* An attempt that is given up is counted once.
LEMMA GiveUpCounts ==
  ASSUME CountsInv, pc # "done", GiveUp
  PROVE  LeftBehind
<1> USE ExchangeAssumption DEF CountsInv, Attempts, ExchangeTypes, Stages
<1>1. CASE UNCHANGED strays
  BY <1>1 DEF LeftBehind
<1>2. CASE stage \in DOMAIN strays /\ strays' = [strays EXCEPT ![stage] = @ + 1]
  <2>1. stage \in {"reserve", "confirm"}
    BY <1>2
  <2>2. CASE stage = "reserve"
    <3>1. strays'["reserve"] = strays["reserve"] + 1
          /\ strays'["confirm"] = strays["confirm"]
          /\ strays' \in [{"reserve", "confirm"} -> Nat]
      BY <1>2, <2>2
    <3> QED
      BY <2>2, <3>1 DEF LeftBehind
  <2>3. CASE stage = "confirm"
    <3>1. strays'["confirm"] = strays["confirm"] + 1
          /\ strays'["reserve"] = strays["reserve"]
          /\ strays' \in [{"reserve", "confirm"} -> Nat]
      BY <1>2, <2>3
    <3> QED
      BY <2>3, <3>1 DEF LeftBehind
  <2> QED
    BY <2>1, <2>2, <2>3
<1> QED
  BY <1>1, <1>2 DEF GiveUp

\* A call that is over starts the next one with nothing left of it, or none.
LEMMA ConcludeCounts ==
  ASSUME CountsInv, NEW r, Conclude(r), LeftBehind
  PROVE  Attempts'
<1> USE ExchangeAssumption
<1> DEFINE a == AnswerTo(stage, r)
<1>1. /\ stage \in Stages /\ attempt \in 0 .. MaxRetries + 1 /\ calls \in 0 .. MaxCalls
      /\ stage = "confirm" => calls >= 1
  BY DEF CountsInv, Attempts, ExchangeTypes
<1>2. a = "found" => stage = "product"
  BY <1>1 DEF AnswerTo, HoldAnswer, ConfirmAnswer, Stages
<1>3. a = "held" => stage = "reserve"
  BY <1>1 DEF AnswerTo, ProductAnswer, ConfirmAnswer, Stages
<1>4. \/ a = "found" /\ Call("reserve") /\ calls' = calls
      \/ a = "held" /\ Call("confirm") /\ calls' = 1
      \/ stage = "confirm" /\ calls < MaxCalls /\ Call("confirm") /\ calls' = calls + 1
      \/ Over /\ calls' = calls
  BY <1>2, <1>3 DEF Conclude
<1> HIDE DEF a
<1>5. CASE a = "found" /\ Call("reserve") /\ calls' = calls
  BY <1>1, <1>2, <1>5 DEF Call, LeftBehind, Attempts, Replies
<1>6. CASE a = "held" /\ Call("confirm") /\ calls' = 1
  BY <1>1, <1>3, <1>6 DEF Call, LeftBehind, Attempts, Replies
<1>7. CASE stage = "confirm" /\ calls < MaxCalls /\ Call("confirm") /\ calls' = calls + 1
  BY <1>1, <1>7 DEF Call, LeftBehind, Attempts, Replies
<1>8. CASE Over /\ calls' = calls
  BY <1>1, <1>8 DEF Over, LeftBehind, Attempts, Replies
<1> QED
  BY <1>4, <1>5, <1>6, <1>7, <1>8

\* Only a call that may be tried again goes back to the wait between attempts.
LEMMA AgainCounts ==
  ASSUME CountsInv, LeftBehind, pc' \in {"sent", "backoff"}, reply' = Unhandled,
         attempt < MaxRetries + 1, attempt' = attempt + 1, stage # "confirm",
         UNCHANGED <<stage, calls>>
  PROVE  Attempts'
BY ExchangeAssumption DEF CountsInv, Attempts, ExchangeTypes, Stages, LeftBehind, Replies

\* Every step of the calls, and of the servers, keeps the counts.
LEMMA ExchangeCounts ==
  ASSUME CountsInv, [ExchangeNext]_exchangeVars
  PROVE  Attempts'
<1> USE ExchangeAssumption
<1>1. Attempts /\ stage \in Stages
  BY DEF CountsInv, ExchangeTypes
<1>2. CASE UNCHANGED exchangeVars
  BY <1>1, <1>2 DEF exchangeVars, Attempts
<1>3. CASE Others
  BY <1>1, <1>3 DEF Others, SweepHold, TakeSlot, GiveBack, clientVars, Attempts
<1>4. CASE Serve
  <2>1. reply' \in Replies
    BY <1>4, ServersReply DEF Serve
  <2> QED
    BY <1>1, <1>4, <2>1 DEF Serve, Attempts
<1>5. ASSUME NEW s \in {"reserve", "confirm"}, ServeLate(s)
      PROVE  Attempts'
  <2>1. /\ strays' \in [{"reserve", "confirm"} -> Nat]
        /\ strays'["reserve"] <= strays["reserve"]
        /\ strays'["confirm"] <= strays["confirm"]
    BY <1>1, <1>5 DEF ServeLate, Attempts
  <2>2. UNCHANGED <<pc, stage, attempt, calls, reply>>
    BY <1>5 DEF ServeLate
  <2> QED
    BY <1>1, <2>1, <2>2 DEF Attempts
<1>6. CASE Client
  <2>1. CASE Begin
    BY <1>1, <2>1 DEF Begin, Call, Attempts, Replies, Stages
  <2>2. CASE Backoff
    BY <1>1, <2>2 DEF Backoff, Attempts
  <2>3. ASSUME strays' = strays, pc # "done"
        PROVE  LeftBehind
    BY <1>1, <2>3 DEF Attempts, LeftBehind, Stages
  <2>4. ASSUME AfterBackoff, LeftBehind, Retryable(Request(stage))
        PROVE  Attempts'
    <3>1. stage # "confirm"
      BY <2>4 DEF Retryable, Request, ConfirmRequest
    <3> QED
      BY <1>1, <2>4, <3>1, AgainCounts DEF AfterBackoff, Attempts
  <2>5. CASE Receive
    <3>1. LeftBehind
      BY <2>3, <2>5 DEF Receive
    <3>2. CASE AfterBackoff /\ Retryable(Request(stage))
      BY <2>4, <3>1, <3>2
    <3>3. CASE Reissue /\ Retryable(Request(stage))
      <4>1. stage # "confirm"
        BY <3>3 DEF Retryable, Request, ConfirmRequest
      <4>2. CASE Conclude(Error)
        BY <3>1, <4>2, ConcludeCounts
      <4> QED
        BY <1>1, <3>1, <3>3, <4>1, <4>2, AgainCounts DEF Reissue, Attempts
    <3>4. CASE \E whole \in BOOLEAN : Conclude(Parsed(stage, reply, whole))
      BY <3>1, <3>4, ConcludeCounts
    <3> QED
      BY <2>5, <3>2, <3>3, <3>4 DEF Receive, AttemptAnswered
  <2>6. CASE Break
    <3>1. LeftBehind
      BY <2>6, GiveUpCounts DEF Break
    <3> QED
      BY <2>4, <2>6, <3>1, ConcludeCounts DEF Break, AttemptError
  <2>7. CASE Expire
    <3>1. LeftBehind
      BY <2>7, GiveUpCounts DEF Expire
    <3> QED
      BY <2>7, <3>1, ConcludeCounts DEF Expire
  <2> QED
    BY <1>6, <2>1, <2>2, <2>5, <2>6, <2>7 DEF Client
<1> QED
  BY <1>2, <1>3, <1>4, <1>5, <1>6 DEF ExchangeNext, Server

\* Together with the types that the answers need, the counts keep to their bounds.
LEMMA CountsAreBounded ==
  /\ ExchangeInit => Attempts
  /\ ExchangeInv /\ Attempts => ExchangeTypeOK
<1>1. ExchangeInit => Attempts
  BY ExchangeAssumption DEF ExchangeInit, Attempts, Replies
<1>2. ASSUME ExchangeInv, Attempts
      PROVE  ExchangeTypeOK
  <2>1. strays["reserve"] \in 0 .. MaxRetries + 2 + MaxCalls
        /\ strays["confirm"] \in 0 .. MaxRetries + 2 + MaxCalls
    BY <1>2, ExchangeAssumption DEF Attempts
  <2>2. strays \in [{"reserve", "confirm"} -> 0 .. MaxRetries + 2 + MaxCalls]
    BY <1>2, <2>1 DEF Attempts
  <2> QED
    BY <1>2, <2>2 DEF Attempts, Replies, ExchangeInv, ExchangeTypes, Answers, ExchangeTypeOK
<1> QED
  BY <1>1, <1>2

-----------------------------------------------------------------------------
(* The listings: every set of rows and of limits. *)

\* A row's rank is the number of rows that come before it.
Newer(S, r) == {q \in S \ {r} : ~Older(q, r)}
Rank(S, r) == Cardinality(Newer(S, r))

\* Rows are in one order, newest first.
LEMMA OlderIsAnOrder ==
  /\ \A a, b \in Rows : a = b \/ Older(a, b) \/ Older(b, a)
  /\ \A a, b \in Rows : Older(a, b) => ~Older(b, a) /\ a # b
  /\ \A a, b, c \in Rows : Older(a, b) /\ Older(b, c) => Older(a, c)
<1>1. \A a \in Rows : a \in Int /\ CreatedAt[a] \in Int
  BY ListingAssumption
<1> QED
  BY <1>1 DEF Older

\* A set of rows is finite, and so are its ranks.
LEMMA RowsFinite ==
  ASSUME NEW S \in SUBSET Rows
  PROVE  IsFiniteSet(S) /\ Cardinality(S) \in Nat
BY ListingAssumption, FS_Subset, FS_CardinalityType

\* A row that comes later has a higher rank.
LEMMA RankGrows ==
  ASSUME NEW S \in SUBSET Rows, NEW q \in S, NEW r \in S
  PROVE  /\ Rank(S, r) \in 0 .. Cardinality(S) - 1
         /\ Older(r, q) => Rank(S, q) < Rank(S, r)
<1> DEFINE x == Newer(S, q)
           y == Newer(S, r)
<1>1. x \in SUBSET Rows /\ y \in SUBSET Rows
  BY DEF Newer
<1>2. IsFiniteSet(x) /\ Cardinality(x) \in Nat /\ IsFiniteSet(y)
      /\ Cardinality(y) \in Nat /\ IsFiniteSet(S) /\ Cardinality(S) \in Nat
  BY <1>1, RowsFinite
<1>3. Rank(S, r) \in 0 .. Cardinality(S) - 1
  <2>1. y \in SUBSET (S \ {r})
    BY DEF Newer
  <2>2. IsFiniteSet(S \ {r}) /\ Cardinality(S \ {r}) = Cardinality(S) - 1
    BY <1>2, FS_RemoveElement
  <2>3. Cardinality(y) <= Cardinality(S \ {r})
    BY <2>1, <2>2, FS_Subset
  <2> QED
    BY <1>2, <2>2, <2>3 DEF Rank
<1>4. ASSUME Older(r, q)
      PROVE  Rank(S, q) < Rank(S, r)
  <2>1. x \in SUBSET y /\ q \in y /\ q \notin x
    BY <1>4, OlderIsAnOrder DEF Newer
  <2>2. Cardinality(x) <= Cardinality(y) /\ Cardinality(x) # Cardinality(y)
    BY <1>2, <2>1, FS_Subset
  <2> QED
    BY <1>2, <2>2 DEF Rank
<1> QED
  BY <1>3, <1>4

\* The rows of a set take every rank below their number, each one once.
LEMMA Ranks ==
  ASSUME NEW S \in SUBSET Rows
  PROVE  /\ \A k \in 0 .. Cardinality(S) - 1 : \E r \in S : Rank(S, r) = k
         /\ \A q, r \in S : Rank(S, q) = Rank(S, r) => q = r
         /\ \A q, r \in S : Rank(S, q) < Rank(S, r) <=> Older(r, q)
<1> DEFINE m == Cardinality(S)
           rank == [r \in S |-> Rank(S, r)]
<1>1. IsFiniteSet(S) /\ m \in Nat
  BY RowsFinite
<1>2. \A r \in S : Rank(S, r) \in 0 .. m - 1
  BY RankGrows
<1>3. \A q, r \in S : Older(r, q) => Rank(S, q) < Rank(S, r)
  BY RankGrows
<1>4. \A q, r \in S : Rank(S, q) = Rank(S, r) => q = r
  <2> SUFFICES ASSUME NEW q \in S, NEW r \in S, q # r
               PROVE  Rank(S, q) # Rank(S, r)
    OBVIOUS
  <2>1. Older(q, r) \/ Older(r, q)
    BY OlderIsAnOrder
  <2>2. Rank(S, q) < Rank(S, r) \/ Rank(S, r) < Rank(S, q)
    BY <1>3, <2>1
  <2>3. Rank(S, q) \in Int /\ Rank(S, r) \in Int
    BY <1>1, <1>2
  <2> QED
    BY <2>2, <2>3
<1>5. \A q, r \in S : Rank(S, q) < Rank(S, r) => Older(r, q)
  <2> SUFFICES ASSUME NEW q \in S, NEW r \in S, Rank(S, q) < Rank(S, r)
               PROVE  Older(r, q)
    OBVIOUS
  <2>1. Rank(S, q) \in Int /\ Rank(S, r) \in Int
    BY <1>1, <1>2
  <2>2. q # r /\ ~Older(q, r)
    BY <1>3, <2>1
  <2> QED
    BY <2>2, OlderIsAnOrder
<1>6. rank \in Injection(S, 0 .. m - 1)
  BY <1>2, <1>4 DEF Injection, IsInjective
<1>7. IsFiniteSet(0 .. m - 1) /\ Cardinality(0 .. m - 1) = m
  <2> PICK k : k = m - 1
    OBVIOUS
  <2>1. 0 \in Int /\ k \in Int /\ k - 0 + 1 = m /\ (0 > k => m = 0)
    BY <1>1
  <2>2. /\ IsFiniteSet(0 .. k)
        /\ Cardinality(0 .. k) = IF 0 > k THEN 0 ELSE k - 0 + 1
    BY <2>1, FS_Interval, Zenon
  <2> QED
    BY <2>1, <2>2
<1>8. rank \in Surjection(S, 0 .. m - 1)
  BY <1>1, <1>6, <1>7, FS_Injection
<1>9. \A k \in 0 .. m - 1 : \E r \in S : Rank(S, r) = k
  BY <1>8 DEF Surjection
<1> QED
  BY <1>3, <1>4, <1>5, <1>9

-----------------------------------------------------------------------------
(* One page. *)

\* A set of rows that is not empty has an oldest row.
LEMMA OldestIsLast ==
  ASSUME NEW S \in SUBSET Rows, S # {}
  PROVE  /\ Oldest(S) \in S
         /\ \A q \in S : q = Oldest(S) \/ Older(Oldest(S), q)
<1>1. IsFiniteSet(S) /\ Cardinality(S) \in Nat /\ Cardinality(S) # 0
  BY RowsFinite, FS_EmptySet
<1>2. PICK r \in S : Rank(S, r) = Cardinality(S) - 1
  <2>1. Cardinality(S) - 1 \in 0 .. Cardinality(S) - 1
    BY <1>1
  <2> QED
    BY <2>1, Ranks
<1>3. \A q \in S \ {r} : ~Older(q, r)
  <2> SUFFICES ASSUME NEW q \in S, Older(q, r)
               PROVE  FALSE
    OBVIOUS
  <2>1. Rank(S, r) < Rank(S, q) /\ Rank(S, q) \in 0 .. Cardinality(S) - 1
    BY RankGrows
  <2> QED
    BY <1>1, <1>2, <2>1
<1>4. Oldest(S) \in S /\ \A q \in S \ {Oldest(S)} : ~Older(q, Oldest(S))
  BY <1>3 DEF Oldest
<1> QED
  BY <1>4, OlderIsAnOrder

\* The n newest rows are those of a rank below n; if there are fewer than asked
\* for, they are all.
LEMMA NewestByRank ==
  ASSUME NEW S \in SUBSET Rows, NEW n \in Nat
  PROVE  /\ Newest(S, n) = {r \in S : Rank(S, r) < n}
         /\ Cardinality(S) <= n => Newest(S, n) = S
         /\ Cardinality(Newest(S, n + 1)) <= n => Newest(S, n + 1) = S
<1>1. \A k \in Nat : Newest(S, k) = {r \in S : Rank(S, r) < k}
  BY DEF Newest, Rank, Newer
<1>2. IsFiniteSet(S) /\ Cardinality(S) \in Nat
  BY RowsFinite
<1>3. ASSUME Cardinality(S) <= n
      PROVE  Newest(S, n) = S
  <2>1. \A r \in S : Rank(S, r) < n
    <3> SUFFICES ASSUME NEW r \in S
                 PROVE  Rank(S, r) < n
      OBVIOUS
    <3>1. Rank(S, r) \in 0 .. Cardinality(S) - 1
      BY RankGrows
    <3> QED
      BY <1>2, <1>3, <3>1
  <2> QED
    BY <1>1, <2>1
<1>4. ASSUME Cardinality(Newest(S, n + 1)) <= n, Newest(S, n + 1) # S
      PROVE  FALSE
  <2> DEFINE T == Newest(S, n + 1)
             at == [k \in 0 .. n |-> CHOOSE r \in S : Rank(S, r) = k]
  <2>1. T = {r \in S : Rank(S, r) < n + 1}
    BY <1>1
  <2>2. PICK r \in S : ~(Rank(S, r) < n + 1)
    BY <1>4, <2>1
  <2>3. Rank(S, r) \in 0 .. Cardinality(S) - 1
    BY RankGrows
  <2>4. \A k \in 0 .. n : k \in 0 .. Cardinality(S) - 1
    BY <1>2, <2>2, <2>3
  <2>5. \A k \in 0 .. n : at[k] \in S /\ Rank(S, at[k]) = k
    BY <2>4, Ranks
  <2>6. \A k \in 0 .. n : at[k] \in T
    BY <2>1, <2>5
  <2>7. at \in [0 .. n -> T]
    BY <2>6
  <2>8. \A i, j \in 0 .. n : at[i] = at[j] => i = j
    BY <2>5
  <2> HIDE DEF at
  <2>9. at \in Injection(0 .. n, T)
    BY <2>7, <2>8 DEF Injection, IsInjective
  <2>10. IsFiniteSet(T) /\ Cardinality(T) \in Nat
    BY <2>1, RowsFinite
  <2>11. IsFiniteSet(0 .. n) /\ Cardinality(0 .. n) = n + 1
    BY FS_Interval
  <2>12. Cardinality(0 .. n) <= Cardinality(T)
    BY <2>9, <2>10, <2>11, FS_Injection
  <2> QED
    BY <1>4, <2>10, <2>11, <2>12
<1> QED
  BY <1>1, <1>3, <1>4

\* A page holds the newest rows after its cursor; with no next cursor it holds them
\* all, and otherwise all down to the next cursor, which is its last row.
LEMMA PageIsPrefix ==
  ASSUME shown \subseteq Rows, NEW c, NEW n \in Nat \ {0}
  PROVE  LET p == Page(c, n) IN
         /\ p.rows \subseteq After(c)
         /\ p.next = End => p.rows = After(c)
         /\ p.next # End =>
              /\ p.next \in p.rows
              /\ \A r \in p.rows : r = p.next \/ Older(p.next, r)
              /\ \A r \in After(c) : ~Older(r, p.next) => r \in p.rows
<1> DEFINE S == After(c)
           found == Newest(S, n + 1)
           kept == Newest(found, n)
           p == Page(c, n)
<1>1. S \in SUBSET Rows
  BY DEF After
<1>2. found \in SUBSET S /\ kept \in SUBSET found
  BY DEF Newest
<1>3. /\ p.rows = kept
      /\ p.next = IF Cardinality(found) <= n THEN End ELSE Oldest(kept)
  BY DEF Page
<1> HIDE DEF S
<1>4. CASE Cardinality(found) <= n
  <2>1. found = S
    BY <1>1, <1>4, NewestByRank
  <2>2. kept = found
    BY <1>1, <1>2, <1>4, NewestByRank
  <2> QED
    BY <1>3, <1>4, <2>1, <2>2 DEF S
<1>5. CASE ~(Cardinality(found) <= n)
  <2>1. /\ \A r \in S : r \in found <=> Rank(S, r) < n + 1
        /\ \A r \in found : r \in kept <=> Rank(found, r) < n
    BY DEF Newest, Rank, Newer
  <2>2. found \in SUBSET Rows /\ kept \in SUBSET Rows
    BY <1>1, <1>2
  <2>3. Cardinality(found) \in Nat
    BY <2>2, RowsFinite
  <2>4. PICK r \in found : Rank(found, r) = 0
    <3>1. 0 \in 0 .. Cardinality(found) - 1
      BY <1>5, <2>3
    <3> QED
      BY <2>2, <3>1, Ranks
  <2>5. kept # {}
    BY <2>1, <2>4
  <2> HIDE DEF found, kept
  <2> DEFINE l == Oldest(kept)
  <2>6. l \in kept /\ \A q \in kept : q = l \/ Older(l, q)
    BY <2>2, <2>5, OldestIsLast
  <2> HIDE DEF l
  <2>7. p.next = l /\ p.next # End
    BY <1>3, <1>5, <2>2, <2>6, ListingAssumption DEF l
  <2>8. ASSUME NEW q \in S, ~Older(q, l)
        PROVE  q \in kept
    <3>1. CASE q = l
      BY <2>6, <3>1
    <3>2. CASE q # l
      <4>1. l \in S /\ l \in found
        BY <1>2, <2>6
      <4>2. Older(l, q)
        BY <1>1, <2>8, <3>2, <4>1, OlderIsAnOrder
      <4>3. Rank(S, q) < Rank(S, l) /\ Rank(S, l) < n + 1
        BY <1>1, <2>1, <4>1, <4>2, RankGrows
      <4>4. q \in found
        <5>1. Rank(S, q) \in Int /\ Rank(S, l) \in Int
          BY <1>1, <4>1, RankGrows
        <5> QED
          BY <2>1, <4>3, <5>1
      <4>5. Rank(found, q) < Rank(found, l) /\ Rank(found, l) < n
        BY <2>1, <2>2, <2>6, <4>1, <4>2, <4>4, RankGrows
      <4>6. Rank(found, q) \in Int /\ Rank(found, l) \in Int
        BY <2>2, <4>1, <4>4, RankGrows
      <4> QED
        BY <2>1, <4>4, <4>5, <4>6
    <3> QED
      BY <3>1, <3>2
  <2> QED
    BY <1>2, <1>3, <2>6, <2>7, <2>8 DEF S
<1> QED
  BY <1>4, <1>5

\* The rows of a page are listed newest first, each of them once.
LEMMA InOrderLists ==
  ASSUME NEW S \in SUBSET Rows
  PROVE  /\ InOrder(S) \in Seq(Rows)
         /\ Len(InOrder(S)) = Cardinality(S)
         /\ \A i, j \in 1 .. Len(InOrder(S)) :
              i < j => Older(InOrder(S)[j], InOrder(S)[i])
         /\ \A i \in 1 .. Len(InOrder(S)) : InOrder(S)[i] \in S
         /\ \A r \in S : \E i \in 1 .. Len(InOrder(S)) : InOrder(S)[i] = r
<1> DEFINE m == Cardinality(S)
           t == [i \in 1 .. m |-> CHOOSE r \in S : Rank(S, r) = i - 1]
           s == InOrder(S)
<1>1. IsFiniteSet(S) /\ m \in Nat
  BY RowsFinite
<1>2. \A i \in 1 .. m : t[i] \in S /\ Rank(S, t[i]) = i - 1
  <2>1. \A i \in 1 .. m : i - 1 \in 0 .. m - 1
    BY <1>1
  <2> QED
    BY <2>1, Ranks
<1>3. t \in [1 .. m -> S]
  BY <1>2
<1>4. \A i, j \in 1 .. m : i < j => Older(t[j], t[i])
  <2> SUFFICES ASSUME NEW i \in 1 .. m, NEW j \in 1 .. m, i < j
               PROVE  Older(t[j], t[i])
    OBVIOUS
  <2>1. Rank(S, t[i]) < Rank(S, t[j])
    BY <1>1, <1>2
  <2> HIDE DEF t
  <2> QED
    BY <1>2, <2>1, Ranks
<1> HIDE DEF t
<1>5. s \in [1 .. m -> S] /\ \A i, j \in 1 .. m : i < j => Older(s[j], s[i])
  BY <1>3, <1>4 DEF InOrder
<1> HIDE DEF s
<1>6. s \in Seq(Rows) /\ Len(s) = m
  BY <1>1, <1>5, IsASeq
<1>7. \A i, j \in 1 .. m : s[i] = s[j] => i = j
  <2> SUFFICES ASSUME NEW i \in 1 .. m, NEW j \in 1 .. m, i # j
               PROVE  s[i] # s[j]
    OBVIOUS
  <2>1. i < j \/ j < i
    BY <1>1
  <2>2. s[i] \in Rows /\ s[j] \in Rows
    BY <1>5
  <2> QED
    BY <1>5, <2>1, <2>2, OlderIsAnOrder
<1>8. s \in Injection(1 .. m, S)
  BY <1>5, <1>7 DEF Injection, IsInjective
<1>9. IsFiniteSet(1 .. m) /\ Cardinality(1 .. m) = m
  BY <1>1, FS_Interval
<1>10. s \in Surjection(1 .. m, S)
  BY <1>1, <1>8, <1>9, FS_Injection
<1>11. \A r \in S : \E i \in 1 .. m : s[i] = r
  BY <1>10 DEF Surjection
<1> QED
  BY <1>5, <1>6, <1>11 DEF s

-----------------------------------------------------------------------------
(* The walk, page after page. *)

\* What was returned is in order, and reaches down to the cursor; nothing that
\* matched all the time is missing above the cursor, or at all at the end.
InOrderSoFar == \A i, j \in 1 .. Len(got) : i < j => Older(got[j], got[i])

DownToCursor ==
  cursor \in Rows =>
    \A i \in 1 .. Len(got) : got[i] = cursor \/ Older(cursor, got[i])

Passed(r) == cursor = End \/ (cursor \in Rows /\ ~Older(r, cursor))
NothingSkipped ==
  \A r \in steady : Passed(r) => \E i \in 1 .. Len(got) : got[i] = r

WalkInv == ListingTypeOK /\ InOrderSoFar /\ DownToCursor /\ NothingSkipped

WalkNext ==
  \/ \E l \in LimitParams : Fetch(l) \/ FetchRejected(l) \/ FetchMalformed(l)
  \/ \E r \in Rows : Appear(r) \/ Disappear(r)

\* A page that is answered holds at least one row, if there is one.
LEMMA LimitType ==
  ASSUME ListingTypeOK, NEW l \in LimitParams, Answered(l)
  PROVE  Limit(l) \in Nat \ {0}
<1> USE ListingAssumption
<1>1. DefaultLimit \in Nat \ {0} /\ MaxLimit \in Nat \ {0}
  OBVIOUS
<1>2. CASE api = "catalog"
  <2>1. l = Absent \/ l \in 1 .. MaxLimit
    BY <1>2 DEF Answered, ProductsAccepted
  <2>2. CASE l = Absent
    <3>1. ProductsLimit(l) \in {DefaultLimit, MaxLimit}
      BY <2>2 DEF ProductsLimit
    <3> QED
      BY <1>1, <1>2, <3>1 DEF Limit
  <2>3. CASE l \in 1 .. MaxLimit
    <3>1. l # Absent /\ ~(l < 1) /\ ~(l > MaxLimit)
      BY <1>1, <2>3
    <3>2. ProductsLimit(l) = l
      BY <3>1 DEF ProductsLimit
    <3> QED
      BY <1>2, <2>3, <3>2 DEF Limit
  <2> QED
    BY <2>1, <2>2, <2>3
<1>3. CASE api = "booking"
  <2>1. l # NotANumber
    BY <1>3 DEF Answered, BookingsBound
  <2>2. l = Absent \/ l \in Int
    BY <2>1 DEF LimitParams
  <2>3. BookingsDefault(l) \in Int
    BY <1>1, <2>2 DEF BookingsDefault
  <2>4. BookingsLimit(BookingsDefault(l)) \in Nat \ {0}
    BY <1>1, <2>3 DEF BookingsLimit
  <2> QED
    BY <1>3, <2>4 DEF Limit
<1> QED
  BY <1>2, <1>3 DEF ListingTypeOK

\* The next cursor is a row of the page, or the end.
LEMMA NextCursor ==
  ASSUME shown \subseteq Rows, NEW c, NEW n \in Nat \ {0}
  PROVE  /\ Page(c, n).rows \in SUBSET Rows
         /\ Page(c, n).rows \in SUBSET After(c)
         /\ Page(c, n).next \in Rows \cup {End}
         /\ After(c) \in SUBSET shown
<1>1. After(c) \in SUBSET shown
  BY DEF After
<1>2. Page(c, n).rows \subseteq After(c)
  BY PageIsPrefix
<1>3. Page(c, n).next # End => Page(c, n).next \in Page(c, n).rows
  BY PageIsPrefix
<1> QED
  BY <1>1, <1>2, <1>3

\* The first page of a walk.
LEMMA FromTopStep ==
  ASSUME WalkInv, NEW n \in Nat \ {0}, FromTop(n), UNCHANGED <<api, shown>>,
         mistakes' \in 0 .. MaxMistakes
  PROVE  WalkInv'
<1>1. shown \subseteq Rows
  BY DEF WalkInv, ListingTypeOK
<1>2. PICK rows \in SUBSET Rows, next \in Rows \cup {End} :
        /\ rows = Page(Top, n).rows /\ next = Page(Top, n).next
        /\ next = End => rows = After(Top)
        /\ next # End => /\ \A r \in rows : r = next \/ Older(next, r)
                         /\ \A r \in After(Top) : ~Older(r, next) => r \in rows
  BY <1>1, NextCursor, PageIsPrefix
<1>3. After(Top) = shown
  BY DEF After
<1>4. PICK s : s = InOrder(rows)
  OBVIOUS
<1>5. /\ s \in Seq(Rows)
      /\ \A i, j \in 1 .. Len(s) : i < j => Older(s[j], s[i])
      /\ \A i \in 1 .. Len(s) : s[i] \in rows
      /\ \A r \in rows : \E i \in 1 .. Len(s) : s[i] = r
  BY <1>4, InOrderLists
<1>6. cursor' = next /\ got' = s /\ steady' = shown /\ api' = api /\ shown' = shown
  BY <1>2, <1>4 DEF FromTop
<1>7. ListingTypeOK'
  BY <1>1, <1>5, <1>6 DEF WalkInv, ListingTypeOK
<1>8. InOrderSoFar'
  BY <1>5, <1>6 DEF InOrderSoFar
<1>9. End \notin Rows
  BY ListingAssumption
<1>10. DownToCursor'
  BY <1>2, <1>5, <1>6, <1>9 DEF DownToCursor
<1>11. NothingSkipped'
  BY <1>2, <1>3, <1>5, <1>6, <1>9 DEF NothingSkipped, Passed
<1> QED
  BY <1>7, <1>8, <1>10, <1>11 DEF WalkInv

\* A page after another.
LEMMA FromCursorStep ==
  ASSUME WalkInv, NEW n \in Nat \ {0}, cursor \in Rows, FromCursor(n),
         UNCHANGED <<api, shown, mistakes>>
  PROVE  WalkInv'
<1>1. /\ shown \subseteq Rows /\ steady \subseteq shown /\ got \in Seq(Rows)
      /\ cursor \in Rows /\ cursor # Top /\ cursor # End /\ End \notin Rows
  BY ListingAssumption DEF WalkInv, ListingTypeOK
<1>2. PICK rows \in SUBSET Rows, next \in Rows \cup {End} :
        /\ rows = Page(cursor, n).rows /\ next = Page(cursor, n).next
        /\ rows \subseteq After(cursor)
        /\ next = End => rows = After(cursor)
        /\ next # End => /\ next \in rows
                         /\ \A r \in rows : r = next \/ Older(next, r)
                         /\ \A r \in After(cursor) : ~Older(r, next) => r \in rows
  BY <1>1, NextCursor, PageIsPrefix
<1>3. After(cursor) = {r \in shown : Older(r, cursor)}
  BY <1>1 DEF After
<1>4. PICK s : s = InOrder(rows)
  OBVIOUS
<1>5. /\ s \in Seq(Rows)
      /\ \A i, j \in 1 .. Len(s) : i < j => Older(s[j], s[i])
      /\ \A i \in 1 .. Len(s) : s[i] \in rows
      /\ \A r \in rows : \E i \in 1 .. Len(s) : s[i] = r
  BY <1>4, InOrderLists
<1>6. PICK t : t = got \o s
  OBVIOUS
<1>7. /\ cursor' = next /\ got' = t /\ steady' = steady /\ api' = api
      /\ shown' = shown /\ mistakes' = mistakes
  BY <1>2, <1>4, <1>6 DEF FromCursor
<1>8. /\ t \in Seq(Rows) /\ Len(t) = Len(got) + Len(s)
      /\ Len(got) \in Nat /\ Len(s) \in Nat
      /\ \A i \in 1 .. Len(t) :
           t[i] = IF i <= Len(got) THEN got[i] ELSE s[i - Len(got)]
  BY <1>1, <1>5, <1>6, ConcatProperties, LenProperties
<1>9. /\ \A i \in 1 .. Len(got) : i \in 1 .. Len(t) /\ t[i] = got[i]
      /\ \A i \in 1 .. Len(s) : Len(got) + i \in 1 .. Len(t) /\ t[Len(got) + i] = s[i]
  <2>1. PICK a \in Nat, b \in Nat : a = Len(got) /\ b = Len(s)
    BY <1>8
  <2>2. \A i \in 1 .. a + b : t[i] = IF i <= a THEN got[i] ELSE s[i - a]
    BY <1>8, <2>1
  <2>3. ASSUME NEW i \in 1 .. a
        PROVE  i \in 1 .. a + b /\ t[i] = got[i]
    BY <2>1, <2>2
  <2>4. ASSUME NEW i \in 1 .. b
        PROVE  a + i \in 1 .. a + b /\ t[a + i] = s[i]
    <3>1. a + i \in 1 .. a + b /\ ~(a + i <= a) /\ (a + i) - a = i
      BY <2>1
    <3>2. t[a + i] = s[(a + i) - a]
      BY <2>2, <3>1
    <3> QED
      BY <3>1, <3>2
  <2>5. Len(t) = a + b
    BY <1>8, <2>1
  <2> QED
    BY <2>1, <2>3, <2>4, <2>5
<1>10. /\ \A i, j \in 1 .. Len(got) : i < j => Older(got[j], got[i])
       /\ \A i \in 1 .. Len(got) : got[i] = cursor \/ Older(cursor, got[i])
       /\ \A i \in 1 .. Len(got) : got[i] \in Rows
       /\ \A r \in steady : ~Older(r, cursor) => \E i \in 1 .. Len(got) : got[i] = r
  BY <1>1, ElementOfSeq DEF WalkInv, InOrderSoFar, DownToCursor, NothingSkipped, Passed
<1>11. ASSUME NEW r \in rows
       PROVE  /\ Older(r, cursor) /\ r \in Rows
              /\ \A i \in 1 .. Len(got) : Older(r, got[i])
  <2>1. Older(r, cursor)
    BY <1>2, <1>3
  <2> QED
    BY <1>1, <1>10, <2>1, OlderIsAnOrder
<1>12. ListingTypeOK'
  BY <1>1, <1>7, <1>8 DEF WalkInv, ListingTypeOK
<1>13. InOrderSoFar'
  <2> SUFFICES ASSUME NEW i \in 1 .. Len(t), NEW j \in 1 .. Len(t), i < j
               PROVE  Older(t[j], t[i])
    BY <1>7 DEF InOrderSoFar
  <2>1. CASE j <= Len(got)
    <3>1. i \in 1 .. Len(got) /\ j \in 1 .. Len(got) /\ t[i] = got[i] /\ t[j] = got[j]
      BY <1>8, <2>1
    <3> QED
      BY <1>10, <3>1
  <2>2. CASE i <= Len(got) /\ ~(j <= Len(got))
    <3>1. i \in 1 .. Len(got) /\ j - Len(got) \in 1 .. Len(s)
          /\ t[i] = got[i] /\ t[j] = s[j - Len(got)]
      BY <1>8, <2>2
    <3> QED
      BY <1>5, <1>11, <3>1
  <2>3. CASE ~(i <= Len(got))
    <3>1. /\ i - Len(got) \in 1 .. Len(s) /\ j - Len(got) \in 1 .. Len(s)
          /\ i - Len(got) < j - Len(got)
          /\ t[i] = s[i - Len(got)] /\ t[j] = s[j - Len(got)]
      BY <1>8, <2>3
    <3> QED
      BY <1>5, <3>1
  <2> QED
    BY <1>8, <2>1, <2>2, <2>3
<1>14. DownToCursor'
  <2> SUFFICES ASSUME next \in Rows, NEW i \in 1 .. Len(t)
               PROVE  t[i] = next \/ Older(next, t[i])
    BY <1>7 DEF DownToCursor
  <2>1. next # End /\ next \in rows
    BY <1>1, <1>2
  <2>2. CASE i <= Len(got)
    <3>1. i \in 1 .. Len(got) /\ t[i] = got[i]
      BY <1>8, <2>2
    <3> QED
      BY <1>11, <2>1, <3>1
  <2>3. CASE ~(i <= Len(got))
    <3>1. i - Len(got) \in 1 .. Len(s) /\ t[i] = s[i - Len(got)]
      BY <1>8, <2>3
    <3> QED
      BY <1>2, <1>5, <2>1, <3>1
  <2> QED
    BY <2>2, <2>3
<1>15. NothingSkipped'
  <2> SUFFICES ASSUME NEW r \in steady,
                      next = End \/ (next \in Rows /\ ~Older(r, next))
               PROVE  \E i \in 1 .. Len(t) : t[i] = r
    BY <1>7 DEF NothingSkipped, Passed
  <2>1. CASE ~Older(r, cursor)
    BY <1>9, <1>10, <2>1
  <2>2. CASE Older(r, cursor)
    <3>1. r \in After(cursor)
      BY <1>1, <1>3, <2>2
    <3>2. r \in rows
      BY <1>1, <1>2, <3>1
    <3> QED
      BY <1>5, <1>9, <3>2
  <2> QED
    BY <2>1, <2>2
<1> QED
  BY <1>12, <1>13, <1>14, <1>15 DEF WalkInv

\* A walk keeps its invariant from page to page, and while rows come and go.
THEOREM WalkInductive ==
  /\ ListingInit => WalkInv
  /\ WalkInv /\ [WalkNext]_listingVars => WalkInv'
  /\ WalkInv => WalkIsExact
<1>1. ListingInit => WalkInv
  <2> SUFFICES ASSUME ListingInit
               PROVE  WalkInv
    OBVIOUS
  <2>1. ListingTypeOK
    BY ListingAssumption DEF ListingInit, ListingTypeOK
  <2>2. 1 .. Len(got) = {} /\ cursor \notin Rows /\ steady = {}
    BY ListingAssumption DEF ListingInit
  <2> QED
    BY <2>1, <2>2 DEF WalkInv, InOrderSoFar, DownToCursor, NothingSkipped
<1>2. WalkInv /\ [WalkNext]_listingVars => WalkInv'
  <2> SUFFICES ASSUME WalkInv, [WalkNext]_listingVars
               PROVE  WalkInv'
    OBVIOUS
  <2>1. ListingTypeOK
    BY DEF WalkInv
  <2>2. CASE UNCHANGED listingVars
    BY <2>2 DEF listingVars, WalkInv, ListingTypeOK, InOrderSoFar, DownToCursor,
       NothingSkipped, Passed
  <2>3. ASSUME NEW l \in LimitParams, Fetch(l)
        PROVE  WalkInv'
    <3>1. Limit(l) \in Nat \ {0}
      BY <2>1, <2>3, LimitType DEF Fetch
    <3>2. CASE cursor = Top
      <4>1. FromTop(Limit(l)) /\ UNCHANGED <<api, shown>> /\ mistakes' = mistakes
        BY <2>3, <3>2 DEF Fetch
      <4> QED
        BY <2>1, <3>1, <4>1, FromTopStep DEF ListingTypeOK
    <3>3. CASE cursor # Top
      <4>1. FromCursor(Limit(l)) /\ UNCHANGED <<api, shown, mistakes>>
            /\ cursor \in Rows
        BY <2>1, <2>3, <3>3 DEF Fetch, ListingTypeOK
      <4> QED
        BY <3>1, <4>1, FromCursorStep
    <3> QED
      BY <3>2, <3>3
  <2>4. ASSUME NEW l \in LimitParams, FetchRejected(l)
        PROVE  WalkInv'
    BY <2>2, <2>4 DEF FetchRejected
  <2>5. ASSUME NEW l \in LimitParams, FetchMalformed(l)
        PROVE  WalkInv'
    <3>1. Limit(l) \in Nat \ {0} /\ mistakes' \in 0 .. MaxMistakes
      BY <2>1, <2>5, LimitType, ListingAssumption DEF FetchMalformed, ListingTypeOK
    <3>2. CASE api = "catalog"
      <4>1. UNCHANGED <<api, shown, cursor, got, steady>>
        BY <2>5, <3>2 DEF FetchMalformed
      <4> QED
        BY <3>1, <4>1 DEF WalkInv, ListingTypeOK, InOrderSoFar, DownToCursor,
           NothingSkipped, Passed
    <3>3. CASE api # "catalog"
      <4>1. FromTop(Limit(l)) /\ UNCHANGED <<api, shown>>
        BY <2>5, <3>3 DEF FetchMalformed
      <4> QED
        BY <3>1, <4>1, FromTopStep
    <3> QED
      BY <3>2, <3>3
  <2>6. ASSUME NEW r \in Rows, Appear(r) \/ Disappear(r)
        PROVE  WalkInv'
    <3>1. UNCHANGED <<api, cursor, got, mistakes>>
      BY <2>6 DEF Appear, Disappear
    <3>2. shown' \subseteq Rows /\ steady' \subseteq shown' /\ steady' \subseteq steady
      BY <2>1, <2>6 DEF Appear, Disappear, ListingTypeOK
    <3> QED
      BY <3>1, <3>2 DEF WalkInv, ListingTypeOK, InOrderSoFar, DownToCursor,
         NothingSkipped, Passed
  <2> QED
    BY <2>2, <2>3, <2>4, <2>5, <2>6 DEF WalkNext
<1>3. WalkInv => WalkIsExact
  <2> SUFFICES ASSUME WalkInv
               PROVE  WalkIsExact
    OBVIOUS
  <2>1. \A i \in 1 .. Len(got) : got[i] \in Rows
    BY ElementOfSeq DEF WalkInv, ListingTypeOK
  <2>2. \A a, b \in Rows : Older(a, b) =>
          /\ CreatedAt[a] <= CreatedAt[b]
          /\ CreatedAt[a] = CreatedAt[b] => a < b
    BY ListingAssumption DEF Older
  <2> QED
    BY <2>1, <2>2 DEF WalkInv, InOrderSoFar, NothingSkipped, Passed, WalkIsExact
<1> QED
  BY <1>1, <1>2, <1>3

-----------------------------------------------------------------------------
(* The three side by side. *)

\* What the customer sends is a request.
LEMMA CustomersRequests ==
  ASSUME NEW route \in {"products", "bookings"}
  PROVE  RequestsFor(route) \subseteq Requests
BY JourneyAssumption DEF RequestsFor, Requests, Routes

\* A request that is admitted, or limited, is a step of the limiter.
LEMMA LimiterSteps ==
  ASSUME NEW r \in Requests, Admitted(r) \/ Limited(r)
  PROVE  LimiterNext
BY DEF LimiterNext, Handle

EachAlone ==
  /\ [LimiterNext]_limiterVars
  /\ [WalkNext]_listingVars
  /\ [ExchangeNext]_exchangeVars
  /\ UNCHANGED errand

\* To the limiter, the walk and the calls, every step is one of their own, or
\* none.
LEMMA EachStepsAlone ==
  ASSUME [Next]_vars
  PROVE  EachAlone
<1> USE DEF EachAlone
<1>1. CASE UNCHANGED vars
  BY <1>1 DEF vars
<1>2. PageRequests \subseteq Requests /\ RequestsFor("bookings") \subseteq Requests
  BY CustomersRequests DEF PageRequests, ListingRoute
<1>3. CASE Browse
  <2>1. CASE AnyPageAnswered
    <3>1. PICK r \in PageRequests : PageAnswered(r)
      BY <2>1 DEF AnyPageAnswered
    <3>2. WalkNext
      BY <3>1 DEF PageAnswered, WalkNext
    <3> QED
      BY <1>2, <3>1, <3>2, LimiterSteps DEF PageAnswered
  <2>2. ASSUME NEW r \in PageRequests, PageMistaken(r)
        PROVE  EachAlone
    <3>1. WalkNext
      BY <2>2 DEF PageMistaken, WalkNext
    <3> QED
      BY <1>2, <2>2, <3>1, LimiterSteps DEF PageMistaken
  <2>3. ASSUME NEW r \in PageRequests, PageUnreachable(r) \/ PageLimited(r)
        PROVE  EachAlone
    BY <1>2, <2>3, LimiterSteps DEF PageUnreachable, PageLimited
  <2>4. CASE OthersAsk
    BY <2>4, JourneyAssumption DEF OthersAsk, LimiterNext
  <2>5. CASE TimePasses
    BY <2>5 DEF TimePasses, LimiterNext
  <2>6. CASE RowsChange
    BY <2>6 DEF RowsChange, WalkNext
  <2> QED
    BY <1>3, <2>1, <2>2, <2>3, <2>4, <2>5, <2>6 DEF Browse
<1>4. CASE Hold
  <2>1. CASE Post
    BY <1>2, <2>1, LimiterSteps DEF Post, ExchangeNext, Client
  <2>2. CASE Work
    BY <2>2 DEF Work
  <2> QED
    BY <1>4, <2>1, <2>2 DEF Hold
<1> QED
  BY <1>1, <1>3, <1>4 DEF Next

JourneyInv ==
  /\ LimiterInv
  /\ WalkInv
  /\ ExchangeInv /\ Attempts
  /\ errand \in {"browse", "hold"}

-----------------------------------------------------------------------------
(* What holds of every errand. *)

\* All of the invariants hold together.
THEOREM JourneyInvariant == Spec => []JourneyInv
<1>1. Init => JourneyInv
  BY LimiterInductive, WalkInductive, ExchangeInductive, CountsAreBounded
     DEF Init, JourneyInv
<1>2. JourneyInv /\ [Next]_vars => JourneyInv'
  <2> SUFFICES ASSUME JourneyInv, [Next]_vars
               PROVE  JourneyInv'
    OBVIOUS
  <2>1. EachAlone
    BY EachStepsAlone
  <2>2. Attempts'
    BY <2>1, ExchangeCounts DEF EachAlone, JourneyInv, CountsInv, ExchangeInv
  <2> QED
    BY <2>1, <2>2, LimiterInductive, WalkInductive, ExchangeInductive
       DEF EachAlone, JourneyInv
<1> QED
  BY <1>1, <1>2, PTL DEF Spec

\* Every part has its types, and the calls their bounds: no more attempts stray
\* than RoundTrip in httpx/retry.go makes, and a confirm is never tried again.
THEOREM TypeCorrect == Spec => []TypeOK
<1>1. LimiterInv => LimiterTypeOK
  BY DEF LimiterInv
<1>2. WalkInv => ListingTypeOK
  BY DEF WalkInv
<1>3. JourneyInv => TypeOK
  BY <1>1, <1>2, CountsAreBounded DEF JourneyInv, TypeOK
<1> QED
  BY <1>3, JourneyInvariant, PTL

\* Behind the limiter, every caller keeps its budget to the token.
THEOREM BudgetsAreKept == Spec => []BudgetExact
<1>1. JourneyInv => BudgetExact
  BY LimiterInductive DEF JourneyInv
<1> QED
  BY <1>1, JourneyInvariant, PTL

\* However many callers come, the limiter's map stays below its threshold.
THEOREM MapIsKeptSmall == Spec => []BucketsBounded
<1>1. JourneyInv => BucketsBounded
  BY LimiterInductive DEF JourneyInv
<1> QED
  BY <1>1, JourneyInvariant, PTL

\* A walk through either listing returns rows newest first, each once, and leaves
\* out none that was there all the time: the keyset pages of catalog's and of
\* booking's stores, for every table, every page size and every change of rows
\* between two pages.
THEOREM WalksAreExact == Spec => []WalkIsExact
<1>1. JourneyInv => WalkIsExact
  BY WalkInductive DEF JourneyInv
<1> QED
  BY <1>1, JourneyInvariant, PTL

\* Every definite answer to a call of a booking is true, whatever was lost,
\* repeated or carried out late: RoundTrip in httpx/retry.go, the generated
\* clients and booking's infra adapters.
THEOREM AnswersAreTrue == Spec => []AnswerIsTrue
<1>1. JourneyInv => AnswerIsTrue
  BY ExchangeInductive DEF JourneyInv
<1> QED
  BY <1>1, JourneyInvariant, PTL

=============================================================================
