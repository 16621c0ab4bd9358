------------------------- MODULE NotificationProofs -------------------------
(***************************************************************************)
(* Theorems about the consumer loop with its inbox and about the           *)
(* notification service built on it, for every set of events and replicas, *)
(* and every number of attempts, copies and faults.                        *)
(***************************************************************************)
EXTENDS Notification, TLAPS, FiniteSetTheorems

-----------------------------------------------------------------------------
(* The inductive invariant of the consumer. *)

InTransaction(w) == worker[w].pc \in {"claimed", "handled"}

\* A delivery in hand has attempts left; a failed attempt of an event that is
\* not poisoned is owed to a lapse; a transaction is only open for an event that
\* is not processed yet, and only an event that is processed is acknowledged.
Sound(w) ==
  /\ worker[w].event \notin Malformed
  /\ worker[w].attempt < MaxAttempts
  /\ worker[w].event \notin Poison => worker[w].attempt <= lapses
  /\ InTransaction(w) => worker[w].event \notin processed
  /\ worker[w].pc = "handled" => worker[w].event \notin Poison
  /\ worker[w].pc = "ack" => worker[w].event \in processed

Deliveries == \A w \in Workers : Busy(w) => Sound(w)

\* The dedupe row lets one transaction at a time work on an event.
OneTransaction ==
  \A v, w \in Workers :
    v # w /\ InTransaction(v) /\ InTransaction(w) =>
      worker[v].event # worker[w].event

\* What left the queue for good left it for a reason.
Departures ==
  \A e \in Events :
    /\ acks[e] > 0 => e \in processed
    /\ dead[e] > 0 /\ e \notin Malformed \cup Poison => lapses >= MaxAttempts

\* No copy is settled or in hand that did not arrive.
Accounts == \A e \in Events : Ready(e) >= 0

ConsumerInv ==
  /\ TypeOK
  /\ Deliveries
  /\ OneTransaction
  /\ EffectOnce
  /\ Departures
  /\ Accounts

-----------------------------------------------------------------------------
(* What the steps do to a replica. *)

\* A replica that goes on with its delivery keeps the event.
Proceeds(w, d) ==
  /\ Busy(w)
  /\ d \in Delivery
  /\ d.event = worker[w].event
  /\ worker' = [worker EXCEPT ![w] = d]

\* Moving on within a delivery changes where the replica stands and nothing else.
LEMMA ToProceeds ==
  ASSUME TypeOK, NEW w \in Workers, Busy(w),
         NEW where \in {"try", "claimed", "handled", "backoff", "ack"},
         To(w, where)
  PROVE  Proceeds(w, [pc |-> where, event |-> worker[w].event,
                      attempt |-> worker[w].attempt])
<1>1. worker[w] \in Delivery
  BY DEF TypeOK, Busy, Waiting
<1>2. [worker[w] EXCEPT !.pc = where] = [pc |-> where, event |-> worker[w].event,
                                        attempt |-> worker[w].attempt]
  BY <1>1 DEF Delivery
<1>3. worker' = [worker EXCEPT ![w] = [worker[w] EXCEPT !.pc = where]]
  BY DEF To
<1>4. [pc |-> where, event |-> worker[w].event,
       attempt |-> worker[w].attempt] \in Delivery
  BY <1>1 DEF Delivery
<1> QED
  BY <1>2, <1>3, <1>4 DEF Proceeds

\* A failed attempt is followed by another one or by the dead-letter queue.
LEMMA RetryMoves ==
  ASSUME TypeOK, Deliveries, NEW w \in Workers, Busy(w), Retry(w)
  PROVE  \/ /\ worker[w].attempt + 1 = MaxAttempts
            /\ dead' = [dead EXCEPT ![worker[w].event] = @ + 1]
            /\ Release(w)
         \/ /\ worker[w].attempt + 1 < MaxAttempts
            /\ dead' = dead
            /\ Proceeds(w, [pc |-> "backoff", event |-> worker[w].event,
                            attempt |-> worker[w].attempt + 1])
<1>1. /\ worker[w] \in Delivery
      /\ worker[w].attempt \in Nat
      /\ worker[w].attempt < MaxAttempts
      /\ MaxAttempts \in Nat
  BY ConsumerAssumption DEF TypeOK, Busy, Waiting, Deliveries, Sound, Delivery
<1>2. CASE LastAttempt(w)
  BY <1>1, <1>2 DEF Retry, LastAttempt
<1>3. CASE ~LastAttempt(w)
  <2>1. worker[w].attempt + 1 < MaxAttempts
    BY <1>1, <1>3 DEF LastAttempt
  <2>2. [worker[w] EXCEPT !.pc = "backoff", !.attempt = @ + 1]
          = [pc |-> "backoff", event |-> worker[w].event,
             attempt |-> worker[w].attempt + 1]
    <3> DEFINE r == [worker[w] EXCEPT !.pc = "backoff"]
    <3>1. r = [pc |-> "backoff", event |-> worker[w].event,
               attempt |-> worker[w].attempt]
      BY <1>1 DEF Delivery
    <3> HIDE DEF r
    <3>2. [r EXCEPT !.attempt = worker[w].attempt + 1]
            = [pc |-> "backoff", event |-> worker[w].event,
               attempt |-> worker[w].attempt + 1]
      BY <3>1
    <3> QED
      BY <3>2 DEF r
  <2>3. worker' = [worker EXCEPT ![w] =
                    [worker[w] EXCEPT !.pc = "backoff", !.attempt = @ + 1]]
    BY <1>3 DEF Retry, TypeOK
  <2>4. [pc |-> "backoff", event |-> worker[w].event,
         attempt |-> worker[w].attempt + 1] \in Delivery
    BY <1>1, <2>1 DEF Delivery
  <2> QED
    BY <1>3, <2>1, <2>2, <2>3, <2>4 DEF Retry, Proceeds
<1> QED
  BY <1>2, <1>3

-----------------------------------------------------------------------------
(* The copies in hand. *)

Hands(e) == {w \in Workers : InHandOf(w, e)}

\* There are finitely many replicas, so the copies in hand can be counted.
LEMMA HandsFinite ==
  ASSUME NEW e
  PROVE  IsFiniteSet(Hands(e)) /\ Cardinality(Hands(e)) \in Nat
<1>1. IsFiniteSet(Hands(e))
  BY FS_Subset, ConsumerAssumption DEF Hands
<1> QED
  BY <1>1, FS_CardinalityType

\* A replica that goes on with its delivery has the same copy in hand.
LEMMA ProceedingKeepsHands ==
  ASSUME TypeOK, NEW w \in Workers, NEW d, Proceeds(w, d)
  PROVE  \A e \in Events : Hands(e)' = Hands(e)
<1>1. d.pc # "waiting"
  BY DEF Proceeds, Delivery
<1>2. \A v \in Workers : worker'[v] = IF v = w THEN d ELSE worker[v]
  BY DEF Proceeds, TypeOK
<1> QED
  BY <1>1, <1>2 DEF Hands, InHandOf, Busy, Proceeds

\* A replica that lets go of its delivery has nothing in hand.
LEMMA ReleaseEmptiesHand ==
  ASSUME TypeOK, NEW w \in Workers, Busy(w), Release(w)
  PROVE  \A e \in Events :
           /\ Hands(e)' = Hands(e) \ {w}
           /\ w \in Hands(e) <=> e = worker[w].event
<1>1. \A v \in Workers : worker'[v] = IF v = w THEN Waiting ELSE worker[v]
  BY DEF Release, TypeOK
<1> QED
  BY <1>1 DEF Hands, InHandOf, Busy, Waiting

\* A delivery that is taken up fills the hand of its replica.
LEMMA TakingFillsHand ==
  ASSUME TypeOK, NEW w \in Workers, ~Busy(w), NEW d \in Delivery,
         worker' = [worker EXCEPT ![w] = d]
  PROVE  \A e \in Events :
           /\ Hands(e)' = IF e = d.event THEN Hands(e) \cup {w} ELSE Hands(e)
           /\ w \notin Hands(e)
<1>1. d.pc # "waiting"
  BY DEF Delivery
<1>2. \A v \in Workers : worker'[v] = IF v = w THEN d ELSE worker[v]
  BY DEF TypeOK
<1> QED
  BY <1>1, <1>2 DEF Hands, InHandOf, Busy

-----------------------------------------------------------------------------
\* Nothing is settled that was not in the queue: the steps that leave acks, dead
\* and arrived alone, and keep what is in hand.
LEMMA ProceedingKeepsAccounts ==
  ASSUME TypeOK, Accounts, NEW w \in Workers, NEW d, Proceeds(w, d),
         UNCHANGED <<arrived, acks, dead>>
  PROVE  Accounts'
<1>1. \A e \in Events : Hands(e)' = Hands(e)
  BY ProceedingKeepsHands
<1> QED
  BY <1>1 DEF Accounts, Ready, Hands

\* A copy that is settled, or falls back into the queue, was in hand.
LEMMA ReleaseKeepsAccounts ==
  ASSUME TypeOK, Accounts, NEW w \in Workers, Busy(w), Release(w),
         arrived' = arrived,
         \/ UNCHANGED <<acks, dead>>
         \/ /\ acks' = [acks EXCEPT ![worker[w].event] = @ + 1]
            /\ dead' = dead
         \/ /\ dead' = [dead EXCEPT ![worker[w].event] = @ + 1]
            /\ acks' = acks
  PROVE  Accounts'
<1> SUFFICES ASSUME NEW e \in Events
             PROVE  arrived[e] - acks'[e] - dead'[e] - Cardinality(Hands(e)') >= 0
  BY DEF Accounts, Ready, Hands
<1>1. arrived[e] \in Int /\ acks[e] \in Nat /\ dead[e] \in Nat
  BY ConsumerAssumption DEF TypeOK
<1>2. arrived[e] - acks[e] - dead[e] - Cardinality(Hands(e)) >= 0
  BY DEF Accounts, Ready, Hands
<1>3. /\ Hands(e)' = Hands(e) \ {w}
      /\ w \in Hands(e) <=> e = worker[w].event
  BY ReleaseEmptiesHand
<1>4. Cardinality(Hands(e)) \in Nat /\ IsFiniteSet(Hands(e))
  BY HandsFinite
<1>5. Cardinality(Hands(e) \ {w}) =
        IF w \in Hands(e) THEN Cardinality(Hands(e)) - 1 ELSE Cardinality(Hands(e))
  BY <1>4, FS_RemoveElement
<1>6. CASE e = worker[w].event
  <2>1. acks'[e] + dead'[e] <= acks[e] + dead[e] + 1
        /\ acks'[e] \in Nat /\ dead'[e] \in Nat
    BY <1>1, <1>6 DEF TypeOK
  <2> QED
    BY <1>1, <1>2, <1>3, <1>4, <1>5, <1>6, <2>1
<1>7. CASE e # worker[w].event
  <2>1. acks'[e] = acks[e] /\ dead'[e] = dead[e]
    BY <1>7 DEF TypeOK
  <2> QED
    BY <1>1, <1>2, <1>3, <1>4, <1>5, <1>7, <2>1
<1> QED
  BY <1>6, <1>7

\* What a replica takes was ready in the queue.
LEMMA ReceiveKeepsAccounts ==
  ASSUME TypeOK, Accounts, NEW w \in Workers, NEW r \in Events, Receive(w, r)
  PROVE  Accounts'
<1> SUFFICES ASSUME NEW e \in Events
             PROVE  arrived[e] - acks[e] - dead'[e] - Cardinality(Hands(e)') >= 0
  BY DEF Accounts, Ready, Hands, Receive
<1>1. arrived[e] \in Int /\ acks[e] \in Nat /\ dead[e] \in Nat
  BY ConsumerAssumption DEF TypeOK
<1>2. /\ arrived[e] - acks[e] - dead[e] - Cardinality(Hands(e)) >= 0
      /\ e = r => arrived[e] - acks[e] - dead[e] - Cardinality(Hands(e)) > 0
  BY DEF Accounts, Ready, Hands, Receive
<1>3. Cardinality(Hands(e)) \in Nat /\ IsFiniteSet(Hands(e))
  BY HandsFinite
<1>4. CASE r \in Malformed
  <2>1. Hands(e)' = Hands(e)
    BY <1>4 DEF Receive, Hands, InHandOf, Busy
  <2>2. dead' = [dead EXCEPT ![r] = @ + 1]
    BY <1>4 DEF Receive
  <2>3. dead'[e] = IF e = r THEN dead[e] + 1 ELSE dead[e]
    BY <2>2 DEF TypeOK
  <2> QED
    BY <1>1, <1>2, <1>3, <2>1, <2>3
<1>5. CASE r \notin Malformed
  <2> DEFINE d == [pc |-> "try", event |-> r, attempt |-> 0]
  <2>1. d \in Delivery
    BY ConsumerAssumption DEF Delivery
  <2>2. worker' = [worker EXCEPT ![w] = d] /\ dead' = dead /\ ~Busy(w) /\ d.event = r
    BY <1>5 DEF Receive
  <2> HIDE DEF d
  <2>3. /\ Hands(e)' = IF e = r THEN Hands(e) \cup {w} ELSE Hands(e)
        /\ w \notin Hands(e)
    BY <2>1, <2>2, TakingFillsHand
  <2>4. Cardinality(Hands(e) \cup {w}) = Cardinality(Hands(e)) + 1
    BY <1>3, <2>3, FS_AddElement
  <2> QED
    BY <1>1, <1>2, <1>3, <2>2, <2>3, <2>4
<1> QED
  BY <1>4, <1>5

-----------------------------------------------------------------------------
(* What a step of one replica leaves true of the others. *)

\* The others stay where they are; what they know of their events stays true,
\* because the one event this step may have processed is nobody else's.
LEMMA OthersUndisturbed ==
  ASSUME TypeOK, Deliveries, OneTransaction, NEW w \in Workers,
         TypeOK',
         \A v \in Workers : v # w => worker'[v] = worker[v],
         lapses' >= lapses,
         \/ processed' = processed
         \/ /\ worker[w].pc = "handled"
            /\ processed' = processed \cup {worker[w].event},
         (Busy(w) => Sound(w))',
         InTransaction(w)' =>
           \A v \in Workers :
             v # w /\ InTransaction(v) => worker[v].event # worker'[w].event
  PROVE  Deliveries' /\ OneTransaction'
<1>1. \A v \in Workers : v # w =>
        /\ Busy(v)' <=> Busy(v)
        /\ InTransaction(v)' <=> InTransaction(v)
  BY DEF Busy, InTransaction
<1>2. ASSUME NEW v \in Workers, v # w, Busy(v)'
      PROVE  Sound(v)'
  <2>1. Sound(v) /\ worker'[v] = worker[v] /\ worker[v] \in Delivery
    BY <1>1, <1>2 DEF Deliveries, TypeOK, Busy, Waiting
  <2>2. worker[v].attempt \in Nat /\ lapses \in Nat /\ lapses' \in Nat
    BY <2>1, ConsumerAssumption DEF TypeOK, Delivery
  <2>3. InTransaction(v) => worker[v].event \notin processed'
    BY <1>2, <2>1 DEF OneTransaction, InTransaction, Sound
  <2>4. worker[v].event \in processed => worker[v].event \in processed'
    OBVIOUS
  <2> QED
    BY <1>1, <1>2, <2>1, <2>2, <2>3, <2>4 DEF Sound, InTransaction
<1>3. Deliveries'
  BY <1>2 DEF Deliveries
<1>4. OneTransaction'
  <2> SUFFICES ASSUME NEW u \in Workers, NEW v \in Workers, u # v,
                      InTransaction(u)', InTransaction(v)'
               PROVE  worker'[u].event # worker'[v].event
    BY DEF OneTransaction
  <2>1. CASE u # w /\ v # w
    BY <1>1, <2>1 DEF OneTransaction
  <2>2. CASE u = w \/ v = w
    BY <1>1, <2>2
  <2> QED
    BY <2>1, <2>2
<1> QED
  BY <1>3, <1>4

\* A transaction that is open for an event is the first to record it.
LEMMA RecordedOnce ==
  ASSUME TypeOK, EffectOnce, NEW w \in Workers, worker[w].event \in Events, Sound(w),
         \/ UNCHANGED <<processed, effects>>
         \/ worker[w].pc = "handled" /\ Record(w)
  PROVE  EffectOnce'
<1>1. CASE UNCHANGED <<processed, effects>>
  BY <1>1 DEF EffectOnce
<1>2. CASE worker[w].pc = "handled" /\ Record(w)
  <2>1. effects[worker[w].event] = 0
    BY <1>2 DEF EffectOnce, Sound, InTransaction
  <2> QED
    BY <1>2, <2>1 DEF EffectOnce, Record, TypeOK
<1> QED
  BY <1>1, <1>2

\* A replica that lets go: for the dead-letter queue after its last attempt, for
\* good with the ack, or back to the queue.
LEMMA ReleaseKeepsInv ==
  ASSUME ConsumerInv, NEW w \in Workers, Busy(w), Release(w),
         arrived' = arrived,
         \/ UNCHANGED <<acks, dead>>
         \/ /\ acks' = [acks EXCEPT ![worker[w].event] = @ + 1]
            /\ dead' = dead
            /\ worker[w].event \in processed'
         \/ /\ dead' = [dead EXCEPT ![worker[w].event] = @ + 1]
            /\ acks' = acks
            /\ worker[w].event \in Poison \/ lapses' >= MaxAttempts,
         lapses' \in 0 .. MaxFaults, lapses' >= lapses,
         \/ UNCHANGED <<processed, effects>>
         \/ worker[w].pc = "handled" /\ Record(w)
  PROVE  ConsumerInv'
<1> USE DEF ConsumerInv
<1>0. worker[w] \in Delivery /\ worker[w].event \in Events /\ Sound(w)
  BY DEF TypeOK, Busy, Waiting, Delivery, Deliveries
<1>1. TypeOK'
  <2>1. worker' \in [Workers -> Delivery \cup {Waiting}]
    BY DEF TypeOK, Release
  <2>2. acks' \in [Events -> Nat] /\ dead' \in [Events -> Nat]
    BY <1>0 DEF TypeOK
  <2>3. processed' \subseteq Events /\ effects' \in [Events -> Nat]
    BY <1>0 DEF TypeOK, Record
  <2> QED
    BY <2>1, <2>2, <2>3 DEF TypeOK
<1>2. Deliveries' /\ OneTransaction'
  <2>1. \A v \in Workers : v # w => worker'[v] = worker[v]
    BY DEF Release, TypeOK
  <2>2. worker'[w] = Waiting
    BY DEF Release, TypeOK
  <2>3. ~Busy(w)' /\ ~InTransaction(w)'
    BY <2>2 DEF Busy, InTransaction, Waiting
  <2>4. \/ processed' = processed
        \/ /\ worker[w].pc = "handled"
           /\ processed' = processed \cup {worker[w].event}
    BY DEF Record
  <2> QED
    BY <1>1, <2>1, <2>3, <2>4, OthersUndisturbed
<1>3. EffectOnce'
  BY <1>0, RecordedOnce
<1>4. Departures'
  <2> SUFFICES ASSUME NEW e \in Events
               PROVE  /\ acks'[e] > 0 => e \in processed'
                      /\ dead'[e] > 0 /\ e \notin Malformed \cup Poison =>
                           lapses' >= MaxAttempts
    BY DEF Departures
  <2>1. /\ acks[e] > 0 => e \in processed
        /\ dead[e] > 0 /\ e \notin Malformed \cup Poison => lapses >= MaxAttempts
    BY DEF Departures
  <2>2. e \in processed => e \in processed'
    BY DEF Record
  <2>3. lapses \in Int /\ lapses' \in Int /\ MaxAttempts \in Int
    BY ConsumerAssumption DEF TypeOK
  <2>4. acks'[e] = acks[e] \/ (e = worker[w].event /\ e \in processed')
    BY <1>0 DEF TypeOK
  <2>5. dead'[e] = dead[e]
        \/ (e = worker[w].event /\ (e \in Poison \/ lapses' >= MaxAttempts))
    BY <1>0 DEF TypeOK
  <2> QED
    BY <2>1, <2>2, <2>3, <2>4, <2>5
<1>5. Accounts'
  BY ReleaseKeepsAccounts
<1> QED
  BY <1>1, <1>2, <1>3, <1>4, <1>5

\* A replica that goes on, with or without a commit.
LEMMA ProceedingKeepsInv ==
  ASSUME ConsumerInv, NEW w \in Workers, NEW d, Proceeds(w, d),
         UNCHANGED <<arrived, acks, dead>>,
         lapses' \in 0 .. MaxFaults, lapses' >= lapses,
         \/ UNCHANGED <<processed, effects>>
         \/ worker[w].pc = "handled" /\ Record(w),
         d.attempt < MaxAttempts,
         d.event \notin Poison => d.attempt <= lapses',
         d.pc \in {"claimed", "handled"} =>
           /\ d.event \notin processed'
           /\ \A v \in Workers :
                v # w /\ InTransaction(v) => worker[v].event # d.event,
         d.pc = "handled" => d.event \notin Poison,
         d.pc = "ack" => d.event \in processed'
  PROVE  ConsumerInv'
<1> USE DEF ConsumerInv
<1>0. worker[w] \in Delivery /\ worker[w].event \in Events /\ Sound(w) /\ Busy(w)
  BY DEF TypeOK, Busy, Waiting, Delivery, Deliveries, Proceeds
<1>1. TypeOK'
  <2>1. worker' \in [Workers -> Delivery \cup {Waiting}]
    BY DEF TypeOK, Proceeds
  <2>2. processed' \subseteq Events /\ effects' \in [Events -> Nat]
    BY <1>0 DEF TypeOK, Record
  <2> QED
    BY <2>1, <2>2 DEF TypeOK
<1>2. Deliveries' /\ OneTransaction'
  <2>1. \A v \in Workers : v # w => worker'[v] = worker[v]
    BY DEF Proceeds, TypeOK
  <2>2. worker'[w] = d /\ d.event = worker[w].event
    BY DEF Proceeds, TypeOK
  <2>3. Sound(w)'
    BY <1>0, <2>2 DEF Sound, InTransaction
  <2>4. \/ processed' = processed
        \/ /\ worker[w].pc = "handled"
           /\ processed' = processed \cup {worker[w].event}
    BY DEF Record
  <2>5. InTransaction(w)' => d.pc \in {"claimed", "handled"}
    BY <2>2 DEF InTransaction
  <2> QED
    BY <1>1, <2>1, <2>2, <2>3, <2>4, <2>5, OthersUndisturbed
<1>3. EffectOnce'
  BY <1>0, RecordedOnce
<1>4. Departures'
  <2>1. processed \subseteq processed'
    BY DEF Record
  <2>2. lapses \in Int /\ lapses' \in Int /\ MaxAttempts \in Int
    BY ConsumerAssumption DEF TypeOK
  <2> QED
    BY <2>1, <2>2 DEF Departures
<1>5. Accounts'
  BY ProceedingKeepsAccounts
<1> QED
  BY <1>1, <1>2, <1>3, <1>4, <1>5

-----------------------------------------------------------------------------
(* The invariant is kept by every step of the consumer. *)

\* A replica with a delivery in hand holds a well-typed one.
LEMMA InHandIsSound ==
  ASSUME ConsumerInv, NEW w \in Workers, Busy(w)
  PROVE  /\ worker[w] \in Delivery /\ Sound(w)
         /\ worker[w].event \in Events /\ worker[w].attempt \in Nat
         /\ lapses \in 0 .. MaxFaults /\ MaxFaults \in Nat
         /\ MaxAttempts \in Nat
BY ConsumerAssumption
   DEF ConsumerInv, TypeOK, Busy, Waiting, Delivery, Deliveries

\* A delivery starts with no attempt made; bytes that do not parse are
\* dead-lettered at once.
LEMMA ReceiveKeepsInv ==
  ASSUME ConsumerInv, NEW w \in Workers, NEW r \in Events, Receive(w, r)
  PROVE  ConsumerInv'
<1> USE DEF ConsumerInv
<1>1. Accounts'
  BY ReceiveKeepsAccounts
<1>2. EffectOnce'
  BY DEF Receive, EffectOnce
<1>3. CASE r \in Malformed
  <2>1. dead' = [dead EXCEPT ![r] = @ + 1] /\ worker' = worker
    BY <1>3 DEF Receive
  <2>2. TypeOK'
    BY <2>1 DEF TypeOK, Receive
  <2>3. Deliveries' /\ OneTransaction'
    BY <2>1 DEF Receive, Deliveries, OneTransaction, Sound, InTransaction, Busy
  <2>4. Departures'
    BY <1>3, <2>1 DEF Receive, Departures, TypeOK
  <2> QED
    BY <1>1, <1>2, <2>2, <2>3, <2>4
<1>4. CASE r \notin Malformed
  <2> DEFINE d == [pc |-> "try", event |-> r, attempt |-> 0]
  <2>1. /\ d \in Delivery
        /\ d.pc = "try" /\ d.event = r /\ d.attempt = 0
    BY ConsumerAssumption DEF Delivery
  <2>2. worker' = [worker EXCEPT ![w] = d] /\ dead' = dead
    BY <1>4 DEF Receive
  <2> HIDE DEF d
  <2>3. UNCHANGED <<acks, arrived, processed, effects, lapses>>
    BY DEF Receive
  <2>4. TypeOK'
    BY <2>1, <2>2, <2>3 DEF TypeOK
  <2>5. worker'[w] = d /\ \A v \in Workers : v # w => worker'[v] = worker[v]
    BY <2>2 DEF TypeOK
  <2>6. Sound(w)' /\ ~InTransaction(w)'
    BY <1>4, <2>1, <2>3, <2>5, ConsumerAssumption DEF Sound, InTransaction, TypeOK
  <2>7. lapses' >= lapses /\ processed' = processed
    BY <2>3 DEF TypeOK
  <2>8. Deliveries' /\ OneTransaction'
    BY <2>4, <2>5, <2>6, <2>7, OthersUndisturbed
  <2>9. Departures'
    BY <2>2, <2>3 DEF Departures
  <2> QED
    BY <1>1, <1>2, <2>4, <2>8, <2>9
<1> QED
  BY <1>3, <1>4

\* A transaction is opened for an event that is not processed, and by one
\* replica at a time: the INSERT of the dedupe row waits for the others.
LEMMA ClaimKeepsInv ==
  ASSUME ConsumerInv, NEW w \in Workers, ClaimEvent(w)
  PROVE  ConsumerInv'
<1>1. Busy(w)
  BY DEF ClaimEvent, Busy
<1>2. /\ Sound(w) /\ lapses \in 0 .. MaxFaults /\ lapses' >= lapses /\ TypeOK
      /\ UNCHANGED <<arrived, acks, dead, processed, effects, lapses>>
  BY <1>1, InHandIsSound DEF ClaimEvent, ConsumerInv
<1>3. CASE worker[w].event \in processed
  <2> DEFINE d == [pc |-> "ack", event |-> worker[w].event,
                   attempt |-> worker[w].attempt]
  <2>1. Proceeds(w, d)
    BY <1>1, <1>2, <1>3, ToProceeds DEF ClaimEvent
  <2>2. d.pc = "ack" /\ d.event = worker[w].event /\ d.attempt = worker[w].attempt
    OBVIOUS
  <2> HIDE DEF d
  <2> QED
    BY <1>2, <1>3, <2>1, <2>2, ProceedingKeepsInv DEF Sound
<1>4. CASE worker[w].event \notin processed
  <2> DEFINE d == [pc |-> "claimed", event |-> worker[w].event,
                   attempt |-> worker[w].attempt]
  <2>1. Proceeds(w, d)
    BY <1>1, <1>2, <1>4, ToProceeds DEF ClaimEvent
  <2>2. d.pc = "claimed" /\ d.event = worker[w].event
        /\ d.attempt = worker[w].attempt
    OBVIOUS
  <2>3. \A v \in Workers :
          v # w /\ InTransaction(v) => worker[v].event # worker[w].event
    BY DEF ClaimEvent, ClaimBusy, InTransaction
  <2> HIDE DEF d
  <2> QED
    BY <1>2, <1>4, <2>1, <2>2, <2>3, ProceedingKeepsInv DEF Sound
<1> QED
  BY <1>3, <1>4

\* The handler's writes are staged in the transaction that is open.
LEMMA HandleKeepsInv ==
  ASSUME ConsumerInv, NEW w \in Workers, Handle(w)
  PROVE  ConsumerInv'
<1>1. Busy(w)
  BY DEF Handle, Busy
<1>2. /\ Sound(w) /\ lapses \in 0 .. MaxFaults /\ lapses' >= lapses /\ TypeOK
      /\ UNCHANGED <<arrived, acks, dead, processed, effects, lapses>>
  BY <1>1, InHandIsSound DEF Handle, ConsumerInv
<1> DEFINE d == [pc |-> "handled", event |-> worker[w].event,
                 attempt |-> worker[w].attempt]
<1>3. Proceeds(w, d)
  BY <1>1, <1>2, ToProceeds DEF Handle
<1>4. d.pc = "handled" /\ d.event = worker[w].event /\ d.attempt = worker[w].attempt
  OBVIOUS
<1>5. \A v \in Workers :
        v # w /\ InTransaction(v) => worker[v].event # worker[w].event
  BY DEF Handle, InTransaction, ConsumerInv, OneTransaction
<1>6. worker[w].event \notin Poison /\ worker[w].event \notin processed
  BY <1>2 DEF Handle, Sound, InTransaction
<1> HIDE DEF d
<1> QED
  BY <1>2, <1>3, <1>4, <1>5, <1>6, ProceedingKeepsInv DEF Sound

\* A failed attempt is one more of a poisoned event or is owed to a lapse, and
\* the last one sends the copy to the dead-letter queue.
LEMMA RetryKeepsInv ==
  ASSUME ConsumerInv, NEW w \in Workers, Busy(w), Retry(w),
         UNCHANGED <<arrived, acks>>,
         \/ worker[w].event \in Poison /\ lapses' = lapses
         \/ Lapse,
         \/ UNCHANGED <<processed, effects>>
         \/ worker[w].pc = "handled" /\ Record(w)
  PROVE  ConsumerInv'
<1>1. /\ Sound(w) /\ worker[w].attempt \in Nat /\ worker[w].event \in Events
      /\ lapses \in 0 .. MaxFaults /\ MaxFaults \in Nat /\ MaxAttempts \in Nat
      /\ worker[w].attempt < MaxAttempts
  BY InHandIsSound DEF Sound
<1>2. /\ lapses' \in 0 .. MaxFaults /\ lapses' >= lapses
      /\ worker[w].event \notin Poison => worker[w].attempt + 1 <= lapses'
  BY <1>1 DEF Lapse, Sound
<1>3. CASE /\ worker[w].attempt + 1 = MaxAttempts
           /\ dead' = [dead EXCEPT ![worker[w].event] = @ + 1]
           /\ Release(w)
  <2>1. worker[w].event \in Poison \/ lapses' >= MaxAttempts
    BY <1>1, <1>2, <1>3
  <2> QED
    BY <1>1, <1>2, <1>3, <2>1, ReleaseKeepsInv
<1> DEFINE d == [pc |-> "backoff", event |-> worker[w].event,
                 attempt |-> worker[w].attempt + 1]
<1>4. CASE /\ worker[w].attempt + 1 < MaxAttempts
           /\ dead' = dead
           /\ Proceeds(w, d)
  <2>1. d.pc = "backoff" /\ d.event = worker[w].event
        /\ d.attempt = worker[w].attempt + 1
    OBVIOUS
  <2> HIDE DEF d
  <2> QED
    BY <1>1, <1>2, <1>4, <2>1, ProceedingKeepsInv
<1>5. Deliveries /\ TypeOK
  BY DEF ConsumerInv
<1> HIDE DEF d
<1> QED
  BY <1>3, <1>4, <1>5, RetryMoves DEF d

\* After the backoff the same attempt is made.
LEMMA BackoffKeepsInv ==
  ASSUME ConsumerInv, NEW w \in Workers, Backoff(w)
  PROVE  ConsumerInv'
<1>1. Busy(w)
  BY DEF Backoff, Busy
<1>2. /\ Sound(w) /\ lapses \in 0 .. MaxFaults /\ lapses' >= lapses /\ TypeOK
      /\ UNCHANGED <<arrived, acks, dead, processed, effects, lapses>>
  BY <1>1, InHandIsSound DEF Backoff, ConsumerInv
<1> DEFINE d == [pc |-> "try", event |-> worker[w].event,
                 attempt |-> worker[w].attempt]
<1>3. Proceeds(w, d)
  BY <1>1, <1>2, ToProceeds DEF Backoff
<1>4. d.pc = "try" /\ d.event = worker[w].event /\ d.attempt = worker[w].attempt
  OBVIOUS
<1> HIDE DEF d
<1> QED
  BY <1>2, <1>3, <1>4, ProceedingKeepsInv DEF Sound

\* The dedupe row and the effect are committed together.
LEMMA CommitKeepsInv ==
  ASSUME ConsumerInv, NEW w \in Workers, Commit(w)
  PROVE  ConsumerInv'
<1>1. Busy(w)
  BY DEF Commit, Busy
<1>2. /\ Sound(w) /\ lapses \in 0 .. MaxFaults /\ lapses' >= lapses /\ TypeOK
      /\ UNCHANGED <<arrived, acks, dead, lapses>>
      /\ worker[w].pc = "handled" /\ Record(w)
  BY <1>1, InHandIsSound DEF Commit, ConsumerInv
<1> DEFINE d == [pc |-> "ack", event |-> worker[w].event,
                 attempt |-> worker[w].attempt]
<1>3. Proceeds(w, d)
  BY <1>1, <1>2, ToProceeds DEF Commit
<1>4. d.pc = "ack" /\ d.event = worker[w].event /\ d.attempt = worker[w].attempt
  OBVIOUS
<1>5. worker[w].event \in processed'
  BY <1>2 DEF Record
<1> HIDE DEF d
<1> QED
  BY <1>2, <1>3, <1>4, <1>5, ProceedingKeepsInv DEF Sound

\* A copy is acknowledged after its event was processed.
LEMMA AckKeepsInv ==
  ASSUME ConsumerInv, NEW w \in Workers, Ack(w)
  PROVE  ConsumerInv'
<1>1. Busy(w)
  BY DEF Ack, Busy
<1>2. /\ lapses' \in 0 .. MaxFaults /\ lapses' >= lapses
      /\ worker[w].event \in processed'
  BY <1>1, InHandIsSound DEF Ack, Sound
<1> QED
  BY <1>1, <1>2, ReleaseKeepsInv DEF Ack

\* A replica that goes away leaves its copy in the queue.
LEMMA DropKeepsInv ==
  ASSUME ConsumerInv, NEW w \in Workers, Drop(w)
  PROVE  ConsumerInv'
<1>1. Busy(w) /\ Release(w) /\ UNCHANGED <<arrived, acks, dead, processed, effects>>
  BY DEF Drop
<1>2. lapses' \in 0 .. MaxFaults /\ lapses' >= lapses
  BY <1>1, InHandIsSound DEF Drop, Lapse
<1> QED
  BY <1>1, <1>2, ReleaseKeepsInv

\* A copy that arrives is in the queue.
LEMMA ArriveKeepsInv ==
  ASSUME ConsumerInv, NEW e \in Events, Arrive(e)
  PROVE  ConsumerInv'
<1>1. UNCHANGED <<acks, dead, worker, processed, effects, lapses>>
  BY DEF Arrive
<1>2. TypeOK'
  <2>1. arrived' \in [Events -> 0 .. MaxCopies]
    BY ConsumerAssumption DEF Arrive, ConsumerInv, TypeOK
  <2> QED
    BY <1>1, <2>1 DEF ConsumerInv, TypeOK
<1>3. Deliveries' /\ OneTransaction' /\ EffectOnce' /\ Departures'
  BY <1>1 DEF ConsumerInv, Deliveries, OneTransaction, EffectOnce, Departures,
              Sound, InTransaction, Busy
<1>4. Accounts'
  <2> SUFFICES ASSUME NEW f \in Events
               PROVE  arrived'[f] - acks[f] - dead[f] - Cardinality(Hands(f)) >= 0
    BY <1>1 DEF Accounts, Ready, Hands, InHandOf, Busy
  <2>1. arrived[f] - acks[f] - dead[f] - Cardinality(Hands(f)) >= 0
    BY DEF ConsumerInv, Accounts, Ready, Hands
  <2>2. arrived[f] \in Int /\ acks[f] \in Int /\ dead[f] \in Int
        /\ Cardinality(Hands(f)) \in Nat
    BY HandsFinite, ConsumerAssumption DEF ConsumerInv, TypeOK
  <2>3. arrived'[f] \in Int /\ arrived'[f] >= arrived[f]
    BY <2>2 DEF Arrive, ConsumerInv, TypeOK
  <2> QED
    BY <2>1, <2>2, <2>3
<1> QED
  BY <1>2, <1>3, <1>4 DEF ConsumerInv

\* Every step of a consumer keeps the invariant.
LEMMA ConsumerInvStep == ConsumerInv /\ [Next]_vars => ConsumerInv'
<1> SUFFICES ASSUME ConsumerInv, [Next]_vars
             PROVE  ConsumerInv'
  OBVIOUS
<1>1. CASE UNCHANGED vars
  BY <1>1 DEF vars, ConsumerInv, TypeOK, Deliveries, OneTransaction, EffectOnce,
              Departures, Accounts, Sound, InTransaction, Busy, Ready, InHandOf
<1>2. ASSUME NEW e \in Events, Arrive(e)
      PROVE  ConsumerInv'
  BY <1>2, ArriveKeepsInv
<1>3. ASSUME NEW w \in Workers, Work(w)
      PROVE  ConsumerInv'
  <2>1. ASSUME NEW r \in Events, Receive(w, r)
        PROVE  ConsumerInv'
    BY <2>1, ReceiveKeepsInv
  <2>2. CASE ClaimEvent(w)
    BY <2>2, ClaimKeepsInv
  <2>3. CASE Handle(w)
    BY <2>3, HandleKeepsInv
  <2>4. CASE HandlerFails(w)
    <3>1. Busy(w)
      BY <2>4 DEF HandlerFails, Busy
    <3> QED
      BY <2>4, <3>1, RetryKeepsInv DEF HandlerFails
  <2>5. CASE Backoff(w)
    BY <2>5, BackoffKeepsInv
  <2>6. CASE Commit(w)
    BY <2>6, CommitKeepsInv
  <2>7. CASE Ack(w)
    BY <2>7, AckKeepsInv
  <2> QED
    BY <1>3, <2>1, <2>2, <2>3, <2>4, <2>5, <2>6, <2>7 DEF Work
<1>4. ASSUME NEW w \in Workers, AttemptFails(w)
      PROVE  ConsumerInv'
  <2>1. Busy(w)
    BY <1>4 DEF AttemptFails, Busy
  <2> QED
    BY <1>4, <2>1, RetryKeepsInv DEF AttemptFails
<1>5. ASSUME NEW w \in Workers, CommitUnknown(w)
      PROVE  ConsumerInv'
  <2>1. Busy(w) /\ worker[w].pc = "handled"
    BY <1>5 DEF CommitUnknown, Busy
  <2> QED
    BY <1>5, <2>1, RetryKeepsInv DEF CommitUnknown
<1>6. ASSUME NEW w \in Workers, Drop(w)
      PROVE  ConsumerInv'
  BY <1>6, DropKeepsInv
<1> QED
  BY <1>1, <1>2, <1>3, <1>4, <1>5, <1>6 DEF Next, Consume

-----------------------------------------------------------------------------
(* The consumer's promises. *)

\* At the start the queue is empty and nobody has a delivery.
LEMMA ConsumerInvInit == Init => ConsumerInv
<1> SUFFICES ASSUME Init
             PROVE  ConsumerInv
  OBVIOUS
<1>1. TypeOK
  BY ConsumerAssumption DEF Init, TypeOK
<1>2. \A w \in Workers : worker[w].pc = "waiting"
  BY DEF Init, Waiting
<1>3. Deliveries /\ OneTransaction
  BY <1>2 DEF Deliveries, OneTransaction, Busy, InTransaction
<1>4. EffectOnce /\ Departures
  BY DEF Init, EffectOnce, Departures
<1>5. Accounts
  <2> SUFFICES ASSUME NEW e \in Events
               PROVE  arrived[e] - acks[e] - dead[e] - Cardinality(Hands(e)) >= 0
    BY DEF Accounts, Ready, Hands
  <2>1. Hands(e) = {}
    BY <1>2 DEF Hands, InHandOf, Busy
  <2>2. Cardinality(Hands(e)) = 0
    BY <2>1, FS_EmptySet
  <2> QED
    BY <2>2 DEF Init
<1> QED
  BY <1>1, <1>3, <1>4, <1>5 DEF ConsumerInv

\* What left the queue is settled: the part of the invariant a reader asks for.
LEMMA InvDropsNothing == ConsumerInv => NothingDropped
<1> SUFFICES ASSUME ConsumerInv, NEW e \in Events
             PROVE  /\ Ready(e) >= 0
                    /\ acks[e] > 0 => effects[e] = 1
                    /\ dead[e] > 0 /\ e \notin Malformed \cup Poison =>
                         lapses >= MaxAttempts
  BY DEF NothingDropped
<1> QED
  BY DEF ConsumerInv, Accounts, Departures, EffectOnce

-----------------------------------------------------------------------------
(* The notification service is such a consumer. *)

\* Every step of the notification service is a step of the consumer: what it
\* adds, it does inside the transaction of the inbox.
LEMMA NotificationConsumes ==
  [NotificationNext]_allVars => [Next]_vars
<1> SUFFICES ASSUME [NotificationNext]_allVars
             PROVE  [Next]_vars
  OBVIOUS
<1>1. CASE UNCHANGED allVars
  BY <1>1 DEF allVars
<1>2. ASSUME NEW w \in Workers, Step(w)
      PROVE  Work(w)
  BY <1>2 DEF Step, Notify, NotifyFails, Work
<1>3. ASSUME NEW w \in Workers, Trouble(w)
      PROVE  AttemptFails(w) \/ CommitUnknown(w) \/ Drop(w)
  BY <1>3 DEF Trouble, SendFails
<1> QED
  BY <1>1, <1>2, <1>3 DEF NotificationNext, Next, Consume

\* The notification service is a consumer, whatever its handler does.
THEOREM NotificationIsAConsumer == NotificationSpec => Spec
<1>1. NotificationInit => Init
  BY DEF NotificationInit
<1>2. [NotificationNext]_allVars => [Next]_vars
  BY NotificationConsumes
<1> QED
  BY <1>1, <1>2, PTL DEF NotificationSpec, Spec

\* The invariant holds of every consumer.
LEMMA ConsumerInvHolds == Spec => []ConsumerInv
<1> QED
  BY ConsumerInvInit, ConsumerInvStep, PTL DEF Spec

\* However often an event is delivered, to how many replicas at once, and
\* wherever they crash, its handler takes effect at most once (EffectOnce).
THEOREM HandlersTakeEffectOnce == NotificationSpec => []EffectOnce
<1>1. ConsumerInv => EffectOnce
  BY DEF ConsumerInv
<1> QED
  BY <1>1, NotificationIsAConsumer, ConsumerInvHolds, PTL

\* No delivery is lost: a copy that left the queue for good was acknowledged
\* after its event took effect, or dead-lettered for cause (NothingDropped).
THEOREM NoDeliveryIsLost == NotificationSpec => []NothingDropped
<1> QED
  BY InvDropsNothing, NotificationIsAConsumer, ConsumerInvHolds, PTL

-----------------------------------------------------------------------------
(* The emails. *)

HandledBy(w, e) == worker[w].pc = "handled" /\ worker[w].event = e

\* The table of sent confirmations and the inbox say the same; a transaction
\* that is about to record an event has mailed it, and each email without such a
\* transaction behind it is owed to a lapse.
Mailed ==
  /\ sent = processed
  /\ \A e \in Events :
       /\ e \in processed => mails[e] > 0
       /\ \A w \in Workers : HandledBy(w, e) => mails[e] > 0
       /\ mails[e] <= 1 + lapses
       /\ e \notin processed /\ (\A w \in Workers : ~HandledBy(w, e)) =>
            mails[e] <= lapses

MailInv ==
  /\ ConsumerInv
  /\ NotificationTypeOK
  /\ Mailed

\* Steps that leave the handler alone send no email and record nothing.
LEMMA QuietStep ==
  ASSUME MailInv, ConsumerInv', NEW w \in Workers, UNCHANGED mailVars,
         processed' = processed, lapses' \in Nat,
         \A v \in Workers : v # w => worker'[v] = worker[v],
         worker'[w].pc # "handled",
         \/ lapses' = lapses /\ worker[w].pc # "handled"
         \/ lapses' = lapses + 1
  PROVE  MailInv'
<1>1. NotificationTypeOK'
  BY DEF MailInv, NotificationTypeOK, ConsumerInv, mailVars
<1>2. sent' = sent /\ mails' = mails /\ lapses \in Nat /\ mails \in [Events -> Nat]
  BY ConsumerAssumption DEF mailVars, MailInv, ConsumerInv, TypeOK, NotificationTypeOK
<1>3. \A e \in Events, v \in Workers :
        /\ HandledBy(v, e)' => HandledBy(v, e)
        /\ v # w /\ HandledBy(v, e) => HandledBy(v, e)'
  BY DEF HandledBy
<1>4. Mailed'
  <2> SUFFICES ASSUME NEW e \in Events
               PROVE  /\ e \in processed => mails[e] > 0
                      /\ \A v \in Workers : HandledBy(v, e)' => mails[e] > 0
                      /\ mails[e] <= 1 + lapses'
                      /\ e \notin processed /\ (\A v \in Workers : ~HandledBy(v, e)') =>
                           mails[e] <= lapses'
    BY <1>2 DEF MailInv, Mailed
  <2>1. /\ e \in processed => mails[e] > 0
        /\ \A v \in Workers : HandledBy(v, e) => mails[e] > 0
        /\ mails[e] <= 1 + lapses
        /\ e \notin processed /\ (\A v \in Workers : ~HandledBy(v, e)) =>
             mails[e] <= lapses
    BY DEF MailInv, Mailed
  <2>2. mails[e] \in Nat
    BY <1>2
  <2>3. CASE lapses' = lapses /\ worker[w].pc # "handled"
    <3>1. ~HandledBy(w, e)
      BY <2>3 DEF HandledBy
    <3>2. (\A v \in Workers : ~HandledBy(v, e)') => (\A v \in Workers : ~HandledBy(v, e))
      BY <1>3, <3>1
    <3> QED
      BY <1>3, <2>1, <2>3, <3>2
  <2>4. CASE lapses' = lapses + 1
    BY <1>2, <1>3, <2>1, <2>2, <2>4
  <2> QED
    BY <2>3, <2>4
<1> QED
  BY <1>1, <1>4 DEF MailInv

\* The email goes out inside the one transaction that is open for its event.
LEMMA NotifyKeepsMailInv ==
  ASSUME MailInv, ConsumerInv', NEW w \in Workers, Notify(w)
  PROVE  MailInv'
<1> DEFINE e == worker[w].event
<1>1. Handle(w) /\ Busy(w) /\ InTransaction(w) /\ ConsumerInv
  BY DEF Notify, Handle, Busy, InTransaction, MailInv
<1>2. e \in Events /\ e \notin processed /\ e \notin sent /\ TypeOK
  BY <1>1, InHandIsSound DEF Sound, MailInv, Mailed, ConsumerInv
<1>3. /\ mails' = [mails EXCEPT ![e] = @ + 1]
      /\ sent' = sent
      /\ UNCHANGED <<processed, lapses>>
  BY <1>2 DEF Notify, Inserted, Mail, Handle
<1>4. NotificationTypeOK'
  <2>1. mails' \in [Events -> Nat]
    BY <1>2, <1>3 DEF MailInv, NotificationTypeOK
  <2> QED
    BY <1>3, <2>1 DEF MailInv, NotificationTypeOK, ConsumerInv
<1>5. \A v \in Workers : v # w =>
        worker'[v] = worker[v] /\ ~HandledBy(v, e)
  BY <1>1, <1>2 DEF Handle, To, TypeOK, HandledBy, ConsumerInv, OneTransaction,
                    InTransaction
<1>6. worker'[w].pc = "handled" /\ worker'[w].event = e /\ worker[w].pc # "handled"
  <2>1. worker[w] \in Delivery
    BY <1>1, InHandIsSound
  <2> QED
    BY <1>1, <1>2, <2>1 DEF Handle, To, TypeOK, Delivery
<1>7. mails \in [Events -> Nat] /\ lapses \in Nat
  BY ConsumerAssumption DEF MailInv, NotificationTypeOK, TypeOK
<1>8. mails[e] <= lapses
  <2>1. ~HandledBy(w, e)
    BY <1>6 DEF HandledBy
  <2> QED
    BY <1>2, <1>5, <2>1 DEF MailInv, Mailed
<1> HIDE DEF e
<1>9. Mailed'
  <2> SUFFICES ASSUME NEW f \in Events
               PROVE  /\ f \in processed => mails'[f] > 0
                      /\ \A v \in Workers : HandledBy(v, f)' => mails'[f] > 0
                      /\ mails'[f] <= 1 + lapses
                      /\ f \notin processed /\ (\A v \in Workers : ~HandledBy(v, f)') =>
                           mails'[f] <= lapses
    BY <1>3 DEF MailInv, Mailed
  <2>1. /\ f \in processed => mails[f] > 0
        /\ \A v \in Workers : HandledBy(v, f) => mails[f] > 0
        /\ mails[f] <= 1 + lapses
        /\ f \notin processed /\ (\A v \in Workers : ~HandledBy(v, f)) =>
             mails[f] <= lapses
    BY DEF MailInv, Mailed
  <2>2. CASE f = e
    <3>1. mails'[f] = mails[e] + 1 /\ mails[e] \in Nat
      BY <1>3, <1>7, <2>2
    <3>2. HandledBy(w, f)'
      BY <1>6, <2>2 DEF HandledBy
    <3> QED
      BY <1>2, <1>7, <1>8, <2>2, <3>1, <3>2
  <2>3. CASE f # e
    <3>1. mails'[f] = mails[f]
      BY <1>3, <1>7, <2>3
    <3>2. \A v \in Workers : HandledBy(v, f)' <=> HandledBy(v, f)
      BY <1>5, <1>6, <2>3 DEF HandledBy
    <3> QED
      BY <2>1, <3>1, <3>2
  <2> QED
    BY <2>2, <2>3
<1> QED
  BY <1>4, <1>9 DEF MailInv

-----------------------------------------------------------------------------
\* A replica whose attempt failed has handled nothing, and moves alone.
LEMMA RetryLeavesOthers ==
  ASSUME TypeOK, Deliveries, NEW w \in Workers, Busy(w), Retry(w)
  PROVE  /\ \A v \in Workers : v # w => worker'[v] = worker[v]
         /\ worker'[w].pc # "handled"
<1>1. CASE Release(w)
  <2>1. worker' = [worker EXCEPT ![w] = Waiting]
    BY <1>1 DEF Release
  <2>2. worker'[w] = Waiting /\ \A v \in Workers : v # w => worker'[v] = worker[v]
    BY <2>1 DEF TypeOK
  <2> QED
    BY <2>2 DEF Waiting
<1> DEFINE d == [pc |-> "backoff", event |-> worker[w].event,
                 attempt |-> worker[w].attempt + 1]
<1>2. CASE Proceeds(w, d)
  <2>1. d.pc = "backoff"
    OBVIOUS
  <2> HIDE DEF d
  <2>2. worker'[w] = d /\ \A v \in Workers : v # w => worker'[v] = worker[v]
    BY <1>2 DEF Proceeds, TypeOK
  <2> QED
    BY <2>1, <2>2
<1> HIDE DEF d
<1> QED
  BY <1>1, <1>2, RetryMoves DEF d

\* A replica that moves on within a delivery moves alone.
LEMMA ToLeavesOthers ==
  ASSUME TypeOK, NEW w \in Workers, Busy(w),
         NEW where \in {"try", "claimed", "handled", "backoff", "ack"},
         To(w, where)
  PROVE  /\ \A v \in Workers : v # w => worker'[v] = worker[v]
         /\ worker'[w].pc = where
<1> DEFINE d == [pc |-> where, event |-> worker[w].event,
                 attempt |-> worker[w].attempt]
<1>1. Proceeds(w, d) /\ d.pc = where
  BY ToProceeds
<1> HIDE DEF d
<1> QED
  BY <1>1 DEF Proceeds, TypeOK

\* An email the relay accepted from an attempt that failed is owed to the lapse.
LEMMA SendFailsKeepsMailInv ==
  ASSUME MailInv, ConsumerInv', NEW w \in Workers, SendFails(w)
  PROVE  MailInv'
<1> DEFINE e == worker[w].event
<1>1. AttemptFails(w) /\ Busy(w) /\ worker[w].pc = "claimed" /\ ConsumerInv
  BY DEF SendFails, Busy, MailInv
<1>2. e \in Events /\ e \notin processed /\ TypeOK /\ Deliveries
  BY <1>1, InHandIsSound DEF Sound, InTransaction, MailInv, ConsumerInv
<1>3. /\ sent' = sent
      /\ processed' = processed
      /\ lapses' = lapses + 1
      /\ mails' = mails \/ mails' = [mails EXCEPT ![e] = @ + 1]
  BY <1>1 DEF SendFails, Mail, AttemptFails, Lapse
<1>4. mails \in [Events -> Nat] /\ lapses \in Nat
  BY ConsumerAssumption DEF MailInv, NotificationTypeOK, TypeOK
<1>5. NotificationTypeOK'
  <2>1. mails' \in [Events -> Nat]
    BY <1>2, <1>3, <1>4
  <2> QED
    BY <1>3, <2>1 DEF MailInv, NotificationTypeOK, ConsumerInv
<1>6. /\ \A v \in Workers : v # w => worker'[v] = worker[v]
      /\ worker'[w].pc # "handled"
  <2>1. Retry(w)
    BY <1>1 DEF AttemptFails
  <2> QED
    BY <1>1, <1>2, <2>1, RetryLeavesOthers
<1>7. \A v \in Workers : ~HandledBy(v, e) /\ ~(worker'[v].pc = "handled" /\ worker'[v].event = e)
  <2>1. ~HandledBy(w, e) /\ worker'[w].pc # "handled"
    BY <1>1, <1>6 DEF HandledBy
  <2>2. \A v \in Workers : v # w => ~HandledBy(v, e) /\ worker'[v] = worker[v]
    BY <1>1, <1>6 DEF HandledBy, ConsumerInv, OneTransaction, InTransaction
  <2> QED
    BY <2>1, <2>2 DEF HandledBy
<1>8. mails[e] <= lapses
  BY <1>2, <1>7 DEF MailInv, Mailed
<1> HIDE DEF e
<1>9. Mailed'
  <2> SUFFICES ASSUME NEW f \in Events
               PROVE  /\ f \in processed => mails'[f] > 0
                      /\ \A v \in Workers : HandledBy(v, f)' => mails'[f] > 0
                      /\ mails'[f] <= 1 + lapses'
                      /\ f \notin processed /\ (\A v \in Workers : ~HandledBy(v, f)') =>
                           mails'[f] <= lapses'
    BY <1>3 DEF MailInv, Mailed
  <2>1. /\ f \in processed => mails[f] > 0
        /\ \A v \in Workers : HandledBy(v, f) => mails[f] > 0
        /\ mails[f] <= 1 + lapses
    BY DEF MailInv, Mailed
  <2>2. mails[f] \in Nat /\ mails'[f] \in Nat
        /\ mails'[f] = (IF f = e THEN mails'[f] ELSE mails[f])
    BY <1>2, <1>3, <1>4
  <2>3. CASE f = e
    <3>1. mails'[f] <= mails[e] + 1 /\ mails[e] \in Nat
      BY <1>3, <1>4, <2>2, <2>3
    <3> QED
      BY <1>2, <1>3, <1>4, <1>7, <1>8, <2>2, <2>3, <3>1 DEF HandledBy
  <2>4. CASE f # e
    <3>1. mails'[f] = mails[f]
      BY <2>2, <2>4
    <3>2. \A v \in Workers : HandledBy(v, f)' => HandledBy(v, f)
      BY <1>6 DEF HandledBy
    <3> QED
      BY <1>3, <1>4, <2>1, <2>2, <3>1, <3>2
  <2> QED
    BY <2>3, <2>4
<1> QED
  BY <1>5, <1>9 DEF MailInv

\* The row of the confirmation is committed with the dedupe row, by a
\* transaction that has sent the email.
LEMMA KeepKeepsMailInv ==
  ASSUME MailInv, ConsumerInv', NEW w \in Workers, worker[w].pc = "handled",
         Record(w), Keep(w), UNCHANGED mails,
         \A v \in Workers : v # w => worker'[v] = worker[v],
         worker'[w].pc # "handled",
         lapses' \in Nat, lapses' >= lapses
  PROVE  MailInv'
<1> DEFINE e == worker[w].event
<1>1. Busy(w) /\ InTransaction(w) /\ ConsumerInv
  BY DEF Busy, InTransaction, MailInv
<1>2. e \in Events /\ e \notin processed
  BY <1>1, InHandIsSound DEF Sound
<1>3. sent' = processed' /\ processed' = processed \cup {e} /\ mails' = mails
  BY DEF Record, Keep, MailInv, Mailed
<1>4. mails \in [Events -> Nat] /\ lapses \in Nat
  BY ConsumerAssumption DEF MailInv, NotificationTypeOK, TypeOK
<1>5. NotificationTypeOK'
  BY <1>3, <1>4 DEF NotificationTypeOK, ConsumerInv, TypeOK
<1>6. mails[e] > 0
  BY <1>2 DEF MailInv, Mailed, HandledBy
<1>7. \A v \in Workers : ~(worker'[v].pc = "handled" /\ worker'[v].event = e)
  BY <1>1 DEF ConsumerInv, OneTransaction, InTransaction
<1> HIDE DEF e
<1>8. Mailed'
  <2> SUFFICES ASSUME NEW f \in Events
               PROVE  /\ f \in processed' => mails[f] > 0
                      /\ \A v \in Workers : HandledBy(v, f)' => mails[f] > 0
                      /\ mails[f] <= 1 + lapses'
                      /\ f \notin processed' /\ (\A v \in Workers : ~HandledBy(v, f)') =>
                           mails[f] <= lapses'
    BY <1>3 DEF Mailed
  <2>1. /\ f \in processed => mails[f] > 0
        /\ \A v \in Workers : HandledBy(v, f) => mails[f] > 0
        /\ mails[f] <= 1 + lapses
        /\ f \notin processed /\ (\A v \in Workers : ~HandledBy(v, f)) =>
             mails[f] <= lapses
    BY DEF MailInv, Mailed
  <2>2. mails[f] \in Nat
    BY <1>4
  <2>3. CASE f = e
    <3>1. f \in processed' /\ mails[f] > 0
      BY <1>3, <1>6, <2>3
    <3> QED
      BY <1>4, <2>1, <2>2, <3>1
  <2>4. CASE f # e
    <3>1. ~HandledBy(w, f)
      BY <2>4 DEF HandledBy, e
    <3>2. \A v \in Workers : HandledBy(v, f)' <=> HandledBy(v, f)
      BY <3>1 DEF HandledBy
    <3> QED
      BY <1>3, <1>4, <2>1, <2>2, <2>4, <3>2
  <2> QED
    BY <2>3, <2>4
<1> QED
  BY <1>5, <1>8 DEF MailInv

-----------------------------------------------------------------------------
\* Every step of the notification service keeps the invariant.
LEMMA MailInvStep == MailInv /\ [NotificationNext]_allVars => MailInv'
<1> SUFFICES ASSUME MailInv, [NotificationNext]_allVars
             PROVE  MailInv'
  OBVIOUS
<1>1. ConsumerInv'
  BY NotificationConsumes, ConsumerInvStep DEF MailInv
<1>2. ConsumerInv /\ TypeOK /\ Deliveries /\ lapses \in Nat
  BY ConsumerAssumption DEF MailInv, ConsumerInv, TypeOK
<1>3. CASE UNCHANGED allVars
  BY <1>1, <1>3 DEF allVars, vars, mailVars, MailInv, NotificationTypeOK, Mailed,
                    HandledBy, ConsumerInv
<1>4. ASSUME NEW e \in Events, Arrive(e), UNCHANGED mailVars
      PROVE  MailInv'
  BY <1>1, <1>4 DEF Arrive, mailVars, MailInv, NotificationTypeOK, Mailed,
                    HandledBy, ConsumerInv
<1>5. ASSUME NEW w \in Workers, UNCHANGED mailVars,
             \/ \E e \in Events : Receive(w, e)
             \/ ClaimEvent(w)
             \/ Backoff(w)
             \/ Ack(w)
      PROVE  MailInv'
  <2>1. processed' = processed /\ lapses' = lapses /\ worker[w].pc # "handled"
    BY <1>2, <1>5 DEF Receive, ClaimEvent, Backoff, Ack, Busy
  <2>2. \A v \in Workers : v # w => worker'[v] = worker[v]
    BY <1>2, <1>5 DEF Receive, ClaimEvent, Backoff, Ack, To, Release, TypeOK
  <2>3. worker'[w].pc # "handled"
    <3>1. ASSUME NEW e \in Events, Receive(w, e)
          PROVE  worker'[w].pc # "handled"
      BY <1>2, <3>1 DEF Receive, TypeOK, Busy
    <3>2. CASE ClaimEvent(w) \/ Backoff(w)
      <4>1. Busy(w) /\ (To(w, "ack") \/ To(w, "claimed") \/ To(w, "try"))
        BY <3>2 DEF ClaimEvent, Backoff, Busy
      <4> QED
        BY <1>2, <4>1, ToLeavesOthers
    <3>3. CASE Ack(w)
      BY <1>2, <3>3 DEF Ack, Release, TypeOK, Waiting
    <3> QED
      BY <1>5, <3>1, <3>2, <3>3
  <2> QED
    BY <1>1, <1>2, <1>5, <2>1, <2>2, <2>3, QuietStep
<1>6. ASSUME NEW w \in Workers, Notify(w)
      PROVE  MailInv'
  BY <1>1, <1>6, NotifyKeepsMailInv
<1>7. ASSUME NEW w \in Workers, Retry(w), Busy(w)
      PROVE  /\ \A v \in Workers : v # w => worker'[v] = worker[v]
             /\ worker'[w].pc # "handled"
  BY <1>2, <1>7, RetryLeavesOthers
<1>8. ASSUME NEW w \in Workers, NotifyFails(w)
      PROVE  MailInv'
  <2>1. /\ Busy(w) /\ Retry(w) /\ worker[w].pc = "claimed"
        /\ processed' = processed /\ lapses' = lapses /\ UNCHANGED mailVars
    BY <1>8 DEF NotifyFails, HandlerFails, Busy
  <2>2. /\ \A v \in Workers : v # w => worker'[v] = worker[v]
        /\ worker'[w].pc # "handled"
    BY <1>7, <2>1
  <2> QED
    BY <1>1, <1>2, <2>1, <2>2, QuietStep
<1>9. ASSUME NEW w \in Workers, Commit(w), Keep(w), UNCHANGED mails
      PROVE  MailInv'
  <2>1. Busy(w) /\ worker[w].pc = "handled" /\ Record(w) /\ lapses' = lapses
    BY <1>9 DEF Commit, Busy
  <2>2. /\ \A v \in Workers : v # w => worker'[v] = worker[v]
        /\ worker'[w].pc # "handled"
    BY <1>2, <1>9, <2>1, ToLeavesOthers DEF Commit
  <2> QED
    BY <1>1, <1>2, <1>9, <2>1, <2>2, KeepKeepsMailInv
<1>10. ASSUME NEW w \in Workers, SendFails(w)
       PROVE  MailInv'
  BY <1>1, <1>10, SendFailsKeepsMailInv
<1>11. ASSUME NEW w \in Workers, CommitUnknown(w), Keep(w), UNCHANGED mails
       PROVE  MailInv'
  <2>1. /\ Busy(w) /\ worker[w].pc = "handled" /\ Record(w) /\ Retry(w)
        /\ lapses' = lapses + 1
    BY <1>11 DEF CommitUnknown, Busy, Lapse
  <2>2. /\ \A v \in Workers : v # w => worker'[v] = worker[v]
        /\ worker'[w].pc # "handled"
    BY <1>7, <2>1
  <2>3. lapses' \in Nat /\ lapses' >= lapses
    BY <1>2, <2>1
  <2> QED
    BY <1>1, <1>11, <2>1, <2>2, <2>3, KeepKeepsMailInv
<1>12. ASSUME NEW w \in Workers, AttemptFails(w) \/ Drop(w), UNCHANGED mailVars
       PROVE  MailInv'
  <2>1. Busy(w) /\ (Retry(w) \/ Release(w)) /\ processed' = processed
        /\ lapses' = lapses + 1
    BY <1>12 DEF AttemptFails, Drop, Lapse, Busy
  <2>2. /\ \A v \in Workers : v # w => worker'[v] = worker[v]
        /\ worker'[w].pc # "handled"
    BY <1>2, <1>7, <2>1 DEF Release, TypeOK, Waiting
  <2> QED
    BY <1>1, <1>2, <1>12, <2>1, <2>2, QuietStep
<1> QED
  BY <1>3, <1>4, <1>5, <1>6, <1>8, <1>9, <1>10, <1>11, <1>12
     DEF NotificationNext, Step, Trouble

\* The invariant holds of every notification service.
LEMMA MailInvHolds == NotificationSpec => []MailInv
<1>1. NotificationInit => MailInv
  <2> SUFFICES ASSUME NotificationInit
               PROVE  MailInv
    OBVIOUS
  <2>1. ConsumerInv
    BY ConsumerInvInit DEF NotificationInit
  <2>2. NotificationTypeOK
    BY <2>1 DEF NotificationInit, NotificationTypeOK, ConsumerInv
  <2>3. Mailed
    BY DEF NotificationInit, Init, Mailed, HandledBy, Waiting
  <2> QED
    BY <2>1, <2>2, <2>3 DEF MailInv
<1> QED
  BY <1>1, MailInvStep, PTL DEF NotificationSpec

\* The consumer's and the service's variables keep their types; no attempt is made
\* beyond the last one, and the bounds of the model are kept.
THEOREM TypeCorrect == NotificationSpec => []NotificationTypeOK
<1>1. MailInv => NotificationTypeOK
  BY DEF MailInv
<1> QED
  BY <1>1, MailInvHolds, PTL

\* A confirmation is never lost and never sent twice for nothing: an event that
\* is done with has its row and its email, and each email beyond the first is
\* owed to a lapse (ConfirmationMailed).
THEOREM ConfirmationsAreMailed == NotificationSpec => []ConfirmationMailed
<1>1. MailInv => ConfirmationMailed
  BY DEF MailInv, Mailed, ConfirmationMailed
<1> QED
  BY <1>1, MailInvHolds, PTL
-----------------------------------------------------------------------------
(* What a step of the consumer does to the way of an event. *)

\* A copy in hand has not left the queue for good.
LEMMA InHandIsNotSettled ==
  ASSUME ConsumerInv, NEW w \in Workers, Busy(w)
  PROVE  /\ worker[w].event \in Events
         /\ arrived[worker[w].event] - acks[worker[w].event] - dead[worker[w].event] > 0
<1>1. PICK e \in Events : e = worker[w].event
  BY DEF ConsumerInv, TypeOK, Busy, Waiting, Delivery
<1>2. arrived[e] \in Int /\ acks[e] \in Nat /\ dead[e] \in Nat
  BY ConsumerAssumption DEF ConsumerInv, TypeOK
<1>3. IsFiniteSet(Hands(e)) /\ Cardinality(Hands(e)) \in Nat /\ w \in Hands(e)
  BY <1>1, HandsFinite DEF Hands, InHandOf
<1>4. Cardinality(Hands(e)) # 0
  BY <1>3, FS_EmptySet
<1>5. arrived[e] - acks[e] - dead[e] - Cardinality(Hands(e)) >= 0
  BY DEF ConsumerInv, Accounts, Ready, Hands
<1> QED
  BY <1>1, <1>2, <1>3, <1>4, <1>5

SettlesNothing == UNCHANGED <<acks, dead, processed>>

Settles(e) ==
  /\ arrived[e] - acks[e] - dead[e] > 0
  /\ processed' \in {processed, processed \cup {e}}
  /\ \A d \in Events \ {e} : acks'[d] = acks[d] /\ dead'[d] = dead[d]

\* A step settles copies of at most one event, which has some in the queue or in hand.
LEMMA OneEventAtATime ==
  ASSUME ConsumerInv, Consume \/ UNCHANGED vars
  PROVE  arrived' = arrived /\ (SettlesNothing \/ \E e \in Events : Settles(e))
<1> USE DEF ConsumerInv, TypeOK
<1>1. ASSUME NEW w \in Workers, NEW e \in Events, Receive(w, e)
      PROVE  arrived' = arrived /\ (SettlesNothing \/ Settles(e))
  <2>1. /\ UNCHANGED <<arrived, acks, processed>>
        /\ dead' = dead \/ dead' = [dead EXCEPT ![e] = @ + 1]
        /\ arrived[e] - acks[e] - dead[e] - Cardinality(Hands(e)) > 0
    BY <1>1 DEF Receive, Ready, Hands
  <2>2. arrived[e] \in Int /\ acks[e] \in Nat /\ dead[e] \in Nat
        /\ Cardinality(Hands(e)) \in Nat
    BY HandsFinite, ConsumerAssumption
  <2>3. arrived[e] - acks[e] - dead[e] > 0
    BY <2>1, <2>2
  <2> QED
    BY <2>1, <2>3 DEF SettlesNothing, Settles
<1>2. ASSUME NEW w \in Workers, ClaimEvent(w) \/ Handle(w) \/ Backoff(w) \/ Drop(w)
      PROVE  arrived' = arrived /\ SettlesNothing
  BY <1>2 DEF ClaimEvent, Handle, Backoff, Drop, SettlesNothing
<1>3. ASSUME NEW w \in Workers,
             HandlerFails(w) \/ AttemptFails(w) \/ Commit(w) \/ CommitUnknown(w) \/ Ack(w)
      PROVE  arrived' = arrived /\ \E e \in Events : Settles(e)
  <2>1. Busy(w)
    BY <1>3 DEF HandlerFails, AttemptFails, Commit, CommitUnknown, Ack, Busy
  <2>2. PICK e \in Events : /\ e = worker[w].event
                            /\ arrived[e] - acks[e] - dead[e] > 0
    BY <2>1, InHandIsNotSettled
  <2>3. /\ arrived' = arrived
        /\ acks' = acks \/ acks' = [acks EXCEPT ![e] = @ + 1]
        /\ dead' = dead \/ dead' = [dead EXCEPT ![e] = @ + 1]
        /\ processed' \in {processed, processed \cup {e}}
    BY <1>3, <2>2 DEF HandlerFails, AttemptFails, Commit, CommitUnknown, Ack, Retry,
       Record
  <2> QED
    BY <2>2, <2>3 DEF Settles
<1>4. CASE UNCHANGED vars
  BY <1>4 DEF vars, SettlesNothing
<1> QED
  BY <1>1, <1>2, <1>3, <1>4 DEF Consume, Work

=============================================================================
