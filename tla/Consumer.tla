------------------------------ MODULE Consumer ------------------------------
(***************************************************************************)
(* One consumer queue and the replicas that consume it: manual acks,       *)
(* retries with backoff, the dead-letter queue, and the inbox transaction  *)
(* that holds both the dedupe row and everything the handler writes.       *)
(*                                                                         *)
(* A copy of an event that was delivered and not acknowledged goes back to *)
(* the queue when its replica goes away.  The queue is therefore not       *)
(* stored: it is what arrived and is neither settled nor in hand.          *)
(***************************************************************************)
EXTENDS Integers, FiniteSets

CONSTANTS
  Events,        \* envelope ids
  Malformed,     \* events whose bytes do not parse
  Poison,        \* events whose handler always fails
  Workers,       \* replicas, each handling one delivery at a time
  MaxAttempts,   \* handler runs for one delivery
  MaxCopies,     \* bound: copies of one event that arrive
  MaxFaults      \* bound: failing transactions, crashes and shutdowns

ASSUME ConsumerAssumption ==
  /\ Malformed \subseteq Events
  /\ Poison \subseteq Events
  /\ IsFiniteSet(Workers)
  /\ MaxAttempts \in Nat \ {0}
  /\ MaxCopies \in Nat
  /\ MaxFaults \in Nat

VARIABLES
  arrived,   \* copies of each event that were ever put into the queue
  acks,      \* copies acknowledged
  dead,      \* copies in the dead-letter queue
  worker,    \* the replicas
  processed, \* processed_event: events whose transaction committed
  effects,   \* how often the handler's writes were committed
  lapses     \* faults that happened so far

vars == <<arrived, acks, dead, worker, processed, effects, lapses>>

-----------------------------------------------------------------------------
Waiting == [pc |-> "waiting"]
Delivery == [pc : {"try", "claimed", "handled", "backoff", "ack"},
             event : Events, attempt : 0 .. MaxAttempts]

Busy(w) == worker[w].pc # "waiting"
InHandOf(w, e) == Busy(w) /\ worker[w].event = e

Ready(e) ==
  arrived[e] - acks[e] - dead[e] - Cardinality({w \in Workers : InHandOf(w, e)})

Init ==
  /\ arrived = [e \in Events |-> 0]
  /\ acks = [e \in Events |-> 0]
  /\ dead = [e \in Events |-> 0]
  /\ worker = [w \in Workers |-> Waiting]
  /\ processed = {}
  /\ effects = [e \in Events |-> 0]
  /\ lapses = 0

Lapse == lapses < MaxFaults /\ lapses' = lapses + 1

\* The relay publishes an event at least once, and more often after a crash.
Arrive(e) ==
  /\ arrived[e] < MaxCopies
  /\ arrived' = [arrived EXCEPT ![e] = @ + 1]
  /\ UNCHANGED <<acks, dead, worker, processed, effects, lapses>>

-----------------------------------------------------------------------------
(* handleDelivery. *)

To(w, where) == worker' = [worker EXCEPT ![w].pc = where]
Release(w) == worker' = [worker EXCEPT ![w] = Waiting]

\* Bytes that do not parse are dead-lettered without a retry.
Receive(w, e) ==
  /\ ~Busy(w)
  /\ Ready(e) > 0
  /\ IF e \in Malformed
     THEN /\ dead' = [dead EXCEPT ![e] = @ + 1]
          /\ UNCHANGED worker
     ELSE /\ worker' = [worker EXCEPT
               ![w] = [pc |-> "try", event |-> e, attempt |-> 0]]
          /\ UNCHANGED dead
  /\ UNCHANGED <<arrived, acks, processed, effects, lapses>>

\* Mutant: a SELECT before the INSERT, which waits for nobody.
ClaimNeverBusy(w) == FALSE

\* INSERT ... ON CONFLICT DO NOTHING waits for another transaction that has
\* inserted the same dedupe row.
ClaimBusy(w) ==
  \E v \in Workers \ {w} : /\ worker[v].pc \in {"claimed", "handled"}
                           /\ worker[v].event = worker[w].event

\* A row that is there already means the event is done: it is only acked.
ClaimEvent(w) ==
  /\ worker[w].pc = "try"
  /\ ~ClaimBusy(w)
  /\ IF worker[w].event \in processed THEN To(w, "ack") ELSE To(w, "claimed")
  /\ UNCHANGED <<arrived, acks, dead, processed, effects, lapses>>

\* Mutant: the delivery is acknowledged before its transaction commits.
HandleAndAck(w) ==
  /\ worker[w].pc = "claimed"
  /\ worker[w].event \notin Poison
  /\ To(w, "ack")
  /\ UNCHANGED <<arrived, acks, dead, processed, effects, lapses>>

\* The handler's writes are staged in the transaction of the dedupe row.
Handle(w) ==
  /\ worker[w].pc = "claimed"
  /\ worker[w].event \notin Poison
  /\ To(w, "handled")
  /\ UNCHANGED <<arrived, acks, dead, processed, effects, lapses>>

\* Mutant: attempts counted two too many.
LastAttemptLate(w) == worker[w].attempt > MaxAttempts

LastAttempt(w) == worker[w].attempt + 1 = MaxAttempts

\* Mutant: the last failure puts the copy back into its queue.
RetryForEver(w) ==
  IF LastAttempt(w)
  THEN Release(w) /\ UNCHANGED dead
  ELSE /\ worker' = [worker EXCEPT ![w].pc = "backoff", ![w].attempt = @ + 1]
       /\ UNCHANGED dead

\* The transaction is rolled back, dedupe row included.  Another attempt
\* follows, or the copy is dead-lettered.
Retry(w) ==
  IF LastAttempt(w)
  THEN /\ dead' = [dead EXCEPT ![worker[w].event] = @ + 1]
       /\ Release(w)
  ELSE /\ worker' = [worker EXCEPT ![w].pc = "backoff", ![w].attempt = @ + 1]
       /\ UNCHANGED dead

HandlerFails(w) ==
  /\ worker[w].pc = "claimed"
  /\ worker[w].event \in Poison
  /\ Retry(w)
  /\ UNCHANGED <<arrived, acks, processed, effects, lapses>>

\* A database error before or at the commit.
AttemptFails(w) ==
  /\ worker[w].pc \in {"try", "claimed", "handled"}
  /\ Retry(w)
  /\ Lapse
  /\ UNCHANGED <<arrived, acks, processed, effects>>

Backoff(w) ==
  /\ worker[w].pc = "backoff"
  /\ To(w, "try")
  /\ UNCHANGED <<arrived, acks, dead, processed, effects, lapses>>

Record(w) ==
  /\ processed' = processed \cup {worker[w].event}
  /\ effects' = [effects EXCEPT ![worker[w].event] = @ + 1]

Commit(w) ==
  /\ worker[w].pc = "handled"
  /\ Record(w)
  /\ To(w, "ack")
  /\ UNCHANGED <<arrived, acks, dead, lapses>>

\* The commit succeeds and its answer is lost: the handler is tried again.
CommitUnknown(w) ==
  /\ worker[w].pc = "handled"
  /\ Record(w)
  /\ Retry(w)
  /\ Lapse
  /\ UNCHANGED <<arrived, acks>>

Ack(w) ==
  /\ worker[w].pc = "ack"
  /\ acks' = [acks EXCEPT ![worker[w].event] = @ + 1]
  /\ Release(w)
  /\ UNCHANGED <<arrived, dead, processed, effects, lapses>>

\* A crash or a lost channel at any point, the moment before the ack included,
\* or a shutdown during the backoff: the copy is in the queue again.
Drop(w) ==
  /\ Busy(w)
  /\ Release(w)
  /\ Lapse
  /\ UNCHANGED <<arrived, acks, dead, processed, effects>>

-----------------------------------------------------------------------------
Work(w) ==
  \/ \E e \in Events : Receive(w, e)
  \/ ClaimEvent(w)
  \/ Handle(w)
  \/ HandlerFails(w)
  \/ Backoff(w)
  \/ Commit(w)
  \/ Ack(w)

Consume ==
  \E w \in Workers :
    Work(w) \/ AttemptFails(w) \/ CommitUnknown(w) \/ Drop(w)

Next == Consume \/ \E e \in Events : Arrive(e)

Spec == Init /\ [][Next]_vars

\* A replica goes on with what it can do, and every event gets its turn with
\* one of them: the queue is first in, first out.
Fairness ==
  /\ \A w \in Workers : WF_vars(Work(w))
  /\ \A e \in Events : SF_vars(\E w \in Workers : Receive(w, e))

FairSpec == Spec /\ Fairness

-----------------------------------------------------------------------------
(* Properties. *)

TypeOK ==
  /\ arrived \in [Events -> 0 .. MaxCopies]
  /\ acks \in [Events -> Nat]
  /\ dead \in [Events -> Nat]
  /\ worker \in [Workers -> Delivery \cup {Waiting}]
  /\ processed \subseteq Events
  /\ effects \in [Events -> Nat]
  /\ lapses \in 0 .. MaxFaults

\* However often an event is delivered, to how many replicas at once, and
\* wherever they crash, its handler takes effect at most once, and exactly when
\* the event is recorded as processed.
EffectOnce ==
  \A e \in Events : effects[e] = IF e \in processed THEN 1 ELSE 0

\* No delivery is lost: a copy that is neither waiting nor being handled was
\* acknowledged, and then the event has taken effect, or dead-lettered, and then
\* no retry could help, or transient failures used up every attempt.
NothingDropped ==
  \A e \in Events :
    /\ Ready(e) >= 0
    /\ acks[e] > 0 => effects[e] = 1
    /\ dead[e] > 0 /\ e \notin Malformed \cup Poison => lapses >= MaxAttempts

\* Every event that arrives takes effect or ends in the dead-letter queue, a
\* poisoned one beside it notwithstanding.
EveryEventSettles ==
  \A e \in Events : arrived[e] > 0 ~> e \in processed \/ dead[e] > 0

=============================================================================
