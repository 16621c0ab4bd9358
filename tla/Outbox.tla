------------------------------- MODULE Outbox -------------------------------
(***************************************************************************)
(* The transactional outbox and its relay: rows staged by the service, the *)
(* relay replicas that claim them in batches, the confirm-mode AMQP        *)
(* channel each replica publishes on, and the broker's side of it, for one *)
(* consumer queue.                                                         *)
(*                                                                         *)
(* Events are numbered in (occurred_at, id) order.  They become visible in *)
(* any order: occurred_at is the start of a transaction, not its commit.   *)
(***************************************************************************)
EXTENDS Integers, Sequences, FiniteSets

CONSTANTS
  N,                \* events of the run
  Unpublishable,    \* rows no valid envelope can be made of
  Relays,           \* replicas of the service, each with its relay
  BatchSize,        \* rows of one batch
  MaxAttempts,      \* publishes of one row before it is given up
  ConsumersFirst,   \* whether the consumer declared its queue before any publish
  MaxFaults,        \* bound: crashes, failed commits, nacks and lost connections
  MaxTimeouts       \* bound: confirms that come after confirmWait

Events == 1 .. N

ASSUME OutboxAssumption ==
  /\ N \in Nat
  /\ Unpublishable \subseteq Events
  /\ BatchSize \in Nat \ {0}
  /\ MaxAttempts \in Nat \ {0}
  /\ ConsumersFirst \in BOOLEAN
  /\ MaxFaults \in Nat
  /\ MaxTimeouts \in Nat

VARIABLES
  row,        \* the outbox table: the state of each event's row
  attempts,   \* its attempts column
  relay,      \* where each relay stands
  open,       \* whether its AMQP channel is open
  wire,       \* its channel: messages published, not yet handled by the broker
  confirms,   \* its channel: confirmations not yet read
  bound,      \* whether the consumer's queue exists
  routed,     \* copies of each event the broker put into the queue
  acked,      \* events the broker acknowledged
  faults, timeouts

brokerVars == <<open, wire, confirms, bound, routed, acked>>
vars == <<row, attempts, relay, open, wire, confirms, bound, routed, acked,
          faults, timeouts>>

-----------------------------------------------------------------------------
None == 0

\* batch: rows of the claim not yet tried; the head is the one in hand.
\* claimed: the rows locked by the transaction.  sent, bad, missed: what the
\* commit will write.
Asleep == [pc |-> "asleep", batch |-> <<>>, claimed |-> {}, sent |-> {},
           bad |-> {}, missed |-> None]

Init ==
  /\ row = [e \in Events |-> "none"]
  /\ attempts = [e \in Events |-> 0]
  /\ relay = [p \in Relays |-> Asleep]
  /\ open = [p \in Relays |-> TRUE]
  /\ wire = [p \in Relays |-> <<>>]
  /\ confirms = [p \in Relays |-> <<>>]
  /\ bound = ConsumersFirst
  /\ routed = [e \in Events |-> 0]
  /\ acked = {}
  /\ faults = 0
  /\ timeouts = 0

Fault == faults < MaxFaults /\ faults' = faults + 1

InHand(p) == Head(relay[p].batch)

\* Enqueue: the row becomes visible with the transaction that staged it.
Enqueue(e) ==
  /\ row[e] = "none"
  /\ row' = [row EXCEPT ![e] = "pending"]
  /\ UNCHANGED <<attempts, relay, brokerVars, faults, timeouts>>

\* The poll ticker, or a Kick.
Wake(p) ==
  /\ relay[p].pc = "asleep"
  /\ relay' = [relay EXCEPT ![p].pc = "claim"]
  /\ UNCHANGED <<row, attempts, brokerVars, faults, timeouts>>

-----------------------------------------------------------------------------
(* publishBatch, one transaction. *)

\* Mutant: the claim takes no lock.
ClaimableUnlocked == {e \in Events : row[e] = "pending"}

\* FOR UPDATE SKIP LOCKED: rows another replica holds are passed over.
Claimable == {e \in Events : row[e] = "pending"
                          /\ \A p \in Relays : e \notin relay[p].claimed}

\* ORDER BY occurred_at, id LIMIT batch.
FirstOf(S) == {e \in S : Cardinality({d \in S : d < e}) < BatchSize}

\* The elements of a set of events, in order.
InOrder(S) ==
  CHOOSE s \in [1 .. Cardinality(S) -> S] :
    \A i, j \in 1 .. Cardinality(S) : i < j => s[i] < s[j]

Claim(p) ==
  /\ relay[p].pc = "claim"
  /\ LET S == FirstOf(Claimable) IN
     relay' = [relay EXCEPT ![p] =
       IF S = {} THEN Asleep
       ELSE [@ EXCEPT !.pc = "publish", !.batch = InOrder(S), !.claimed = S]]
  /\ UNCHANGED <<row, attempts, brokerVars, faults, timeouts>>

\* Mutant: such a row is passed over, and stays at the head of the backlog.
SkipUnpublishable(p) ==
  /\ relay[p].pc = "publish"
  /\ relay[p].batch # <<>>
  /\ InHand(p) \in Unpublishable
  /\ relay' = [relay EXCEPT ![p].batch = Tail(@)]
  /\ UNCHANGED <<row, attempts, brokerVars, faults, timeouts>>

\* A row that makes no valid envelope is failed, and the batch goes on.
FailUnpublishable(p) ==
  /\ relay[p].pc = "publish"
  /\ relay[p].batch # <<>>
  /\ InHand(p) \in Unpublishable
  /\ relay' = [relay EXCEPT ![p].bad = @ \cup {InHand(p)},
                            ![p].batch = Tail(@)]
  /\ UNCHANGED <<row, attempts, brokerVars, faults, timeouts>>

Send(p) ==
  /\ relay[p].pc = "publish"
  /\ relay[p].batch # <<>>
  /\ InHand(p) \notin Unpublishable
  /\ open[p]
  /\ wire' = [wire EXCEPT ![p] = Append(@, InHand(p))]
  /\ relay' = [relay EXCEPT ![p].pc = "wait"]
  /\ UNCHANGED <<row, attempts, open, confirms, bound, routed, acked, faults,
                 timeouts>>

\* A failed publish stops the batch.
Miss(p) ==
  relay' = [relay EXCEPT ![p].pc = "commit", ![p].missed = InHand(p)]

SendFails(p) ==
  /\ relay[p].pc = "publish"
  /\ relay[p].batch # <<>>
  /\ InHand(p) \notin Unpublishable
  /\ ~open[p]
  /\ Miss(p)
  /\ UNCHANGED <<row, attempts, brokerVars, faults, timeouts>>

\* Mutant: whatever the broker answered is taken for an ack.
ConfirmedAnyhow(p) ==
  /\ relay[p].pc = "wait"
  /\ confirms[p] # <<>>
  /\ confirms' = [confirms EXCEPT ![p] = Tail(@)]
  /\ relay' = [relay EXCEPT ![p].pc = "publish", ![p].batch = Tail(@),
                            ![p].sent = @ \cup {InHand(p)}]
  /\ UNCHANGED <<row, attempts, open, wire, bound, routed, acked, faults,
                 timeouts>>

\* The confirmation read is the oldest one, whatever message it is for.
Confirmed(p) ==
  /\ relay[p].pc = "wait"
  /\ confirms[p] # <<>>
  /\ confirms' = [confirms EXCEPT ![p] = Tail(@)]
  /\ IF Head(confirms[p]) = "ack"
     THEN relay' = [relay EXCEPT ![p].pc = "publish", ![p].batch = Tail(@),
                                 ![p].sent = @ \cup {InHand(p)}]
     ELSE Miss(p)
  /\ UNCHANGED <<row, attempts, open, wire, bound, routed, acked, faults,
                 timeouts>>

ChannelClosed(p) ==
  /\ relay[p].pc = "wait"
  /\ confirms[p] = <<>>
  /\ ~open[p]
  /\ Miss(p)
  /\ UNCHANGED <<row, attempts, brokerVars, faults, timeouts>>

ConfirmTimeout(p) ==
  /\ relay[p].pc = "wait"
  /\ confirms[p] = <<>>
  /\ open[p]
  /\ timeouts < MaxTimeouts
  /\ timeouts' = timeouts + 1
  /\ Miss(p)
  /\ UNCHANGED <<row, attempts, brokerVars, faults>>

\* Mutant: off by one.
ExhaustedEarly(e) == attempts[e] + 2 >= MaxAttempts

\* recordAttempt: the last attempt fails the row.
Exhausted(e) == attempts[e] + 1 >= MaxAttempts

\* Mutant: a state the schema does not know.
OutcomeUnknown(p, e) == IF e \in relay[p].sent THEN "sent" ELSE row[e]

Outcome(p, e) ==
  CASE e \in relay[p].sent -> "published"
    [] e \in relay[p].bad -> "failed"
    [] e = relay[p].missed /\ Exhausted(e) -> "failed"
    [] OTHER -> row[e]

\* drain goes on at once when the batch was full, however it ended.
Commit(p) ==
  /\ \/ relay[p].pc = "commit"
     \/ relay[p].pc = "publish" /\ relay[p].batch = <<>>
  /\ row' = [e \in Events |->
               IF e \in relay[p].claimed THEN Outcome(p, e) ELSE row[e]]
  /\ attempts' = [e \in Events |->
                    IF e \in relay[p].bad \/ e = relay[p].missed
                    THEN attempts[e] + 1 ELSE attempts[e]]
  /\ relay' = [relay EXCEPT ![p] =
       IF Cardinality(@.claimed) < BatchSize
       THEN Asleep ELSE [Asleep EXCEPT !.pc = "claim"]]
  /\ UNCHANGED <<brokerVars, faults, timeouts>>

\* A database error ends the drain and rolls the transaction back: what was
\* published in it is published again.
CommitFails(p) ==
  /\ relay[p].pc \notin {"asleep", "wait"}
  /\ relay' = [relay EXCEPT ![p] = Asleep]
  /\ Fault
  /\ UNCHANGED <<row, attempts, brokerVars, timeouts>>

\* The replica stops and starts again, with a new channel.  What it had sent
\* may have reached the broker before (BrokerAccepts) or is gone.
Restart(p) ==
  /\ relay' = [relay EXCEPT ![p] = Asleep]
  /\ open' = [open EXCEPT ![p] = TRUE]
  /\ wire' = [wire EXCEPT ![p] = <<>>]
  /\ confirms' = [confirms EXCEPT ![p] = <<>>]
  /\ UNCHANGED <<row, attempts, bound, routed, acked, timeouts>>

Crash(p) ==
  /\ relay[p].pc # "asleep"
  /\ Fault
  /\ Restart(p)

\* A service whose connection is gone shuts down, and its orchestrator
\* starts it again.
Reconnect(p) ==
  /\ ~open[p]
  /\ Restart(p)
  /\ UNCHANGED faults

\* Rows published long enough ago are deleted.
Prune(e) ==
  /\ row[e] = "published"
  /\ row' = [row EXCEPT ![e] = "pruned"]
  /\ UNCHANGED <<attempts, relay, brokerVars, faults, timeouts>>

-----------------------------------------------------------------------------
(* The broker, external. *)

\* A message nobody's queue is bound for is returned, and acknowledged too;
\* nothing listens for returns.
BrokerAccepts(p) ==
  /\ wire[p] # <<>>
  /\ wire' = [wire EXCEPT ![p] = Tail(@)]
  /\ confirms' = [confirms EXCEPT ![p] = Append(@, "ack")]
  /\ acked' = acked \cup {Head(wire[p])}
  /\ routed' = IF bound THEN [routed EXCEPT ![Head(wire[p])] = @ + 1] ELSE routed
  /\ UNCHANGED <<row, attempts, relay, open, bound, faults, timeouts>>

BrokerNacks(p) ==
  /\ wire[p] # <<>>
  /\ wire' = [wire EXCEPT ![p] = Tail(@)]
  /\ confirms' = [confirms EXCEPT ![p] = Append(@, "nack")]
  /\ Fault
  /\ UNCHANGED <<row, attempts, relay, open, bound, routed, acked, timeouts>>

\* Confirmations that had not arrived are lost with the connection.
LoseConnection(p) ==
  /\ open[p]
  /\ open' = [open EXCEPT ![p] = FALSE]
  /\ wire' = [wire EXCEPT ![p] = <<>>]
  /\ confirms' \in {confirms, [confirms EXCEPT ![p] = <<>>]}
  /\ Fault
  /\ UNCHANGED <<row, attempts, relay, bound, routed, acked, timeouts>>

\* The consumer starts, and declares and binds its queue.
DeclareConsumerQueue ==
  /\ ~bound
  /\ bound' = TRUE
  /\ UNCHANGED <<row, attempts, relay, open, wire, confirms, routed, acked,
                 faults, timeouts>>

-----------------------------------------------------------------------------
Drain(p) ==
  \/ Claim(p)
  \/ FailUnpublishable(p)
  \/ Send(p)
  \/ SendFails(p)
  \/ Confirmed(p)
  \/ ChannelClosed(p)
  \/ Commit(p)

Next ==
  \/ \E e \in Events : Enqueue(e) \/ Prune(e)
  \/ \E p \in Relays :
       \/ Wake(p)
       \/ Drain(p)
       \/ ConfirmTimeout(p)
       \/ CommitFails(p)
       \/ Crash(p)
       \/ Reconnect(p)
       \/ BrokerAccepts(p)
       \/ BrokerNacks(p)
       \/ LoseConnection(p)
  \/ DeclareConsumerQueue

Spec == Init /\ [][Next]_vars

\* The ticker keeps ticking, the relay goes on with its batch, the broker
\* handles what it was sent, and a disconnected service is started again.
Fairness ==
  \A p \in Relays :
    WF_vars(Wake(p)) /\ WF_vars(Drain(p)) /\ WF_vars(BrokerAccepts(p))
      /\ WF_vars(Reconnect(p))

FairSpec == Spec /\ Fairness

-----------------------------------------------------------------------------
(* Properties. *)

TypeOK ==
  /\ row \in [Events -> {"none", "pending", "published", "failed", "pruned"}]
  /\ attempts \in [Events -> Nat]
  /\ relay \in [Relays -> [pc : {"asleep", "claim", "publish", "wait", "commit"},
                           batch : Seq(Events), claimed : SUBSET Events,
                           sent : SUBSET Events, bad : SUBSET Events,
                           missed : Events \cup {None}]]
  /\ open \in [Relays -> BOOLEAN]
  /\ wire \in [Relays -> Seq(Events)]
  /\ confirms \in [Relays -> Seq({"ack", "nack"})]
  /\ bound \in BOOLEAN
  /\ routed \in [Events -> Nat]
  /\ acked \subseteq Events
  /\ faults \in 0 .. MaxFaults
  /\ timeouts \in 0 .. MaxTimeouts

Settled(e) == row[e] \in {"published", "pruned"}

\* A row is marked published only after the broker acknowledged that very
\* event, so that a crash loses nothing.
ConfirmedBeforePublished == \A e \in Events : Settled(e) => e \in acked

\* A published event is in the queue of its consumer: publishing never succeeds
\* into nothing.
PublishedIsQueued == \A e \in Events : Settled(e) => routed[e] > 0

\* A row is given up only when it can never be published or used up its
\* attempts, and an event no row of which became visible never reaches anyone.
GivenUpForCause ==
  \A e \in Events :
    /\ row[e] = "failed" => e \in Unpublishable \/ attempts[e] = MaxAttempts
    /\ row[e] = "none" => routed[e] = 0 /\ e \notin acked

\* The replicas never publish one event twice between them: every copy beyond
\* the first is owed to a fault (FOR UPDATE SKIP LOCKED, and a row leaves the
\* backlog with the commit that follows its publish).
DuplicatesNeedFaults ==
  \A e \in Events : routed[e] <= 1 + faults + timeouts

\* A staged event does not stay in the backlog: a replica publishes it or gives
\* it up, however the rows in front of it fare.
BacklogDrains ==
  \A e \in Events : row[e] = "pending" ~> row[e] # "pending"

=============================================================================
