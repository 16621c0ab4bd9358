--------------------------- MODULE PipelineProofs ---------------------------
(***************************************************************************)
(* The outbox and the inbox together keep the promise of Delivery, for     *)
(* every number of events, relays, replicas, attempts and faults, as long  *)
(* as the consumer declared its queue first and no confirm is late.        *)
(***************************************************************************)
EXTENDS EventPipeline, TLAPS

\* What OutboxProofs and NotificationProofs show of the two sides.  The
\* notification service's own variables play no part here.
OP == INSTANCE OutboxProofs WITH MaxAttempts <- RelayAttempts

CP == INSTANCE NotificationProofs WITH
  arrived <- routed, Malformed <- {}, MaxAttempts <- HandlerAttempts,
  MaxCopies <- 1 + MaxFaults + MaxTimeouts, MaxFaults <- MaxLapses,
  sent <- processed, mails <- effects

-----------------------------------------------------------------------------
(* The two sides. *)

\* The constants are as the outbox and the consumer assume.
LEMMA SidesAssumption == OP!OutboxAssumption /\ CP!ConsumerAssumption
<1>1. OP!OutboxAssumption
  BY PipelineAssumption DEF OP!Events, OP!OutboxAssumption
<1>2. CP!IsFiniteSet(Workers)
  BY PipelineAssumption DEF CP!IsFiniteSet, IsFiniteSet
<1>3. 1 + MaxFaults + MaxTimeouts \in Nat /\ MaxLapses \in Nat
      /\ HandlerAttempts \in Nat \ {0}
  BY PipelineAssumption
<1>4. CP!ConsumerAssumption
  BY <1>2, <1>3, PipelineAssumption DEF CP!ConsumerAssumption, Events
<1> QED
  BY <1>1, <1>4

\* The outbox of the pipeline is the one of OutboxProofs.
LEMMA SameOutbox == (O!Init <=> OP!Init) /\ (O!Next <=> OP!Next)
<1>1. O!Init <=> OP!Init
  BY DEF O!Init, OP!Init, O!Events, OP!Events, O!Asleep, OP!Asleep, O!None, OP!None
<1>2. O!Next <=> OP!Next
  BY DEF O!Next, OP!Next, O!Drain, OP!Drain,
       O!Enqueue, O!Prune, O!Wake, O!Claim, O!FailUnpublishable, O!Send,
       O!SendFails, O!Confirmed, O!ChannelClosed, O!ConfirmTimeout, O!Commit,
       O!CommitFails, O!Crash, O!Reconnect, O!Restart, O!BrokerAccepts, O!BrokerNacks,
       O!LoseConnection, O!DeclareConsumerQueue, O!Miss, O!InHand, O!Fault,
       O!Asleep, O!Events, O!brokerVars, O!None, O!Claimable, O!FirstOf, O!InOrder,
       O!Cardinality, O!IsFiniteSet, O!Outcome, O!Exhausted,
       OP!Enqueue, OP!Prune, OP!Wake, OP!Claim, OP!FailUnpublishable, OP!Send,
       OP!SendFails, OP!Confirmed, OP!ChannelClosed, OP!ConfirmTimeout, OP!Commit,
       OP!CommitFails, OP!Crash, OP!Reconnect, OP!Restart, OP!BrokerAccepts,
       OP!BrokerNacks, OP!LoseConnection, OP!DeclareConsumerQueue, OP!Miss,
       OP!InHand, OP!Fault, OP!Asleep, OP!Events, OP!brokerVars, OP!None,
       OP!Claimable, OP!FirstOf, OP!InOrder, OP!Cardinality, OP!IsFiniteSet,
       OP!Outcome, OP!Exhausted
<1> QED
  BY <1>1, <1>2

\* Its consumer is the one of NotificationProofs.
LEMMA SameConsumer == (C!Init <=> CP!Init) /\ (C!Consume <=> CP!Consume)
<1>1. C!Init <=> CP!Init
  BY DEF C!Init, CP!Init, C!Waiting, CP!Waiting
<1>2. C!Consume <=> CP!Consume
  BY DEF C!Consume, CP!Consume, C!Work, CP!Work,
       C!Receive, C!ClaimEvent, C!Handle, C!HandlerFails, C!Backoff, C!Commit, C!Ack,
       C!AttemptFails, C!CommitUnknown, C!Drop, C!Busy, C!Ready, C!InHandOf,
       C!Cardinality, C!IsFiniteSet, C!ClaimBusy, C!To, C!Release, C!Retry,
       C!LastAttempt, C!Lapse, C!Record, C!Waiting,
       CP!Receive, CP!ClaimEvent, CP!Handle, CP!HandlerFails, CP!Backoff, CP!Commit,
       CP!Ack, CP!AttemptFails, CP!CommitUnknown, CP!Drop, CP!Busy, CP!Ready,
       CP!InHandOf, CP!Cardinality, CP!IsFiniteSet, CP!ClaimBusy, CP!To, CP!Release,
       CP!Retry, CP!LastAttempt, CP!Lapse, CP!Record, CP!Waiting
<1> QED
  BY <1>1, <1>2

-----------------------------------------------------------------------------
(* The invariant: that of each side, and what is handled was routed. *)

HandledWereRouted == \A e \in processed : routed[e] > 0

PipelineInv ==
  /\ OP!LedgerInv
  /\ OP!Turns
  /\ OP!Queued
  /\ CP!ConsumerInv
  /\ HandledWereRouted

\* What the invariant says of one event.
LEMMA OneEvent ==
  ASSUME PipelineInv, NEW e \in Events
  PROVE  /\ routed[e] \in Nat /\ acks[e] \in Nat /\ dead[e] \in Nat
         /\ Copies(e) >= 0
         /\ row[e] \in {"none", "pending", "published", "failed", "pruned"}
         /\ e \in processed => routed[e] > 0
         /\ row[e] = "none" => routed[e] = 0
         /\ row[e] \in {"published", "pruned"} => routed[e] > 0
         /\ acks[e] > 0 => e \in processed
         /\ OnWire(e) => row[e] = "pending"
<1>1. /\ routed[e] \in Nat /\ acks[e] \in Nat /\ dead[e] \in Nat
      /\ processed \subseteq Events
  <2>1. 1 + MaxFaults + MaxTimeouts \in Nat
    BY PipelineAssumption
  <2>2. /\ routed \in [Events -> 0 .. (1 + MaxFaults + MaxTimeouts)]
        /\ acks \in [Events -> Nat] /\ dead \in [Events -> Nat]
        /\ processed \subseteq Events
    BY DEF PipelineInv, CP!ConsumerInv, CP!TypeOK
  <2> QED
    BY <2>1, <2>2
<1>2. Copies(e) >= 0
  <2>1. routed[e] - acks[e] - dead[e] - CP!Cardinality(CP!Hands(e)) >= 0
    BY DEF PipelineInv, CP!ConsumerInv, CP!Accounts, CP!Ready, CP!Hands
  <2>2. CP!Cardinality(CP!Hands(e)) \in Nat
    BY CP!HandsFinite, SidesAssumption DEF CP!ConsumerAssumption
  <2> QED
    BY <1>1, <2>1, <2>2 DEF Copies
<1>3. /\ row[e] \in {"none", "pending", "published", "failed", "pruned"}
      /\ row[e] = "none" => routed[e] = 0
  BY DEF PipelineInv, OP!LedgerInv, OP!RelayInv, OP!TypeOK, OP!GivenUpForCause,
         OP!Events, Events
<1>4. row[e] \in {"published", "pruned"} => routed[e] > 0
  BY DEF PipelineInv, OP!Turns, OP!ConfirmedBeforePublished, OP!Settled, OP!Queued,
         OP!Events, Events
<1>5. acks[e] > 0 => e \in processed
  BY DEF PipelineInv, CP!ConsumerInv, CP!Departures
<1>6. OnWire(e) => row[e] = "pending"
  BY OP!OnWireIsPending, SidesAssumption DEF OnWire, PipelineInv, OP!AckInv, OP!LedgerInv,
     OP!OutboxAssumption, OP!Events
<1> QED
  BY <1>1, <1>2, <1>3, <1>4, <1>5, <1>6 DEF PipelineInv, HandledWereRouted

\* Where an event stands: what was not staged is nowhere, what left the backlog is
\* in the queue or was settled, and what was acknowledged was handled.
FatesKnown ==
  \A e \in Events :
    /\ e \in processed => Fate(e) = "handled"
    /\ e \notin processed /\ row[e] = "none" => Fate(e) = "none"
    /\ e \notin processed /\ row[e] # "none" =>
         Fate(e) = IF row[e] = "pending" \/ Copies(e) > 0 THEN "owed" ELSE "parked"

\* As the case distinction of Fate has no overlap under the invariant.
LEMMA FateOf == PipelineInv => FatesKnown
<1> SUFFICES ASSUME PipelineInv, NEW e \in Events
             PROVE  /\ e \in processed => Fate(e) = "handled"
                    /\ e \notin processed /\ row[e] = "none" => Fate(e) = "none"
                    /\ e \notin processed /\ row[e] # "none" =>
                         Fate(e) = IF row[e] = "pending" \/ Copies(e) > 0
                                   THEN "owed" ELSE "parked"
  BY DEF FatesKnown
<1>1. CASE e \in processed
  BY <1>1 DEF Fate
<1>2. CASE e \notin processed /\ row[e] = "none"
  <2>1. ~OnWire(e) /\ ~(Copies(e) > 0)
    BY <1>2, OneEvent DEF Copies
  <2>2. Fate(e) = "none"
    BY <1>2, <2>1 DEF Fate
  <2> QED
    BY <1>2, <2>2
<1>3. CASE e \notin processed /\ row[e] # "none" /\ (row[e] = "pending" \/ Copies(e) > 0)
  BY <1>3 DEF Fate
<1>4. CASE e \notin processed /\ row[e] # "none" /\ ~(row[e] = "pending" \/ Copies(e) > 0)
  <2>1. ~OnWire(e) /\ row[e] # "pending"
    BY <1>4, OneEvent
  <2>2. row[e] = "failed" \/ dead[e] > 0
    <3>1. routed[e] > 0 => dead[e] > 0
      BY <1>4, OneEvent DEF Copies
    <3> QED
      BY <1>4, <3>1, OneEvent
  <2>3. Fate(e) = "parked"
    BY <1>4, <2>1, <2>2 DEF Fate
  <2> QED
    BY <1>4, <2>3
<1> QED
  BY <1>1, <1>2, <1>3, <1>4

\* So it is in the next state.
LEMMA FateOfNext == PipelineInv' => FatesKnown'
BY FateOf, PTL

-----------------------------------------------------------------------------
(* The invariant is kept by every step. *)

\* At the start nothing is staged.
LEMMA PipelineInvInit == ConsumersFirst /\ Init => PipelineInv
<1> SUFFICES ASSUME ConsumersFirst, Init
             PROVE  PipelineInv
  OBVIOUS
<1>1. OP!Init /\ CP!Init
  BY SameOutbox, SameConsumer DEF Init
<1>2. OP!LedgerInv
  BY <1>1, OP!RelayInvInit, OP!CopiesOwedInit, SidesAssumption
     DEF OP!LedgerInv, OP!OutboxAssumption, OP!Events
<1>3. OP!Turns
  BY <1>1, OP!TurnsInit, SidesAssumption DEF OP!OutboxAssumption, OP!Events
<1>4. OP!Queued
  BY <1>1 DEF OP!Init, OP!Queued
<1>5. CP!ConsumerInv
  BY <1>1, CP!ConsumerInvInit, SidesAssumption DEF CP!ConsumerAssumption
<1>6. HandledWereRouted
  BY <1>1 DEF CP!Init, HandledWereRouted
<1> QED
  BY <1>2, <1>3, <1>4, <1>5, <1>6 DEF PipelineInv
-----------------------------------------------------------------------------
(* A step of the outbox. *)

\* What the broker routes arrives at the consumer, which leaves room for it.
LEMMA OutboxStep ==
  ASSUME PipelineInv, OP!Next, UNCHANGED consumerOnly
  PROVE  /\ [CP!Next]_CP!vars
         /\ \/ OP!RowsMoveOn /\ routed' = routed
            \/ \E e \in Events : OP!Enqueue(e)
            \/ /\ row' = row
               /\ \E e \in Events : /\ row[e] = "pending"
                                    /\ routed' = [routed EXCEPT ![e] = @ + 1]
<1> USE DEF PipelineInv, OP!LedgerInv
<1>1. \/ \E e \in Events : OP!Enqueue(e)
      \/ OP!RowsMoveOn /\ routed' = routed
      \/ \E p \in Relays : OP!BrokerAccepts(p)
  BY OP!OneThingAtATime, SidesAssumption DEF OP!OutboxAssumption, OP!Events, Events
<1>2. routed' = routed => [CP!Next]_CP!vars
  BY DEF CP!vars, consumerOnly
<1>3. ASSUME NEW e \in Events, OP!Enqueue(e)
      PROVE  routed' = routed
  BY <1>3 DEF OP!Enqueue, OP!brokerVars
<1>4. ASSUME NEW p \in Relays, OP!BrokerAccepts(p)
      PROVE  /\ [CP!Next]_CP!vars
             /\ row' = row
             /\ \E e \in Events : /\ row[e] = "pending"
                                  /\ routed' = [routed EXCEPT ![e] = @ + 1]
  <2>1. PICK e \in Events : e = Head(wire[p]) /\ routed[e] <= MaxFaults + MaxTimeouts
    BY <1>4, OP!RoomForTheCopy, SidesAssumption
       DEF OP!BrokerAccepts, OP!OutboxAssumption, OP!Events, Events
  <2>2. row' = row /\ routed' = [routed EXCEPT ![e] = @ + 1]
    BY <1>4, <2>1 DEF OP!BrokerAccepts, OP!Queued
  <2>3. row[e] = "pending"
    <3>1. wire[p] \in Seq(Events) /\ wire[p] # <<>>
      BY <1>4 DEF OP!BrokerAccepts, OP!RelayInv, OP!TypeOK, OP!Events, Events
    <3>2. 1 \in 1 .. Len(wire[p]) /\ wire[p][1] = e
      BY <2>1, <3>1
    <3> QED
      BY <3>2, OneEvent DEF OnWire
  <2>4. CP!Arrive(e)
    <3>1. routed[e] < 1 + MaxFaults + MaxTimeouts
      BY <2>1, OneEvent, PipelineAssumption
    <3> QED
      BY <2>2, <3>1 DEF CP!Arrive, consumerOnly
  <2> QED
    BY <2>2, <2>3, <2>4 DEF CP!Next
<1> QED
  BY <1>1, <1>2, <1>3, <1>4

\* A row that is staged is owed; the end of a batch settles rows, and nothing
\* else changes where an event stands.
LEMMA OutboxDelivers ==
  ASSUME PipelineInv, PipelineInv', OP!Next, UNCHANGED consumerOnly
  PROVE  \/ \E e \in Events : /\ Fate(e) = "none" /\ Fate(e)' = "owed"
                              /\ \A d \in Events \ {e} : Fate(d)' = Fate(d)
         \/ \A e \in Events : \/ Fate(e)' = Fate(e)
                              \/ Fate(e) = "owed" /\ Fate(e)' = "parked"
<1>f. FatesKnown /\ FatesKnown'
  BY FateOf, FateOfNext
<1>0. UNCHANGED <<acks, dead, processed>>
  BY DEF consumerOnly
<1>1. ASSUME NEW e \in Events, row'[e] = row[e], routed'[e] = routed[e]
      PROVE  Fate(e)' = Fate(e)
  <2>1. Copies(e)' = Copies(e)
    BY <1>0, <1>1 DEF Copies
  <2> QED
    BY <1>0, <1>1, <2>1, <1>f DEF FatesKnown
<1>2. ASSUME NEW e \in Events, OP!Enqueue(e)
      PROVE  /\ Fate(e) = "none" /\ Fate(e)' = "owed"
             /\ \A d \in Events \ {e} : Fate(d)' = Fate(d)
  <2>1. /\ row[e] = "none" /\ row' = [row EXCEPT ![e] = "pending"] /\ routed' = routed
        /\ row \in [Events -> {"none", "pending", "published", "failed", "pruned"}]
    BY <1>2 DEF OP!Enqueue, OP!brokerVars, PipelineInv, OP!LedgerInv, OP!RelayInv,
                OP!TypeOK, OP!Events, Events
  <2>2. e \notin processed
    BY <2>1, OneEvent
  <2>3. row'[e] = "pending" /\ \A d \in Events \ {e} : row'[d] = row[d]
    BY <2>1
  <2>4. Fate(e) = "none" /\ Fate(e)' = "owed"
    BY <1>0, <2>1, <2>2, <2>3, <1>f DEF FatesKnown
  <2> QED
    BY <1>1, <2>1, <2>3, <2>4
<1>3. ASSUME OP!RowsMoveOn, routed' = routed, NEW e \in Events
      PROVE  \/ Fate(e)' = Fate(e)
             \/ Fate(e) = "owed" /\ Fate(e)' = "parked"
  <2>1. Copies(e)' = Copies(e)
    BY <1>0, <1>3 DEF Copies
  <2>2. \/ row'[e] = row[e]
        \/ row[e] = "pending" /\ row'[e] \in {"published", "failed"}
        \/ row[e] = "published" /\ row'[e] = "pruned"
    BY <1>3 DEF OP!RowsMoveOn, OP!Events, Events
  <2> QED
    BY <1>0, <2>1, <2>2, <1>f DEF FatesKnown
<1>4. ASSUME NEW e \in Events, row' = row, row[e] = "pending",
             routed' = [routed EXCEPT ![e] = @ + 1]
      PROVE  \A d \in Events : Fate(d)' = Fate(d)
  <2>1. \A d \in Events \ {e} : routed'[d] = routed[d] /\ row'[d] = row[d]
    BY <1>4 DEF PipelineInv, CP!ConsumerInv, CP!TypeOK
  <2>2. Fate(e)' = Fate(e)
    BY <1>0, <1>4, <1>f DEF FatesKnown
  <2> QED
    BY <1>1, <2>1, <2>2
<1> QED
  BY <1>2, <1>3, <1>4, OutboxStep
-----------------------------------------------------------------------------
(* A step of the consumer. *)

\* It settles copies of one event at most, and routes nothing.
LEMMA ConsumerStep ==
  ASSUME PipelineInv, CP!Consume
  PROVE  routed' = routed /\ (CP!SettlesNothing \/ \E e \in Events : CP!Settles(e))
BY CP!OneEventAtATime, SidesAssumption DEF PipelineInv, CP!ConsumerAssumption

\* Only an event that has copies changes its fate, so it was owed, or was handled
\* and stays so.
LEMMA ConsumerDelivers ==
  ASSUME PipelineInv, PipelineInv', CP!Consume, UNCHANGED outboxOnly
  PROVE  \/ \A e \in Events : Fate(e)' = Fate(e)
         \/ \E e \in Events : /\ Fate(e) = "owed" /\ Fate(e)' \in {"handled", "parked"}
                              /\ \A d \in Events \ {e} : Fate(d)' = Fate(d)
<1>f. FatesKnown /\ FatesKnown'
  BY FateOf, FateOfNext
<1>0. row' = row /\ routed' = routed
  BY ConsumerStep DEF outboxOnly
<1>1. ASSUME NEW e \in Events, acks'[e] = acks[e], dead'[e] = dead[e],
             e \in processed' <=> e \in processed
      PROVE  Fate(e)' = Fate(e)
  <2>1. Copies(e)' = Copies(e)
    BY <1>0, <1>1 DEF Copies
  <2> QED
    BY <1>0, <1>1, <2>1, <1>f DEF FatesKnown
<1>2. CASE CP!SettlesNothing
  BY <1>1, <1>2 DEF CP!SettlesNothing
<1>3. ASSUME NEW e \in Events, CP!Settles(e)
      PROVE  /\ \A d \in Events \ {e} : Fate(d)' = Fate(d)
             /\ \/ Fate(e)' = Fate(e)
                \/ Fate(e) = "owed" /\ Fate(e)' \in {"handled", "parked"}
  <2>1. /\ Copies(e) > 0
        /\ \A d \in Events \ {e} : /\ acks'[d] = acks[d] /\ dead'[d] = dead[d]
                                   /\ d \in processed' <=> d \in processed
        /\ e \in processed => e \in processed'
    BY <1>3 DEF CP!Settles, Copies
  <2>2. row[e] # "none"
    BY <2>1, OneEvent DEF Copies
  <2>3. \A d \in Events \ {e} : Fate(d)' = Fate(d)
    BY <1>1, <2>1
  <2>4. CASE e \in processed
    BY <2>1, <2>3, <2>4, <1>f DEF FatesKnown
  <2>5. CASE e \notin processed
    <3>1. Fate(e) = "owed"
      BY <2>1, <2>2, <2>5, <1>f DEF FatesKnown
    <3>2. Fate(e)' \in {"handled", "parked", "owed"}
      BY <1>0, <2>2, <1>f DEF FatesKnown
    <3> QED
      BY <2>3, <3>1, <3>2
  <2> QED
    BY <2>4, <2>5
<1> QED
  BY <1>2, <1>3, ConsumerStep

-----------------------------------------------------------------------------
(* The refinement. *)

\* Every step keeps the invariant.
LEMMA PipelineInvStep == MaxTimeouts = 0 /\ PipelineInv /\ [Next]_vars => PipelineInv'
<1> SUFFICES ASSUME MaxTimeouts = 0, PipelineInv, [Next]_vars
             PROVE  PipelineInv'
  OBVIOUS
<1>1. [OP!Next]_OP!vars => OP!LedgerInv' /\ OP!Turns' /\ OP!Queued'
  BY OP!LedgerInvStep, OP!TurnStep, OP!QueuedStep, SidesAssumption
     DEF OP!OutboxAssumption, OP!Events, PipelineInv, OP!LedgerInv, OP!AckInv
<1>2. [CP!Next]_CP!vars => CP!ConsumerInv'
  BY CP!ConsumerInvStep, SidesAssumption DEF CP!ConsumerAssumption, PipelineInv
<1>3. CASE UNCHANGED vars
  <2>1. UNCHANGED OP!vars /\ UNCHANGED CP!vars
    BY <1>3 DEF vars, outboxOnly, consumerOnly, OP!vars, CP!vars
  <2>2. HandledWereRouted'
    BY <1>3 DEF vars, consumerOnly, HandledWereRouted, PipelineInv
  <2> QED
    BY <1>1, <1>2, <2>1, <2>2 DEF PipelineInv
<1>4. CASE O!Next /\ UNCHANGED consumerOnly
  <2>1. OP!Next
    BY <1>4, SameOutbox
  <2>2. [CP!Next]_CP!vars
    BY <1>4, <2>1, OutboxStep
  <2>3. HandledWereRouted'
    <3>1. \A e \in Events : routed[e] > 0 => routed'[e] > 0
      <4>1. routed \in [Events -> Int]
        BY PipelineAssumption DEF PipelineInv, CP!ConsumerInv, CP!TypeOK
      <4>2. \/ routed' = routed
            \/ \E d \in Events : routed' = [routed EXCEPT ![d] = @ + 1]
        BY <1>4, <2>1, OutboxStep DEF OP!Enqueue, OP!brokerVars
      <4> QED
        BY <4>1, <4>2
    <3>2. processed' = processed /\ processed \subseteq Events
      BY <1>4 DEF consumerOnly, PipelineInv, CP!ConsumerInv, CP!TypeOK
    <3> QED
      BY <3>1, <3>2 DEF HandledWereRouted, PipelineInv
  <2> QED
    BY <1>1, <1>2, <2>1, <2>2, <2>3 DEF PipelineInv
<1>5. CASE C!Consume /\ UNCHANGED outboxOnly
  <2>1. CP!Consume
    BY <1>5, SameConsumer
  <2>2. routed' = routed
    BY <2>1, ConsumerStep
  <2>3. UNCHANGED OP!vars
    BY <1>5, <2>2 DEF outboxOnly, OP!vars
  <2>4. HandledWereRouted'
    <3>1. ASSUME NEW e \in Events, CP!Settles(e)
          PROVE  routed[e] > 0
      BY <3>1, OneEvent DEF CP!Settles
    <3>2. \A e \in processed' : e \in processed \/ routed[e] > 0
      BY <2>1, <3>1, ConsumerStep DEF CP!SettlesNothing, CP!Settles
    <3> QED
      BY <2>2, <3>2 DEF HandledWereRouted, PipelineInv
  <2> QED
    BY <1>1, <1>2, <2>1, <2>3, <2>4 DEF PipelineInv, CP!Next
<1> QED
  BY <1>3, <1>4, <1>5 DEF Next

\* A step that changes fates as an outbox or a consumer does is one of Delivery.
LEMMA StepDelivers ==
  ASSUME PipelineInv, PipelineInv', [Next]_vars
  PROVE  [D!Next]_([e \in Events |-> Fate(e)])
<1>1. CASE \E e \in Events : /\ Fate(e) = "none" /\ Fate(e)' = "owed"
                             /\ \A d \in Events \ {e} : Fate(d)' = Fate(d)
  BY <1>1 DEF D!Next, D!Stage
<1>2. CASE \E e \in Events : /\ Fate(e) = "owed" /\ Fate(e)' = "handled"
                             /\ \A d \in Events \ {e} : Fate(d)' = Fate(d)
  BY <1>2 DEF D!Next, D!Handle
<1>3. CASE \A e \in Events : \/ Fate(e)' = Fate(e)
                             \/ Fate(e) = "owed" /\ Fate(e)' = "parked"
  <2> DEFINE S == {e \in Events : Fate(e)' # Fate(e)}
  <2>1. CASE S = {}
    BY <2>1
  <2>2. CASE S # {}
    <3>1. D!Park(S)
      BY <1>3, <2>2 DEF D!Park
    <3> QED
      BY <3>1 DEF D!Next
  <2> QED
    BY <2>1, <2>2
<1>4. CASE UNCHANGED vars
  <2>1. \A e \in Events : Fate(e)' = Fate(e)
    <3>1. UNCHANGED <<row, routed, acks, dead, processed>>
      BY <1>4 DEF vars, outboxOnly, consumerOnly
    <3>2. \A e \in Events : Copies(e)' = Copies(e)
      BY <3>1 DEF Copies
    <3> QED
      BY <3>1, <3>2, FateOf, FateOfNext DEF FatesKnown
  <2> QED
    BY <2>1
<1>5. CASE O!Next /\ UNCHANGED consumerOnly
  <2>1. OP!Next
    BY <1>5, SameOutbox
  <2> QED
    BY <1>5, <2>1, <1>1, <1>3, OutboxDelivers
<1>6. CASE C!Consume /\ UNCHANGED outboxOnly
  <2>1. CP!Consume
    BY <1>6, SameConsumer
  <2>2. \/ \A e \in Events : Fate(e)' = Fate(e)
        \/ \E e \in Events : /\ Fate(e) = "owed" /\ Fate(e)' \in {"handled", "parked"}
                             /\ \A d \in Events \ {e} : Fate(d)' = Fate(d)
    BY <1>6, <2>1, ConsumerDelivers
  <2>3. ASSUME NEW e \in Events, Fate(e) = "owed", Fate(e)' = "parked",
               \A d \in Events \ {e} : Fate(d)' = Fate(d)
        PROVE  \A d \in Events : \/ Fate(d)' = Fate(d)
                                 \/ Fate(d) = "owed" /\ Fate(d)' = "parked"
    BY <2>3
  <2> QED
    BY <1>2, <1>3, <2>2, <2>3
<1> QED
  BY <1>4, <1>5, <1>6 DEF Next

\* As long as no confirm is late and the consumer declared its queue before anyone
\* published, outbox and inbox deliver every staged fact once or park it, and
\* never lose it or bring it back (ImplementsDelivery).
THEOREM PipelineDelivers ==
  ASSUME MaxTimeouts = 0, ConsumersFirst
  PROVE  Spec => ImplementsDelivery
<1>1. Init => PipelineInv
  BY PipelineInvInit
<1>2. PipelineInv /\ [Next]_vars => PipelineInv'
  BY PipelineInvStep
<1>3. Init => D!Init
  <2>1. SUFFICES ASSUME Init, NEW e \in Events
                 PROVE  Fate(e) = "none"
    BY DEF D!Init
  <2>2. PipelineInv
    BY <2>1, PipelineInvInit
  <2>3. row[e] = "none" /\ e \notin processed
    BY <2>1, SameOutbox, SameConsumer DEF Init, OP!Init, CP!Init, OP!Events, Events
  <2> QED
    BY <2>2, <2>3, FateOf DEF FatesKnown
<1>4. PipelineInv /\ PipelineInv' /\ [Next]_vars => [D!Next]_([e \in Events |-> Fate(e)])
  BY StepDelivers
<1> QED
  BY <1>1, <1>2, <1>3, <1>4, PTL DEF Spec, ImplementsDelivery, D!Spec
=============================================================================
