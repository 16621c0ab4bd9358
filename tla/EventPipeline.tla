--------------------------- MODULE EventPipeline ----------------------------
(***************************************************************************)
(* An event on its whole way: Outbox composed with Consumer.  What the     *)
(* broker routes is what arrives at the consumer.                          *)
(***************************************************************************)
EXTENDS Integers, Sequences, FiniteSets

CONSTANTS
  N, Unpublishable, Relays, BatchSize, RelayAttempts, ConsumersFirst,
  MaxFaults, MaxTimeouts,                       \* of Outbox
  Poison, Workers, HandlerAttempts, MaxLapses   \* of Consumer

\* What the two assume.
ASSUME PipelineAssumption ==
  /\ N \in Nat
  /\ Unpublishable \subseteq 1 .. N /\ Poison \subseteq 1 .. N
  /\ IsFiniteSet(Workers)
  /\ {BatchSize, RelayAttempts, HandlerAttempts} \subseteq Nat \ {0}
  /\ ConsumersFirst \in BOOLEAN
  /\ {MaxFaults, MaxTimeouts, MaxLapses} \subseteq Nat

VARIABLES
  row, attempts, relay, open, wire, confirms, bound, routed, acked, faults,
  timeouts,                                            \* of Outbox
  acks, dead, worker, processed, effects, lapses       \* of Consumer

outboxOnly == <<row, attempts, relay, open, wire, confirms, bound, acked,
                faults, timeouts>>
consumerOnly == <<acks, dead, worker, processed, effects, lapses>>
vars == <<outboxOnly, routed, consumerOnly>>

Events == 1 .. N

O == INSTANCE Outbox WITH MaxAttempts <- RelayAttempts

C == INSTANCE Consumer WITH
  arrived <- routed, Malformed <- {}, MaxAttempts <- HandlerAttempts,
  MaxCopies <- 1 + MaxFaults + MaxTimeouts, MaxFaults <- MaxLapses

Init == O!Init /\ C!Init

Next ==
  \/ O!Next /\ UNCHANGED consumerOnly
  \/ C!Consume /\ UNCHANGED outboxOnly

Spec == Init /\ [][Next]_vars

\* Each side runs as fairly as it does alone.
Fairness ==
  /\ \A p \in Relays :
       /\ WF_vars(O!Wake(p) /\ UNCHANGED consumerOnly)
       /\ WF_vars(O!Drain(p) /\ UNCHANGED consumerOnly)
       /\ WF_vars(O!BrokerAccepts(p) /\ UNCHANGED consumerOnly)
       /\ WF_vars(O!Reconnect(p) /\ UNCHANGED consumerOnly)
  /\ \A w \in Workers :
       /\ WF_vars(C!Work(w) /\ UNCHANGED outboxOnly)
       /\ \A e \in Events : SF_vars(C!Receive(w, e) /\ UNCHANGED outboxOnly)

FairSpec == Spec /\ Fairness

-----------------------------------------------------------------------------
(* Properties. *)

\* Copies of an event in the queue or in the hands of a replica.
Copies(e) == routed[e] - acks[e] - dead[e]

OnWire(e) == \E p \in Relays : \E i \in 1 .. Len(wire[p]) : wire[p][i] = e

Fate(e) ==
  CASE e \in processed -> "handled"
    [] e \notin processed /\ row[e] = "none" -> "none"
    [] /\ e \notin processed
       /\ row[e] = "pending" \/ Copies(e) > 0 \/ OnWire(e) -> "owed"
    [] OTHER -> IF row[e] = "failed" \/ dead[e] > 0 THEN "parked" ELSE "lost"

D == INSTANCE Delivery WITH fate <- [e \in Events |-> Fate(e)]

\* Outbox and inbox together deliver every fact once or park it, across crashes
\* of both sides, lost connections, nacks and duplicates: nothing is lost once
\* it was staged, and nothing parked or handled comes back.
ImplementsDelivery == D!Spec

\* A staged fact does not stay owed for ever.
EveryFactSettles ==
  \A e \in Events : Fate(e) = "owed" ~> Fate(e) \in {"handled", "parked"}

=============================================================================
