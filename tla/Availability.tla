---------------------------- MODULE Availability ----------------------------
(***************************************************************************)
(* The Availability service: the reservation table, the idempotency keys,  *)
(* the facts staged in the outbox, and everything that writes to them:     *)
(* POST /v1/reservations, confirm, release, the BookingCancelled consumer  *)
(* and the TTL sweeper.                                                    *)
(*                                                                         *)
(* A database transaction is modelled by the steps another transaction can *)
(* observe: a reserve begins, claims its key, inserts its row and commits; *)
(* a transition locks its row (SELECT ... FOR UPDATE) and commits.  What a *)
(* transaction wrote is visible to the others once it commits; until then  *)
(* a transaction that would collide with it waits.                         *)
(*                                                                         *)
(* Every call of the reserve endpoint mints one id, so a reservation is    *)
(* named by the call that inserts it, and its immutable columns            *)
(* (resource_id, booking_id, during) are that call's body.                 *)
(***************************************************************************)
EXTENDS Integers, Sequences, FiniteSets

CONSTANTS
  Calls,      \* calls of POST /v1/reservations, and the ids they mint
  Keys,       \* Idempotency-Key header values
  Bodies,     \* request bodies, [resource, booking, from, to]
  Resources,  \* watercraft
  Bookings,   \* booking ids
  Txs,        \* transactions of the confirm, release and consumer paths
  Sweepers,   \* replicas of the TTL sweeper
  Batch,      \* rows one sweep takes
  TTL,        \* holdTTL
  MaxNow,     \* bound: the last instant of the database clock
  MaxFaults,  \* bound: database errors, lost commits and process stops
  NoCall,     \* no reservation id
  NoReq       \* a call that was not made yet

Body == [resource : Resources, booking : Bookings, from : Int, to : Int]

ASSUME BodiesAssumption == Bodies \subseteq Body
ASSUME BoundsAssumption ==
  /\ Batch \in Nat \ {0}
  /\ TTL \in Nat \ {0}
  /\ MaxNow \in Nat
  /\ MaxFaults \in Nat
ASSUME NamesAssumption ==
  /\ NoCall \notin Calls
  /\ NoReq \notin [key : Keys, body : Bodies]
  /\ Txs \cap Sweepers = {}

VARIABLES
  now,      \* the database clock
  row,      \* the reservation table
  keys,     \* idempotency_key: the reservation each key maps to
  facts,    \* the outbox, per aggregate: what was staged about a reservation
  pc,       \* where each call stands
  req,      \* what each call asked for
  began,    \* now() of each call's transaction: its start
  answer,   \* what each call was answered
  tx,       \* the transitions that hold a row lock
  sweep,    \* the sweeper replicas
  faults    \* faults that happened so far

reserveVars == <<pc, req, began, answer, keys>>
vars == <<now, row, keys, facts, pc, req, began, answer, tx, sweep, faults>>

-----------------------------------------------------------------------------
(* Values. *)

Live == {"held", "confirmed"}
Reasons == {"payment_failed", "booking_cancelled", "hold_expired"}
Never == -1

Row == [status : Live \cup {"none", "released"},
        expires : Nat \cup {Never},
        reason : Reasons \cup {"none"}]
NoRow == [status |-> "none", expires |-> Never, reason |-> "none"]

Created == [event |-> "ReservationCreated", reason |-> "none"]
Released(why) == [event |-> "ReservationReleased", reason |-> why]
Fact == {Created} \cup {Released(why) : why \in Reasons}

Answer == [kind : {"none", "stored", "invalid_window", "slot_unavailable",
                   "key_reuse", "error"},
           id : Calls \cup {NoCall}]
Rejected(kind) == [kind |-> kind, id |-> NoCall]
Stored(r) == [kind |-> "stored", id |-> r]

Idle == [op |-> "idle", id |-> NoCall, reason |-> "none", booking |-> NoCall,
         read |-> NoRow]
Locked == [op : {"confirm", "compensate", "sweep"}, id : Calls,
           reason : {"none"}, booking : Bookings \cup {NoCall}, read : Row]
          \cup
          [op : {"release"}, id : Calls,
           reason : Reasons, booking : {NoCall}, read : Row]

Resting == [pc |-> "idle", asOf |-> 0, todo |-> {}, released |-> 0,
            failures |-> 0]

ValidWindow(b) == b.from < b.to

\* `during` ranges are half-open: back-to-back windows do not overlap.
Overlaps(a, b) ==
  /\ a.resource = b.resource
  /\ a.from < b.to
  /\ b.from < a.to

IsLive(r) == row[r].status \in Live

Init ==
  /\ now = 0
  /\ row = [r \in Calls |-> NoRow]
  /\ keys = [k \in Keys |-> NoCall]
  /\ facts = [r \in Calls |-> <<>>]
  /\ pc = [c \in Calls |-> "idle"]
  /\ req = [c \in Calls |-> NoReq]
  /\ began = [c \in Calls |-> 0]
  /\ answer = [c \in Calls |-> Rejected("none")]
  /\ tx = [t \in Txs \cup Sweepers |-> Idle]
  /\ sweep = [s \in Sweepers |-> Resting]
  /\ faults = 0

Fault == faults < MaxFaults /\ faults' = faults + 1

-----------------------------------------------------------------------------
(* POST /v1/reservations. *)

\* The call is decoded, fingerprinted and validated; a window that is not
\* strictly ordered never reaches the store.
Reserve(c, k, b) ==
  /\ pc[c] = "idle"
  /\ now + TTL <= MaxNow  \* bound: the deadline lies within the modelled time
  /\ req' = [req EXCEPT ![c] = [key |-> k, body |-> b]]
  /\ began' = [began EXCEPT ![c] = now]
  /\ IF ValidWindow(b)
     THEN /\ pc' = [pc EXCEPT ![c] = "begun"]
          /\ UNCHANGED answer
     ELSE /\ pc' = [pc EXCEPT ![c] = "done"]
          /\ answer' = [answer EXCEPT ![c] = Rejected("invalid_window")]
  /\ UNCHANGED <<now, row, keys, facts, tx, sweep, faults>>

\* Mutant: the claim of another transaction is not waited for.
KeyNeverBusy(c) == FALSE

\* An uncommitted claim of the same key: INSERT ... ON CONFLICT waits for it.
KeyBusy(c) ==
  \E d \in Calls \ {c} : /\ pc[d] \in {"claimed", "inserted"}
                         /\ req[d].key = req[c].key

\* The reservation the key is known to stand for, NoCall when it is new.
Holder(c) == keys[req[c].key]

\* The fingerprint is a hash of the whole decoded body.
SameFingerprint(c) == req[Holder(c)].body = req[c].body

Finish(c, a) ==
  /\ pc' = [pc EXCEPT ![c] = "done"]
  /\ answer' = [answer EXCEPT ![c] = a]

ClaimKey(c) ==
  /\ pc[c] = "begun"
  /\ ~KeyBusy(c)
  /\ \/ /\ Holder(c) = NoCall
        /\ pc' = [pc EXCEPT ![c] = "claimed"]
        /\ UNCHANGED answer
     \/ /\ Holder(c) # NoCall
        /\ SameFingerprint(c)
        /\ Finish(c, Stored(Holder(c)))
     \/ /\ Holder(c) # NoCall
        /\ ~SameFingerprint(c)
        /\ Finish(c, Rejected("key_reuse"))
  /\ UNCHANGED <<now, row, keys, facts, req, began, tx, sweep, faults>>

\* The exclusion constraint covers the live rows that are committed ...
Conflicts(c) ==
  {r \in Calls : IsLive(r) /\ Overlaps(req[r].body, req[c].body)}

\* Mutant: an availability query in place of the exclusion constraint.
SlotNeverBusy(c) == FALSE

\* ... and makes an insert wait for an uncommitted row it would overlap.
SlotBusy(c) ==
  \E d \in Calls \ {c} : /\ pc[d] = "inserted"
                         /\ Overlaps(req[d].body, req[c].body)

\* 23P01 rolls the whole transaction back, the claim of the key included.
InsertRow(c) ==
  /\ pc[c] = "claimed"
  /\ ~SlotBusy(c)
  /\ IF Conflicts(c) = {}
     THEN /\ pc' = [pc EXCEPT ![c] = "inserted"]
          /\ UNCHANGED answer
     ELSE Finish(c, Rejected("slot_unavailable"))
  /\ UNCHANGED <<now, row, keys, facts, req, began, tx, sweep, faults>>

\* expires_at is now() + ttl, and now() is the start of the transaction.
Inserted(c) ==
  [status |-> "held", expires |-> began[c] + TTL, reason |-> "none"]

\* The row, the key and the staged fact become visible together.  The answer
\* may be lost on the way: the caller then sees an error for a hold that exists.
CommitReserve(c) ==
  /\ pc[c] = "inserted"
  /\ row' = [row EXCEPT ![c] = Inserted(c)]
  /\ keys' = [keys EXCEPT ![req[c].key] = c]
  /\ facts' = [facts EXCEPT ![c] = Append(@, Created)]
  /\ \/ Finish(c, Stored(c)) /\ UNCHANGED faults
     \/ Finish(c, Rejected("error")) /\ Fault
  /\ UNCHANGED <<now, req, began, tx, sweep>>

\* A database error, a deadlock victim, a lost connection or a crash.
AbortReserve(c) ==
  /\ pc[c] \in {"begun", "claimed", "inserted"}
  /\ Finish(c, Rejected("error"))
  /\ Fault
  /\ UNCHANGED <<now, row, keys, facts, req, began, tx, sweep>>

-----------------------------------------------------------------------------
(* Transitions of a stored reservation: the row to write and what to stage. *)

Keep(r) == [next |-> r, emits |-> <<>>]

\* Mutant: confirm without a look at the status.
ConfirmBlindly(r) ==
  [next |-> [r EXCEPT !.status = "confirmed", !.expires = Never],
   emits |-> <<>>]

\* Confirming a released reservation is an error, and writes nothing.
ConfirmT(r) ==
  IF r.status = "held"
  THEN [next |-> [r EXCEPT !.status = "confirmed", !.expires = Never],
        emits |-> <<>>]
  ELSE Keep(r)

\* Mutant: a second release is not recognised as one.
ReleaseAgain(r, why) ==
  [next |-> [status |-> "released", expires |-> Never, reason |-> why],
   emits |-> <<Released(why)>>]

\* Mutant: two parameters of the UPDATE swapped.
ReleaseSwapped(r, why) ==
  IF r.status = "released"
  THEN Keep(r)
  ELSE [next |-> [status |-> why, expires |-> Never, reason |-> "released"],
        emits |-> <<Released(why)>>]

ReleaseT(r, why) ==
  IF r.status = "released"
  THEN Keep(r)
  ELSE [next |-> [status |-> "released", expires |-> Never, reason |-> why],
        emits |-> <<Released(why)>>]

\* A hold whose deadline is exactly asOf is due.
IsDue(r, asOf) == r.status = "held" /\ r.expires # Never /\ r.expires <= asOf

\* Mutant: what the scan said is not decided again under the lock.
ReleaseScanned(r, asOf) == ReleaseT(r, "hold_expired")

ReleaseIfExpiredT(r, asOf) ==
  IF IsDue(r, asOf) THEN ReleaseT(r, "hold_expired") ELSE Keep(r)

\* A reservation of another booking is an error: everything is rolled back.
CompensateT(r, id, booking) ==
  IF req[id].body.booking = booking
  THEN ReleaseT(r, "booking_cancelled")
  ELSE Keep(r)

Transition(t) ==
  CASE tx[t].op = "confirm"    -> ConfirmT(tx[t].read)
    [] tx[t].op = "release"    -> ReleaseT(tx[t].read, tx[t].reason)
    [] tx[t].op = "compensate" -> CompensateT(tx[t].read, tx[t].id, tx[t].booking)
    [] tx[t].op = "sweep"      -> ReleaseIfExpiredT(tx[t].read, sweep[t].asOf)

\* Mutant: a SELECT that takes no lock.
NeverLocked(r) == TRUE

\* SELECT ... FOR UPDATE: waits for the holder, then reads the latest row.
Unlocked(r) == \A u \in Txs \cup Sweepers : tx[u].op = "idle" \/ tx[u].id # r

\* A row that does not exist is ErrNotFound, and nothing happens.
LockRow(t, r, op, why, booking) ==
  /\ tx[t].op = "idle"
  /\ row[r].status # "none"
  /\ Unlocked(r)
  /\ tx' = [tx EXCEPT ![t] = [op |-> op, id |-> r, reason |-> why,
                             booking |-> booking, read |-> row[r]]]
  /\ UNCHANGED <<now, row, keys, facts, pc, req, began, answer, faults>>

Confirm(t, r) ==
  LockRow(t, r, "confirm", "none", NoCall) /\ UNCHANGED sweep

\* The endpoint takes every reason of the contract, for a hold and for a
\* confirmed reservation alike.
Release(t, r, why) ==
  LockRow(t, r, "release", why, NoCall) /\ UNCHANGED sweep

BookingCancelled(t, r, booking) ==
  LockRow(t, r, "compensate", "none", booking) /\ UNCHANGED sweep

\* What the end of a row's transaction means to the sweep that ran it: so many
\* more released, so many more failures, and the row is dealt with.
Tally(s, releases, failures) ==
  [sweep[s] EXCEPT !.todo = @ \ {tx[s].id},
                   !.released = @ + releases,
                   !.failures = @ + failures]

SweptRow(t, releases, failures) ==
  sweep' = IF t \in Sweepers
           THEN [sweep EXCEPT ![t] = Tally(t, releases, failures)]
           ELSE sweep

Changed(t) == IF Transition(t).next = tx[t].read THEN 0 ELSE 1

CommitTransition(t) ==
  /\ tx[t].op # "idle"
  /\ row' = [row EXCEPT ![tx[t].id] = Transition(t).next]
  /\ facts' = [facts EXCEPT ![tx[t].id] = @ \o Transition(t).emits]
  /\ tx' = [tx EXCEPT ![t] = Idle]
  /\ SweptRow(t, Changed(t), 0)
  /\ UNCHANGED <<now, reserveVars, faults>>

RollbackTransition(t) ==
  /\ tx[t].op # "idle"
  /\ tx' = [tx EXCEPT ![t] = Idle]
  /\ SweptRow(t, 0, 1)
  /\ Fault
  /\ UNCHANGED <<now, row, facts, reserveVars>>

-----------------------------------------------------------------------------
(* The TTL sweeper. *)

sweepOnly == <<now, row, facts, reserveVars, tx, faults>>

\* On a tick, and again after a pass that released a full batch: the pass
\* reads the database clock once, before it scans.
SweepNow(s) ==
  /\ sweep[s].pc \in {"idle", "again"}
  /\ sweep' = [sweep EXCEPT ![s] = [Resting EXCEPT !.pc = "scan", !.asOf = now]]
  /\ UNCHANGED sweepOnly

DueNow == {r \in Calls : IsDue(row[r], now)}

\* ORDER BY expires_at LIMIT batch.
FirstDue(S) ==
  /\ S \subseteq DueNow
  /\ \/ S = DueNow /\ Cardinality(S) <= Batch
     \/ Cardinality(S) = Batch
  /\ \A r \in S, q \in DueNow \ S : row[r].expires <= row[q].expires

SweepScan(s) ==
  /\ sweep[s].pc = "scan"
  /\ \E S \in SUBSET Calls :
       /\ FirstDue(S)
       /\ sweep' = [sweep EXCEPT ![s].pc = "apply", ![s].todo = S]
  /\ UNCHANGED sweepOnly

\* Each candidate is decided again under its row lock.
SweepRow(s, r) ==
  /\ sweep[s].pc = "apply"
  /\ r \in sweep[s].todo
  /\ LockRow(s, r, "sweep", "none", NoCall)
  /\ UNCHANGED sweep

\* Mutant: a failed pass ends the sweeper.
SweepEndsForGood(s) ==
  /\ sweep[s].pc = "apply"
  /\ sweep[s].todo = {}
  /\ sweep' = [sweep EXCEPT ![s] =
       IF sweep[s].failures > 0 THEN [Resting EXCEPT !.pc = "stopped"] ELSE Resting]
  /\ UNCHANGED sweepOnly

SweepEnd(s) ==
  /\ sweep[s].pc = "apply"
  /\ sweep[s].todo = {}
  /\ sweep' = [sweep EXCEPT ![s] =
       IF sweep[s].released < Batch \/ sweep[s].failures > 0
       THEN Resting
       ELSE [Resting EXCEPT !.pc = "again"]]
  /\ UNCHANGED sweepOnly

\* The process stops: what its sweeper had locked is rolled back.
SweepStop(s) ==
  /\ sweep[s].pc # "idle"
  /\ sweep' = [sweep EXCEPT ![s] = Resting]
  /\ tx' = [tx EXCEPT ![s] = Idle]
  /\ Fault
  /\ UNCHANGED <<now, row, facts, reserveVars>>

-----------------------------------------------------------------------------
Tick ==
  /\ now < MaxNow
  /\ now' = now + 1
  /\ UNCHANGED <<row, facts, reserveVars, tx, sweep, faults>>

Serve(c) ==
  \/ ClaimKey(c)
  \/ InsertRow(c)
  \/ CommitReserve(c)

Transact(t) == CommitTransition(t) \/ RollbackTransition(t)

Sweep(s) ==
  \/ SweepNow(s)
  \/ SweepScan(s)
  \/ \E r \in Calls : SweepRow(s, r)
  \/ SweepEnd(s)

Next ==
  \/ Tick
  \/ \E c \in Calls, k \in Keys, b \in Bodies : Reserve(c, k, b)
  \/ \E c \in Calls : Serve(c) \/ AbortReserve(c)
  \/ \E t \in Txs, r \in Calls : Confirm(t, r)
  \/ \E t \in Txs, r \in Calls, why \in Reasons : Release(t, r, why)
  \/ \E t \in Txs, r \in Calls, b \in Bookings : BookingCancelled(t, r, b)
  \/ \E t \in Txs \cup Sweepers : Transact(t)
  \/ \E s \in Sweepers : Sweep(s) \/ SweepStop(s)

Spec == Init /\ [][Next]_vars

\* The clock runs, the sweeper keeps ticking, a transaction that holds a lock
\* ends, and PostgreSQL grants a row lock in the order it was asked for, so a
\* sweeper that waits for a row gets it although others keep locking it.
Fairness ==
  /\ WF_vars(Tick)
  /\ \A t \in Txs \cup Sweepers : WF_vars(CommitTransition(t))
  /\ \A s \in Sweepers :
       /\ WF_vars(SweepNow(s))
       /\ WF_vars(SweepScan(s))
       /\ WF_vars(SweepEnd(s))
       /\ \A r \in Calls : SF_vars(SweepRow(s, r))

FairSpec == Spec /\ Fairness

-----------------------------------------------------------------------------
(* Properties. *)

TypeOK ==
  /\ now \in 0 .. MaxNow
  /\ row \in [Calls -> Row]
  /\ keys \in [Keys -> Calls \cup {NoCall}]
  /\ facts \in [Calls -> Seq(Fact)]
  /\ pc \in [Calls -> {"idle", "begun", "claimed", "inserted", "done"}]
  /\ req \in [Calls -> [key : Keys, body : Bodies] \cup {NoReq}]
  /\ \A c \in Calls : pc[c] # "idle" => req[c] # NoReq
  /\ began \in [Calls -> 0 .. MaxNow]
  /\ answer \in [Calls -> Answer]
  /\ tx \in [Txs \cup Sweepers -> Locked \cup {Idle}]
  /\ sweep \in [Sweepers -> [pc : {"idle", "scan", "apply", "again"},
                             asOf : 0 .. MaxNow, todo : SUBSET Calls,
                             released : Nat, failures : Nat]]
  /\ faults \in 0 .. MaxFaults

\* Two windows take the same instants of one resource; the instant a window ends
\* is the first one the next may take.
Instants(b) == b.from .. b.to - 1
Collide(a, b) == a.resource = b.resource /\ Instants(a) \cap Instants(b) # {}

\* The invariant of the system: at no instant is a resource reserved twice
\* (reservation_no_overlap, the waits of the inserts behind it, and row locks
\* that never bring a released row back).
NoOverlap ==
  \A r, q \in Calls :
    r # q /\ IsLive(r) /\ IsLive(q) => ~Collide(req[r].body, req[q].body)

\* Why NoOverlap survives every step.  A row exists only for a call that is
\* done; the row a lock holder read is the row of the table, and it is the only
\* holder; a row inserted but not committed overlaps neither a live row nor
\* another such row.
Isolation ==
  /\ \A r \in Calls : row[r].status # "none" => pc[r] = "done"
  /\ \A t \in Txs \cup Sweepers : tx[t].op # "idle" =>
       /\ tx[t].read = row[tx[t].id]
       /\ tx[t].read.status # "none"
  /\ \A t, u \in Txs \cup Sweepers :
       t # u /\ tx[t].op # "idle" /\ tx[u].op # "idle" => tx[t].id # tx[u].id
  /\ \A c, r \in Calls :
       pc[c] = "inserted" /\ IsLive(r) => ~Overlaps(req[r].body, req[c].body)
  /\ \A c, d \in Calls :
       c # d /\ pc[c] = "inserted" /\ pc[d] = "inserted" =>
         ~Overlaps(req[d].body, req[c].body)

\* Why OneReservationPerKey survives every step: a key and the row it stands
\* for point at each other, a key being claimed stands for nothing yet, and one
\* call at a time claims it.
KeysAreClaims ==
  /\ \A k \in Keys : keys[k] # NoCall =>
       row[keys[k]].status # "none" /\ req[keys[k]].key = k
  /\ \A r \in Calls : row[r].status # "none" => keys[req[r].key] = r
  /\ \A c \in Calls : pc[c] \in {"claimed", "inserted"} => Holder(c) = NoCall
  /\ \A c, d \in Calls :
       /\ c # d
       /\ pc[c] \in {"claimed", "inserted"}
       /\ pc[d] \in {"claimed", "inserted"}
       => req[c].key # req[d].key
  /\ \A c \in Calls : answer[c].kind = "stored" => pc[c] = "done"

\* A call answered with a reservation is answered with the one its key stands
\* for, asked for with the same body; no key ever makes a second reservation,
\* whatever was retried, raced or lost (Claim in front of the insert).
OneReservationPerKey ==
  /\ \A c \in Calls : answer[c].kind = "stored" =>
       LET r == answer[c].id IN
         row[r].status # "none" /\ req[r] = req[c] /\ keys[req[c].key] = r
  /\ \A r, q \in Calls :
       /\ row[r].status # "none" /\ row[q].status # "none"
       /\ req[r].key = req[q].key
       => r = q

\* What the outbox says of a reservation is what happened to it, each fact
\* once: created when it was stored, released, with the stored reason, when it
\* was released, and nothing for a confirm or for a transition that was a no-op.
FactsMatchRow ==
  \A r \in Calls : facts[r] =
    CASE row[r].status = "none" -> <<>>
      [] IsLive(r) -> <<Created>>
      [] row[r].status = "released" -> <<Created, Released(row[r].reason)>>

OnlyForeignConflicts ==
  \A c \in Calls :
    answer[c].kind = "none" /\ answer'[c].kind = "slot_unavailable" =>
      /\ \E r \in Calls : IsLive(r) /\ Collide(req[r].body, req[c].body)
      /\ \A r \in Conflicts(c) : req[r].key # req[c].key

\* A call is refused its slot only if somebody else has an instant of it, and
\* never because of a reservation made with its own key: back-to-back windows do
\* not compete, and a client that retries does not compete with itself.
NeverOwnConflict == [][OnlyForeignConflicts]_vars

ProperChanges ==
  \A r \in Calls : row'[r] # row[r] =>
    /\ row[r].status # "released"
    /\ row[r].status = "confirmed" =>
         \E t \in Txs :
           /\ tx[t].id = r
           /\ \/ tx[t].op = "release" /\ row'[r].reason = tx[t].reason
              \/ tx[t].op = "compensate" /\ tx[t].booking = req[r].body.booking
    /\ \A s \in Sweepers : tx[s].op = "sweep" /\ tx[s].id = r =>
         row[r].status = "held" /\ row[r].expires <= now

\* Released is the end of a reservation; a confirmed reservation never expires
\* and is freed only by a release, with its reason, or by a compensation of its
\* own booking; and the sweeper only ever frees a hold at its deadline or later:
\* not one that was paid for between its scan and its lock, and not one early
\* (ReleaseIfExpired under the row lock, with the database clock).
ReservationLifecycle == [][ProperChanges]_vars

\* The service seen from outside: keys, transactions, locks and sweepers hidden.
calendar ==
  [r \in Calls |->
    [status |-> row[r].status,
     what |-> IF row[r].status = "none" THEN NoReq ELSE req[r].body,
     reason |-> row[r].reason]]

Cal == INSTANCE Calendar WITH
  Ids <- Calls, Wishes <- Bodies, NoWish <- NoReq, slot <- calendar

\* Whatever the transactions interleave, each of them that has an effect has
\* the effect of one step of the calendar Availability promises.
ImplementsCalendar == Cal!Spec

\* A hold does not last: it is confirmed or released, by the sweeper if by
\* nobody else, and although sweeps fail and stop (the TTL).
HoldsEnd == \A r \in Calls : row[r].status = "held" ~> row[r].status # "held"

=============================================================================
