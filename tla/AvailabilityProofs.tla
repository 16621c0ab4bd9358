------------------------- MODULE AvailabilityProofs -------------------------
(***************************************************************************)
(* Theorems about Availability, for every set of calls, keys, bodies,      *)
(* transactions and sweepers, and every batch, deadline and bound.         *)
(***************************************************************************)
EXTENDS Availability, TLAPS, SequenceTheorems

Actors == Txs \cup Sweepers

-----------------------------------------------------------------------------
(* What each transition of a row returns. *)

\* Sequences of at most one fact.
LEMMA FactSeq ==
  /\ <<>> \in Seq(Fact)
  /\ <<Created>> \in Seq(Fact)
  /\ \A why \in Reasons : <<Released(why)>> \in Seq(Fact)
<1>1. Created \in Fact /\ \A why \in Reasons : Released(why) \in Fact
  BY DEF Fact
<1>2. QED
  BY <1>1

\* Confirm leaves a row of the table and stages nothing.
LEMMA ConfirmType ==
  ASSUME NEW r \in Row
  PROVE  ConfirmT(r).next \in Row /\ ConfirmT(r).emits = <<>>
<1>1. CASE r.status = "held"
  <2>1. [r EXCEPT !.status = "confirmed", !.expires = Never] \in Row
    BY DEF Row, Live
  <2>2. QED
    BY <1>1, <2>1 DEF ConfirmT
<1>2. CASE r.status # "held"
  BY <1>2 DEF ConfirmT, Keep
<1>3. QED
  BY <1>1, <1>2

\* Release leaves a row of the table and stages at most the release.
LEMMA ReleaseType ==
  ASSUME NEW r \in Row, NEW why \in Reasons
  PROVE  ReleaseT(r, why).next \in Row /\ ReleaseT(r, why).emits \in Seq(Fact)
<1>1. CASE r.status = "released"
  BY <1>1, FactSeq DEF ReleaseT, Keep
<1>2. CASE r.status # "released"
  <2>1. [status |-> "released", expires |-> Never, reason |-> why] \in Row
    BY DEF Row
  <2>2. QED
    BY <1>2, <2>1, FactSeq DEF ReleaseT
<1>3. QED
  BY <1>1, <1>2

\* A row lock holds one of the four operations and a row of the table.
LEMMA LockedType ==
  ASSUME TypeOK, NEW t \in Actors, tx[t].op # "idle"
  PROVE  /\ tx[t].op \in {"confirm", "release", "compensate", "sweep"}
         /\ tx[t].id \in Calls
         /\ tx[t].read \in Row
         /\ tx[t].op = "release" => tx[t].reason \in Reasons
<1>1. tx[t] \in Locked
  BY DEF TypeOK, Idle, Actors
<1>2. QED
  BY <1>1 DEF Locked

\* What Transition is, operation by operation.
LEMMA TransitionCases ==
  ASSUME NEW t
  PROVE  /\ tx[t].op = "confirm" => Transition(t) = ConfirmT(tx[t].read)
         /\ tx[t].op = "release" =>
              Transition(t) = ReleaseT(tx[t].read, tx[t].reason)
         /\ tx[t].op = "compensate" =>
              \/ Transition(t) = Keep(tx[t].read)
              \/ /\ tx[t].booking = req[tx[t].id].body.booking
                 /\ Transition(t) = ReleaseT(tx[t].read, "booking_cancelled")
         /\ tx[t].op = "sweep" =>
              \/ Transition(t) = Keep(tx[t].read)
              \/ /\ IsDue(tx[t].read, sweep[t].asOf)
                 /\ Transition(t) = ReleaseT(tx[t].read, "hold_expired")
<1>1. ASSUME tx[t].op = "confirm" PROVE Transition(t) = ConfirmT(tx[t].read)
  BY <1>1 DEF Transition
<1>2. ASSUME tx[t].op = "release"
      PROVE  Transition(t) = ReleaseT(tx[t].read, tx[t].reason)
  BY <1>2 DEF Transition
<1>3. ASSUME tx[t].op = "compensate"
      PROVE  Transition(t) = CompensateT(tx[t].read, tx[t].id, tx[t].booking)
  BY <1>3 DEF Transition
<1>4. ASSUME tx[t].op = "sweep"
      PROVE  Transition(t) = ReleaseIfExpiredT(tx[t].read, sweep[t].asOf)
  BY <1>4 DEF Transition
<1>5. QED
  BY <1>1, <1>2, <1>3, <1>4 DEF CompensateT, ReleaseIfExpiredT

\* Every transition leaves a row of the table, and stages facts of the contract.
LEMMA TransitionType ==
  ASSUME TypeOK, NEW t \in Actors, tx[t].op # "idle"
  PROVE  /\ Transition(t).next \in Row
         /\ Transition(t).emits \in Seq(Fact)
<1> DEFINE r == tx[t].read
<1>1. /\ r \in Row
      /\ tx[t].op \in {"confirm", "release", "compensate", "sweep"}
      /\ tx[t].op = "release" => tx[t].reason \in Reasons
  BY LockedType
<1>2. ConfirmT(r).next \in Row /\ ConfirmT(r).emits \in Seq(Fact)
  BY <1>1, ConfirmType, FactSeq
<1>3. Keep(r).next \in Row /\ Keep(r).emits \in Seq(Fact)
  BY <1>1, FactSeq DEF Keep
<1>4. \A why \in Reasons : /\ ReleaseT(r, why).next \in Row
                          /\ ReleaseT(r, why).emits \in Seq(Fact)
  BY <1>1, ReleaseType
<1>5. "booking_cancelled" \in Reasons /\ "hold_expired" \in Reasons
  BY DEF Reasons
<1>6. QED
  BY <1>1, <1>2, <1>3, <1>4, <1>5, TransitionCases

-----------------------------------------------------------------------------
(* Type correctness. *)

\* The empty service is well typed.
LEMMA InitType == Init => TypeOK
<1> SUFFICES ASSUME Init PROVE TypeOK
  OBVIOUS
<1>1. row \in [Calls -> Row]
  BY DEF Init, NoRow, Row, Never
<1>2. facts \in [Calls -> Seq(Fact)]
  BY FactSeq DEF Init
<1>3. answer \in [Calls -> Answer]
  BY DEF Init, Rejected, Answer
<1>4. sweep \in [Sweepers -> [pc : {"idle", "scan", "apply", "again"},
                             asOf : 0 .. MaxNow, todo : SUBSET Calls,
                             released : Nat, failures : Nat]]
  BY BoundsAssumption DEF Init, Resting
<1>5. QED
  BY <1>1, <1>2, <1>3, <1>4, BoundsAssumption DEF Init, TypeOK

\* A call that was made carries a request.
LEMMA RequestType ==
  ASSUME TypeOK, NEW c \in Calls, pc[c] # "idle"
  PROVE  req[c] \in [key : Keys, body : Bodies] /\ req[c].key \in Keys
<1>1. req[c] \in [key : Keys, body : Bodies]
  BY DEF TypeOK
<1>2. QED
  BY <1>1

\* A step of a reserve call keeps the types.
LEMMA ReserveTypeStep ==
  ASSUME TypeOK, NEW c \in Calls,
         \/ \E k \in Keys, b \in Bodies : Reserve(c, k, b)
         \/ Serve(c)
         \/ AbortReserve(c)
  PROVE  TypeOK'
<1> USE BoundsAssumption
<1>1. \A kind \in {"none", "stored", "invalid_window", "slot_unavailable",
                   "key_reuse", "error"} : Rejected(kind) \in Answer
  BY DEF Rejected, Answer
<1>2. \A r \in Calls : Stored(r) \in Answer
  BY DEF Stored, Answer
<1>3. CASE \E k \in Keys, b \in Bodies : Reserve(c, k, b)
  <2>1. PICK k \in Keys, b \in Bodies : Reserve(c, k, b)
    BY <1>3
  <2>2. [key |-> k, body |-> b] # NoReq
    BY NamesAssumption
  <2>3. req' \in [Calls -> [key : Keys, body : Bodies] \cup {NoReq}]
    BY <2>1 DEF Reserve, TypeOK
  <2>4. pc' \in [Calls -> {"idle", "begun", "claimed", "inserted", "done"}]
    BY <2>1 DEF Reserve, TypeOK
  <2>5. answer' \in [Calls -> Answer]
    BY <1>1, <2>1 DEF Reserve, TypeOK
  <2>6. \A d \in Calls : pc'[d] # "idle" => req'[d] # NoReq
    BY <2>1, <2>2 DEF Reserve, TypeOK
  <2>7. began' \in [Calls -> 0 .. MaxNow]
    BY <2>1 DEF Reserve, TypeOK
  <2>8. QED
    BY <2>1, <2>3, <2>4, <2>5, <2>6, <2>7 DEF Reserve, TypeOK
<1>4. CASE ClaimKey(c)
  <2>1. Holder(c) \in Calls \cup {NoCall}
    BY <1>4, RequestType DEF TypeOK, Holder, ClaimKey
  <2>2. pc' \in [Calls -> {"idle", "begun", "claimed", "inserted", "done"}]
    BY <1>4 DEF ClaimKey, Finish, TypeOK
  <2>3. answer' \in [Calls -> Answer]
    <3>1. CASE UNCHANGED answer
      BY <3>1 DEF TypeOK
    <3>2. CASE Finish(c, Stored(Holder(c))) /\ Holder(c) # NoCall
      BY <1>2, <2>1, <3>2 DEF Finish, TypeOK
    <3>3. CASE Finish(c, Rejected("key_reuse"))
      BY <1>1, <3>3 DEF Finish, TypeOK
    <3>4. QED
      BY <1>4, <3>1, <3>2, <3>3 DEF ClaimKey
  <2>4. \A d \in Calls : pc'[d] # "idle" => req'[d] # NoReq
    BY <1>4 DEF ClaimKey, Finish, TypeOK
  <2>5. QED
    BY <1>4, <2>2, <2>3, <2>4 DEF ClaimKey, TypeOK
<1>5. CASE InsertRow(c)
  <2>1. pc' \in [Calls -> {"idle", "begun", "claimed", "inserted", "done"}]
    BY <1>5 DEF InsertRow, Finish, TypeOK
  <2>2. answer' \in [Calls -> Answer]
    BY <1>1, <1>5 DEF InsertRow, Finish, TypeOK
  <2>3. \A d \in Calls : pc'[d] # "idle" => req'[d] # NoReq
    BY <1>5 DEF InsertRow, Finish, TypeOK
  <2>4. QED
    BY <1>5, <2>1, <2>2, <2>3 DEF InsertRow, TypeOK
<1>6. CASE CommitReserve(c)
  <2>1. Inserted(c) \in Row
    BY DEF Inserted, Row, Live, TypeOK
  <2>2. Created \in Fact
    BY DEF Fact
  <2>3. row' \in [Calls -> Row] /\ keys' \in [Keys -> Calls \cup {NoCall}]
    BY <1>6, <2>1 DEF CommitReserve, TypeOK
  <2>4. facts' \in [Calls -> Seq(Fact)]
    BY <1>6, <2>2 DEF CommitReserve, TypeOK
  <2>5. faults' \in 0 .. MaxFaults
    BY <1>6 DEF CommitReserve, Fault, TypeOK
  <2>6. answer' \in [Calls -> Answer]
    BY <1>1, <1>2, <1>6 DEF CommitReserve, Finish, TypeOK
  <2>7. /\ pc' \in [Calls -> {"idle", "begun", "claimed", "inserted", "done"}]
        /\ \A d \in Calls : pc'[d] # "idle" => req'[d] # NoReq
    BY <1>6 DEF CommitReserve, Finish, TypeOK
  <2>8. QED
    BY <1>6, <2>3, <2>4, <2>5, <2>6, <2>7 DEF CommitReserve, TypeOK
<1>7. CASE AbortReserve(c)
  BY <1>1, <1>7 DEF AbortReserve, Finish, Fault, TypeOK
<1>8. QED
  BY <1>3, <1>4, <1>5, <1>6, <1>7 DEF Serve

\* A step of a transition keeps the types.
LEMMA TransitionTypeStep ==
  ASSUME TypeOK, NEW t \in Actors,
         CommitTransition(t) \/ RollbackTransition(t)
  PROVE  TypeOK'
<1>1. tx' \in [Txs \cup Sweepers -> Locked \cup {Idle}]
  BY DEF TypeOK, CommitTransition, RollbackTransition, Actors
<1>2. ASSUME NEW releases \in Nat, NEW failures \in Nat,
             SweptRow(t, releases, failures)
      PROVE  sweep' \in [Sweepers -> [pc : {"idle", "scan", "apply", "again"},
                             asOf : 0 .. MaxNow, todo : SUBSET Calls,
                             released : Nat, failures : Nat]]
  <2>1. CASE t \in Sweepers
    <3>1. Tally(t, releases, failures)
            \in [pc : {"idle", "scan", "apply", "again"}, asOf : 0 .. MaxNow,
                todo : SUBSET Calls, released : Nat, failures : Nat]
      <4>1. sweep[t] \in [pc : {"idle", "scan", "apply", "again"},
                          asOf : 0 .. MaxNow, todo : SUBSET Calls,
                          released : Nat, failures : Nat]
        BY <2>1 DEF TypeOK
      <4>2. /\ sweep[t].todo \ {tx[t].id} \in SUBSET Calls
            /\ sweep[t].released + releases \in Nat
            /\ sweep[t].failures + failures \in Nat
        BY <4>1, <1>2
      <4>3. QED
        BY <4>1, <4>2 DEF Tally
    <3>2. sweep' = [sweep EXCEPT ![t] = Tally(t, releases, failures)]
      BY <1>2, <2>1 DEF SweptRow
    <3>3. QED
      BY <3>1, <3>2 DEF TypeOK
  <2>2. CASE t \notin Sweepers
    BY <1>2, <2>2 DEF TypeOK, SweptRow
  <2>3. QED
    BY <2>1, <2>2
<1>3. CASE CommitTransition(t)
  <2>1. tx[t].op # "idle" /\ tx[t].id \in Calls
    BY <1>3, LockedType DEF CommitTransition
  <2>2. Transition(t).next \in Row /\ Transition(t).emits \in Seq(Fact)
    BY <2>1, TransitionType
  <2>3. row' \in [Calls -> Row]
    BY <1>3, <2>2 DEF CommitTransition, TypeOK
  <2>4. facts' \in [Calls -> Seq(Fact)]
    BY <1>3, <2>1, <2>2 DEF CommitTransition, TypeOK
  <2>5. QED
    BY <1>1, <1>2, <1>3, <2>3, <2>4
       DEF CommitTransition, Changed, TypeOK, reserveVars
<1>4. CASE RollbackTransition(t)
  <2>1. SweptRow(t, 0, 1)
    BY <1>4 DEF RollbackTransition
  <2>2. faults' \in 0 .. MaxFaults
    BY <1>4, BoundsAssumption DEF RollbackTransition, Fault, TypeOK
  <2>3. UNCHANGED <<now, row, facts, reserveVars>>
    BY <1>4 DEF RollbackTransition
  <2>4. QED
    BY <1>1, <1>2, <2>1, <2>2, <2>3 DEF TypeOK, reserveVars
<1>5. QED
  BY <1>3, <1>4

\* Locking a row keeps the types.
LEMMA LockTypeStep ==
  ASSUME TypeOK, NEW t \in Actors, NEW r \in Calls,
         UNCHANGED sweep,
         \/ Confirm(t, r)
         \/ \E why \in Reasons : Release(t, r, why)
         \/ \E booking \in Bookings : BookingCancelled(t, r, booking)
         \/ LockRow(t, r, "sweep", "none", NoCall)
  PROVE  TypeOK'
<1>1. PICK op, why, booking :
        /\ LockRow(t, r, op, why, booking)
        /\ booking \in Bookings \cup {NoCall}
        /\ \/ op \in {"confirm", "compensate", "sweep"} /\ why = "none"
           \/ op = "release" /\ why \in Reasons /\ booking = NoCall
  BY DEF Confirm, Release, BookingCancelled
<1>2. row[r] \in Row
  BY DEF TypeOK
<1>3. [op |-> op, id |-> r, reason |-> why, booking |-> booking,
       read |-> row[r]] \in Locked
  BY <1>1, <1>2 DEF Locked
<1>4. QED
  BY <1>1, <1>3 DEF LockRow, TypeOK, Actors

\* A step of a sweeper keeps the types.
LEMMA SweepTypeStep ==
  ASSUME TypeOK, NEW s \in Sweepers, Sweep(s) \/ SweepStop(s)
  PROVE  TypeOK'
<1> DEFINE S == [pc : {"idle", "scan", "apply", "again"}, asOf : 0 .. MaxNow,
                 todo : SUBSET Calls, released : Nat, failures : Nat]
<1>1. Resting \in S
  BY BoundsAssumption DEF Resting
<1>2. sweep \in [Sweepers -> S] /\ sweep[s] \in S
  BY DEF TypeOK
<1>3. CASE SweepNow(s)
  <2>1. [Resting EXCEPT !.pc = "scan", !.asOf = now] \in S
    BY <1>1 DEF TypeOK
  <2>2. sweep' \in [Sweepers -> S]
    BY <1>2, <1>3, <2>1 DEF SweepNow
  <2>3. QED
    BY <1>3, <2>2 DEF SweepNow, TypeOK, sweepOnly, reserveVars
<1>4. CASE SweepScan(s)
  <2>1. PICK D \in SUBSET Calls :
          sweep' = [sweep EXCEPT ![s].pc = "apply", ![s].todo = D]
    BY <1>4 DEF SweepScan
  <2>2. sweep' = [sweep EXCEPT ![s] = [@ EXCEPT !.pc = "apply", !.todo = D]]
    BY <1>2, <2>1
  <2>3. [sweep[s] EXCEPT !.pc = "apply", !.todo = D] \in S
    BY <1>2
  <2>4. sweep' \in [Sweepers -> S]
    BY <1>2, <2>2, <2>3
  <2>5. QED
    BY <1>4, <2>4 DEF SweepScan, TypeOK, sweepOnly, reserveVars
<1>5. CASE \E r \in Calls : SweepRow(s, r)
  BY <1>5, LockTypeStep DEF SweepRow, Actors
<1>6. CASE SweepEnd(s)
  <2>1. [Resting EXCEPT !.pc = "again"] \in S
    BY <1>1
  <2>2. sweep' \in [Sweepers -> S]
    BY <1>1, <1>2, <1>6, <2>1 DEF SweepEnd
  <2>3. QED
    BY <1>6, <2>2 DEF SweepEnd, TypeOK, sweepOnly, reserveVars
<1>7. CASE SweepStop(s)
  <2>1. sweep' \in [Sweepers -> S]
    BY <1>1, <1>2, <1>7 DEF SweepStop
  <2>2. QED
    BY <1>7, <2>1, BoundsAssumption
       DEF SweepStop, Fault, TypeOK, reserveVars
<1>8. QED
  BY <1>3, <1>4, <1>5, <1>6, <1>7 DEF Sweep

\* Every step keeps the types.
LEMMA TypeStep == TypeOK /\ [Next]_vars => TypeOK'
<1> SUFFICES ASSUME TypeOK, [Next]_vars PROVE TypeOK'
  OBVIOUS
<1>1. CASE Tick
  BY <1>1, BoundsAssumption DEF Tick, TypeOK, reserveVars
<1>2. CASE \E c \in Calls, k \in Keys, b \in Bodies : Reserve(c, k, b)
  BY <1>2, ReserveTypeStep
<1>3. CASE \E c \in Calls : Serve(c) \/ AbortReserve(c)
  BY <1>3, ReserveTypeStep
<1>4. CASE \E t \in Txs, r \in Calls : Confirm(t, r)
  BY <1>4, LockTypeStep DEF Confirm, Actors
<1>5. CASE \E t \in Txs, r \in Calls, why \in Reasons : Release(t, r, why)
  BY <1>5, LockTypeStep DEF Release, Actors
<1>6. CASE \E t \in Txs, r \in Calls, b \in Bookings : BookingCancelled(t, r, b)
  BY <1>6, LockTypeStep DEF BookingCancelled, Actors
<1>7. CASE \E t \in Txs \cup Sweepers : Transact(t)
  BY <1>7, TransitionTypeStep DEF Transact, Actors
<1>8. CASE \E s \in Sweepers : Sweep(s) \/ SweepStop(s)
  BY <1>8, SweepTypeStep
<1>9. CASE UNCHANGED vars
  BY <1>9 DEF vars, TypeOK
<1>10. QED
  BY <1>1, <1>2, <1>3, <1>4, <1>5, <1>6, <1>7, <1>8, <1>9 DEF Next

\* Every state the service reaches is well typed.
THEOREM TypeCorrect == Spec => []TypeOK
<1>1. Init => TypeOK
  BY InitType
<1>2. TypeOK /\ [Next]_vars => TypeOK'
  BY TypeStep
<1>3. QED
  BY <1>1, <1>2, PTL DEF Spec

-----------------------------------------------------------------------------
(* No double booking. *)

\* The windows of live rows are apart.
RowsApart ==
  \A r, q \in Calls :
    r # q /\ IsLive(r) /\ IsLive(q) => ~Overlaps(req[r].body, req[q].body)

SafeInv == TypeOK /\ Isolation /\ RowsApart

\* Whether two windows overlap does not depend on which is named first.
LEMMA OverlapSymmetric ==
  ASSUME NEW a, NEW b, Overlaps(a, b)
  PROVE  Overlaps(b, a)
BY DEF Overlaps

\* No transition makes a reservation live that was not.
LEMMA TransitionNeverRevives ==
  ASSUME TypeOK, Isolation, NEW t \in Actors, tx[t].op # "idle"
  PROVE  /\ Transition(t).next.status # "none"
         /\ Transition(t).next.status \in Live => IsLive(tx[t].id)
<1> DEFINE r == tx[t].read
<1>1. /\ r \in Row
      /\ r = row[tx[t].id]
      /\ r.status # "none"
      /\ tx[t].op \in {"confirm", "release", "compensate", "sweep"}
  BY LockedType DEF Isolation, Actors
<1>2. r.status \in Live \/ r.status = "released"
  BY <1>1 DEF Row
<1>3. /\ ConfirmT(r).next.status # "none"
      /\ ConfirmT(r).next.status \in Live => r.status \in Live
  <2>1. CASE r.status = "held"
    BY <1>1, <2>1 DEF ConfirmT, Row, Live
  <2>2. CASE r.status # "held"
    BY <1>1, <2>2 DEF ConfirmT, Keep
  <2>3. QED
    BY <2>1, <2>2
<1>4. \A why : ReleaseT(r, why).next.status = "released"
  BY DEF ReleaseT, Keep
<1>5. /\ Keep(r).next.status # "none"
      /\ Keep(r).next.status \in Live => r.status \in Live
  BY <1>1 DEF Keep
<1>6. "released" \notin Live
  BY DEF Live
<1>7. QED
  BY <1>1, <1>3, <1>4, <1>5, <1>6, TransitionCases DEF IsLive

\* Reserve, claim and abort: no row, no lock and no inserted row changes.
LEMMA CallIsolationStep ==
  ASSUME SafeInv, NEW c \in Calls,
         \/ \E k \in Keys, b \in Bodies : Reserve(c, k, b)
         \/ ClaimKey(c)
         \/ AbortReserve(c)
  PROVE  Isolation' /\ RowsApart'
<1>1. /\ row' = row /\ tx' = tx
      /\ pc[c] # "done"
      /\ \A d \in Calls : pc'[d] = "inserted" => d # c /\ pc[d] = "inserted"
      /\ \A d \in Calls : d # c => pc'[d] = pc[d] /\ req'[d] = req[d]
  BY DEF SafeInv, TypeOK, Reserve, ClaimKey, AbortReserve, Finish
<1>2. row[c].status = "none" /\ ~IsLive(c)
  BY <1>1 DEF SafeInv, Isolation, IsLive, Live
<1>3. \A r \in Calls : IsLive(r)' <=> IsLive(r)
  BY <1>1 DEF IsLive
<1>4. QED
  BY <1>1, <1>2, <1>3 DEF SafeInv, Isolation, RowsApart

\* The insert checks exactly what keeps it apart from every other row.
LEMMA InsertIsolationStep ==
  ASSUME SafeInv, NEW c \in Calls, InsertRow(c)
  PROVE  Isolation' /\ RowsApart'
<1>1. row' = row /\ tx' = tx /\ req' = req /\ pc[c] = "claimed"
  BY DEF InsertRow
<1>2. \A d \in Calls : d # c => pc'[d] = pc[d]
  BY DEF SafeInv, TypeOK, InsertRow, Finish
<1>3. row[c].status = "none"
  BY <1>1 DEF SafeInv, Isolation
<1>4. \A r \in Calls : IsLive(r)' <=> IsLive(r)
  BY <1>1 DEF IsLive
<1>5. pc'[c] = "inserted" =>
        /\ \A r \in Calls : IsLive(r) => ~Overlaps(req[r].body, req[c].body)
        /\ \A d \in Calls \ {c} :
             pc[d] = "inserted" => ~Overlaps(req[d].body, req[c].body)
  BY DEF SafeInv, TypeOK, InsertRow, Finish, Conflicts, SlotBusy
<1>6. QED
  BY <1>1, <1>2, <1>3, <1>4, <1>5, OverlapSymmetric
     DEF SafeInv, Isolation, RowsApart

\* A commit makes live a row that was already kept apart.
LEMMA CommitIsolationStep ==
  ASSUME SafeInv, NEW c \in Calls, CommitReserve(c)
  PROVE  Isolation' /\ RowsApart'
<1>1. /\ tx' = tx /\ req' = req
      /\ pc[c] = "inserted" /\ pc'[c] = "done"
      /\ \A d \in Calls : d # c => pc'[d] = pc[d] /\ row'[d] = row[d]
  BY DEF SafeInv, TypeOK, CommitReserve, Finish
<1>2. row[c].status = "none"
  BY <1>1 DEF SafeInv, Isolation
<1>3. \A r \in Calls : IsLive(r)' => IsLive(r) \/ r = c
  BY <1>1 DEF IsLive
<1>4. \A t \in Txs \cup Sweepers : tx[t].op # "idle" =>
        tx[t].id # c /\ tx[t].id \in Calls
  BY <1>2, LockedType DEF SafeInv, Isolation, Actors
<1>5. QED
  BY <1>1, <1>2, <1>3, <1>4, OverlapSymmetric
     DEF SafeInv, Isolation, RowsApart

\* A transition writes from the latest row, which no one else has locked.
LEMMA TransitionIsolationStep ==
  ASSUME SafeInv, NEW t \in Actors,
         CommitTransition(t) \/ RollbackTransition(t)
  PROVE  Isolation' /\ RowsApart'
<1>1. /\ req' = req /\ pc' = pc
      /\ tx[t].op # "idle"
      /\ tx' = [tx EXCEPT ![t] = Idle]
  BY DEF CommitTransition, RollbackTransition, reserveVars
<1>2. tx[t].id \in Calls
  BY <1>1, LockedType DEF SafeInv
<1>3. \A u \in Txs \cup Sweepers : tx'[u].op # "idle" =>
        u # t /\ tx'[u] = tx[u] /\ tx[u].id # tx[t].id /\ tx[u].id \in Calls
  BY <1>1, LockedType DEF SafeInv, TypeOK, Isolation, Idle, Actors
<1>4. /\ \A r \in Calls : r # tx[t].id => row'[r] = row[r]
      /\ row'[tx[t].id].status # "none" => row[tx[t].id].status # "none"
      /\ row'[tx[t].id].status \in Live => IsLive(tx[t].id)
  <2>1. CASE CommitTransition(t)
    <3>1. /\ Transition(t).next.status # "none"
          /\ Transition(t).next.status \in Live => IsLive(tx[t].id)
      BY <1>1, TransitionNeverRevives DEF SafeInv
    <3>2. row[tx[t].id].status # "none"
      BY <1>1 DEF SafeInv, Isolation, Actors
    <3>3. row' = [row EXCEPT ![tx[t].id] = Transition(t).next]
      BY <2>1 DEF CommitTransition
    <3>4. QED
      BY <1>2, <3>1, <3>2, <3>3 DEF SafeInv, TypeOK
  <2>2. CASE RollbackTransition(t)
    BY <2>2 DEF RollbackTransition, IsLive
  <2>3. QED
    BY <2>1, <2>2
<1>5. \A r \in Calls : IsLive(r)' => IsLive(r)
  BY <1>4 DEF IsLive
<1>6. \A r \in Calls : row'[r].status # "none" => row[r].status # "none"
  BY <1>4
<1>7. QED
  BY <1>1, <1>3, <1>4, <1>5, <1>6 DEF SafeInv, Isolation, RowsApart

\* A lock is taken on a row no one else has locked, and reads it.
LEMMA LockIsolationStep ==
  ASSUME SafeInv, NEW t \in Actors, NEW r \in Calls, NEW op, NEW why,
         NEW booking, LockRow(t, r, op, why, booking)
  PROVE  Isolation' /\ RowsApart'
<1>1. /\ row' = row /\ req' = req /\ pc' = pc
      /\ row[r].status # "none"
      /\ tx'[t].id = r /\ tx'[t].read = row[r]
      /\ \A u \in Txs \cup Sweepers : u # t => tx'[u] = tx[u]
      /\ \A u \in Txs \cup Sweepers : tx[u].op # "idle" => tx[u].id # r
  BY DEF SafeInv, TypeOK, LockRow, Unlocked, Actors
<1>2. \A q \in Calls : IsLive(q)' <=> IsLive(q)
  BY <1>1 DEF IsLive
<1>3. QED
  BY <1>1, <1>2 DEF SafeInv, Isolation, RowsApart, Actors

\* The other steps of a sweeper, and the clock, touch no row and no lock but
\* the one a stopping sweeper gives up.
LEMMA SweepIsolationStep ==
  ASSUME SafeInv,
         \/ Tick
         \/ UNCHANGED vars
         \/ \E s \in Sweepers :
              SweepNow(s) \/ SweepScan(s) \/ SweepEnd(s) \/ SweepStop(s)
  PROVE  Isolation' /\ RowsApart'
<1>1. row' = row /\ req' = req /\ pc' = pc
  BY DEF Tick, vars, SweepNow, SweepScan, SweepEnd, SweepStop, sweepOnly,
         reserveVars
<1>2. tx' = tx \/ \E s \in Sweepers : tx' = [tx EXCEPT ![s] = Idle]
  BY DEF Tick, vars, SweepNow, SweepScan, SweepEnd, SweepStop, sweepOnly
<1>3. \A u \in Txs \cup Sweepers : tx'[u].op # "idle" => tx'[u] = tx[u]
  BY <1>2 DEF SafeInv, TypeOK, Idle
<1>4. \A q \in Calls : IsLive(q)' <=> IsLive(q)
  BY <1>1 DEF IsLive
<1>5. QED
  BY <1>1, <1>3, <1>4 DEF SafeInv, Isolation, RowsApart

\* The empty service holds no reservation, no lock and no uncommitted row.
LEMMA SafeInit == Init => SafeInv
<1> SUFFICES ASSUME Init PROVE SafeInv
  OBVIOUS
<1>1. TypeOK
  BY InitType
<1>2. \A r \in Calls : ~IsLive(r)
  BY DEF Init, NoRow, IsLive, Live
<1>3. QED
  BY <1>1, <1>2 DEF Init, SafeInv, Isolation, RowsApart, NoRow, Idle

\* No step, of a call, a transition, the sweeper or the clock, breaks isolation.
LEMMA SafeStep == SafeInv /\ [Next]_vars => SafeInv'
<1> SUFFICES ASSUME SafeInv, [Next]_vars PROVE SafeInv'
  OBVIOUS
<1>1. TypeOK'
  BY TypeStep DEF SafeInv
<1>2. CASE \E c \in Calls, k \in Keys, b \in Bodies : Reserve(c, k, b)
  BY <1>1, <1>2, CallIsolationStep DEF SafeInv
<1>3. CASE \E c \in Calls : Serve(c) \/ AbortReserve(c)
  BY <1>1, <1>3, CallIsolationStep, InsertIsolationStep, CommitIsolationStep
     DEF SafeInv, Serve
<1>4. CASE \/ \E t \in Txs, r \in Calls : Confirm(t, r)
           \/ \E t \in Txs, r \in Calls, why \in Reasons : Release(t, r, why)
           \/ \E t \in Txs, r \in Calls, b \in Bookings : BookingCancelled(t, r, b)
  BY <1>1, <1>4, LockIsolationStep
     DEF SafeInv, Confirm, Release, BookingCancelled, Actors
<1>5. CASE \E t \in Txs \cup Sweepers : Transact(t)
  BY <1>1, <1>5, TransitionIsolationStep DEF SafeInv, Transact, Actors
<1>6. CASE \E s \in Sweepers : Sweep(s) \/ SweepStop(s)
  BY <1>1, <1>6, SweepIsolationStep, LockIsolationStep
     DEF SafeInv, Sweep, SweepRow, Actors
<1>7. CASE Tick \/ UNCHANGED vars
  BY <1>1, <1>7, SweepIsolationStep DEF SafeInv
<1>8. QED
  BY <1>2, <1>3, <1>4, <1>5, <1>6, <1>7 DEF Next

\* A row is there for a call that was made.
LEMMA LiveRequest ==
  ASSUME TypeOK, Isolation, NEW r \in Calls, row[r].status # "none" \/ IsLive(r)
  PROVE  req[r].body \in Body
<1>1. row[r].status # "none"
  BY DEF IsLive, Live
<1>2. pc[r] = "done"
  BY <1>1 DEF Isolation
<1> QED
  BY <1>2, RequestType, BodiesAssumption

\* Windows that are apart have no instant in common.
LEMMA ApartMeansNoCollision ==
  ASSUME NEW a \in Body, NEW b \in Body, Collide(a, b)
  PROVE  Overlaps(a, b)
<1>1. PICK i \in Int : a.from <= i /\ i <= a.to - 1 /\ b.from <= i /\ i <= b.to - 1
  BY DEF Collide, Instants, Body
<1>2. a.from \in Int /\ a.to \in Int /\ b.from \in Int /\ b.to \in Int
  BY DEF Body
<1>3. a.from < b.to /\ b.from < a.to
  BY <1>1, <1>2
<1> QED
  BY <1>3 DEF Collide, Overlaps

\* No two customers ever hold one resource over overlapping time: whatever
\* requests, retries, confirms, releases and sweeps interleave, and wherever
\* they fail.
THEOREM NoDoubleBooking == Spec => []NoOverlap
<1>1. Init => SafeInv
  BY SafeInit
<1>2. SafeInv /\ [Next]_vars => SafeInv'
  BY SafeStep
<1>3. SafeInv => NoOverlap
  <2> SUFFICES ASSUME SafeInv, NEW r \in Calls, NEW q \in Calls,
                      r # q, IsLive(r), IsLive(q)
               PROVE  ~Collide(req[r].body, req[q].body)
    BY DEF NoOverlap
  <2>1. req[r].body \in Body /\ req[q].body \in Body
    BY LiveRequest DEF SafeInv
  <2>2. ~Overlaps(req[r].body, req[q].body)
    BY DEF SafeInv, RowsApart
  <2> QED
    BY <2>1, <2>2, ApartMeansNoCollision
<1>4. QED
  BY <1>1, <1>2, <1>3, PTL DEF Spec

\* Row locks, unique keys and the exclusion constraint keep every transaction
\* apart from those it could collide with, the committed and the others.
THEOREM IsolationHolds == Spec => []Isolation
<1>1. SafeInv => Isolation
  BY DEF SafeInv
<1>2. QED
  BY <1>1, SafeInit, SafeStep, PTL DEF Spec

-----------------------------------------------------------------------------
(* What a transition does. *)

EndedRow(why) == [status |-> "released", expires |-> Never, reason |-> why]
PaidRow(r) == [r EXCEPT !.status = "confirmed", !.expires = Never]

\* The three things a commit can be: nothing, a confirm of a hold, or a release
\* of a live row, for the reason its operation has.
LEMMA TransitionEffect ==
  ASSUME TypeOK, Isolation, NEW t \in Actors, tx[t].op # "idle"
  PROVE  \/ Transition(t) = Keep(tx[t].read)
         \/ /\ tx[t].op = "confirm"
            /\ tx[t].read.status = "held"
            /\ Transition(t) = [next |-> PaidRow(tx[t].read), emits |-> <<>>]
         \/ \E why \in Reasons :
              /\ tx[t].read.status \in Live
              /\ Transition(t) = [next |-> EndedRow(why), emits |-> <<Released(why)>>]
              /\ \/ tx[t].op = "release" /\ why = tx[t].reason
                 \/ /\ tx[t].op = "compensate"
                    /\ tx[t].booking = req[tx[t].id].body.booking
                 \/ tx[t].op = "sweep" /\ IsDue(tx[t].read, sweep[t].asOf)
<1> DEFINE r == tx[t].read
<1>1. /\ r \in Row
      /\ r.status # "none"
      /\ tx[t].op \in {"confirm", "release", "compensate", "sweep"}
      /\ tx[t].op = "release" => tx[t].reason \in Reasons
  BY LockedType DEF Isolation, Actors
<1>2. r.status \in Live \/ r.status = "released"
  BY <1>1 DEF Row
<1>3. \A why : \/ ReleaseT(r, why) = Keep(r)
               \/ /\ r.status \in Live
                  /\ ReleaseT(r, why) = [next |-> EndedRow(why),
                                         emits |-> <<Released(why)>>]
  BY <1>2 DEF ReleaseT, EndedRow
<1>4. \/ ConfirmT(r) = Keep(r)
      \/ /\ r.status = "held"
         /\ ConfirmT(r) = [next |-> PaidRow(r), emits |-> <<>>]
  BY DEF ConfirmT, PaidRow
<1>5. "booking_cancelled" \in Reasons /\ "hold_expired" \in Reasons
  BY DEF Reasons
<1> HIDE DEF r
<1>6. CASE tx[t].op = "confirm"
  BY <1>4, <1>6, TransitionCases DEF r
<1>7. CASE tx[t].op = "release"
  BY <1>1, <1>3, <1>7, TransitionCases DEF r
<1>8. CASE tx[t].op = "compensate"
  BY <1>3, <1>5, <1>8, TransitionCases DEF r
<1>9. CASE tx[t].op = "sweep"
  BY <1>3, <1>5, <1>9, TransitionCases DEF r
<1>10. QED
  BY <1>1, <1>6, <1>7, <1>8, <1>9

\* A commit writes that to its own row, and to no other.
LEMMA CommitEffect ==
  ASSUME SafeInv, NEW t \in Actors, CommitTransition(t)
  PROVE  /\ tx[t].op # "idle" /\ tx[t].id \in Calls
         /\ row[tx[t].id] = tx[t].read
         /\ row[tx[t].id].status # "none"
         /\ row[tx[t].id] \in Row
         /\ row' = [row EXCEPT ![tx[t].id] = Transition(t).next]
         /\ facts' = [facts EXCEPT ![tx[t].id] = @ \o Transition(t).emits]
         /\ UNCHANGED <<now, pc, req, began, answer, keys>>
BY LockedType DEF SafeInv, TypeOK, Isolation, CommitTransition, Actors, reserveVars

\* A reservation that is committed was not there before.
LEMMA CommitIsNew ==
  ASSUME SafeInv, NEW c \in Calls, CommitReserve(c)
  PROVE  /\ row[c].status = "none"
         /\ \A t \in Actors : tx[t].op # "idle" => tx[t].id # c
BY DEF SafeInv, Isolation, CommitReserve, Actors

\* Only the two commits write the table and the outbox.
LEMMA OnlyCommitsWrite ==
  ASSUME [Next]_vars
  PROVE  \/ \E c \in Calls : CommitReserve(c)
         \/ \E t \in Actors : CommitTransition(t)
         \/ UNCHANGED <<row, facts, keys>>
BY DEF Next, Reserve, Serve, ClaimKey, InsertRow, AbortReserve, Confirm, Release,
       BookingCancelled, LockRow, Transact, RollbackTransition, Sweep, SweepNow,
       SweepScan, SweepRow, SweepEnd, SweepStop, Tick, vars, sweepOnly,
       reserveVars, Actors

-----------------------------------------------------------------------------
(* The outbox tells what happened. *)

\* One fact after another.
LEMMA ThenAnother ==
  ASSUME NEW a, NEW b
  PROVE  <<a>> \o <<b>> = <<a, b>>
<1> DEFINE S == {a, b}
<1>1. <<a>> \in Seq(S) /\ <<b>> \in Seq(S) /\ <<a, b>> \in Seq(S)
  OBVIOUS
<1>2. Len(<<a>>) = 1 /\ Len(<<b>>) = 1 /\ Len(<<a, b>>) = 2
  OBVIOUS
<1>3. <<a>> \o <<b>> \in Seq(S) /\ Len(<<a>> \o <<b>>) = 2
  BY <1>1, <1>2, ConcatProperties
<1>4. \A i \in 1 .. 2 : (<<a>> \o <<b>>)[i] = <<a, b>>[i]
  <2>1. (<<a>> \o <<b>>)[1] = <<a>>[1]
    BY <1>1, <1>2, ConcatProperties
  <2>2. (<<a>> \o <<b>>)[2] = <<b>>[1]
    BY <1>1, <1>2, ConcatProperties
  <2>3. QED
    BY <2>1, <2>2
<1>5. QED
  BY <1>1, <1>2, <1>3, <1>4, SeqEqual

\* A commit of a reserve call states the creation.
LEMMA FactsCommitStep ==
  ASSUME SafeInv, FactsMatchRow, NEW c \in Calls, CommitReserve(c)
  PROVE  FactsMatchRow'
<1>1. /\ row' = [row EXCEPT ![c] = Inserted(c)]
      /\ facts' = [facts EXCEPT ![c] = Append(@, Created)]
  BY DEF CommitReserve
<1>2. row \in [Calls -> Row] /\ facts \in [Calls -> Seq(Fact)]
  BY DEF SafeInv, TypeOK
<1>3. facts[c] = <<>>
  BY CommitIsNew DEF FactsMatchRow, IsLive, Live
<1>4. row'[c].status = "held" /\ facts'[c] = <<Created>>
  BY <1>1, <1>2, <1>3 DEF Inserted
<1>5. \A r \in Calls : r # c => row'[r] = row[r] /\ facts'[r] = facts[r]
  BY <1>1, <1>2
<1>6. QED
  BY <1>4, <1>5 DEF FactsMatchRow, IsLive, Live

\* A commit of a transition states a release, if it is one.
LEMMA FactsTransitionStep ==
  ASSUME SafeInv, FactsMatchRow, NEW t \in Actors, CommitTransition(t)
  PROVE  FactsMatchRow'
<1> DEFINE q == tx[t].id
           n == Transition(t)
<1>1. /\ q \in Calls
      /\ row[q] = tx[t].read /\ row[q].status # "none" /\ row[q] \in Row
      /\ tx[t].op # "idle"
      /\ row' = [row EXCEPT ![q] = n.next]
      /\ facts' = [facts EXCEPT ![q] = @ \o n.emits]
  BY CommitEffect
<1>2. row \in [Calls -> Row] /\ facts \in [Calls -> Seq(Fact)]
  BY DEF SafeInv, TypeOK
<1>3. \A r \in Calls : r # q => row'[r] = row[r] /\ facts'[r] = facts[r]
  BY <1>1, <1>2
<1>4. row'[q] = n.next /\ facts'[q] = facts[q] \o n.emits
  BY <1>1, <1>2
<1>5. \/ n = Keep(row[q])
      \/ row[q].status = "held" /\ n = [next |-> PaidRow(row[q]), emits |-> <<>>]
      \/ \E why \in Reasons :
           /\ row[q].status \in Live
           /\ n = [next |-> EndedRow(why), emits |-> <<Released(why)>>]
  BY <1>1, TransitionEffect DEF SafeInv
<1> HIDE DEF n, q
<1>6. CASE n = Keep(row[q])
  <2>1. row'[q] = row[q] /\ facts'[q] = facts[q]
    BY <1>1, <1>2, <1>4, <1>6 DEF Keep
  <2>2. QED
    BY <1>3, <2>1 DEF FactsMatchRow, IsLive
<1>7. CASE row[q].status = "held" /\ n = [next |-> PaidRow(row[q]), emits |-> <<>>]
  <2>1. row'[q].status = "confirmed" /\ facts'[q] = facts[q]
    BY <1>1, <1>2, <1>4, <1>7 DEF PaidRow, Row
  <2>2. facts[q] = <<Created>>
    BY <1>1, <1>7 DEF FactsMatchRow, IsLive, Live
  <2>3. QED
    BY <1>3, <2>1, <2>2 DEF FactsMatchRow, IsLive, Live
<1>8. ASSUME NEW why \in Reasons, row[q].status \in Live,
             n = [next |-> EndedRow(why), emits |-> <<Released(why)>>]
      PROVE  FactsMatchRow'
  <2>1. facts[q] = <<Created>>
    BY <1>1, <1>8 DEF FactsMatchRow, IsLive, Live
  <2>2. /\ row'[q].status = "released" /\ row'[q].reason = why
        /\ facts'[q] = <<Created, Released(why)>>
    BY <1>4, <1>8, <2>1, ThenAnother DEF EndedRow
  <2>3. QED
    BY <1>3, <2>2 DEF FactsMatchRow, IsLive, Live
<1>9. QED
  BY <1>5, <1>6, <1>7, <1>8

\* The facts staged about a reservation are what happened to it, each once:
\* they are inserted in the transaction that makes them true.
THEOREM OutboxTellsTheTruth == Spec => []FactsMatchRow
<1>1. Init => FactsMatchRow
  BY DEF Init, FactsMatchRow, NoRow, IsLive, Live
<1>2. SafeInv /\ FactsMatchRow /\ [Next]_vars => FactsMatchRow'
  <2>1. ASSUME FactsMatchRow, UNCHANGED <<row, facts, keys>> PROVE FactsMatchRow'
    BY <2>1 DEF FactsMatchRow, IsLive
  <2>2. QED
    BY <2>1, OnlyCommitsWrite, FactsCommitStep, FactsTransitionStep
<1>3. QED
  BY <1>1, <1>2, SafeInit, SafeStep, PTL DEF Spec

-----------------------------------------------------------------------------
(* The life of a reservation. *)

\* Only sweepers sweep, sweepers do nothing else, and none reads the clock
\* ahead of time.
Roles ==
  /\ \A t \in Txs : tx[t].op # "sweep"
  /\ \A s \in Sweepers : tx[s].op \in {"idle", "sweep"}
  /\ \A s \in Sweepers : sweep[s].asOf <= now

\* A sweep has the time it read when it began, until it is over.
LEMMA SweepTimes ==
  ASSUME TypeOK, Roles, [Next]_vars, NEW s \in Sweepers
  PROVE  sweep'[s].asOf <= now'
<1> USE BoundsAssumption
<1>1. now \in 0 .. MaxNow /\ sweep[s].asOf \in 0 .. MaxNow /\ sweep[s].asOf <= now
  BY DEF TypeOK, Roles
<1>2. now' = now \/ now' = now + 1
  BY DEF Next, Reserve, Serve, ClaimKey, InsertRow, CommitReserve, AbortReserve,
         Confirm, Release, BookingCancelled, LockRow, Transact, CommitTransition,
         RollbackTransition, Sweep, SweepNow, SweepScan, SweepRow, SweepEnd,
         SweepStop, Tick, vars, sweepOnly
<1>3. sweep'[s].asOf \in {sweep[s].asOf, now, 0}
  <2>1. CASE UNCHANGED sweep
    BY <2>1
  <2>2. ASSUME NEW t \in Actors, NEW n, NEW m, SweptRow(t, n, m)
        PROVE  sweep'[s].asOf = sweep[s].asOf
    BY <2>2 DEF SweptRow, Tally, TypeOK
  <2>3. CASE \E t \in Txs \cup Sweepers : Transact(t)
    BY <2>2, <2>3 DEF Transact, CommitTransition, RollbackTransition, Actors
  <2>4. CASE \E q \in Sweepers : SweepNow(q) \/ SweepScan(q) \/ SweepEnd(q) \/ SweepStop(q)
    <3>1. PICK q \in Sweepers : SweepNow(q) \/ SweepScan(q) \/ SweepEnd(q) \/ SweepStop(q)
      BY <2>4
    <3>2. CASE SweepNow(q)
      BY <3>2 DEF SweepNow, Resting, TypeOK
    <3>3. CASE SweepScan(q)
      BY <3>3 DEF SweepScan, TypeOK
    <3>4. CASE SweepEnd(q) \/ SweepStop(q)
      <4>1. \E a : a.asOf = 0 /\ sweep' = [sweep EXCEPT ![q] = a]
        BY <3>4 DEF SweepEnd, SweepStop, Resting
      <4>2. QED
        BY <4>1 DEF TypeOK
    <3>5. QED
      BY <3>1, <3>2, <3>3, <3>4
  <2>5. QED
    BY <2>1, <2>3, <2>4
       DEF Next, Reserve, Serve, ClaimKey, InsertRow, CommitReserve, AbortReserve,
           Confirm, Release, BookingCancelled, Sweep, SweepRow, Tick, vars
<1>4. QED
  BY <1>1, <1>2, <1>3

\* A lock is taken by whom it is for, and given up.
LEMMA RolesStep ==
  ASSUME TypeOK, Roles, [Next]_vars
  PROVE  Roles'
<1>0. \A s \in Sweepers : sweep'[s].asOf <= now'
  BY SweepTimes
<1>1. CASE \/ \E t \in Txs, r \in Calls : Confirm(t, r)
           \/ \E t \in Txs, r \in Calls, why \in Reasons : Release(t, r, why)
           \/ \E t \in Txs, r \in Calls, b \in Bookings : BookingCancelled(t, r, b)
  <2>1. PICK t \in Txs, r \in Calls, op \in {"confirm", "release", "compensate"} :
          \E why, b : LockRow(t, r, op, why, b)
    BY <1>1 DEF Confirm, Release, BookingCancelled
  <2>2. \E a : a.op = op /\ tx' = [tx EXCEPT ![t] = a]
    BY <2>1 DEF LockRow
  <2>3. QED
    BY <2>2, <1>0, NamesAssumption DEF Roles, TypeOK
<1>2. CASE \E s \in Sweepers, r \in Calls : SweepRow(s, r)
  <2>1. PICK s \in Sweepers, r \in Calls : LockRow(s, r, "sweep", "none", NoCall)
    BY <1>2 DEF SweepRow
  <2>2. QED
    BY <2>1, <1>0, NamesAssumption DEF Roles, TypeOK, LockRow
<1>3. CASE UNCHANGED tx \/ \E t \in Actors : tx' = [tx EXCEPT ![t] = Idle]
  <2>1. tx \in [Actors -> Locked \cup {Idle}]
    BY DEF TypeOK, Actors
  <2>2. \A t \in Actors : tx'[t].op = tx[t].op \/ tx'[t].op = "idle"
    BY <1>3, <2>1 DEF Idle
  <2>3. QED
    BY <1>0, <2>2 DEF Roles, Actors
<1>4. CASE \E t \in Actors : Transact(t)
  BY <1>3, <1>4 DEF Transact, CommitTransition, RollbackTransition, Actors
<1>5. CASE \E s \in Sweepers : SweepNow(s) \/ SweepScan(s) \/ SweepEnd(s) \/ SweepStop(s)
  BY <1>3, <1>5 DEF SweepNow, SweepScan, SweepEnd, SweepStop, sweepOnly, Actors
<1>6. QED
  BY <1>1, <1>2, <1>3, <1>4, <1>5
     DEF Next, Reserve, Serve, ClaimKey, InsertRow, CommitReserve, AbortReserve,
         Sweep, Tick, vars, Actors

\* A commit changes a reservation the way its life allows.
LEMMA CommitIsProper ==
  ASSUME SafeInv, Roles, NEW t \in Actors, CommitTransition(t)
  PROVE  ProperChanges
<1> DEFINE q == tx[t].id
           n == Transition(t)
<1>1. /\ q \in Calls
      /\ row[q] = tx[t].read /\ row[q] \in Row
      /\ tx[t].op # "idle"
      /\ row' = [row EXCEPT ![q] = n.next]
  BY CommitEffect
<1>2. \A r \in Calls : row'[r] # row[r] => r = q
  BY <1>1 DEF SafeInv, TypeOK
<1>3. row'[q] = n.next
  BY <1>1 DEF SafeInv, TypeOK
<1>4. \A s \in Sweepers : tx[s].op = "sweep" /\ tx[s].id = q => s = t
  BY <1>1 DEF SafeInv, Isolation, Actors
<1>5. \/ n = Keep(row[q])
      \/ /\ tx[t].op = "confirm"
         /\ row[q].status = "held"
      \/ \E why \in Reasons :
           /\ row[q].status \in Live
           /\ n.next = EndedRow(why)
           /\ \/ tx[t].op = "release" /\ why = tx[t].reason
              \/ tx[t].op = "compensate" /\ tx[t].booking = req[q].body.booking
              \/ tx[t].op = "sweep" /\ IsDue(row[q], sweep[t].asOf)
  BY <1>1, TransitionEffect DEF SafeInv
<1>6. tx[t].op \in {"confirm", "release", "compensate"} => t \in Txs
  BY <1>1 DEF Roles, Actors
<1>7. tx[t].op = "sweep" /\ IsDue(row[q], sweep[t].asOf) =>
        row[q].status = "held" /\ row[q].expires <= now
  <2>1. SUFFICES ASSUME tx[t].op = "sweep", IsDue(row[q], sweep[t].asOf)
                 PROVE  row[q].status = "held" /\ row[q].expires <= now
    OBVIOUS
  <2>2. t \in Sweepers
    BY <2>1 DEF Roles, Actors
  <2>3. /\ sweep[t].asOf \in 0 .. MaxNow /\ now \in 0 .. MaxNow
        /\ sweep[t].asOf <= now
    BY <2>2 DEF Roles, SafeInv, TypeOK
  <2>4. row[q].expires \in Int
    BY <1>1 DEF Row, Never
  <2>5. QED
    BY <2>1, <2>3, <2>4, BoundsAssumption DEF IsDue
<1> HIDE DEF n, q
<1>8. CASE n = Keep(row[q])
  BY <1>2, <1>3, <1>8 DEF Keep, ProperChanges
<1>9. CASE tx[t].op = "confirm" /\ row[q].status = "held"
  BY <1>2, <1>4, <1>9 DEF ProperChanges
<1>10. ASSUME NEW why \in Reasons, row[q].status \in Live,
              n.next = EndedRow(why),
              \/ tx[t].op = "release" /\ why = tx[t].reason
              \/ tx[t].op = "compensate" /\ tx[t].booking = req[q].body.booking
              \/ tx[t].op = "sweep" /\ IsDue(row[q], sweep[t].asOf)
       PROVE  ProperChanges
  <2>1. row'[q].reason = why
    BY <1>3, <1>10 DEF EndedRow
  <2>2. row[q].status # "released"
    BY <1>10 DEF Live
  <2>3. row[q].status = "confirmed" =>
          /\ t \in Txs /\ tx[t].id = q
          /\ \/ tx[t].op = "release" /\ row'[q].reason = tx[t].reason
             \/ tx[t].op = "compensate" /\ tx[t].booking = req[q].body.booking
    BY <1>6, <1>7, <1>10, <2>1 DEF q
  <2>4. \A s \in Sweepers : tx[s].op = "sweep" /\ tx[s].id = q =>
          row[q].status = "held" /\ row[q].expires <= now
    BY <1>4, <1>7, <1>10
  <2>5. QED
    BY <1>2, <2>2, <2>3, <2>4 DEF ProperChanges
<1>11. QED
  BY <1>5, <1>8, <1>9, <1>10

\* So does the commit of a reserve call, whose row nobody has locked.
LEMMA ReserveIsProper ==
  ASSUME SafeInv, NEW c \in Calls, CommitReserve(c)
  PROVE  ProperChanges
<1>1. \A r \in Calls : row'[r] # row[r] => r = c
  BY DEF SafeInv, TypeOK, CommitReserve
<1>2. \A s \in Sweepers : tx[s].op = "sweep" => tx[s].id # c
  BY CommitIsNew DEF Actors
<1>3. QED
  BY <1>1, <1>2, CommitIsNew DEF ProperChanges

\* Released is final, what was paid for never expires, and the sweeper frees
\* only holds, at their deadline or later, whatever happened between its scan
\* and its row lock.
THEOREM LivesAreProper == Spec => ReservationLifecycle
<1>1. Init => Roles
  BY BoundsAssumption DEF Init, Roles, Idle, Resting
<1>2. SafeInv /\ Roles /\ [Next]_vars => Roles'
  BY RolesStep DEF SafeInv
<1>3. SafeInv /\ Roles /\ [Next]_vars => [ProperChanges]_vars
  <2>1. ASSUME UNCHANGED row PROVE ProperChanges
    BY <2>1 DEF ProperChanges
  <2>2. QED
    BY <2>1, OnlyCommitsWrite, CommitIsProper, ReserveIsProper
<1>4. QED
  BY <1>1, <1>2, <1>3, SafeInit, SafeStep, PTL DEF Spec, ReservationLifecycle

-----------------------------------------------------------------------------
(* One reservation per key. *)

KeyInv ==
  /\ SafeInv
  /\ KeysAreClaims
  /\ OneReservationPerKey
  /\ \A c \in Calls : answer[c].kind = "stored" => answer[c].id \in Calls

\* A step that leaves the calls alone, and makes no row and removes none.
LEMMA KeyFrameStep ==
  ASSUME KeyInv, SafeInv', UNCHANGED <<keys, pc, req, answer>>,
         \A r \in Calls : row'[r].status = "none" <=> row[r].status = "none"
  PROVE  KeyInv'
<1>1. KeysAreClaims'
  <2>1. \A k \in Keys : keys[k] # NoCall => keys[k] \in Calls
    BY DEF KeyInv, SafeInv, TypeOK
  <2>2. QED
    BY <2>1 DEF KeyInv, KeysAreClaims, Holder
<1>2. OneReservationPerKey'
  BY DEF KeyInv, OneReservationPerKey
<1>3. QED
  BY <1>1, <1>2 DEF KeyInv

\* Steps of others leave the calls alone.
LEMMA OthersKeyStep ==
  ASSUME KeyInv, SafeInv',
         \/ Tick \/ UNCHANGED vars
         \/ \E t \in Actors : CommitTransition(t) \/ RollbackTransition(t)
         \/ \E t \in Actors, r \in Calls : \E op, why, b : LockRow(t, r, op, why, b)
         \/ \E s \in Sweepers :
              SweepNow(s) \/ SweepScan(s) \/ SweepEnd(s) \/ SweepStop(s)
  PROVE  KeyInv'
<1>1. SafeInv
  BY DEF KeyInv
<1>2. CASE \E t \in Actors : CommitTransition(t)
  <2>1. PICK t \in Actors : CommitTransition(t)
    BY <1>2
  <2>2. /\ tx[t].op # "idle" /\ tx[t].id \in Calls
        /\ row[tx[t].id].status # "none"
        /\ row' = [row EXCEPT ![tx[t].id] = Transition(t).next]
        /\ UNCHANGED <<keys, pc, req, answer>>
    BY <1>1, <2>1, CommitEffect
  <2>3. Transition(t).next.status # "none"
    BY <1>1, <2>2, TransitionNeverRevives DEF SafeInv
  <2>4. \A r \in Calls : row'[r].status = "none" <=> row[r].status = "none"
    BY <1>1, <2>2, <2>3 DEF SafeInv, TypeOK
  <2>5. QED
    BY <2>2, <2>4, KeyFrameStep
<1>3. CASE ~ \E t \in Actors : CommitTransition(t)
  <2>1. UNCHANGED <<row, keys, pc, req, answer>>
    BY <1>3 DEF Tick, vars, RollbackTransition, LockRow, SweepNow, SweepScan,
                SweepEnd, SweepStop, sweepOnly, reserveVars
  <2>2. QED
    BY <2>1, KeyFrameStep
<1>4. QED
  BY <1>2, <1>3

\* A call begins: there is no row of it yet, and no key stands for it.
LEMMA ReserveKeyStep ==
  ASSUME KeyInv, SafeInv', NEW c \in Calls,
         \E k \in Keys, b \in Bodies : Reserve(c, k, b)
  PROVE  KeyInv'
<1>1. /\ row' = row /\ keys' = keys
      /\ pc[c] = "idle" /\ pc'[c] \in {"begun", "done"}
      /\ answer'[c].kind # "stored" \/ answer'[c] = answer[c]
      /\ \A d \in Calls \ {c} :
           pc'[d] = pc[d] /\ req'[d] = req[d] /\ answer'[d] = answer[d]
  BY DEF KeyInv, SafeInv, TypeOK, Reserve, Rejected
<1>2. row[c].status = "none"
  BY <1>1 DEF KeyInv, SafeInv, Isolation
<1>3. /\ \A k \in Keys : keys[k] # c
      /\ \A k \in Keys : keys[k] # NoCall => keys[k] \in Calls
      /\ NoCall # c
  BY <1>2, NamesAssumption DEF KeyInv, KeysAreClaims, SafeInv, TypeOK
<1>4. answer'[c].kind # "stored"
  BY <1>1 DEF KeyInv, KeysAreClaims
<1>5. KeysAreClaims'
  BY <1>1, <1>2, <1>3, <1>4 DEF KeyInv, KeysAreClaims, Holder
<1>6. OneReservationPerKey'
  BY <1>1, <1>2, <1>4 DEF KeyInv, OneReservationPerKey
<1>7. QED
  BY <1>1, <1>4, <1>5, <1>6 DEF KeyInv

\* A key that is claimed is one nobody else claims and that stands for nothing;
\* a key that is known is answered with what it stands for.
LEMMA ClaimKeyStep ==
  ASSUME KeyInv, SafeInv', NEW c \in Calls, ClaimKey(c)
  PROVE  KeyInv'
<1>1. /\ UNCHANGED <<row, keys, req>>
      /\ pc[c] = "begun"
      /\ \A d \in Calls \ {c} : pc'[d] = pc[d] /\ answer'[d] = answer[d]
      /\ ~KeyBusy(c)
  BY DEF KeyInv, SafeInv, TypeOK, ClaimKey, Finish
<1>2. \/ /\ Holder(c) = NoCall /\ pc'[c] = "claimed" /\ answer'[c] = answer[c]
      \/ /\ Holder(c) # NoCall /\ SameFingerprint(c)
         /\ pc'[c] = "done" /\ answer'[c] = Stored(Holder(c))
      \/ pc'[c] = "done" /\ answer'[c].kind = "key_reuse"
  BY DEF KeyInv, SafeInv, TypeOK, ClaimKey, Finish, Rejected
<1>3. /\ req[c] \in [key : Keys, body : Bodies] /\ req[c].key \in Keys
      /\ answer[c].kind # "stored"
  BY <1>1, RequestType DEF KeyInv, KeysAreClaims, SafeInv
<1>4. pc'[c] = "claimed" =>
        /\ Holder(c) = NoCall
        /\ \A d \in Calls \ {c} : pc[d] \in {"claimed", "inserted"} => req[d].key # req[c].key
  BY <1>1, <1>2 DEF KeyBusy
<1>5. answer'[c].kind = "stored" =>
        LET h == Holder(c) IN
          /\ answer'[c].id = h /\ h \in Calls
          /\ row[h].status # "none" /\ req[h] = req[c] /\ keys[req[c].key] = h
          /\ pc'[c] = "done"
  <2>1. SUFFICES ASSUME answer'[c].kind = "stored"
                 PROVE  LET h == Holder(c) IN
                          /\ answer'[c].id = h /\ h \in Calls
                          /\ row[h].status # "none" /\ req[h] = req[c]
                          /\ keys[req[c].key] = h
                          /\ pc'[c] = "done"
    OBVIOUS
  <2>2. /\ Holder(c) # NoCall /\ SameFingerprint(c)
        /\ pc'[c] = "done" /\ answer'[c] = Stored(Holder(c))
    BY <1>2, <1>3, <2>1
  <2>3. Holder(c) \in Calls
    BY <1>3, <2>2 DEF KeyInv, SafeInv, TypeOK, Holder
  <2>4. row[Holder(c)].status # "none" /\ req[Holder(c)].key = req[c].key
    BY <1>3, <2>2 DEF KeyInv, KeysAreClaims, Holder
  <2>5. req[Holder(c)] \in [key : Keys, body : Bodies]
    BY <2>3, <2>4, RequestType DEF KeyInv, SafeInv, Isolation
  <2>6. req[Holder(c)] = req[c]
    BY <1>3, <2>2, <2>4, <2>5 DEF SameFingerprint
  <2>7. QED
    BY <2>2, <2>3, <2>4, <2>6 DEF Stored, Holder
<1>6. KeysAreClaims'
  BY <1>1, <1>2, <1>4, <1>5 DEF KeyInv, KeysAreClaims, Holder
<1>7. OneReservationPerKey'
  BY <1>1, <1>5 DEF KeyInv, OneReservationPerKey
<1>8. QED
  BY <1>1, <1>5, <1>6, <1>7 DEF KeyInv

\* An insert, and a call that fails, change neither keys nor rows.
LEMMA InsertKeyStep ==
  ASSUME KeyInv, SafeInv', NEW c \in Calls, InsertRow(c) \/ AbortReserve(c)
  PROVE  KeyInv'
<1>1. /\ UNCHANGED <<row, keys, req>>
      /\ pc[c] \in {"begun", "claimed", "inserted"}
      /\ pc'[c] = "done" \/ (pc[c] = "claimed" /\ pc'[c] = "inserted")
      /\ answer'[c].kind # "stored" \/ answer'[c] = answer[c]
      /\ \A d \in Calls \ {c} : pc'[d] = pc[d] /\ answer'[d] = answer[d]
  BY DEF KeyInv, SafeInv, TypeOK, InsertRow, AbortReserve, Finish, Rejected
<1>2. answer[c].kind # "stored" /\ answer'[c].kind # "stored"
  BY <1>1 DEF KeyInv, KeysAreClaims
<1>3. KeysAreClaims'
  BY <1>1, <1>2 DEF KeyInv, KeysAreClaims, Holder
<1>4. OneReservationPerKey'
  BY <1>1, <1>2 DEF KeyInv, OneReservationPerKey
<1>5. QED
  BY <1>1, <1>2, <1>3, <1>4 DEF KeyInv

\* The row and the key become visible together.
LEMMA CommitKeyStep ==
  ASSUME KeyInv, SafeInv', NEW c \in Calls, CommitReserve(c)
  PROVE  KeyInv'
<1> DEFINE k == req[c].key
<1>1. /\ req' = req /\ pc[c] = "inserted" /\ pc'[c] = "done"
      /\ row'[c].status = "held"
      /\ answer'[c].kind = "stored" => answer'[c].id = c
      /\ \A d \in Calls \ {c} :
           pc'[d] = pc[d] /\ answer'[d] = answer[d] /\ row'[d] = row[d]
  BY DEF KeyInv, SafeInv, TypeOK, CommitReserve, Finish, Inserted, Stored, Rejected
<1>2. k \in Keys /\ keys[k] = NoCall
  BY <1>1, RequestType DEF KeyInv, SafeInv, KeysAreClaims, Holder
<1>3. keys' = [keys EXCEPT ![k] = c]
  BY DEF CommitReserve
<1>4. keys'[k] = c /\ \A j \in Keys \ {k} : keys'[j] = keys[j]
  BY <1>2, <1>3 DEF KeyInv, SafeInv, TypeOK
<1>5. /\ NoCall \notin Calls
      /\ row[c].status = "none"
      /\ \A j \in Keys : keys[j] # NoCall => keys[j] \in Calls
      /\ \A d \in Calls : pc[d] # "idle" => req[d].key \in Keys
  BY <1>1, NamesAssumption, RequestType DEF KeyInv, SafeInv, TypeOK, Isolation
<1> HIDE DEF k
<1>6. \A d \in Calls : row[d].status # "none" => req[d].key \in Keys /\ req[d].key # k
  BY <1>2, <1>5 DEF KeyInv, KeysAreClaims, SafeInv, Isolation
<1>7. req[c].key = k
  BY DEF k
<1>8. KeysAreClaims'
  <2>1. \A j \in Keys : keys'[j] # NoCall =>
          row'[keys'[j]].status # "none" /\ req[keys'[j]].key = j
    BY <1>1, <1>4, <1>5, <1>7 DEF KeyInv, KeysAreClaims
  <2>2. \A r \in Calls : row'[r].status # "none" => keys'[req[r].key] = r
    BY <1>1, <1>4, <1>6, <1>7 DEF KeyInv, KeysAreClaims
  <2>3. \A d \in Calls : pc'[d] \in {"claimed", "inserted"} => keys'[req[d].key] = NoCall
    BY <1>1, <1>4, <1>5, <1>7 DEF KeyInv, KeysAreClaims, Holder
  <2>4. QED
    BY <1>1, <2>1, <2>2, <2>3 DEF KeyInv, KeysAreClaims, Holder
<1>9. OneReservationPerKey'
  <2>1. \A d \in Calls : answer'[d].kind = "stored" =>
          /\ row'[answer'[d].id].status # "none"
          /\ req[answer'[d].id] = req[d]
          /\ keys'[req[d].key] = answer'[d].id
    <3>1. ASSUME NEW d \in Calls \ {c}, answer'[d].kind = "stored"
          PROVE  /\ row'[answer'[d].id].status # "none"
                 /\ req[answer'[d].id] = req[d]
                 /\ keys'[req[d].key] = answer'[d].id
      <4>1. answer[d].kind = "stored" /\ answer'[d] = answer[d] /\ answer[d].id \in Calls
        BY <1>1, <3>1 DEF KeyInv
      <4>2. /\ row[answer[d].id].status # "none"
            /\ req[answer[d].id] = req[d]
            /\ keys[req[d].key] = answer[d].id
        BY <4>1 DEF KeyInv, OneReservationPerKey
      <4>3. req[d].key \in Keys /\ req[d].key # k
        BY <1>6, <4>1, <4>2
      <4>4. QED
        BY <1>1, <1>4, <1>5, <4>1, <4>2, <4>3
    <3>2. QED
      BY <1>1, <1>4, <1>7, <3>1
  <2>2. \A r, q \in Calls :
          /\ row'[r].status # "none" /\ row'[q].status # "none"
          /\ req[r].key = req[q].key
          => r = q
    BY <1>1, <1>6, <1>7 DEF KeyInv, OneReservationPerKey
  <2>3. QED
    BY <1>1, <2>1, <2>2 DEF OneReservationPerKey
<1>10. QED
  BY <1>1, <1>8, <1>9 DEF KeyInv

\* At first no key is claimed and nothing answered.
LEMMA KeyInit == Init => KeyInv
<1> SUFFICES ASSUME Init PROVE KeyInv
  OBVIOUS
<1>1. /\ \A c \in Calls : row[c].status = "none" /\ answer[c].kind = "none" /\ pc[c] = "idle"
      /\ \A k \in Keys : keys[k] = NoCall
  BY DEF Init, NoRow, Rejected
<1>2. QED
  BY <1>1, SafeInit DEF KeyInv, KeysAreClaims, OneReservationPerKey

\* No step breaks it.
LEMMA KeyStep == KeyInv /\ [Next]_vars => KeyInv'
<1> SUFFICES ASSUME KeyInv, [Next]_vars PROVE KeyInv'
  OBVIOUS
<1>1. SafeInv'
  BY SafeStep DEF KeyInv
<1>2. CASE \E c \in Calls, k \in Keys, b \in Bodies : Reserve(c, k, b)
  BY <1>1, <1>2, ReserveKeyStep
<1>3. CASE \E c \in Calls : Serve(c) \/ AbortReserve(c)
  BY <1>1, <1>3, ClaimKeyStep, InsertKeyStep, CommitKeyStep DEF Serve
<1>4. CASE \/ \E t \in Txs, r \in Calls : Confirm(t, r)
           \/ \E t \in Txs, r \in Calls, why \in Reasons : Release(t, r, why)
           \/ \E t \in Txs, r \in Calls, b \in Bookings : BookingCancelled(t, r, b)
           \/ \E s \in Sweepers, r \in Calls : SweepRow(s, r)
  <2>1. \E t \in Actors, r \in Calls : \E op, why, b : LockRow(t, r, op, why, b)
    BY <1>4 DEF Confirm, Release, BookingCancelled, SweepRow, Actors
  <2>2. QED
    BY <1>1, <2>1, OthersKeyStep
<1>5. CASE \E t \in Txs \cup Sweepers : Transact(t)
  BY <1>1, <1>5, OthersKeyStep DEF Transact, Actors
<1>6. CASE \E s \in Sweepers : SweepNow(s) \/ SweepScan(s) \/ SweepEnd(s) \/ SweepStop(s)
  BY <1>1, <1>6, OthersKeyStep
<1>7. CASE Tick \/ UNCHANGED vars
  BY <1>1, <1>7, OthersKeyStep
<1>8. QED
  BY <1>2, <1>3, <1>4, <1>5, <1>6, <1>7 DEF Next, Sweep

\* A key makes one reservation, whatever was retried, raced or lost, and every
\* call that is answered with a reservation is answered with its key's.
THEOREM KeysMakeOneReservation == Spec => []OneReservationPerKey
<1>1. KeyInv => OneReservationPerKey
  BY DEF KeyInv
<1>2. QED
  BY <1>1, KeyInit, KeyStep, PTL DEF Spec

\* Only valid windows get past the validation.
WindowsValid ==
  \A c \in Calls :
    pc[c] \in {"begun", "claimed", "inserted"} \/ row[c].status # "none" =>
      ValidWindow(req[c].body)

\* No step of a call gives it another window or a row it did not insert.
LEMMA WindowsStep == SafeInv /\ WindowsValid /\ [Next]_vars => WindowsValid'
<1> SUFFICES ASSUME SafeInv, WindowsValid, [Next]_vars PROVE WindowsValid'
  OBVIOUS
<1>1. CASE \E c \in Calls, k \in Keys, b \in Bodies : Reserve(c, k, b)
  <2>1. PICK c \in Calls, k \in Keys, b \in Bodies : Reserve(c, k, b)
    BY <1>1
  <2>2. row' = row /\ pc[c] = "idle" /\ row[c].status = "none"
    BY <2>1 DEF Reserve, SafeInv, Isolation
  <2>3. \A d \in Calls : d # c => pc'[d] = pc[d] /\ req'[d] = req[d]
    BY <2>1 DEF Reserve, SafeInv, TypeOK
  <2>4. pc'[c] = "begun" => ValidWindow(b)
    BY <2>1 DEF Reserve, SafeInv, TypeOK
  <2>5. pc'[c] \in {"begun", "done"} /\ req'[c].body = b
    BY <2>1 DEF Reserve, SafeInv, TypeOK
  <2> QED
    BY <2>2, <2>3, <2>4, <2>5 DEF WindowsValid, ValidWindow
<1>2. CASE \E c \in Calls : Serve(c) \/ AbortReserve(c)
  <2>1. PICK c \in Calls : Serve(c) \/ AbortReserve(c)
    BY <1>2
  <2>2. req' = req /\ pc[c] \in {"begun", "claimed", "inserted"}
    BY <2>1 DEF Serve, ClaimKey, InsertRow, CommitReserve, AbortReserve
  <2>3. \A d \in Calls : d # c => pc'[d] = pc[d] /\ row'[d] = row[d]
    BY <2>1 DEF SafeInv, TypeOK, Serve, ClaimKey, InsertRow, CommitReserve,
       AbortReserve, Finish
  <2> QED
    BY <2>2, <2>3 DEF WindowsValid, ValidWindow
<1>3. CASE \E t \in Actors : CommitTransition(t)
  <2>1. PICK t \in Actors : CommitTransition(t)
    BY <1>3
  <2>2. /\ tx[t].op # "idle" /\ tx[t].id \in Calls
        /\ row[tx[t].id].status # "none"
        /\ row' = [row EXCEPT ![tx[t].id] = Transition(t).next]
        /\ UNCHANGED <<pc, req>>
    BY <2>1, CommitEffect
  <2>3. \A r \in Calls : row'[r].status # "none" => row[r].status # "none"
    BY <2>2 DEF SafeInv, TypeOK
  <2> QED
    BY <2>2, <2>3 DEF WindowsValid, ValidWindow
<1>4. CASE UNCHANGED <<row, pc, req>>
  BY <1>4 DEF WindowsValid, ValidWindow
<1> QED
  BY <1>1, <1>2, <1>3, <1>4
     DEF Next, Confirm, Release, BookingCancelled, LockRow, Transact,
         RollbackTransition, Sweep, SweepNow, SweepScan, SweepRow, SweepEnd,
         SweepStop, Tick, vars, sweepOnly, reserveVars, Actors

\* Two valid windows that overlap have an instant in common: the later start.
LEMMA OverlapIsACollision ==
  ASSUME NEW a \in Body, NEW b \in Body, ValidWindow(a), ValidWindow(b),
         Overlaps(a, b)
  PROVE  Collide(a, b)
<1>1. a.from \in Int /\ a.to \in Int /\ b.from \in Int /\ b.to \in Int
  BY DEF Body
<1>2. CASE a.from <= b.from
  <2>1. b.from \in Instants(a) \cap Instants(b)
    BY <1>1, <1>2 DEF Overlaps, ValidWindow, Instants
  <2> QED
    BY <2>1 DEF Collide, Overlaps
<1>3. CASE b.from <= a.from
  <2>1. a.from \in Instants(a) \cap Instants(b)
    BY <1>1, <1>3 DEF Overlaps, ValidWindow, Instants
  <2> QED
    BY <2>1 DEF Collide, Overlaps
<1> QED
  BY <1>1, <1>2, <1>3

\* A call that is refused its slot competes with reservations of other keys.
LEMMA RefusalsAreForeign ==
  ASSUME KeyInv, WindowsValid, [Next]_vars
  PROVE  OnlyForeignConflicts
<1> SUFFICES ASSUME NEW c \in Calls, answer[c].kind = "none",
                    answer'[c].kind = "slot_unavailable"
             PROVE  /\ \E r \in Calls :
                         IsLive(r) /\ Collide(req[r].body, req[c].body)
                    /\ \A r \in Conflicts(c) : req[r].key # req[c].key
  BY DEF OnlyForeignConflicts
<1>1. answer \in [Calls -> Answer] /\ answer' # answer
  BY DEF KeyInv, SafeInv, TypeOK
<1>2. \A k \in Keys, b \in Bodies : ~Reserve(c, k, b)
  BY <1>1 DEF Reserve, Rejected
<1>3. pc[c] = "claimed" /\ Conflicts(c) # {}
  <2>1. \A d \in Calls : \A a : Finish(d, a) /\ d # c => answer'[c] = answer[c]
    BY <1>1 DEF Finish
  <2>2. \A a : Finish(c, a) => answer'[c] = a
    BY <1>1 DEF Finish
  <2>3. PICK d \in Calls :
          \/ \E k \in Keys, b \in Bodies : Reserve(d, k, b)
          \/ Serve(d) \/ AbortReserve(d)
    BY <1>1 DEF Next, Confirm, Release, BookingCancelled, LockRow, Transact,
                CommitTransition, RollbackTransition, Sweep, SweepNow, SweepScan,
                SweepRow, SweepEnd, SweepStop, Tick, vars, sweepOnly, reserveVars
  <2>4. d = c
    <3>1. CASE \E k \in Keys, b \in Bodies : Reserve(d, k, b)
      BY <1>1, <3>1 DEF Reserve
    <3>2. CASE ClaimKey(d)
      BY <1>1, <2>1, <3>2 DEF ClaimKey
    <3>3. CASE InsertRow(d)
      BY <1>1, <2>1, <3>3 DEF InsertRow
    <3>4. CASE CommitReserve(d) \/ AbortReserve(d)
      BY <2>1, <3>4 DEF CommitReserve, AbortReserve
    <3>5. QED
      BY <2>3, <3>1, <3>2, <3>3, <3>4 DEF Serve
  <2>5. ~ClaimKey(c) /\ ~CommitReserve(c) /\ ~AbortReserve(c)
    BY <2>2 DEF ClaimKey, CommitReserve, AbortReserve, Stored, Rejected
  <2>6. InsertRow(c)
    BY <1>2, <2>3, <2>4, <2>5 DEF Serve
  <2>7. Conflicts(c) # {}
    BY <1>1, <2>6 DEF InsertRow
  <2>8. QED
    BY <2>6, <2>7 DEF InsertRow
<1>4. Holder(c) = NoCall
  BY <1>3 DEF KeyInv, KeysAreClaims
<1>5. ASSUME NEW r \in Conflicts(c)
      PROVE  /\ req[r].key # req[c].key
             /\ r \in Calls /\ IsLive(r) /\ Collide(req[r].body, req[c].body)
  <2>1. row[r].status # "none" /\ r \in Calls /\ IsLive(r)
    BY <1>5 DEF Conflicts, IsLive, Live
  <2>2. keys[req[r].key] = r /\ r # NoCall
    BY <2>1, NamesAssumption DEF KeyInv, KeysAreClaims
  <2>3. ValidWindow(req[r].body) /\ ValidWindow(req[c].body)
    BY <1>3, <2>1 DEF WindowsValid
  <2>4. req[r].body \in Body /\ req[c].body \in Body
    BY <1>3, <2>1, LiveRequest, RequestType, BodiesAssumption DEF KeyInv, SafeInv
  <2>5. Overlaps(req[r].body, req[c].body)
    BY <1>5 DEF Conflicts
  <2>6. Collide(req[r].body, req[c].body)
    BY <2>3, <2>4, <2>5, OverlapIsACollision
  <2> QED
    BY <1>4, <2>1, <2>2, <2>6 DEF Holder
<1> QED
  BY <1>3, <1>5

\* No call is told that it competes with a reservation made with its own key, or
\* with one that only touches its window.
THEOREM NoCallConflictsWithItself == Spec => NeverOwnConflict
<1>1. KeyInv /\ WindowsValid /\ [Next]_vars => [OnlyForeignConflicts]_vars
  BY RefusalsAreForeign
<1>2. Init => WindowsValid
  BY DEF Init, WindowsValid, NoRow
<1>3. KeyInv => SafeInv
  BY DEF KeyInv
<1>4. QED
  BY <1>1, <1>2, <1>3, KeyInit, KeyStep, WindowsStep, PTL DEF Spec, NeverOwnConflict

-----------------------------------------------------------------------------
(* The calendar. *)

\* Only Reserve writes what a call asks for, and that is no stored call's.
LEMMA RequestsStand ==
  ASSUME SafeInv, [Next]_vars, NEW r \in Calls, row[r].status # "none"
  PROVE  req'[r] = req[r]
<1>1. pc[r] = "done"
  BY DEF SafeInv, Isolation
<1>2. req \in [Calls -> [key : Keys, body : Bodies] \cup {NoReq}]
  BY DEF SafeInv, TypeOK
<1>3. CASE \E c \in Calls, k \in Keys, b \in Bodies : Reserve(c, k, b)
  BY <1>1, <1>2, <1>3 DEF Reserve
<1>4. CASE UNCHANGED req
  BY <1>4
<1>5. QED
  BY <1>3, <1>4
     DEF Next, Serve, ClaimKey, InsertRow, CommitReserve, AbortReserve, Confirm,
         Release, BookingCancelled, LockRow, Transact, CommitTransition,
         RollbackTransition, Sweep, SweepNow, SweepScan, SweepRow, SweepEnd,
         SweepStop, Tick, vars, sweepOnly, reserveVars

\* A step that writes no row leaves the calendar as it is.
LEMMA CalendarStands ==
  ASSUME SafeInv, [Next]_vars, UNCHANGED row
  PROVE  UNCHANGED calendar
<1>1. \A r \in Calls : row[r].status # "none" => req'[r] = req[r]
  BY RequestsStand
<1>2. QED
  BY <1>1 DEF calendar

\* A reserve that commits holds a window nobody has.
LEMMA CommitHolds ==
  ASSUME SafeInv, NEW c \in Calls, CommitReserve(c)
  PROVE  Cal!Hold(c, req[c].body) /\ req[c].body \in Bodies
<1>1. /\ row' = [row EXCEPT ![c] = Inserted(c)]
      /\ req' = req /\ pc[c] = "inserted"
  BY DEF CommitReserve
<1>2. row \in [Calls -> Row]
  BY DEF SafeInv, TypeOK
<1>3. row[c].status = "none"
  BY CommitIsNew
<1>4. \A q \in Calls : IsLive(q) => ~Overlaps(req[q].body, req[c].body)
  BY <1>1 DEF SafeInv, Isolation
<1>5. \A q \in Calls :
        /\ calendar[q].status = row[q].status
        /\ row[q].status # "none" => calendar[q].what = req[q].body
  BY DEF calendar
<1>6. \A q \in Calls : Cal!Taken(q) => ~Cal!Overlap(calendar[q].what, req[c].body)
  <2>1. SUFFICES ASSUME NEW q \in Calls, Cal!Taken(q)
                 PROVE  ~Cal!Overlap(calendar[q].what, req[c].body)
    OBVIOUS
  <2>2. IsLive(q) /\ row[q].status # "none"
    BY <1>5, <2>1 DEF Cal!Taken, IsLive, Live
  <2>3. QED
    BY <1>4, <1>5, <2>2 DEF Cal!Overlap, Overlaps
<1>7. calendar' = [calendar EXCEPT ![c] =
                     [status |-> "held", what |-> req[c].body, reason |-> "none"]]
  <2>1. row'[c].status = "held" /\ row'[c].reason = "none"
    BY <1>1, <1>2 DEF Inserted
  <2>2. \A q \in Calls : q # c => row'[q] = row[q]
    BY <1>1, <1>2
  <2>3. QED
    BY <1>1, <2>1, <2>2 DEF calendar
<1>8. req[c].body \in Bodies
  BY <1>1, RequestType DEF SafeInv
<1>9. QED
  BY <1>3, <1>5, <1>6, <1>7, <1>8 DEF Cal!Hold

\* A transition that commits confirms a hold, releases a reservation, or does
\* nothing.
LEMMA CommitConfirmsOrReleases ==
  ASSUME SafeInv, NEW t \in Actors, CommitTransition(t)
  PROVE  \/ UNCHANGED calendar
         \/ \E r \in Calls : \/ Cal!Confirm(r)
                             \/ \E why \in Reasons : Cal!Release(r, why)
<1> DEFINE q == tx[t].id
           n == Transition(t)
<1>1. /\ q \in Calls
      /\ row[q] = tx[t].read /\ row[q].status # "none" /\ row[q] \in Row
      /\ tx[t].op # "idle"
      /\ row' = [row EXCEPT ![q] = n.next]
      /\ req' = req
  BY CommitEffect
<1>2. /\ row \in [Calls -> Row]
      /\ row'[q] = n.next
      /\ \A r \in Calls : r # q => row'[r] = row[r]
  BY <1>1 DEF SafeInv, TypeOK
<1>3. \/ n = Keep(row[q])
      \/ row[q].status = "held" /\ n.next = PaidRow(row[q])
      \/ \E why \in Reasons : row[q].status \in Live /\ n.next = EndedRow(why)
  BY <1>1, TransitionEffect DEF SafeInv
<1>4. calendar[q].status = row[q].status
  BY <1>1 DEF calendar
<1> HIDE DEF n, q
<1>5. CASE n = Keep(row[q])
  <2>1. row'[q] = row[q]
    BY <1>2, <1>5 DEF Keep
  <2>2. QED
    BY <1>1, <1>2, <2>1 DEF calendar
<1>6. CASE row[q].status = "held" /\ n.next = PaidRow(row[q])
  <2>1. row'[q].status = "confirmed" /\ row'[q].reason = row[q].reason
    BY <1>1, <1>2, <1>6 DEF PaidRow, Row
  <2>2. calendar' = [calendar EXCEPT ![q].status = "confirmed"]
    BY <1>1, <1>2, <1>6, <2>1 DEF calendar
  <2>3. QED
    <3>1. Cal!Confirm(q)
      BY <1>4, <1>6, <2>2 DEF Cal!Confirm
    <3>2. QED
      BY <1>1, <3>1
<1>7. ASSUME NEW why \in Reasons, row[q].status \in Live, n.next = EndedRow(why)
      PROVE  Cal!Release(q, why)
  <2>1. row'[q].status = "released" /\ row'[q].reason = why
    BY <1>2, <1>7 DEF EndedRow
  <2>2. calendar' = [calendar EXCEPT ![q].status = "released", ![q].reason = why]
    BY <1>1, <1>2, <1>7, <2>1 DEF calendar, Live
  <2>3. QED
    BY <1>1, <1>4, <1>7, <2>2 DEF Cal!Release, Cal!Taken, Live
<1>8. QED
  BY <1>1, <1>3, <1>5, <1>6, <1>7

\* The detailed service implements the calendar: a reserve that commits is a
\* Hold, a transition that commits a Confirm, a Release or no step, and nothing
\* else is seen.
THEOREM AvailabilityIsACalendar == Spec => ImplementsCalendar
<1>1. Init => Cal!Init
  BY DEF Init, Cal!Init, Cal!Free, calendar, NoRow
<1>2. SafeInv /\ [Next]_vars => [Cal!Next]_calendar
  <2>1. SUFFICES ASSUME SafeInv, [Next]_vars PROVE [Cal!Next]_calendar
    OBVIOUS
  <2>2. CASE \E c \in Calls : CommitReserve(c)
    BY <2>1, <2>2, CommitHolds DEF Cal!Next
  <2>3. CASE \E t \in Actors : CommitTransition(t)
    <3>1. Cal!Reasons = Reasons
      BY DEF Cal!Reasons, Reasons
    <3>2. QED
      BY <2>1, <2>3, <3>1, CommitConfirmsOrReleases DEF Cal!Next
  <2>4. QED
    BY <2>1, <2>2, <2>3, OnlyCommitsWrite, CalendarStands
<1>3. QED
  BY <1>1, <1>2, SafeInit, SafeStep, PTL DEF Spec, ImplementsCalendar, Cal!Spec

=============================================================================
