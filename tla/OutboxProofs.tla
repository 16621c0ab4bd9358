---------------------------- MODULE OutboxProofs ----------------------------
(***************************************************************************)
(* Theorems about the outbox and its relays, for every number of events,   *)
(* every set of replicas, every batch size and number of attempts, and     *)
(* every number of faults and timeouts.                                    *)
(***************************************************************************)
EXTENDS Outbox, TLAPS, SequenceTheorems, FiniteSetTheorems

-----------------------------------------------------------------------------
(* A claim is read in order. *)

\* A set of events is finite.
LEMMA EventsFinite ==
  ASSUME NEW S \in SUBSET Events
  PROVE  IsFiniteSet(S) /\ Cardinality(S) \in Nat
<1>1. IsFiniteSet(Events)
  BY FS_Interval, OutboxAssumption DEF Events
<1>2. IsFiniteSet(S)
  BY <1>1, FS_Subset
<1> QED
  BY <1>2, FS_CardinalityType

\* The rank of an event in a set numbers the set in order, so there is a sequence
\* of its elements in order.
LEMMA OrderExists ==
  ASSUME NEW S \in SUBSET Events
  PROVE  \E s \in [1 .. Cardinality(S) -> S] :
           \A i, j \in 1 .. Cardinality(S) : i < j => s[i] < s[j]
<1> DEFINE n == Cardinality(S)
           UpTo(e) == {d \in S : d <= e}
           rank == [e \in S |-> Cardinality(UpTo(e))]
           s == [i \in 1 .. n |-> CHOOSE e \in S : rank[e] = i]
<1>1. IsFiniteSet(S) /\ n \in Nat
  BY EventsFinite
<1>2. \A e \in S : e \in Int
  BY OutboxAssumption DEF Events
<1>3. \A e \in S : IsFiniteSet(UpTo(e)) /\ Cardinality(UpTo(e)) \in 1 .. n
  <2> SUFFICES ASSUME NEW e \in S
               PROVE  IsFiniteSet(UpTo(e)) /\ Cardinality(UpTo(e)) \in 1 .. n
    OBVIOUS
  <2>1. UpTo(e) \in SUBSET S /\ e \in UpTo(e)
    BY <1>2
  <2>2. IsFiniteSet(UpTo(e)) /\ Cardinality(UpTo(e)) <= n
    BY <1>1, <2>1, FS_Subset
  <2>3. Cardinality(UpTo(e)) \in Nat
    BY <2>2, FS_CardinalityType
  <2>4. Cardinality(UpTo(e)) # 0
    BY <2>1, <2>2, FS_EmptySet
  <2> QED
    BY <1>1, <2>2, <2>3, <2>4
<1>4. \A d, e \in S : d < e => Cardinality(UpTo(d)) < Cardinality(UpTo(e))
  <2> SUFFICES ASSUME NEW d \in S, NEW e \in S, d < e
               PROVE  Cardinality(UpTo(d)) < Cardinality(UpTo(e))
    OBVIOUS
  <2>1. UpTo(d) \in SUBSET UpTo(e) /\ e \in UpTo(e) /\ e \notin UpTo(d)
    BY <1>2
  <2>2. Cardinality(UpTo(d)) <= Cardinality(UpTo(e))
        /\ Cardinality(UpTo(d)) # Cardinality(UpTo(e))
    BY <1>3, <2>1, FS_Subset
  <2> QED
    BY <1>3, <2>2
<1> HIDE DEF UpTo
<1>5. rank \in [S -> 1 .. n] /\ \A e \in S : rank[e] = Cardinality(UpTo(e))
  BY <1>3
<1> HIDE DEF rank
<1>6. \A d, e \in S : d < e => rank[d] < rank[e]
  BY <1>4, <1>5
<1>7. rank \in Injection(S, 1 .. n)
  <2>1. \A d, e \in S : rank[d] = rank[e] => d = e
    <3>1. \A d, e \in S : rank[d] \in Int /\ d \in Int
      BY <1>1, <1>2, <1>5
    <3> QED
      BY <1>6, <3>1
  <2> QED
    BY <1>5, <2>1 DEF Injection, IsInjective
<1>8. IsFiniteSet(1 .. n) /\ Cardinality(1 .. n) = n
  BY <1>1, FS_Interval
<1>9. rank \in Surjection(S, 1 .. n)
  BY <1>1, <1>7, <1>8, FS_Injection
<1>10. \A i \in 1 .. n : s[i] \in S /\ rank[s[i]] = i
  BY <1>9 DEF Surjection
<1>11. s \in [1 .. n -> S]
  BY <1>10
<1> HIDE DEF s
<1>12. \A i, j \in 1 .. n : i < j => s[i] < s[j]
  <2> SUFFICES ASSUME NEW i \in 1 .. n, NEW j \in 1 .. n, i < j
               PROVE  s[i] < s[j]
    OBVIOUS
  <2>1. s[i] \in S /\ s[j] \in S /\ rank[s[i]] = i /\ rank[s[j]] = j
    BY <1>10
  <2>2. s[j] < s[i] => j < i
    BY <1>6, <2>1
  <2>3. s[i] # s[j]
    BY <1>1, <2>1
  <2> QED
    BY <1>1, <1>2, <2>1, <2>2, <2>3
<1> QED
  BY <1>11, <1>12

Ascending(s) == \A i, j \in 1 .. Len(s) : i < j => s[i] < s[j]
Elements(s) == {s[i] : i \in 1 .. Len(s)}

\* A batch is a sequence of claimed events in order.
LEMMA InOrderAscends ==
  ASSUME NEW S \in SUBSET Events
  PROVE  /\ InOrder(S) \in Seq(S)
         /\ Ascending(InOrder(S))
<1> DEFINE s == InOrder(S)
<1>1. /\ s \in [1 .. Cardinality(S) -> S]
      /\ \A i, j \in 1 .. Cardinality(S) : i < j => s[i] < s[j]
  BY OrderExists DEF InOrder
<1>2. Cardinality(S) \in Nat
  BY EventsFinite
<1> HIDE DEF s
<1>3. s \in Seq(S) /\ Len(s) = Cardinality(S)
  BY <1>1, <1>2, IsASeq
<1>4. Ascending(s)
  BY <1>1, <1>3 DEF Ascending
<1> QED
  BY <1>3, <1>4 DEF s

\* The rest of an ordered batch is ordered, and the event in hand is not in it.
LEMMA AscendingTail ==
  ASSUME NEW s \in Seq(Events), s # <<>>, Ascending(s)
  PROVE  /\ Tail(s) \in Seq(Events)
         /\ Ascending(Tail(s))
         /\ Head(s) \in Events
         /\ Elements(Tail(s)) = Elements(s) \ {Head(s)}
         /\ Head(s) \in Elements(s)
<1>1. /\ Head(s) = s[1] /\ Head(s) \in Events
      /\ Tail(s) \in Seq(Events)
      /\ Len(s) \in Nat \ {0} /\ Len(Tail(s)) = Len(s) - 1
      /\ \A i \in 1 .. Len(Tail(s)) : Tail(s)[i] = s[i + 1]
  BY HeadTailProperties, LenProperties, EmptySeq
<1>2. \A i \in 1 .. Len(s) : s[i] \in Int
  BY ElementOfSeq, OutboxAssumption DEF Events
<1>3. Ascending(Tail(s))
  BY <1>1 DEF Ascending
<1>4. Elements(Tail(s)) \subseteq Elements(s) \ {Head(s)}
  <2> SUFFICES ASSUME NEW i \in 1 .. Len(Tail(s))
               PROVE  /\ Tail(s)[i] \in Elements(s)
                      /\ Tail(s)[i] # Head(s)
    BY DEF Elements
  <2>1. i + 1 \in 1 .. Len(s) /\ 1 \in 1 .. Len(s) /\ 1 < i + 1
    BY <1>1
  <2>2. s[1] < s[i + 1]
    BY <2>1 DEF Ascending
  <2> QED
    BY <1>1, <1>2, <2>1, <2>2 DEF Elements
<1>5. Elements(s) \ {Head(s)} \subseteq Elements(Tail(s))
  <2> SUFFICES ASSUME NEW i \in 1 .. Len(s), s[i] # Head(s)
               PROVE  s[i] \in Elements(Tail(s))
    BY DEF Elements
  <2>1. i - 1 \in 1 .. Len(Tail(s)) /\ Tail(s)[i - 1] = s[i]
    BY <1>1
  <2> QED
    BY <2>1 DEF Elements
<1>6. Head(s) \in Elements(s)
  BY <1>1 DEF Elements
<1> QED
  BY <1>1, <1>3, <1>4, <1>5, <1>6

-----------------------------------------------------------------------------
(* Counting what is under way in the channels. *)

Slot == [of : Relays, at : Nat]
Place(p, i) == [of |-> p, at |-> i]

\* Where a value stands in the channels qs.
Places(qs, x) ==
  {q \in Slot : q.at \in 1 .. Len(qs[q.of]) /\ qs[q.of][q.at] = x}

\* A set that has grown by at most k elements (or lost -k) since it was S.
Grows(S, T, k) == IsFiniteSet(T) /\ Cardinality(T) <= Cardinality(S) + k

\* A slot is a position of a channel, and each position is one slot.
LEMMA Slots ==
  /\ \A q \in Slot : q.of \in Relays /\ q.at \in Nat /\ q = Place(q.of, q.at)
  /\ \A p \in Relays : \A i \in Nat :
       /\ Place(p, i) \in Slot /\ Place(p, i).of = p /\ Place(p, i).at = i
BY DEF Place, Slot

\* What a channel takes up adds one place to the values that are equal to it.
LEMMA PlacesAppend ==
  ASSUME NEW T, NEW qs \in [Relays -> Seq(T)], NEW p \in Relays,
         NEW x, NEW y \in T, IsFiniteSet(Places(qs, x)),
         NEW rs, rs[p] = Append(qs[p], y),
         \A r \in Relays : r # p => rs[r] = qs[r]
  PROVE  /\ x = y => Grows(Places(qs, x), Places(rs, x), 1)
         /\ x # y => Grows(Places(qs, x), Places(rs, x), 0)
<1>0. /\ \A r \in Relays : \A i \in Nat :
           Place(r, i) \in Places(qs, x) <=> i \in 1 .. Len(qs[r]) /\ qs[r][i] = x
      /\ \A r \in Relays : \A i \in Nat :
           Place(r, i) \in Places(rs, x) <=> i \in 1 .. Len(rs[r]) /\ rs[r][i] = x
  BY DEF Places, Place, Slot
<1> DEFINE n == Len(qs[p])
<1>1. qs[p] \in Seq(T) /\ n \in Nat
  BY LenProperties
<1>2. /\ rs[p] = Append(qs[p], y)
      /\ \A r \in Relays : r # p => rs[r] = qs[r]
  OBVIOUS
<1>3. /\ Len(rs[p]) = n + 1
      /\ rs[p][n + 1] = y
      /\ \A i \in 1 .. n : rs[p][i] = qs[p][i]
  BY <1>1, <1>2, AppendProperties
<1>4. Place(p, n + 1) \notin Places(qs, x)
  BY <1>1, <1>0
<1>5. Places(rs, x) = IF x = y THEN Places(qs, x) \cup {Place(p, n + 1)}
                               ELSE Places(qs, x)
  <2>1. ASSUME NEW r \in Relays, NEW i \in Nat
        PROVE  Place(r, i) \in Places(rs, x) <=>
                 Place(r, i) \in Places(qs, x) \/ (r = p /\ i = n + 1 /\ x = y)
    <3>1. CASE r # p
      <4>1. rs[r] = qs[r]
        BY <1>2, <3>1
      <4> QED
        BY <1>0, <3>1, <4>1
    <3>2. CASE r = p /\ i \in 1 .. n
      <4>1. i \in 1 .. n + 1 /\ i # n + 1 /\ rs[p][i] = qs[p][i] /\ Len(rs[p]) = n + 1
        BY <1>1, <1>3, <3>2
      <4> QED
        BY <1>0, <3>2, <4>1
    <3>3. CASE r = p /\ i \notin 1 .. n
      <4>1. i \in 1 .. Len(rs[p]) <=> i = n + 1
        BY <1>1, <1>3, <3>3
      <4>2. Place(p, i) \in Places(rs, x) <=> i = n + 1 /\ rs[p][n + 1] = x
        BY <1>0, <4>1
      <4>3. Place(p, i) \notin Places(qs, x)
        BY <1>0, <3>3
      <4> QED
        BY <1>3, <3>3, <4>2, <4>3
    <3> QED
      BY <3>1, <3>2, <3>3
  <2>2. /\ Places(rs, x) \subseteq Slot
        /\ Places(qs, x) \subseteq Slot
        /\ Place(p, n + 1) \in Slot
    BY <1>1, Slots DEF Places
  <2>3. \A q \in Slot :
          q \in Places(rs, x) <=> q \in Places(qs, x) \/ (q = Place(p, n + 1) /\ x = y)
    <3> SUFFICES ASSUME NEW q \in Slot
                 PROVE  q \in Places(rs, x) <=>
                          q \in Places(qs, x) \/ (q = Place(p, n + 1) /\ x = y)
      OBVIOUS
    <3>1. q.of \in Relays /\ q.at \in Nat /\ q = Place(q.of, q.at)
      BY Slots
    <3>2. q \in Places(rs, x) <=>
            q \in Places(qs, x) \/ (q.of = p /\ q.at = n + 1 /\ x = y)
      BY <2>1, <3>1
    <3>3. q = Place(p, n + 1) <=> q.of = p /\ q.at = n + 1
      BY <1>1, <3>1, Slots
    <3> QED
      BY <3>2, <3>3
  <2> QED
    BY <2>2, <2>3
<1>6. Cardinality(Places(qs, x)) \in Nat
  BY FS_CardinalityType
<1>7. CASE x = y
  <2>1. Places(rs, x) = Places(qs, x) \cup {Place(p, n + 1)}
    BY <1>5, <1>7
  <2>2. /\ IsFiniteSet(Places(rs, x))
        /\ Cardinality(Places(rs, x)) = Cardinality(Places(qs, x)) + 1
    BY <1>4, <2>1, FS_AddElement
  <2> QED
    BY <1>6, <1>7, <2>2 DEF Grows
<1>8. CASE x # y
  BY <1>5, <1>6, <1>8 DEF Grows
<1> QED
  BY <1>7, <1>8

\* What a channel gives up takes one place from the values equal to it.
LEMMA PlacesTail ==
  ASSUME NEW T, NEW qs \in [Relays -> Seq(T)], NEW p \in Relays, qs[p] # <<>>,
         NEW x, IsFiniteSet(Places(qs, x)),
         NEW rs, rs = [qs EXCEPT ![p] = Tail(@)]
  PROVE  /\ x = Head(qs[p]) => Grows(Places(qs, x), Places(rs, x), -1)
         /\ x # Head(qs[p]) => Grows(Places(qs, x), Places(rs, x), 0)
<1>0. /\ \A r \in Relays : \A i \in Nat :
           Place(r, i) \in Places(qs, x) <=> i \in 1 .. Len(qs[r]) /\ qs[r][i] = x
      /\ \A r \in Relays : \A i \in Nat :
           Place(r, i) \in Places(rs, x) <=> i \in 1 .. Len(rs[r]) /\ rs[r][i] = x
  BY DEF Places, Place, Slot
<1> DEFINE n == Len(qs[p])
           S == Places(qs, x) \ {Place(p, 1)}
           shift == [q \in S |-> IF q.of = p THEN Place(p, q.at - 1) ELSE q]
<1>1. qs[p] \in Seq(T) /\ n \in Nat \ {0} /\ Head(qs[p]) = qs[p][1]
  BY LenProperties, HeadTailProperties, EmptySeq
<1>2. /\ rs[p] = Tail(qs[p])
      /\ \A r \in Relays : r # p => rs[r] = qs[r]
  OBVIOUS
<1>3. /\ Len(rs[p]) = n - 1
      /\ \A i \in 1 .. n - 1 : rs[p][i] = qs[p][i + 1]
  BY <1>1, <1>2, HeadTailProperties
<1>4. IsFiniteSet(S) /\ Cardinality(S) =
        Cardinality(Places(qs, x)) - IF x = Head(qs[p]) THEN 1 ELSE 0
  <2>1. Place(p, 1) \in Places(qs, x) <=> x = Head(qs[p])
    BY <1>1, <1>0
  <2>2. Cardinality(Places(qs, x)) \in Nat
    BY FS_CardinalityType
  <2> QED
    BY <2>1, <2>2, FS_RemoveElement
<1>5. \A q \in S : shift[q] \in Places(rs, x)
  <2> SUFFICES ASSUME NEW q \in S
               PROVE  shift[q] \in Places(rs, x)
    OBVIOUS
  <2>0. PICK r \in Relays, i \in Nat : q = Place(r, i) /\ q.of = r /\ q.at = i
    BY Slots DEF Places
  <2>1. /\ i \in 1 .. Len(qs[r]) /\ qs[r][i] = x
        /\ r = p => i # 1
    BY <1>0, <2>0
  <2>2. CASE r # p
    <3>1. shift[q] = Place(r, i) /\ rs[r] = qs[r]
      BY <1>2, <2>0, <2>2
    <3> QED
      BY <1>0, <2>1, <3>1
  <2>3. CASE r = p
    <3>1. i - 1 \in Nat /\ i - 1 \in 1 .. n - 1 /\ (i - 1) + 1 = i
      BY <1>1, <2>1, <2>3
    <3>2. shift[q] = Place(p, i - 1)
      BY <2>0, <2>3
    <3>3. i - 1 \in 1 .. Len(rs[p])
      BY <1>3, <3>1
    <3>4. rs[p][i - 1] = qs[p][(i - 1) + 1]
      BY <1>3, <3>1
    <3>5. rs[p][i - 1] = x
      BY <2>1, <2>3, <3>1, <3>4
    <3>6. Place(p, i - 1) \in Places(rs, x)
      BY <1>0, <3>1, <3>3, <3>5
    <3> QED
      BY <3>2, <3>6
  <2> QED
    BY <2>2, <2>3
<1>6. \A t \in Places(rs, x) : \E q \in S : shift[q] = t
  <2> SUFFICES ASSUME NEW t \in Places(rs, x)
               PROVE  \E q \in S : shift[q] = t
    OBVIOUS
  <2>0. PICK r \in Relays, i \in Nat : t = Place(r, i)
    BY Slots DEF Places
  <2>1. i \in 1 .. Len(rs[r]) /\ rs[r][i] = x
    BY <1>0, <2>0
  <2>2. CASE r # p
    <3>1. Place(r, i) \in Places(qs, x)
      BY <1>2, <2>1, <2>2, <1>0
    <3>2. Place(r, i).of = r /\ Place(p, 1).of = p
      BY DEF Place
    <3>3. Place(r, i) \in S
      BY <2>2, <3>1, <3>2
    <3>4. shift[Place(r, i)] = Place(r, i)
      BY <2>2, <3>2, <3>3
    <3> QED
      BY <2>0, <3>3, <3>4
  <2>3. CASE r = p
    <3>1. i + 1 \in Nat /\ i + 1 \in 1 .. n /\ qs[p][i + 1] = x /\ i + 1 # 1
      BY <1>1, <1>3, <2>1, <2>3
    <3>2. Place(p, i + 1) \in S
      BY <3>1, <1>0, Slots
    <3>3. shift[Place(p, i + 1)] = Place(p, i)
      BY <3>1, <3>2, Slots
    <3> QED
      BY <2>0, <2>3, <3>2, <3>3
  <2> QED
    BY <2>2, <2>3
<1> HIDE DEF S
<1>7. shift \in Surjection(S, Places(rs, x))
  BY <1>5, <1>6 DEF Surjection
<1>8. IsFiniteSet(Places(rs, x)) /\ Cardinality(Places(rs, x)) <= Cardinality(S)
  BY <1>4, <1>7, FS_Surjection
<1>9. Cardinality(Places(qs, x)) \in Nat /\ Cardinality(Places(rs, x)) \in Nat
  BY <1>8, FS_CardinalityType
<1> QED
  BY <1>4, <1>8, <1>9 DEF Grows

\* A channel that is cleared only loses places.
LEMMA PlacesCleared ==
  ASSUME NEW T, NEW qs \in [Relays -> Seq(T)], NEW p \in Relays,
         NEW x, IsFiniteSet(Places(qs, x)),
         NEW rs, rs = [qs EXCEPT ![p] = <<>>]
  PROVE  Grows(Places(qs, x), Places(rs, x), 0)
<1>0. /\ \A r \in Relays : \A i \in Nat :
           Place(r, i) \in Places(qs, x) <=> i \in 1 .. Len(qs[r]) /\ qs[r][i] = x
      /\ \A r \in Relays : \A i \in Nat :
           Place(r, i) \in Places(rs, x) <=> i \in 1 .. Len(rs[r]) /\ rs[r][i] = x
  BY DEF Places, Place, Slot
<1>1. Places(rs, x) \in SUBSET Places(qs, x)
  <2>1. ASSUME NEW r \in Relays, NEW i \in Nat, Place(r, i) \in Places(rs, x)
        PROVE  Place(r, i) \in Places(qs, x)
    <3>1. r # p
      <4>1. Len(<<>>) = 0
        OBVIOUS
      <4>2. rs[p] = <<>>
        OBVIOUS
      <4>3. 1 .. Len(rs[p]) = {}
        BY <4>1, <4>2
      <4> QED
        BY <2>1, <1>0, <4>3
    <3> QED
      BY <2>1, <3>1, <1>0
  <2> QED
    BY <2>1, Slots DEF Places
<1>2. /\ IsFiniteSet(Places(rs, x))
      /\ Cardinality(Places(rs, x)) <= Cardinality(Places(qs, x))
      /\ Cardinality(Places(qs, x)) \in Nat
  BY <1>1, FS_Subset, FS_CardinalityType
<1> QED
  BY <1>2 DEF Grows

-----------------------------------------------------------------------------
(* The inductive invariant of the relays. *)

RelayStates ==
  [pc : {"asleep", "claim", "publish", "wait", "commit"},
   batch : Seq(Events), claimed : SUBSET Events, sent : SUBSET Events,
   bad : SUBSET Events, missed : Events \cup {None}]

Idle(r) ==
  r.batch = <<>> /\ r.claimed = {} /\ r.sent = {} /\ r.bad = {} /\ r.missed = None

\* A relay works through what it claimed, in order: what it has not tried yet is
\* neither sent nor bad, and each row that it tried came to one end.
Sound(r) ==
  /\ r.pc \in {"asleep", "claim"} => Idle(r)
  /\ r.pc = "wait" => r.batch # <<>>
  /\ Ascending(r.batch)
  /\ Elements(r.batch) \subseteq r.claimed
  /\ Elements(r.batch) \cap (r.sent \cup r.bad) = {}
  /\ r.sent \cap r.bad = {}
  /\ r.sent \subseteq r.claimed
  /\ r.bad \subseteq r.claimed \cap Unpublishable
  /\ r.missed # None =>
       r.pc = "commit" /\ r.missed \in r.claimed /\ r.missed \notin r.sent

Batches == \A p \in Relays : Sound(relay[p])

\* Locked rows are pending, and locked by one relay.
Claims ==
  /\ \A p \in Relays : \A e \in relay[p].claimed : row[e] = "pending"
  /\ \A p, q \in Relays : p # q => relay[p].claimed \cap relay[q].claimed = {}

\* A row that can still be published has attempts left.
AttemptsLeft ==
  \A e \in Events : row[e] \in {"none", "pending"} => attempts[e] < MaxAttempts

\* What is on the wire is staged.
Staged ==
  \A p \in Relays : \A e \in Elements(wire[p]) : row[e] # "none"

RelayInv ==
  /\ TypeOK
  /\ Batches
  /\ Claims
  /\ AttemptsLeft
  /\ Staged
  /\ GivenUpForCause

\* A relay keeps to its states.
LEMMA RelayTyped ==
  ASSUME TypeOK, NEW p \in Relays
  PROVE  /\ relay \in [Relays -> RelayStates] /\ relay[p] \in RelayStates
         /\ relay[p].pc \in {"asleep", "claim", "publish", "wait", "commit"}
         /\ relay[p].batch \in Seq(Events)
         /\ relay[p].claimed \in SUBSET Events
         /\ relay[p].sent \in SUBSET Events
         /\ relay[p].bad \in SUBSET Events
         /\ relay[p].missed \in Events \cup {None}
<1>1. relay \in [Relays -> RelayStates]
  BY DEF TypeOK, RelayStates
<1>2. relay[p] \in RelayStates
  BY <1>1
<1> QED
  BY <1>1, <1>2 DEF RelayStates

-----------------------------------------------------------------------------
(* What the steps do to a relay. *)

Becomes(p, d) == d \in RelayStates /\ relay' = [relay EXCEPT ![p] = d]

\* A relay without a transaction has claimed nothing.
LEMMA IdleStates ==
  ASSUME NEW d, d = Asleep \/ d = [Asleep EXCEPT !.pc = "claim"]
  PROVE  d \in RelayStates /\ Sound(d) /\ Idle(d) /\ d.pc \in {"asleep", "claim"}
<1>1. d = [pc |-> d.pc, batch |-> <<>>, claimed |-> {}, sent |-> {}, bad |-> {},
           missed |-> None] /\ d.pc \in {"asleep", "claim"}
  BY DEF Asleep
<1>2. <<>> \in Seq(Events) /\ Len(<<>>) = 0
  OBVIOUS
<1>3. Ascending(<<>>) /\ Elements(<<>>) = {}
  <2>1. 1 .. Len(<<>>) = {}
    BY <1>2
  <2> QED
    BY <2>1 DEF Ascending, Elements
<1>4. /\ d.batch = <<>> /\ d.claimed = {} /\ d.sent = {} /\ d.bad = {}
      /\ d.missed = None
  BY <1>1
<1>5. d \in RelayStates
  <2> DEFINE c == d.pc
  <2>1. c \in {"asleep", "claim"}
        /\ d = [pc |-> c, batch |-> <<>>, claimed |-> {}, sent |-> {}, bad |-> {},
                missed |-> None]
    BY <1>1
  <2> HIDE DEF c
  <2>2. [pc |-> c, batch |-> <<>>, claimed |-> {}, sent |-> {}, bad |-> {},
         missed |-> None] \in RelayStates
    BY <1>2, <2>1 DEF RelayStates
  <2> QED
    BY <2>1, <2>2
<1> QED
  BY <1>1, <1>3, <1>4, <1>5 DEF Sound, Idle

\* The ticker wakes a relay that has nothing in hand.
LEMMA WakeMoves ==
  ASSUME TypeOK, Batches, NEW p \in Relays, Wake(p)
  PROVE  \E d : /\ Becomes(p, d) /\ Sound(d) /\ d.claimed = {} /\ d.sent = {}
                /\ d.pc = "claim"
<1>1. relay[p] \in RelayStates /\ Sound(relay[p]) /\ relay[p].pc = "asleep"
  BY RelayTyped DEF Batches, Wake
<1> DEFINE d == [relay[p] EXCEPT !.pc = "claim"]
<1>2. d = [pc |-> "claim", batch |-> relay[p].batch, claimed |-> relay[p].claimed,
           sent |-> relay[p].sent, bad |-> relay[p].bad, missed |-> relay[p].missed]
  BY <1>1 DEF RelayStates
<1>3. relay' = [relay EXCEPT ![p] = d]
  BY DEF Wake
<1> HIDE DEF d
<1>4. /\ d.pc = "claim" /\ d.batch = relay[p].batch /\ d.claimed = relay[p].claimed
      /\ d.sent = relay[p].sent /\ d.bad = relay[p].bad
      /\ d.missed = relay[p].missed
  BY <1>2
<1>5. d \in RelayStates
  BY <1>1, <1>2 DEF RelayStates
<1>6. Sound(d) /\ d.claimed = {} /\ d.sent = {}
  BY <1>1, <1>4 DEF Sound, Idle
<1> QED
  BY <1>3, <1>4, <1>5, <1>6 DEF Becomes

\* A relay that stops its batch keeps what it sent, and misses the row in hand.
LEMMA MissMoves ==
  ASSUME TypeOK, Batches, NEW p \in Relays, relay[p].batch # <<>>, Miss(p)
  PROVE  \E d : /\ Becomes(p, d) /\ Sound(d)
                /\ d.pc = "commit"
                /\ d.claimed = relay[p].claimed
                /\ d.sent = relay[p].sent
<1>1. relay[p] \in RelayStates /\ Sound(relay[p]) /\ relay[p].batch \in Seq(Events)
  BY RelayTyped DEF Batches
<1>2. InHand(p) \in Elements(relay[p].batch) /\ InHand(p) \in Events
  BY <1>1, AscendingTail DEF InHand, Sound
<1> DEFINE h == InHand(p)
           r == [relay[p] EXCEPT !.pc = "commit"]
           d == [r EXCEPT !.missed = h]
<1>3. relay' = [relay EXCEPT ![p] = d]
  BY <1>1, RelayTyped DEF Miss
<1> HIDE DEF h
<1>4. r = [pc |-> "commit", batch |-> relay[p].batch, claimed |-> relay[p].claimed,
           sent |-> relay[p].sent, bad |-> relay[p].bad, missed |-> relay[p].missed]
  BY <1>1 DEF RelayStates
<1> HIDE DEF r
<1>5. d = [pc |-> "commit", batch |-> relay[p].batch, claimed |-> relay[p].claimed,
           sent |-> relay[p].sent, bad |-> relay[p].bad, missed |-> h]
  BY <1>4
<1> HIDE DEF d
<1>6. /\ d.pc = "commit" /\ d.batch = relay[p].batch /\ d.claimed = relay[p].claimed
      /\ d.sent = relay[p].sent /\ d.bad = relay[p].bad /\ d.missed = h
  BY <1>5
<1>7. d \in RelayStates
  BY <1>1, <1>2, <1>5 DEF RelayStates, h
<1>8. Sound(d)
  BY <1>1, <1>2, <1>6 DEF Sound, h
<1> QED
  BY <1>3, <1>6, <1>7, <1>8 DEF Becomes

\* A row that makes no valid envelope is passed over.
LEMMA FailUnpublishableMoves ==
  ASSUME TypeOK, Batches, NEW p \in Relays, FailUnpublishable(p)
  PROVE  \E d : /\ Becomes(p, d) /\ Sound(d)
                /\ d.pc = "publish"
                /\ d.claimed = relay[p].claimed
                /\ d.sent = relay[p].sent
<1>1. /\ relay[p] \in RelayStates /\ Sound(relay[p]) /\ relay[p].batch \in Seq(Events)
      /\ relay[p].pc = "publish" /\ relay[p].batch # <<>>
      /\ InHand(p) \in Unpublishable
  BY RelayTyped DEF Batches, FailUnpublishable
<1> DEFINE h == InHand(p)
           t == Tail(relay[p].batch)
           b == relay[p].bad \cup {h}
           r == [relay[p] EXCEPT !.bad = b]
           d == [r EXCEPT !.batch = t]
<1>2. /\ h \in Elements(relay[p].batch) /\ h \in Events
      /\ t \in Seq(Events) /\ Ascending(t)
      /\ Elements(t) = Elements(relay[p].batch) \ {h}
  BY <1>1, AscendingTail DEF InHand, Sound
<1>3. relay' = [relay EXCEPT ![p] = d]
  BY <1>1, RelayTyped DEF FailUnpublishable
<1>4. b = relay[p].bad \cup {h} /\ b \subseteq Events
  BY <1>1, <1>2, RelayTyped
<1> HIDE DEF t, b
<1>5. r = [pc |-> "publish", batch |-> relay[p].batch, claimed |-> relay[p].claimed,
           sent |-> relay[p].sent, bad |-> b, missed |-> relay[p].missed]
  BY <1>1 DEF RelayStates
<1> HIDE DEF r
<1>6. d = [pc |-> "publish", batch |-> t, claimed |-> relay[p].claimed,
           sent |-> relay[p].sent, bad |-> b, missed |-> relay[p].missed]
  BY <1>5
<1> HIDE DEF d
<1>7. /\ d.pc = "publish" /\ d.batch = t /\ d.claimed = relay[p].claimed
      /\ d.sent = relay[p].sent /\ d.bad = b /\ d.missed = relay[p].missed
  BY <1>6
<1>8. d \in RelayStates
  BY <1>1, <1>2, <1>4, <1>6 DEF RelayStates
<1>9. relay[p].missed = None /\ h \notin relay[p].sent
  BY <1>1, <1>2 DEF Sound
<1> HIDE DEF h
<1>10. Sound(d)
  BY <1>1, <1>2, <1>4, <1>7, <1>9 DEF Sound, h
<1> QED
  BY <1>3, <1>7, <1>8, <1>10 DEF Becomes

\* A relay that has sent the row in hand waits for its confirmation.
LEMMA SendMoves ==
  ASSUME TypeOK, Batches, NEW p \in Relays, Send(p)
  PROVE  \E d : /\ Becomes(p, d) /\ Sound(d)
                /\ d.pc = "wait"
                /\ d.batch = relay[p].batch
                /\ d.claimed = relay[p].claimed
                /\ d.sent = relay[p].sent
<1>1. /\ relay[p] \in RelayStates /\ Sound(relay[p]) /\ relay[p].batch # <<>>
      /\ relay[p].pc = "publish"
  BY RelayTyped DEF Batches, Send
<1> DEFINE d == [relay[p] EXCEPT !.pc = "wait"]
<1>2. d = [pc |-> "wait", batch |-> relay[p].batch, claimed |-> relay[p].claimed,
           sent |-> relay[p].sent, bad |-> relay[p].bad, missed |-> relay[p].missed]
  BY <1>1 DEF RelayStates
<1>3. relay' = [relay EXCEPT ![p] = d]
  BY DEF Send
<1> HIDE DEF d
<1>4. /\ d.pc = "wait" /\ d.batch = relay[p].batch /\ d.claimed = relay[p].claimed
      /\ d.sent = relay[p].sent /\ d.bad = relay[p].bad
      /\ d.missed = relay[p].missed
  BY <1>2
<1>5. d \in RelayStates
  BY <1>1, <1>2 DEF RelayStates
<1>6. Sound(d)
  BY <1>1, <1>4 DEF Sound
<1> QED
  BY <1>3, <1>4, <1>5, <1>6 DEF Becomes

\* A confirmation that is taken for the row in hand counts it as sent, or stops
\* the batch.
LEMMA ConfirmedMoves ==
  ASSUME TypeOK, Batches, NEW p \in Relays, Confirmed(p), Head(confirms[p]) = "ack"
  PROVE  \E d : /\ Becomes(p, d) /\ Sound(d)
                /\ d.pc = "publish"
                /\ d.claimed = relay[p].claimed
                /\ d.sent = relay[p].sent \cup {InHand(p)}
<1>1. /\ relay[p] \in RelayStates /\ Sound(relay[p]) /\ relay[p].batch \in Seq(Events)
      /\ relay[p].batch # <<>>
  BY RelayTyped DEF Batches, Confirmed, Sound
<1> DEFINE h == InHand(p)
           t == Tail(relay[p].batch)
           c == relay[p].sent \cup {h}
           r == [relay[p] EXCEPT !.pc = "publish"]
           q == [r EXCEPT !.batch = t]
           d == [q EXCEPT !.sent = c]
<1>2. /\ h \in Elements(relay[p].batch) /\ h \in Events
      /\ t \in Seq(Events) /\ Ascending(t)
      /\ Elements(t) = Elements(relay[p].batch) \ {h}
  BY <1>1, AscendingTail DEF InHand, Sound
<1>3. relay' = [relay EXCEPT ![p] = d]
  BY <1>1, RelayTyped DEF Confirmed
<1>4. c = relay[p].sent \cup {h} /\ c \subseteq Events
  BY <1>1, <1>2, RelayTyped
<1> HIDE DEF t, c
<1>5. r = [pc |-> "publish", batch |-> relay[p].batch, claimed |-> relay[p].claimed,
           sent |-> relay[p].sent, bad |-> relay[p].bad, missed |-> relay[p].missed]
  BY <1>1 DEF RelayStates
<1> HIDE DEF r
<1>6. q = [pc |-> "publish", batch |-> t, claimed |-> relay[p].claimed,
           sent |-> relay[p].sent, bad |-> relay[p].bad, missed |-> relay[p].missed]
  BY <1>5
<1> HIDE DEF q
<1>7. d = [pc |-> "publish", batch |-> t, claimed |-> relay[p].claimed,
           sent |-> c, bad |-> relay[p].bad, missed |-> relay[p].missed]
  BY <1>6
<1> HIDE DEF d
<1>8. /\ d.pc = "publish" /\ d.batch = t /\ d.claimed = relay[p].claimed
      /\ d.sent = c /\ d.bad = relay[p].bad /\ d.missed = relay[p].missed
  BY <1>7
<1>9. d \in RelayStates
  BY <1>1, <1>2, <1>4, <1>7 DEF RelayStates
<1>10. relay[p].missed = None /\ h \notin relay[p].bad
  BY <1>1, <1>2 DEF Sound, Confirmed
<1> HIDE DEF h
<1>11. Sound(d)
  BY <1>1, <1>2, <1>4, <1>8, <1>10 DEF Sound
<1> QED
  BY <1>3, <1>4, <1>8, <1>9, <1>11 DEF Becomes, h

\* A relay claims pending rows that nobody holds, and reads them in order.
LEMMA ClaimMoves ==
  ASSUME TypeOK, Batches, NEW p \in Relays, Claim(p)
  PROVE  \E d : /\ Becomes(p, d) /\ Sound(d)
                /\ d.pc \in {"asleep", "publish"}
                /\ d.claimed \subseteq Claimable
                /\ d.sent = {}
<1> DEFINE S == FirstOf(Claimable)
<1>1. S \in SUBSET Claimable /\ S \in SUBSET Events
  BY DEF FirstOf, Claimable
<1>2. relay[p] \in RelayStates /\ relay[p].pc = "claim" /\ Sound(relay[p])
  BY RelayTyped DEF Batches, Claim
<1>3. Idle(relay[p])
  BY <1>2 DEF Sound
<1>4. CASE S = {}
  <2>1. relay' = [relay EXCEPT ![p] = Asleep]
    BY <1>4 DEF Claim
  <2>2. Asleep \in RelayStates /\ Sound(Asleep) /\ Idle(Asleep)
        /\ Asleep.pc = "asleep"
    BY IdleStates DEF Asleep
  <2> QED
    BY <2>1, <2>2 DEF Becomes, Idle
<1>5. CASE S # {}
  <2> DEFINE b == InOrder(S)
             r == [relay[p] EXCEPT !.pc = "publish"]
             q == [r EXCEPT !.batch = b]
             d == [q EXCEPT !.claimed = S]
  <2>1. relay' = [relay EXCEPT ![p] = d]
    BY <1>5, RelayTyped DEF Claim
  <2>2. b \in Seq(S) /\ Ascending(b)
    BY <1>1, InOrderAscends
  <2> HIDE DEF b, S
  <2>3. b \in Seq(Events)
    BY <1>1, <2>2, SeqMonotonic
  <2>4. Elements(b) \subseteq S
    BY <2>2, ElementOfSeq DEF Elements
  <2>5. r = [pc |-> "publish", batch |-> relay[p].batch,
             claimed |-> relay[p].claimed, sent |-> relay[p].sent,
             bad |-> relay[p].bad, missed |-> relay[p].missed]
    BY <1>2 DEF RelayStates
  <2> HIDE DEF r
  <2>6. q = [pc |-> "publish", batch |-> b,
             claimed |-> relay[p].claimed, sent |-> relay[p].sent,
             bad |-> relay[p].bad, missed |-> relay[p].missed]
    BY <2>5
  <2> HIDE DEF q
  <2>7. d = [pc |-> "publish", batch |-> b, claimed |-> S, sent |-> {},
             bad |-> {}, missed |-> None]
    <3>1. d = [pc |-> "publish", batch |-> b,
               claimed |-> S, sent |-> relay[p].sent,
               bad |-> relay[p].bad, missed |-> relay[p].missed]
      BY <2>6
    <3> HIDE DEF d
    <3> QED
      BY <1>3, <3>1 DEF Idle
  <2> HIDE DEF d
  <2>8. /\ d.pc = "publish" /\ d.batch = b /\ d.claimed = S /\ d.sent = {}
        /\ d.bad = {} /\ d.missed = None
    BY <2>7
  <2>9. d \in RelayStates
    BY <1>1, <2>3, <2>7 DEF RelayStates
  <2>10. Sound(d)
    BY <2>2, <2>4, <2>8 DEF Sound
  <2> QED
    BY <1>1, <2>1, <2>8, <2>9, <2>10 DEF Becomes
<1> QED
  BY <1>4, <1>5

-----------------------------------------------------------------------------
(* The invariant is kept by every step. *)

\* A relay that claims only what nobody holds disturbs no other relay.
LEMMA OneRelayMoves ==
  ASSUME TypeOK, Batches, Claims, NEW p \in Relays, NEW d, Becomes(p, d), Sound(d),
         d.claimed \subseteq relay[p].claimed \cup Claimable,
         row' = row
  PROVE  Batches' /\ Claims' /\ relay' \in [Relays -> RelayStates]
<1>1. relay \in [Relays -> RelayStates]
  BY DEF TypeOK, RelayStates
<1>2. /\ relay'[p] = d
      /\ \A q \in Relays : q # p => relay'[q] = relay[q]
      /\ relay' \in [Relays -> RelayStates]
  BY <1>1 DEF Becomes
<1>3. Batches'
  BY <1>2 DEF Batches
<1>4. \A e \in d.claimed :
        /\ row[e] = "pending"
        /\ \A q \in Relays : q # p => e \notin relay[q].claimed
  BY DEF Claims, Claimable
<1>5. Claims'
  BY <1>2, <1>4 DEF Claims
<1> QED
  BY <1>2, <1>3, <1>5

\* What holds of the rows goes on to hold while nobody writes them.
LEMMA RowsUntouched ==
  ASSUME RelayInv, UNCHANGED <<row, attempts, routed, acked>>
  PROVE  AttemptsLeft' /\ GivenUpForCause'
BY DEF RelayInv, AttemptsLeft, GivenUpForCause

\* A step of one relay that writes no row and leaves its channel alone.
LEMMA RelayOnlyStep ==
  ASSUME RelayInv, NEW p \in Relays, NEW d, Becomes(p, d), Sound(d),
         d.claimed \subseteq relay[p].claimed \cup Claimable,
         UNCHANGED <<row, attempts, open, wire, bound, routed, acked>>,
         confirms' \in [Relays -> Seq({"ack", "nack"})],
         faults' \in 0 .. MaxFaults, timeouts' \in 0 .. MaxTimeouts
  PROVE  RelayInv'
<1>1. Batches' /\ Claims' /\ relay' \in [Relays -> RelayStates]
  BY OneRelayMoves DEF RelayInv
<1>2. AttemptsLeft' /\ GivenUpForCause'
  BY RowsUntouched
<1>3. TypeOK'
  BY <1>1 DEF RelayInv, TypeOK, RelayStates
<1>4. Staged'
  BY DEF RelayInv, Staged
<1> QED
  BY <1>1, <1>2, <1>3, <1>4 DEF RelayInv

\* What a channel holds: one more with a send, one fewer with an answer.
LEMMA ChannelElements ==
  ASSUME NEW s \in Seq(Events)
  PROVE  /\ \A x \in Events : /\ Append(s, x) \in Seq(Events)
                              /\ Elements(Append(s, x)) = Elements(s) \cup {x}
         /\ s # <<>> => /\ Tail(s) \in Seq(Events)
                        /\ Elements(Tail(s)) \subseteq Elements(s)
                        /\ Head(s) \in Elements(s) /\ Head(s) \in Events
         /\ Elements(<<>>) = {}
<1>1. ASSUME NEW x \in Events
      PROVE  /\ Append(s, x) \in Seq(Events)
             /\ Elements(Append(s, x)) = Elements(s) \cup {x}
  <2>1. /\ Append(s, x) \in Seq(Events)
        /\ Len(Append(s, x)) = Len(s) + 1
        /\ \A i \in 1 .. Len(s) : Append(s, x)[i] = s[i]
        /\ Append(s, x)[Len(s) + 1] = x
    BY AppendProperties
  <2>2. Len(s) \in Nat
    BY LenProperties
  <2>3. 1 .. Len(s) + 1 = 1 .. Len(s) \cup {Len(s) + 1}
    BY <2>2
  <2> QED
    BY <2>1, <2>3 DEF Elements
<1>2. ASSUME s # <<>>
      PROVE  /\ Tail(s) \in Seq(Events)
             /\ Elements(Tail(s)) \subseteq Elements(s)
             /\ Head(s) \in Elements(s) /\ Head(s) \in Events
  <2>1. /\ Head(s) = s[1] /\ Head(s) \in Events
        /\ Tail(s) \in Seq(Events)
        /\ Len(s) \in Nat \ {0} /\ Len(Tail(s)) = Len(s) - 1
        /\ \A i \in 1 .. Len(Tail(s)) : Tail(s)[i] = s[i + 1]
    BY <1>2, HeadTailProperties, LenProperties, EmptySeq
  <2>2. \A i \in 1 .. Len(Tail(s)) : i + 1 \in 1 .. Len(s)
    BY <2>1
  <2> QED
    BY <2>1, <2>2 DEF Elements
<1>3. Elements(<<>>) = {}
  <2>1. 1 .. Len(<<>>) = {}
    OBVIOUS
  <2> QED
    BY <2>1 DEF Elements
<1> QED
  BY <1>1, <1>2, <1>3

\* The counters of the bounds keep their ranges.
LEMMA Bounds ==
  ASSUME TypeOK
  PROVE  /\ faults \in 0 .. MaxFaults /\ timeouts \in 0 .. MaxTimeouts
         /\ Fault => faults' \in 0 .. MaxFaults /\ faults' = faults + 1
         /\ faults \in Nat /\ timeouts \in Nat
BY OutboxAssumption DEF TypeOK, Fault

\* The ticker, the claim and a row that makes no envelope.
LEMMA QuietStepsKeepInv ==
  ASSUME RelayInv, NEW p \in Relays, Wake(p) \/ Claim(p) \/ FailUnpublishable(p)
  PROVE  RelayInv'
<1> USE DEF RelayInv
<1>1. UNCHANGED <<row, attempts, open, wire, confirms, bound, routed, acked, faults,
                  timeouts>>
  BY DEF Wake, Claim, FailUnpublishable, brokerVars
<1>2. PICK d : /\ Becomes(p, d) /\ Sound(d)
               /\ d.claimed \subseteq relay[p].claimed \cup Claimable
  <2>1. CASE Wake(p)
    BY <2>1, WakeMoves
  <2>2. CASE Claim(p)
    BY <2>2, ClaimMoves
  <2>3. CASE FailUnpublishable(p)
    BY <2>3, FailUnpublishableMoves
  <2> QED
    BY <2>1, <2>2, <2>3
<1>3. confirms' \in [Relays -> Seq({"ack", "nack"})]
      /\ faults' \in 0 .. MaxFaults /\ timeouts' \in 0 .. MaxTimeouts
  BY <1>1 DEF TypeOK
<1> QED
  BY <1>1, <1>2, <1>3, RelayOnlyStep

\* The row that is sent is a claimed one, and so is staged.
LEMMA SendKeepsInv ==
  ASSUME RelayInv, NEW p \in Relays, Send(p)
  PROVE  RelayInv'
<1> USE DEF RelayInv
<1>1. PICK d : /\ Becomes(p, d) /\ Sound(d) /\ d.claimed = relay[p].claimed
  BY SendMoves
<1>2. UNCHANGED <<row, attempts, open, confirms, bound, routed, acked, faults,
                  timeouts>>
      /\ relay[p].batch # <<>>
      /\ wire' = [wire EXCEPT ![p] = Append(@, InHand(p))]
  BY DEF Send
<1>3. Batches' /\ Claims' /\ relay' \in [Relays -> RelayStates]
  BY <1>1, <1>2, OneRelayMoves
<1>4. InHand(p) \in Events /\ row[InHand(p)] = "pending"
  <2>1. relay[p].batch \in Seq(Events) /\ Sound(relay[p])
    BY RelayTyped DEF Batches
  <2>2. InHand(p) \in Elements(relay[p].batch) /\ InHand(p) \in Events
    BY <1>2, <2>1, AscendingTail DEF Sound, InHand
  <2> QED
    BY <2>1, <2>2 DEF Sound, Claims
<1>5. wire \in [Relays -> Seq(Events)]
  BY DEF TypeOK
<1>6. wire' \in [Relays -> Seq(Events)]
      /\ wire'[p] = Append(wire[p], InHand(p))
      /\ \A q \in Relays : q # p => wire'[q] = wire[q]
  BY <1>2, <1>4, <1>5, ChannelElements
<1>7. TypeOK'
  BY <1>2, <1>3, <1>6 DEF TypeOK, RelayStates
<1>8. Staged'
  <2>1. Elements(wire'[p]) = Elements(wire[p]) \cup {InHand(p)}
    BY <1>4, <1>5, <1>6, ChannelElements
  <2> QED
    BY <1>2, <1>4, <1>6, <2>1 DEF Staged
<1> QED
  BY <1>2, <1>3, <1>7, <1>8, RowsUntouched

\* A publish that is answered, refused, too late, or impossible.
LEMMA AnsweredKeepsInv ==
  ASSUME RelayInv, NEW p \in Relays,
         \/ SendFails(p) \/ Confirmed(p) \/ ChannelClosed(p) \/ ConfirmTimeout(p)
  PROVE  RelayInv'
<1> USE DEF RelayInv
<1>1. UNCHANGED <<row, attempts, open, wire, bound, routed, acked, faults>>
  BY DEF SendFails, Confirmed, ChannelClosed, ConfirmTimeout, brokerVars
<1>2. timeouts' \in 0 .. MaxTimeouts /\ faults' \in 0 .. MaxFaults
  <2>1. timeouts' = timeouts \/ (timeouts < MaxTimeouts /\ timeouts' = timeouts + 1)
    BY DEF SendFails, Confirmed, ChannelClosed, ConfirmTimeout
  <2> QED
    BY <1>1, <2>1, Bounds, OutboxAssumption
<1>3. confirms' \in [Relays -> Seq({"ack", "nack"})]
  <2>1. CASE Confirmed(p)
    <3>1. confirms' = [confirms EXCEPT ![p] = Tail(@)] /\ confirms[p] # <<>>
      BY <2>1 DEF Confirmed
    <3>2. confirms \in [Relays -> Seq({"ack", "nack"})]
      BY DEF TypeOK
    <3>3. Tail(confirms[p]) \in Seq({"ack", "nack"})
      BY <3>1, <3>2, HeadTailProperties
    <3> QED
      BY <3>1, <3>2, <3>3
  <2>2. CASE SendFails(p) \/ ChannelClosed(p) \/ ConfirmTimeout(p)
    BY <2>2 DEF SendFails, ChannelClosed, ConfirmTimeout, brokerVars, TypeOK
  <2> QED
    BY <2>1, <2>2
<1>4. relay[p].batch # <<>>
  <2>1. Sound(relay[p])
    BY DEF Batches
  <2> QED
    BY <2>1 DEF Sound, SendFails, Confirmed, ChannelClosed, ConfirmTimeout
<1>5. PICK d : Becomes(p, d) /\ Sound(d) /\ d.claimed = relay[p].claimed
  <2>1. CASE Miss(p)
    BY <1>4, <2>1, MissMoves
  <2>2. CASE Confirmed(p) /\ Head(confirms[p]) = "ack"
    BY <2>2, ConfirmedMoves
  <2> QED
    BY <2>1, <2>2 DEF SendFails, Confirmed, ChannelClosed, ConfirmTimeout
<1> QED
  BY <1>1, <1>2, <1>3, <1>5, RelayOnlyStep

\* A transaction that does not commit lets its rows go.
LEMMA CommitFailsKeepsInv ==
  ASSUME RelayInv, NEW p \in Relays, CommitFails(p)
  PROVE  RelayInv'
<1> USE DEF RelayInv
<1>1. UNCHANGED <<row, attempts, open, wire, confirms, bound, routed, acked,
                  timeouts>>
      /\ relay' = [relay EXCEPT ![p] = Asleep] /\ Fault
  BY DEF CommitFails, brokerVars
<1>2. Asleep \in RelayStates /\ Sound(Asleep) /\ Asleep.claimed = {}
  BY IdleStates DEF Asleep
<1>3. Becomes(p, Asleep)
  BY <1>1, <1>2 DEF Becomes
<1>4. /\ confirms' \in [Relays -> Seq({"ack", "nack"})]
      /\ timeouts' \in 0 .. MaxTimeouts /\ faults' \in 0 .. MaxFaults
  BY <1>1, Bounds DEF TypeOK
<1> HIDE DEF Asleep
<1> QED
  BY <1>1, <1>2, <1>3, <1>4, RelayOnlyStep

\* A replica that starts again has claimed nothing, and its channel is empty.
LEMMA RestartKeepsInv ==
  ASSUME RelayInv, NEW p \in Relays, Restart(p), faults' \in 0 .. MaxFaults
  PROVE  RelayInv'
<1> USE DEF RelayInv
<1>1. /\ relay' = [relay EXCEPT ![p] = Asleep]
      /\ open' = [open EXCEPT ![p] = TRUE]
      /\ wire' = [wire EXCEPT ![p] = <<>>]
      /\ confirms' = [confirms EXCEPT ![p] = <<>>]
      /\ UNCHANGED <<row, attempts, bound, routed, acked, timeouts>>
  BY DEF Restart
<1>2. Asleep \in RelayStates /\ Sound(Asleep) /\ Asleep.claimed = {}
  BY IdleStates DEF Asleep
<1>3. Becomes(p, Asleep)
  BY <1>1, <1>2 DEF Becomes
<1>4. Batches' /\ Claims' /\ relay' \in [Relays -> RelayStates]
  BY <1>1, <1>2, <1>3, OneRelayMoves
<1>5. /\ wire \in [Relays -> Seq(Events)]
      /\ confirms \in [Relays -> Seq({"ack", "nack"})]
      /\ open \in [Relays -> BOOLEAN]
  BY DEF TypeOK
<1>6. /\ wire' \in [Relays -> Seq(Events)]
      /\ confirms' \in [Relays -> Seq({"ack", "nack"})]
      /\ open' \in [Relays -> BOOLEAN]
  BY <1>1, <1>5
<1>7. TypeOK'
  BY <1>1, <1>4, <1>6 DEF TypeOK, RelayStates
<1>8. Staged'
  <2>1. wire'[p] = <<>> /\ \A q \in Relays : q # p => wire'[q] = wire[q]
    BY <1>1, <1>5
  <2>2. Elements(<<>>) = {}
    BY <1>5, ChannelElements
  <2> QED
    BY <1>1, <2>1, <2>2 DEF Staged
<1> QED
  BY <1>1, <1>4, <1>7, <1>8, RowsUntouched

\* The broker takes a staged event from the wire, and answers for it.
LEMMA BrokerKeepsInv ==
  ASSUME RelayInv, NEW p \in Relays, BrokerAccepts(p) \/ BrokerNacks(p)
  PROVE  RelayInv'
<1> USE DEF RelayInv
<1> DEFINE h == Head(wire[p])
<1>1. /\ wire[p] # <<>> /\ wire' = [wire EXCEPT ![p] = Tail(@)]
      /\ UNCHANGED <<row, attempts, relay, open, bound, timeouts>>
  BY DEF BrokerAccepts, BrokerNacks
<1>2. /\ wire \in [Relays -> Seq(Events)]
      /\ confirms \in [Relays -> Seq({"ack", "nack"})]
      /\ routed \in [Events -> Nat] /\ acked \subseteq Events
  BY DEF TypeOK
<1>3. /\ h \in Events /\ h \in Elements(wire[p])
      /\ Tail(wire[p]) \in Seq(Events)
      /\ Elements(Tail(wire[p])) \subseteq Elements(wire[p])
  BY <1>1, <1>2, ChannelElements
<1>4. row[h] # "none"
  BY <1>3 DEF Staged
<1>5. PICK a \in {"ack", "nack"} : confirms' = [confirms EXCEPT ![p] = Append(@, a)]
  BY DEF BrokerAccepts, BrokerNacks
<1>6. confirms' \in [Relays -> Seq({"ack", "nack"})]
  <2>1. Append(confirms[p], a) \in Seq({"ack", "nack"})
    BY <1>2, AppendProperties
  <2> QED
    BY <1>2, <1>5, <2>1
<1>7. /\ routed' = routed \/ routed' = [routed EXCEPT ![h] = @ + 1]
      /\ acked' = acked \/ acked' = acked \cup {h}
      /\ faults' \in 0 .. MaxFaults
  BY Bounds DEF BrokerAccepts, BrokerNacks
<1> HIDE DEF h
<1>8. routed' \in [Events -> Nat] /\ acked' \subseteq Events
  <2>1. [routed EXCEPT ![h] = @ + 1] \in [Events -> Nat]
    BY <1>2, <1>3
  <2>2. routed' \in [Events -> Nat]
    BY <1>2, <1>7, <2>1
  <2> QED
    BY <1>2, <1>3, <1>7, <2>2
<1>9. TypeOK'
  <2>1. wire' \in [Relays -> Seq(Events)]
    BY <1>1, <1>2, <1>3
  <2> QED
    BY <1>1, <1>6, <1>7, <1>8, <2>1 DEF TypeOK
<1>10. Batches' /\ Claims' /\ AttemptsLeft'
  BY <1>1 DEF Batches, Claims, AttemptsLeft
<1>11. Staged'
  <2>1. wire'[p] = Tail(wire[p]) /\ \A q \in Relays : q # p => wire'[q] = wire[q]
    BY <1>1, <1>2
  <2> QED
    BY <1>1, <1>3, <2>1 DEF Staged
<1>12. GivenUpForCause'
  <2>1. ASSUME NEW e \in Events, row[e] = "none"
        PROVE  routed'[e] = 0 /\ e \notin acked'
    <3>1. e # h /\ routed[e] = 0 /\ e \notin acked
      BY <1>4, <2>1 DEF GivenUpForCause
    <3> QED
      BY <1>2, <1>7, <3>1
  <2> QED
    BY <1>1, <2>1 DEF GivenUpForCause
<1> QED
  BY <1>9, <1>10, <1>11, <1>12

\* A connection that is lost takes what is on the wire with it.
LEMMA LoseConnectionKeepsInv ==
  ASSUME RelayInv, NEW p \in Relays, LoseConnection(p)
  PROVE  RelayInv'
<1> USE DEF RelayInv
<1>1. /\ open' = [open EXCEPT ![p] = FALSE]
      /\ wire' = [wire EXCEPT ![p] = <<>>]
      /\ UNCHANGED <<row, attempts, relay, bound, routed, acked, timeouts>>
      /\ faults' \in 0 .. MaxFaults
  BY Bounds DEF LoseConnection
<1>2. /\ wire \in [Relays -> Seq(Events)]
      /\ confirms \in [Relays -> Seq({"ack", "nack"})]
      /\ open \in [Relays -> BOOLEAN]
  BY DEF TypeOK
<1>3. confirms' \in [Relays -> Seq({"ack", "nack"})]
  <2>1. confirms' = confirms \/ confirms' = [confirms EXCEPT ![p] = <<>>]
    BY DEF LoseConnection
  <2>2. <<>> \in Seq({"ack", "nack"})
    OBVIOUS
  <2> QED
    BY <1>2, <2>1, <2>2
<1>4. TypeOK'
  <2>1. wire' \in [Relays -> Seq(Events)] /\ open' \in [Relays -> BOOLEAN]
    BY <1>1, <1>2
  <2> QED
    BY <1>1, <1>3, <2>1 DEF TypeOK
<1>5. Staged'
  <2>1. wire'[p] = <<>> /\ \A q \in Relays : q # p => wire'[q] = wire[q]
    BY <1>1, <1>2
  <2>2. Elements(<<>>) = {}
    BY <1>2, ChannelElements
  <2> QED
    BY <1>1, <2>1, <2>2 DEF Staged
<1>6. Batches' /\ Claims'
  BY <1>1 DEF Batches, Claims
<1> QED
  BY <1>1, <1>4, <1>5, <1>6, RowsUntouched

\* A row that is staged or pruned is in nobody's hands.
LEMMA RowStepKeepsInv ==
  ASSUME RelayInv, NEW e \in Events, Enqueue(e) \/ Prune(e)
  PROVE  RelayInv'
<1> USE DEF RelayInv
<1>1. UNCHANGED <<attempts, relay, open, wire, confirms, bound, routed, acked, faults,
                  timeouts>>
  BY DEF Enqueue, Prune, brokerVars
<1>2. row \in [Events -> {"none", "pending", "published", "failed", "pruned"}]
  BY DEF TypeOK
<1>3. PICK s \in {"pending", "pruned"} :
        /\ row' = [row EXCEPT ![e] = s]
        /\ row[e] = (IF s = "pending" THEN "none" ELSE "published")
  BY DEF Enqueue, Prune
<1>4. \A f \in Events : row'[f] = IF f = e THEN s ELSE row[f]
  BY <1>2, <1>3
<1>5. TypeOK'
  <2>1. row' \in [Events -> {"none", "pending", "published", "failed", "pruned"}]
    BY <1>2, <1>3
  <2> QED
    BY <1>1, <2>1 DEF TypeOK
<1>6. Batches'
  BY <1>1 DEF Batches
<1>7. \A p \in Relays : e \notin relay[p].claimed /\ relay[p].claimed \subseteq Events
  BY <1>3, RelayTyped DEF Claims
<1>8. Claims'
  BY <1>1, <1>4, <1>7 DEF Claims
<1>9. AttemptsLeft' /\ GivenUpForCause'
  BY <1>1, <1>3, <1>4 DEF AttemptsLeft, GivenUpForCause
<1>10. Staged'
  <2>1. \A p \in Relays : Elements(wire[p]) \subseteq Events
    BY ElementOfSeq DEF TypeOK, Elements
  <2> QED
    BY <1>1, <1>3, <1>4, <2>1 DEF Staged
<1> QED
  BY <1>5, <1>6, <1>8, <1>9, <1>10

\* The commit settles rows the relay holds, and no others; a row that is left
\* pending has attempts left, and one that failed has none or never had a chance.
LEMMA CommitKeepsInv ==
  ASSUME RelayInv, NEW p \in Relays, Commit(p)
  PROVE  RelayInv'
<1> USE DEF RelayInv
<1> DEFINE m == relay[p]
<1>1. m \in RelayStates /\ Sound(m) /\ m.claimed \subseteq Events
  BY RelayTyped DEF Batches
<1>2. UNCHANGED <<open, wire, confirms, bound, routed, acked, faults, timeouts>>
  BY DEF Commit, brokerVars
<1>3. PICK d : /\ relay' = [relay EXCEPT ![p] = d]
               /\ d = Asleep \/ d = [Asleep EXCEPT !.pc = "claim"]
  BY DEF Commit
<1>4. d \in RelayStates /\ Sound(d) /\ d.claimed = {}
  BY <1>3, IdleStates DEF Idle
<1>5. \A e \in Events :
        /\ row'[e] = IF e \in m.claimed THEN Outcome(p, e) ELSE row[e]
        /\ attempts'[e] = IF e \in m.bad \/ e = m.missed
                          THEN attempts[e] + 1 ELSE attempts[e]
  BY DEF Commit
<1>6. \A e \in m.claimed : row[e] = "pending" /\ e \in Events
  BY <1>1 DEF Claims
<1>7. \A e \in Events :
        \/ /\ e \in m.claimed
           /\ \/ row'[e] = "published"
              \/ row'[e] = "failed" /\ e \in m.bad
              \/ /\ row'[e] = "failed" /\ e = m.missed /\ Exhausted(e)
                 /\ e \notin m.bad
              \/ /\ row'[e] = "pending" /\ e \notin m.bad
                 /\ e = m.missed => ~Exhausted(e)
        \/ e \notin m.claimed /\ row'[e] = row[e]
  BY <1>5, <1>6 DEF Outcome
<1>8. \A e \in Events :
        \/ e \in m.claimed
        \/ e \notin m.bad /\ e # m.missed /\ attempts'[e] = attempts[e]
  BY <1>1, <1>5, OutboxAssumption DEF Sound, None, Events
<1> HIDE DEF m
<1>9. attempts \in [Events -> Nat] /\ MaxAttempts \in Nat
      /\ row \in [Events -> {"none", "pending", "published", "failed", "pruned"}]
  BY OutboxAssumption DEF TypeOK
<1>10. TypeOK'
  <2>1. relay' \in [Relays -> RelayStates]
    BY <1>3, <1>4 DEF TypeOK, RelayStates
  <2>2. row' \in [Events -> {"none", "pending", "published", "failed", "pruned"}]
    <3>1. \A e \in Events :
            row'[e] \in {"none", "pending", "published", "failed", "pruned"}
      BY <1>7, <1>9
    <3> QED
      BY <3>1 DEF Commit
  <2>3. attempts' \in [Events -> Nat]
    <3>1. \A e \in Events : attempts'[e] \in Nat
      BY <1>5, <1>9
    <3> QED
      BY <3>1 DEF Commit
  <2> QED
    BY <1>2, <2>1, <2>2, <2>3 DEF TypeOK, RelayStates
<1>11. \A q \in Relays : relay'[q] = IF q = p THEN d ELSE relay[q]
  BY <1>3 DEF TypeOK
<1>12. Batches'
  BY <1>4, <1>11 DEF Batches
<1>13. Claims'
  <2>1. \A q \in Relays : q # p =>
          relay[q].claimed \cap m.claimed = {} /\ relay[q].claimed \subseteq Events
    BY RelayTyped DEF Claims, m
  <2>2. \A q \in Relays : \A e \in relay'[q].claimed : row'[e] = "pending"
    <3> SUFFICES ASSUME NEW q \in Relays, NEW e \in relay'[q].claimed
                 PROVE  row'[e] = "pending"
      OBVIOUS
    <3>1. q # p /\ e \in relay[q].claimed
      BY <1>4, <1>11
    <3>2. row[e] = "pending" /\ e \in Events /\ e \notin m.claimed
      BY <2>1, <3>1 DEF Claims
    <3> QED
      BY <1>7, <3>2
  <2>3. \A q, r \in Relays : q # r => relay'[q].claimed \cap relay'[r].claimed = {}
    <3>1. \A q \in Relays : relay'[q].claimed \subseteq relay[q].claimed
      BY <1>4, <1>11
    <3> QED
      BY <3>1 DEF Claims
  <2> QED
    BY <2>2, <2>3 DEF Claims
<1>14. AttemptsLeft'
  <2> SUFFICES ASSUME NEW e \in Events, row'[e] \in {"none", "pending"}
               PROVE  attempts'[e] < MaxAttempts
    BY DEF AttemptsLeft
  <2>1. CASE e \in m.claimed
    <3>1. e \notin m.bad /\ (e = m.missed => ~Exhausted(e)) /\ attempts[e] < MaxAttempts
      BY <1>6, <1>7, <2>1 DEF AttemptsLeft
    <3> QED
      BY <1>5, <1>9, <3>1 DEF Exhausted, m
  <2>2. CASE e \notin m.claimed
    BY <1>7, <1>8, <2>2 DEF AttemptsLeft
  <2> QED
    BY <2>1, <2>2
<1>15. Staged'
  <2>1. \A e \in Events : row[e] # "none" => row'[e] # "none"
    BY <1>7
  <2>2. \A q \in Relays : Elements(wire[q]) \subseteq Events
    BY ElementOfSeq DEF TypeOK, Elements
  <2> QED
    BY <1>2, <2>1, <2>2 DEF Staged
<1>16. GivenUpForCause'
  <2> SUFFICES ASSUME NEW e \in Events
               PROVE  /\ row'[e] = "failed" =>
                           e \in Unpublishable \/ attempts'[e] = MaxAttempts
                      /\ row'[e] = "none" => routed[e] = 0 /\ e \notin acked
    BY <1>2 DEF GivenUpForCause
  <2>1. CASE e \notin m.claimed
    BY <1>7, <1>8, <2>1 DEF GivenUpForCause
  <2>2. CASE e \in m.claimed
    <3>1. row'[e] # "none"
      BY <1>7, <2>2
    <3>2. CASE e \in m.bad
      BY <1>1, <3>1, <3>2 DEF Sound
    <3>3. CASE e \notin m.bad /\ row'[e] = "failed"
      <4>1. e = m.missed /\ Exhausted(e) /\ attempts[e] < MaxAttempts
        BY <1>6, <1>7, <2>2, <3>3 DEF AttemptsLeft
      <4>2. attempts'[e] = attempts[e] + 1 /\ attempts[e] + 1 >= MaxAttempts
        BY <1>5, <4>1 DEF Exhausted, m
      <4> QED
        BY <1>9, <3>1, <4>1, <4>2
    <3> QED
      BY <3>1, <3>2, <3>3
  <2> QED
    BY <2>1, <2>2
<1> QED
  BY <1>10, <1>12, <1>13, <1>14, <1>15, <1>16

\* Every step keeps the invariant.
LEMMA RelayInvStep == RelayInv /\ [Next]_vars => RelayInv'
<1> SUFFICES ASSUME RelayInv, [Next]_vars
             PROVE  RelayInv'
  OBVIOUS
<1>1. CASE UNCHANGED vars
  BY <1>1 DEF vars, RelayInv, TypeOK, Batches, Claims, AttemptsLeft, Staged,
              GivenUpForCause
<1>2. CASE DeclareConsumerQueue
  <2>1. UNCHANGED <<row, attempts, relay, open, wire, confirms, routed, acked,
                    faults, timeouts>> /\ bound' = TRUE
    BY <1>2 DEF DeclareConsumerQueue
  <2> QED
    BY <2>1 DEF RelayInv, TypeOK, Batches, Claims, AttemptsLeft, Staged,
                GivenUpForCause
<1>3. ASSUME NEW e \in Events, Enqueue(e) \/ Prune(e)
      PROVE  RelayInv'
  BY <1>3, RowStepKeepsInv
<1>4. ASSUME NEW p \in Relays, Wake(p) \/ Drain(p) \/ ConfirmTimeout(p)
      PROVE  RelayInv'
  <2>1. CASE Wake(p) \/ Claim(p) \/ FailUnpublishable(p)
    BY <2>1, QuietStepsKeepInv
  <2>2. CASE Send(p)
    BY <2>2, SendKeepsInv
  <2>3. CASE SendFails(p) \/ Confirmed(p) \/ ChannelClosed(p) \/ ConfirmTimeout(p)
    BY <2>3, AnsweredKeepsInv
  <2>4. CASE Commit(p)
    BY <2>4, CommitKeepsInv
  <2> QED
    BY <1>4, <2>1, <2>2, <2>3, <2>4 DEF Drain
<1>5. ASSUME NEW p \in Relays, CommitFails(p)
      PROVE  RelayInv'
  BY <1>5, CommitFailsKeepsInv
<1>6. ASSUME NEW p \in Relays, Crash(p) \/ Reconnect(p)
      PROVE  RelayInv'
  <2>1. Restart(p) /\ (Fault \/ faults' = faults) /\ TypeOK
    BY <1>6 DEF Crash, Reconnect, RelayInv
  <2> QED
    BY <2>1, Bounds, RestartKeepsInv
<1>7. ASSUME NEW p \in Relays, BrokerAccepts(p) \/ BrokerNacks(p)
      PROVE  RelayInv'
  BY <1>7, BrokerKeepsInv
<1>8. ASSUME NEW p \in Relays, LoseConnection(p)
      PROVE  RelayInv'
  BY <1>8, LoseConnectionKeepsInv
<1> QED
  BY <1>1, <1>2, <1>3, <1>4, <1>5, <1>6, <1>7, <1>8 DEF Next

\* At the start nothing is staged and every relay sleeps.
LEMMA RelayInvInit == Init => RelayInv
<1> SUFFICES ASSUME Init
             PROVE  RelayInv
  OBVIOUS
<1>1. Asleep \in RelayStates /\ Sound(Asleep) /\ Asleep.claimed = {}
  BY IdleStates DEF Asleep
<1>2. \A p \in Relays : relay[p] = Asleep /\ wire[p] = <<>>
  BY DEF Init
<1>3. relay \in [Relays -> RelayStates]
  BY <1>1 DEF Init
<1>4. TypeOK
  BY <1>3, OutboxAssumption DEF Init, TypeOK, RelayStates
<1>5. Batches /\ Claims
  BY <1>1, <1>2 DEF Batches, Claims
<1>6. AttemptsLeft /\ GivenUpForCause
  BY OutboxAssumption DEF Init, AttemptsLeft, GivenUpForCause
<1>7. Staged
  <2>1. Elements(<<>>) = {}
    <3>1. 1 .. Len(<<>>) = {}
      OBVIOUS
    <3> QED
      BY <3>1 DEF Elements
  <2> QED
    BY <1>2, <2>1 DEF Staged
<1> QED
  BY <1>4, <1>5, <1>6, <1>7 DEF RelayInv

\* The invariant holds of every outbox.
LEMMA RelayInvHolds == Spec => []RelayInv
<1> QED
  BY RelayInvInit, RelayInvStep, PTL DEF Spec

\* The outbox, its relays and their channels keep their types.
THEOREM TypeCorrect == Spec => []TypeOK
<1>1. RelayInv => TypeOK
  BY DEF RelayInv
<1> QED
  BY <1>1, RelayInvHolds, PTL

\* A row is given up only when it can never be published or has used up its
\* attempts, and an event that was never staged never reaches anyone
\* (GivenUpForCause).
THEOREM RowsAreGivenUpForCause == Spec => []GivenUpForCause
<1>1. RelayInv => GivenUpForCause
  BY DEF RelayInv
<1> QED
  BY <1>1, RelayInvHolds, PTL

-----------------------------------------------------------------------------
(* Every copy beyond the first is owed to a fault or a timeout. *)

\* A relay carries an event from its publish to the end of the transaction.
Carries(p, e) ==
  \/ e \in relay[p].sent
  \/ relay[p].pc = "wait" /\ InHand(p) = e

\* The first copy of an event needs no excuse: it is the one on its way to a
\* commit on a channel that works, or it was committed.
Excused(e) == Settled(e) \/ \E p \in Relays : open[p] /\ Carries(p, e)

OnWire(e) == Places(wire, e)
Nacks == Places(confirms, "nack")

\* Every other copy, and every nack that was not read yet, is owed to a fault or
\* a timeout of its own.
Owed(e) ==
  /\ IsFiniteSet(OnWire(e))
  /\ routed[e] + Cardinality(OnWire(e)) + Cardinality(Nacks)
       <= faults + timeouts + IF Excused(e) THEN 1 ELSE 0

CopiesOwed == IsFiniteSet(Nacks) /\ \A e \in Events : Owed(e)

LedgerInv == RelayInv /\ CopiesOwed

\* The quantities of the ledger are numbers.
LEMMA LedgerTyped ==
  ASSUME TypeOK, CopiesOwed, NEW e \in Events
  PROVE  /\ faults \in Nat /\ timeouts \in Nat /\ routed[e] \in Nat
         /\ IsFiniteSet(OnWire(e)) /\ IsFiniteSet(Nacks)
         /\ Cardinality(OnWire(e)) \in Nat /\ Cardinality(Nacks) \in Nat
BY Bounds, FS_CardinalityType DEF TypeOK, CopiesOwed, Owed

\* What a relay carries it has claimed, and so it is pending.
LEMMA CarriedIsClaimed ==
  ASSUME RelayInv, NEW p \in Relays, NEW e \in Events, Carries(p, e)
  PROVE  e \in relay[p].claimed /\ row[e] = "pending"
<1>1. Sound(relay[p]) /\ relay[p].batch \in Seq(Events)
  BY RelayTyped DEF RelayInv, Batches
<1>2. e \in relay[p].claimed
  <2>1. CASE e \in relay[p].sent
    BY <1>1, <2>1 DEF Sound
  <2>2. CASE relay[p].pc = "wait" /\ InHand(p) = e
    <3>1. relay[p].batch # <<>>
      BY <1>1, <2>2 DEF Sound
    <3>2. e \in Elements(relay[p].batch)
      BY <1>1, <2>2, <3>1, ChannelElements DEF InHand
    <3> QED
      BY <1>1, <3>2 DEF Sound
  <2> QED
    BY <2>1, <2>2 DEF Carries
<1> QED
  BY <1>2 DEF RelayInv, Claims

\* A step that routes nothing: the channels hold no more than before, and an
\* excuse that is gone is paid for by a fault, a timeout, or a nack that is read.
LEMMA LedgerStep ==
  ASSUME RelayInv, CopiesOwed, TypeOK',
         IsFiniteSet(Nacks'), NEW paid \in {0, 1},
         faults + timeouts + Cardinality(Nacks') + paid
           <= faults' + timeouts' + Cardinality(Nacks),
         \A e \in Events :
           /\ IsFiniteSet(OnWire(e)')
           /\ routed'[e] + Cardinality(OnWire(e)') <= routed[e] + Cardinality(OnWire(e))
           /\ Excused(e) => Excused(e)' \/ paid = 1
  PROVE  CopiesOwed'
<1> SUFFICES ASSUME NEW e \in Events
             PROVE  routed'[e] + Cardinality(OnWire(e)') + Cardinality(Nacks')
                      <= faults' + timeouts' + IF Excused(e)' THEN 1 ELSE 0
  BY DEF CopiesOwed, Owed
<1>1. /\ faults \in Nat /\ timeouts \in Nat /\ routed[e] \in Nat
      /\ Cardinality(OnWire(e)) \in Nat /\ Cardinality(Nacks) \in Nat
  BY LedgerTyped DEF RelayInv
<1>2. /\ faults' \in Nat /\ timeouts' \in Nat /\ routed'[e] \in Nat
  BY OutboxAssumption DEF TypeOK
<1>3. Cardinality(OnWire(e)') \in Nat /\ Cardinality(Nacks') \in Nat
  BY FS_CardinalityType
<1>4. routed[e] + Cardinality(OnWire(e)) + Cardinality(Nacks)
        <= faults + timeouts + IF Excused(e) THEN 1 ELSE 0
  BY DEF CopiesOwed, Owed
<1>5. Excused(e) => Excused(e)' \/ paid = 1
  OBVIOUS
<1>6. routed'[e] + Cardinality(OnWire(e)') <= routed[e] + Cardinality(OnWire(e))
  OBVIOUS
<1> DEFINE x == IF Excused(e) THEN 1 ELSE 0
           y == IF Excused(e)' THEN 1 ELSE 0
<1>7. x \in {0, 1} /\ y \in {0, 1} /\ x <= y + paid
  BY <1>5
<1>8. routed[e] + Cardinality(OnWire(e)) + Cardinality(Nacks) <= faults + timeouts + x
  BY <1>4
<1> HIDE DEF x, y
<1>9. routed'[e] + Cardinality(OnWire(e)') + Cardinality(Nacks') <= faults' + timeouts' + y
  BY <1>1, <1>2, <1>3, <1>6, <1>7, <1>8
<1> QED
  BY <1>9 DEF y

\* A step of one relay that settles nothing leaves the excuses of the others.
LEMMA ExcusesKept ==
  ASSUME NEW p \in Relays, NEW paid \in {0, 1},
         \A q \in Relays : q # p => relay'[q] = relay[q] /\ open'[q] = open[q],
         \A e \in Events : Settled(e) => Settled(e)',
         \A e \in Events :
           open[p] /\ Carries(p, e) =>
             \/ open'[p] /\ Carries(p, e)'
             \/ Settled(e)'
             \/ paid = 1
  PROVE  \A e \in Events : Excused(e) => Excused(e)' \/ paid = 1
<1> SUFFICES ASSUME NEW e \in Events, Excused(e)
             PROVE  Excused(e)' \/ paid = 1
  OBVIOUS
<1>1. CASE Settled(e)
  BY <1>1 DEF Excused
<1>2. ASSUME NEW q \in Relays, open[q], Carries(q, e)
      PROVE  Excused(e)' \/ paid = 1
  <2>1. CASE q = p
    BY <1>2, <2>1 DEF Excused
  <2>2. CASE q # p
    <3>1. open'[q] /\ Carries(q, e)'
      BY <1>2, <2>2 DEF Carries, InHand
    <3> QED
      BY <3>1 DEF Excused
  <2> QED
    BY <2>1, <2>2
<1> QED
  BY <1>1, <1>2 DEF Excused

\* A step of one relay moves no other.
LEMMA BecomesAlone ==
  ASSUME TypeOK, NEW p \in Relays, NEW d, Becomes(p, d)
  PROVE  relay'[p] = d /\ \A q \in Relays : q # p => relay'[q] = relay[q]
BY DEF TypeOK, Becomes

\* A step that leaves the channels alone.
LEMMA ChannelsKept ==
  ASSUME RelayInv, CopiesOwed, TypeOK', NEW paid \in {0, 1},
         UNCHANGED <<wire, confirms, routed>>,
         faults + timeouts + paid <= faults' + timeouts',
         \A e \in Events : Excused(e) => Excused(e)' \/ paid = 1
  PROVE  CopiesOwed'
<1>1. Nacks' = Nacks /\ \A e \in Events : OnWire(e)' = OnWire(e)
  BY DEF Nacks, OnWire
<1>2. /\ faults \in Nat /\ timeouts \in Nat /\ faults' \in Nat /\ timeouts' \in Nat
      /\ IsFiniteSet(Nacks) /\ Cardinality(Nacks) \in Nat
  BY OutboxAssumption, FS_CardinalityType DEF CopiesOwed, RelayInv, TypeOK
<1>3. \A e \in Events :
        /\ IsFiniteSet(OnWire(e)) /\ routed[e] \in Nat
        /\ Cardinality(OnWire(e)) \in Nat
  BY LedgerTyped DEF RelayInv
<1>4. faults + timeouts + Cardinality(Nacks') + paid
        <= faults' + timeouts' + Cardinality(Nacks)
  <2>1. PICK f \in Nat, t \in Nat, g \in Nat, u \in Nat, n \in Nat :
          /\ f = faults /\ t = timeouts /\ g = faults' /\ u = timeouts'
          /\ n = Cardinality(Nacks)
    BY <1>2
  <2>2. f + t + paid <= g + u
    BY <2>1
  <2>3. f + t + n + paid <= g + u + n
    BY <2>2
  <2>4. Cardinality(Nacks') = n
    BY <1>1, <2>1
  <2> QED
    BY <2>1, <2>3, <2>4
<1>5. \A e \in Events :
        /\ IsFiniteSet(OnWire(e)')
        /\ routed'[e] + Cardinality(OnWire(e)') <= routed[e] + Cardinality(OnWire(e))
  BY <1>1, <1>3
<1>6. IsFiniteSet(Nacks')
  BY <1>1, <1>2
<1> QED
  BY <1>4, <1>5, <1>6, LedgerStep

\* The steps of a relay that move nothing on its channel, and keep its excuses.
LEMMA FreeStepsKeepOwed ==
  ASSUME RelayInv, CopiesOwed, TypeOK', NEW p \in Relays,
         \/ Wake(p) \/ Claim(p) \/ FailUnpublishable(p) \/ SendFails(p)
         \/ ChannelClosed(p)
  PROVE  CopiesOwed'
<1> USE DEF RelayInv
<1>1. UNCHANGED <<row, attempts, open, wire, confirms, bound, routed, acked, faults,
                  timeouts>>
  BY DEF Wake, Claim, FailUnpublishable, SendFails, ChannelClosed, brokerVars
<1>2. PICK d : /\ Becomes(p, d)
               /\ open[p] => d.sent = relay[p].sent /\ relay[p].pc # "wait"
  <2>1. CASE Wake(p)
    <3>1. relay[p].sent = {} /\ relay[p].pc # "wait"
      BY <2>1 DEF Wake, Batches, Sound, Idle
    <3> QED
      BY <2>1, <3>1, WakeMoves
  <2>2. CASE Claim(p)
    <3>1. relay[p].sent = {} /\ relay[p].pc # "wait"
      BY <2>2 DEF Claim, Batches, Sound, Idle
    <3> QED
      BY <2>2, <3>1, ClaimMoves
  <2>3. CASE FailUnpublishable(p)
    <3>1. relay[p].pc # "wait"
      BY <2>3 DEF FailUnpublishable
    <3> QED
      BY <2>3, <3>1, FailUnpublishableMoves
  <2>4. CASE SendFails(p) \/ ChannelClosed(p)
    <3>1. ~open[p] /\ Miss(p) /\ relay[p].batch # <<>>
      BY <2>4 DEF SendFails, ChannelClosed, Batches, Sound
    <3> QED
      BY <3>1, MissMoves
  <2> QED
    BY <2>1, <2>2, <2>3, <2>4
<1>3. relay'[p] = d /\ \A q \in Relays : q # p => relay'[q] = relay[q]
  BY <1>2, BecomesAlone
<1>4. \A e \in Events : open[p] /\ Carries(p, e) => open'[p] /\ Carries(p, e)'
  BY <1>1, <1>2, <1>3 DEF Carries
<1>5. \A e \in Events : Settled(e) => Settled(e)'
  BY <1>1 DEF Settled
<1>6. \A e \in Events : Excused(e) => Excused(e)' \/ 0 = 1
  BY <1>1, <1>3, <1>4, <1>5, ExcusesKept
<1>7. faults + timeouts + 0 <= faults' + timeouts'
  BY <1>1, Bounds
<1> QED
  BY <1>1, <1>6, <1>7, ChannelsKept

\* A timeout pays for the event the relay stops carrying.
LEMMA TimeoutKeepsOwed ==
  ASSUME RelayInv, CopiesOwed, TypeOK', NEW p \in Relays, ConfirmTimeout(p)
  PROVE  CopiesOwed'
<1>1. UNCHANGED <<wire, confirms, routed, faults>> /\ timeouts' = timeouts + 1
  BY DEF ConfirmTimeout, brokerVars
<1>2. faults + timeouts + 1 <= faults' + timeouts'
  BY <1>1, Bounds DEF RelayInv
<1> QED
  BY <1>1, <1>2, ChannelsKept

\* A failed commit is a fault that pays for what the transaction had sent.
LEMMA CommitFailsKeepsOwed ==
  ASSUME RelayInv, CopiesOwed, TypeOK', NEW p \in Relays, CommitFails(p)
  PROVE  CopiesOwed'
<1>1. UNCHANGED <<wire, confirms, routed, timeouts>> /\ faults' = faults + 1
  BY DEF CommitFails, Fault, brokerVars
<1>2. faults + timeouts + 1 <= faults' + timeouts'
  BY <1>1, Bounds DEF RelayInv
<1> QED
  BY <1>1, <1>2, ChannelsKept

\* The rows that are staged or pruned, and the consumer that declares its queue,
\* take no excuse away.
LEMMA RowStepsKeepOwed ==
  ASSUME RelayInv, CopiesOwed, TypeOK',
         (\E e \in Events : Enqueue(e) \/ Prune(e)) \/ DeclareConsumerQueue
  PROVE  CopiesOwed'
<1>1. UNCHANGED <<relay, open, wire, confirms, routed, faults, timeouts>>
  BY DEF Enqueue, Prune, DeclareConsumerQueue, brokerVars
<1>2. \A e \in Events : Settled(e) => Settled(e)'
  BY DEF Enqueue, Prune, DeclareConsumerQueue, Settled, RelayInv, TypeOK
<1>3. \A e \in Events : Excused(e) => Excused(e)' \/ 0 = 1
  BY <1>1, <1>2 DEF Excused, Carries, InHand
<1>4. faults + timeouts + 0 <= faults' + timeouts'
  BY <1>1, Bounds DEF RelayInv
<1> QED
  BY <1>1, <1>3, <1>4, ChannelsKept

\* What a relay has sent is published by its commit.
LEMMA CommitKeepsOwed ==
  ASSUME RelayInv, CopiesOwed, TypeOK', NEW p \in Relays, Commit(p)
  PROVE  CopiesOwed'
<1> USE DEF RelayInv
<1>1. UNCHANGED <<open, wire, confirms, routed, faults, timeouts>>
      /\ relay[p].pc # "wait"
  BY DEF Commit, brokerVars
<1>2. \A q \in Relays : q # p => relay'[q] = relay[q]
  BY DEF Commit, TypeOK
<1>3. \A e \in Events :
        row'[e] = IF e \in relay[p].claimed THEN Outcome(p, e) ELSE row[e]
  BY DEF Commit
<1>4. \A e \in Events : Settled(e) => Settled(e)'
  <2>1. \A e \in Events : Settled(e) => e \notin relay[p].claimed
    BY DEF Settled, Claims
  <2> QED
    BY <1>3, <2>1 DEF Settled
<1>5. \A e \in Events : open[p] /\ Carries(p, e) => Settled(e)'
  <2> SUFFICES ASSUME NEW e \in Events, Carries(p, e)
               PROVE  Settled(e)'
    OBVIOUS
  <2>1. e \in relay[p].sent /\ e \in relay[p].claimed
    BY <1>1, CarriedIsClaimed DEF Carries
  <2>2. e \notin relay[p].bad /\ e # relay[p].missed
    BY <2>1, OutboxAssumption DEF Batches, Sound, None, Events
  <2>3. row'[e] = "published"
    BY <1>3, <2>1, <2>2 DEF Outcome
  <2> QED
    BY <2>3 DEF Settled
<1>6. \A e \in Events : Excused(e) => Excused(e)' \/ 0 = 1
  BY <1>1, <1>2, <1>4, <1>5, ExcusesKept
<1>7. faults + timeouts + 0 <= faults' + timeouts'
  BY <1>1, Bounds
<1> QED
  BY <1>1, <1>6, <1>7, ChannelsKept

\* What the nacks and the faults of a step amount to: an excuse is paid for by a
\* fault, or by a nack that is read.
LEMMA Balance ==
  ASSUME TypeOK, TypeOK', IsFiniteSet(Nacks), IsFiniteSet(Nacks'),
         NEW k \in {0, 1}, NEW paid \in {0, 1},
         faults' = faults + k, timeouts' = timeouts,
         Cardinality(Nacks') + paid <= Cardinality(Nacks) + k
  PROVE  faults + timeouts + Cardinality(Nacks') + paid
           <= faults' + timeouts' + Cardinality(Nacks)
<1>1. PICK f \in Nat, t \in Nat, n \in Nat, m \in Nat :
        f = faults /\ t = timeouts /\ n = Cardinality(Nacks) /\ m = Cardinality(Nacks')
  BY Bounds, FS_CardinalityType
<1>2. m + paid <= n + k
  BY <1>1
<1>3. f + t + m + paid <= (f + k) + t + n
  BY <1>2
<1>4. faults' = f + k /\ timeouts' = t
  BY <1>1
<1> QED
  BY <1>1, <1>3, <1>4

\* A channel that is sent one more message, gives up the oldest one, or is gone.
LEMMA WireMoves ==
  ASSUME RelayInv, CopiesOwed, NEW p \in Relays, NEW e \in Events
  PROVE  /\ \A h \in Events : wire' = [wire EXCEPT ![p] = Append(@, h)] =>
              /\ e = h => Grows(OnWire(e), OnWire(e)', 1)
              /\ e # h => Grows(OnWire(e), OnWire(e)', 0)
         /\ wire[p] # <<>> /\ wire' = [wire EXCEPT ![p] = Tail(@)] =>
              /\ e = Head(wire[p]) => Grows(OnWire(e), OnWire(e)', -1)
              /\ e # Head(wire[p]) => Grows(OnWire(e), OnWire(e)', 0)
         /\ wire' = [wire EXCEPT ![p] = <<>>] => Grows(OnWire(e), OnWire(e)', 0)
<1>1. wire \in [Relays -> Seq(Events)] /\ IsFiniteSet(Places(wire, e))
  BY DEF RelayInv, TypeOK, CopiesOwed, Owed, OnWire
<1>2. OnWire(e) = Places(wire, e) /\ OnWire(e)' = Places(wire', e)
  BY DEF OnWire
<1>3. ASSUME NEW h \in Events, wire' = [wire EXCEPT ![p] = Append(@, h)]
      PROVE  /\ e = h => Grows(OnWire(e), OnWire(e)', 1)
             /\ e # h => Grows(OnWire(e), OnWire(e)', 0)
  <2>1. /\ wire'[p] = Append(wire[p], h)
        /\ \A r \in Relays : r # p => wire'[r] = wire[r]
    BY <1>1, <1>3
  <2>2. e = h => Grows(Places(wire, e), Places(wire', e), 1)
    BY <1>1, <2>1, PlacesAppend
  <2>3. e # h => Grows(Places(wire, e), Places(wire', e), 0)
    BY <1>1, <2>1, PlacesAppend
  <2> QED
    BY <1>2, <2>2, <2>3
<1>4. ASSUME wire[p] # <<>>, wire' = [wire EXCEPT ![p] = Tail(@)]
      PROVE  /\ e = Head(wire[p]) => Grows(OnWire(e), OnWire(e)', -1)
             /\ e # Head(wire[p]) => Grows(OnWire(e), OnWire(e)', 0)
  BY <1>1, <1>2, <1>4, PlacesTail
<1>5. ASSUME wire' = [wire EXCEPT ![p] = <<>>]
      PROVE  Grows(OnWire(e), OnWire(e)', 0)
  BY <1>1, <1>2, <1>5, PlacesCleared
<1> QED
  BY <1>3, <1>4, <1>5

\* The same for the confirmations, and the nacks among them.
LEMMA ConfirmsMove ==
  ASSUME RelayInv, CopiesOwed, NEW p \in Relays
  PROVE  /\ confirms' = [confirms EXCEPT ![p] = Append(@, "ack")] =>
              Grows(Nacks, Nacks', 0)
         /\ confirms' = [confirms EXCEPT ![p] = Append(@, "nack")] =>
              Grows(Nacks, Nacks', 1)
         /\ confirms[p] # <<>> /\ confirms' = [confirms EXCEPT ![p] = Tail(@)] =>
              /\ "nack" = Head(confirms[p]) => Grows(Nacks, Nacks', -1)
              /\ "nack" # Head(confirms[p]) => Grows(Nacks, Nacks', 0)
         /\ confirms' \in {confirms, [confirms EXCEPT ![p] = <<>>]} =>
              Grows(Nacks, Nacks', 0)
         /\ IsFiniteSet(Nacks) /\ Cardinality(Nacks) \in Nat
<1>1. confirms \in [Relays -> Seq({"ack", "nack"})] /\ IsFiniteSet(Places(confirms, "nack"))
  BY DEF RelayInv, TypeOK, CopiesOwed, Nacks
<1>2. Nacks = Places(confirms, "nack") /\ Nacks' = Places(confirms', "nack")
  BY DEF Nacks
<1>3. ASSUME confirms' = [confirms EXCEPT ![p] = Append(@, "ack")]
      PROVE  Grows(Nacks, Nacks', 0)
  <2>1. /\ confirms'[p] = Append(confirms[p], "ack")
        /\ \A r \in Relays : r # p => confirms'[r] = confirms[r]
    BY <1>1, <1>3
  <2> DEFINE A == {"ack", "nack"}
             y == "ack"
  <2>2. /\ y \in A /\ y # "nack" /\ confirms \in [Relays -> Seq(A)]
        /\ IsFiniteSet(Places(confirms, "nack"))
        /\ confirms'[p] = Append(confirms[p], y)
        /\ \A r \in Relays : r # p => confirms'[r] = confirms[r]
    BY <1>1, <2>1
  <2> HIDE DEF A, y
  <2>3. "nack" # y => Grows(Places(confirms, "nack"), Places(confirms', "nack"), 0)
    BY <2>2, PlacesAppend, SMTT(30)
  <2> QED
    BY <1>2, <2>2, <2>3
<1>4. ASSUME confirms' = [confirms EXCEPT ![p] = Append(@, "nack")]
      PROVE  Grows(Nacks, Nacks', 1)
  <2>1. /\ confirms'[p] = Append(confirms[p], "nack")
        /\ \A r \in Relays : r # p => confirms'[r] = confirms[r]
    BY <1>1, <1>4
  <2> QED
    BY <1>1, <1>2, <2>1, PlacesAppend
<1>5. ASSUME confirms[p] # <<>>, confirms' = [confirms EXCEPT ![p] = Tail(@)]
      PROVE  /\ "nack" = Head(confirms[p]) => Grows(Nacks, Nacks', -1)
             /\ "nack" # Head(confirms[p]) => Grows(Nacks, Nacks', 0)
  BY <1>1, <1>2, <1>5, PlacesTail
<1>6. IsFiniteSet(Nacks) /\ Cardinality(Nacks) \in Nat
  BY <1>1, <1>2, FS_CardinalityType
<1>7. ASSUME confirms' \in {confirms, [confirms EXCEPT ![p] = <<>>]}
      PROVE  Grows(Nacks, Nacks', 0)
  <2>1. CASE confirms' = confirms
    BY <1>2, <1>6, <2>1 DEF Grows
  <2>2. CASE confirms' = [confirms EXCEPT ![p] = <<>>]
    BY <1>1, <1>2, <2>2, PlacesCleared
  <2> QED
    BY <1>7, <2>1, <2>2
<1> QED
  BY <1>3, <1>4, <1>5, <1>6, <1>7

\* A step of the channels: no event has more copies, routed and under way
\* together, and the nacks and the faults balance.
LEMMA ChannelStep ==
  ASSUME RelayInv, CopiesOwed, TypeOK',
         NEW j \in {-1, 0, 1}, NEW k \in {0, 1}, NEW paid \in {0, 1}, j + paid <= k,
         Grows(Nacks, Nacks', j), faults' = faults + k, timeouts' = timeouts,
         \A e \in Events :
           \/ routed'[e] = routed[e] /\ Grows(OnWire(e), OnWire(e)', 0)
           \/ routed'[e] = routed[e] + 1 /\ Grows(OnWire(e), OnWire(e)', -1),
         \A e \in Events : Excused(e) => Excused(e)' \/ paid = 1
  PROVE  CopiesOwed'
<1>1. IsFiniteSet(Nacks) /\ IsFiniteSet(Nacks')
  BY DEF CopiesOwed, Grows
<1>2. Cardinality(Nacks) \in Nat /\ Cardinality(Nacks') \in Nat
  BY <1>1, FS_CardinalityType
<1>3. Cardinality(Nacks') + paid <= Cardinality(Nacks) + k
  <2>1. PICK n \in Nat, m \in Nat : n = Cardinality(Nacks) /\ m = Cardinality(Nacks')
    BY <1>2
  <2>2. m <= n + j
    BY <2>1 DEF Grows
  <2>3. m + paid <= n + k
    BY <2>2
  <2> QED
    BY <2>1, <2>3
<1>4. faults + timeouts + Cardinality(Nacks') + paid
        <= faults' + timeouts' + Cardinality(Nacks)
  BY <1>1, <1>3, Balance DEF RelayInv
<1>5. \A e \in Events :
        /\ IsFiniteSet(OnWire(e)')
        /\ routed'[e] + Cardinality(OnWire(e)') <= routed[e] + Cardinality(OnWire(e))
  <2> SUFFICES ASSUME NEW e \in Events
               PROVE  /\ IsFiniteSet(OnWire(e)')
                      /\ routed'[e] + Cardinality(OnWire(e)')
                           <= routed[e] + Cardinality(OnWire(e))
    OBVIOUS
  <2>1. IsFiniteSet(OnWire(e)')
    BY DEF Grows
  <2>2. PICK r \in Nat, n \in Nat, m \in Nat :
          /\ r = routed[e] /\ n = Cardinality(OnWire(e))
          /\ m = Cardinality(OnWire(e)')
    BY <2>1, LedgerTyped, FS_CardinalityType DEF RelayInv
  <2>3. CASE routed'[e] = routed[e] /\ Grows(OnWire(e), OnWire(e)', 0)
    <3>1. m <= n + 0
      BY <2>2, <2>3 DEF Grows
    <3>2. r + m <= r + n
      BY <3>1
    <3> QED
      BY <2>1, <2>2, <2>3, <3>2
  <2>4. CASE routed'[e] = routed[e] + 1 /\ Grows(OnWire(e), OnWire(e)', -1)
    <3>1. m <= n + (-1)
      BY <2>2, <2>4 DEF Grows
    <3>2. (r + 1) + m <= r + n
      BY <3>1
    <3> QED
      BY <2>1, <2>2, <2>4, <3>2
  <2> QED
    BY <2>3, <2>4
<1> QED
  BY <1>1, <1>4, <1>5, LedgerStep

\* The first copy of an event is sent by the only relay that can send it.
LEMMA SendKeepsOwed ==
  ASSUME RelayInv, CopiesOwed, TypeOK', NEW p \in Relays, Send(p)
  PROVE  CopiesOwed'
<1> USE DEF RelayInv
<1>0. PICK h : h = InHand(p)
  OBVIOUS
<1>1. /\ UNCHANGED <<row, open, confirms, routed, faults, timeouts>>
      /\ open[p] /\ relay[p].pc = "publish" /\ relay[p].batch # <<>>
      /\ wire' = [wire EXCEPT ![p] = Append(@, h)]
  BY <1>0 DEF Send
<1>2. relay[p].batch \in Seq(Events) /\ Sound(relay[p])
  BY RelayTyped DEF Batches
<1>3. h \in Elements(relay[p].batch) /\ h \in Events
  BY <1>0, <1>1, <1>2, ChannelElements DEF InHand
<1>4. h \in relay[p].claimed /\ h \notin relay[p].sent /\ row[h] = "pending"
  BY <1>2, <1>3 DEF Sound, Claims
<1>5. ~Excused(h)
  <2>1. ~Settled(h)
    BY <1>4 DEF Settled
  <2>2. ASSUME NEW q \in Relays, Carries(q, h)
        PROVE  FALSE
    <3>1. h \in relay[q].claimed
      BY <1>3, <2>2, CarriedIsClaimed
    <3>2. q = p
      BY <1>4, <3>1 DEF Claims
    <3> QED
      BY <1>1, <1>4, <2>2, <3>2 DEF Carries
  <2> QED
    BY <2>1, <2>2 DEF Excused
<1>6. PICK d : /\ Becomes(p, d)
               /\ d.pc = "wait" /\ d.batch = relay[p].batch /\ d.sent = relay[p].sent
  BY SendMoves
<1>7. relay'[p] = d /\ \A q \in Relays : q # p => relay'[q] = relay[q]
  BY <1>6, BecomesAlone
<1>8. Excused(h)'
  <2>1. InHand(p)' = h
    BY <1>0, <1>6, <1>7 DEF InHand
  <2>2. open'[p] /\ Carries(p, h)'
    BY <1>1, <1>6, <1>7, <2>1 DEF Carries
  <2> QED
    BY <2>2 DEF Excused
<1>9. \A e \in Events : Settled(e) => Settled(e)'
  BY <1>1 DEF Settled
<1>10. \A e \in Events : open[p] /\ Carries(p, e) => open'[p] /\ Carries(p, e)'
  BY <1>1, <1>6, <1>7 DEF Carries
<1>11. \A e \in Events : Excused(e) => Excused(e)' \/ 0 = 1
  BY <1>1, <1>7, <1>9, <1>10, ExcusesKept
<1>12. Nacks' = Nacks /\ IsFiniteSet(Nacks) /\ Cardinality(Nacks) \in Nat
  BY <1>1, ConfirmsMove DEF Nacks
<1> SUFFICES ASSUME NEW e \in Events
             PROVE  Owed(e)'
  BY <1>12 DEF CopiesOwed
<1>13. /\ e = h => Grows(OnWire(e), OnWire(e)', 1)
       /\ e # h => Grows(OnWire(e), OnWire(e)', 0)
  BY <1>1, <1>3, WireMoves
<1>14. IsFiniteSet(OnWire(e)')
  BY <1>13 DEF Grows
<1>15. PICK f \in Nat, t \in Nat, r \in Nat, n \in Nat, m \in Nat, b \in Nat :
         /\ f = faults /\ t = timeouts /\ r = routed[e] /\ b = Cardinality(Nacks)
         /\ n = Cardinality(OnWire(e)) /\ m = Cardinality(OnWire(e)')
  BY <1>14, LedgerTyped, FS_CardinalityType
<1>16. r + n + b <= f + t + IF Excused(e) THEN 1 ELSE 0
  BY <1>15 DEF CopiesOwed, Owed
<1>17. r + m + b <= f + t + IF Excused(e)' THEN 1 ELSE 0
  <2>1. CASE e = h
    <3>1. m <= n + 1
      BY <1>13, <1>15, <2>1 DEF Grows
    <3>2. r + n + b <= f + t + 0
      BY <1>5, <1>16, <2>1
    <3>3. r + m + b <= f + t + 1
      BY <3>1, <3>2
    <3>4. Excused(e)'
      BY <1>8, <2>1
    <3> QED
      BY <3>3, <3>4
  <2>2. CASE e # h
    <3>1. m <= n + 0
      BY <1>13, <1>15, <2>2 DEF Grows
    <3>2. CASE Excused(e)
      <4>1. r + m + b <= f + t + 1
        BY <1>16, <3>1, <3>2
      <4>2. Excused(e)'
        BY <1>11, <3>2
      <4> QED
        BY <4>1, <4>2
    <3>3. CASE ~Excused(e)
      <4>1. r + m + b <= f + t
        BY <1>16, <3>1, <3>3
      <4> QED
        BY <4>1
    <3> QED
      BY <3>2, <3>3
  <2> QED
    BY <2>1, <2>2
<1>18. /\ routed'[e] = r /\ faults' = f /\ timeouts' = t
       /\ Cardinality(OnWire(e)') = m /\ Cardinality(Nacks') = b
  BY <1>1, <1>12, <1>15
<1> QED
  BY <1>14, <1>17, <1>18 DEF Owed

\* A nack that is read pays for the copy it was the answer to, or for another.
LEMMA ConfirmedKeepsOwed ==
  ASSUME RelayInv, CopiesOwed, TypeOK', NEW p \in Relays, Confirmed(p)
  PROVE  CopiesOwed'
<1> USE DEF RelayInv
<1>0. PICK h : h = InHand(p)
  OBVIOUS
<1>1. /\ UNCHANGED <<row, open, wire, routed, faults, timeouts>>
      /\ relay[p].pc = "wait" /\ confirms[p] # <<>>
      /\ confirms' = [confirms EXCEPT ![p] = Tail(@)]
  BY DEF Confirmed
<1>2. \A e \in Events : routed'[e] = routed[e] /\ Grows(OnWire(e), OnWire(e)', 0)
  <2>1. \A e \in Events : OnWire(e)' = OnWire(e)
    BY <1>1 DEF OnWire
  <2>2. \A e \in Events : IsFiniteSet(OnWire(e)) /\ Cardinality(OnWire(e)) \in Nat
    BY LedgerTyped
  <2> QED
    BY <1>1, <2>1, <2>2 DEF Grows
<1>3. faults' = faults + 0
  BY <1>1, Bounds
<1>4. CASE Head(confirms[p]) = "nack"
  <2>1. Grows(Nacks, Nacks', -1)
    BY <1>1, <1>4, ConfirmsMove
  <2> QED
    BY <1>1, <1>2, <1>3, <2>1, ChannelStep
<1>5. CASE Head(confirms[p]) # "nack"
  <2>1. Grows(Nacks, Nacks', 0)
    BY <1>1, <1>5, ConfirmsMove
  <2>2. Head(confirms[p]) = "ack"
    <3>1. confirms[p] \in Seq({"ack", "nack"})
      BY DEF TypeOK
    <3>2. Head(confirms[p]) \in {"ack", "nack"}
      BY <1>1, <3>1, HeadTailProperties
    <3> QED
      BY <1>5, <3>2
  <2>3. PICK d : /\ Becomes(p, d)
                 /\ d.pc = "publish"
                 /\ d.sent = relay[p].sent \cup {h}
    BY <1>0, <2>2, ConfirmedMoves
  <2>4. relay'[p] = d /\ \A q \in Relays : q # p => relay'[q] = relay[q]
    BY <2>3, BecomesAlone
  <2>5. \A e \in Events : open[p] /\ Carries(p, e) => open'[p] /\ Carries(p, e)'
    BY <1>0, <1>1, <2>3, <2>4 DEF Carries
  <2>6. \A e \in Events : Settled(e) => Settled(e)'
    BY <1>1 DEF Settled
  <2>7. \A e \in Events : Excused(e) => Excused(e)' \/ 0 = 1
    BY <1>1, <2>4, <2>5, <2>6, ExcusesKept
  <2> QED
    BY <1>1, <1>2, <1>3, <2>1, <2>7, ChannelStep
<1> QED
  BY <1>4, <1>5

\* A restart clears the channel; it is a fault, or the channel was closed and
\* excused nothing.
LEMMA RestartKeepsOwed ==
  ASSUME RelayInv, CopiesOwed, TypeOK', NEW p \in Relays, Crash(p) \/ Reconnect(p)
  PROVE  CopiesOwed'
<1> USE DEF RelayInv
<1>1. /\ UNCHANGED <<row, routed, timeouts>>
      /\ wire' = [wire EXCEPT ![p] = <<>>]
      /\ confirms' = [confirms EXCEPT ![p] = <<>>]
      /\ open' = [open EXCEPT ![p] = TRUE]
      /\ relay' = [relay EXCEPT ![p] = Asleep]
  BY DEF Crash, Reconnect, Restart
<1>2. Grows(Nacks, Nacks', 0)
  BY <1>1, ConfirmsMove
<1>3. \A e \in Events : routed'[e] = routed[e] /\ Grows(OnWire(e), OnWire(e)', 0)
  BY <1>1, WireMoves
<1>4. CASE Crash(p)
  <2>1. faults' = faults + 1
    BY <1>4 DEF Crash, Fault
  <2> QED
    BY <1>1, <1>2, <1>3, <2>1, ChannelStep
<1>5. CASE Reconnect(p)
  <2>1. faults' = faults + 0 /\ ~open[p]
    BY <1>5, Bounds DEF Reconnect
  <2>2. \A q \in Relays : q # p => relay'[q] = relay[q] /\ open'[q] = open[q]
    BY <1>1 DEF TypeOK
  <2>3. \A e \in Events : Settled(e) => Settled(e)'
    BY <1>1 DEF Settled
  <2>4. \A e \in Events : Excused(e) => Excused(e)' \/ 0 = 1
    BY <2>1, <2>2, <2>3, ExcusesKept
  <2> QED
    BY <1>1, <1>2, <1>3, <2>1, <2>4, ChannelStep
<1> QED
  BY <1>4, <1>5

\* What the broker does moves no relay and no row.
LEMMA BrokerKeepsOwed ==
  ASSUME RelayInv, CopiesOwed, TypeOK', NEW p \in Relays,
         BrokerAccepts(p) \/ BrokerNacks(p) \/ LoseConnection(p)
  PROVE  CopiesOwed'
<1> USE DEF RelayInv
<1>1. UNCHANGED <<row, relay, timeouts>>
  BY DEF BrokerAccepts, BrokerNacks, LoseConnection
<1>2. open' = open => \A e \in Events : Excused(e) => Excused(e)' \/ 0 = 1
  <2>1. open' = open => \A e \in Events : Excused(e) => Excused(e)'
    BY <1>1 DEF Excused, Settled, Carries, InHand
  <2> QED
    BY <2>1
<1>3. \A e \in Events : Grows(OnWire(e), OnWire(e)', -1) => Grows(OnWire(e), OnWire(e)', 0)
  <2> SUFFICES ASSUME NEW e \in Events, Grows(OnWire(e), OnWire(e)', -1)
               PROVE  Grows(OnWire(e), OnWire(e)', 0)
    OBVIOUS
  <2>1. IsFiniteSet(OnWire(e)')
    BY DEF Grows
  <2>2. PICK n \in Nat, m \in Nat :
          n = Cardinality(OnWire(e)) /\ m = Cardinality(OnWire(e)')
    BY <2>1, LedgerTyped, FS_CardinalityType
  <2>3. m <= n + 0
    BY <2>2 DEF Grows
  <2> QED
    BY <2>1, <2>2, <2>3 DEF Grows
<1>4. CASE BrokerAccepts(p)
  <2>0. PICK h : h = Head(wire[p])
    OBVIOUS
  <2>1. /\ wire[p] # <<>> /\ open' = open
        /\ wire' = [wire EXCEPT ![p] = Tail(@)]
        /\ confirms' = [confirms EXCEPT ![p] = Append(@, "ack")]
        /\ routed' = routed \/ routed' = [routed EXCEPT ![h] = @ + 1]
        /\ faults' = faults + 0
    BY <1>4, <2>0, Bounds DEF BrokerAccepts
  <2>2. h \in Events
    <3>1. wire[p] \in Seq(Events)
      BY DEF TypeOK
    <3> QED
      BY <2>0, <2>1, <3>1, HeadTailProperties
  <2>3. Grows(Nacks, Nacks', 0)
    BY <2>1, ConfirmsMove
  <2>4. \A e \in Events : /\ e = h => Grows(OnWire(e), OnWire(e)', -1)
                          /\ e # h => Grows(OnWire(e), OnWire(e)', 0)
    BY <2>0, <2>1, WireMoves
  <2>5. \A e \in Events :
          \/ routed'[e] = routed[e] /\ Grows(OnWire(e), OnWire(e)', 0)
          \/ routed'[e] = routed[e] + 1 /\ Grows(OnWire(e), OnWire(e)', -1)
    <3>1. CASE routed' = routed
      BY <1>3, <2>4, <3>1
    <3>2. CASE routed' = [routed EXCEPT ![h] = @ + 1]
      BY <2>2, <2>4, <3>2 DEF TypeOK
    <3> QED
      BY <2>1, <3>1, <3>2
  <2> QED
    BY <1>1, <1>2, <2>1, <2>3, <2>5, ChannelStep
<1>5. CASE BrokerNacks(p)
  <2>1. /\ wire[p] # <<>> /\ open' = open /\ routed' = routed
        /\ wire' = [wire EXCEPT ![p] = Tail(@)]
        /\ confirms' = [confirms EXCEPT ![p] = Append(@, "nack")]
        /\ faults' = faults + 1
    BY <1>5 DEF BrokerNacks, Fault
  <2>2. Grows(Nacks, Nacks', 1)
    BY <2>1, ConfirmsMove
  <2>3. \A e \in Events : /\ e = Head(wire[p]) => Grows(OnWire(e), OnWire(e)', -1)
                          /\ e # Head(wire[p]) => Grows(OnWire(e), OnWire(e)', 0)
    BY <2>1, WireMoves
  <2>4. \A e \in Events : routed'[e] = routed[e] /\ Grows(OnWire(e), OnWire(e)', 0)
    BY <1>3, <2>1, <2>3
  <2> QED
    BY <1>1, <1>2, <2>1, <2>2, <2>4, ChannelStep
<1>6. CASE LoseConnection(p)
  <2>1. /\ routed' = routed
        /\ wire' = [wire EXCEPT ![p] = <<>>]
        /\ confirms' \in {confirms, [confirms EXCEPT ![p] = <<>>]}
        /\ faults' = faults + 1
    BY <1>6 DEF LoseConnection, Fault
  <2>2. Grows(Nacks, Nacks', 0)
    BY <2>1, ConfirmsMove
  <2>3. \A e \in Events : routed'[e] = routed[e] /\ Grows(OnWire(e), OnWire(e)', 0)
    BY <2>1, WireMoves
  <2> QED
    BY <1>1, <2>1, <2>2, <2>3, ChannelStep
<1> QED
  BY <1>4, <1>5, <1>6

\* At the start nothing is under way.
LEMMA CopiesOwedInit == Init => CopiesOwed
<1> SUFFICES ASSUME Init
             PROVE  CopiesOwed
  OBVIOUS
<1>1. \A p \in Relays : 1 .. Len(wire[p]) = {} /\ 1 .. Len(confirms[p]) = {}
  BY DEF Init
<1>2. Nacks = {} /\ \A e \in Events : OnWire(e) = {}
  BY <1>1 DEF Nacks, OnWire, Places, Slot
<1>3. IsFiniteSet({}) /\ Cardinality({}) = 0
  BY FS_EmptySet
<1> SUFFICES ASSUME NEW e \in Events
             PROVE  routed[e] + Cardinality(OnWire(e)) + Cardinality(Nacks)
                      <= faults + timeouts + IF Excused(e) THEN 1 ELSE 0
  BY <1>2, <1>3 DEF CopiesOwed, Owed
<1>4. Cardinality(OnWire(e)) = 0 /\ Cardinality(Nacks) = 0
  BY <1>2, <1>3
<1> QED
  BY <1>4 DEF Init

\* Every step keeps the ledger.
LEMMA LedgerInvStep == LedgerInv /\ [Next]_vars => LedgerInv'
<1> SUFFICES ASSUME RelayInv, CopiesOwed, [Next]_vars
             PROVE  LedgerInv'
  BY DEF LedgerInv
<1>1. RelayInv'
  BY RelayInvStep
<1>2. TypeOK'
  BY <1>1 DEF RelayInv
<1>3. CASE (\E e \in Events : Enqueue(e) \/ Prune(e)) \/ DeclareConsumerQueue
  BY <1>1, <1>2, <1>3, RowStepsKeepOwed DEF LedgerInv
<1>4. ASSUME NEW p \in Relays,
             \/ Wake(p) \/ Claim(p) \/ FailUnpublishable(p) \/ SendFails(p)
             \/ ChannelClosed(p)
      PROVE  LedgerInv'
  BY <1>1, <1>2, <1>4, FreeStepsKeepOwed DEF LedgerInv
<1>5. ASSUME NEW p \in Relays, Send(p)
      PROVE  LedgerInv'
  BY <1>1, <1>2, <1>5, SendKeepsOwed DEF LedgerInv
<1>6. ASSUME NEW p \in Relays, Confirmed(p)
      PROVE  LedgerInv'
  BY <1>1, <1>2, <1>6, ConfirmedKeepsOwed DEF LedgerInv
<1>7. ASSUME NEW p \in Relays, Commit(p)
      PROVE  LedgerInv'
  BY <1>1, <1>2, <1>7, CommitKeepsOwed DEF LedgerInv
<1>8. ASSUME NEW p \in Relays, ConfirmTimeout(p)
      PROVE  LedgerInv'
  BY <1>1, <1>2, <1>8, TimeoutKeepsOwed DEF LedgerInv
<1>9. ASSUME NEW p \in Relays, CommitFails(p)
      PROVE  LedgerInv'
  BY <1>1, <1>2, <1>9, CommitFailsKeepsOwed DEF LedgerInv
<1>10. ASSUME NEW p \in Relays, Crash(p) \/ Reconnect(p)
       PROVE  LedgerInv'
  BY <1>1, <1>2, <1>10, RestartKeepsOwed DEF LedgerInv
<1>11. ASSUME NEW p \in Relays,
              BrokerAccepts(p) \/ BrokerNacks(p) \/ LoseConnection(p)
       PROVE  LedgerInv'
  BY <1>1, <1>2, <1>11, BrokerKeepsOwed DEF LedgerInv
<1>12. CASE UNCHANGED vars
  <2>1. UNCHANGED <<row, relay, open, wire, confirms, routed, faults, timeouts>>
    BY <1>12 DEF vars
  <2>2. CopiesOwed'
    BY <2>1 DEF CopiesOwed, Owed, OnWire, Nacks, Excused, Settled, Carries, InHand
  <2> QED
    BY <1>1, <2>2 DEF LedgerInv
<1> QED
  BY <1>3, <1>4, <1>5, <1>6, <1>7, <1>8, <1>9, <1>10, <1>11, <1>12 DEF Next, Drain

\* The replicas never publish an event twice between them, but for a fault or a
\* late confirm each (FOR UPDATE SKIP LOCKED in publishBatch, and the commit that
\* takes a published row out of the backlog): every copy beyond the first is paid
\* for by one of its own.
THEOREM DuplicatesAreOwed == Spec => []DuplicatesNeedFaults
<1>1. Init => LedgerInv
  BY RelayInvInit, CopiesOwedInit DEF LedgerInv
<1>2. LedgerInv => DuplicatesNeedFaults
  <2> SUFFICES ASSUME RelayInv, CopiesOwed, NEW e \in Events
               PROVE  routed[e] <= 1 + faults + timeouts
    BY DEF LedgerInv, DuplicatesNeedFaults
  <2>1. PICK f \in Nat, t \in Nat, r \in Nat, n \in Nat, b \in Nat :
          /\ f = faults /\ t = timeouts /\ r = routed[e] /\ b = Cardinality(Nacks)
          /\ n = Cardinality(OnWire(e))
    BY LedgerTyped DEF RelayInv
  <2>2. r + n + b <= f + t + IF Excused(e) THEN 1 ELSE 0
    BY <2>1 DEF CopiesOwed, Owed
  <2>3. r <= 1 + f + t
    BY <2>2
  <2> QED
    BY <2>1, <2>3
<1> QED
  BY <1>1, <1>2, LedgerInvStep, PTL DEF Spec

-----------------------------------------------------------------------------
(* What holds as long as every confirm comes in time. *)

\* A channel holds nothing but what its relay is waiting for: the message in
\* hand, or what the broker made of it.
InTurn(p) ==
  \/ relay[p].pc # "wait" /\ wire[p] = <<>> /\ confirms[p] = <<>>
  \/ /\ relay[p].pc = "wait"
     /\ \/ open[p] /\ wire[p] = <<InHand(p)>> /\ confirms[p] = <<>>
        \/ ~open[p] /\ wire[p] = <<>> /\ confirms[p] = <<>>
        \/ wire[p] = <<>> /\ confirms[p] = <<"nack">>
        \/ wire[p] = <<>> /\ confirms[p] = <<"ack">> /\ InHand(p) \in acked

Turns ==
  /\ \A p \in Relays : InTurn(p)
  /\ \A p \in Relays : relay[p].sent \subseteq acked
  /\ ConfirmedBeforePublished

AckInv == RelayInv /\ Turns

\* A sequence of one element.
LEMMA OneElement ==
  \A x : /\ Append(<<>>, x) = <<x>> /\ Head(<<x>>) = x /\ Tail(<<x>>) = <<>>
         /\ <<x>> # <<>>
OBVIOUS

\* What one channel and its relay go through, the others do not notice.
LEMMA OneTurn ==
  ASSUME Turns, NEW p \in Relays,
         \A q \in Relays : q # p =>
           /\ relay'[q] = relay[q] /\ open'[q] = open[q]
           /\ wire'[q] = wire[q] /\ confirms'[q] = confirms[q],
         acked \subseteq acked',
         InTurn(p)', relay'[p].sent \subseteq acked',
         \A e \in Events : Settled(e)' => Settled(e) \/ e \in acked'
  PROVE  Turns'
<1>1. ASSUME NEW q \in Relays
      PROVE  InTurn(q)' /\ relay'[q].sent \subseteq acked'
  <2>1. CASE q # p
    BY <2>1 DEF Turns, InTurn, InHand
  <2>2. CASE q = p
    BY <2>2
  <2> QED
    BY <2>1, <2>2
<1>2. ConfirmedBeforePublished'
  BY DEF Turns, ConfirmedBeforePublished
<1> QED
  BY <1>1, <1>2 DEF Turns

\* A step of the relay that leaves its channel alone.
LEMMA RelayTurns ==
  ASSUME AckInv, NEW p \in Relays, NEW d, Becomes(p, d),
         d.pc # "wait", wire[p] = <<>>, confirms'[p] = <<>>, d.sent \subseteq acked,
         \A q \in Relays : q # p => confirms'[q] = confirms[q],
         UNCHANGED <<row, open, wire, acked>>
  PROVE  Turns'
<1>1. relay'[p] = d /\ \A q \in Relays : q # p => relay'[q] = relay[q]
  BY BecomesAlone DEF AckInv, RelayInv
<1>2. InTurn(p)'
  BY <1>1 DEF InTurn
<1>3. \A e \in Events : Settled(e)' => Settled(e) \/ e \in acked'
  BY DEF Settled
<1> QED
  BY <1>1, <1>2, <1>3, OneTurn DEF AckInv

\* No step but a late confirm breaks the turns of a channel.
LEMMA TurnStep == MaxTimeouts = 0 /\ AckInv /\ [Next]_vars => Turns'
<1> SUFFICES ASSUME MaxTimeouts = 0, AckInv, [Next]_vars
             PROVE  Turns'
  OBVIOUS
<1> USE DEF AckInv, RelayInv
<1>1. CASE UNCHANGED vars
  BY <1>1 DEF vars, Turns, InTurn, InHand, ConfirmedBeforePublished, Settled
<1>2. CASE (\E e \in Events : Enqueue(e) \/ Prune(e)) \/ DeclareConsumerQueue
  <2>1. UNCHANGED <<relay, open, wire, confirms, acked>>
    BY <1>2 DEF Enqueue, Prune, DeclareConsumerQueue, brokerVars
  <2>2. \A e \in Events : Settled(e)' => Settled(e)
    BY <1>2 DEF Enqueue, Prune, DeclareConsumerQueue, Settled, TypeOK
  <2> QED
    BY <2>1, <2>2 DEF Turns, InTurn, InHand, ConfirmedBeforePublished
<1>3. ASSUME NEW p \in Relays, Wake(p) \/ Claim(p) \/ FailUnpublishable(p)
      PROVE  Turns'
  <2>1. /\ relay[p].pc # "wait" /\ wire[p] = <<>> /\ confirms[p] = <<>>
        /\ relay[p].sent \subseteq acked
    BY <1>3 DEF Wake, Claim, FailUnpublishable, Turns, InTurn
  <2>2. UNCHANGED <<row, open, wire, confirms, acked>>
    BY <1>3 DEF Wake, Claim, FailUnpublishable, brokerVars
  <2>3. PICK d : Becomes(p, d) /\ d.pc # "wait" /\ d.sent \subseteq relay[p].sent
    BY <1>3, WakeMoves, ClaimMoves, FailUnpublishableMoves
  <2> QED
    BY <2>1, <2>2, <2>3, RelayTurns
<1>4. ASSUME NEW p \in Relays, SendFails(p) \/ ChannelClosed(p)
      PROVE  Turns'
  <2>1. /\ wire[p] = <<>> /\ confirms[p] = <<>> /\ relay[p].sent \subseteq acked
        /\ relay[p].batch # <<>> /\ Miss(p)
    BY <1>4 DEF SendFails, ChannelClosed, Turns, InTurn, Batches, Sound
  <2>2. UNCHANGED <<row, open, wire, confirms, acked>>
    BY <1>4 DEF SendFails, ChannelClosed, brokerVars
  <2>3. PICK d : Becomes(p, d) /\ d.pc # "wait" /\ d.sent = relay[p].sent
    BY <2>1, MissMoves
  <2> QED
    BY <2>1, <2>2, <2>3, RelayTurns
<1>5. ASSUME NEW p \in Relays, Send(p)
      PROVE  Turns'
  <2>1. /\ wire[p] = <<>> /\ confirms[p] = <<>> /\ relay[p].sent \subseteq acked
        /\ open[p]
    BY <1>5 DEF Send, Turns, InTurn
  <2>2. /\ wire' = [wire EXCEPT ![p] = Append(@, InHand(p))]
        /\ UNCHANGED <<row, open, confirms, acked>>
    BY <1>5 DEF Send
  <2>3. /\ wire'[p] = <<InHand(p)>>
        /\ \A q \in Relays : q # p => wire'[q] = wire[q]
    BY <2>1, <2>2, OneElement DEF TypeOK
  <2>4. PICK d : /\ Becomes(p, d) /\ d.pc = "wait" /\ d.batch = relay[p].batch
                 /\ d.sent = relay[p].sent
    BY <1>5, SendMoves
  <2>5. relay'[p] = d /\ \A q \in Relays : q # p => relay'[q] = relay[q]
    BY <2>4, BecomesAlone
  <2>6. InTurn(p)'
    BY <2>1, <2>2, <2>3, <2>4, <2>5 DEF InTurn, InHand
  <2>7. \A e \in Events : Settled(e)' => Settled(e) \/ e \in acked'
    BY <2>2 DEF Settled
  <2> QED
    BY <2>1, <2>2, <2>3, <2>4, <2>5, <2>6, <2>7, OneTurn
<1>6. ASSUME NEW p \in Relays, Confirmed(p)
      PROVE  Turns'
  <2>1. /\ wire[p] = <<>> /\ relay[p].sent \subseteq acked
        /\ \/ confirms[p] = <<"nack">>
           \/ confirms[p] = <<"ack">> /\ InHand(p) \in acked
        /\ relay[p].batch # <<>>
    BY <1>6 DEF Confirmed, Turns, InTurn, Batches, Sound
  <2>2. /\ confirms' = [confirms EXCEPT ![p] = Tail(@)]
        /\ UNCHANGED <<row, open, wire, acked>>
    BY <1>6 DEF Confirmed
  <2>3. confirms'[p] = <<>> /\ \A q \in Relays : q # p => confirms'[q] = confirms[q]
    BY <2>1, <2>2, OneElement DEF TypeOK
  <2>4. CASE Head(confirms[p]) = "ack"
    <3>1. InHand(p) \in acked
      BY <2>1, <2>4, OneElement
    <3>2. PICK d : /\ Becomes(p, d) /\ d.pc # "wait"
                   /\ d.sent = relay[p].sent \cup {InHand(p)}
      BY <1>6, <2>4, ConfirmedMoves
    <3> QED
      BY <2>1, <2>2, <2>3, <3>1, <3>2, RelayTurns
  <2>5. CASE Head(confirms[p]) # "ack"
    <3>1. Miss(p)
      BY <1>6, <2>5 DEF Confirmed
    <3>2. PICK d : Becomes(p, d) /\ d.pc # "wait" /\ d.sent = relay[p].sent
      BY <2>1, <3>1, MissMoves
    <3> QED
      BY <2>1, <2>2, <2>3, <3>2, RelayTurns
  <2> QED
    BY <2>4, <2>5
<1>7. ASSUME NEW p \in Relays, ConfirmTimeout(p)
      PROVE  Turns'
  <2>1. timeouts < 0 /\ timeouts \in 0 .. 0
    BY <1>7 DEF ConfirmTimeout, TypeOK
  <2> QED
    BY <2>1
<1>8. ASSUME NEW p \in Relays, Commit(p) \/ CommitFails(p)
      PROVE  Turns'
  <2>1. /\ wire[p] = <<>> /\ confirms[p] = <<>> /\ relay[p].sent \subseteq acked
    BY <1>8 DEF Commit, CommitFails, Turns, InTurn
  <2>2. UNCHANGED <<open, wire, confirms, acked>>
    BY <1>8 DEF Commit, CommitFails, brokerVars
  <2>3. \E d : /\ relay' = [relay EXCEPT ![p] = d] /\ d.pc # "wait" /\ d.sent = {}
    <3>1. Asleep.pc # "wait" /\ Asleep.sent = {}
          /\ [Asleep EXCEPT !.pc = "claim"].pc # "wait"
          /\ [Asleep EXCEPT !.pc = "claim"].sent = {}
      BY DEF Asleep
    <3>2. CASE Commit(p)
      <4> DEFINE d == IF Cardinality(relay[p].claimed) < BatchSize
                      THEN Asleep ELSE [Asleep EXCEPT !.pc = "claim"]
      <4>1. relay' = [relay EXCEPT ![p] = d]
        BY <3>2 DEF Commit
      <4>2. d.pc # "wait" /\ d.sent = {}
        BY <3>1
      <4> QED
        BY <4>1, <4>2
    <3>3. CASE CommitFails(p)
      BY <3>1, <3>3 DEF CommitFails
    <3> QED
      BY <1>8, <3>2, <3>3
  <2>4. PICK d : relay' = [relay EXCEPT ![p] = d] /\ d.pc # "wait" /\ d.sent = {}
    BY <2>3
  <2>5. relay'[p] = d /\ \A q \in Relays : q # p => relay'[q] = relay[q]
    BY <2>4 DEF TypeOK
  <2>6. InTurn(p)'
    BY <2>1, <2>2, <2>4, <2>5 DEF InTurn
  <2>7. \A e \in Events : Settled(e)' => Settled(e) \/ e \in acked'
    <3>1. CASE Commit(p)
      BY <2>1, <2>2, <3>1 DEF Commit, Outcome, Settled, TypeOK
    <3>2. CASE CommitFails(p)
      BY <3>2 DEF CommitFails, Settled
    <3> QED
      BY <1>8, <3>1, <3>2
  <2> QED
    BY <2>2, <2>4, <2>5, <2>6, <2>7, OneTurn
<1>9. ASSUME NEW p \in Relays, Crash(p) \/ Reconnect(p)
      PROVE  Turns'
  <2>1. Restart(p)
    BY <1>9 DEF Crash, Reconnect
  <2>2. /\ relay' = [relay EXCEPT ![p] = Asleep]
        /\ open' = [open EXCEPT ![p] = TRUE]
        /\ wire' = [wire EXCEPT ![p] = <<>>]
        /\ confirms' = [confirms EXCEPT ![p] = <<>>]
        /\ UNCHANGED <<row, acked>>
    BY <2>1 DEF Restart
  <2>3. Asleep.pc # "wait" /\ Asleep.sent = {}
    BY DEF Asleep
  <2>4. /\ relay'[p] = Asleep /\ wire'[p] = <<>> /\ confirms'[p] = <<>>
        /\ \A q \in Relays : q # p =>
             /\ relay'[q] = relay[q] /\ open'[q] = open[q]
             /\ wire'[q] = wire[q] /\ confirms'[q] = confirms[q]
    BY <2>2 DEF TypeOK
  <2>5. InTurn(p)'
    BY <2>3, <2>4 DEF InTurn
  <2>6. \A e \in Events : Settled(e)' => Settled(e) \/ e \in acked'
    BY <2>2 DEF Settled
  <2> QED
    BY <2>2, <2>3, <2>4, <2>5, <2>6, OneTurn
<1>10. ASSUME NEW p \in Relays, BrokerAccepts(p) \/ BrokerNacks(p)
       PROVE  Turns'
  <2>1. PICK c \in {"ack", "nack"} :
          /\ wire[p] # <<>>
          /\ wire' = [wire EXCEPT ![p] = Tail(@)]
          /\ confirms' = [confirms EXCEPT ![p] = Append(@, c)]
          /\ acked' = IF c = "ack" THEN acked \cup {Head(wire[p])} ELSE acked
          /\ UNCHANGED <<row, relay, open>>
    BY <1>10 DEF BrokerAccepts, BrokerNacks
  <2>2. /\ relay[p].pc = "wait" /\ wire[p] = <<InHand(p)>> /\ confirms[p] = <<>>
        /\ relay[p].sent \subseteq acked
    BY <2>1, OneElement DEF Turns, InTurn
  <2>3. /\ wire'[p] = <<>> /\ confirms'[p] = <<c>>
        /\ c = "ack" => InHand(p) \in acked'
        /\ \A q \in Relays : q # p => wire'[q] = wire[q] /\ confirms'[q] = confirms[q]
    BY <2>1, <2>2, OneElement DEF TypeOK
  <2>4. InTurn(p)'
    BY <2>1, <2>2, <2>3 DEF InTurn, InHand
  <2>5. \A e \in Events : Settled(e)' => Settled(e) \/ e \in acked'
    BY <2>1 DEF Settled
  <2> QED
    BY <2>1, <2>2, <2>3, <2>4, <2>5, OneTurn
<1>11. ASSUME NEW p \in Relays, LoseConnection(p)
       PROVE  Turns'
  <2>1. /\ open' = [open EXCEPT ![p] = FALSE]
        /\ wire' = [wire EXCEPT ![p] = <<>>]
        /\ confirms' \in {confirms, [confirms EXCEPT ![p] = <<>>]}
        /\ UNCHANGED <<row, relay, acked>>
    BY <1>11 DEF LoseConnection
  <2>2. /\ ~open'[p] /\ wire'[p] = <<>> /\ confirms'[p] \in {confirms[p], <<>>}
        /\ \A q \in Relays : q # p =>
             /\ open'[q] = open[q] /\ wire'[q] = wire[q] /\ confirms'[q] = confirms[q]
    BY <2>1 DEF TypeOK
  <2>3. InTurn(p) /\ relay[p].sent \subseteq acked
    BY DEF Turns
  <2>4. InTurn(p)'
    BY <2>1, <2>2, <2>3 DEF InTurn, InHand
  <2>5. \A e \in Events : Settled(e)' => Settled(e) \/ e \in acked'
    BY <2>1 DEF Settled
  <2> QED
    BY <2>1, <2>2, <2>3, <2>4, <2>5, OneTurn
<1> QED
  BY <1>1, <1>2, <1>3, <1>4, <1>5, <1>6, <1>7, <1>8, <1>9, <1>10, <1>11 DEF Next, Drain

\* At the start the channels are empty.
LEMMA TurnsInit == Init => Turns
BY DEF Init, Turns, InTurn, Asleep, ConfirmedBeforePublished, Settled

\* What was acknowledged was queued, if the consumer came first.
Queued == bound /\ \A e \in acked : routed[e] > 0

\* The broker queues what it acknowledges.
LEMMA QueuedStep == RelayInv /\ Queued /\ [Next]_vars => Queued'
<1> SUFFICES ASSUME RelayInv, Queued, [Next]_vars
             PROVE  Queued'
  OBVIOUS
<1>1. ASSUME NEW p \in Relays, BrokerAccepts(p)
      PROVE  Queued'
  <2>1. wire[p] \in Seq(Events) /\ wire[p] # <<>> /\ routed \in [Events -> Nat]
        /\ acked \subseteq Events
    BY <1>1 DEF BrokerAccepts, RelayInv, TypeOK
  <2>2. PICK h \in Events : h = Head(wire[p])
    BY <2>1, HeadTailProperties
  <2>3. bound' = TRUE /\ acked' = acked \cup {h} /\ routed' = [routed EXCEPT ![h] = @ + 1]
    BY <1>1, <2>2 DEF BrokerAccepts, Queued
  <2> QED
    BY <2>1, <2>2, <2>3 DEF Queued
<1>2. CASE ~\E p \in Relays : BrokerAccepts(p)
  <2>1. UNCHANGED <<routed, acked>> /\ (bound' = bound \/ bound' = TRUE)
    BY <1>2 DEF Next, Drain, Enqueue, Prune, Wake, Claim, FailUnpublishable, Send,
       SendFails, Confirmed, ChannelClosed, ConfirmTimeout, Commit, CommitFails, Crash,
       Reconnect, Restart, BrokerNacks, LoseConnection, DeclareConsumerQueue, Miss,
       brokerVars, vars
  <2> QED
    BY <2>1 DEF Queued
<1> QED
  BY <1>1, <1>2

\* As long as no confirm comes late, a row is published only once the broker has
\* acknowledged that very event (ConfirmedBeforePublished).
THEOREM PublishedIsConfirmed ==
  ASSUME MaxTimeouts = 0
  PROVE  Spec => []ConfirmedBeforePublished
<1>1. Init => AckInv
  BY RelayInvInit, TurnsInit DEF AckInv
<1>2. AckInv /\ [Next]_vars => AckInv'
  BY RelayInvStep, TurnStep DEF AckInv
<1>3. AckInv => ConfirmedBeforePublished
  BY DEF AckInv, Turns
<1> QED
  BY <1>1, <1>2, <1>3, PTL DEF Spec

\* If the consumer has declared its queue before, the event is in it, too
\* (PublishedIsQueued).
THEOREM PublishedReachesItsQueue ==
  ASSUME MaxTimeouts = 0, ConsumersFirst
  PROVE  Spec => []PublishedIsQueued
<1>1. Init => AckInv /\ Queued
  BY RelayInvInit, TurnsInit DEF AckInv, Queued, Init
<1>2. AckInv /\ Queued /\ [Next]_vars => AckInv' /\ Queued'
  BY RelayInvStep, TurnStep, QueuedStep DEF AckInv
<1>3. AckInv /\ Queued => PublishedIsQueued
  BY DEF AckInv, Turns, Queued, ConfirmedBeforePublished, PublishedIsQueued
<1> QED
  BY <1>1, <1>2, <1>3, PTL DEF Spec

-----------------------------------------------------------------------------
(* What a step does to the way of an event. *)

\* What is on the wire is being waited for, so its row is pending.
LEMMA OnWireIsPending ==
  ASSUME AckInv, NEW p \in Relays, NEW i \in 1 .. Len(wire[p])
  PROVE  wire[p][i] \in Events /\ row[wire[p][i]] = "pending"
<1>1. wire[p] \in Seq(Events)
  BY DEF AckInv, RelayInv, TypeOK
<1>2. wire[p] # <<>> /\ wire[p][i] \in Events
  BY <1>1, ElementOfSeq
<1>3. relay[p].pc = "wait" /\ wire[p] = <<InHand(p)>>
  BY <1>2 DEF AckInv, Turns, InTurn
<1>4. wire[p][i] = InHand(p)
  BY <1>3
<1>5. Carries(p, wire[p][i])
  BY <1>3, <1>4 DEF Carries
<1> QED
  BY <1>2, <1>5, CarriedIsClaimed DEF AckInv

\* The copy the broker accepts is one the ledger has counted.
LEMMA RoomForTheCopy ==
  ASSUME LedgerInv, NEW p \in Relays, wire[p] # <<>>
  PROVE  /\ Head(wire[p]) \in Events
         /\ routed[Head(wire[p])] <= MaxFaults + MaxTimeouts
<1>1. PICK h \in Events : h = Head(wire[p])
  BY HeadTailProperties DEF LedgerInv, RelayInv, TypeOK
<1>2. /\ faults \in 0 .. MaxFaults /\ timeouts \in 0 .. MaxTimeouts
      /\ routed[h] \in Nat
      /\ IsFiniteSet(OnWire(h)) /\ Cardinality(OnWire(h)) \in Nat
      /\ Cardinality(Nacks) \in Nat
  BY LedgerTyped DEF LedgerInv, RelayInv, TypeOK
<1>3. Cardinality(OnWire(h)) # 0
  <2>1. Place(p, 1) \in OnWire(h)
    <3>1. wire[p] \in Seq(Events) /\ Len(wire[p]) \in Nat \ {0} /\ wire[p][1] = h
      BY <1>1, HeadTailProperties, LenProperties, EmptySeq
         DEF LedgerInv, RelayInv, TypeOK
    <3>2. 1 \in 1 .. Len(wire[p])
      BY <3>1
    <3> QED
      BY <3>1, <3>2, Slots DEF OnWire, Places, Slot, Place
  <2> QED
    BY <1>2, <2>1, FS_EmptySet
<1>4. routed[h] + Cardinality(OnWire(h)) + Cardinality(Nacks) <= faults + timeouts + 1
  BY <1>2 DEF LedgerInv, CopiesOwed, Owed
<1>5. MaxFaults \in Nat /\ MaxTimeouts \in Nat
  BY OutboxAssumption
<1> QED
  BY <1>1, <1>2, <1>3, <1>4, <1>5

\* A row is staged alone; the others move on from pending to published or failed,
\* and from published to pruned.
RowsMoveOn ==
  \A e \in Events :
    \/ row'[e] = row[e]
    \/ row[e] = "pending" /\ row'[e] \in {"published", "failed"}
    \/ row[e] = "published" /\ row'[e] = "pruned"

\* A step stages a row, moves rows on, or routes a copy.
LEMMA OneThingAtATime ==
  ASSUME RelayInv, [Next]_vars
  PROVE  \/ \E e \in Events : Enqueue(e)
         \/ RowsMoveOn /\ routed' = routed
         \/ \E p \in Relays : BrokerAccepts(p)
<1>1. ASSUME NEW e \in Events, Prune(e)
      PROVE  RowsMoveOn /\ routed' = routed
  BY <1>1 DEF Prune, RowsMoveOn, RelayInv, TypeOK, brokerVars
<1>2. ASSUME NEW p \in Relays, Commit(p)
      PROVE  RowsMoveOn /\ routed' = routed
  <2>1. /\ routed' = routed
        /\ row' = [e \in Events |->
                     IF e \in relay[p].claimed THEN Outcome(p, e) ELSE row[e]]
    BY <1>2 DEF Commit, brokerVars
  <2>2. ASSUME NEW e \in Events, e \in relay[p].claimed
        PROVE  row[e] = "pending" /\ Outcome(p, e) \in {"published", "failed", row[e]}
    BY <2>2 DEF Outcome, RelayInv, Claims
  <2> QED
    BY <2>1, <2>2 DEF RowsMoveOn
<1>3. CASE /\ ~\E e \in Events : Enqueue(e) \/ Prune(e)
           /\ ~\E p \in Relays : Commit(p) \/ BrokerAccepts(p)
  <2>1. UNCHANGED <<row, routed>>
    BY <1>3 DEF Next, Drain, Wake, Claim, FailUnpublishable, Send,
       SendFails, Confirmed, ChannelClosed, ConfirmTimeout, CommitFails, Crash,
       Reconnect, Restart, BrokerNacks, LoseConnection, DeclareConsumerQueue, Miss,
       brokerVars, vars
  <2> QED
    BY <2>1 DEF RowsMoveOn
<1> QED
  BY <1>1, <1>2, <1>3

=============================================================================
