--------------------------- MODULE LifecycleProofs ---------------------------
(***************************************************************************)
(* Theorems about the life of a process, for each of the six services and  *)
(* any number of requests and faults.                                      *)
(***************************************************************************)
EXTENDS Lifecycle, TLAPS, FiniteSetTheorems

-----------------------------------------------------------------------------
(* The services. *)

\* What a service has opened once it has opened n things.
Prefix(s, n) == {s.opens[i] : i \in 1 .. n}

\* A service opens different things, and what its workers use is among them.
LEMMA ServiceFacts ==
  ASSUME NEW s \in Services
  PROVE  /\ Len(s.opens) \in 1 .. 3
         /\ \A i, j \in 1 .. Len(s.opens) : s.opens[i] = s.opens[j] => i = j
         /\ \A w \in s.background : Uses(w) \subseteq Prefix(s, Len(s.opens))
         /\ Uses("http") = {}
         /\ "http" \notin s.background
         /\ s.buffer \in Nat
<1>1. Uses("http") = {}
  BY DEF Uses
<1>2. /\ Uses("relay") = {"pool", "publisher"} /\ Uses("sweeper") = {"pool"}
      /\ \A w \in {"BookingCancelled", "PaymentSucceeded", "PaymentFailed",
                   "ReservationReleased", "BookingHeld", "BookingConfirmed"} :
           Uses(w) = {"pool", "conn"}
  BY DEF Uses
<1>3. CASE s = Gateway
  <2>1. s.opens = <<"keys", "upstreams">> /\ s.background = {} /\ s.buffer = 1
    BY <1>3 DEF Gateway
  <2>2. Len(s.opens) = 2 /\ s.opens[1] = "keys" /\ s.opens[2] = "upstreams"
    BY <2>1
  <2> QED
    BY <1>1, <2>1, <2>2
<1>4. CASE s = Catalog
  <2>1. s.opens = <<"pool">> /\ s.background = {} /\ s.buffer = 1
    BY <1>4 DEF Catalog
  <2>2. Len(s.opens) = 1
    BY <2>1
  <2> QED
    BY <1>1, <2>1, <2>2
<1>5. CASE s = Notification
  <2>1. /\ s.opens = <<"pool", "conn">> /\ s.background = {"BookingConfirmed"}
        /\ s.buffer = 2
    BY <1>5 DEF Notification
  <2>2. Len(s.opens) = 2 /\ s.opens[1] = "pool" /\ s.opens[2] = "conn"
    BY <2>1
  <2>3. {"pool", "conn"} \subseteq Prefix(s, 2)
    BY <2>2 DEF Prefix
  <2> QED
    BY <1>1, <1>2, <2>1, <2>2, <2>3
<1>6. CASE s \in {Availability, Booking, Payment}
  <2>1. /\ s.opens = <<"pool", "conn", "publisher">>
        /\ s.background \subseteq {"relay", "sweeper", "BookingCancelled",
              "PaymentSucceeded", "PaymentFailed", "ReservationReleased",
              "BookingHeld"}
        /\ s.buffer \in {4, 5}
    BY <1>6 DEF Availability, Booking, Payment
  <2>2. /\ Len(s.opens) = 3
        /\ s.opens[1] = "pool" /\ s.opens[2] = "conn" /\ s.opens[3] = "publisher"
    BY <2>1
  <2>3. {"pool", "conn", "publisher"} \subseteq Prefix(s, 3)
    BY <2>2 DEF Prefix
  <2>4. \A w \in s.background : Uses(w) \subseteq {"pool", "conn", "publisher"}
    BY <1>2, <2>1
  <2>5. "http" \notin s.background
    BY <2>1
  <2>6. \A i, j \in 1 .. 3 : s.opens[i] = s.opens[j] => i = j
    BY <2>2
  <2> QED
    BY <1>1, <2>1, <2>2, <2>3, <2>4, <2>5, <2>6
<1> QED
  BY <1>3, <1>4, <1>5, <1>6 DEF Services

\* How much is open tells what is open.
LEMMA PrefixSize ==
  ASSUME NEW s \in Services, NEW n \in 0 .. Len(s.opens)
  PROVE  /\ IsFiniteSet(Prefix(s, n))
         /\ Cardinality(Prefix(s, n)) = n
<1>1. Len(s.opens) \in 1 .. 3
  BY ServiceFacts
<1>2. \A k \in 0 .. Len(s.opens) - 1 :
        /\ Prefix(s, k + 1) = Prefix(s, k) \cup {s.opens[k + 1]}
        /\ s.opens[k + 1] \notin Prefix(s, k)
  <2> SUFFICES ASSUME NEW k \in 0 .. Len(s.opens) - 1
               PROVE  /\ Prefix(s, k + 1) = Prefix(s, k) \cup {s.opens[k + 1]}
                      /\ s.opens[k + 1] \notin Prefix(s, k)
    OBVIOUS
  <2>1. 1 .. k + 1 = 1 .. k \cup {k + 1}
    BY <1>1
  <2>2. \A i \in 1 .. k : i \in 1 .. Len(s.opens) /\ i # k + 1
    BY <1>1
  <2>3. k + 1 \in 1 .. Len(s.opens)
    BY <1>1
  <2> QED
    BY <2>1, <2>2, <2>3, ServiceFacts DEF Prefix
<1> DEFINE P(k) == IsFiniteSet(Prefix(s, k)) /\ Cardinality(Prefix(s, k)) = k
<1>3. P(0)
  <2>1. Prefix(s, 0) = {}
    BY DEF Prefix
  <2> QED
    BY <2>1, FS_EmptySet
<1>4. ASSUME NEW k \in 0 .. Len(s.opens) - 1, P(k)
      PROVE  P(k + 1)
  <2>1. PICK x : /\ Prefix(s, k + 1) = Prefix(s, k) \cup {x}
                 /\ x \notin Prefix(s, k)
    BY <1>2
  <2>2. /\ IsFiniteSet(Prefix(s, k) \cup {x})
        /\ Cardinality(Prefix(s, k) \cup {x}) = Cardinality(Prefix(s, k)) + 1
    BY <1>4, <2>1, FS_AddElement
  <2> QED
    BY <1>4, <2>1, <2>2
<1> HIDE DEF P
<1>5. CASE n = 0
  BY <1>3, <1>5 DEF P
<1>6. CASE n \in 1 .. 3
  <2>1. P(1)
    <3>1. 0 \in 0 .. Len(s.opens) - 1
      BY <1>1, SMTT(30)
    <3> QED
      BY <1>3, <1>4, <3>1
  <2>2. ASSUME 2 <= n
        PROVE  P(2)
    <3>1. 1 \in 0 .. Len(s.opens) - 1 /\ 1 + 1 = 2
      BY <1>1, <2>2
    <3> QED
      BY <1>4, <2>1, <3>1
  <2>3. ASSUME 3 <= n
        PROVE  P(3)
    <3>1. 2 \in 0 .. Len(s.opens) - 1 /\ 2 + 1 = 3 /\ 2 <= n
      BY <1>1, <2>3
    <3> QED
      BY <1>4, <2>2, <3>1
  <2>4. P(n)
    BY <1>6, <2>1, <2>2, <2>3
  <2> QED
    BY <2>4 DEF P
<1>7. n = 0 \/ n \in 1 .. 3
  <2>1. PICK l \in 1 .. 3 : l = Len(s.opens)
    BY <1>1
  <2>2. n \in 0 .. l
    BY <2>1
  <2> QED
    BY <2>2
<1> QED
  BY <1>5, <1>6, <1>7

-----------------------------------------------------------------------------
(* The invariant. *)

Types ==
  /\ service \in Services
  /\ configured \in BOOLEAN
  /\ spoilt \subseteq {"pool", "conn", "keys", "upstreams", "listener"}
  /\ pc \in {"configure", "open", "serve", "drain", "join", "close", "exited"}
  /\ worker \in [Workers -> {"off", "runs", "failing", "failed", "stopped"}]
  /\ reported \in 0 .. service.buffer
  /\ {failure, signalled, cancelled, late, keyed, connected} \subseteq BOOLEAN
  /\ requests \in 0 .. MaxRequests
  /\ up \subseteq Dependencies
  /\ faults \in 0 .. MaxFaults

\* Things are opened in order, and closed in the reverse order.
Stack == \E n \in 0 .. Len(service.opens) : opened = Prefix(service, n)

\* Where run stands, what is open, who is at work and how it was told to stop.
Phases ==
  /\ pc \in {"serve", "drain", "join"} =>
       opened = Prefix(service, Len(service.opens))
  /\ pc \in {"configure", "open", "close", "exited"} =>
       \A w \in service.background : worker[w] \notin {"runs", "failing"}
  /\ pc \in {"configure", "open", "exited"} => requests = 0
  /\ pc \in {"join", "close"} /\ requests > 0 => late
  /\ cancelled => pc \in {"join", "close", "exited"}
  /\ \A w \in service.background : worker[w] = "stopped" => signalled \/ cancelled

LifecycleInv == Types /\ Stack /\ Phases

\* How many things are open, and which.
LEMMA OpenedInOrder ==
  ASSUME service \in Services, Stack
  PROVE  /\ Cardinality(opened) \in 0 .. Len(service.opens)
         /\ opened = Prefix(service, Cardinality(opened))
         /\ Len(service.opens) \in Nat
BY PrefixSize, ServiceFacts DEF Stack

\* The variables keep their types.
LEMMA TypesStep ==
  ASSUME Types, [Next]_vars
  PROVE  Types' /\ service' = service
<1> USE DEF Next, Run, Load, Open, OpenNext, OpenKeys, OpenFails, Start, StopOnFailure, StopOnSignal, Drained, Join,
            Close, Exit, OpenCancelled, Goroutine, ConsumerFails, Report, Stop,
            Accept, Finish, ListenFails, Signal, Kill, Restart, Fresh, Outage,
            Recover, LoseConnection, RefreshKeys, vars, settings, environment,
            progress
<1>1. service' = service /\ configured' = configured /\ spoilt' = spoilt
  OBVIOUS
<1>2. Workers' = Workers
  BY <1>1 DEF Workers
<1>3. pc' \in {"configure", "open", "serve", "drain", "join", "close", "exited"}
  BY DEF Types
<1>4. worker' \in [Workers -> {"off", "runs", "failing", "failed", "stopped"}]
  BY DEF Types
<1>5. reported' \in 0 .. service.buffer
  <2>1. service.buffer \in Nat /\ reported \in 0 .. service.buffer
    BY ServiceFacts DEF Types
  <2>2. \/ UNCHANGED reported
        \/ reported' = 0
        \/ reported < service.buffer /\ reported' = reported + 1
        \/ reported > 0 /\ reported' = reported - 1
    OBVIOUS
  <2> QED
    BY <2>1, <2>2
<1>6. failure' \in BOOLEAN /\ cancelled' \in BOOLEAN
  BY DEF Types
<1>7. signalled' \in BOOLEAN
  BY DEF Types
<1>8. late' \in BOOLEAN
  <2>1. late' = late \/ late' = FALSE \/ late' = (requests > 0)
    OBVIOUS
  <2>2. late \in BOOLEAN
    BY DEF Types
  <2>3. CASE late' = late
    BY <2>2, <2>3
  <2>4. CASE late' = FALSE
    BY <2>4
  <2>5. CASE late' = (requests > 0)
    BY <2>5
  <2> QED
    BY <2>1, <2>3, <2>4, <2>5
<1>9. connected' \in BOOLEAN /\ keyed' \in BOOLEAN
  BY DEF Types, Available
<1>10. requests' \in 0 .. MaxRequests
  <2>1. \/ UNCHANGED requests
        \/ requests' = 0
        \/ requests < MaxRequests /\ requests' = requests + 1
        \/ requests > 0 /\ requests' = requests - 1
    OBVIOUS
  <2> QED
    BY <2>1, LifecycleAssumption DEF Types
<1>11. up' \subseteq Dependencies
  BY DEF Types
<1>12. faults' \in 0 .. MaxFaults
  <2>1. UNCHANGED faults \/ Fault
    OBVIOUS
  <2> QED
    BY <2>1, LifecycleAssumption DEF Types, Fault
<1> QED
  BY <1>1, <1>2, <1>3, <1>4, <1>5, <1>6, <1>7, <1>8, <1>9, <1>10, <1>11, <1>12
  DEF Types

\* Opening adds the next thing, closing takes the last one away, and a process
\* that dies has nothing open.
LEMMA StackStep ==
  ASSUME Types, Stack, [Next]_vars
  PROVE  Stack'
<1> DEFINE n == Cardinality(opened)
<1>1. /\ service \in Services /\ n \in 0 .. Len(service.opens)
      /\ opened = Prefix(service, n) /\ Len(service.opens) \in Nat
  BY OpenedInOrder DEF Types
<1>2. service' = service
  BY TypesStep
<1>3. CASE Open
  <2>1. /\ n + 1 <= Len(service.opens)
        /\ opened' = opened \/ opened' = opened \cup {Opens(n + 1)}
    BY <1>3 DEF Open, OpenNext, OpenKeys, OpenFails, Upcoming
  <2>2. ASSUME n + 1 <= Len(service.opens)
        PROVE  n + 1 \in 0 .. Len(service.opens)
               /\ opened \cup {Opens(n + 1)} = Prefix(service, n + 1)
    <3>1. 1 .. n + 1 = 1 .. n \cup {n + 1}
      BY <1>1
    <3> QED
      BY <1>1, <2>2, <3>1 DEF Prefix, Opens
  <2> QED
    BY <1>1, <1>2, <2>1, <2>2 DEF Stack
<1>4. CASE Close
  <2>1. opened # {} /\ opened' = opened \ {Opens(n)}
    BY <1>4 DEF Close
  <2>2. n # 0
    BY <1>1, <2>1 DEF Prefix
  <2>3. n - 1 \in 0 .. Len(service.opens)
    BY <1>1, <2>2
  <2>4. opened' = Prefix(service, n - 1)
    <3>1. 1 .. n = 1 .. n - 1 \cup {n}
      BY <1>1, <2>2
    <3>2. \A i \in 1 .. n - 1 : service.opens[i] # service.opens[n]
      <4>1. \A i \in 1 .. n - 1 :
              i \in 1 .. Len(service.opens) /\ n \in 1 .. Len(service.opens) /\ i # n
        BY <1>1, <2>2
      <4> QED
        BY <1>1, <4>1, ServiceFacts
    <3> QED
      BY <1>1, <2>1, <3>1, <3>2 DEF Prefix, Opens
  <2> QED
    BY <1>2, <2>3, <2>4 DEF Stack
<1>5. CASE Kill \/ Restart
  <2>1. opened' = {}
    BY <1>5 DEF Kill, Restart, Fresh
  <2>2. opened' = Prefix(service, 0) /\ 0 \in 0 .. Len(service.opens)
    BY <1>1, <2>1 DEF Prefix
  <2> QED
    BY <1>2, <2>2 DEF Stack
<1>6. CASE ~(Open \/ Close \/ Kill \/ Restart)
  <2>1. opened' = opened
    BY <1>6 DEF Next, Run, Load, Start, StopOnFailure, StopOnSignal, Drained, Join,
       Exit, OpenCancelled, Goroutine, ConsumerFails, Report, Stop, Accept, Finish,
       ListenFails, RefreshKeys, Signal, Outage, Recover, LoseConnection, vars
  <2> QED
    BY <1>2, <2>1 DEF Stack
<1> QED
  BY <1>3, <1>4, <1>5, <1>6

\* The steps that start a process and open what it needs.
LEMMA StartKeepsPhases ==
  ASSUME Types, Stack, Phases, Load \/ Open \/ OpenCancelled \/ Start
  PROVE  Phases'
<1> USE DEF Phases, settings, environment, progress
<1>1. service' = service
  BY DEF Load, Open, OpenCancelled, Start
<1>2. CASE Load \/ Open \/ OpenCancelled
  <2>1. /\ pc \in {"configure", "open"} /\ pc' \in {"open", "close"}
        /\ UNCHANGED <<worker, requests, signalled, cancelled, late>>
    BY <1>2 DEF Load, Open, OpenNext, OpenKeys, OpenFails, OpenCancelled
  <2> QED
    BY <1>1, <2>1
<1>3. CASE Start
  <2>1. /\ pc = "open" /\ pc' = "serve"
        /\ worker' = [w \in Workers |->
             IF w = "http" /\ "listener" \in spoilt THEN "failing" ELSE "runs"]
        /\ UNCHANGED <<opened, requests, signalled, cancelled, late>>
        /\ Cardinality(opened) + 1 > Len(service.opens)
    BY <1>3 DEF Start, Upcoming
  <2>2. opened = Prefix(service, Len(service.opens))
    <3>1. /\ Cardinality(opened) \in 0 .. Len(service.opens)
          /\ opened = Prefix(service, Cardinality(opened))
          /\ Len(service.opens) \in Nat
      BY OpenedInOrder DEF Types
    <3>2. Cardinality(opened) = Len(service.opens)
      BY <2>1, <3>1
    <3> QED
      BY <3>1, <3>2
  <2>3. \A w \in service.background : worker'[w] = "runs"
    BY <2>1, ServiceFacts DEF Types, Workers
  <2> QED
    BY <1>1, <2>1, <2>2, <2>3
<1> QED
  BY <1>2, <1>3

\* What the goroutines do while run waits.
LEMMA WorkKeepsPhases ==
  ASSUME Types, Phases,
         \/ \E w \in Workers : Goroutine(w)
         \/ Accept \/ Finish \/ ListenFails \/ RefreshKeys
  PROVE  Phases'
<1> USE DEF Phases, settings, environment, progress
<1>1. UNCHANGED <<service, pc, opened, signalled, cancelled, late>>
  BY DEF Goroutine, ConsumerFails, Report, Stop, Accept, Finish, ListenFails,
         RefreshKeys
<1>2. CASE \E w \in Workers : Goroutine(w)
  <2>1. PICK w \in Workers : Goroutine(w)
    BY <1>2
  <2>2. requests' = requests
    BY <2>1 DEF Goroutine, ConsumerFails, Report, Stop
  <2>3. \A v \in Workers :
          /\ worker'[v] \in {"runs", "failing"} => worker[v] \in {"runs", "failing"}
          /\ worker'[v] = "stopped" =>
               worker[v] = "stopped" \/ v = "http" \/ WorkersCancelled
    BY <2>1 DEF Types, Goroutine, ConsumerFails, Report, Stop
  <2>4. \A v \in service.background : v \in Workers /\ v # "http"
    BY ServiceFacts DEF Workers, Types
  <2> QED
    BY <1>1, <2>2, <2>3, <2>4 DEF WorkersCancelled
<1>3. CASE Accept
  <2>1. pc = "serve" /\ worker' = worker
    BY <1>3 DEF Accept
  <2> QED
    BY <1>1, <2>1
<1>4. CASE Finish
  <2>1. worker' = worker /\ requests > 0 /\ requests' = requests - 1
    BY <1>4 DEF Finish
  <2>2. requests \in Nat
    BY LifecycleAssumption DEF Types
  <2>3. requests # 0
    BY <2>1, <2>2
  <2> QED
    BY <1>1, <2>1, <2>3
<1>5. CASE ListenFails
  <2>1. pc = "serve" /\ requests' = requests
        /\ worker' = [worker EXCEPT !["http"] = "failing"]
    BY <1>5 DEF ListenFails
  <2>2. \A v \in service.background : worker'[v] = worker[v]
    BY <2>1, ServiceFacts DEF Types, Workers
  <2> QED
    BY <1>1, <2>1, <2>2
<1>6. CASE RefreshKeys
  BY <1>1, <1>6 DEF RefreshKeys
<1> QED
  BY <1>2, <1>3, <1>4, <1>5, <1>6

\* The steps of run from the first failure or the signal to the exit.
LEMMA StopKeepsPhases ==
  ASSUME Types, Phases,
         StopOnFailure \/ StopOnSignal \/ Drained \/ Join \/ Close \/ Exit
  PROVE  Phases'
<1> USE DEF Phases, settings, environment, progress
<1>1. UNCHANGED <<service, signalled>>
  BY DEF StopOnFailure, StopOnSignal, Drained, Join, Close, Exit
<1>2. CASE StopOnFailure \/ StopOnSignal
  <2>1. /\ pc = "serve" /\ pc' = "drain"
        /\ UNCHANGED <<opened, worker, requests, cancelled, late>>
    BY <1>2 DEF StopOnFailure, StopOnSignal
  <2> QED
    BY <1>1, <2>1
<1>3. CASE Drained
  <2>1. /\ pc = "drain" /\ pc' = "join" /\ late' = (requests > 0) /\ cancelled' = TRUE
        /\ UNCHANGED <<opened, worker, requests>>
    BY <1>3 DEF Drained
  <2> QED
    BY <1>1, <2>1
<1>4. CASE Join
  <2>1. /\ pc = "join" /\ pc' = "close"
        /\ UNCHANGED <<opened, worker, requests, cancelled, late>>
        /\ \/ service.background = {}
           \/ \A w \in Workers : worker[w] \in {"failed", "stopped"}
    BY <1>4 DEF Join
  <2>2. \A w \in service.background : worker[w] \notin {"runs", "failing"}
    BY <2>1 DEF Workers
  <2> QED
    BY <1>1, <2>1, <2>2
<1>5. CASE Close
  <2>1. pc = "close" /\ UNCHANGED <<pc, worker, requests, cancelled, late>>
    BY <1>5 DEF Close
  <2> QED
    BY <1>1, <2>1
<1>6. CASE Exit
  <2>1. /\ pc' = "exited" /\ worker' = [w \in Workers |-> "off"] /\ requests' = 0
    BY <1>6 DEF Exit
  <2>2. \A w \in service.background : worker'[w] = "off"
    BY <2>1 DEF Workers
  <2> QED
    BY <1>1, <2>1, <2>2
<1> QED
  BY <1>2, <1>3, <1>4, <1>5, <1>6

\* What happens around the process.
LEMMA AroundKeepsPhases ==
  ASSUME Types, Phases,
         \/ Signal \/ Kill \/ Restart \/ LoseConnection
         \/ \E d \in Dependencies : Outage(d) \/ Recover(d)
  PROVE  Phases'
<1> USE DEF Phases, settings, environment, progress
<1>1. CASE Signal \/ LoseConnection \/ \E d \in Dependencies : Outage(d) \/ Recover(d)
  <2>1. UNCHANGED <<service, pc, opened, worker, requests, cancelled, late>>
        /\ (signalled => signalled')
    BY <1>1 DEF Signal, LoseConnection, Outage, Recover
  <2> QED
    BY <2>1
<1>2. CASE Kill \/ Restart
  <2>1. /\ service' = service /\ worker' = [w \in Workers |-> "off"] /\ requests' = 0
        /\ pc' \in {"exited", "configure"}
        /\ cancelled' => pc' = "exited"
    BY <1>2 DEF Kill, Restart, Fresh
  <2>2. \A w \in service.background : worker'[w] = "off"
    BY <2>1 DEF Workers
  <2> QED
    BY <2>1, <2>2
<1> QED
  BY <1>1, <1>2

\* The invariant holds from the first start on.
LEMMA LifecycleInvHolds == Spec => []LifecycleInv
<1>1. Init => LifecycleInv
  <2> SUFFICES ASSUME Init
               PROVE  LifecycleInv
    OBVIOUS
  <2>1. service \in Services /\ service.buffer \in Nat /\ Len(service.opens) \in Nat
    BY ServiceFacts DEF Init
  <2>2. Types
    <3>1. /\ configured \in BOOLEAN
          /\ spoilt \subseteq {"pool", "conn", "keys", "upstreams", "listener"}
      BY DEF Init, Spoils
    <3>2. /\ worker \in [Workers -> {"off", "runs", "failing", "failed", "stopped"}]
          /\ {failure, signalled, cancelled, late, keyed, connected} \subseteq BOOLEAN
          /\ up \subseteq Dependencies
      BY DEF Init, Dependencies
    <3>3. requests \in 0 .. MaxRequests /\ faults \in 0 .. MaxFaults
          /\ reported \in 0 .. service.buffer
      BY <2>1, LifecycleAssumption DEF Init
    <3>4. pc = "configure"
      BY DEF Init
    <3> QED
      BY <2>1, <3>1, <3>2, <3>3, <3>4 DEF Types
  <2>3. Stack
    <3>1. opened = Prefix(service, 0)
      BY DEF Init, Prefix
    <3> QED
      BY <2>1, <3>1 DEF Stack
  <2>4. \A w \in service.background : worker[w] = "off"
    BY DEF Init, Workers
  <2>5. Phases
    BY <2>4 DEF Init, Phases
  <2> QED
    BY <2>2, <2>3, <2>5 DEF LifecycleInv
<1>2. LifecycleInv /\ [Next]_vars => LifecycleInv'
  <2> SUFFICES ASSUME Types, Stack, Phases, [Next]_vars
               PROVE  LifecycleInv'
    BY DEF LifecycleInv
  <2>1. Types' /\ Stack'
    BY TypesStep, StackStep
  <2>2. ASSUME UNCHANGED vars
        PROVE  Phases'
    BY <2>2 DEF vars, settings, Phases
  <2>3. Phases'
    BY <2>2, StartKeepsPhases, WorkKeepsPhases, StopKeepsPhases, AroundKeepsPhases
       DEF Next, Run
  <2> QED
    BY <2>1, <2>3 DEF LifecycleInv
<1> QED
  BY <1>1, <1>2, PTL DEF Spec

-----------------------------------------------------------------------------
\* A process keeps its types, opens in order and closes in reverse.
THEOREM TypeCorrect == Spec => []TypeOK
<1>1. LifecycleInv => TypeOK
  <2> SUFFICES ASSUME Types, Stack
               PROVE  TypeOK
    BY DEF LifecycleInv
  <2>1. opened = {Opens(n) : n \in 1 .. Cardinality(opened)}
    BY OpenedInOrder DEF Types, Prefix, Opens
  <2> QED
    BY <2>1 DEF Types, TypeOK
<1> QED
  BY <1>1, LifecycleInvHolds, PTL

\* Whatever fails, at whatever moment, nothing is closed under a goroutine or a
\* request that uses it (NothingUsedAfterClose): run waits for its goroutines
\* before the deferred closes, and a request outlives only its grace period.
THEOREM ClosedAfterUse == Spec => []NothingUsedAfterClose
<1>1. LifecycleInv => NothingUsedAfterClose
  <2> SUFFICES ASSUME Types, Stack, Phases
               PROVE  NothingUsedAfterClose
    BY DEF LifecycleInv
  <2>1. service \in Services
    BY DEF Types
  <2>2. ASSUME NEW w \in Workers, worker[w] \in {"runs", "failing"}
        PROVE  Uses(w) \subseteq opened
    <3>1. CASE w = "http"
      BY <2>1, <3>1, ServiceFacts
    <3>2. CASE w \in service.background
      <4>1. pc \in {"serve", "drain", "join"}
        BY <2>2, <3>2 DEF Phases, Types
      <4>2. opened = Prefix(service, Len(service.opens))
        BY <4>1 DEF Phases
      <4> QED
        BY <2>1, <3>2, <4>2, ServiceFacts
    <3> QED
      BY <2>2, <3>1, <3>2 DEF Workers
  <2>3. ASSUME requests > 0, ~late
        PROVE  Len(service.opens) = Cardinality(opened)
    <3>1. pc \in {"serve", "drain"}
      <4>1. requests # 0
        BY <2>3, LifecycleAssumption DEF Types
      <4> QED
        BY <2>3, <4>1 DEF Phases, Types
    <3>2. opened = Prefix(service, Len(service.opens))
      BY <3>1 DEF Phases
    <3>3. Len(service.opens) \in 0 .. Len(service.opens)
      BY <2>1, OpenedInOrder
    <3> QED
      BY <2>1, <3>2, <3>3, PrefixSize
  <2> QED
    BY <2>2, <2>3 DEF NothingUsedAfterClose
<1> QED
  BY <1>1, LifecycleInvHolds, PTL

\* Only a signal, or the end of the grace period, takes the workers away from the
\* requests that depend on them (RequestsKeepWorkers): cancelAll comes after
\* Shutdown.
THEOREM DrainComesFirst == Spec => []RequestsKeepWorkers
<1>1. LifecycleInv => RequestsKeepWorkers
  <2> SUFFICES ASSUME Types, Phases, requests > 0,
                      NEW w \in service.background, worker[w] = "stopped"
               PROVE  signalled \/ late
    BY DEF LifecycleInv, RequestsKeepWorkers
  <2>1. requests # 0
    BY LifecycleAssumption DEF Types
  <2> QED
    BY <2>1 DEF Phases, Types
<1> QED
  BY <1>1, LifecycleInvHolds, PTL
=============================================================================
