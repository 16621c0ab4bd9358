SPECIFICATION FairSpec
CONSTANTS
  b1 = b1
  jetski = jetski
  Resources = {jetski}
  NoCall = NoCall
  NoReq = NoReq
  Bookings = {b1}
  Calls = {c1, c2}
  Keys = {k1, k2}
  Bodies <- NeighbourBodies
  Txs = {t1}
  Sweepers = {s1}
  Batch = 1
  TTL = 1
  MaxNow = 1
  MaxFaults = 1
INVARIANTS
  FactsMatchRow
  Isolation
PROPERTIES
  ReservationLifecycle
  HoldsEnd
  ImplementsCalendar
CHECK_DEADLOCK FALSE
