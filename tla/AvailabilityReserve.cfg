SPECIFICATION Spec
CONSTANTS
  b1 = b1
  jetski = jetski
  Resources = {jetski}
  NoCall = NoCall
  NoReq = NoReq
  Bookings = {b1}
  Calls = {c1, c2, c3}
  Keys = {k1, k2}
  Bodies <- CalendarBodies
  Txs = {t1}
  Sweepers = {}
  Batch = 1
  TTL = 1
  MaxNow = 1
  MaxFaults = 1
SYMMETRY CallSymmetry
INVARIANTS
  TypeOK
  NoOverlap
  OneReservationPerKey
PROPERTIES
  NeverOwnConflict
CHECK_DEADLOCK FALSE
