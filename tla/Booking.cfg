SPECIFICATION FairSpec
CONSTANTS
  jetski = jetski
  Calls = {c1, c2}
  Keys = {k1, k2}
  Windows <- RivalWindows
  TTLOutlivesRequests = TRUE
  MaxFaults = 1
  NoCall = NoCall
  NoReq = NoReq
  NoWish = NoWish
INVARIANTS
  TypeOK
  ConfirmedIsBacked
  FactsMatchBooking
  NoStrandedReservation
CHECK_DEADLOCK FALSE
PROPERTIES
  SagaSettles
