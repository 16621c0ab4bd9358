SPECIFICATION Spec
CONSTANTS
  Calls = {c1, c2}
  Keys = {k1, k2}
  Bookings = {b1, b2}
  Hooks = {h1, h2}
  MaxFaults = 1
  NoCall = NoCall
  NoBooking = NoBooking
  NoReq = NoReq
SYMMETRY PaymentSymmetry
INVARIANTS
  TypeOK
  NoDoubleCharge
  AnswerIsOwnPayment
  OutcomeStatedOnce
  NoOutcomeDropped
CHECK_DEADLOCK FALSE
