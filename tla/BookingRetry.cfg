SPECIFICATION Spec
CONSTANTS
  jetski = jetski
  Calls = {c1, c2}
  Keys = {k1}
  Windows <- OneWindow
  TTLOutlivesRequests = TRUE
  MaxFaults = 0
  NoCall = NoCall
  NoReq = NoReq
  NoWish = NoWish
PROPERTIES
  OnlyReuseIsRefused
CHECK_DEADLOCK FALSE
