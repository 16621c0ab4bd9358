SPECIFICATION NotificationSpec
CONSTANTS
  Events = {plain, poison, garbage}
  Malformed = {garbage}
  Poison = {poison}
  Workers = {w1, w2}
  MaxAttempts = 2
  MaxCopies = 2
  MaxFaults = 2
INVARIANTS
  NotificationTypeOK
  EffectOnce
  NothingDropped
  ConfirmationMailed
PROPERTIES
  EveryEventSettles
CHECK_DEADLOCK FALSE
