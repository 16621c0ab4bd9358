SPECIFICATION Spec
CONSTANTS
  N = 2
  Unpublishable = {}
  Relays = {p1}
  BatchSize = 2
  MaxAttempts = 3
  ConsumersFirst = TRUE
  MaxFaults = 0
  MaxTimeouts = 1
INVARIANTS
  ConfirmedBeforePublished
CHECK_DEADLOCK FALSE
