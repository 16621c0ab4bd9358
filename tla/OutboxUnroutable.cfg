SPECIFICATION Spec
CONSTANTS
  N = 1
  Unpublishable = {}
  Relays = {p1}
  BatchSize = 2
  MaxAttempts = 2
  ConsumersFirst = FALSE
  MaxFaults = 0
  MaxTimeouts = 0
INVARIANTS
  PublishedIsQueued
CHECK_DEADLOCK FALSE
