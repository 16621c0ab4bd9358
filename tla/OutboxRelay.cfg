SPECIFICATION FairSpec
CONSTANTS
  N = 2
  Unpublishable = {1}
  Relays = {p1, p2}
  BatchSize = 2
  MaxAttempts = 2
  ConsumersFirst = FALSE
  MaxFaults = 2
  MaxTimeouts = 1
INVARIANTS
  TypeOK
  GivenUpForCause
  DuplicatesNeedFaults
PROPERTIES
  BacklogDrains
CHECK_DEADLOCK FALSE
