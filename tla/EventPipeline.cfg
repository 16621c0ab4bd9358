SPECIFICATION FairSpec
CONSTANTS
  N = 2
  Unpublishable = {}
  Relays = {p1}
  BatchSize = 2
  RelayAttempts = 2
  ConsumersFirst = TRUE
  MaxFaults = 1
  MaxTimeouts = 0
  Poison = {2}
  Workers = {w1}
  HandlerAttempts = 2
  MaxLapses = 2
PROPERTIES
  ImplementsDelivery
  EveryFactSettles
CHECK_DEADLOCK FALSE
