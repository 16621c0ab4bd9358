SPECIFICATION FairSpec
CONSTANTS
  MaxRequests = 1
  MaxFaults = 2
INVARIANTS
  TypeOK
  NothingUsedAfterClose
  RequestsKeepWorkers
PROPERTIES
  EndsOrServes
CHECK_DEADLOCK FALSE
