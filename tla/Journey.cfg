SPECIFICATION Spec
CONSTANTS
  Subjects = {ann, bob}
  Addresses = {ip}
  Customer = ann
  bob = bob
  ip = ip
  OtherRequests <- MCOtherRequests
  Burst = 1
  Rate = 1
  IdleTTL = 0
  Threshold = 3
  Rows = {1, 2, 3}
  CreatedAt <- MCCreatedAt
  Limits = {0, 1, 4}
  Absent = absent
  NotANumber = nan
  DefaultLimit = 2
  MaxLimit = 3
  Top = top
  End = end
  MaxMistakes = 1
  MaxRetries = 2
  MaxCalls = 2
INVARIANTS
  TypeOK
  BudgetExact
  BucketsBounded
  WalkIsExact
  AnswerIsTrue
PROPERTY JourneyEnds
CHECK_DEADLOCK FALSE
