SPECIFICATION FairSpec
CONSTANTS
  j1 = j1
  j2 = j2
  MaxTasks = 2
  Jobs = {j1, j2}
  MaxAttempts = 2
  Limit = 1
  MaxEvents = 3
INVARIANTS
  TypeOK
  SentMeansReceived
  OneDeliveryPerCause
PROPERTIES
  EveryTaskEnds
CHECK_DEADLOCK FALSE
