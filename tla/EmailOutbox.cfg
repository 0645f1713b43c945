SPECIFICATION FairSpec
CONSTANTS
  Jobs = {j1}
  Workers = {w1, w2}
  MaxAttempts = 3
  LeaseTicks = 2
  Retries <- MCRetries
  Skew = 1
INVARIANTS
  TypeOK
  OneWorkerPerAttempt
  OutcomeAgrees
PROPERTIES
  LatestAttemptSettles
  ImplementsContract
  EveryJobSettles
CHECK_DEADLOCK FALSE
