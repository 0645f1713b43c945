SPECIFICATION FairSpec
CONSTANTS
  Garbage = Garbage
  Request = {r1, r2}
  Deployments <- MCDeployments
  PoolSize = 1
INVARIANTS
  TypeOK
  AuditAgrees
  RejectedNeverQueries
  RequestsOutlived
PROPERTIES
  ProcessEnds
CHECK_DEADLOCK FALSE
