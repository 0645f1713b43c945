SPECIFICATION Spec
CONSTANTS
  Garbage = Garbage
  Client <- MCClient
  Call = {r1, r2}
  Scenes <- MCScenes
  Cap = 2
  Skew = 1
  Latency = 1
  Horizon = 4
INVARIANTS
  TypeOK
  AdmittedWithinLimit
  MemoryBounded
SYMMETRY MCSymmetry
CHECK_DEADLOCK FALSE
