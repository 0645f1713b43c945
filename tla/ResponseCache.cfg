SPECIFICATION Spec
CONSTANTS
  Readers = {r1, r2}
  NoKey = NoKey
  NoEntry = NoEntry
  TTL = 1
  Latency = 1
  MaxWrites = 2
  MaxTime = 3
  MaxCrashes = 1
SYMMETRY Symmetry
INVARIANTS
  TypeOK
  FreshAfterInvalidation
  StaleWithinTTL
CHECK_DEADLOCK FALSE
