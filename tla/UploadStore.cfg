SPECIFICATION FairSpec
CONSTANTS
  Keys <- MCKeys
  Cleaners = {c1, c2}
  Grace = 1
  MaxRequest = 1
  BatchSize = 1
INVARIANTS
  TypeOK
  AcknowledgedFileStays
PROPERTIES
  ReferencedProtected
  OrphansGo
CHECK_DEADLOCK FALSE
