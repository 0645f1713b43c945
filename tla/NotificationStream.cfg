SPECIFICATION FairSpec
CONSTANTS
  Creators = {c1, c2}
  MaxRows = 4
  BatchSize = 2
  PageSize = 2
  MaxDrops = 2
INVARIANTS
  TypeOK
  NothingSkipped
  PagesComplete
  InOrderOnce
PROPERTIES
  UnreadArrives
CHECK_DEADLOCK FALSE
