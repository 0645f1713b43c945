SPECIFICATION InOrderSpec
CONSTANTS
  f1 = f1
  f2 = f2
  t1 = t1
  t2 = t2
  t3 = t3
  Users = {u1}
  Families = {f1, f2}
  Tokens = {t1, t2, t3}
  Requests = {r1, r2}
  Admins = {a1}
  IdleTicks = 1
  AbsoluteTicks = 2
  Audited = {"replay", "logout"}
  MaxChanges = 2
INVARIANTS
  TypeOK
  OneLiveToken
  ReplayEndsSession
  TokenWithinFamily
  ChangeEndsSessions
PROPERTIES
  RotatesLiveSession
  NothingRevives
  RequestsEnd
CHECK_DEADLOCK FALSE
