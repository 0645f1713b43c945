SPECIFICATION Spec
CONSTANTS
  Users = {u1, u2}
  Families = {f1, f2}
  Tokens = {t1, t2}
  Requests = {r1}
  Admins = {a1}
  IdleTicks = 1
  AbsoluteTicks = 1
  Audited = {"replay"}
  MaxChanges = 2
INVARIANT
  UserChangeRevokes
CHECK_DEADLOCK FALSE
