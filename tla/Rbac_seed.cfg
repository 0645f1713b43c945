SPECIFICATION Spec
CONSTANTS
  x = x
  y = y
  z = z
  w = w
  admin = admin
  ops = ops
  user = user
  team = team
  mu = mu
  mr = mr
  mp = mp
  c = c
  None = None
  Users = {x, y, z, w}
  Roles = {admin, ops, user, team}
  Perms = {mu, mr, mp, c}
  Txs = {t1, t2}
  AdminRole = admin
  DefaultRole = user
  ManageUsers = mu
  ManageRoles = mr
  ManagePermissions = mp
  OtherSystem = {}
  Bootstrap = x
  RepeatableRead = FALSE
  Scenes <- PeersOnly
INVARIANT
  EveryPermissionHeld
CHECK_DEADLOCK FALSE
