-------------------------------- MODULE Rbac --------------------------------
(***************************************************************************)
(* Users, roles and permissions, and the requests that change them.  A     *)
(* request is authorized against the role its caller has then, and runs    *)
(* one transaction later: it locks the row it changes, checks that caller  *)
(* holds all it takes away or hands out, takes the lock on the system      *)
(* permissions, counts their holders, changes, counts again and commits.   *)
(*                                                                         *)
(* What a plain SELECT sees depends on the provider: PostgreSQL runs these *)
(* transactions at READ COMMITTED, MySQL at REPEATABLE READ, where the     *)
(* first plain SELECT fixes the snapshot for all that follow.              *)
(***************************************************************************)
EXTENDS Naturals, FiniteSets

CONSTANTS
  Users, Roles, Perms, Txs,
  None,               \* the role of an account that does not exist
  AdminRole,          \* "admin", which the seed command fills
  DefaultRole,        \* "user", the role of whoever registers
  ManageUsers, ManageRoles, ManagePermissions,
  OtherSystem,        \* system permissions that guard other routes
  Bootstrap,          \* the account of ADMIN_EMAIL
  RepeatableRead,     \* TRUE for MySQL
  Scenes              \* the databases that behaviours begin with, and who
                      \* sends how many requests about what

SystemRoles == {AdminRole, DefaultRole}
SystemPermissions == {ManageUsers, ManageRoles, ManagePermissions} \union OtherSystem

ASSUME RbacAssumption ==
  /\ SystemRoles \subseteq Roles /\ None \notin Roles
  /\ SystemPermissions \subseteq Perms
  /\ Bootstrap \in Users /\ RepeatableRead \in BOOLEAN
  /\ \A s \in Scenes :
       /\ s.role \in [Users -> Roles \union {None}]
       /\ s.perms \in [Roles -> SUBSET Perms]
       /\ s.callers \subseteq Users /\ s.lists \subseteq SUBSET Perms
       /\ s.users \subseteq Users /\ s.newRoles \subseteq Roles
       /\ s.newPerms \subseteq Perms /\ s.requests \in Nat
       /\ s.userEmail \subseteq Users

VARIABLES
  role,     \* users.role_id
  active,   \* users.deleted_at IS NULL
  roles,    \* the roles that exist
  perms,    \* role_permissions
  known,    \* the permissions that exist
  creating, \* the creations of a permission in flight
  seeding,  \* the entry that a seed run comes to next
  moved,    \* history: the accounts that seed runs took from one role to another
  tx,       \* the transaction of each request in flight
  requests, \* bound: requests so far
  scene     \* the scene of this behaviour: never changes

commands == <<seeding, moved>>
rows == <<role, active, roles, perms, known, creating, commands, scene>>
vars == <<role, active, roles, perms, known, creating, commands, tx, requests, scene>>

InitRole == scene.role
InitPerms == scene.perms
Callers == scene.callers    \* the users who send requests
Lists == scene.lists        \* bound: the lists of permissions that requests assign
Accounts == scene.users     \* bound: the accounts there are and may be
Existing(r) ==
  InitPerms[r] # {} \/ r \in SystemRoles \/ \E u \in Users : InitRole[u] = r
Named == {r \in Roles : Existing(r)} \union scene.newRoles \* bound: role names
NewPerms == scene.newPerms  \* bound: names of permissions that are created
UserEmail == scene.userEmail \* the account of USER_EMAIL, if it is set
MaxRequests == scene.requests \* bound: requests, registrations and seed runs

-----------------------------------------------------------------------------

\* What a query can see of the database.
Database ==
  [role : [Users -> Roles \union {None}], active : [Users -> BOOLEAN],
   perms : [Roles -> SUBSET Perms]]
Committed == [role |-> role, active |-> active, perms |-> perms]

Kinds == {"createUser", "updateUser", "deleteUser", "deleteRole", "assign"}
Request == [kind : Kinds, user : Accounts, role : Named, ids : Lists \union {{}}]
Phases == {"authorized", "checked", "guarded", "counted"}

\* snapshot holds the read view of the transaction, once it has one; before
\* the system permissions that nobody held when the guard was taken.
Idle == [phase |-> "idle"]
Tx(request, x) ==
  [phase |-> "authorized", request |-> request, actor |-> x, actorRole |-> role[x],
   snapshot |-> {}, before |-> {}]
Transaction ==
  [phase : Phases, request : Request, actor : Users, actorRole : Roles,
   snapshot : SUBSET Database, before : SUBSET Perms]

\* What the creation of a permission knows: its caller, and the roles that
\* managed permissions when it looked.
Creation == [actor : Users, managing : SUBSET Roles]

\* The last lines are the foreign keys of users and role_permissions.
TypeOK ==
  /\ role \in [Users -> Roles \union {None}]
  /\ active \in [Users -> BOOLEAN]
  /\ roles \subseteq Roles /\ known \subseteq Perms
  /\ perms \in [Roles -> SUBSET Perms]
  /\ creating \in [Perms -> SUBSET Creation]
  /\ seeding \in {"nothing", "ADMIN_EMAIL", "USER_EMAIL"} /\ moved \subseteq Users
  /\ tx \in [Txs -> Transaction \union {Idle}]
  /\ requests \in 0..MaxRequests
  /\ \A u \in Users : role[u] \in roles \union {None} /\ (active[u] => role[u] # None)
  /\ \A r \in Roles : perms[r] \subseteq known /\ (r \notin roles => perms[r] = {})

Init ==
  /\ scene \in Scenes
  /\ role = InitRole
  /\ active = [u \in Users |-> InitRole[u] # None]
  /\ roles = {r \in Roles : Existing(r)}
  /\ perms = InitPerms
  /\ known = SystemPermissions \union UNION {InitPerms[r] : r \in Roles}
  /\ creating = [p \in Perms |-> {}]
  /\ seeding = "nothing" /\ moved = {}
  /\ tx = [t \in Txs |-> Idle]
  /\ requests = 0

-----------------------------------------------------------------------------
(* What queries answer.                                                    *)

Holders(db, p) == {u \in Users : db.active[u] /\ db.role[u] # None /\ p \in db.perms[db.role[u]]}
Unheld(db) == {p \in SystemPermissions : Holders(db, p) = {}}

PermissionsOf(db, r) == db.perms[r]
PermissionsWithinActor(db, t, ids) == ids \subseteq PermissionsOf(db, tx[t].actorRole)
RoleWithinActor(db, t, r) ==
  r = tx[t].actorRole \/ PermissionsWithinActor(db, t, PermissionsOf(db, r))

\* A deleted user has no permission.
UserHasPermission(x, p) == active[x] /\ p \in perms[role[x]]

\* The view of the transaction's next plain SELECT.
Seen(t) ==
  IF RepeatableRead /\ tx[t].snapshot # {} THEN CHOOSE v \in tx[t].snapshot : TRUE
                                           ELSE Committed

-----------------------------------------------------------------------------
(* Row locks.                                                              *)

InTransaction(t) == tx[t].phase \in Phases \ {"authorized"}
LocksUser(s, u) ==
  /\ InTransaction(s) /\ tx[s].request.kind \in {"updateUser", "deleteUser"}
  /\ tx[s].request.user = u
LocksRole(s, r) ==
  InTransaction(s) /\ tx[s].request.kind = "assign" /\ tx[s].request.role = r

UserLocked(u, t) == \E s \in Txs \ {t} : LocksUser(s, u)
RoleLocked(r, t) == \E s \in Txs \ {t} : LocksRole(s, r)

\* Mutant: the guard locks nothing.
GuardUnlocked(t) == FALSE

\* Mutant: the guard is taken with the first row.
GuardLockedEarly(t) == \E s \in Txs \ {t} : InTransaction(s)

GuardLocked(t) == \E s \in Txs \ {t} : tx[s].phase \in {"guarded", "counted"}

End(t) == tx' = [tx EXCEPT ![t] = Idle]

-----------------------------------------------------------------------------
(* A request arrives: LoadActor and Authorize.                             *)

RoutePermission(kind) ==
  IF kind \in {"createUser", "updateUser", "deleteUser"} THEN ManageUsers ELSE ManageRoles

\* Nobody may delete the own account, and a list of permissions is not empty.
Valid(r, x) ==
  /\ r.kind = "deleteUser" => r.user # x
  /\ r.kind = "assign" => r.ids # {}
  /\ r.kind # "assign" => r.ids = {}
  /\ r.kind \in {"deleteRole", "assign"} => r.user = x
  /\ r.kind = "deleteUser" => r.role = role[r.user]
  /\ r.kind = "createUser" => role[r.user] = None

Arrive(t, x) ==
  /\ requests < MaxRequests /\ requests' = requests + 1
  /\ tx[t] = Idle
  /\ \E r \in Request :
       /\ Valid(r, x)
       /\ UserHasPermission(x, RoutePermission(r.kind))
       /\ tx' = [tx EXCEPT ![t] = Tx(r, x)]
  /\ UNCHANGED rows

-----------------------------------------------------------------------------
(* The transaction locks its row and applies the anti-escalation rule.     *)

\* The rule reads nothing of a role that is the caller's own.
ChecksRoles(t) ==
  LET r == tx[t].request IN
  CASE r.kind = "updateUser" -> {role[r.user], r.role}
    [] r.kind = "deleteUser" -> {role[r.user]}
    [] r.kind = "assign" -> {r.role}
Touched(t) == PermissionsOf(Committed, tx[t].request.role) \union tx[t].request.ids

\* Mutant: only the role the user has now is looked at.
RuleAllowsOldRole(t) ==
  LET r == tx[t].request IN
  IF r.kind = "assign"
  THEN r.ids \subseteq known /\ PermissionsWithinActor(Committed, t, Touched(t))
  ELSE RoleWithinActor(Committed, t, role[r.user])

\* Mutant: only the role the user is to have is looked at.
RuleAllowsNewRole(t) ==
  LET r == tx[t].request IN
  IF r.kind = "assign"
  THEN r.ids \subseteq known /\ PermissionsWithinActor(Committed, t, Touched(t))
  ELSE RoleWithinActor(Committed, t, r.role)

RuleAllows(t) ==
  LET r == tx[t].request IN
  IF r.kind = "assign"
  THEN r.ids \subseteq known /\ PermissionsWithinActor(Committed, t, Touched(t))
  ELSE \A c \in ChecksRoles(t) : RoleWithinActor(Committed, t, c)
Reads(t) ==
  tx[t].request.kind = "assign" \/ \E c \in ChecksRoles(t) : c # tx[t].actorRole

LockAndCheck(t) ==
  LET r == tx[t].request IN
  /\ tx[t].phase = "authorized"
  /\ \/ r.kind = "assign" /\ r.role \in roles /\ ~RoleLocked(r.role, t)
     \/ r.kind \in {"updateUser", "deleteUser"} /\ active[r.user] /\ ~UserLocked(r.user, t)
  /\ RuleAllows(t)
  /\ tx' = [tx EXCEPT ![t].phase = "checked",
                      ![t].snapshot = IF RepeatableRead /\ Reads(t) THEN {Committed} ELSE {}]
  /\ UNCHANGED <<rows, requests>>

\* The rows of the system permissions, locked in a fixed order, are one lock.
\* (An update that keeps the role ends without it and changes no row here.)
Guard(t) ==
  /\ tx[t].phase = "checked" /\ ~GuardLocked(t)
  /\ tx[t].request.kind = "updateUser" => role[tx[t].request.user] # tx[t].request.role
  /\ tx' = [tx EXCEPT ![t].phase = "guarded", ![t].before = Unheld(Seen(t)),
                      ![t].snapshot = IF RepeatableRead THEN {Seen(t)} ELSE {}]
  /\ UNCHANGED <<rows, requests>>

-----------------------------------------------------------------------------
(* It changes its row, counts the holders again, and commits.              *)

Moved(db, u, r) == [db EXCEPT !.role[u] = r]
SoftDeleted(db, u) == [db EXCEPT !.active[u] = FALSE]
Reassigned(db, r, ids) == [db EXCEPT !.perms[r] = ids]

\* A database with the changes of a request written over it.
Changed(db, r) ==
  CASE r.kind = "updateUser" -> Moved(db, r.user, r.role)
    [] r.kind = "deleteUser" -> SoftDeleted(db, r.user)
    [] r.kind = "assign"     -> Reassigned(db, r.role, r.ids)

HoldersKept(t) == Unheld(Changed(Seen(t), tx[t].request)) \subseteq tx[t].before

\* The foreign key of users takes a share lock on the new role.
Count(t) ==
  LET r == tx[t].request IN
  /\ tx[t].phase = "guarded"
  /\ r.kind = "updateUser" => r.role \in roles /\ ~RoleLocked(r.role, t)
  /\ r.ids \subseteq known
  /\ HoldersKept(t)
  /\ tx' = [tx EXCEPT ![t].phase = "counted"]
  /\ UNCHANGED <<rows, requests>>

\* The audit row takes a share lock on the caller.
Commit(t) ==
  LET db == Changed(Committed, tx[t].request) IN
  /\ tx[t].phase = "counted" /\ ~UserLocked(tx[t].actor, t)
  /\ role' = db.role /\ active' = db.active /\ perms' = db.perms
  /\ End(t)
  /\ UNCHANGED <<roles, known, creating, commands, requests, scene>>

\* Refused by a rule or the count, failed, unchanged, or chosen as the victim
\* of a deadlock.
Abort(t) ==
  /\ tx[t] # Idle
  /\ End(t)
  /\ UNCHANGED <<rows, requests>>

-----------------------------------------------------------------------------
(* Requests that need no guard.                                            *)

\* A new account, or one that the seed command brings back or moves.
Account(u, r) ==
  /\ role' = [role EXCEPT ![u] = r]
  /\ active' = [active EXCEPT ![u] = TRUE]

CreateUser(t) ==
  LET r == tx[t].request IN
  /\ tx[t].phase = "authorized" /\ r.kind = "createUser"
  /\ role[r.user] = None /\ r.role \in roles /\ ~RoleLocked(r.role, t)
  /\ ~UserLocked(tx[t].actor, t)
  /\ RoleWithinActor(Committed, t, r.role)
  /\ Account(r.user, r.role)
  /\ End(t)
  /\ UNCHANGED <<roles, perms, known, creating, commands, requests, scene>>

\* Mutant: the foreign key of users does not look at soft-deleted accounts.
InUseActively(r) == \E u \in Users : role[u] = r /\ active[u]

\* The foreign key of users restricts, that of role_permissions cascades.
InUse(r) ==
  \/ \E u \in Users : role[u] = r
  \/ \E s \in Txs : tx[s].phase = "counted" /\ tx[s].request.role = r
DropRole(r) == roles' = roles \ {r} /\ perms' = [perms EXCEPT ![r] = {}]

DeleteRole(t) ==
  LET r == tx[t].request.role IN
  /\ tx[t].phase = "authorized" /\ tx[t].request.kind = "deleteRole"
  /\ r \in roles \ SystemRoles /\ ~RoleLocked(r, t)
  /\ ~UserLocked(tx[t].actor, t)
  /\ RoleWithinActor(Committed, t, r)
  /\ ~InUse(r) /\ DropRole(r)
  /\ End(t)
  /\ UNCHANGED <<role, active, known, creating, commands, requests, scene>>

\* Requests and commands of a few statements: what they lock before they wait
\* keeps nobody else from a step that matters here.
Immediate == requests < MaxRequests /\ requests' = requests + 1

\* The foreign key of the audit row.
CallerFree(x) == \A s \in Txs : ~LocksUser(s, x)

Register(u) ==
  /\ Immediate /\ role[u] = None
  /\ \A s \in Txs : ~LocksRole(s, DefaultRole)
  /\ Account(u, DefaultRole)
  /\ UNCHANGED <<roles, perms, known, creating, commands, tx, scene>>

CreateRole(x, r) ==
  /\ Immediate /\ UserHasPermission(x, ManageRoles) /\ CallerFree(x)
  /\ r \in Roles \ (roles \union SystemRoles)
  /\ roles' = roles \union {r}
  /\ UNCHANGED <<role, active, perms, known, creating, commands, tx, scene>>

Managing(p) == {r \in Roles : p \in perms[r]}

\* The row is inserted and the roles to grant it to are listed.  Another
\* creation of the same name waits for this one.
ListManagers(x, p) ==
  /\ Immediate /\ UserHasPermission(x, ManagePermissions)
  /\ p \in Perms \ (known \union SystemPermissions) /\ creating[p] = {}
  /\ creating' = [creating EXCEPT ![p] = {[actor |-> x, managing |-> Managing(ManagePermissions)]}]
  /\ UNCHANGED <<role, active, roles, perms, known, commands, tx, scene>>

\* GrantToPermissionManagers: the grants wait for an assignment that has the
\* role, and fail if the role is gone.
CreatePermission(p) ==
  \E c \in creating[p] :
    /\ p \notin known /\ c.managing \subseteq roles /\ CallerFree(c.actor)
    /\ \A r \in c.managing, s \in Txs : ~LocksRole(s, r)
    /\ known' = known \union {p}
    /\ perms' = [r \in Roles |-> IF r \in c.managing THEN perms[r] \union {p} ELSE perms[r]]
    /\ creating' = [creating EXCEPT ![p] = {}]
    /\ UNCHANGED <<role, active, roles, commands, tx, requests, scene>>

AbortCreation(p) ==
  /\ creating[p] # {}
  /\ creating' = [creating EXCEPT ![p] = {}]
  /\ UNCHANGED <<role, active, roles, perms, known, commands, tx, requests, scene>>

\* Rows of role_permissions that an assignment deleted or inserted so far.
Uncommitted(s) ==
  IF tx[s].phase = "counted" /\ tx[s].request.kind = "assign" THEN Touched(s) ELSE {}

DeletePermission(x, p) ==
  /\ Immediate /\ UserHasPermission(x, ManagePermissions) /\ CallerFree(x)
  /\ p \in (known \ SystemPermissions) \intersect perms[role[x]]
  /\ \A s \in Txs : p \notin Uncommitted(s)
  /\ known' = known \ {p}
  /\ perms' = [r \in Roles |-> perms[r] \ {p}]
  /\ UNCHANGED <<role, active, roles, creating, commands, tx, scene>>

-----------------------------------------------------------------------------
(* The seed command, each statement a transaction of its own.  It can end  *)
(* after any of them.                                                      *)

\* Its first statements insert the system roles and permissions, which stand.
SeedAdminPermissions ==
  /\ Immediate /\ seeding = "nothing"
  /\ \A s \in Txs : ~LocksRole(s, AdminRole)
  /\ perms' = [perms EXCEPT ![AdminRole] = known]
  /\ seeding' = "ADMIN_EMAIL"
  /\ UNCHANGED <<role, active, roles, known, creating, moved, tx, scene>>

\* Creates the account, restores it, or gives it another role, as it finds it:
\* no guard counts the holders, and no rule looks at the role it has.
SeedUser(u, r) ==
  /\ \A s \in Txs : ~LocksUser(s, u) /\ (role[u] # r => ~LocksRole(s, r))
  /\ Account(u, r)
  /\ moved' = IF active[u] /\ role[u] # r THEN moved \union {u} ELSE moved
  /\ UNCHANGED <<roles, perms, known, creating, tx, requests, scene>>

\* One entry after the other.
SeedAdmin ==
  /\ seeding = "ADMIN_EMAIL" /\ seeding' = "USER_EMAIL"
  /\ SeedUser(Bootstrap, AdminRole)
SeedOther ==
  /\ seeding = "USER_EMAIL" /\ seeding' = "nothing"
  /\ \E u \in UserEmail : SeedUser(u, DefaultRole)

\* ADMIN_EMAIL is not set, or the command is over.
SeedSkips ==
  /\ seeding # "nothing"
  /\ \/ seeding = "ADMIN_EMAIL" /\ seeding' = "USER_EMAIL"
     \/ seeding' = "nothing"
  /\ UNCHANGED <<role, active, roles, perms, known, creating, moved, tx, requests, scene>>

-----------------------------------------------------------------------------

Next ==
  \/ \E t \in Txs, x \in Callers : Arrive(t, x)
  \/ \E t \in Txs : LockAndCheck(t) \/ Guard(t) \/ Count(t) \/ Commit(t) \/ Abort(t)
  \/ \E t \in Txs : CreateUser(t) \/ DeleteRole(t)
  \/ \E u \in Accounts : Register(u)
  \/ \E x \in Callers, r \in Named : CreateRole(x, r)
  \/ \E x \in Callers, p \in NewPerms : ListManagers(x, p) \/ DeletePermission(x, p)
  \/ \E p \in NewPerms : CreatePermission(p) \/ AbortCreation(p)
  \/ SeedAdminPermissions \/ SeedAdmin \/ SeedOther \/ SeedSkips

Spec == Init /\ [][Next]_vars

-----------------------------------------------------------------------------
(* Fairness: a transaction that waits for no lock goes on or ends, and the
   database breaks a cycle of waiting ones. *)

Step(t) ==
  LockAndCheck(t) \/ Guard(t) \/ Count(t) \/ Commit(t) \/ CreateUser(t) \/ DeleteRole(t) \/ Abort(t)

Waits(t) ==
  LET r == tx[t].request IN
  CASE tx[t].phase = "checked" -> GuardLocked(t)
    [] tx[t].phase = "guarded" -> r.kind = "updateUser" /\ RoleLocked(r.role, t)
    [] tx[t].phase = "counted" -> UserLocked(tx[t].actor, t)
    [] tx[t].phase = "authorized" ->
         \/ r.kind \in {"createUser", "deleteRole", "assign"} /\ RoleLocked(r.role, t)
         \/ r.kind \in {"createUser", "deleteRole"} /\ UserLocked(tx[t].actor, t)
         \/ r.kind \in {"updateUser", "deleteUser"} /\ UserLocked(r.user, t)
    [] OTHER -> FALSE

\* t has the guard and waits for a row of s, which waits for the guard.
Deadlocked(t, s) ==
  /\ t # s /\ tx[s].phase = "checked"
  /\ tx[t].phase \in {"guarded", "counted"} /\ Waits(t)
ResolveDeadlock(t, s) == Deadlocked(t, s) /\ (Abort(t) \/ Abort(s))

Fairness ==
  /\ \A t \in Txs : SF_vars(~Waits(t) /\ Step(t))
  /\ \A t, s \in Txs : WF_vars(ResolveDeadlock(t, s))

FairSpec == Spec /\ Fairness

-----------------------------------------------------------------------------
(* Properties.                                                             *)

(* "No change may leave a system permission without an active holder": not
   even two changes that each leave one when they look (role/privilege.go
   GuardSystemPermissionHolders; CHANGELOG.md:11).  The seed command does not
   ask: this is said of behaviours in which it moved no account, and the next
   one of all. *)
SystemPermissionsHeld == moved = {} => Unheld(Committed) = {}

(* CHANGELOG.md:11, without exception: "tidak ada perubahan yang boleh membuat
   permission sistem tanpa pemegang aktif".  The seed command gives the account
   of USER_EMAIL the role "user", whatever it held. *)
EveryPermissionHeld == Unheld(Committed) = {}

InitHolds(u) == IF InitRole[u] = None THEN {} ELSE InitPerms[InitRole[u]]
InitKnown == SystemPermissions \union UNION {InitPerms[r] : r \in Roles}

\* What the callers held to begin with, or anybody who registers.
Ceiling == InitPerms[DefaultRole] \union UNION {InitHolds(c) : c \in Callers}

\* What one of them may delete for everybody.
Deletable == (Ceiling \intersect NewPerms) \ SystemPermissions

\* A database that the seed command has filled, and one without an orphaned
\* system permission: what the theorems about these properties begin with.
Seeded(s) ==
  /\ s.role[Bootstrap] = AdminRole
  /\ SystemPermissions \union UNION {s.perms[r] : r \in Roles} \subseteq s.perms[AdminRole]
NoOrphan(s) ==
  \A p \in SystemPermissions : \E u \in Users : s.role[u] # None /\ p \in s.perms[s.role[u]]

(* Whatever the callers do, together and at once, no account comes to hold a
   permission that none of them held to begin with, unless it was its own
   (role/privilege.go PermissionsWithinActor, RoleWithinActor; CHANGELOG.md:10).
   Permissions created on the way are not counted. *)
NoEscalation ==
  \A u \in Users : role[u] # None =>
    perms[role[u]] \intersect InitKnown \subseteq Ceiling \union InitHolds(u)

(* An account with a permission that no caller holds can neither be deleted,
   nor moved to another role, nor have its role stripped, by any caller: all it
   can lose is a permission that a caller deletes altogether.  Accounts that
   the operator's seed command moved are theirs to change from then on. *)
SuperiorsUntouched ==
  \A u \in Users \ moved : ~(InitHolds(u) \subseteq Ceiling) =>
    /\ active[u] /\ role[u] = InitRole[u]
    /\ InitHolds(u) \subseteq perms[role[u]] \union Deletable

(* Every request ends, although a transaction that holds the guard waits for
   the row of its caller, which another one that waits for the guard may be
   about to change. *)
RequestsEnd == \A t \in Txs : []<>(tx[t] = Idle)
=============================================================================
