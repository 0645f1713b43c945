----------------------------- MODULE RbacProofs -----------------------------
(***************************************************************************)
(* Proofs about Rbac: types, the anti-escalation rule, and the holders of  *)
(* the system permissions.  Each has an inductive invariant of its own;    *)
(* the lemmas about an invariant come one per action, in the order of      *)
(* Next, and steps that change one transaction only share one.             *)
(***************************************************************************)
EXTENDS Rbac, TLAPS

-----------------------------------------------------------------------------
(* The inductive invariants.                                               *)

\* What a transaction has found out and its locks keep true.
Sound(t) ==
  InTransaction(t) =>
    /\ tx[t].request.kind \in {"updateUser", "deleteUser", "assign"}
    /\ tx[t].request.kind = "assign" => tx[t].request.role \in roles
    /\ tx[t].phase = "counted" =>
         /\ tx[t].request.kind = "updateUser" => tx[t].request.role \in roles
         /\ tx[t].request.kind = "assign" => tx[t].request.ids \subseteq known

TypeInv ==
  /\ TypeOK
  /\ scene \in Scenes
  /\ SystemRoles \subseteq roles /\ SystemPermissions \subseteq known
  /\ \A t \in Txs : Sound(t)

\* Row locks and the guard exclude, and a locked account is active.
HasGuard(t) == tx[t].phase \in {"guarded", "counted"}
Apart(s, t) ==
  /\ \A u \in Users : ~(LocksUser(s, u) /\ LocksUser(t, u))
  /\ \A r \in Roles : ~(LocksRole(s, r) /\ LocksRole(t, r))
  /\ ~(HasGuard(s) /\ HasGuard(t))
LockedActive(t) == \A u \in Users : LocksUser(t, u) => active[u]

\* The count at the end still holds when the transaction commits.
Counted(t) ==
  /\ HasGuard(t) => tx[t].before = {}
  /\ tx[t].phase = "counted" => Unheld(Changed(Committed, tx[t].request)) = {}

HoldersInv ==
  /\ TypeInv
  /\ \A s, t \in Txs : s # t => Apart(s, t)
  /\ \A t \in Txs : LockedActive(t) /\ Counted(t)
  /\ EveryPermissionHeld

\* No count covers an account that the seed command moves.
UnmovedInv == TypeInv /\ (moved = {} => HoldersInv)

\* A role with a permission that no caller held to begin with.
Superior(r) == ~(InitPerms[r] \subseteq Ceiling)

Within(r) == perms[r] \intersect InitKnown \subseteq Ceiling \union InitPerms[r]
Kept(r) == Superior(r) => r \in roles /\ InitPerms[r] \subseteq perms[r] \union Deletable
Placed(u) ==
  /\ role[u] = None \/ role[u] = InitRole[u] \/ ~Superior(role[u])
  /\ u \notin moved /\ InitRole[u] # None /\ Superior(InitRole[u]) =>
       active[u] /\ role[u] = InitRole[u]
Reachable(u) == InitRole[u] # None /\ Superior(InitRole[u]) => u \in moved
Bounded(t) ==
  LET r == tx[t].request IN
  tx[t] # Idle =>
    /\ ~Superior(tx[t].actorRole)
    /\ InTransaction(t) =>
         /\ r.kind # "assign" => Reachable(r.user)
         /\ r.kind # "deleteUser" => ~Superior(r.role)
         /\ r.kind = "assign" => r.ids \intersect InitKnown \subseteq Ceiling

EscalationInv ==
  /\ TypeInv
  /\ InitKnown \ known \subseteq Deletable
  /\ \A r \in Roles : Within(r) /\ Kept(r)
  /\ \A u \in Users : Placed(u)
  /\ \A t \in Txs : Bounded(t)

-----------------------------------------------------------------------------
(* Facts about the types that most steps use. *)

LEMMA SceneTypes ==
  ASSUME scene \in Scenes
  PROVE  /\ InitRole \in [Users -> Roles \union {None}]
         /\ InitPerms \in [Roles -> SUBSET Perms]
         /\ Callers \subseteq Users /\ Accounts \subseteq Users
         /\ Lists \subseteq SUBSET Perms /\ Named \subseteq Roles
         /\ NewPerms \subseteq Perms /\ MaxRequests \in Nat /\ UserEmail \subseteq Users
  BY RbacAssumption
     DEF InitRole, InitPerms, Callers, Accounts, Lists, Named, NewPerms, MaxRequests, UserEmail

LEMMA TxTypes ==
  ASSUME TypeInv, NEW t \in Txs, tx[t] # Idle
  PROVE  /\ tx[t] \in Transaction
         /\ tx[t].request.kind \in Kinds
         /\ tx[t].request.user \in Users
         /\ tx[t].request.role \in Roles
         /\ tx[t].request.ids \in SUBSET Perms
         /\ tx[t].actorRole \in Roles
  <1>1. tx[t] \in Transaction
    BY DEF TypeInv, TypeOK
  <1>2. tx[t].request \in Request /\ tx[t].actorRole \in Roles
    BY <1>1 DEF Transaction
  <1>3. QED
    BY <1>1, <1>2, SceneTypes DEF TypeInv, Request

\* A transaction in some phase is one, and what it is about is well typed.
LEMMA PhaseTypes ==
  ASSUME TypeInv, NEW t \in Txs, tx[t].phase \in Phases
  PROVE  tx[t] # Idle
  BY DEF Idle, Phases

LEMMA CommitSteps ==
  ASSUME TypeInv, NEW t \in Txs, Commit(t)
  PROVE  /\ \/ /\ tx[t].request.kind = "updateUser"
               /\ role' = [role EXCEPT ![tx[t].request.user] = tx[t].request.role]
               /\ UNCHANGED <<active, perms>>
            \/ /\ tx[t].request.kind = "deleteUser"
               /\ active' = [active EXCEPT ![tx[t].request.user] = FALSE]
               /\ UNCHANGED <<role, perms>>
            \/ /\ tx[t].request.kind = "assign"
               /\ perms' = [perms EXCEPT ![tx[t].request.role] = tx[t].request.ids]
               /\ UNCHANGED <<role, active>>
         /\ tx' = [tx EXCEPT ![t] = Idle]
         /\ UNCHANGED <<roles, known, creating, commands, requests, scene>>
  <1>1. tx[t].request.kind \in {"updateUser", "deleteUser", "assign"}
    BY DEF Commit, TypeInv, Sound, InTransaction, Phases
  <1>2. CASE tx[t].request.kind = "updateUser"
    BY <1>2 DEF Commit, End, Changed, Moved, Committed
  <1>3. CASE tx[t].request.kind = "deleteUser"
    BY <1>3 DEF Commit, End, Changed, SoftDeleted, Committed
  <1>4. CASE tx[t].request.kind = "assign"
    BY <1>4 DEF Commit, End, Changed, Reassigned, Committed
  <1>5. QED
    BY <1>1, <1>2, <1>3, <1>4

LEMMA SoundKept ==
  ASSUME NEW s \in Txs, Sound(s), tx'[s] = tx[s], roles \subseteq roles', known \subseteq known'
  PROVE  Sound(s)'
  BY DEF Sound, InTransaction

LEMMA IdleSound ==
  ASSUME NEW s \in Txs, tx'[s] = Idle
  PROVE  Sound(s)'
  BY DEF Sound, InTransaction, Idle, Phases

-----------------------------------------------------------------------------
(* Type correctness. *)

LEMMA TypeInit == Init => TypeInv
  <1> SUFFICES ASSUME Init PROVE TypeInv
    OBVIOUS
  <1>1. scene \in Scenes
    BY DEF Init
  <1>2. \A t \in Txs : tx[t] = Idle
    BY DEF Init
  <1>3. \A t \in Txs : Sound(t)
    BY <1>2 DEF Sound, InTransaction, Idle, Phases
  <1>4. SystemRoles \subseteq roles /\ SystemPermissions \subseteq known
    BY RbacAssumption DEF Init, Existing
  <1>5. TypeOK
    <2>1. role \in [Users -> Roles \union {None}] /\ active \in [Users -> BOOLEAN]
      BY <1>1, SceneTypes DEF Init
    <2>2. roles \subseteq Roles /\ perms \in [Roles -> SUBSET Perms] /\ known \subseteq Perms
      BY <1>1, SceneTypes, RbacAssumption DEF Init
    <2>3. tx \in [Txs -> Transaction \union {Idle}] /\ requests \in 0..MaxRequests
      BY <1>1, SceneTypes DEF Init
    <2>4. \A u \in Users : role[u] \in roles \union {None} /\ (active[u] => role[u] # None)
      BY <2>1 DEF Init, Existing
    <2>5. \A r \in Roles : perms[r] \subseteq known /\ (r \notin roles => perms[r] = {})
      BY <2>2 DEF Init, Existing
    <2>6. /\ creating \in [Perms -> SUBSET Creation]
          /\ seeding \in {"nothing", "ADMIN_EMAIL", "USER_EMAIL"} /\ moved \subseteq Users
      BY DEF Init
    <2>7. QED
      BY <2>1, <2>2, <2>3, <2>4, <2>5, <2>6 DEF TypeOK
  <1>6. QED
    BY <1>1, <1>3, <1>4, <1>5 DEF TypeInv

\* Steps that change nothing but one transaction.
LEMMA TypeTxStep ==
  ASSUME TypeInv, NEW t \in Txs, NEW y \in Transaction \union {Idle},
         tx' = [tx EXCEPT ![t] = y], UNCHANGED rows, requests' \in 0..MaxRequests,
         Sound(t)'
  PROVE  TypeInv'
  <1>1. TypeOK'
    <2>1. tx' \in [Txs -> Transaction \union {Idle}]'
      BY DEF TypeInv, TypeOK, rows, Transaction, Request, Database, Idle, Accounts, Named,
             Existing, InitPerms, InitRole, Lists
    <2>2. requests' \in (0..MaxRequests)'
      BY DEF rows, MaxRequests
    <2>3. QED
      BY <2>1, <2>2 DEF TypeInv, TypeOK, rows, commands
  <1>2. \A s \in Txs : Sound(s)'
    BY SoundKept DEF TypeInv, TypeOK, rows
  <1>3. QED
    BY <1>1, <1>2 DEF TypeInv, rows

LEMMA TypeArrive ==
  ASSUME TypeInv, NEW t \in Txs, NEW x \in Callers, Arrive(t, x)
  PROVE  TypeInv'
  <1>1. PICK r \in Request : /\ UserHasPermission(x, RoutePermission(r.kind))
                             /\ tx' = [tx EXCEPT ![t] = Tx(r, x)]
    BY DEF Arrive
  <1>2. x \in Users /\ role[x] \in Roles
    BY <1>1, SceneTypes DEF TypeInv, TypeOK, UserHasPermission
  <1>3. Tx(r, x) \in Transaction
    BY <1>1, <1>2 DEF Tx, Transaction, Phases
  <1>4. Sound(t)'
    BY <1>1 DEF Sound, InTransaction, Tx, Phases, TypeInv, TypeOK
  <1>5. requests' \in 0..MaxRequests
    BY SceneTypes DEF Arrive, TypeInv, TypeOK
  <1>6. QED
    BY <1>1, <1>3, <1>4, <1>5, TypeTxStep DEF Arrive

LEMMA TypeLockAndCheck ==
  ASSUME TypeInv, NEW t \in Txs, LockAndCheck(t)
  PROVE  TypeInv'
  <1> DEFINE y == [tx[t] EXCEPT !.phase = "checked",
                     !.snapshot = IF RepeatableRead /\ Reads(t) THEN {Committed} ELSE {}]
  <1>1. tx[t] # Idle
    BY PhaseTypes DEF LockAndCheck, Phases
  <1>2. tx' = [tx EXCEPT ![t] = y]
    BY DEF LockAndCheck, TypeInv, TypeOK
  <1>3. Committed \in Database
    BY DEF Committed, Database, TypeInv, TypeOK
  <1>4. y \in Transaction /\ y.request = tx[t].request /\ y.phase = "checked"
    BY <1>1, <1>3, TxTypes DEF Transaction, Phases
  <1>5. Sound(t)'
    BY <1>2, <1>4 DEF LockAndCheck, Sound, TypeInv, TypeOK, rows
  <1>6. QED
    BY <1>2, <1>4, <1>5, TypeTxStep DEF LockAndCheck, TypeInv, TypeOK

LEMMA TypeGuard ==
  ASSUME TypeInv, NEW t \in Txs, Guard(t)
  PROVE  TypeInv'
  <1> DEFINE y == [tx[t] EXCEPT !.phase = "guarded", !.before = Unheld(Seen(t)),
                     !.snapshot = IF RepeatableRead THEN {Seen(t)} ELSE {}]
  <1>1. tx[t] # Idle
    BY PhaseTypes DEF Guard, Phases
  <1>2. tx' = [tx EXCEPT ![t] = y]
    BY DEF Guard, TypeInv, TypeOK
  <1>3. Seen(t) \in Database
    <2>1. Committed \in Database
      BY DEF Committed, Database, TypeInv, TypeOK
    <2>2. tx[t].snapshot \subseteq Database
      BY <1>1, TxTypes DEF Transaction
    <2>3. QED
      BY <2>1, <2>2 DEF Seen
  <1>4. Unheld(Seen(t)) \subseteq Perms
    BY RbacAssumption DEF Unheld
  <1>5. y \in Transaction /\ y.request = tx[t].request /\ y.phase = "guarded"
    BY <1>1, <1>3, <1>4, TxTypes DEF Transaction, Phases
  <1>6. Sound(t)'
    BY <1>2, <1>5 DEF Guard, Sound, InTransaction, Phases, TypeInv, TypeOK, rows
  <1>7. QED
    BY <1>2, <1>5, <1>6, TypeTxStep DEF Guard, TypeInv, TypeOK

LEMMA TypeCount ==
  ASSUME TypeInv, NEW t \in Txs, Count(t)
  PROVE  TypeInv'
  <1> DEFINE y == [tx[t] EXCEPT !.phase = "counted"]
  <1>1. tx[t] # Idle
    BY PhaseTypes DEF Count, Phases
  <1>2. tx' = [tx EXCEPT ![t] = y]
    BY DEF Count, TypeInv, TypeOK
  <1>3. y \in Transaction /\ y.request = tx[t].request
    BY <1>1, TxTypes DEF Transaction, Phases
  <1>4. Sound(t)'
    BY <1>2, <1>3 DEF Count, Sound, InTransaction, Phases, TypeInv, TypeOK, rows
  <1>5. QED
    BY <1>2, <1>3, <1>4, TypeTxStep DEF Count, TypeInv, TypeOK

LEMMA TypeAbort ==
  ASSUME TypeInv, NEW t \in Txs, Abort(t)
  PROVE  TypeInv'
  <1>1. tx'[t] = Idle
    BY DEF Abort, End, TypeInv, TypeOK
  <1>2. QED
    BY <1>1, IdleSound, TypeTxStep DEF Abort, End, TypeInv, TypeOK

\* The two ways a step of the other kind leaves tx.
LEMMA TypeTx ==
  ASSUME TypeInv, scene' = scene,
         \/ tx' = tx
         \/ \E t \in Txs : tx' = [tx EXCEPT ![t] = Idle]
  PROVE  tx' \in ([Txs -> Transaction \union {Idle}])'
  BY DEF TypeInv, TypeOK, Transaction, Request, Database, Idle, Accounts, Named,
         Existing, InitPerms, InitRole, Lists

LEMMA TypeRequests ==
  ASSUME TypeInv, scene' = scene, requests' = requests \/ Immediate
  PROVE  requests' \in (0..MaxRequests)'
  BY SceneTypes DEF TypeInv, TypeOK, Immediate, MaxRequests

\* Steps that end a transaction, or none, and take no role or permission away.
LEMMA SoundAfter ==
  ASSUME TypeInv, roles \subseteq roles', known \subseteq known',
         \/ tx' = tx
         \/ \E t \in Txs : tx' = [tx EXCEPT ![t] = Idle]
  PROVE  \A s \in Txs : Sound(s)'
  <1> SUFFICES ASSUME NEW s \in Txs PROVE Sound(s)'
    OBVIOUS
  <1>1. tx'[s] = tx[s] \/ tx'[s] = Idle
    BY DEF TypeInv, TypeOK
  <1>2. QED
    BY <1>1, SoundKept, IdleSound DEF TypeInv

LEMMA TypeCommit ==
  ASSUME TypeInv, NEW t \in Txs, Commit(t)
  PROVE  TypeInv'
  <1> DEFINE r == tx[t].request
  <1>1. /\ r.user \in Users /\ r.role \in Roles /\ r.ids \in SUBSET Perms
        /\ r.kind = "updateUser" => r.role \in roles
        /\ r.kind = "assign" => r.role \in roles /\ r.ids \subseteq known
    BY PhaseTypes, TxTypes DEF Commit, Phases, TypeInv, Sound, InTransaction
  <1>2. UNCHANGED <<roles, known, creating, seeding, moved, scene>>
    BY DEF Commit, commands
  <1>3. TypeOK'
    <2>1. tx' \in ([Txs -> Transaction \union {Idle}])'
      BY <1>2, CommitSteps, TypeTx
    <2>2. requests' \in (0..MaxRequests)'
      BY <1>2, TypeRequests DEF Commit
    <2>3. /\ role' \in [Users -> Roles \union {None}] /\ active' \in [Users -> BOOLEAN]
          /\ perms' \in [Roles -> SUBSET Perms]
      BY <1>1, CommitSteps DEF TypeInv, TypeOK
    <2>4. \A u \in Users : role'[u] \in roles \union {None} /\ (active'[u] => role'[u] # None)
      BY <1>1, CommitSteps, RbacAssumption DEF TypeInv, TypeOK
    <2>5. \A q \in Roles : perms'[q] \subseteq known /\ (q \notin roles => perms'[q] = {})
      BY <1>1, CommitSteps DEF TypeInv, TypeOK
    <2>6. QED
      BY <1>2, <2>1, <2>2, <2>3, <2>4, <2>5 DEF TypeInv, TypeOK
  <1>4. QED
    BY <1>2, <1>3, CommitSteps, SoundAfter DEF TypeInv

\* An account that is created or brought back has a role that exists.
LEMMA TypeAccount ==
  ASSUME TypeInv, NEW u \in Users, NEW r \in roles, Account(u, r)
  PROVE  /\ role' \in [Users -> Roles \union {None}] /\ active' \in [Users -> BOOLEAN]
         /\ \A v \in Users : role'[v] \in roles \union {None} /\ (active'[v] => role'[v] # None)
  BY RbacAssumption DEF TypeInv, TypeOK, Account

LEMMA TypeCreateUser ==
  ASSUME TypeInv, NEW t \in Txs, CreateUser(t)
  PROVE  TypeInv'
  <1>1. tx[t].request.user \in Users /\ tx[t].request.role \in roles
    BY PhaseTypes, TxTypes DEF CreateUser, Phases
  <1>2. /\ role' \in [Users -> Roles \union {None}] /\ active' \in [Users -> BOOLEAN]
        /\ \A v \in Users : role'[v] \in roles \union {None} /\ (active'[v] => role'[v] # None)
    BY <1>1, TypeAccount DEF CreateUser
  <1>3. /\ UNCHANGED <<roles, perms, known, creating, seeding, moved, requests, scene>>
        /\ tx' = [tx EXCEPT ![t] = Idle]
    BY DEF CreateUser, End, commands
  <1>4. TypeOK'
    BY <1>2, <1>3, TypeTx, TypeRequests DEF TypeInv, TypeOK
  <1>5. QED
    BY <1>3, <1>4, SoundAfter DEF TypeInv

LEMMA TypeRegister ==
  ASSUME TypeInv, NEW u \in Accounts, Register(u)
  PROVE  TypeInv'
  <1>1. u \in Users /\ DefaultRole \in roles
    BY SceneTypes DEF TypeInv, SystemRoles
  <1>2. /\ role' \in [Users -> Roles \union {None}] /\ active' \in [Users -> BOOLEAN]
        /\ \A v \in Users : role'[v] \in roles \union {None} /\ (active'[v] => role'[v] # None)
    BY <1>1, TypeAccount DEF Register
  <1>3. UNCHANGED <<roles, perms, known, creating, seeding, moved, tx, scene>>
    BY DEF Register, commands
  <1>4. TypeOK'
    BY <1>2, <1>3, TypeTx, TypeRequests DEF TypeInv, TypeOK, Register
  <1>5. QED
    BY <1>3, <1>4, SoundAfter DEF TypeInv

LEMMA TypeSeedAdminPermissions ==
  ASSUME TypeInv, SeedAdminPermissions
  PROVE  TypeInv'
  <1>1. AdminRole \in roles
    BY DEF TypeInv, SystemRoles
  <1>2. /\ UNCHANGED <<role, active, roles, known, creating, moved, tx, scene>>
        /\ perms' = [perms EXCEPT ![AdminRole] = known] /\ seeding' = "ADMIN_EMAIL"
    BY DEF SeedAdminPermissions
  <1>3. TypeOK'
    <2>1. tx' \in ([Txs -> Transaction \union {Idle}])' /\ requests' \in (0..MaxRequests)'
      BY <1>2, TypeTx, TypeRequests DEF SeedAdminPermissions
    <2>2. /\ perms' \in [Roles -> SUBSET Perms]
          /\ \A q \in Roles : perms'[q] \subseteq known /\ (q \notin roles => perms'[q] = {})
      BY <1>1, <1>2 DEF TypeInv, TypeOK
    <2>3. QED
      BY <1>2, <2>1, <2>2 DEF TypeInv, TypeOK
  <1>4. QED
    BY <1>2, <1>3, SoundAfter DEF TypeInv

LEMMA TypeSeedUser ==
  ASSUME TypeInv, NEW u \in Users, NEW r \in roles, SeedUser(u, r),
         seeding' \in {"nothing", "ADMIN_EMAIL", "USER_EMAIL"}
  PROVE  TypeInv'
  <1>1. /\ role' \in [Users -> Roles \union {None}] /\ active' \in [Users -> BOOLEAN]
        /\ \A v \in Users : role'[v] \in roles \union {None} /\ (active'[v] => role'[v] # None)
    BY TypeAccount DEF SeedUser
  <1>2. UNCHANGED <<roles, perms, known, creating, tx, requests, scene>> /\ moved' \subseteq Users
    BY DEF SeedUser, TypeInv, TypeOK
  <1>3. TypeOK'
    BY <1>1, <1>2, TypeTx, TypeRequests DEF TypeInv, TypeOK
  <1>4. QED
    BY <1>2, <1>3, SoundAfter DEF TypeInv

LEMMA TypeSeed ==
  ASSUME TypeInv, SeedAdmin \/ SeedOther \/ SeedSkips
  PROVE  TypeInv'
  <1>1. CASE SeedAdmin
    BY <1>1, RbacAssumption, TypeSeedUser DEF SeedAdmin, TypeInv, SystemRoles
  <1>2. CASE SeedOther
    BY <1>2, SceneTypes, TypeSeedUser DEF SeedOther, TypeInv, SystemRoles
  <1>3. CASE SeedSkips
    <2>1. /\ UNCHANGED <<role, active, roles, perms, known, creating, moved, tx, requests, scene>>
          /\ seeding' \in {"nothing", "ADMIN_EMAIL", "USER_EMAIL"}
      BY <1>3 DEF SeedSkips
    <2>2. TypeOK'
      BY <2>1, TypeTx, TypeRequests DEF TypeInv, TypeOK
    <2>3. QED
      BY <2>1, <2>2, SoundAfter DEF TypeInv
  <1>4. QED
    BY <1>1, <1>2, <1>3

LEMMA TypeDeleteRole ==
  ASSUME TypeInv, NEW t \in Txs, DeleteRole(t)
  PROVE  TypeInv'
  <1> DEFINE r == tx[t].request.role
  <1>1. r \in roles \ SystemRoles /\ r \in Roles
    BY DEF DeleteRole, TypeInv, TypeOK
  <1>2. /\ UNCHANGED <<role, active, known, creating, seeding, moved, requests, scene>>
        /\ roles' = roles \ {r} /\ perms' = [perms EXCEPT ![r] = {}]
        /\ tx' = [tx EXCEPT ![t] = Idle]
    BY DEF DeleteRole, DropRole, End, commands
  <1>3. TypeOK'
    <2>1. tx' \in ([Txs -> Transaction \union {Idle}])' /\ requests' \in (0..MaxRequests)'
      BY <1>2, TypeTx, TypeRequests
    <2>2. /\ perms' \in [Roles -> SUBSET Perms] /\ roles' \subseteq Roles
          /\ \A q \in Roles : perms'[q] \subseteq known /\ (q \notin roles' => perms'[q] = {})
      BY <1>1, <1>2 DEF TypeInv, TypeOK
    <2>3. \A u \in Users : role[u] \in roles' \union {None}
      BY <1>2 DEF TypeInv, TypeOK, DeleteRole, InUse
    <2>4. QED
      BY <1>2, <2>1, <2>2, <2>3 DEF TypeInv, TypeOK
  <1>4. ASSUME NEW s \in Txs PROVE Sound(s)'
    <2>1. CASE s = t
      BY <1>2, <2>1, IdleSound DEF TypeInv, TypeOK
    <2>2. CASE s # t
      <3>1. tx'[s] = tx[s]
        BY <1>2, <2>2 DEF TypeInv, TypeOK
      <3>2. ~LocksRole(s, r) /\ ~(tx[s].phase = "counted" /\ tx[s].request.role = r)
        BY <2>2 DEF DeleteRole, RoleLocked, InUse
      <3>3. QED
        BY <1>2, <3>1, <3>2 DEF Sound, InTransaction, LocksRole, TypeInv
    <2>3. QED
      BY <2>1, <2>2
  <1>5. QED
    BY <1>1, <1>2, <1>3, <1>4 DEF TypeInv

LEMMA TypeCreateRole ==
  ASSUME TypeInv, NEW x \in Callers, NEW r \in Named, CreateRole(x, r)
  PROVE  TypeInv'
  <1>1. /\ UNCHANGED <<role, active, perms, known, creating, seeding, moved, tx, scene>>
        /\ roles' = roles \union {r}
    BY DEF CreateRole, commands
  <1>2. TypeOK'
    BY <1>1, TypeTx, TypeRequests, SceneTypes DEF TypeInv, TypeOK, CreateRole
  <1>3. QED
    BY <1>1, <1>2, SoundAfter DEF TypeInv

LEMMA TypeListManagers ==
  ASSUME TypeInv, NEW x \in Callers, NEW p \in NewPerms, ListManagers(x, p)
  PROVE  TypeInv'
  <1>1. /\ UNCHANGED <<role, active, roles, perms, known, seeding, moved, tx, scene>>
        /\ creating' = [creating EXCEPT
                           ![p] = {[actor |-> x, managing |-> Managing(ManagePermissions)]}]
    BY DEF ListManagers, commands
  <1>2. [actor |-> x, managing |-> Managing(ManagePermissions)] \in Creation
    BY SceneTypes DEF Creation, Managing, TypeInv
  <1>3. TypeOK'
    BY <1>1, <1>2, TypeTx, TypeRequests DEF TypeInv, TypeOK, ListManagers
  <1>4. QED
    BY <1>1, <1>3, SoundAfter DEF TypeInv

\* The roles that are granted the permission are those that were listed.
LEMMA TypeCreatePermission ==
  ASSUME TypeInv, NEW p \in NewPerms, CreatePermission(p)
  PROVE  TypeInv'
  <1>1. PICK c \in creating[p] :
          /\ UNCHANGED <<role, active, roles, seeding, moved, tx, requests, scene>>
          /\ known' = known \union {p} /\ c.managing \subseteq roles
          /\ perms' = [r \in Roles |-> IF r \in c.managing THEN perms[r] \union {p} ELSE perms[r]]
          /\ creating' = [creating EXCEPT ![p] = {}]
    BY DEF CreatePermission, commands
  <1>2. p \in Perms
    BY SceneTypes DEF TypeInv
  <1>3. TypeOK'
    <2>1. tx' \in ([Txs -> Transaction \union {Idle}])' /\ requests' \in (0..MaxRequests)'
      BY <1>1, TypeTx, TypeRequests
    <2>2. /\ perms' \in [Roles -> SUBSET Perms]
          /\ \A q \in Roles : perms'[q] \subseteq known' /\ (q \notin roles => perms'[q] = {})
      BY <1>1, <1>2 DEF TypeInv, TypeOK
    <2>3. creating' \in [Perms -> SUBSET Creation]
      BY <1>1 DEF TypeInv, TypeOK
    <2>4. QED
      BY <1>1, <1>2, <2>1, <2>2, <2>3 DEF TypeInv, TypeOK
  <1>4. QED
    BY <1>1, <1>3, SoundAfter DEF TypeInv

LEMMA TypeAbortCreation ==
  ASSUME TypeInv, NEW p \in NewPerms, AbortCreation(p)
  PROVE  TypeInv'
  <1>1. /\ UNCHANGED <<role, active, roles, perms, known, seeding, moved, tx, requests, scene>>
        /\ creating' = [creating EXCEPT ![p] = {}]
    BY DEF AbortCreation, commands
  <1>2. creating' \in [Perms -> SUBSET Creation]
    BY <1>1 DEF TypeInv, TypeOK
  <1>3. TypeOK'
    BY <1>1, <1>2, TypeTx, TypeRequests DEF TypeInv, TypeOK
  <1>4. QED
    BY <1>1, <1>3, SoundAfter DEF TypeInv

LEMMA TypeDeletePermission ==
  ASSUME TypeInv, NEW x \in Callers, NEW p \in NewPerms, DeletePermission(x, p)
  PROVE  TypeInv'
  <1>1. /\ UNCHANGED <<role, active, roles, creating, seeding, moved, tx, scene>>
        /\ known' = known \ {p} /\ perms' = [r \in Roles |-> perms[r] \ {p}]
        /\ p \notin SystemPermissions
    BY DEF DeletePermission, commands
  <1>2. TypeOK'
    <2>1. tx' \in ([Txs -> Transaction \union {Idle}])' /\ requests' \in (0..MaxRequests)'
      BY <1>1, TypeTx, TypeRequests DEF DeletePermission
    <2>2. /\ perms' \in [Roles -> SUBSET Perms]
          /\ \A q \in Roles : perms'[q] \subseteq known' /\ (q \notin roles => perms'[q] = {})
      BY <1>1 DEF TypeInv, TypeOK
    <2>3. QED
      BY <1>1, <2>1, <2>2 DEF TypeInv, TypeOK
  <1>3. ASSUME NEW s \in Txs PROVE Sound(s)'
    <2>1. p \notin Uncommitted(s)
      BY DEF DeletePermission
    <2>2. QED
      BY <1>1, <2>1 DEF Sound, InTransaction, Uncommitted, Touched, TypeInv
  <1>4. QED
    BY <1>1, <1>2, <1>3 DEF TypeInv

\* Every step keeps the types; the proof has one step per action of Next.
LEMMA TypeNext == TypeInv /\ [Next]_vars => TypeInv'
  <1> SUFFICES ASSUME TypeInv, [Next]_vars PROVE TypeInv'
    OBVIOUS
  <1>1. CASE \E t \in Txs, x \in Callers : Arrive(t, x)
    BY <1>1, TypeArrive
  <1>2. CASE \E t \in Txs : LockAndCheck(t) \/ Guard(t) \/ Count(t) \/ Commit(t) \/ Abort(t)
    BY <1>2, TypeLockAndCheck, TypeGuard, TypeCount, TypeCommit, TypeAbort
  <1>3. CASE \E t \in Txs : CreateUser(t) \/ DeleteRole(t)
    BY <1>3, TypeCreateUser, TypeDeleteRole
  <1>4. CASE \E u \in Accounts : Register(u)
    BY <1>4, TypeRegister
  <1>5. CASE \E x \in Callers, r \in Named : CreateRole(x, r)
    BY <1>5, TypeCreateRole
  <1>6. CASE \E x \in Callers, p \in NewPerms : ListManagers(x, p) \/ DeletePermission(x, p)
    BY <1>6, TypeListManagers, TypeDeletePermission
  <1>7. CASE \E p \in NewPerms : CreatePermission(p) \/ AbortCreation(p)
    BY <1>7, TypeCreatePermission, TypeAbortCreation
  <1>8. CASE SeedAdminPermissions \/ SeedAdmin \/ SeedOther \/ SeedSkips
    BY <1>8, TypeSeedAdminPermissions, TypeSeed
  <1>9. CASE UNCHANGED vars
    <2>1. TypeOK'
      BY <1>9, TypeTx, TypeRequests DEF vars, commands, TypeInv, TypeOK
    <2>2. QED
      BY <1>9, <2>1, SoundAfter DEF vars, TypeInv
  <1>10. QED
    BY <1>1, <1>2, <1>3, <1>4, <1>5, <1>6, <1>7, <1>8, <1>9 DEF Next

LEMMA TypeInvariant == Spec => []TypeInv
  BY TypeInit, TypeNext, PTL DEF Spec

(* Tables keep their foreign keys, whatever is created, deleted and assigned
   at once. *)
THEOREM TypeCorrect == Spec => []TypeOK
  <1>1. TypeInv => TypeOK
    BY DEF TypeInv
  <1>2. QED
    BY <1>1, TypeInvariant, PTL

-----------------------------------------------------------------------------
(* The anti-escalation rule. *)

\* What is said of the beginning of a behaviour never changes.
LEMMA Static ==
  ASSUME scene' = scene
  PROVE  /\ InitRole' = InitRole /\ InitPerms' = InitPerms
         /\ Ceiling' = Ceiling /\ InitKnown' = InitKnown /\ Deletable' = Deletable
  BY DEF InitRole, InitPerms, Ceiling, InitHolds, Callers, InitKnown, Deletable, NewPerms

\* A role below the ceiling grants nothing above it.
LEMMA BelowCeiling ==
  ASSUME EscalationInv, NEW a \in Roles, ~Superior(a)
  PROVE  perms[a] \intersect InitKnown \subseteq Ceiling
  BY DEF EscalationInv, Within, Superior

\* The rule refuses whoever is not a superior what a superior role grants.
LEMMA RuleRefuses ==
  ASSUME EscalationInv, NEW t \in Txs, tx[t] # Idle, NEW r \in Roles,
         RoleWithinActor(Committed, t, r)
  PROVE  ~Superior(r)
  <1> DEFINE a == tx[t].actorRole
  <1>1. a \in Roles /\ ~Superior(a)
    BY TxTypes DEF EscalationInv, Bounded
  <1>2. CASE r = a
    BY <1>1, <1>2
  <1>3. CASE r # a
    <2>1. perms[r] \subseteq perms[a]
      BY <1>3 DEF RoleWithinActor, PermissionsWithinActor, PermissionsOf, Committed
    <2>2. perms[r] \intersect InitKnown \subseteq Ceiling
      BY <1>1, <2>1, BelowCeiling
    <2>3. InitPerms[r] \subseteq InitKnown /\ Deletable \subseteq Ceiling
      BY DEF InitKnown, Deletable
    <2>4. QED
      BY <2>2, <2>3 DEF EscalationInv, Kept, Superior
  <1>4. QED
    BY <1>2, <1>3

LEMMA EscalationInit == Init => EscalationInv
  <1> SUFFICES ASSUME Init PROVE EscalationInv
    OBVIOUS
  <1>1. TypeInv
    BY TypeInit
  <1>2. InitKnown \ known \subseteq Deletable
    BY DEF Init, InitKnown
  <1>3. \A r \in Roles : Within(r) /\ Kept(r)
    BY DEF Init, Within, Kept, Superior, Existing
  <1>4. \A u \in Users : Placed(u)
    BY DEF Init, Placed
  <1>5. \A t \in Txs : Bounded(t)
    BY DEF Init, Bounded
  <1>6. QED
    BY <1>1, <1>2, <1>3, <1>4, <1>5 DEF EscalationInv

LEMMA BoundedKept ==
  ASSUME scene' = scene, moved \subseteq moved', NEW s \in Txs, Bounded(s), tx'[s] = tx[s]
  PROVE  Bounded(s)'
  BY Static DEF Bounded, InTransaction, Superior, Reachable

\* Steps that change nothing but one transaction.
LEMMA EscalationTxStep ==
  ASSUME EscalationInv, TypeInv', NEW t \in Txs, NEW y,
         tx' = [tx EXCEPT ![t] = y], UNCHANGED rows, Bounded(t)'
  PROVE  EscalationInv'
  <1>1. scene' = scene /\ UNCHANGED <<role, active, roles, perms, known, moved>>
    BY DEF rows, commands
  <1>2. \A s \in Txs : Bounded(s)'
    BY <1>1, BoundedKept DEF EscalationInv, TypeInv, TypeOK
  <1>3. (InitKnown \ known \subseteq Deletable)'
    BY <1>1, Static DEF EscalationInv
  <1>4. \A r \in Roles : Within(r)' /\ Kept(r)'
    BY <1>1, Static DEF EscalationInv, Within, Kept, Superior
  <1>5. \A u \in Users : Placed(u)'
    BY <1>1, Static DEF EscalationInv, Placed, Superior
  <1>6. QED
    BY <1>2, <1>3, <1>4, <1>5 DEF EscalationInv

LEMMA EscalationArrive ==
  ASSUME EscalationInv, TypeInv', NEW t \in Txs, NEW x \in Callers, Arrive(t, x)
  PROVE  EscalationInv'
  <1>1. PICK r \in Request : /\ UserHasPermission(x, RoutePermission(r.kind))
                             /\ tx' = [tx EXCEPT ![t] = Tx(r, x)]
    BY DEF Arrive
  <1>2. x \in Users /\ role[x] \in Roles /\ role[x] # None
    BY <1>1, SceneTypes DEF EscalationInv, TypeInv, TypeOK, UserHasPermission
  <1>3. ~Superior(role[x])
    <2>1. InitRole[x] # None => ~Superior(InitRole[x])
      BY DEF Superior, Ceiling, InitHolds
    <2>2. QED
      BY <1>2, <2>1 DEF EscalationInv, Placed
  <1>4. Bounded(t)'
    <2>1. tx'[t] = Tx(r, x)
      BY <1>1 DEF EscalationInv, TypeInv, TypeOK
    <2>2. scene' = scene
      BY DEF Arrive, rows
    <2>3. QED
      BY <1>3, <2>1, <2>2, Static DEF Bounded, Tx, InTransaction, Phases, Superior
  <1>5. QED
    BY <1>1, <1>4, EscalationTxStep DEF Arrive

\* What the rule has found out of the rows it read.
LEMMA Checked ==
  ASSUME EscalationInv, NEW t \in Txs, LockAndCheck(t)
  PROVE  LET r == tx[t].request IN
         /\ r.kind # "assign" => Reachable(r.user)
         /\ r.kind # "deleteUser" => ~Superior(r.role)
         /\ r.kind = "assign" => r.ids \intersect InitKnown \subseteq Ceiling
  <1> DEFINE r == tx[t].request
  <1>1. /\ tx[t] # Idle /\ r.role \in Roles /\ r.user \in Users
        /\ tx[t].actorRole \in Roles /\ ~Superior(tx[t].actorRole)
    BY PhaseTypes, TxTypes DEF LockAndCheck, Phases, EscalationInv, Bounded
  <1>2. CASE r.kind = "assign"
    <2>1. r.ids \subseteq perms[tx[t].actorRole] /\ perms[r.role] \subseteq perms[tx[t].actorRole]
      BY <1>2 DEF LockAndCheck, RuleAllows, Touched, PermissionsWithinActor, PermissionsOf, Committed
    <2>2. RoleWithinActor(Committed, t, r.role)
      BY <2>1 DEF RoleWithinActor, PermissionsWithinActor, PermissionsOf, Committed
    <2>3. ~Superior(r.role)
      BY <1>1, <2>2, RuleRefuses
    <2>4. r.ids \intersect InitKnown \subseteq Ceiling
      BY <1>1, <2>1, BelowCeiling
    <2>5. QED
      BY <1>2, <2>3, <2>4
  <1>3. CASE r.kind # "assign"
    <2>1. /\ r.kind \in {"updateUser", "deleteUser"} /\ active[r.user]
          /\ \A c \in ChecksRoles(t) : RoleWithinActor(Committed, t, c)
      BY <1>3 DEF LockAndCheck, RuleAllows
    <2>2. role[r.user] \in Roles /\ role[r.user] # None
      BY <1>1, <2>1 DEF EscalationInv, TypeInv, TypeOK
    <2>3. role[r.user] \in ChecksRoles(t) /\ (r.kind = "updateUser" => r.role \in ChecksRoles(t))
      BY <2>1 DEF ChecksRoles
    <2>4. ~Superior(role[r.user]) /\ (r.kind = "updateUser" => ~Superior(r.role))
      BY <1>1, <2>1, <2>2, <2>3, RuleRefuses
    <2>5. Reachable(r.user)
      BY <1>1, <2>4 DEF EscalationInv, Placed, Reachable
    <2>6. QED
      BY <1>3, <2>1, <2>4, <2>5
  <1>4. QED
    BY <1>2, <1>3

LEMMA EscalationLockAndCheck ==
  ASSUME EscalationInv, TypeInv', NEW t \in Txs, LockAndCheck(t)
  PROVE  EscalationInv'
  <1> DEFINE y == [tx[t] EXCEPT !.phase = "checked",
                     !.snapshot = IF RepeatableRead /\ Reads(t) THEN {Committed} ELSE {}]
  <1>1. tx[t] # Idle /\ tx[t] \in Transaction
    BY PhaseTypes, TxTypes DEF LockAndCheck, Phases, EscalationInv
  <1>2. tx' = [tx EXCEPT ![t] = y] /\ scene' = scene /\ moved' = moved
    BY DEF LockAndCheck, EscalationInv, TypeInv, TypeOK, rows, commands
  <1>3. tx'[t].request = tx[t].request /\ tx'[t].actorRole = tx[t].actorRole
    BY <1>1, <1>2 DEF Transaction, EscalationInv, TypeInv, TypeOK
  <1>4. Bounded(t)'
    BY <1>1, <1>2, <1>3, Checked, Static DEF Bounded, EscalationInv, Superior, Reachable
  <1>5. QED
    BY <1>2, <1>4, EscalationTxStep DEF LockAndCheck

\* A transaction that goes on with what it has found out.
LEMMA BoundedGoesOn ==
  ASSUME NEW t \in Txs, Bounded(t), tx[t] # Idle, InTransaction(t), scene' = scene,
         tx'[t].request = tx[t].request, tx'[t].actorRole = tx[t].actorRole, moved' = moved
  PROVE  Bounded(t)'
  BY Static DEF Bounded, Superior, Reachable

LEMMA EscalationGuard ==
  ASSUME EscalationInv, TypeInv', NEW t \in Txs, Guard(t)
  PROVE  EscalationInv'
  <1> DEFINE y == [tx[t] EXCEPT !.phase = "guarded", !.before = Unheld(Seen(t)),
                     !.snapshot = IF RepeatableRead THEN {Seen(t)} ELSE {}]
  <1>1. tx[t] # Idle /\ tx[t] \in Transaction /\ InTransaction(t)
    BY PhaseTypes, TxTypes DEF Guard, Phases, EscalationInv, InTransaction
  <1>2. tx' = [tx EXCEPT ![t] = y] /\ scene' = scene /\ moved' = moved
    BY DEF Guard, EscalationInv, TypeInv, TypeOK, rows, commands
  <1>3. tx'[t].request = tx[t].request /\ tx'[t].actorRole = tx[t].actorRole
    BY <1>1, <1>2 DEF Transaction, EscalationInv, TypeInv, TypeOK
  <1>4. QED
    BY <1>1, <1>2, <1>3, BoundedGoesOn, EscalationTxStep DEF Guard, EscalationInv

LEMMA EscalationCount ==
  ASSUME EscalationInv, TypeInv', NEW t \in Txs, Count(t)
  PROVE  EscalationInv'
  <1> DEFINE y == [tx[t] EXCEPT !.phase = "counted"]
  <1>1. tx[t] # Idle /\ tx[t] \in Transaction /\ InTransaction(t)
    BY PhaseTypes, TxTypes DEF Count, Phases, EscalationInv, InTransaction
  <1>2. tx' = [tx EXCEPT ![t] = y] /\ scene' = scene /\ moved' = moved
    BY DEF Count, EscalationInv, TypeInv, TypeOK, rows, commands
  <1>3. tx'[t].request = tx[t].request /\ tx'[t].actorRole = tx[t].actorRole
    BY <1>1, <1>2 DEF Transaction, EscalationInv, TypeInv, TypeOK
  <1>4. QED
    BY <1>1, <1>2, <1>3, BoundedGoesOn, EscalationTxStep DEF Count, EscalationInv

LEMMA EscalationAbort ==
  ASSUME EscalationInv, TypeInv', NEW t \in Txs, Abort(t)
  PROVE  EscalationInv'
  <1>1. tx' = [tx EXCEPT ![t] = Idle] /\ tx'[t] = Idle
    BY DEF Abort, End, EscalationInv, TypeInv, TypeOK
  <1>2. Bounded(t)'
    BY <1>1 DEF Bounded
  <1>3. QED
    BY <1>1, <1>2, EscalationTxStep DEF Abort

LEMMA BoundedAfter ==
  ASSUME EscalationInv, scene' = scene, moved \subseteq moved',
         \/ tx' = tx
         \/ \E t \in Txs : tx' = [tx EXCEPT ![t] = Idle]
  PROVE  \A s \in Txs : Bounded(s)'
  <1> SUFFICES ASSUME NEW s \in Txs PROVE Bounded(s)'
    OBVIOUS
  <1>1. tx'[s] = tx[s] \/ tx'[s] = Idle
    BY DEF EscalationInv, TypeInv, TypeOK
  <1>2. CASE tx'[s] = tx[s]
    BY <1>2, BoundedKept DEF EscalationInv
  <1>3. CASE tx'[s] = Idle
    BY <1>3 DEF Bounded
  <1>4. QED
    BY <1>1, <1>2, <1>3

LEMMA RolesKept ==
  ASSUME EscalationInv, UNCHANGED <<roles, perms, known, scene>>
  PROVE  /\ (InitKnown \ known \subseteq Deletable)'
         /\ \A r \in Roles : Within(r)' /\ Kept(r)'
  BY Static DEF EscalationInv, Within, Kept, Superior

LEMMA AccountsKept ==
  ASSUME EscalationInv, UNCHANGED <<role, active, moved, scene>>
  PROVE  \A u \in Users : Placed(u)'
  BY Static DEF EscalationInv, Placed, Superior

\* An account that nobody had, or that the seed brings back to its role, or
\* moves to one that is not superior.
LEMMA AccountPlaced ==
  ASSUME EscalationInv, scene' = scene, moved \subseteq moved', NEW u \in Users,
         NEW r \in Roles, Account(u, r),
         \/ r = InitRole[u]
         \/ ~Superior(r) /\ (~active[u] \/ role[u] \in {None, r} \/ u \in moved')
  PROVE  \A v \in Users : Placed(v)'
  <1> SUFFICES ASSUME NEW v \in Users PROVE Placed(v)'
    OBVIOUS
  <1>1. CASE v = u
    <2>1. role'[u] = r /\ active'[u]
      BY DEF Account, EscalationInv, TypeInv, TypeOK
    <2>2. Placed(u)
      BY DEF EscalationInv
    <2>3. QED
      BY <1>1, <2>1, <2>2, Static, RbacAssumption DEF Placed, Superior
  <1>2. CASE v # u
    <2>1. role'[v] = role[v] /\ active'[v] = active[v]
      BY <1>2 DEF Account, EscalationInv, TypeInv, TypeOK
    <2>2. QED
      BY <2>1, Static DEF EscalationInv, Placed, Superior
  <1>3. QED
    BY <1>1, <1>2

LEMMA EscalationCommit ==
  ASSUME EscalationInv, TypeInv', NEW t \in Txs, Commit(t)
  PROVE  EscalationInv'
  <1> DEFINE r == tx[t].request
  <1>1. /\ tx[t] # Idle /\ InTransaction(t)
        /\ r.user \in Users /\ r.role \in Roles /\ r.ids \in SUBSET Perms
        /\ r.kind = "assign" => r.role \in roles
    BY PhaseTypes, TxTypes DEF Commit, Phases, EscalationInv, TypeInv, Sound, InTransaction
  <1>2. /\ r.kind # "assign" => Reachable(r.user)
        /\ r.kind # "deleteUser" => ~Superior(r.role)
        /\ r.kind = "assign" => r.ids \intersect InitKnown \subseteq Ceiling
    BY <1>1 DEF EscalationInv, Bounded
  <1>3. scene' = scene /\ UNCHANGED <<roles, known, moved>> /\ tx' = [tx EXCEPT ![t] = Idle]
    BY DEF Commit, End, commands
  <1>4. \A s \in Txs : Bounded(s)'
    BY <1>3, BoundedAfter
  <1>5. CASE r.kind = "assign"
    <2>1. UNCHANGED <<role, active>> /\ perms' = [perms EXCEPT ![r.role] = r.ids]
      BY <1>5, CommitSteps DEF EscalationInv
    <2>2. ASSUME NEW q \in Roles PROVE Within(q)' /\ Kept(q)'
      <3>1. CASE q = r.role
        <4>1. perms'[q] = r.ids /\ ~Superior(q)
          BY <1>1, <1>2, <1>5, <2>1, <3>1 DEF EscalationInv, TypeInv, TypeOK
        <4>2. QED
          BY <1>2, <1>3, <1>5, <4>1, Static DEF Within, Kept, Superior
      <3>2. CASE q # r.role
        <4>1. perms'[q] = perms[q]
          BY <2>1, <3>2 DEF EscalationInv, TypeInv, TypeOK
        <4>2. QED
          BY <1>3, <4>1, Static DEF EscalationInv, Within, Kept, Superior
      <3>3. QED
        BY <3>1, <3>2
    <2>3. (InitKnown \ known \subseteq Deletable)'
      BY <1>3, Static DEF EscalationInv
    <2>4. QED
      BY <1>3, <1>4, <2>1, <2>2, <2>3, AccountsKept DEF EscalationInv
  <1>6. CASE r.kind # "assign"
    <2>1. perms' = perms
      BY <1>6, CommitSteps DEF EscalationInv
    <2>2. \A v \in Users : v # r.user => role'[v] = role[v] /\ active'[v] = active[v]
      BY <1>1, <1>6, CommitSteps DEF EscalationInv, TypeInv, TypeOK
    <2>3. role'[r.user] = role[r.user] \/ ~Superior(role'[r.user])
      BY <1>1, <1>2, <1>6, CommitSteps DEF EscalationInv, TypeInv, TypeOK
    <2>4. ASSUME NEW v \in Users PROVE Placed(v)'
      <3>1. CASE v = r.user
        BY <1>2, <1>3, <1>6, <2>3, <3>1, Static DEF EscalationInv, Placed, Superior, Reachable
      <3>2. CASE v # r.user
        BY <1>3, <2>2, <3>2, Static DEF EscalationInv, Placed, Superior
      <3>3. QED
        BY <3>1, <3>2
    <2>5. QED
      BY <1>3, <1>4, <2>1, <2>4, RolesKept DEF EscalationInv
  <1>7. QED
    BY <1>5, <1>6

LEMMA EscalationCreateUser ==
  ASSUME EscalationInv, TypeInv', NEW t \in Txs, CreateUser(t)
  PROVE  EscalationInv'
  <1> DEFINE r == tx[t].request
  <1>1. tx[t] # Idle /\ r.user \in Users /\ r.role \in Roles
    BY PhaseTypes, TxTypes DEF CreateUser, Phases, EscalationInv
  <1>2. ~Superior(r.role) /\ role[r.user] = None
    BY <1>1, RuleRefuses DEF CreateUser
  <1>3. UNCHANGED <<roles, perms, known, moved, scene>> /\ tx' = [tx EXCEPT ![t] = Idle]
    BY DEF CreateUser, End, commands
  <1>4. QED
    BY <1>1, <1>2, <1>3, BoundedAfter, RolesKept, AccountPlaced DEF CreateUser, EscalationInv

LEMMA DefaultRoleBelow ==
  ASSUME TypeInv
  PROVE  DefaultRole \in Roles /\ ~Superior(DefaultRole)
  BY RbacAssumption DEF SystemRoles, Superior, Ceiling

LEMMA EscalationRegister ==
  ASSUME EscalationInv, TypeInv', NEW u \in Accounts, Register(u)
  PROVE  EscalationInv'
  <1>1. u \in Users /\ DefaultRole \in Roles /\ ~Superior(DefaultRole)
    BY SceneTypes, DefaultRoleBelow DEF EscalationInv, TypeInv
  <1>2. UNCHANGED <<roles, perms, known, moved, tx, scene>> /\ role[u] = None
    BY DEF Register, commands
  <1>3. QED
    BY <1>1, <1>2, BoundedAfter, RolesKept, AccountPlaced DEF Register, EscalationInv

LEMMA EscalationDeleteRole ==
  ASSUME EscalationInv, TypeInv', NEW t \in Txs, DeleteRole(t)
  PROVE  EscalationInv'
  <1> DEFINE r == tx[t].request.role
  <1>1. tx[t] # Idle /\ r \in Roles
    BY PhaseTypes, TxTypes DEF DeleteRole, Phases, EscalationInv
  <1>2. ~Superior(r)
    BY <1>1, RuleRefuses DEF DeleteRole
  <1>3. /\ UNCHANGED <<role, active, known, moved, scene>> /\ tx' = [tx EXCEPT ![t] = Idle]
        /\ roles' = roles \ {r} /\ perms' = [perms EXCEPT ![r] = {}]
    BY DEF DeleteRole, DropRole, End, commands
  <1>4. ASSUME NEW q \in Roles PROVE Within(q)' /\ Kept(q)'
    <2>1. CASE q = r
      <3>1. perms'[q] = {}
        BY <1>3, <2>1 DEF EscalationInv, TypeInv, TypeOK
      <3>2. QED
        BY <1>2, <1>3, <2>1, <3>1, Static DEF Within, Kept, Superior
    <2>2. CASE q # r
      <3>1. perms'[q] = perms[q] /\ (q \in roles => q \in roles')
        BY <1>3, <2>2 DEF EscalationInv, TypeInv, TypeOK
      <3>2. QED
        BY <1>3, <3>1, Static DEF EscalationInv, Within, Kept, Superior
    <2>3. QED
      BY <2>1, <2>2
  <1>5. (InitKnown \ known \subseteq Deletable)'
    BY <1>3, Static DEF EscalationInv
  <1>6. QED
    BY <1>3, <1>4, <1>5, BoundedAfter, AccountsKept DEF EscalationInv

LEMMA EscalationCreateRole ==
  ASSUME EscalationInv, TypeInv', NEW x \in Callers, NEW r \in Named, CreateRole(x, r)
  PROVE  EscalationInv'
  <1>1. UNCHANGED <<role, active, perms, known, moved, tx, scene>> /\ roles' = roles \union {r}
    BY DEF CreateRole, commands
  <1>2. \A q \in Roles : Within(q)' /\ Kept(q)'
    BY <1>1, Static DEF EscalationInv, Within, Kept, Superior
  <1>3. (InitKnown \ known \subseteq Deletable)'
    BY <1>1, Static DEF EscalationInv
  <1>4. QED
    BY <1>1, <1>2, <1>3, BoundedAfter, AccountsKept DEF EscalationInv

\* Whatever roles were listed, the permission is new, or was deletable.
LEMMA EscalationCreatePermission ==
  ASSUME EscalationInv, TypeInv', NEW p \in NewPerms, CreatePermission(p)
  PROVE  EscalationInv'
  <1>1. PICK c \in creating[p] :
          /\ UNCHANGED <<role, active, roles, moved, tx, scene>> /\ known' = known \union {p}
          /\ perms' = [r \in Roles |-> IF r \in c.managing THEN perms[r] \union {p} ELSE perms[r]]
          /\ p \notin known
    BY DEF CreatePermission, commands
  <1>2. p \in InitKnown => p \in Ceiling
    BY <1>1 DEF EscalationInv, Deletable
  <1>3. ASSUME NEW q \in Roles PROVE Within(q)' /\ Kept(q)'
    <2>1. perms[q] \subseteq perms'[q] /\ perms'[q] \subseteq perms[q] \union {p}
      BY <1>1
    <2>2. Within(q) /\ Kept(q)
      BY DEF EscalationInv
    <2>3. QED
      BY <1>1, <1>2, <2>1, <2>2, Static DEF Within, Kept, Superior
  <1>4. (InitKnown \ known \subseteq Deletable)'
    BY <1>1, Static DEF EscalationInv
  <1>5. QED
    BY <1>1, <1>3, <1>4, BoundedAfter, AccountsKept DEF EscalationInv

LEMMA EscalationDeletePermission ==
  ASSUME EscalationInv, TypeInv', NEW x \in Callers, NEW p \in NewPerms, DeletePermission(x, p)
  PROVE  EscalationInv'
  <1>1. /\ UNCHANGED <<role, active, roles, moved, tx, scene>> /\ known' = known \ {p}
        /\ perms' = [r \in Roles |-> perms[r] \ {p}]
        /\ p \notin SystemPermissions /\ p \in perms[role[x]]
    BY DEF DeletePermission, commands
  <1>2. x \in Users /\ role[x] \in Roles /\ role[x] # None
    BY SceneTypes DEF EscalationInv, TypeInv, TypeOK, DeletePermission, UserHasPermission
  <1>3. ~Superior(role[x])
    <2>1. InitRole[x] # None => ~Superior(InitRole[x])
      BY DEF Superior, Ceiling, InitHolds
    <2>2. QED
      BY <1>2, <2>1 DEF EscalationInv, Placed
  <1>4. p \in InitKnown => p \in Deletable
    BY <1>1, <1>2, <1>3, BelowCeiling DEF Deletable
  <1>5. ASSUME NEW q \in Roles PROVE Within(q)' /\ Kept(q)'
    <2>1. perms'[q] = perms[q] \ {p} /\ InitPerms[q] \subseteq InitKnown
      BY <1>1 DEF InitKnown
    <2>2. Within(q) /\ Kept(q)
      BY DEF EscalationInv
    <2>3. QED
      BY <1>1, <1>4, <2>1, <2>2, Static DEF Within, Kept, Superior
  <1>6. (InitKnown \ known \subseteq Deletable)'
    BY <1>1, <1>4, Static DEF EscalationInv
  <1>7. QED
    BY <1>1, <1>5, <1>6, BoundedAfter, AccountsKept DEF EscalationInv

\* The seed fills the role that had all there was when the behaviour began.
LEMMA EscalationSeedAdminPermissions ==
  ASSUME \A s \in Scenes : Seeded(s), EscalationInv, TypeInv', SeedAdminPermissions
  PROVE  EscalationInv'
  <1>1. /\ UNCHANGED <<role, active, roles, known, moved, tx, scene>>
        /\ perms' = [perms EXCEPT ![AdminRole] = known]
    BY DEF SeedAdminPermissions
  <1>2. AdminRole \in Roles /\ InitKnown \subseteq InitPerms[AdminRole]
    BY RbacAssumption DEF Seeded, EscalationInv, TypeInv, SystemRoles, InitRole, InitPerms, InitKnown
  <1>3. ASSUME NEW q \in Roles PROVE Within(q)' /\ Kept(q)'
    <2>1. CASE q = AdminRole
      <3>1. perms'[q] = known /\ InitPerms[q] \subseteq InitKnown /\ q \in roles
        BY <1>1, <2>1 DEF EscalationInv, TypeInv, TypeOK, SystemRoles, InitKnown
      <3>2. InitKnown \ known \subseteq Deletable
        BY DEF EscalationInv
      <3>3. QED
        BY <1>1, <1>2, <2>1, <3>1, <3>2, Static DEF Within, Kept, Superior
    <2>2. CASE q # AdminRole
      <3>1. perms'[q] = perms[q]
        BY <1>1, <2>2 DEF EscalationInv, TypeInv, TypeOK
      <3>2. QED
        BY <1>1, <3>1, Static DEF EscalationInv, Within, Kept, Superior
    <2>3. QED
      BY <2>1, <2>2
  <1>4. (InitKnown \ known \subseteq Deletable)'
    BY <1>1, Static DEF EscalationInv
  <1>5. QED
    BY <1>1, <1>3, <1>4, BoundedAfter, AccountsKept DEF EscalationInv

\* It gives accounts the roles that they are to have.
LEMMA EscalationSeed ==
  ASSUME \A s \in Scenes : Seeded(s), EscalationInv, TypeInv', SeedAdmin \/ SeedOther \/ SeedSkips
  PROVE  EscalationInv'
  <1>1. CASE SeedAdmin
    <2>1. SeedUser(Bootstrap, AdminRole)
      BY <1>1 DEF SeedAdmin
    <2>2. Bootstrap \in Users /\ AdminRole \in Roles /\ InitRole[Bootstrap] = AdminRole
      BY RbacAssumption DEF Seeded, EscalationInv, TypeInv, SystemRoles, InitRole
    <2>3. UNCHANGED <<roles, perms, known, tx, scene>> /\ moved \subseteq moved'
      BY <2>1 DEF SeedUser
    <2>4. \A v \in Users : Placed(v)'
      BY <2>1, <2>2, <2>3, AccountPlaced DEF SeedUser
    <2>5. QED
      BY <2>3, <2>4, BoundedAfter, RolesKept DEF EscalationInv
  <1>2. CASE SeedOther
    <2>1. PICK u \in UserEmail : SeedUser(u, DefaultRole)
      BY <1>2 DEF SeedOther
    <2>2. u \in Users /\ DefaultRole \in Roles /\ ~Superior(DefaultRole)
      BY SceneTypes, DefaultRoleBelow DEF EscalationInv, TypeInv
    <2>3. UNCHANGED <<roles, perms, known, tx, scene>> /\ moved \subseteq moved'
      BY <2>1 DEF SeedUser
    <2>4. ~active[u] \/ role[u] \in {None, DefaultRole} \/ u \in moved'
      BY <2>1 DEF SeedUser
    <2>5. \A v \in Users : Placed(v)'
      BY <2>1, <2>2, <2>3, <2>4, AccountPlaced DEF SeedUser
    <2>6. QED
      BY <2>3, <2>5, BoundedAfter, RolesKept DEF EscalationInv
  <1>3. CASE SeedSkips
    BY <1>3, BoundedAfter, RolesKept, AccountsKept DEF SeedSkips, EscalationInv
  <1>4. QED
    BY <1>1, <1>2, <1>3

\* A creation in flight is no part of what the rule is about.
LEMMA EscalationCreating ==
  ASSUME EscalationInv, TypeInv', UNCHANGED <<role, active, roles, perms, known, moved, tx, scene>>
  PROVE  EscalationInv'
  BY BoundedAfter, RolesKept, AccountsKept DEF EscalationInv

LEMMA EscalationNext ==
  ASSUME \A s \in Scenes : Seeded(s)
  PROVE  EscalationInv /\ [Next]_vars => EscalationInv'
  <1> SUFFICES ASSUME EscalationInv, [Next]_vars PROVE EscalationInv'
    OBVIOUS
  <1> TypeInv'
    BY TypeNext DEF EscalationInv
  <1>1. CASE \E t \in Txs, x \in Callers : Arrive(t, x)
    BY <1>1, EscalationArrive
  <1>2. CASE \E t \in Txs : LockAndCheck(t) \/ Guard(t) \/ Count(t) \/ Commit(t) \/ Abort(t)
    BY <1>2, EscalationLockAndCheck, EscalationGuard, EscalationCount, EscalationCommit,
       EscalationAbort
  <1>3. CASE \E t \in Txs : CreateUser(t) \/ DeleteRole(t)
    BY <1>3, EscalationCreateUser, EscalationDeleteRole
  <1>4. CASE \E u \in Accounts : Register(u)
    BY <1>4, EscalationRegister
  <1>5. CASE \E x \in Callers, r \in Named : CreateRole(x, r)
    BY <1>5, EscalationCreateRole
  <1>6. ASSUME NEW x \in Callers, NEW p \in NewPerms, ListManagers(x, p) \/ DeletePermission(x, p)
        PROVE  EscalationInv'
    <2>1. CASE ListManagers(x, p)
      BY <2>1, EscalationCreating DEF ListManagers, commands
    <2>2. CASE DeletePermission(x, p)
      BY <2>2, EscalationDeletePermission
    <2>3. QED
      BY <1>6, <2>1, <2>2
  <1>7. ASSUME NEW p \in NewPerms, CreatePermission(p) \/ AbortCreation(p)
        PROVE  EscalationInv'
    <2>1. CASE CreatePermission(p)
      BY <2>1, EscalationCreatePermission
    <2>2. CASE AbortCreation(p)
      BY <2>2, EscalationCreating DEF AbortCreation, commands
    <2>3. QED
      BY <1>7, <2>1, <2>2
  <1>8. CASE SeedAdminPermissions \/ SeedAdmin \/ SeedOther \/ SeedSkips
    BY <1>8, EscalationSeedAdminPermissions, EscalationSeed
  <1>9. CASE UNCHANGED vars
    BY <1>9, EscalationCreating DEF vars, commands
  <1>10. QED
    BY <1>1, <1>2, <1>3, <1>4, <1>5, <1>6, <1>7, <1>8, <1>9 DEF Next

LEMMA EscalationImplies == EscalationInv => NoEscalation /\ SuperiorsUntouched
  <1> SUFFICES ASSUME EscalationInv PROVE NoEscalation /\ SuperiorsUntouched
    OBVIOUS
  <1> USE DEF EscalationInv
  <1>1. ASSUME NEW u \in Users, role[u] # None
        PROVE  perms[role[u]] \intersect InitKnown \subseteq Ceiling \union InitHolds(u)
    <2>1. role[u] \in Roles
      BY <1>1 DEF TypeInv, TypeOK
    <2>2. CASE role[u] = InitRole[u]
      BY <1>1, <2>1, <2>2 DEF Within, InitHolds
    <2>3. CASE ~Superior(role[u])
      BY <2>1, <2>3, BelowCeiling
    <2>4. QED
      BY <1>1, <2>2, <2>3 DEF Placed
  <1>2. ASSUME NEW u \in Users \ moved, ~(InitHolds(u) \subseteq Ceiling)
        PROVE  /\ active[u] /\ role[u] = InitRole[u]
               /\ InitHolds(u) \subseteq perms[role[u]] \union Deletable
    <2>1. InitRole[u] # None /\ InitHolds(u) = InitPerms[InitRole[u]]
      BY <1>2 DEF InitHolds
    <2>2. Superior(InitRole[u])
      BY <1>2, <2>1 DEF Superior
    <2>3. active[u] /\ role[u] = InitRole[u]
      BY <2>1, <2>2 DEF Placed
    <2>4. role[u] \in Roles
      BY <2>1, <2>3 DEF TypeInv, TypeOK
    <2>5. QED
      BY <2>1, <2>2, <2>3, <2>4 DEF Kept
  <1>3. QED
    BY <1>1, <1>2 DEF NoEscalation, SuperiorsUntouched

LEMMA EscalationInvariant ==
  ASSUME \A s \in Scenes : Seeded(s)
  PROVE  Spec => []EscalationInv
  BY EscalationInit, EscalationNext, PTL DEF Spec

(* No chain of moves, assignments, deletions and new roles, by any number of
   callers at once, brings an account a permission that none of them had. *)
THEOREM NobodyEscalates ==
  ASSUME \A s \in Scenes : Seeded(s)
  PROVE  Spec => []NoEscalation
  BY EscalationInvariant, EscalationImplies, PTL

(* Nor does one reach an account above its callers that the seed command has
   not moved. *)
THEOREM NobodyReachesUp ==
  ASSUME \A s \in Scenes : Seeded(s)
  PROVE  Spec => []SuperiorsUntouched
  BY EscalationInvariant, EscalationImplies, PTL

-----------------------------------------------------------------------------
(* The holders of the system permissions, under READ COMMITTED. *)

\* Requests that a transaction may have counted.
Guarded(r) ==
  /\ r.kind \in {"updateUser", "deleteUser", "assign"}
  /\ r.user \in Users /\ r.role \in Roles /\ r.ids \in SUBSET Perms

LEMMA ChangedFields ==
  ASSUME NEW db \in Database, NEW r, Guarded(r)
  PROVE  /\ Changed(db, r).role =
              IF r.kind = "updateUser" THEN [db.role EXCEPT ![r.user] = r.role] ELSE db.role
         /\ Changed(db, r).active =
              IF r.kind = "deleteUser" THEN [db.active EXCEPT ![r.user] = FALSE] ELSE db.active
         /\ Changed(db, r).perms =
              IF r.kind = "assign" THEN [db.perms EXCEPT ![r.role] = r.ids] ELSE db.perms
  <1>1. CASE r.kind = "updateUser"
    BY <1>1 DEF Changed, Moved, Database
  <1>2. CASE r.kind = "deleteUser"
    BY <1>2 DEF Changed, SoftDeleted, Database
  <1>3. CASE r.kind = "assign"
    BY <1>3 DEF Changed, Reassigned, Database
  <1>4. QED
    BY <1>1, <1>2, <1>3 DEF Guarded

\* Who was a holder still is one: nothing becomes unheld.
LEMMA HoldersStay ==
  ASSUME NEW d, NEW e, Unheld(d) = {},
         \A p \in SystemPermissions, u \in Users : u \in Holders(d, p) => u \in Holders(e, p)
  PROVE  Unheld(e) = {}
  <1> SUFFICES ASSUME NEW p \in SystemPermissions PROVE Holders(e, p) # {}
    BY DEF Unheld
  <1>1. Holders(d, p) # {} /\ Holders(d, p) \subseteq Users
    BY DEF Unheld, Holders
  <1>2. QED
    BY <1>1

LEMMA HoldersInit ==
  ASSUME \A s \in Scenes : NoOrphan(s)
  PROVE  Init => HoldersInv
  <1> SUFFICES ASSUME Init PROVE HoldersInv
    OBVIOUS
  <1>1. TypeInv
    BY TypeInit
  <1>2. \A t \in Txs : tx[t] = Idle
    BY DEF Init
  <1>3. \A s, t \in Txs : Apart(s, t) /\ LockedActive(t) /\ Counted(t)
    BY <1>2 DEF Apart, HasGuard, LocksUser, LocksRole, InTransaction, LockedActive, Counted, Idle, Phases
  <1>4. EveryPermissionHeld
    <2>1. \A p \in SystemPermissions : \E u \in Users : u \in Holders(Committed, p)
      BY DEF NoOrphan, Init, InitRole, InitPerms, Holders, Committed
    <2>2. QED
      BY <2>1 DEF EveryPermissionHeld, Unheld
  <1>5. QED
    BY <1>1, <1>3, <1>4 DEF HoldersInv

\* Two transactions that a step leaves as they are, or ends.
LEMMA ApartKept ==
  ASSUME HoldersInv, NEW s \in Txs, NEW t \in Txs, s # t,
         tx'[s] = tx[s] \/ tx'[s] = Idle, tx'[t] = tx[t] \/ tx'[t] = Idle
  PROVE  Apart(s, t)'
  <1>1. Apart(s, t)
    BY DEF HoldersInv
  <1>2. QED
    BY <1>1 DEF Apart, HasGuard, LocksUser, LocksRole, InTransaction, Idle, Phases

LEMMA CountedKept ==
  ASSUME HoldersInv, NEW s \in Txs, tx'[s] = tx[s] \/ tx'[s] = Idle,
         UNCHANGED <<role, active, perms>>
  PROVE  Counted(s)' /\ LockedActive(s)'
  <1>1. Counted(s) /\ LockedActive(s)
    BY DEF HoldersInv
  <1>2. Committed' = Committed
    BY DEF Committed
  <1>3. QED
    BY <1>1, <1>2 DEF Counted, LockedActive, HasGuard, LocksUser, InTransaction, Idle, Phases

\* Steps that change nothing but one transaction.
LEMMA HoldersTxStep ==
  ASSUME HoldersInv, TypeInv', NEW t \in Txs, NEW y,
         tx' = [tx EXCEPT ![t] = y], UNCHANGED rows,
         \A s \in Txs \ {t} : Apart(s, t)',
         LockedActive(t)', Counted(t)'
  PROVE  HoldersInv'
  <1>1. \A s \in Txs : s # t => tx'[s] = tx[s]
    BY DEF HoldersInv, TypeInv, TypeOK
  <1>2. \A s \in Txs : LockedActive(s)' /\ Counted(s)'
    BY <1>1, CountedKept DEF rows
  <1>3. ASSUME NEW s \in Txs, NEW q \in Txs, s # q PROVE Apart(s, q)'
    <2>1. CASE q = t
      BY <1>3, <2>1
    <2>2. CASE s = t
      <3>1. Apart(q, t)'
        BY <1>3, <2>2
      <3>2. QED
        BY <2>2, <3>1 DEF Apart
    <2>3. CASE s # t /\ q # t
      BY <1>1, <1>3, <2>3, ApartKept
    <2>4. QED
      BY <2>1, <2>2, <2>3
  <1>4. EveryPermissionHeld'
    BY DEF HoldersInv, EveryPermissionHeld, Committed, rows
  <1>5. QED
    BY <1>2, <1>3, <1>4 DEF HoldersInv

LEMMA HoldersArrive ==
  ASSUME HoldersInv, TypeInv', NEW t \in Txs, NEW x \in Callers, Arrive(t, x)
  PROVE  HoldersInv'
  <1>1. PICK r \in Request : tx' = [tx EXCEPT ![t] = Tx(r, x)]
    BY DEF Arrive
  <1>2. tx'[t] = Tx(r, x)
    BY <1>1 DEF HoldersInv, TypeInv, TypeOK
  <1>3. LockedActive(t)' /\ Counted(t)' /\ \A s \in Txs : Apart(s, t)'
    BY <1>2 DEF Tx, Apart, HasGuard, LocksUser, LocksRole, InTransaction, LockedActive, Counted, Phases
  <1>4. QED
    BY <1>1, <1>3, HoldersTxStep DEF Arrive

LEMMA HoldersLockAndCheck ==
  ASSUME HoldersInv, TypeInv', NEW t \in Txs, LockAndCheck(t)
  PROVE  HoldersInv'
  <1> DEFINE r == tx[t].request
             y == [tx[t] EXCEPT !.phase = "checked",
                     !.snapshot = IF RepeatableRead /\ Reads(t) THEN {Committed} ELSE {}]
  <1>1. tx[t] # Idle /\ tx[t] \in Transaction
    BY PhaseTypes, TxTypes DEF LockAndCheck, Phases, HoldersInv
  <1>2. tx' = [tx EXCEPT ![t] = y] /\ UNCHANGED <<role, active, perms>>
    BY DEF LockAndCheck, HoldersInv, TypeInv, TypeOK, rows
  <1>3. tx'[t].request = r /\ tx'[t].phase = "checked"
    BY <1>1, <1>2 DEF Transaction, HoldersInv, TypeInv, TypeOK
  <1>4. Counted(t)'
    BY <1>3 DEF Counted, HasGuard
  <1>5. LockedActive(t)'
    BY <1>2, <1>3 DEF LockAndCheck, LockedActive, LocksUser
  <1>6. ASSUME NEW s \in Txs \ {t} PROVE Apart(s, t)'
    <2>1. tx'[s] = tx[s]
      BY <1>2 DEF HoldersInv, TypeInv, TypeOK
    <2>2. \/ r.kind = "assign" /\ ~LocksRole(s, r.role)
          \/ r.kind \in {"updateUser", "deleteUser"} /\ ~LocksUser(s, r.user)
      BY DEF LockAndCheck, RoleLocked, UserLocked
    <2>3. QED
      BY <1>3, <2>1, <2>2 DEF Apart, LocksUser, LocksRole, HasGuard, InTransaction
  <1>7. QED
    BY <1>2, <1>4, <1>5, <1>6, HoldersTxStep DEF LockAndCheck

\* A transaction that goes on holds the rows it held.
LEMMA GoesOn ==
  ASSUME HoldersInv, NEW t \in Txs, InTransaction(t), InTransaction(t)',
         tx'[t].request = tx[t].request, active' = active
  PROVE  /\ LockedActive(t)'
         /\ \A s \in Txs \ {t} : tx'[s] = tx[s] /\ ~(HasGuard(s) /\ HasGuard(t)') => Apart(s, t)'
  BY DEF HoldersInv, LockedActive, Apart, LocksUser, LocksRole, HasGuard, InTransaction

LEMMA HoldersGuard ==
  ASSUME ~RepeatableRead, HoldersInv, TypeInv', NEW t \in Txs, Guard(t)
  PROVE  HoldersInv'
  <1> DEFINE y == [tx[t] EXCEPT !.phase = "guarded", !.before = Unheld(Seen(t)),
                     !.snapshot = IF RepeatableRead THEN {Seen(t)} ELSE {}]
  <1>1. tx[t] # Idle /\ tx[t] \in Transaction /\ InTransaction(t)
    BY PhaseTypes, TxTypes DEF Guard, Phases, HoldersInv, InTransaction
  <1>2. tx' = [tx EXCEPT ![t] = y] /\ UNCHANGED <<role, active, perms>>
    BY DEF Guard, HoldersInv, TypeInv, TypeOK, rows
  <1>3. /\ tx'[t].request = tx[t].request /\ tx'[t].phase = "guarded"
        /\ tx'[t].before = Unheld(Committed)
    BY <1>1, <1>2 DEF Transaction, HoldersInv, TypeInv, TypeOK, Seen
  <1>4. Counted(t)'
    BY <1>3 DEF Counted, HoldersInv, EveryPermissionHeld
  <1>5. \A s \in Txs \ {t} : ~HasGuard(s) /\ tx'[s] = tx[s]
    BY <1>2 DEF Guard, GuardLocked, HasGuard, HoldersInv, TypeInv, TypeOK
  <1>6. InTransaction(t)'
    BY <1>3 DEF InTransaction, Phases
  <1>7. QED
    BY <1>1, <1>2, <1>3, <1>4, <1>5, <1>6, GoesOn, HoldersTxStep DEF Guard

LEMMA HoldersCount ==
  ASSUME ~RepeatableRead, HoldersInv, TypeInv', NEW t \in Txs, Count(t)
  PROVE  HoldersInv'
  <1> DEFINE y == [tx[t] EXCEPT !.phase = "counted"]
  <1>1. tx[t] # Idle /\ tx[t] \in Transaction /\ InTransaction(t) /\ HasGuard(t)
    BY PhaseTypes, TxTypes DEF Count, Phases, HoldersInv, InTransaction, HasGuard
  <1>2. tx' = [tx EXCEPT ![t] = y] /\ UNCHANGED <<role, active, perms>>
    BY DEF Count, HoldersInv, TypeInv, TypeOK, rows
  <1>3. /\ tx'[t].request = tx[t].request /\ tx'[t].phase = "counted"
        /\ tx'[t].before = tx[t].before
    BY <1>1, <1>2 DEF Transaction, HoldersInv, TypeInv, TypeOK
  <1>4. Counted(t)'
    <2>1. tx[t].before = {}
      BY <1>1 DEF HoldersInv, Counted
    <2>2. Unheld(Changed(Committed, tx[t].request)) = {}
      BY <2>1 DEF Count, HoldersKept, Seen
    <2>3. Committed' = Committed
      BY <1>2 DEF Committed
    <2>4. QED
      BY <1>3, <2>1, <2>2, <2>3 DEF Counted
  <1>5. \A s \in Txs \ {t} : ~HasGuard(s) /\ tx'[s] = tx[s]
    BY <1>1, <1>2 DEF Apart, HoldersInv, TypeInv, TypeOK
  <1>6. InTransaction(t)'
    BY <1>3 DEF InTransaction, Phases
  <1>7. QED
    BY <1>1, <1>2, <1>3, <1>4, <1>5, <1>6, GoesOn, HoldersTxStep DEF Count

LEMMA HoldersAbort ==
  ASSUME HoldersInv, TypeInv', NEW t \in Txs, Abort(t)
  PROVE  HoldersInv'
  <1>1. tx' = [tx EXCEPT ![t] = Idle] /\ tx'[t] = Idle
    BY DEF Abort, End, HoldersInv, TypeInv, TypeOK
  <1>2. LockedActive(t)' /\ Counted(t)' /\ \A s \in Txs : Apart(s, t)'
    BY <1>1 DEF Idle, Apart, HasGuard, LocksUser, LocksRole, InTransaction, LockedActive, Counted, Phases
  <1>3. QED
    BY <1>1, <1>2, HoldersTxStep DEF Abort

\* Steps that change rows: what remains to be shown of them.
LEMMA HoldersRows ==
  ASSUME HoldersInv, TypeInv',
         \/ tx' = tx
         \/ \E t \in Txs : tx' = [tx EXCEPT ![t] = Idle],
         \A s \in Txs, u \in Users : LocksUser(s, u) /\ tx'[s] = tx[s] => active'[u],
         Unheld(Committed') = {},
         \A s \in Txs : tx[s].phase = "counted" /\ tx'[s] = tx[s]
                         => Unheld(Changed(Committed', tx[s].request)) = {}
  PROVE  HoldersInv'
  <1>1. \A s \in Txs : tx'[s] = tx[s] \/ tx'[s] = Idle
    BY DEF HoldersInv, TypeInv, TypeOK
  <1>2. \A s, t \in Txs : s # t => Apart(s, t)'
    BY <1>1, ApartKept
  <1>3. ASSUME NEW s \in Txs PROVE LockedActive(s)' /\ Counted(s)'
    <2>1. CASE tx'[s] = tx[s]
      BY <2>1 DEF HoldersInv, LockedActive, LocksUser, InTransaction, Counted, HasGuard
    <2>2. CASE tx'[s] = Idle
      BY <2>2 DEF LockedActive, LocksUser, InTransaction, Counted, HasGuard, Idle, Phases
    <2>3. QED
      BY <1>1, <2>1, <2>2
  <1>4. QED
    BY <1>2, <1>3 DEF HoldersInv, EveryPermissionHeld

LEMMA GuardedRequests ==
  ASSUME HoldersInv, NEW s \in Txs, tx[s].phase = "counted"
  PROVE  Guarded(tx[s].request) /\ InTransaction(s) /\ Unheld(Changed(Committed, tx[s].request)) = {}
  <1>1. tx[s] # Idle /\ InTransaction(s)
    BY PhaseTypes DEF Phases, HoldersInv, InTransaction
  <1>2. QED
    BY <1>1, TxTypes DEF Guarded, HoldersInv, TypeInv, Sound, Counted

LEMMA CommittedTypes ==
  ASSUME TypeInv, TypeInv'
  PROVE  /\ Committed \in Database /\ Committed' \in Database
         /\ Committed.role = role /\ Committed.active = active /\ Committed.perms = perms
         /\ Committed'.role = role' /\ Committed'.active = active' /\ Committed'.perms = perms'
  BY DEF Committed, Database, TypeInv, TypeOK

\* An account that is new or comes back takes no permission from anybody.
LEMMA AccountAdds ==
  ASSUME NEW d \in Database, NEW e \in Database, NEW u \in Users, NEW q,
         ~d.active[u], e.role = [d.role EXCEPT ![u] = q],
         e.active = [d.active EXCEPT ![u] = TRUE], e.perms = d.perms
  PROVE  /\ Unheld(d) = {} => Unheld(e) = {}
         /\ \A r : /\ Guarded(r) /\ (r.kind # "assign" => r.user # u)
                   /\ Unheld(Changed(d, r)) = {}
                   => Unheld(Changed(e, r)) = {}
  <1> d.role \in [Users -> Roles \union {None}] /\ d.active \in [Users -> BOOLEAN]
    BY DEF Database
  <1>1. \A p \in SystemPermissions, v \in Users : v \in Holders(d, p) => v \in Holders(e, p)
    BY DEF Holders
  <1>2. ASSUME NEW r, Guarded(r), r.kind # "assign" => r.user # u, Unheld(Changed(d, r)) = {}
        PROVE  Unheld(Changed(e, r)) = {}
    <2>0. Guarded(r)
      BY <1>2
    <2>1. ASSUME NEW p \in SystemPermissions, NEW v \in Users, v \in Holders(Changed(d, r), p)
          PROVE  v \in Holders(Changed(e, r), p)
      <3> DEFINE c == Changed(d, r)
                 f == Changed(e, r)
      <3> HIDE DEF c, f
      <3>a. /\ c.role = IF r.kind = "updateUser" THEN [d.role EXCEPT ![r.user] = r.role] ELSE d.role
            /\ c.active = IF r.kind = "deleteUser" THEN [d.active EXCEPT ![r.user] = FALSE] ELSE d.active
            /\ c.perms = IF r.kind = "assign" THEN [d.perms EXCEPT ![r.role] = r.ids] ELSE d.perms
        BY <2>0, ChangedFields, Zenon DEF c
      <3>b. /\ f.role = IF r.kind = "updateUser" THEN [e.role EXCEPT ![r.user] = r.role] ELSE e.role
            /\ f.active = IF r.kind = "deleteUser" THEN [e.active EXCEPT ![r.user] = FALSE] ELSE e.active
            /\ f.perms = IF r.kind = "assign" THEN [e.perms EXCEPT ![r.role] = r.ids] ELSE e.perms
        BY <2>0, ChangedFields, Zenon DEF f
      <3>1. c.active[v] /\ c.role[v] # None /\ p \in c.perms[c.role[v]]
        BY <2>1 DEF Holders, c
      <3>2. v # u
        <4>1. d.active[v]
          BY <3>1, <3>a
        <4>2. QED
          BY <4>1
      <3>3. e.role[v] = d.role[v] /\ e.active[v] = d.active[v]
        BY <3>2
      <3>4. f.role[v] = c.role[v]
        <4>1. CASE r.kind = "updateUser"
          <5>1. /\ c.role = [d.role EXCEPT ![r.user] = r.role]
                /\ f.role = [e.role EXCEPT ![r.user] = r.role]
            BY <3>a, <3>b, <4>1
          <5>2. DOMAIN d.role = Users /\ DOMAIN e.role = Users
            OBVIOUS
          <5>3. QED
            BY <3>3, <5>1, <5>2
        <4>2. CASE r.kind # "updateUser"
          BY <3>3, <3>a, <3>b, <4>2
        <4>3. QED
          BY <4>1, <4>2
      <3>5. f.active[v] = c.active[v]
        <4>1. CASE r.kind = "deleteUser"
          <5>1. /\ c.active = [d.active EXCEPT ![r.user] = FALSE]
                /\ f.active = [e.active EXCEPT ![r.user] = FALSE]
            BY <3>a, <3>b, <4>1
          <5>2. DOMAIN d.active = Users /\ DOMAIN e.active = Users
            OBVIOUS
          <5>3. QED
            BY <3>3, <5>1, <5>2
        <4>2. CASE r.kind # "deleteUser"
          BY <3>3, <3>a, <3>b, <4>2
        <4>3. QED
          BY <4>1, <4>2
      <3>6. f.perms = c.perms
        BY <3>a, <3>b
      <3>7. QED
        BY <3>1, <3>4, <3>5, <3>6 DEF Holders, f
    <2>2. QED
      BY <1>2, <2>1, HoldersStay
  <1>3. QED
    BY <1>1, <1>2, HoldersStay

\* Nor does a role that loses what no account has by it.
LEMMA RoleLoses ==
  ASSUME NEW d \in Database, NEW e \in Database, e.role = d.role, e.active = d.active,
         \A p \in SystemPermissions, q \in Roles :
           p \in d.perms[q] /\ p \notin e.perms[q] => \A u \in Users : d.role[u] # q
  PROVE  /\ Unheld(d) = {} => Unheld(e) = {}
         /\ \A r : /\ Guarded(r) /\ Unheld(Changed(d, r)) = {}
                   /\ \A p \in SystemPermissions, q \in Roles :
                        p \in d.perms[q] /\ p \notin e.perms[q] /\ r.kind = "updateUser" => r.role # q
                   => Unheld(Changed(e, r)) = {}
  <1> /\ d.role \in [Users -> Roles \union {None}] /\ d.active \in [Users -> BOOLEAN]
      /\ d.perms \in [Roles -> SUBSET Perms] /\ e.perms \in [Roles -> SUBSET Perms]
    BY DEF Database
  <1>1. \A p \in SystemPermissions, v \in Users : v \in Holders(d, p) => v \in Holders(e, p)
    BY DEF Holders
  <1>2. ASSUME NEW r, Guarded(r), Unheld(Changed(d, r)) = {},
               \A p \in SystemPermissions, q \in Roles :
                 p \in d.perms[q] /\ p \notin e.perms[q] /\ r.kind = "updateUser" => r.role # q
        PROVE  Unheld(Changed(e, r)) = {}
    <2>0. Guarded(r)
      BY <1>2
    <2>1. ASSUME NEW p \in SystemPermissions, NEW v \in Users, v \in Holders(Changed(d, r), p)
          PROVE  v \in Holders(Changed(e, r), p)
      <3> DEFINE c == Changed(d, r)
                 f == Changed(e, r)
      <3> HIDE DEF c, f
      <3>a. /\ c.role = IF r.kind = "updateUser" THEN [d.role EXCEPT ![r.user] = r.role] ELSE d.role
            /\ c.active = IF r.kind = "deleteUser" THEN [d.active EXCEPT ![r.user] = FALSE] ELSE d.active
            /\ c.perms = IF r.kind = "assign" THEN [d.perms EXCEPT ![r.role] = r.ids] ELSE d.perms
        BY <2>0, ChangedFields, Zenon DEF c
      <3>b. /\ f.role = IF r.kind = "updateUser" THEN [e.role EXCEPT ![r.user] = r.role] ELSE e.role
            /\ f.active = IF r.kind = "deleteUser" THEN [e.active EXCEPT ![r.user] = FALSE] ELSE e.active
            /\ f.perms = IF r.kind = "assign" THEN [e.perms EXCEPT ![r.role] = r.ids] ELSE e.perms
        BY <2>0, ChangedFields, Zenon DEF f
      <3>1. c.active[v] /\ c.role[v] # None /\ p \in c.perms[c.role[v]]
        BY <2>1 DEF Holders, c
      <3>2. f.role = c.role /\ f.active = c.active
        BY <1>2, <3>a, <3>b DEF Guarded
      <3>3. /\ c.role[v] \in Roles
            /\ c.role[v] = d.role[v] \/ (r.kind = "updateUser" /\ c.role[v] = r.role)
        <4>1. CASE r.kind = "updateUser"
          <5>1. c.role = [d.role EXCEPT ![r.user] = r.role]
            BY <3>a, <4>1
          <5>2. c.role[v] = d.role[v] \/ c.role[v] = r.role
            BY <5>1
          <5>3. d.role[v] \in Roles \union {None} /\ r.role \in Roles
            BY <2>0 DEF Guarded
          <5>4. QED
            BY <3>1, <4>1, <5>2, <5>3
        <4>2. CASE r.kind # "updateUser"
          BY <3>1, <3>a, <4>2
        <4>3. QED
          BY <4>1, <4>2
      <3>4. p \in f.perms[c.role[v]]
        <4>1. CASE r.kind = "assign" /\ c.role[v] = r.role
          BY <1>2, <3>1, <4>1, <3>a, <3>b DEF Guarded
        <4>2. CASE ~(r.kind = "assign" /\ c.role[v] = r.role)
          <5>1. c.perms[c.role[v]] = d.perms[c.role[v]] /\ f.perms[c.role[v]] = e.perms[c.role[v]]
            BY <1>2, <3>3, <4>2, <3>a, <3>b DEF Guarded
          <5>2. QED
            BY <1>2, <3>1, <3>3, <5>1
        <4>3. QED
          BY <4>1, <4>2
      <3>5. QED
        BY <3>1, <3>2, <3>4 DEF Holders, f
    <2>2. QED
      BY <1>2, <2>1, HoldersStay
  <1>3. QED
    BY <1>1, <1>2, HoldersStay

LEMMA HoldersCommit ==
  ASSUME HoldersInv, TypeInv', NEW t \in Txs, Commit(t)
  PROVE  HoldersInv'
  <1> DEFINE r == tx[t].request
  <1>1. tx' = [tx EXCEPT ![t] = Idle] /\ HasGuard(t) /\ tx[t].phase = "counted"
    BY DEF Commit, End, HasGuard
  <1>2. Guarded(r) /\ InTransaction(t) /\ Unheld(Changed(Committed, r)) = {}
    BY <1>1, GuardedRequests
  <1>3. Committed' = [role |-> Changed(Committed, r).role, active |-> Changed(Committed, r).active,
                      perms |-> Changed(Committed, r).perms]
    BY DEF Commit, Committed
  <1>4. \A p : Holders(Committed', p) = Holders(Changed(Committed, r), p)
    BY <1>3 DEF Holders
  <1>5. Unheld(Committed') = {}
    BY <1>2, <1>4 DEF Unheld
  <1>6. \A s \in Txs : tx[s].phase = "counted" => s = t
    BY <1>1 DEF HoldersInv, Apart, HasGuard
  <1>7. ASSUME NEW s \in Txs, NEW u \in Users, LocksUser(s, u), tx'[s] = tx[s]
        PROVE  active'[u]
    <2>1. s # t
      BY <1>1, <1>2, <1>7 DEF HoldersInv, TypeInv, TypeOK, LocksUser, InTransaction, Idle, Phases
    <2>2. ~LocksUser(t, u) /\ active[u]
      BY <1>7, <2>1 DEF HoldersInv, Apart, LockedActive
    <2>3. r.kind = "deleteUser" => r.user # u
      BY <1>2, <2>2 DEF LocksUser
    <2>4. QED
      BY <1>2, <2>2, <2>3, CommitSteps DEF Guarded, HoldersInv, TypeInv, TypeOK
  <1>8. ASSUME NEW s \in Txs, tx[s].phase = "counted", tx'[s] = tx[s] PROVE FALSE
    BY <1>1, <1>6, <1>8 DEF HoldersInv, TypeInv, TypeOK, Idle
  <1>9. QED
    BY <1>1, <1>5, <1>7, <1>8, HoldersRows

\* An account that is new or comes back, by whatever request or command.
LEMMA HoldersAccount ==
  ASSUME HoldersInv, TypeInv', NEW u \in Users, NEW q \in Roles, ~active[u], Account(u, q),
         perms' = perms,
         \/ tx' = tx
         \/ \E t \in Txs : tx' = [tx EXCEPT ![t] = Idle]
  PROVE  HoldersInv'
  <1>1. role' = [role EXCEPT ![u] = q] /\ active' = [active EXCEPT ![u] = TRUE]
    BY DEF Account
  <1>2. \A s \in Txs : ~LocksUser(s, u)
    BY DEF HoldersInv, LockedActive
  <1>3. /\ Committed \in Database /\ Committed' \in Database /\ ~Committed.active[u]
        /\ Committed'.role = [Committed.role EXCEPT ![u] = q]
        /\ Committed'.active = [Committed.active EXCEPT ![u] = TRUE]
        /\ Committed'.perms = Committed.perms
    BY <1>1, CommittedTypes DEF HoldersInv
  <1>4. Unheld(Committed') = {}
    BY <1>3, AccountAdds DEF HoldersInv, EveryPermissionHeld
  <1>5. ASSUME NEW s \in Txs, tx[s].phase = "counted"
        PROVE  Unheld(Changed(Committed', tx[s].request)) = {}
    <2>1. /\ Guarded(tx[s].request) /\ Unheld(Changed(Committed, tx[s].request)) = {}
          /\ InTransaction(s)
      BY <1>5, GuardedRequests
    <2>2. tx[s].request.kind # "assign" => tx[s].request.user # u
      BY <1>2, <2>1 DEF Guarded, LocksUser
    <2>3. QED
      BY <1>3, <2>1, <2>2, AccountAdds
  <1>6. \A s \in Txs, v \in Users : LocksUser(s, v) => active'[v]
    BY <1>1 DEF HoldersInv, LockedActive, TypeInv, TypeOK
  <1>7. QED
    BY <1>4, <1>5, <1>6, HoldersRows

\* Roles and permissions that change without an account losing anything.
LEMMA HoldersRoles ==
  ASSUME HoldersInv, TypeInv', UNCHANGED <<role, active>>,
         \/ tx' = tx
         \/ \E t \in Txs : tx' = [tx EXCEPT ![t] = Idle],
         \A p \in SystemPermissions, q \in Roles : p \in perms[q] /\ p \notin perms'[q] => ~InUse(q)
  PROVE  HoldersInv'
  <1>1. /\ Committed \in Database /\ Committed' \in Database
        /\ Committed'.role = Committed.role /\ Committed'.active = Committed.active
        /\ Committed.perms = perms /\ Committed'.perms = perms' /\ Committed.role = role
    BY CommittedTypes DEF HoldersInv
  <1>2. \A p \in SystemPermissions, q \in Roles :
          p \in Committed.perms[q] /\ p \notin Committed'.perms[q] =>
            /\ \A u \in Users : Committed.role[u] # q
            /\ \A s \in Txs : tx[s].phase = "counted" => tx[s].request.role # q
    BY <1>1 DEF InUse
  <1>3. Unheld(Committed') = {}
    BY <1>1, <1>2, RoleLoses DEF HoldersInv, EveryPermissionHeld
  <1>4. ASSUME NEW s \in Txs, tx[s].phase = "counted"
        PROVE  Unheld(Changed(Committed', tx[s].request)) = {}
    <2>1. Guarded(tx[s].request) /\ Unheld(Changed(Committed, tx[s].request)) = {}
      BY <1>4, GuardedRequests
    <2>2. QED
      BY <1>1, <1>2, <1>4, <2>1, RoleLoses
  <1>5. \A s \in Txs, v \in Users : LocksUser(s, v) => active'[v]
    BY DEF HoldersInv, LockedActive
  <1>6. QED
    BY <1>3, <1>4, <1>5, HoldersRows

LEMMA HoldersSeedAdminPermissions ==
  ASSUME HoldersInv, TypeInv', SeedAdminPermissions
  PROVE  HoldersInv'
  <1>1. \A q \in Roles : perms[q] \subseteq perms'[q]
    BY DEF SeedAdminPermissions, HoldersInv, TypeInv, TypeOK
  <1>2. QED
    BY <1>1, HoldersRoles DEF SeedAdminPermissions

\* An account that the seed does not move is one it creates, restores or
\* leaves as it is.
LEMMA HoldersSeedUser ==
  ASSUME HoldersInv, TypeInv', NEW u \in Users, NEW r \in Roles, SeedUser(u, r), moved' = {}
  PROVE  HoldersInv'
  <1>1. Account(u, r) /\ UNCHANGED <<perms, tx>> /\ ~(active[u] /\ role[u] # r)
    BY DEF SeedUser
  <1>2. CASE ~active[u]
    BY <1>1, <1>2, HoldersAccount
  <1>3. CASE active[u] /\ role[u] = r
    <2>1. UNCHANGED <<role, active>>
      BY <1>1, <1>3 DEF Account, HoldersInv, TypeInv, TypeOK
    <2>2. QED
      BY <1>1, <2>1, HoldersRoles
  <1>4. QED
    BY <1>1, <1>2, <1>3

LEMMA HoldersSeed ==
  ASSUME HoldersInv, TypeInv', SeedAdmin \/ SeedOther \/ SeedSkips, moved' = {}
  PROVE  HoldersInv'
  <1>1. CASE SeedAdmin
    BY <1>1, RbacAssumption, HoldersSeedUser DEF SeedAdmin, SystemRoles
  <1>2. CASE SeedOther
    <2>1. PICK u \in UserEmail : SeedUser(u, DefaultRole)
      BY <1>2 DEF SeedOther
    <2>2. u \in Users /\ DefaultRole \in Roles
      BY SceneTypes, RbacAssumption DEF HoldersInv, TypeInv, SystemRoles
    <2>3. QED
      BY <2>1, <2>2, HoldersSeedUser
  <1>3. CASE SeedSkips
    BY <1>3, HoldersRoles DEF SeedSkips
  <1>4. QED
    BY <1>1, <1>2, <1>3

LEMMA HoldersNext ==
  ASSUME ~RepeatableRead
  PROVE  HoldersInv /\ [Next]_vars /\ moved' = {} => HoldersInv'
  <1> SUFFICES ASSUME HoldersInv, [Next]_vars, moved' = {} PROVE HoldersInv'
    OBVIOUS
  <1> TypeInv'
    BY TypeNext DEF HoldersInv
  <1>1. CASE \E t \in Txs, x \in Callers : Arrive(t, x)
    BY <1>1, HoldersArrive
  <1>2. CASE \E t \in Txs : LockAndCheck(t) \/ Guard(t) \/ Count(t) \/ Commit(t) \/ Abort(t)
    BY <1>2, HoldersLockAndCheck, HoldersGuard, HoldersCount, HoldersCommit, HoldersAbort
  <1>3. ASSUME NEW t \in Txs, CreateUser(t) PROVE HoldersInv'
    <2>1. tx[t].request.user \in Users /\ tx[t].request.role \in Roles
      BY <1>3, PhaseTypes, TxTypes DEF CreateUser, Phases, HoldersInv
    <2>2. ~active[tx[t].request.user]
      BY <1>3, <2>1 DEF CreateUser, HoldersInv, TypeInv, TypeOK
    <2>3. QED
      BY <1>3, <2>1, <2>2, HoldersAccount DEF CreateUser, End
  <1>4. ASSUME NEW t \in Txs, DeleteRole(t) PROVE HoldersInv'
    <2> DEFINE r == tx[t].request.role
    <2>1. \A q \in Roles : q # r => perms'[q] = perms[q]
      BY <1>4 DEF DeleteRole, DropRole, HoldersInv, TypeInv, TypeOK
    <2>2. ~InUse(r)
      BY <1>4 DEF DeleteRole
    <2>3. QED
      BY <1>4, <2>1, <2>2, HoldersRoles DEF DeleteRole, End
  <1>5. ASSUME NEW u \in Accounts, Register(u) PROVE HoldersInv'
    <2>1. u \in Users /\ DefaultRole \in Roles
      BY SceneTypes, RbacAssumption DEF HoldersInv, TypeInv, SystemRoles
    <2>2. ~active[u]
      BY <1>5, <2>1 DEF Register, HoldersInv, TypeInv, TypeOK
    <2>3. QED
      BY <1>5, <2>1, <2>2, HoldersAccount DEF Register
  <1>6. ASSUME NEW x \in Callers, NEW r \in Named, CreateRole(x, r) PROVE HoldersInv'
    BY <1>6, HoldersRoles DEF CreateRole
  <1>7. ASSUME NEW p \in NewPerms, CreatePermission(p) PROVE HoldersInv'
    <2>1. \A q \in Roles : perms[q] \subseteq perms'[q]
      BY <1>7 DEF CreatePermission
    <2>2. QED
      BY <1>7, <2>1, HoldersRoles DEF CreatePermission
  <1>8. ASSUME NEW x \in Callers, NEW p \in NewPerms, DeletePermission(x, p) PROVE HoldersInv'
    <2>1. p \notin SystemPermissions /\ \A q \in Roles : perms'[q] = perms[q] \ {p}
      BY <1>8 DEF DeletePermission
    <2>2. QED
      BY <1>8, <2>1, HoldersRoles DEF DeletePermission
  <1>9. CASE \/ \E x \in Callers, p \in NewPerms : ListManagers(x, p)
             \/ \E p \in NewPerms : AbortCreation(p)
    BY <1>9, HoldersRoles DEF ListManagers, AbortCreation
  <1>10. CASE SeedAdminPermissions \/ SeedAdmin \/ SeedOther \/ SeedSkips
    BY <1>10, HoldersSeedAdminPermissions, HoldersSeed
  <1>11. CASE UNCHANGED vars
    BY <1>11, HoldersRoles DEF vars
  <1>12. QED
    BY <1>1, <1>2, <1>3, <1>4, <1>5, <1>6, <1>7, <1>8, <1>9, <1>10, <1>11 DEF Next

\* An account that was moved stays one.
LEMMA MovedGrows ==
  ASSUME [Next]_vars
  PROVE  moved \subseteq moved'
  <1>1. CASE \E t \in Txs, x \in Callers : Arrive(t, x)
    BY <1>1 DEF Arrive, rows, commands
  <1>2. CASE \E t \in Txs : LockAndCheck(t) \/ Guard(t) \/ Count(t) \/ Commit(t) \/ Abort(t)
    BY <1>2 DEF LockAndCheck, Guard, Count, Commit, Abort, rows, commands
  <1>3. CASE \E t \in Txs : CreateUser(t) \/ DeleteRole(t)
    BY <1>3 DEF CreateUser, DeleteRole, commands
  <1>4. CASE \E u \in Accounts : Register(u)
    BY <1>4 DEF Register, commands
  <1>5. CASE \E x \in Callers, r \in Named : CreateRole(x, r)
    BY <1>5 DEF CreateRole, commands
  <1>6. CASE \E x \in Callers, p \in NewPerms : ListManagers(x, p) \/ DeletePermission(x, p)
    BY <1>6 DEF ListManagers, DeletePermission, commands
  <1>7. CASE \E p \in NewPerms : CreatePermission(p) \/ AbortCreation(p)
    BY <1>7 DEF CreatePermission, AbortCreation, commands
  <1>8. CASE SeedAdminPermissions \/ SeedAdmin \/ SeedOther \/ SeedSkips
    BY <1>8 DEF SeedAdminPermissions, SeedAdmin, SeedOther, SeedSkips, SeedUser
  <1>9. CASE UNCHANGED vars
    BY <1>9 DEF vars, commands
  <1>10. QED
    BY <1>1, <1>2, <1>3, <1>4, <1>5, <1>6, <1>7, <1>8, <1>9 DEF Next

(* Two changes that each leave a holder when they look cannot together leave
   none: the count comes under the guard's locks and sees what was committed.
   The seed command may run as often as it will, and create, restore and fill
   what it finds missing, as long as it moves no account. *)
THEOREM NoPermissionOrphaned ==
  ASSUME ~RepeatableRead, \A s \in Scenes : NoOrphan(s)
  PROVE  Spec => []SystemPermissionsHeld
  <1>1. Init => UnmovedInv
    BY HoldersInit, TypeInit DEF UnmovedInv
  <1>2. UnmovedInv /\ [Next]_vars => UnmovedInv'
    BY HoldersNext, TypeNext, MovedGrows DEF UnmovedInv
  <1>3. UnmovedInv => SystemPermissionsHeld
    BY DEF UnmovedInv, HoldersInv, EveryPermissionHeld, SystemPermissionsHeld
  <1>4. QED
    BY <1>1, <1>2, <1>3, PTL DEF Spec
=============================================================================
