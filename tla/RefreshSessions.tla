-------------------------- MODULE RefreshSessions --------------------------
(***************************************************************************)
(* Refresh-token families: login opens a family, each refresh rotates its  *)
(* single live token, a token presented twice or too late revokes the      *)
(* whole family, and logout, deletion of the user and a change of role end *)
(* families.  Requests of any number of replicas interleave; what orders   *)
(* them are the row locks of the database, so a transaction is cut where   *)
(* it waits for one: for the family (SELECT ... FOR UPDATE), for the user  *)
(* (FOR UPDATE, or the share lock of a foreign key on an insert).          *)
(*                                                                         *)
(* Expiry instants are kept as the ticks left until them.                  *)
(***************************************************************************)
EXTENDS Naturals, FiniteSets

CONSTANTS
  Users, Families, Tokens,
  Requests,      \* HTTP requests in flight: logins, refreshes and logouts
  Admins,        \* requests in flight that delete a user or change a role
  IdleTicks,     \* REFRESH_TOKEN_IDLE_DAYS
  AbsoluteTicks, \* REFRESH_TOKEN_ABSOLUTE_DAYS
  Audited,       \* of replays and logouts, those whose audit row is required
  MaxChanges     \* bound: user changes and seed runs in a behaviour

ASSUME SessionsAssumption ==
  /\ IdleTicks \in Nat \ {0}
  /\ AbsoluteTicks \in Nat /\ AbsoluteTicks >= IdleTicks
  /\ Audited \subseteq {"replay", "logout"}
  /\ MaxChanges \in Nat

VARIABLES
  active,   \* users.deleted_at IS NULL
  family,   \* refresh_families
  token,    \* auth_refresh_tokens
  req,      \* the transaction of a login, refresh or logout request
  admin,    \* the transaction of a user change
  changes,  \* bound: user changes and seed runs so far
  uses      \* history: committed refreshes that presented a token (0, 1, 2+)

vars == <<active, family, token, req, admin, changes, uses>>

-----------------------------------------------------------------------------

Idle == [op |-> "idle"]
NoRow == [state |-> "none"]
Deleted == [state |-> "gone"]

\* History: outlived, that a request deleted the user or gave it another role
\* after the family was opened; moved, that the seed command did the latter.
FamilyRow ==
  [state : {"row"}, user : Users, revoked : BOOLEAN, left : 0..AbsoluteTicks,
   outlived : BOOLEAN, moved : BOOLEAN]
TokenRow ==
  [state : {"row"}, family : Families, revoked : BOOLEAN, left : 0..AbsoluteTicks]

LoginTx == [op : {"login"}, user : Users]
RefreshTx == [op : {"rotate", "replay", "logout"}, token : Tokens, active : BOOLEAN,
              left : 0..AbsoluteTicks]
AdminTx == [op : {"locked", "revoking"}, kind : {"delete", "role"}, user : Users,
            waits : SUBSET Families, held : SUBSET Families]

TypeOK ==
  /\ active \in [Users -> BOOLEAN]
  /\ family \in [Families -> {NoRow, Deleted} \union FamilyRow]
  /\ token \in [Tokens -> {NoRow, Deleted} \union TokenRow]
  /\ req \in [Requests -> {Idle} \union LoginTx \union RefreshTx]
  /\ admin \in [Admins -> {Idle} \union AdminTx]
  /\ changes \in 0..MaxChanges
  /\ uses \in [Tokens -> 0..2]

Init ==
  /\ active = [u \in Users |-> TRUE]
  /\ family = [f \in Families |-> NoRow]
  /\ token = [t \in Tokens |-> NoRow]
  /\ req = [r \in Requests |-> Idle]
  /\ admin = [a \in Admins |-> Idle]
  /\ changes = 0
  /\ uses = [t \in Tokens |-> 0]

-----------------------------------------------------------------------------
(* Rows and locks.                                                         *)

FamilyExists(f) == family[f].state = "row"
TokenExists(t) == token[t].state = "row"
FamilyOf(t) == token[t].family
UserOf(f) == family[f].user
Unrevoked(f) == FamilyExists(f) /\ ~family[f].revoked
TokensOf(f) == {t \in Tokens : TokenExists(t) /\ FamilyOf(t) = f}

\* The user as a query of its own finds it, without a lock.
ActiveOwner(t) == active[UserOf(FamilyOf(t))]

NewFamily(u) == [state |-> "row", user |-> u, revoked |-> FALSE,
                 left |-> AbsoluteTicks, outlived |-> FALSE, moved |-> FALSE]
NewToken(f, left) == [state |-> "row", family |-> f, revoked |-> FALSE, left |-> left]

HoldsFamily(r) == req[r].op \in {"rotate", "replay", "logout"}
Changing(a) == admin[a] # Idle

FamilyLocked(f) ==
  \/ \E r \in Requests : HoldsFamily(r) /\ FamilyOf(req[r].token) = f
  \/ \E a \in Admins : Changing(a) /\ f \in admin[a].held
UserLocked(u) == \E a \in Admins : Changing(a) /\ admin[a].user = u

\* Mutant: every token gets the full idle window.
IdleExpiryUncapped(familyLeft) == IdleTicks

\* Mutant: the idle window starts at the expiry of the family.
IdleExpirySummed(familyLeft) == IdleTicks + familyLeft

IdleExpiry(familyLeft) == IF IdleTicks < familyLeft THEN IdleTicks ELSE familyLeft

\* Mutant: the update looks for unexpired tokens.
RevokeTokensUnexpired(T) ==
  [t \in Tokens |-> IF t \in T /\ token[t].left > 0
                    THEN [token[t] EXCEPT !.revoked = TRUE] ELSE token[t]]

RevokeTokens(T) ==
  [t \in Tokens |-> IF t \in T THEN [token[t] EXCEPT !.revoked = TRUE] ELSE token[t]]

Consume(t) == RevokeTokens({t})
RevokeFamily(f) == [family EXCEPT ![f].revoked = TRUE]

\* Bound: a request starts only if unused rows are left for it.
RoomForToken ==
  Cardinality({t \in Tokens : token[t] = NoRow})
    > Cardinality({r \in Requests : req[r].op \in {"login", "rotate"}})
Room ==
  /\ RoomForToken
  /\ Cardinality({f \in Families : family[f] = NoRow})
       > Cardinality({r \in Requests : req[r].op = "login"})

-----------------------------------------------------------------------------
(* Login: the password is checked outside the transaction.                 *)

CheckPassword(r, u) ==
  /\ req[r] = Idle /\ Room
  /\ active[u]
  /\ req' = [req EXCEPT ![r] = [op |-> "login", user |-> u]]
  /\ UNCHANGED <<active, family, token, admin, changes, uses>>

\* The inserts share-lock the user row: they wait for a change of the user to
\* end, and look at nothing it wrote.
OpenFamily(r) ==
  LET u == req[r].user IN
  /\ req[r].op = "login"
  /\ ~UserLocked(u)
  /\ \E f \in Families, t \in Tokens :
       /\ family[f] = NoRow /\ token[t] = NoRow
       /\ family' = [family EXCEPT ![f] = NewFamily(u)]
       /\ token' = [token EXCEPT ![t] = NewToken(f, IdleExpiry(AbsoluteTicks))]
  /\ req' = [req EXCEPT ![r] = Idle]
  /\ UNCHANGED <<active, admin, changes, uses>>

-----------------------------------------------------------------------------
(* Refresh.  Any token that was ever issued may be presented, by its owner *)
(* once more or by anyone who holds a copy.                                *)

\* Mutant: consumed tokens are not recognised.
UsableConsumed(t) ==
  LET f == FamilyOf(t) IN
  /\ ~family[f].revoked /\ family[f].left > 0
  /\ token[t].left > 0
  /\ ActiveOwner(t)

\* Mutant: the user is not looked up again.
UsableByAnyone(t) ==
  LET f == FamilyOf(t) IN
  /\ ~family[f].revoked /\ family[f].left > 0
  /\ ~token[t].revoked /\ token[t].left > 0

Usable(t) ==
  LET f == FamilyOf(t) IN
  /\ ~family[f].revoked /\ family[f].left > 0
  /\ ~token[t].revoked /\ token[t].left > 0
  /\ ActiveOwner(t)

LockFamily(r, t) ==
  /\ req[r] = Idle
  /\ TokenExists(t) /\ ~FamilyLocked(FamilyOf(t))
  /\ Usable(t) => RoomForToken
  /\ req' = [req EXCEPT ![r] =
       [op |-> IF Usable(t) THEN "rotate" ELSE "replay", token |-> t,
        active |-> ActiveOwner(t),
        left |-> IdleExpiry(family[FamilyOf(t)].left)]]
  /\ UNCHANGED <<active, family, token, admin, changes, uses>>

\* The inserts that follow (the next token, the required audit row of a known
\* actor) share-lock the user row.
Inserts(r) == req[r].op \in {"rotate"} \union Audited
MayInsert(r) == Inserts(r) /\ req[r].active => ~UserLocked(UserOf(FamilyOf(req[r].token)))

CountUse(t) == uses' = [uses EXCEPT ![t] = IF @ < 2 THEN @ + 1 ELSE 2]

Rotate(r) ==
  LET t == req[r].token IN
  /\ req[r].op = "rotate" /\ MayInsert(r)
  /\ \E n \in Tokens :
       /\ token[n] = NoRow
       /\ token' = [Consume(t) EXCEPT ![n] = NewToken(FamilyOf(t), req[r].left)]
  /\ CountUse(t)
  /\ req' = [req EXCEPT ![r] = Idle]
  /\ UNCHANGED <<active, family, admin, changes>>

RevokeReplayed(r) ==
  LET t == req[r].token
      f == FamilyOf(t)
  IN
  /\ req[r].op = "replay" /\ MayInsert(r)
  /\ family' = RevokeFamily(f)
  /\ token' = RevokeTokens(TokensOf(f))
  /\ CountUse(t)
  /\ req' = [req EXCEPT ![r] = Idle]
  /\ UNCHANGED <<active, admin, changes>>

\* A failed statement or audit write, a lost connection or a deadlock victim:
\* the transaction rolls back, the revocation of a replay with it.
AbortRequest(r) ==
  /\ req[r] # Idle
  /\ req' = [req EXCEPT ![r] = Idle]
  /\ UNCHANGED <<active, family, token, admin, changes, uses>>

-----------------------------------------------------------------------------
(* Logout, with any token of the family, consumed ones included.           *)

LockForLogout(r, t) ==
  /\ req[r] = Idle
  /\ TokenExists(t) /\ Unrevoked(FamilyOf(t)) /\ ~FamilyLocked(FamilyOf(t))
  /\ req' = [req EXCEPT ![r] =
       [op |-> "logout", token |-> t, active |-> ActiveOwner(t), left |-> 0]]
  /\ UNCHANGED <<active, family, token, admin, changes, uses>>

RevokeLoggedOut(r) ==
  LET f == FamilyOf(req[r].token) IN
  /\ req[r].op = "logout" /\ MayInsert(r)
  /\ family' = RevokeFamily(f)
  /\ token' = RevokeTokens(TokensOf(f))
  /\ req' = [req EXCEPT ![r] = Idle]
  /\ UNCHANGED <<active, admin, changes, uses>>

-----------------------------------------------------------------------------
(* Deleting a user, or giving it another role.                             *)

LockUser(a, u) ==
  /\ admin[a] = Idle
  /\ active[u] /\ ~UserLocked(u)
  /\ changes < MaxChanges
  /\ changes' = changes + 1
  /\ \E kind \in {"delete", "role"} :
       admin' = [admin EXCEPT ![a] =
         [op |-> "locked", kind |-> kind, user |-> u, waits |-> {}, held |-> {}]]
  /\ UNCHANGED <<active, family, token, req, uses>>

\* Mutant: families that are being refreshed are skipped.
FindUnlockedFamilies(a) ==
  LET u == admin[a].user IN
  /\ admin[a].op = "locked"
  /\ admin' = [admin EXCEPT ![a].op = "revoking",
                 ![a].waits = {f \in Families : Unrevoked(f) /\ UserOf(f) = u
                                                /\ ~FamilyLocked(f)}]
  /\ UNCHANGED <<active, family, token, req, changes, uses>>

\* RevokeUserRefreshFamilies starts: the rows its snapshot finds are the ones
\* it waits for, one after the other, and updates.
FindFamilies(a) ==
  LET u == admin[a].user IN
  /\ admin[a].op = "locked"
  /\ admin' = [admin EXCEPT ![a].op = "revoking",
                 ![a].waits = {f \in Families : Unrevoked(f) /\ UserOf(f) = u}]
  /\ UNCHANGED <<active, family, token, req, changes, uses>>

\* Mutant: a row revoked meanwhile is waited for all the same.
TakeUnrevokedFamily(a, f) ==
  /\ admin[a].op = "revoking" /\ f \in admin[a].waits
  /\ ~FamilyLocked(f) /\ Unrevoked(f)
  /\ admin' = [admin EXCEPT ![a].waits = @ \ {f}, ![a].held = @ \union {f}]
  /\ UNCHANGED <<active, family, token, req, changes, uses>>

\* A row that had to be waited for is looked at again before it is changed.
TakeFamily(a, f) ==
  /\ admin[a].op = "revoking" /\ f \in admin[a].waits
  /\ ~FamilyLocked(f)
  /\ admin' = [admin EXCEPT ![a].waits = @ \ {f},
                            ![a].held = IF Unrevoked(f) THEN @ \union {f} ELSE @]
  /\ UNCHANGED <<active, family, token, req, changes, uses>>

TokensOfUser(u) == {t \in Tokens : TokenExists(t) /\ UserOf(FamilyOf(t)) = u}

\* Mutant: families revoked before are written over.
AfterChangeOverwritten(f, a) ==
  IF FamilyExists(f) /\ UserOf(f) = admin[a].user
  THEN [family[f] EXCEPT !.revoked = f \in admin[a].held, !.outlived = TRUE]
  ELSE family[f]

\* family[f] once the change of a has committed.
AfterChange(f, a) ==
  IF FamilyExists(f) /\ UserOf(f) = admin[a].user
  THEN [family[f] EXCEPT !.revoked = @ \/ f \in admin[a].held, !.outlived = TRUE]
  ELSE family[f]

ActiveAfter(a) ==
  IF admin[a].kind = "delete" THEN [active EXCEPT ![admin[a].user] = FALSE] ELSE active

CommitChange(a) ==
  LET u == admin[a].user IN
  /\ admin[a].op = "revoking" /\ admin[a].waits = {}
  /\ active' = ActiveAfter(a)
  /\ family' = [f \in Families |-> AfterChange(f, a)]
  /\ token' = RevokeTokens(TokensOfUser(u))
  /\ admin' = [admin EXCEPT ![a] = Idle]
  /\ UNCHANGED <<req, changes, uses>>

\* The privilege rules or the holder guard refuse, a statement or the required
\* audit write fails, or the database picks this transaction as a victim.
AbortChange(a) ==
  /\ admin[a] # Idle
  /\ admin' = [admin EXCEPT ![a] = Idle]
  /\ UNCHANGED <<active, family, token, req, changes, uses>>

\* The seed command brings a deleted account back, or gives one another role,
\* or both, and looks at no session.
Seed(u) ==
  /\ ~UserLocked(u)
  /\ changes < MaxChanges
  /\ changes' = changes + 1
  /\ active' = [active EXCEPT ![u] = TRUE]
  /\ \E moves \in BOOLEAN :
       /\ moves \/ ~active[u]
       /\ family' = [f \in Families |->
            IF FamilyExists(f) /\ UserOf(f) = u THEN [family[f] EXCEPT !.moved = @ \/ moves]
                                               ELSE family[f]]
  /\ UNCHANGED <<token, req, admin, uses>>

-----------------------------------------------------------------------------
(* The database, the retention job, and time.                              *)

\* A refresh or logout holds the family and waits for the user; a change of the
\* user holds the user and waits for the family.
Deadlocked(r, a) ==
  /\ HoldsFamily(r) /\ admin[a].op = "revoking"
  /\ ~MayInsert(r)
  /\ FamilyOf(req[r].token) \in admin[a].waits

ResolveDeadlock(r, a) == Deadlocked(r, a) /\ (AbortRequest(r) \/ AbortChange(a))

\* Revoked or expired long enough ago; locked rows are skipped.
Retired(f) ==
  /\ FamilyExists(f) /\ (family[f].revoked \/ family[f].left = 0)
  /\ ~FamilyLocked(f)

\* Tokens go with their family.
CleanupFamily(f) ==
  /\ Retired(f)
  /\ family' = [family EXCEPT ![f] = Deleted]
  /\ token' = [t \in Tokens |-> IF t \in TokensOf(f) THEN Deleted ELSE token[t]]
  /\ UNCHANGED <<active, req, admin, changes, uses>>

Less(n) == IF n > 0 THEN n - 1 ELSE 0

Tick ==
  /\ \E f \in Families : FamilyExists(f) /\ family[f].left > 0
  /\ family' = [f \in Families |->
       IF FamilyExists(f) THEN [family[f] EXCEPT !.left = Less(@)] ELSE family[f]]
  /\ token' = [t \in Tokens |->
       IF TokenExists(t) THEN [token[t] EXCEPT !.left = Less(@)] ELSE token[t]]
  /\ req' = [r \in Requests |->
       IF HoldsFamily(r) THEN [req[r] EXCEPT !.left = Less(@)] ELSE req[r]]
  /\ UNCHANGED <<active, admin, changes, uses>>

Next ==
  \/ Tick
  \/ \E r \in Requests, u \in Users : CheckPassword(r, u)
  \/ \E r \in Requests, t \in Tokens : LockFamily(r, t) \/ LockForLogout(r, t)
  \/ \E r \in Requests : OpenFamily(r) \/ Rotate(r) \/ RevokeReplayed(r)
  \/ \E r \in Requests : RevokeLoggedOut(r) \/ AbortRequest(r)
  \/ \E a \in Admins, u \in Users : LockUser(a, u)
  \/ \E a \in Admins, f \in Families : TakeFamily(a, f)
  \/ \E a \in Admins : FindFamilies(a) \/ CommitChange(a) \/ AbortChange(a)
  \/ \E u \in Users : Seed(u)
  \/ \E f \in Families : CleanupFamily(f)

Spec == Init /\ [][Next]_vars

\* A transaction that can go on does, a lock queue is served in turn, and the
\* database resolves deadlocks.  Nobody has to start a request.
Finish(r) == Rotate(r) \/ RevokeReplayed(r) \/ RevokeLoggedOut(r)
Advance(a) == FindFamilies(a) \/ CommitChange(a)
Fairness ==
  /\ \A r \in Requests : WF_vars(Finish(r)) /\ SF_vars(OpenFamily(r))
  /\ \A a \in Admins : WF_vars(Advance(a)) /\ SF_vars(\E f \in Families : TakeFamily(a, f))
  /\ \A r \in Requests, a \in Admins : WF_vars(ResolveDeadlock(r, a))

FairSpec == Spec /\ Fairness
-----------------------------------------------------------------------------
(* Properties.                                                             *)

LiveTokens(f) == {t \in TokensOf(f) : ~token[t].revoked}

(* A session is carried by one token: an unrevoked family has exactly one
   unrevoked token, a revoked family none, whichever refreshes, replays,
   logouts and user changes raced for it (service.go Refresh, Logout;
   role/privilege.go RevokeUserSessions, which updates families and tokens by
   two statements of their own). *)
OneLiveToken ==
  \A f \in Families : FamilyExists(f) =>
    IF family[f].revoked THEN LiveTokens(f) = {} ELSE \E t \in Tokens : LiveTokens(f) = {t}

(* A token works once.  Presented again, even at the same moment, it costs the
   holder the whole session: HARDENING-UPGRADE.md, "A second simultaneous
   refresh is replay and revokes the entire family". *)
ReplayEndsSession ==
  \A t \in Tokens : uses[t] >= 2 /\ TokenExists(t) => family[FamilyOf(t)].revoked

(* No token outlives the absolute lifetime of its family, the one a refresh
   in flight has computed the expiry of included (service.go idleExpiry). *)
TokenWithinFamily ==
  /\ \A t \in Tokens : TokenExists(t) =>
       /\ FamilyExists(FamilyOf(t))
       /\ token[t].left <= family[FamilyOf(t)].left
       /\ token[t].left <= IdleTicks
  /\ \A r \in Requests : HoldsFamily(r) =>
       req[r].left <= family[FamilyOf(req[r].token)].left

(* Sessions opened before a request deleted their user or gave it another role
   do not survive it, not even one that was being refreshed meanwhile
   (user/service.go Update and Delete, the lock on the user row and the wait for
   the family).  The seed command asks no session to end: RoleChangeRevokes. *)
ChangeEndsSessions ==
  \A f \in Families : FamilyExists(f) /\ family[f].outlived => family[f].revoked

\* What a request still knows after it locked its family: the token is
\* there, and if it is to be rotated, still live, in a live family of an
\* active user whom nobody else is refreshing.
LockHolds ==
  /\ \A r, q \in Requests :
       HoldsFamily(r) /\ HoldsFamily(q) /\ r # q
         => FamilyOf(req[r].token) # FamilyOf(req[q].token)
  /\ \A r \in Requests, a \in Admins :
       HoldsFamily(r) /\ Changing(a) => FamilyOf(req[r].token) \notin admin[a].held
  /\ \A r \in Requests : HoldsFamily(r) => TokenExists(req[r].token)
  /\ \A r \in Requests : req[r].op = "rotate" =>
       /\ ~token[req[r].token].revoked
       /\ Unrevoked(FamilyOf(req[r].token))
       /\ active[UserOf(FamilyOf(req[r].token))]
       /\ req[r].active

\* A new token that continues a session continues a live one.
ExtendsLiveSession(n) ==
  token[n] = NoRow /\ token'[n] # NoRow =>
    LET f == token'[n].family IN
    FamilyExists(f) => Unrevoked(f) /\ active[UserOf(f)] /\ ~UserLocked(UserOf(f))

(* A session is extended only for an active user that no request is deleting or
   moving to another role at that moment, and only while it is unrevoked:
   what Refresh read under the family lock is still so when it inserts the
   next token. *)
RotatesLiveSession == [][\A n \in Tokens : ExtendsLiveSession(n)]_vars

FamilyStaysRevoked(f) ==
  /\ family[f] = Deleted => family'[f] = Deleted
  /\ FamilyExists(f) /\ family'[f] # Deleted =>
       /\ family[f].revoked => family'[f].revoked
       /\ family'[f].left <= family[f].left
TokenStaysRevoked(t) ==
  /\ token[t] = Deleted => token'[t] = Deleted
  /\ TokenExists(t) /\ token[t].revoked /\ token'[t] # Deleted =>
       token'[t].revoked /\ token'[t].left <= token[t].left

(* Nothing revives a session: a revoked token or family stays revoked until
   retention deletes it, its rows are not used again, and the expiry of
   a family is never moved (HARDENING-UPGRADE.md, "Revoked or expired tokens
   cannot revive a session"). *)
NothingRevives ==
  [][/\ \A f \in Families : FamilyStaysRevoked(f)
     /\ \A t \in Tokens : TokenStaysRevoked(t)]_vars

(* Every login, refresh, logout and user change comes to an end, although the
   requests that end or extend a session take the family before the user, and a
   user change the other way round. *)
RequestsEnd ==
  /\ \A r \in Requests : []<>(req[r] = Idle)
  /\ \A a \in Admins : []<>(admin[a] = Idle)

\* Of a login that had checked the password before the deletion, the family is
\* opened after it.
DeletionRevokes == \A f \in Families : Unrevoked(f) => active[UserOf(f)]

\* A role that the seed command changes leaves the sessions as they are.
RoleChangeRevokes ==
  \A f \in Families : FamilyExists(f) /\ family[f].moved => family[f].revoked

(* HARDENING-UPGRADE.md:9, "Deleting a user or changing their role revokes
   every refresh family of that user".  The documentation claims both; a state
   that refutes even this disjunction, with one session that outlived the
   deletion and another that outlived the change of role, refutes each. *)
UserChangeRevokes == DeletionRevokes \/ RoleChangeRevokes
=============================================================================
