----------------------- MODULE RefreshSessionsProofs -----------------------
(***************************************************************************)
(* Proofs about RefreshSessions for any number of users, sessions, tokens, *)
(* requests and user changes, and any lifetimes.                           *)
(***************************************************************************)
EXTENDS RefreshSessions, TLAPS

-----------------------------------------------------------------------------
(* The inductive invariant.                                                *)

\* A refresh in flight computed an expiry within the idle window.
RequestWithinIdle == \A r \in Requests : HoldsFamily(r) => req[r].left <= IdleTicks

\* A row never used counts no use, and a token that was used is revoked.
UsesCounted ==
  \A t \in Tokens : /\ token[t] = NoRow => uses[t] = 0
                    /\ TokenExists(t) /\ uses[t] >= 1 => token[t].revoked

\* A user is changed by one transaction at a time.
UserLockHolds ==
  \A a, b \in Admins :
    Changing(a) /\ Changing(b) /\ a # b => admin[a].user # admin[b].user

\* A change that has begun to revoke sees every session its user still has: no
\* login opens another one before the change has ended.
ChangeSees ==
  \A a \in Admins : admin[a].op = "revoking" =>
    \A f \in Families :
      Unrevoked(f) /\ UserOf(f) = admin[a].user => f \in admin[a].waits \union admin[a].held

IInv ==
  /\ TypeOK
  /\ OneLiveToken
  /\ TokenWithinFamily /\ RequestWithinIdle
  /\ LockHolds
  /\ UsesCounted /\ ReplayEndsSession
  /\ ChangeEndsSessions
  /\ UserLockHolds /\ ChangeSees

-----------------------------------------------------------------------------
(* The rows and transactions behind the predicates on them. *)

LEMMA FamilyRows ==
  ASSUME TypeOK, NEW f \in Families
  PROVE  /\ FamilyExists(f) <=> family[f] \in FamilyRow
         /\ FamilyExists(f) => family[f] # NoRow /\ family[f] # Deleted
BY DEF TypeOK, FamilyExists, FamilyRow, NoRow, Deleted

LEMMA TokenRows ==
  ASSUME TypeOK, NEW t \in Tokens
  PROVE  /\ TokenExists(t) <=> token[t] \in TokenRow
         /\ TokenExists(t) => token[t] # NoRow /\ token[t] # Deleted
BY DEF TypeOK, TokenExists, TokenRow, NoRow, Deleted

LEMMA InFlight ==
  ASSUME TypeOK, NEW r \in Requests
  PROVE  /\ req[r].op = "login" => req[r] \in LoginTx
         /\ HoldsFamily(r) => req[r] \in RefreshTx
BY DEF TypeOK, HoldsFamily, LoginTx, RefreshTx, Idle

LEMMA ChangeInFlight ==
  ASSUME TypeOK, NEW a \in Admins
  PROVE  /\ Changing(a) => admin[a] \in AdminTx
         /\ admin[a].op \in {"locked", "revoking"} => Changing(a)
BY DEF TypeOK, Changing, AdminTx, Idle

(* The expiry of a token issued now. *)
LEMMA IdleExpiryBounds ==
  ASSUME NEW left \in 0..AbsoluteTicks
  PROVE  /\ IdleExpiry(left) \in 0..AbsoluteTicks
         /\ IdleExpiry(left) <= left /\ IdleExpiry(left) <= IdleTicks
BY SessionsAssumption DEF IdleExpiry

(* What a refresh in flight is about. *)
LEMMA RefreshedRows ==
  ASSUME IInv, NEW r \in Requests, HoldsFamily(r)
  PROVE  LET t == req[r].token
             f == FamilyOf(t)
         IN  /\ t \in Tokens /\ TokenExists(t) /\ token[t] \in TokenRow
             /\ f \in Families /\ FamilyExists(f) /\ family[f] \in FamilyRow
<1>1. req[r] \in RefreshTx
  BY InFlight DEF IInv
<1>2. req[r].token \in Tokens /\ TokenExists(req[r].token)
  BY <1>1 DEF RefreshTx, IInv, LockHolds
<1>3. token[req[r].token] \in TokenRow
  BY <1>2, TokenRows DEF IInv
<1>4. FamilyOf(req[r].token) \in Families /\ FamilyExists(FamilyOf(req[r].token))
  BY <1>2, <1>3 DEF TokenRow, FamilyOf, IInv, TokenWithinFamily
<1> QED
  BY <1>2, <1>3, <1>4, FamilyRows DEF IInv

-----------------------------------------------------------------------------
LEMMA InitEstablishes == Init => IInv
<1> SUFFICES ASSUME Init PROVE IInv
  OBVIOUS
<1>1. /\ \A f \in Families : ~FamilyExists(f)
      /\ \A t \in Tokens : token[t] = NoRow /\ ~TokenExists(t) /\ uses[t] = 0
      /\ \A r \in Requests : req[r].op = "idle" /\ ~HoldsFamily(r)
      /\ \A a \in Admins : admin[a].op = "idle" /\ ~Changing(a)
  BY DEF Init, FamilyExists, TokenExists, HoldsFamily, Changing, NoRow, Idle
<1>2. TypeOK
  BY SessionsAssumption DEF Init, TypeOK
<1>3. OneLiveToken /\ TokenWithinFamily /\ RequestWithinIdle /\ LockHolds
  BY <1>1 DEF OneLiveToken, TokenWithinFamily, RequestWithinIdle, LockHolds
<1>4. UsesCounted /\ ReplayEndsSession /\ ChangeEndsSessions /\ UserLockHolds /\ ChangeSees
  BY <1>1 DEF UsesCounted, ReplayEndsSession, ChangeEndsSessions, UserLockHolds, ChangeSees
<1> QED
  BY <1>2, <1>3, <1>4 DEF IInv

-----------------------------------------------------------------------------
(* Steps that change no session. *)

(* Nothing a property of the rows looks at has changed. *)
LEMMA SameRows ==
  ASSUME IInv, UNCHANGED <<family, token, uses>>
  PROVE  /\ OneLiveToken' /\ UsesCounted' /\ ReplayEndsSession' /\ ChangeEndsSessions'
BY DEF IInv, OneLiveToken, LiveTokens, TokensOf, TokenExists, FamilyExists, FamilyOf,
       UsesCounted, ReplayEndsSession, ChangeEndsSessions

(* Refreshes in flight stay as they are, or come to an end. *)
LEMMA SameRefreshes ==
  ASSUME IInv, UNCHANGED <<active, family, token, admin>>,
         \A q \in Requests : /\ HoldsFamily(q)' => HoldsFamily(q) /\ req'[q] = req[q]
                             /\ req'[q].op = "rotate" => req[q].op = "rotate"
  PROVE  TokenWithinFamily' /\ RequestWithinIdle' /\ LockHolds'
<1>1. /\ \A t \in Tokens : TokenExists(t)' = TokenExists(t)
      /\ \A t : FamilyOf(t)' = FamilyOf(t)
      /\ \A f : /\ FamilyExists(f)' = FamilyExists(f)
                /\ Unrevoked(f)' = Unrevoked(f)
                /\ UserOf(f)' = UserOf(f)
      /\ \A a : Changing(a)' = Changing(a)
  BY DEF TokenExists, FamilyOf, FamilyExists, Unrevoked, UserOf, Changing
<1>2. TokenWithinFamily'
  BY <1>1 DEF IInv, TokenWithinFamily
<1>3. RequestWithinIdle'
  BY DEF IInv, RequestWithinIdle
<1>4. ASSUME NEW q \in Requests, NEW p \in Requests, HoldsFamily(q)', HoldsFamily(p)', q # p
      PROVE  (FamilyOf(req[q].token) # FamilyOf(req[p].token))'
  BY <1>4, <1>1 DEF IInv, LockHolds
<1>5. ASSUME NEW q \in Requests, HoldsFamily(q)'
      PROVE  /\ TokenExists(req[q].token)'
             /\ \A a \in Admins : Changing(a)' => FamilyOf(req[q].token)' \notin admin'[a].held
  BY <1>5, <1>1, RefreshedRows DEF IInv, LockHolds
<1>6. ASSUME NEW q \in Requests, req'[q].op = "rotate"
      PROVE  (/\ ~token[req[q].token].revoked
              /\ Unrevoked(FamilyOf(req[q].token))
              /\ active[UserOf(FamilyOf(req[q].token))]
              /\ req[q].active)'
  <2>1. HoldsFamily(q)' /\ req'[q] = req[q] /\ req[q].op = "rotate"
    BY <1>6 DEF HoldsFamily
  <2> QED
    BY <2>1, <1>1 DEF IInv, LockHolds, Unrevoked, FamilyOf, UserOf, FamilyExists
<1>7. LockHolds'
  BY <1>4, <1>5, <1>6 DEF LockHolds
<1> QED
  BY <1>2, <1>3, <1>7

(* Requests come and go without a lock, or leave one. *)
LEMMA CheckPasswordPreserves ==
  ASSUME IInv, NEW r \in Requests, NEW u \in Users, CheckPassword(r, u)
  PROVE  IInv'
<1>1. UNCHANGED <<active, family, token, admin, changes, uses>>
  BY DEF CheckPassword
<1>2. req' = [req EXCEPT ![r] = [op |-> "login", user |-> u]]
  BY DEF CheckPassword
<1>3. TypeOK'
  BY <1>1, <1>2 DEF IInv, TypeOK, LoginTx
<1>4. \A q \in Requests : /\ HoldsFamily(q)' => HoldsFamily(q) /\ req'[q] = req[q]
                          /\ req'[q].op = "rotate" => req[q].op = "rotate"
  BY <1>2 DEF IInv, TypeOK, HoldsFamily
<1>5. TokenWithinFamily' /\ RequestWithinIdle' /\ LockHolds'
  BY <1>1, <1>4, SameRefreshes
<1>6. UserLockHolds' /\ ChangeSees'
  BY <1>1 DEF IInv, UserLockHolds, ChangeSees, Changing, Unrevoked, FamilyExists, UserOf
<1> QED
  BY <1>1, <1>3, <1>5, <1>6, SameRows DEF IInv

LEMMA AbortRequestPreserves ==
  ASSUME IInv, NEW r \in Requests, AbortRequest(r)
  PROVE  IInv'
<1>1. UNCHANGED <<active, family, token, admin, changes, uses>>
  BY DEF AbortRequest
<1>2. req' = [req EXCEPT ![r] = Idle]
  BY DEF AbortRequest
<1>3. TypeOK'
  BY <1>1, <1>2 DEF IInv, TypeOK
<1>4. \A q \in Requests : /\ HoldsFamily(q)' => HoldsFamily(q) /\ req'[q] = req[q]
                          /\ req'[q].op = "rotate" => req[q].op = "rotate"
  BY <1>2 DEF IInv, TypeOK, HoldsFamily, Idle
<1>5. TokenWithinFamily' /\ RequestWithinIdle' /\ LockHolds'
  BY <1>1, <1>4, SameRefreshes
<1>6. UserLockHolds' /\ ChangeSees'
  BY <1>1 DEF IInv, UserLockHolds, ChangeSees, Changing, Unrevoked, FamilyExists, UserOf
<1> QED
  BY <1>1, <1>3, <1>5, <1>6, SameRows DEF IInv

-----------------------------------------------------------------------------
(* Steps of a user change that leave the rows as they are. *)

LEMMA SameSessions ==
  ASSUME IInv, UNCHANGED <<family, token, req, uses>>,
         \A u \in Users : active[u] => active'[u],
         \A r \in Requests, a \in Admins :
           HoldsFamily(r) /\ Changing(a)' => FamilyOf(req[r].token) \notin admin'[a].held
  PROVE  /\ OneLiveToken' /\ TokenWithinFamily' /\ RequestWithinIdle' /\ LockHolds'
         /\ UsesCounted' /\ ReplayEndsSession' /\ ChangeEndsSessions'
<1>1. /\ \A t : TokenExists(t)' = TokenExists(t) /\ FamilyOf(t)' = FamilyOf(t)
      /\ \A f : /\ FamilyExists(f)' = FamilyExists(f)
                /\ Unrevoked(f)' = Unrevoked(f)
                /\ UserOf(f)' = UserOf(f)
      /\ \A r : HoldsFamily(r)' = HoldsFamily(r)
  BY DEF TokenExists, FamilyOf, FamilyExists, Unrevoked, UserOf, HoldsFamily
<1>2. TokenWithinFamily' /\ RequestWithinIdle'
  BY <1>1 DEF IInv, TokenWithinFamily, RequestWithinIdle
<1>3. \A r, q \in Requests :
        HoldsFamily(r)' /\ HoldsFamily(q)' /\ r # q
          => (FamilyOf(req[r].token) # FamilyOf(req[q].token))'
  BY <1>1 DEF IInv, LockHolds
<1>4. \A r \in Requests, a \in Admins :
        HoldsFamily(r)' /\ Changing(a)' => FamilyOf(req[r].token)' \notin admin'[a].held
  BY <1>1
<1>5. \A r \in Requests : HoldsFamily(r)' => TokenExists(req[r].token)'
  BY <1>1 DEF IInv, LockHolds
<1>6. ASSUME NEW r \in Requests, req'[r].op = "rotate"
      PROVE  (/\ ~token[req[r].token].revoked
              /\ Unrevoked(FamilyOf(req[r].token))
              /\ active[UserOf(FamilyOf(req[r].token))]
              /\ req[r].active)'
  <2>1. req[r].op = "rotate" /\ HoldsFamily(r)
    BY <1>6 DEF HoldsFamily
  <2>2. UserOf(FamilyOf(req[r].token)) \in Users
    BY <2>1, RefreshedRows DEF FamilyRow, UserOf
  <2> QED
    BY <1>1, <2>1, <2>2 DEF IInv, LockHolds
<1>7. LockHolds'
  BY <1>3, <1>4, <1>5, <1>6 DEF LockHolds
<1> QED
  BY <1>2, <1>7, SameRows

(* The user of a change that goes on is the one it began with. *)
LEMMA SameUsers ==
  ASSUME IInv, \A a \in Admins : Changing(a)' => Changing(a) /\ admin'[a].user = admin[a].user
  PROVE  UserLockHolds'
BY DEF IInv, UserLockHolds

LEMMA LockUserPreserves ==
  ASSUME IInv, NEW a \in Admins, NEW u \in Users, LockUser(a, u)
  PROVE  IInv'
<1>1. UNCHANGED <<active, family, token, req, uses>> /\ changes' = changes + 1 /\ changes < MaxChanges
  BY DEF LockUser
<1>2. PICK kind \in {"delete", "role"} :
        admin' = [admin EXCEPT ![a] =
          [op |-> "locked", kind |-> kind, user |-> u, waits |-> {}, held |-> {}]]
  BY DEF LockUser
<1>3. admin \in [Admins -> {Idle} \union AdminTx]
  BY DEF IInv, TypeOK
<1>4. /\ admin'[a] = [op |-> "locked", kind |-> kind, user |-> u, waits |-> {}, held |-> {}]
      /\ \A b \in Admins : b # a => admin'[b] = admin[b]
  BY <1>2, <1>3
<1>5. TypeOK'
  BY <1>1, <1>2, <1>3, SessionsAssumption DEF IInv, TypeOK, AdminTx
<1>6. \A b \in Admins : /\ Changing(b)' => b = a \/ Changing(b)
                        /\ b # a => (Changing(b)' <=> Changing(b))
  BY <1>4 DEF Changing
<1>7. UserLockHolds'
  <2>1. \A b \in Admins : Changing(b) => admin[b].user # u
    BY DEF LockUser, UserLocked
  <2> QED
    BY <1>4, <1>6, <2>1 DEF IInv, UserLockHolds
<1>8. ChangeSees'
  BY <1>1, <1>4 DEF IInv, ChangeSees, Unrevoked, FamilyExists, UserOf
<1>9. \A r \in Requests, b \in Admins :
        HoldsFamily(r) /\ Changing(b)' => FamilyOf(req[r].token) \notin admin'[b].held
  BY <1>4, <1>6 DEF IInv, LockHolds
<1> QED
  BY <1>1, <1>5, <1>7, <1>8, <1>9, SameSessions DEF IInv

LEMMA FindFamiliesPreserves ==
  ASSUME IInv, NEW a \in Admins, FindFamilies(a)
  PROVE  IInv'
<1> DEFINE found == {f \in Families : Unrevoked(f) /\ UserOf(f) = admin[a].user}
<1>1. /\ UNCHANGED <<active, family, token, req, uses, changes>>
      /\ admin[a].op = "locked"
      /\ admin' = [admin EXCEPT ![a].op = "revoking", ![a].waits = found]
  BY DEF FindFamilies
<1>2. admin \in [Admins -> {Idle} \union AdminTx] /\ admin[a] \in AdminTx /\ Changing(a)
  BY <1>1, ChangeInFlight DEF IInv, TypeOK
<1>3. found \in SUBSET Families
  OBVIOUS
<1> HIDE DEF found
<1>4. /\ admin'[a] = [admin[a] EXCEPT !.op = "revoking", !.waits = found]
      /\ \A b \in Admins : b # a => admin'[b] = admin[b]
  BY <1>1, <1>2
<1>5. /\ admin'[a] \in AdminTx
      /\ admin'[a].user = admin[a].user /\ admin'[a].held = admin[a].held
      /\ admin'[a].waits = found
  BY <1>2, <1>3, <1>4 DEF AdminTx
<1>6. admin' \in [Admins -> {Idle} \union AdminTx]
  BY <1>1, <1>2, <1>5
<1>7. TypeOK'
  BY <1>1, <1>6 DEF IInv, TypeOK
<1>8. \A b \in Admins : Changing(b)' => /\ Changing(b)
                                        /\ admin'[b].user = admin[b].user
                                        /\ admin'[b].held = admin[b].held
  BY <1>2, <1>4, <1>5 DEF Changing
<1>9. ChangeSees'
  <2> SUFFICES ASSUME NEW b \in Admins, admin'[b].op = "revoking", NEW g \in Families,
                      Unrevoked(g)', UserOf(g)' = admin'[b].user
               PROVE  g \in admin'[b].waits \union admin'[b].held
    BY DEF ChangeSees
  <2>1. Unrevoked(g) /\ UserOf(g) = admin'[b].user
    BY <1>1 DEF Unrevoked, FamilyExists, UserOf
  <2>2. CASE b = a
    BY <1>5, <2>1, <2>2 DEF found
  <2>3. CASE b # a
    BY <1>4, <2>1, <2>3 DEF IInv, ChangeSees
  <2> QED
    BY <2>2, <2>3
<1>10. \A r \in Requests, b \in Admins :
         HoldsFamily(r) /\ Changing(b)' => FamilyOf(req[r].token) \notin admin'[b].held
  BY <1>8 DEF IInv, LockHolds
<1> QED
  BY <1>1, <1>7, <1>8, <1>9, <1>10, SameUsers, SameSessions DEF IInv

LEMMA TakeFamilyPreserves ==
  ASSUME IInv, NEW a \in Admins, NEW f \in Families, TakeFamily(a, f)
  PROVE  IInv'
<1> DEFINE waits == admin[a].waits \ {f}
           held == IF Unrevoked(f) THEN admin[a].held \union {f} ELSE admin[a].held
<1>1. /\ UNCHANGED <<active, family, token, req, uses, changes>>
      /\ admin[a].op = "revoking" /\ ~FamilyLocked(f)
      /\ admin' = [admin EXCEPT ![a].waits = waits, ![a].held = held]
  BY DEF TakeFamily
<1>2. admin \in [Admins -> {Idle} \union AdminTx] /\ admin[a] \in AdminTx /\ Changing(a)
  BY <1>1, ChangeInFlight DEF IInv, TypeOK
<1>3. waits \in SUBSET Families /\ held \in SUBSET Families
  BY <1>2 DEF AdminTx
<1>a. \A g \in Families : Unrevoked(g) /\ g \in admin[a].waits \union admin[a].held
                             => g \in waits \union held
  OBVIOUS
<1>b. \A g : g \in held => g \in admin[a].held \/ g = f
  OBVIOUS
<1> HIDE DEF waits, held
<1>4. /\ admin'[a] = [admin[a] EXCEPT !.waits = waits, !.held = held]
      /\ \A b \in Admins : b # a => admin'[b] = admin[b]
  BY <1>1, <1>2
<1>5. /\ admin'[a] \in AdminTx
      /\ admin'[a].user = admin[a].user /\ admin'[a].held = held
      /\ admin'[a].waits = waits
  BY <1>2, <1>3, <1>4 DEF AdminTx
<1>6. admin' \in [Admins -> {Idle} \union AdminTx]
  BY <1>1, <1>2, <1>5
<1>7. TypeOK'
  BY <1>1, <1>6 DEF IInv, TypeOK
<1>8. \A b \in Admins : Changing(b)' => Changing(b) /\ admin'[b].user = admin[b].user
  BY <1>2, <1>4, <1>5 DEF Changing
<1>9. ChangeSees'
  <2>1. \A g \in Families : Unrevoked(g)' = Unrevoked(g) /\ UserOf(g)' = UserOf(g)
    BY <1>1 DEF Unrevoked, FamilyExists, UserOf
  <2> QED
    BY <1>1, <1>4, <1>5, <1>a, <2>1 DEF IInv, ChangeSees
<1>10. ASSUME NEW r \in Requests, NEW b \in Admins, HoldsFamily(r), Changing(b)'
       PROVE  FamilyOf(req[r].token) \notin admin'[b].held
  <2>1. FamilyOf(req[r].token) # f
    BY <1>1, <1>10 DEF FamilyLocked
  <2>2. FamilyOf(req[r].token) \notin admin[b].held
    BY <1>8, <1>10 DEF IInv, LockHolds
  <2> QED
    BY <1>4, <1>5, <1>b, <2>1, <2>2
<1> QED
  BY <1>1, <1>7, <1>8, <1>9, <1>10, SameUsers, SameSessions DEF IInv

LEMMA AbortChangePreserves ==
  ASSUME IInv, NEW a \in Admins, AbortChange(a)
  PROVE  IInv'
<1>1. UNCHANGED <<active, family, token, req, uses, changes>> /\ admin' = [admin EXCEPT ![a] = Idle]
  BY DEF AbortChange
<1>2. TypeOK'
  BY <1>1 DEF IInv, TypeOK
<1>3. /\ admin'[a] = Idle
      /\ \A b \in Admins : b # a => admin'[b] = admin[b]
  BY <1>1 DEF IInv, TypeOK
<1>4. \A b \in Admins : Changing(b)' => Changing(b) /\ admin'[b] = admin[b]
  BY <1>3 DEF Changing
<1>5. ChangeSees'
  BY <1>1, <1>3 DEF IInv, ChangeSees, Unrevoked, FamilyExists, UserOf, Idle
<1>6. \A r \in Requests, b \in Admins :
        HoldsFamily(r) /\ Changing(b)' => FamilyOf(req[r].token) \notin admin'[b].held
  BY <1>4 DEF IInv, LockHolds
<1> QED
  BY <1>1, <1>2, <1>4, <1>5, <1>6, SameUsers, SameSessions DEF IInv

-----------------------------------------------------------------------------
(* A refresh or a logout takes its family. *)

LEMMA FamilyTaken ==
  ASSUME IInv, NEW r \in Requests, NEW t \in Tokens, NEW x \in RefreshTx,
         UNCHANGED <<active, family, token, admin, changes, uses>>,
         TokenExists(t), ~FamilyLocked(FamilyOf(t)),
         req' = [req EXCEPT ![r] = x],
         x.token = t, x.left <= family[FamilyOf(t)].left, x.left <= IdleTicks,
         x.op = "rotate" => Usable(t) /\ x.active = ActiveOwner(t)
  PROVE  IInv'
<1> DEFINE f == FamilyOf(t)
<1>1. /\ UNCHANGED <<active, family, token, admin, changes, uses>>
      /\ TokenExists(t) /\ ~FamilyLocked(f)
  OBVIOUS
<1>2. f \in Families /\ FamilyExists(f)
  BY <1>1, TokenRows DEF IInv, TokenRow, FamilyOf, TokenWithinFamily
<1>6. /\ req'[r] = x
      /\ \A q \in Requests : q # r => req'[q] = req[q]
  BY <1>1 DEF IInv, TypeOK
<1>7. TypeOK'
  BY <1>1 DEF IInv, TypeOK
<1>8. \A q \in Requests : q # r => HoldsFamily(q)' = HoldsFamily(q)
  BY <1>6 DEF HoldsFamily
<1>9. /\ \A s : TokenExists(s)' = TokenExists(s) /\ FamilyOf(s)' = FamilyOf(s)
      /\ \A g : /\ FamilyExists(g)' = FamilyExists(g)
                /\ Unrevoked(g)' = Unrevoked(g)
                /\ UserOf(g)' = UserOf(g)
      /\ \A a : Changing(a)' = Changing(a)
  BY <1>1 DEF TokenExists, FamilyOf, FamilyExists, Unrevoked, UserOf, Changing
<1>10. TokenWithinFamily'
  <2>1. \A s \in Tokens : TokenExists(s)' =>
          (/\ FamilyExists(FamilyOf(s))
           /\ token[s].left <= family[FamilyOf(s)].left
           /\ token[s].left <= IdleTicks)'
    BY <1>1, <1>9 DEF IInv, TokenWithinFamily
  <2>2. ASSUME NEW q \in Requests, HoldsFamily(q)'
        PROVE  (req[q].left <= family[FamilyOf(req[q].token)].left)'
    <3>1. CASE q = r
      BY <1>1, <1>6, <1>9, <3>1
    <3>2. CASE q # r
      BY <1>1, <1>6, <1>8, <1>9, <2>2, <3>2 DEF IInv, TokenWithinFamily
    <3> QED
      BY <3>1, <3>2
  <2> QED
    BY <2>1, <2>2 DEF TokenWithinFamily
<1>11. RequestWithinIdle'
  BY <1>6, <1>8 DEF IInv, RequestWithinIdle
<1>12. \A q \in Requests : q # r /\ HoldsFamily(q) => FamilyOf(req[q].token) # f
  BY <1>1 DEF FamilyLocked
<1>13. \A a \in Admins : Changing(a) => f \notin admin[a].held
  BY <1>1 DEF FamilyLocked
<1>14. Usable(t) => /\ ~token[t].revoked /\ Unrevoked(f) /\ active[UserOf(f)]
                    /\ ActiveOwner(t)
  BY <1>2 DEF Usable, Unrevoked, ActiveOwner
<1> HIDE DEF f
<1>15. f = FamilyOf(t) /\ FamilyOf(req'[r].token) = f
  BY <1>6 DEF f
<1>16. LockHolds'
  <2>1. ASSUME NEW p \in Requests, NEW q \in Requests, HoldsFamily(p)', HoldsFamily(q)', p # q
        PROVE  (FamilyOf(req[p].token) # FamilyOf(req[q].token))'
    <3>1. CASE p # r /\ q # r
      BY <1>6, <1>8, <1>9, <2>1, <3>1 DEF IInv, LockHolds
    <3>2. CASE p = r
      BY <1>6, <1>8, <1>9, <1>12, <1>15, <2>1, <3>2
    <3>3. CASE q = r
      BY <1>6, <1>8, <1>9, <1>12, <1>15, <2>1, <3>3
    <3> QED
      BY <3>1, <3>2, <3>3
  <2>2. ASSUME NEW q \in Requests, NEW a \in Admins, HoldsFamily(q)', Changing(a)'
        PROVE  (FamilyOf(req[q].token) \notin admin[a].held)'
    <3>1. CASE q = r
      BY <1>1, <1>9, <1>13, <1>15, <2>2, <3>1
    <3>2. CASE q # r
      BY <1>1, <1>6, <1>8, <1>9, <2>2, <3>2 DEF IInv, LockHolds
    <3> QED
      BY <3>1, <3>2
  <2>3. \A q \in Requests : HoldsFamily(q)' => TokenExists(req[q].token)'
    BY <1>1, <1>6, <1>8, <1>9 DEF IInv, LockHolds
  <2>4. ASSUME NEW q \in Requests, req'[q].op = "rotate"
        PROVE  (/\ ~token[req[q].token].revoked
                /\ Unrevoked(FamilyOf(req[q].token))
                /\ active[UserOf(FamilyOf(req[q].token))]
                /\ req[q].active)'
    <3>1. CASE q = r
      BY <1>1, <1>6, <1>9, <1>14, <1>15, <2>4, <3>1
    <3>2. CASE q # r
      BY <1>1, <1>6, <1>9, <2>4, <3>2 DEF IInv, LockHolds
    <3> QED
      BY <3>1, <3>2
  <2> QED
    BY <2>1, <2>2, <2>3, <2>4 DEF LockHolds
<1>17. UserLockHolds' /\ ChangeSees'
  BY <1>1 DEF IInv, UserLockHolds, ChangeSees, Changing, Unrevoked, FamilyExists, UserOf
<1> QED
  BY <1>1, <1>7, <1>10, <1>11, <1>16, <1>17, SameRows DEF IInv

LEMMA LockFamilyPreserves ==
  ASSUME IInv, NEW r \in Requests, NEW t \in Tokens, LockFamily(r, t)
  PROVE  IInv'
<1> DEFINE f == FamilyOf(t)
           x == [op |-> IF Usable(t) THEN "rotate" ELSE "replay", token |-> t,
                 active |-> ActiveOwner(t), left |-> IdleExpiry(family[f].left)]
<1>1. /\ UNCHANGED <<active, family, token, admin, changes, uses>>
      /\ TokenExists(t) /\ ~FamilyLocked(f)
      /\ req' = [req EXCEPT ![r] = x]
  BY DEF LockFamily
<1>2. family[f] \in FamilyRow
  BY <1>1, TokenRows, FamilyRows DEF IInv, TokenRow, FamilyOf, TokenWithinFamily
<1>3. /\ IdleExpiry(family[f].left) \in 0..AbsoluteTicks
      /\ IdleExpiry(family[f].left) <= family[f].left
      /\ IdleExpiry(family[f].left) <= IdleTicks
  BY <1>2, IdleExpiryBounds DEF FamilyRow
<1>4. ActiveOwner(t) \in BOOLEAN
  BY <1>2 DEF IInv, TypeOK, FamilyRow, ActiveOwner, UserOf
<1>5. /\ x \in RefreshTx /\ x.token = t /\ x.left = IdleExpiry(family[f].left)
      /\ x.op = "rotate" => Usable(t)
      /\ x.active = ActiveOwner(t)
  BY <1>3, <1>4 DEF RefreshTx
<1> HIDE DEF x
<1> QED
  BY <1>1, <1>3, <1>5, FamilyTaken

LEMMA LockForLogoutPreserves ==
  ASSUME IInv, NEW r \in Requests, NEW t \in Tokens, LockForLogout(r, t)
  PROVE  IInv'
<1> DEFINE f == FamilyOf(t)
           x == [op |-> "logout", token |-> t, active |-> ActiveOwner(t), left |-> 0]
<1>1. /\ UNCHANGED <<active, family, token, admin, changes, uses>>
      /\ TokenExists(t) /\ ~FamilyLocked(f)
      /\ req' = [req EXCEPT ![r] = x]
  BY DEF LockForLogout
<1>2. family[f] \in FamilyRow
  BY <1>1, TokenRows, FamilyRows DEF IInv, TokenRow, FamilyOf, TokenWithinFamily
<1>3. ActiveOwner(t) \in BOOLEAN /\ 0 \in 0..AbsoluteTicks
  BY <1>2, SessionsAssumption DEF IInv, TypeOK, FamilyRow, ActiveOwner, UserOf
<1>4. x \in RefreshTx /\ x.token = t /\ x.left = 0 /\ x.op # "rotate"
  BY <1>3 DEF RefreshTx
<1>5. 0 <= family[f].left /\ 0 <= IdleTicks
  BY <1>2, SessionsAssumption DEF FamilyRow
<1> HIDE DEF x
<1> QED
  BY <1>1, <1>4, <1>5, FamilyTaken

-----------------------------------------------------------------------------
(* The seed command changes no session, it only marks those of the user. *)

LEMMA SeedMarks ==
  ASSUME IInv, NEW u \in Users, Seed(u), NEW f \in Families
  PROVE  /\ family'[f] \in {NoRow, Deleted} \union FamilyRow
         /\ FamilyExists(f)' = FamilyExists(f) /\ Unrevoked(f)' = Unrevoked(f)
         /\ family'[f] = Deleted <=> family[f] = Deleted
         /\ FamilyExists(f) => /\ UserOf(f)' = UserOf(f)
                               /\ family'[f].revoked = family[f].revoked
                               /\ family'[f].left = family[f].left
                               /\ family'[f].outlived = family[f].outlived
<1>1. PICK moves \in BOOLEAN :
        family' = [g \in Families |->
          IF FamilyExists(g) /\ UserOf(g) = u THEN [family[g] EXCEPT !.moved = @ \/ moves]
                                             ELSE family[g]]
  BY DEF Seed
<1>2. CASE FamilyExists(f) /\ UserOf(f) = u
  <2>1. family[f] \in FamilyRow /\ family[f] # Deleted
    BY <1>2, FamilyRows DEF IInv
  <2>2. family'[f] = [family[f] EXCEPT !.moved = family[f].moved \/ moves]
    BY <1>1, <1>2
  <2>3. (family[f].moved \/ moves) \in BOOLEAN
    OBVIOUS
  <2>4. family'[f] \in FamilyRow
    BY <2>1, <2>2, <2>3 DEF FamilyRow
  <2>5. /\ family'[f].state = family[f].state /\ family'[f].user = family[f].user
        /\ family'[f].revoked = family[f].revoked /\ family'[f].left = family[f].left
        /\ family'[f].outlived = family[f].outlived
    BY <2>1, <2>2 DEF FamilyRow
  <2> QED
    BY <2>1, <2>4, <2>5 DEF FamilyExists, Unrevoked, UserOf, FamilyRow, Deleted
<1>3. CASE ~(FamilyExists(f) /\ UserOf(f) = u)
  <2>1. family'[f] = family[f]
    BY <1>1, <1>3
  <2> QED
    BY <2>1 DEF IInv, TypeOK, FamilyExists, Unrevoked, UserOf
<1> QED
  BY <1>2, <1>3

LEMMA SeedPreserves ==
  ASSUME IInv, NEW u \in Users, Seed(u)
  PROVE  IInv'
<1>1. /\ UNCHANGED <<token, req, admin, uses>>
      /\ changes < MaxChanges /\ changes' = changes + 1
      /\ active' = [active EXCEPT ![u] = TRUE]
  BY DEF Seed
<1>2. family' \in [Families -> {NoRow, Deleted} \union FamilyRow]
  <2>1. PICK moves \in BOOLEAN :
          family' = [g \in Families |->
            IF FamilyExists(g) /\ UserOf(g) = u THEN [family[g] EXCEPT !.moved = @ \/ moves]
                                               ELSE family[g]]
    BY DEF Seed
  <2> QED
    BY <2>1, SeedMarks
<1>3. active \in [Users -> BOOLEAN] /\ changes \in 0..MaxChanges
  BY DEF IInv, TypeOK
<1>4. TypeOK'
  BY <1>1, <1>2, <1>3, SessionsAssumption DEF IInv, TypeOK
<1>5. \A v \in Users : active[v] => active'[v]
  BY <1>1, <1>3
<1>6. /\ \A t : TokenExists(t)' = TokenExists(t) /\ FamilyOf(t)' = FamilyOf(t)
      /\ \A g : LiveTokens(g)' = LiveTokens(g)
      /\ \A r : HoldsFamily(r)' = HoldsFamily(r)
      /\ \A a : Changing(a)' = Changing(a)
  BY <1>1 DEF TokenExists, FamilyOf, LiveTokens, TokensOf, HoldsFamily, Changing
<1>7. \A t \in Tokens : TokenExists(t) => FamilyOf(t) \in Families /\ FamilyExists(FamilyOf(t))
  BY TokenRows DEF IInv, TokenRow, FamilyOf, TokenWithinFamily
<1>8. OneLiveToken'
  BY <1>6, SeedMarks DEF IInv, OneLiveToken
<1>9. TokenWithinFamily'
  BY <1>1, <1>6, <1>7, RefreshedRows, SeedMarks DEF IInv, TokenWithinFamily
<1>10. RequestWithinIdle' /\ UsesCounted' /\ UserLockHolds'
  BY <1>1, <1>6 DEF IInv, RequestWithinIdle, UsesCounted, UserLockHolds
<1>11. LockHolds'
  <2>1. ASSUME NEW r \in Requests, req'[r].op = "rotate"
        PROVE  (/\ ~token[req[r].token].revoked
                /\ Unrevoked(FamilyOf(req[r].token))
                /\ active[UserOf(FamilyOf(req[r].token))]
                /\ req[r].active)'
    <3>1. req[r].op = "rotate" /\ HoldsFamily(r)
      BY <1>1, <2>1 DEF HoldsFamily
    <3>2. /\ FamilyOf(req[r].token) \in Families /\ FamilyExists(FamilyOf(req[r].token))
          /\ UserOf(FamilyOf(req[r].token)) \in Users
      BY <3>1, RefreshedRows DEF FamilyRow, UserOf
    <3> QED
      BY <1>1, <1>5, <1>6, <3>1, <3>2, SeedMarks DEF IInv, LockHolds
  <2> QED
    BY <1>1, <1>6, <2>1 DEF IInv, LockHolds
<1>12. ReplayEndsSession'
  BY <1>1, <1>6, <1>7, SeedMarks DEF IInv, ReplayEndsSession
<1>13. ChangeEndsSessions'
  BY SeedMarks DEF IInv, ChangeEndsSessions
<1>14. ChangeSees'
  BY <1>1, SeedMarks DEF IInv, ChangeSees, Unrevoked
<1> QED
  BY <1>4, <1>8, <1>9, <1>10, <1>11, <1>12, <1>13, <1>14 DEF IInv

-----------------------------------------------------------------------------
(* Steps that change rows.  A refresh in flight keeps what it knows when the
   step leaves its token and family, and a rotation's as they were. *)

LEMMA RefreshesKept ==
  ASSUME IInv,
         \A q \in Requests : req'[q] \in {req[q], Idle},
         \A a \in Admins : Changing(a)' => Changing(a) /\ admin'[a].held = admin[a].held,
         \A q \in Requests, t \in Tokens, f \in Families :
           HoldsFamily(q)' /\ t = req[q].token /\ f = token[t].family =>
             /\ token'[t].state = "row" /\ token'[t].family = f
             /\ family'[f].left = family[f].left
             /\ req[q].op = "rotate" =>
                  token'[t] = token[t] /\ family'[f] = family[f] /\ active'[family[f].user]
  PROVE  /\ RequestWithinIdle' /\ LockHolds'
         /\ \A q \in Requests :
              HoldsFamily(q)' => (req[q].left <= family[FamilyOf(req[q].token)].left)'
<1>1. ASSUME NEW q \in Requests, HoldsFamily(q)'
      PROVE  /\ HoldsFamily(q) /\ req'[q] = req[q]
             /\ TokenExists(req[q].token)'
             /\ FamilyOf(req[q].token)' = FamilyOf(req[q].token)
             /\ family'[FamilyOf(req[q].token)].left = family[FamilyOf(req[q].token)].left
  <2>1. HoldsFamily(q) /\ req'[q] = req[q]
    BY <1>1 DEF HoldsFamily, Idle
  <2>2. req[q].token \in Tokens /\ FamilyOf(req[q].token) \in Families
    BY <2>1, RefreshedRows
  <2> QED
    BY <1>1, <2>1, <2>2 DEF TokenExists, FamilyOf
<1>2. RequestWithinIdle'
  BY <1>1 DEF IInv, RequestWithinIdle
<1>3. \A q \in Requests :
        HoldsFamily(q)' => (req[q].left <= family[FamilyOf(req[q].token)].left)'
  BY <1>1 DEF IInv, TokenWithinFamily
<1>4. ASSUME NEW q \in Requests, NEW p \in Requests, HoldsFamily(q)', HoldsFamily(p)', q # p
      PROVE  (FamilyOf(req[q].token) # FamilyOf(req[p].token))'
  BY <1>1, <1>4 DEF IInv, LockHolds
<1>5. ASSUME NEW q \in Requests, NEW a \in Admins, HoldsFamily(q)', Changing(a)'
      PROVE  (FamilyOf(req[q].token) \notin admin[a].held)'
  BY <1>1, <1>5 DEF IInv, LockHolds
<1>6. ASSUME NEW q \in Requests, req'[q].op = "rotate"
      PROVE  (/\ ~token[req[q].token].revoked
              /\ Unrevoked(FamilyOf(req[q].token))
              /\ active[UserOf(FamilyOf(req[q].token))]
              /\ req[q].active)'
  <2>1. HoldsFamily(q)' /\ HoldsFamily(q) /\ req'[q] = req[q] /\ req[q].op = "rotate"
    BY <1>1, <1>6 DEF HoldsFamily
  <2>2. req[q].token \in Tokens /\ FamilyOf(req[q].token) \in Families
    BY <2>1, RefreshedRows
  <2>3. /\ token'[req[q].token] = token[req[q].token]
        /\ family'[FamilyOf(req[q].token)] = family[FamilyOf(req[q].token)]
        /\ active'[UserOf(FamilyOf(req[q].token))]
    BY <2>1, <2>2 DEF FamilyOf, UserOf
  <2>4. /\ ~token[req[q].token].revoked /\ Unrevoked(FamilyOf(req[q].token)) /\ req[q].active
    BY <2>1 DEF IInv, LockHolds
  <2> QED
    BY <2>1, <2>3, <2>4 DEF FamilyOf, UserOf, Unrevoked, FamilyExists
<1>7. LockHolds'
  BY <1>1, <1>4, <1>5, <1>6 DEF LockHolds
<1> QED
  BY <1>2, <1>3, <1>7

LEMMA OpenFamilyPreserves ==
  ASSUME IInv, NEW r \in Requests, OpenFamily(r)
  PROVE  IInv'
<1> DEFINE u == req[r].user
<1>1. /\ req[r].op = "login" /\ ~UserLocked(u)
      /\ req' = [req EXCEPT ![r] = Idle]
      /\ UNCHANGED <<active, admin, changes, uses>>
  BY DEF OpenFamily
<1>2. PICK f \in Families, t \in Tokens :
        /\ family[f] = NoRow /\ token[t] = NoRow
        /\ family' = [family EXCEPT ![f] = NewFamily(u)]
        /\ token' = [token EXCEPT ![t] = NewToken(f, IdleExpiry(AbsoluteTicks))]
  BY DEF OpenFamily
<1>3. u \in Users
  BY <1>1, InFlight DEF IInv, LoginTx
<1>4. /\ IdleExpiry(AbsoluteTicks) \in 0..AbsoluteTicks
      /\ IdleExpiry(AbsoluteTicks) <= IdleTicks
  BY IdleExpiryBounds, SessionsAssumption
<1>5. NewFamily(u) \in FamilyRow /\ NewToken(f, IdleExpiry(AbsoluteTicks)) \in TokenRow
  BY <1>3, <1>4, SessionsAssumption DEF NewFamily, NewToken, FamilyRow, TokenRow
<1>6. TypeOK'
  BY <1>1, <1>2, <1>5 DEF IInv, TypeOK
<1>7. /\ family'[f] = NewFamily(u) /\ token'[t] = NewToken(f, IdleExpiry(AbsoluteTicks))
      /\ \A g \in Families : g # f => family'[g] = family[g]
      /\ \A s \in Tokens : s # t => token'[s] = token[s]
  BY <1>2 DEF IInv, TypeOK
<1>8. ~FamilyExists(f) /\ ~TokenExists(t) /\ FamilyExists(f)' /\ TokenExists(t)'
  BY <1>2, <1>7 DEF FamilyExists, TokenExists, NoRow, NewFamily, NewToken
<1>9. \A s \in Tokens : TokenExists(s) =>
        s # t /\ FamilyOf(s) # f /\ FamilyOf(s) \in Families /\ FamilyExists(FamilyOf(s))
  BY <1>8, TokenRows DEF IInv, TokenWithinFamily, TokenRow, FamilyOf
<1>10. /\ \A g \in Families : g # f =>
            /\ FamilyExists(g)' = FamilyExists(g)
            /\ Unrevoked(g)' = Unrevoked(g)
            /\ UserOf(g)' = UserOf(g)
       /\ \A s \in Tokens : s # t => TokenExists(s)' = TokenExists(s) /\ FamilyOf(s)' = FamilyOf(s)
       /\ FamilyOf(t)' = f /\ UserOf(f)' = u /\ Unrevoked(f)'
  BY <1>7 DEF FamilyExists, Unrevoked, UserOf, TokenExists, FamilyOf, NewFamily, NewToken
<1>11. OneLiveToken'
  <2>1. LiveTokens(f)' = {t}
    BY <1>7, <1>8, <1>9, <1>10 DEF LiveTokens, TokensOf, NewToken
  <2>2. \A g \in Families : g # f => LiveTokens(g)' = LiveTokens(g)
    BY <1>7, <1>8, <1>10 DEF LiveTokens, TokensOf
  <2>3. ~family'[f].revoked
    BY <1>7 DEF NewFamily
  <2>4. \A g \in Families : g # f => family'[g] = family[g] /\ FamilyExists(g)' = FamilyExists(g)
    BY <1>7, <1>10
  <2> QED
    BY <2>1, <2>2, <2>3, <2>4 DEF IInv, OneLiveToken
<1>12. \A q \in Requests : req'[q] \in {req[q], Idle}
  BY <1>1 DEF IInv, TypeOK
<1>13. \A q \in Requests, s \in Tokens, g \in Families :
         HoldsFamily(q)' /\ s = req[q].token /\ g = token[s].family =>
           /\ token'[s].state = "row" /\ token'[s].family = g
           /\ family'[g].left = family[g].left
           /\ req[q].op = "rotate" =>
                token'[s] = token[s] /\ family'[g] = family[g] /\ active'[family[g].user]
  <2> SUFFICES ASSUME NEW q \in Requests, NEW s \in Tokens, NEW g \in Families,
                      HoldsFamily(q)', s = req[q].token, g = token[s].family
               PROVE  /\ token'[s].state = "row" /\ token'[s] = token[s] /\ family'[g] = family[g]
                      /\ req[q].op = "rotate" => active'[family[g].user]
    OBVIOUS
  <2>1. HoldsFamily(q)
    BY <1>12 DEF HoldsFamily, Idle
  <2>2. TokenExists(s) /\ s # t /\ g # f
    BY <1>9, <2>1, RefreshedRows DEF FamilyOf
  <2> QED
    BY <1>1, <1>7, <2>2 DEF IInv, LockHolds, TokenExists, FamilyOf, UserOf
<1>14. /\ RequestWithinIdle' /\ LockHolds'
       /\ \A q \in Requests :
            HoldsFamily(q)' => (req[q].left <= family[FamilyOf(req[q].token)].left)'
  BY <1>1, <1>12, <1>13, RefreshesKept DEF Changing
<1>15. TokenWithinFamily'
  <2>1. ASSUME NEW s \in Tokens, TokenExists(s)'
        PROVE  (/\ FamilyExists(FamilyOf(s))
                /\ token[s].left <= family[FamilyOf(s)].left
                /\ token[s].left <= IdleTicks)'
    <3>1. CASE s = t
      BY <1>4, <1>7, <1>8, <1>10, <3>1, SessionsAssumption DEF NewFamily, NewToken
    <3>2. CASE s # t
      BY <1>7, <1>9, <1>10, <2>1, <3>2 DEF IInv, TokenWithinFamily
    <3> QED
      BY <3>1, <3>2
  <2> QED
    BY <1>14, <2>1 DEF TokenWithinFamily
<1>16. UsesCounted'
  BY <1>1, <1>2, <1>7, <1>8, <1>10 DEF IInv, UsesCounted, NewToken, NoRow
<1>17. ReplayEndsSession'
  <2>1. uses[t] = 0
    BY <1>2 DEF IInv, UsesCounted
  <2> QED
    BY <1>1, <1>7, <1>9, <1>10, <2>1 DEF IInv, ReplayEndsSession
<1>18. ChangeEndsSessions'
  BY <1>7, <1>10 DEF IInv, ChangeEndsSessions, NewFamily
<1>19. UserLockHolds'
  BY <1>1, SameUsers DEF Changing
<1>20. ChangeSees'
  <2>1. \A a \in Admins : Changing(a) => admin[a].user # u
    BY <1>1 DEF UserLocked
  <2>2. \A a \in Admins : admin[a].op = "revoking" => Changing(a)
    BY ChangeInFlight DEF IInv
  <2> QED
    BY <1>1, <1>10, <2>1, <2>2 DEF IInv, ChangeSees
<1> QED
  BY <1>6, <1>11, <1>14, <1>15, <1>16, <1>17, <1>18, <1>19, <1>20 DEF IInv

(* One more use of a token. *)
LEMMA UseCounted ==
  ASSUME TypeOK, NEW t \in Tokens, CountUse(t)
  PROVE  /\ uses' \in [Tokens -> 0..2]
         /\ \A s \in Tokens : s # t => uses'[s] = uses[s]
         /\ uses'[t] <= uses[t] + 1
<1>1. uses \in [Tokens -> 0..2]
  BY DEF TypeOK
<1>2. uses' = [uses EXCEPT ![t] = IF uses[t] < 2 THEN uses[t] + 1 ELSE 2]
  BY DEF CountUse
<1>3. (IF uses[t] < 2 THEN uses[t] + 1 ELSE 2) \in 0..2
  BY <1>1
<1> QED
  BY <1>1, <1>2, <1>3

LEMMA RotatePreserves ==
  ASSUME IInv, NEW r \in Requests, Rotate(r)
  PROVE  IInv'
<1>1. HoldsFamily(r)
  BY DEF Rotate, HoldsFamily
<1>2. PICK t \in Tokens : t = req[r].token
  BY <1>1, RefreshedRows
<1>3. PICK f \in Families : f = FamilyOf(t)
  BY <1>1, <1>2, RefreshedRows
<1>4. /\ req[r].op = "rotate" /\ CountUse(t)
      /\ req' = [req EXCEPT ![r] = Idle]
      /\ UNCHANGED <<active, family, admin, changes>>
  BY <1>2 DEF Rotate
<1>5. PICK n \in Tokens :
        /\ token[n] = NoRow
        /\ token' = [Consume(t) EXCEPT ![n] = NewToken(f, req[r].left)]
  BY <1>2, <1>3 DEF Rotate
<1>6. /\ t \in Tokens /\ TokenExists(t) /\ token[t] \in TokenRow
      /\ f \in Families /\ FamilyExists(f) /\ family[f] \in FamilyRow
      /\ req[r].left \in 0..AbsoluteTicks
  BY <1>1, <1>2, <1>3, RefreshedRows, InFlight DEF IInv, RefreshTx
<1>7. /\ ~token[t].revoked /\ Unrevoked(f)
      /\ req[r].left <= IdleTicks /\ req[r].left <= family[f].left
  BY <1>4, <1>1, <1>2, <1>3 DEF IInv, LockHolds, RequestWithinIdle, TokenWithinFamily
<1>8. \A q \in Requests : HoldsFamily(q) /\ q # r => FamilyOf(req[q].token) # f
  BY <1>1, <1>2, <1>3 DEF IInv, LockHolds
<1>9. NewToken(f, req[r].left) \in TokenRow /\ [token[t] EXCEPT !.revoked = TRUE] \in TokenRow
  BY <1>6 DEF NewToken, TokenRow
<1>10. n # t /\ ~TokenExists(n)
  BY <1>5, <1>6 DEF TokenExists, NoRow
<1>11. /\ token'[n] = NewToken(f, req[r].left)
      /\ token'[t] = [token[t] EXCEPT !.revoked = TRUE]
      /\ \A s \in Tokens : s # t /\ s # n => token'[s] = token[s]
  BY <1>5, <1>6, <1>10 DEF Consume, RevokeTokens
<1>12. token' \in [Tokens -> {NoRow, Deleted} \union TokenRow]
  <2>1. token \in [Tokens -> {NoRow, Deleted} \union TokenRow]
    BY DEF IInv, TypeOK
  <2> QED
    BY <1>5, <1>9, <1>11, <2>1 DEF Consume, RevokeTokens
<1>13. TypeOK'
  BY <1>4, <1>6, <1>12, UseCounted DEF IInv, TypeOK
<1>14. /\ TokenExists(n)' /\ FamilyOf(n)' = f /\ token'[n].left = req[r].left
       /\ ~token'[n].revoked
  BY <1>11 DEF NewToken, TokenExists, FamilyOf
<1>15. /\ TokenExists(t)' /\ FamilyOf(t)' = FamilyOf(t) /\ token'[t].left = token[t].left
       /\ token'[t].revoked
  BY <1>6, <1>11 DEF TokenRow, TokenExists, FamilyOf
<1>16. /\ \A g : /\ FamilyExists(g)' = FamilyExists(g)
                 /\ Unrevoked(g)' = Unrevoked(g)
                 /\ UserOf(g)' = UserOf(g)
       /\ \A s \in Tokens : s # t /\ s # n =>
            /\ TokenExists(s)' = TokenExists(s) /\ FamilyOf(s)' = FamilyOf(s)
            /\ token'[s].left = token[s].left /\ token'[s].revoked = token[s].revoked
       /\ FamilyOf(t) = f
  BY <1>4, <1>11, <1>3 DEF FamilyExists, Unrevoked, UserOf, TokenExists, FamilyOf
<1>17. OneLiveToken'
  <2>1. LiveTokens(f) = {t}
    BY <1>6, <1>7, <1>16 DEF IInv, OneLiveToken, Unrevoked, LiveTokens, TokensOf
  <2>2. LiveTokens(f)' = {n}
    BY <1>6, <1>14, <1>15, <1>16, <2>1 DEF LiveTokens, TokensOf
  <2>3. \A g \in Families : g # f => LiveTokens(g)' = LiveTokens(g)
    BY <1>6, <1>10, <1>14, <1>15, <1>16 DEF LiveTokens, TokensOf
  <2>4. ~family[f].revoked
    BY <1>7 DEF Unrevoked
  <2> QED
    BY <1>4, <1>16, <2>2, <2>3, <2>4 DEF IInv, OneLiveToken
<1>18. \A q \in Requests : req'[q] \in {req[q], Idle}
  BY <1>4 DEF IInv, TypeOK
<1>19. \A q \in Requests : HoldsFamily(q)' => HoldsFamily(q) /\ q # r
  BY <1>4 DEF IInv, TypeOK, HoldsFamily, Idle
<1>20. \A q \in Requests, s \in Tokens, g \in Families :
         HoldsFamily(q)' /\ s = req[q].token /\ g = token[s].family =>
           /\ token'[s].state = "row" /\ token'[s].family = g
           /\ family'[g].left = family[g].left
           /\ req[q].op = "rotate" =>
                token'[s] = token[s] /\ family'[g] = family[g] /\ active'[family[g].user]
  <2> SUFFICES ASSUME NEW q \in Requests, NEW s \in Tokens, NEW g \in Families,
                      HoldsFamily(q)', s = req[q].token, g = token[s].family
               PROVE  /\ token'[s].state = "row" /\ token'[s] = token[s]
                      /\ req[q].op = "rotate" => active'[family[g].user]
    BY <1>4
  <2>1. HoldsFamily(q) /\ TokenExists(s)
    BY <1>19, RefreshedRows
  <2>2. s # t /\ s # n
    BY <1>8, <1>10, <1>16, <1>19, <2>1
  <2> QED
    BY <1>4, <1>11, <2>1, <2>2 DEF IInv, LockHolds, TokenExists, FamilyOf, UserOf
<1>21. /\ RequestWithinIdle' /\ LockHolds'
       /\ \A q \in Requests :
            HoldsFamily(q)' => (req[q].left <= family[FamilyOf(req[q].token)].left)'
  BY <1>4, <1>18, <1>20, RefreshesKept DEF Changing
<1>22. TokenWithinFamily'
  <2>1. ASSUME NEW s \in Tokens, TokenExists(s)'
        PROVE  (/\ FamilyExists(FamilyOf(s))
                /\ token[s].left <= family[FamilyOf(s)].left
                /\ token[s].left <= IdleTicks)'
    <3>1. CASE s = n
      BY <1>4, <1>6, <1>7, <1>14, <1>16, <3>1
    <3>2. CASE s = t
      BY <1>4, <1>6, <1>15, <1>16, <3>2 DEF IInv, TokenWithinFamily
    <3>3. CASE s # t /\ s # n
      BY <1>4, <1>16, <2>1, <3>3 DEF IInv, TokenWithinFamily
    <3> QED
      BY <3>1, <3>2, <3>3
  <2> QED
    BY <1>21, <2>1 DEF TokenWithinFamily
<1>23. uses[n] = 0 /\ uses[t] = 0
  <2>1. uses[n] = 0 /\ ~(uses[t] >= 1) /\ uses[t] \in 0..2
    BY <1>5, <1>6, <1>7 DEF IInv, TypeOK, UsesCounted
  <2> QED
    BY <2>1
<1>24. /\ uses' \in [Tokens -> 0..2] /\ uses'[n] = 0 /\ uses'[t] <= 1
       /\ \A s \in Tokens : s # t => uses'[s] = uses[s]
  BY <1>4, <1>6, <1>10, <1>23, UseCounted DEF IInv
<1>25. UsesCounted'
  <2> SUFFICES ASSUME NEW s \in Tokens
               PROVE  /\ token'[s] = NoRow => uses'[s] = 0
                      /\ TokenExists(s)' /\ uses'[s] >= 1 => token'[s].revoked
    BY DEF UsesCounted
  <2>1. CASE s = n
    BY <1>24, <2>1
  <2>2. CASE s = t
    BY <1>15, <2>2 DEF TokenExists, NoRow
  <2>3. CASE s # t /\ s # n
    BY <1>11, <1>16, <1>24, <2>3 DEF IInv, UsesCounted
  <2> QED
    BY <2>1, <2>2, <2>3
<1>26. ReplayEndsSession'
  <2> SUFFICES ASSUME NEW s \in Tokens, uses'[s] >= 2, TokenExists(s)'
               PROVE  family'[FamilyOf(s)'].revoked
    BY DEF ReplayEndsSession
  <2>1. s # n /\ s # t
    BY <1>6, <1>24
  <2> QED
    BY <1>4, <1>16, <1>24, <2>1 DEF IInv, ReplayEndsSession
<1>27. ChangeEndsSessions' /\ UserLockHolds' /\ ChangeSees'
  BY <1>4, <1>16 DEF IInv, ChangeEndsSessions, UserLockHolds, ChangeSees, Changing
<1> QED
  BY <1>13, <1>17, <1>21, <1>22, <1>25, <1>26, <1>27 DEF IInv

(* A session is revoked with all its tokens, by a replay or a logout, while
   nobody else holds its lock. *)
LEMMA FamilyRevoked ==
  ASSUME IInv, NEW f \in Families, FamilyExists(f),
         family' = RevokeFamily(f), token' = RevokeTokens(TokensOf(f)),
         UNCHANGED <<active, admin, changes>>,
         req' \in [Requests -> {Idle} \union LoginTx \union RefreshTx],
         \A q \in Requests : /\ req'[q] \in {req[q], Idle}
                             /\ HoldsFamily(q)' => FamilyOf(req[q].token) # f,
         uses' \in [Tokens -> 0..2],
         \A s \in Tokens : s \notin TokensOf(f) => uses'[s] = uses[s]
  PROVE  IInv'
<1>1. /\ family'[f] = [family[f] EXCEPT !.revoked = TRUE]
      /\ \A g \in Families : g # f => family'[g] = family[g]
  BY DEF RevokeFamily, IInv, TypeOK
<1>2. \A s \in Tokens : /\ s \in TokensOf(f) => token'[s] = [token[s] EXCEPT !.revoked = TRUE]
                        /\ s \notin TokensOf(f) => token'[s] = token[s]
  BY DEF RevokeTokens
<1>3. /\ family[f] \in FamilyRow
      /\ \A s \in TokensOf(f) : token[s] \in TokenRow /\ TokenExists(s) /\ FamilyOf(s) = f
  BY FamilyRows, TokenRows DEF IInv, TokensOf
<1>4. /\ FamilyExists(f)' /\ family'[f].revoked /\ ~Unrevoked(f)'
      /\ UserOf(f)' = UserOf(f) /\ family'[f].left = family[f].left
      /\ family'[f] \in FamilyRow
  BY <1>1, <1>3 DEF FamilyRow, FamilyExists, Unrevoked, UserOf
<1>5. \A s \in TokensOf(f) :
        /\ TokenExists(s)' /\ FamilyOf(s)' = f /\ token'[s].revoked
        /\ token'[s].left = token[s].left /\ token'[s] \in TokenRow
  <2> SUFFICES ASSUME NEW s \in Tokens, s \in TokensOf(f)
               PROVE  /\ TokenExists(s)' /\ FamilyOf(s)' = f /\ token'[s].revoked
                      /\ token'[s].left = token[s].left /\ token'[s] \in TokenRow
    BY DEF TokensOf
  <2>1. token'[s] = [token[s] EXCEPT !.revoked = TRUE] /\ token[s] \in TokenRow
    BY <1>2, <1>3
  <2>2. token[s].family = f
    BY <1>3 DEF FamilyOf
  <2> QED
    BY <2>1, <2>2 DEF TokenRow, TokenExists, FamilyOf
<1>6. /\ \A g \in Families : g # f =>
            /\ FamilyExists(g)' = FamilyExists(g)
            /\ Unrevoked(g)' = Unrevoked(g)
            /\ UserOf(g)' = UserOf(g)
      /\ \A s \in Tokens : s \notin TokensOf(f) =>
            TokenExists(s)' = TokenExists(s) /\ FamilyOf(s)' = FamilyOf(s)
  BY <1>1, <1>2 DEF FamilyExists, Unrevoked, UserOf, TokenExists, FamilyOf
<1>7. TypeOK'
  <2>1. family' \in [Families -> {NoRow, Deleted} \union FamilyRow]
    BY <1>4, <1>1 DEF RevokeFamily, IInv, TypeOK
  <2>2. token' \in [Tokens -> {NoRow, Deleted} \union TokenRow]
    BY <1>2, <1>5 DEF RevokeTokens, IInv, TypeOK
  <2> QED
    BY <2>1, <2>2 DEF IInv, TypeOK
<1>8. OneLiveToken'
  <2>1. \A s \in Tokens : FamilyOf(s) = f /\ TokenExists(s) => s \in TokensOf(f)
    BY DEF TokensOf
  <2>2. LiveTokens(f)' = {}
    BY <1>5, <1>6, <2>1 DEF LiveTokens, TokensOf
  <2>3. ASSUME NEW g \in Families, g # f PROVE LiveTokens(g)' = LiveTokens(g)
    BY <1>2, <1>3, <1>5, <1>6, <2>3 DEF LiveTokens, TokensOf
  <2>4. \A g \in Families : g # f => family'[g] = family[g] /\ FamilyExists(g)' = FamilyExists(g)
    BY <1>1, <1>6
  <2> QED
    BY <1>4, <2>2, <2>3, <2>4 DEF IInv, OneLiveToken
<1>9. \A q \in Requests, s \in Tokens, g \in Families :
        HoldsFamily(q)' /\ s = req[q].token /\ g = token[s].family =>
          /\ token'[s].state = "row" /\ token'[s].family = g
          /\ family'[g].left = family[g].left
          /\ req[q].op = "rotate" =>
               token'[s] = token[s] /\ family'[g] = family[g] /\ active'[family[g].user]
  <2> SUFFICES ASSUME NEW q \in Requests, NEW s \in Tokens, NEW g \in Families,
                      HoldsFamily(q)', s = req[q].token, g = token[s].family
               PROVE  /\ token'[s].state = "row" /\ token'[s] = token[s]
                      /\ family'[g] = family[g]
                      /\ req[q].op = "rotate" => active'[family[g].user]
    OBVIOUS
  <2>1. HoldsFamily(q)
    BY DEF HoldsFamily, Idle
  <2>2. TokenExists(s) /\ g # f /\ s \notin TokensOf(f)
    BY <2>1, RefreshedRows DEF FamilyOf, TokensOf
  <2> QED
    BY <1>1, <1>2, <2>2 DEF IInv, LockHolds, TokenExists, FamilyOf, UserOf
<1>10. /\ RequestWithinIdle' /\ LockHolds'
       /\ \A q \in Requests :
            HoldsFamily(q)' => (req[q].left <= family[FamilyOf(req[q].token)].left)'
  BY <1>9, RefreshesKept DEF Changing
<1>11. TokenWithinFamily'
  <2>1. ASSUME NEW s \in Tokens, TokenExists(s)'
        PROVE  (/\ FamilyExists(FamilyOf(s))
                /\ token[s].left <= family[FamilyOf(s)].left
                /\ token[s].left <= IdleTicks)'
    <3>1. CASE s \in TokensOf(f)
      BY <1>3, <1>4, <1>5, <3>1 DEF IInv, TokenWithinFamily
    <3>2. CASE s \notin TokensOf(f)
      <4>1. TokenExists(s) /\ FamilyOf(s)' = FamilyOf(s) /\ token'[s] = token[s]
        BY <1>2, <1>6, <2>1, <3>2
      <4>2. FamilyOf(s) \in Families /\ FamilyOf(s) # f
        BY <3>2, <4>1, TokenRows DEF IInv, TokensOf, TokenRow, FamilyOf
      <4> QED
        BY <1>1, <1>6, <4>1, <4>2 DEF IInv, TokenWithinFamily
    <3> QED
      BY <3>1, <3>2
  <2> QED
    BY <1>10, <2>1 DEF TokenWithinFamily
<1>12. UsesCounted'
  <2> SUFFICES ASSUME NEW s \in Tokens
               PROVE  /\ token'[s] = NoRow => uses'[s] = 0
                      /\ TokenExists(s)' /\ uses'[s] >= 1 => token'[s].revoked
    BY DEF UsesCounted
  <2>1. CASE s \in TokensOf(f)
    BY <1>5, <2>1 DEF TokenExists, NoRow
  <2>2. CASE s \notin TokensOf(f)
    BY <1>2, <1>6, <2>2 DEF IInv, UsesCounted
  <2> QED
    BY <2>1, <2>2
<1>13. ReplayEndsSession'
  <2> SUFFICES ASSUME NEW s \in Tokens, uses'[s] >= 2, TokenExists(s)'
               PROVE  family'[FamilyOf(s)'].revoked
    BY DEF ReplayEndsSession
  <2>1. CASE s \in TokensOf(f)
    BY <1>4, <1>5, <2>1
  <2>2. CASE s \notin TokensOf(f)
    <3>1. TokenExists(s) /\ FamilyOf(s)' = FamilyOf(s) /\ uses[s] >= 2
      BY <1>6, <2>2
    <3>2. FamilyOf(s) \in Families /\ FamilyOf(s) # f
      BY <2>2, <3>1, TokenRows DEF IInv, TokensOf, TokenRow, FamilyOf
    <3> QED
      BY <1>1, <3>1, <3>2 DEF IInv, ReplayEndsSession
  <2> QED
    BY <2>1, <2>2
<1>14. ChangeEndsSessions'
  BY <1>1, <1>4, <1>6 DEF IInv, ChangeEndsSessions
<1>15. UserLockHolds'
  BY SameUsers DEF Changing
<1>16. ChangeSees'
  BY <1>4, <1>6 DEF IInv, ChangeSees
<1> QED
  BY <1>7, <1>8, <1>10, <1>11, <1>12, <1>13, <1>14, <1>15, <1>16 DEF IInv

LEMMA RevokeReplayedPreserves ==
  ASSUME IInv, NEW r \in Requests, RevokeReplayed(r)
  PROVE  IInv'
<1>1. HoldsFamily(r)
  BY DEF RevokeReplayed, HoldsFamily
<1>2. PICK t \in Tokens : t = req[r].token
  BY <1>1, RefreshedRows
<1>3. PICK f \in Families : f = FamilyOf(t)
  BY <1>1, <1>2, RefreshedRows
<1>4. /\ CountUse(t)
      /\ family' = RevokeFamily(f) /\ token' = RevokeTokens(TokensOf(f))
      /\ req' = [req EXCEPT ![r] = Idle]
      /\ UNCHANGED <<active, admin, changes>>
  BY <1>2, <1>3 DEF RevokeReplayed
<1>5. FamilyExists(f) /\ t \in TokensOf(f)
  BY <1>1, <1>2, <1>3, RefreshedRows DEF TokensOf
<1>6. req' \in [Requests -> {Idle} \union LoginTx \union RefreshTx]
  BY <1>4 DEF IInv, TypeOK
<1>7. \A q \in Requests : /\ req'[q] \in {req[q], Idle}
                          /\ HoldsFamily(q)' => FamilyOf(req[q].token) # f
  <2>1. \A q \in Requests : /\ req'[q] \in {req[q], Idle}
                            /\ HoldsFamily(q)' => q # r /\ HoldsFamily(q)
    BY <1>4 DEF IInv, TypeOK, HoldsFamily, Idle
  <2> QED
    BY <1>1, <1>2, <1>3, <2>1 DEF IInv, LockHolds
<1>8. uses' \in [Tokens -> 0..2] /\ \A s \in Tokens : s \notin TokensOf(f) => uses'[s] = uses[s]
  BY <1>4, <1>5, UseCounted DEF IInv
<1> QED
  BY <1>4, <1>5, <1>6, <1>7, <1>8, FamilyRevoked

LEMMA RevokeLoggedOutPreserves ==
  ASSUME IInv, NEW r \in Requests, RevokeLoggedOut(r)
  PROVE  IInv'
<1>1. HoldsFamily(r)
  BY DEF RevokeLoggedOut, HoldsFamily
<1>2. PICK f \in Families : f = FamilyOf(req[r].token)
  BY <1>1, RefreshedRows
<1>3. /\ family' = RevokeFamily(f) /\ token' = RevokeTokens(TokensOf(f))
      /\ req' = [req EXCEPT ![r] = Idle]
      /\ UNCHANGED <<active, admin, changes, uses>>
  BY <1>2 DEF RevokeLoggedOut
<1>4. FamilyExists(f)
  BY <1>1, <1>2, RefreshedRows
<1>5. req' \in [Requests -> {Idle} \union LoginTx \union RefreshTx]
  BY <1>3 DEF IInv, TypeOK
<1>6. \A q \in Requests : /\ req'[q] \in {req[q], Idle}
                          /\ HoldsFamily(q)' => FamilyOf(req[q].token) # f
  <2>1. \A q \in Requests : /\ req'[q] \in {req[q], Idle}
                            /\ HoldsFamily(q)' => q # r /\ HoldsFamily(q)
    BY <1>3 DEF IInv, TypeOK, HoldsFamily, Idle
  <2> QED
    BY <1>1, <1>2, <2>1 DEF IInv, LockHolds
<1>7. uses' \in [Tokens -> 0..2] /\ \A s \in Tokens : s \notin TokensOf(f) => uses'[s] = uses[s]
  BY <1>3 DEF IInv, TypeOK
<1> QED
  BY <1>3, <1>4, <1>5, <1>6, <1>7, FamilyRevoked

(* Retention deletes a session that nobody is refreshing. *)
LEMMA CleanupFamilyPreserves ==
  ASSUME IInv, NEW f \in Families, CleanupFamily(f)
  PROVE  IInv'
<1>1. /\ FamilyExists(f) /\ ~FamilyLocked(f)
      /\ family' = [family EXCEPT ![f] = Deleted]
      /\ token' = [t \in Tokens |-> IF t \in TokensOf(f) THEN Deleted ELSE token[t]]
      /\ UNCHANGED <<active, req, admin, changes, uses>>
  BY DEF CleanupFamily, Retired
<1>2. TypeOK'
  BY <1>1 DEF IInv, TypeOK
<1>3. /\ family'[f] = Deleted /\ ~FamilyExists(f)' /\ ~Unrevoked(f)'
      /\ \A g \in Families : g # f =>
            /\ family'[g] = family[g]
            /\ FamilyExists(g)' = FamilyExists(g)
            /\ Unrevoked(g)' = Unrevoked(g)
            /\ UserOf(g)' = UserOf(g)
  BY <1>1 DEF IInv, TypeOK, FamilyExists, Unrevoked, UserOf, Deleted
<1>4. \A s \in Tokens : s \in TokensOf(f) => token'[s] = Deleted /\ ~TokenExists(s)'
  BY <1>1 DEF TokenExists, Deleted
<1>5. \A s \in Tokens : s \notin TokensOf(f) =>
        token'[s] = token[s] /\ TokenExists(s)' = TokenExists(s) /\ FamilyOf(s)' = FamilyOf(s)
  BY <1>1 DEF TokenExists, FamilyOf
<1>6. \A s \in Tokens : TokenExists(s)' =>
        /\ TokenExists(s) /\ token'[s] = token[s] /\ FamilyOf(s)' = FamilyOf(s)
        /\ FamilyOf(s) \in Families /\ FamilyOf(s) # f
  BY <1>4, <1>5, TokenRows DEF IInv, TokensOf, TokenRow, FamilyOf
<1>7. OneLiveToken'
  <2>1. \A g \in Families : g # f => LiveTokens(g)' = LiveTokens(g)
    BY <1>4, <1>5 DEF LiveTokens, TokensOf
  <2> QED
    BY <1>3, <2>1 DEF IInv, OneLiveToken
<1>8. \A q \in Requests, s \in Tokens, g \in Families :
        HoldsFamily(q)' /\ s = req[q].token /\ g = token[s].family =>
          /\ token'[s].state = "row" /\ token'[s].family = g
          /\ family'[g].left = family[g].left
          /\ req[q].op = "rotate" =>
               token'[s] = token[s] /\ family'[g] = family[g] /\ active'[family[g].user]
  <2> SUFFICES ASSUME NEW q \in Requests, NEW s \in Tokens, NEW g \in Families,
                      HoldsFamily(q)', s = req[q].token, g = token[s].family
               PROVE  /\ token'[s].state = "row" /\ token'[s] = token[s]
                      /\ family'[g] = family[g]
                      /\ req[q].op = "rotate" => active'[family[g].user]
    OBVIOUS
  <2>1. HoldsFamily(q)
    BY <1>1 DEF HoldsFamily
  <2>2. TokenExists(s) /\ g # f /\ s \notin TokensOf(f)
    BY <1>1, <2>1, RefreshedRows DEF FamilyOf, TokensOf, FamilyLocked
  <2> QED
    BY <1>1, <1>3, <1>5, <2>2 DEF IInv, LockHolds, TokenExists, FamilyOf, UserOf
<1>9. /\ RequestWithinIdle' /\ LockHolds'
      /\ \A q \in Requests :
           HoldsFamily(q)' => (req[q].left <= family[FamilyOf(req[q].token)].left)'
  BY <1>1, <1>8, RefreshesKept DEF Changing
<1>10. TokenWithinFamily'
  BY <1>3, <1>6, <1>9 DEF IInv, TokenWithinFamily
<1>11. UsesCounted'
  BY <1>1, <1>4, <1>5 DEF IInv, UsesCounted, Deleted, NoRow
<1>12. ReplayEndsSession'
  BY <1>1, <1>3, <1>6 DEF IInv, ReplayEndsSession
<1>13. ChangeEndsSessions'
  BY <1>3 DEF IInv, ChangeEndsSessions
<1>14. UserLockHolds'
  BY <1>1, SameUsers DEF Changing
<1>15. ChangeSees'
  BY <1>1, <1>3 DEF IInv, ChangeSees
<1> QED
  BY <1>2, <1>7, <1>9, <1>10, <1>11, <1>12, <1>13, <1>14, <1>15 DEF IInv

(* A user change commits: it has found every session of its user, and holds
   the ones it found unrevoked. *)
LEMMA CommitChangePreserves ==
  ASSUME IInv, NEW a \in Admins, CommitChange(a)
  PROVE  IInv'
<1>1. PICK u : u = admin[a].user
  OBVIOUS
<1>2. PICK held : held = admin[a].held
  OBVIOUS
<1>3. /\ admin[a].op = "revoking" /\ admin[a].waits = {}
      /\ active' = ActiveAfter(a)
      /\ family' = [f \in Families |-> AfterChange(f, a)]
      /\ token' = RevokeTokens(TokensOfUser(u))
      /\ admin' = [admin EXCEPT ![a] = Idle]
      /\ UNCHANGED <<req, changes, uses>>
  BY <1>1 DEF CommitChange
<1>4. Changing(a) /\ u \in Users
  BY <1>1, <1>3, ChangeInFlight DEF IInv, AdminTx
<1>5. \A g \in Families : Unrevoked(g) /\ UserOf(g) = u => g \in held
  BY <1>1, <1>2, <1>3 DEF IInv, ChangeSees
<1>6. ASSUME NEW g \in Families, FamilyExists(g), UserOf(g) = u
      PROVE  /\ FamilyExists(g)' /\ UserOf(g)' = u /\ family'[g].left = family[g].left
             /\ family'[g].revoked /\ family'[g] \in FamilyRow /\ ~Unrevoked(g)'
  <2>1. family[g] \in FamilyRow
    BY <1>6, FamilyRows DEF IInv
  <2>2. family[g].revoked \/ g \in admin[a].held
    BY <1>2, <1>5, <1>6 DEF Unrevoked
  <2>3. family'[g] = [family[g] EXCEPT !.revoked = @ \/ g \in admin[a].held, !.outlived = TRUE]
    BY <1>1, <1>3, <1>6 DEF AfterChange
  <2>4. family'[g] = [family[g] EXCEPT !.revoked = TRUE, !.outlived = TRUE]
    BY <2>1, <2>2, <2>3 DEF FamilyRow
  <2> QED
    BY <1>6, <2>1, <2>4 DEF FamilyRow, FamilyExists, Unrevoked, UserOf
<1>7. ASSUME NEW g \in Families, ~(FamilyExists(g) /\ UserOf(g) = u)
      PROVE  /\ family'[g] = family[g] /\ (FamilyExists(g)' <=> FamilyExists(g))
             /\ UserOf(g)' = UserOf(g) /\ (Unrevoked(g)' <=> Unrevoked(g))
  <2>1. family'[g] = family[g]
    BY <1>1, <1>3, <1>7 DEF AfterChange
  <2> QED
    BY <2>1 DEF FamilyExists, UserOf, Unrevoked
<1>8. \A g \in Families :
        /\ (FamilyExists(g)' <=> FamilyExists(g))
        /\ family'[g].left = family[g].left
        /\ UserOf(g)' = UserOf(g)
        /\ Unrevoked(g)' => Unrevoked(g)
  BY <1>6, <1>7
<1>9. ASSUME NEW s \in Tokens, s \in TokensOfUser(u)
      PROVE  /\ TokenExists(s) /\ TokenExists(s)' /\ FamilyOf(s)' = FamilyOf(s)
             /\ token'[s].revoked /\ token'[s].left = token[s].left
             /\ token'[s] \in TokenRow
  <2>1. TokenExists(s) /\ token[s] \in TokenRow
    BY <1>9, TokenRows DEF IInv, TokensOfUser
  <2>2. token'[s] = [token[s] EXCEPT !.revoked = TRUE]
    BY <1>3, <1>9 DEF RevokeTokens
  <2> QED
    BY <2>1, <2>2 DEF TokenRow, TokenExists, FamilyOf
<1>10. ASSUME NEW s \in Tokens, s \notin TokensOfUser(u)
       PROVE  /\ token'[s] = token[s] /\ (TokenExists(s)' <=> TokenExists(s))
              /\ FamilyOf(s)' = FamilyOf(s)
  <2>1. token'[s] = token[s]
    BY <1>3, <1>10 DEF RevokeTokens
  <2> QED
    BY <2>1 DEF TokenExists, FamilyOf
<1>11. \A s \in Tokens :
         /\ (TokenExists(s)' <=> TokenExists(s)) /\ FamilyOf(s)' = FamilyOf(s)
         /\ TokenExists(s) => token'[s].left = token[s].left
  BY <1>9, <1>10
<1>12. TypeOK'
  <2>1. active' \in [Users -> BOOLEAN]
    BY <1>3 DEF ActiveAfter, IInv, TypeOK
  <2>2. \A g \in Families : family'[g] \in {NoRow, Deleted} \union FamilyRow
    BY <1>6, <1>7 DEF IInv, TypeOK
  <2>3. family' \in [Families -> {NoRow, Deleted} \union FamilyRow]
    BY <1>3, <2>2
  <2>4. \A s \in Tokens : token'[s] \in {NoRow, Deleted} \union TokenRow
    BY <1>9, <1>10 DEF IInv, TypeOK
  <2>5. token' \in [Tokens -> {NoRow, Deleted} \union TokenRow]
    BY <1>3, <2>4 DEF RevokeTokens
  <2> QED
    BY <1>3, <2>1, <2>3, <2>5 DEF IInv, TypeOK
<1>13. OneLiveToken'
  <2> SUFFICES ASSUME NEW g \in Families, FamilyExists(g)'
               PROVE  IF family'[g].revoked THEN LiveTokens(g)' = {}
                      ELSE \E t \in Tokens : LiveTokens(g)' = {t}
    BY DEF OneLiveToken
  <2>1. FamilyExists(g)
    BY <1>8
  <2>2. CASE UserOf(g) = u
    <3>1. \A s \in TokensOf(g) : s \in TokensOfUser(u)
      BY <2>2 DEF TokensOf, TokensOfUser
    <3>2. LiveTokens(g)' = {}
      BY <1>9, <1>11, <3>1 DEF LiveTokens, TokensOf
    <3> QED
      BY <1>6, <2>1, <2>2, <3>2
  <2>3. CASE UserOf(g) # u
    <3>1. \A s \in TokensOf(g) : s \notin TokensOfUser(u)
      BY <2>3 DEF TokensOf, TokensOfUser
    <3>2. LiveTokens(g)' = LiveTokens(g)
      BY <1>10, <1>11, <3>1 DEF LiveTokens, TokensOf
    <3>3. family'[g] = family[g]
      BY <1>7, <2>3
    <3> QED
      BY <2>1, <3>2, <3>3 DEF IInv, OneLiveToken
  <2> QED
    BY <2>2, <2>3
<1>14. \A b \in Admins : Changing(b)' => /\ b # a /\ Changing(b)
                                         /\ admin'[b] = admin[b]
  BY <1>3 DEF IInv, TypeOK, Changing
<1>15. \A q \in Requests, s \in Tokens, g \in Families :
         HoldsFamily(q)' /\ s = req[q].token /\ g = token[s].family =>
           /\ token'[s].state = "row" /\ token'[s].family = g
           /\ family'[g].left = family[g].left
           /\ req[q].op = "rotate" =>
                token'[s] = token[s] /\ family'[g] = family[g] /\ active'[family[g].user]
  <2> SUFFICES ASSUME NEW q \in Requests, NEW s \in Tokens, NEW g \in Families,
                      HoldsFamily(q)', s = req[q].token, g = token[s].family
               PROVE  /\ token'[s].state = "row" /\ token'[s].family = g
                      /\ req[q].op = "rotate" =>
                           token'[s] = token[s] /\ family'[g] = family[g] /\ active'[family[g].user]
    BY <1>8
  <2>1. HoldsFamily(q)
    BY <1>3 DEF HoldsFamily
  <2>2. TokenExists(s) /\ g = FamilyOf(s) /\ family[g] \in FamilyRow
    BY <2>1, RefreshedRows DEF FamilyOf
  <2>3. token'[s].state = "row" /\ token'[s].family = g
    BY <1>11, <2>2 DEF TokenExists, FamilyOf
  <2>4. ASSUME req[q].op = "rotate"
        PROVE  token'[s] = token[s] /\ family'[g] = family[g] /\ active'[family[g].user]
    <3>1. Unrevoked(g) /\ active[UserOf(g)]
      BY <2>2, <2>4 DEF IInv, LockHolds
    <3>2. UserOf(g) # u
      BY <1>2, <1>4, <1>5, <2>1, <2>2, <3>1 DEF IInv, LockHolds
    <3>3. s \notin TokensOfUser(u)
      BY <2>2, <3>2 DEF TokensOfUser
    <3>4. active'[UserOf(g)] = active[UserOf(g)]
      BY <1>1, <1>3, <2>2, <3>2 DEF IInv, TypeOK, ActiveAfter, FamilyRow, UserOf
    <3> QED
      BY <1>7, <1>10, <3>1, <3>2, <3>3, <3>4 DEF UserOf
  <2> QED
    BY <2>3, <2>4
<1>16. /\ RequestWithinIdle' /\ LockHolds'
       /\ \A q \in Requests :
            HoldsFamily(q)' => (req[q].left <= family[FamilyOf(req[q].token)].left)'
  BY <1>3, <1>14, <1>15, RefreshesKept
<1>17. TokenWithinFamily'
  <2>1. ASSUME NEW s \in Tokens, TokenExists(s)'
        PROVE  (/\ FamilyExists(FamilyOf(s))
                /\ token[s].left <= family[FamilyOf(s)].left
                /\ token[s].left <= IdleTicks)'
    <3>1. TokenExists(s) /\ FamilyOf(s) \in Families
      BY <1>11, <2>1, TokenRows DEF IInv, TokenRow, FamilyOf
    <3> QED
      BY <1>8, <1>11, <3>1 DEF IInv, TokenWithinFamily
  <2> QED
    BY <1>16, <2>1 DEF TokenWithinFamily
<1>18. UsesCounted'
  <2>1. \A s \in Tokens : s \in TokensOfUser(u) => token'[s] # NoRow /\ token'[s].revoked
    BY <1>9 DEF TokenExists, NoRow
  <2> QED
    BY <1>3, <1>10, <2>1 DEF IInv, UsesCounted
<1>19. ReplayEndsSession'
  <2> SUFFICES ASSUME NEW s \in Tokens, uses'[s] >= 2, TokenExists(s)'
               PROVE  family'[FamilyOf(s)'].revoked
    BY DEF ReplayEndsSession
  <2>1. TokenExists(s) /\ FamilyOf(s)' = FamilyOf(s) /\ FamilyOf(s) \in Families
    BY <1>11, TokenRows DEF IInv, TokenRow, FamilyOf
  <2>2. FamilyExists(FamilyOf(s)) /\ family[FamilyOf(s)].revoked
    BY <1>3, <2>1 DEF IInv, ReplayEndsSession, TokenWithinFamily
  <2> QED
    BY <1>6, <1>7, <2>1, <2>2
<1>20. ChangeEndsSessions'
  BY <1>6, <1>7 DEF IInv, ChangeEndsSessions
<1>21. UserLockHolds'
  BY <1>14, SameUsers
<1>22. ChangeSees'
  <2>1. \A b \in Admins : admin'[b].op = "revoking" => b # a /\ admin'[b] = admin[b]
    BY <1>3 DEF IInv, TypeOK, Idle
  <2> QED
    BY <1>8, <2>1 DEF IInv, ChangeSees
<1> QED
  BY <1>12, <1>13, <1>16, <1>17, <1>18, <1>19, <1>20, <1>21, <1>22 DEF IInv

(* Time passes: nothing overtakes the session it belongs to. *)
LEMMA Lessened ==
  ASSUME NEW m \in Nat, NEW n \in Nat, NEW k \in Nat
  PROVE  /\ m <= n => Less(m) <= Less(n)
         /\ m <= k => Less(m) <= k
         /\ m \in 0..k => Less(m) \in 0..k
         /\ Less(m) <= m
BY DEF Less

LEMMA TickPreserves ==
  ASSUME IInv, Tick
  PROVE  IInv'
<1>1. /\ family' = [f \in Families |->
            IF FamilyExists(f) THEN [family[f] EXCEPT !.left = Less(@)] ELSE family[f]]
      /\ token' = [t \in Tokens |->
            IF TokenExists(t) THEN [token[t] EXCEPT !.left = Less(@)] ELSE token[t]]
      /\ req' = [r \in Requests |->
            IF HoldsFamily(r) THEN [req[r] EXCEPT !.left = Less(@)] ELSE req[r]]
      /\ UNCHANGED <<active, admin, changes, uses>>
  BY DEF Tick
<1>2. ASSUME NEW f \in Families, FamilyExists(f)
      PROVE  /\ family[f] \in FamilyRow /\ family'[f] = [family[f] EXCEPT !.left = Less(@)]
             /\ family'[f].left = Less(family[f].left)
             /\ FamilyExists(f)' /\ family'[f].revoked = family[f].revoked
             /\ UserOf(f)' = UserOf(f) /\ family'[f].outlived = family[f].outlived
  BY <1>1, <1>2, FamilyRows DEF IInv, FamilyRow, FamilyExists, UserOf
<1>3. ASSUME NEW t \in Tokens, TokenExists(t)
      PROVE  /\ token[t] \in TokenRow /\ token'[t] = [token[t] EXCEPT !.left = Less(@)]
             /\ token'[t].left = Less(token[t].left)
             /\ TokenExists(t)' /\ token'[t].revoked = token[t].revoked
             /\ FamilyOf(t)' = FamilyOf(t)
  BY <1>1, <1>3, TokenRows DEF IInv, TokenRow, TokenExists, FamilyOf
<1>4. ASSUME NEW r \in Requests, HoldsFamily(r)
      PROVE  /\ req[r] \in RefreshTx /\ req'[r] = [req[r] EXCEPT !.left = Less(@)]
             /\ req'[r].left = Less(req[r].left)
             /\ HoldsFamily(r)' /\ req'[r].op = req[r].op /\ req'[r].token = req[r].token
             /\ req'[r].active = req[r].active
  BY <1>1, <1>4, InFlight DEF IInv, RefreshTx, HoldsFamily
<1>5. /\ \A f \in Families : ~FamilyExists(f) => family'[f] = family[f] /\ ~FamilyExists(f)'
      /\ \A t \in Tokens : ~TokenExists(t) => token'[t] = token[t] /\ ~TokenExists(t)'
      /\ \A r \in Requests : ~HoldsFamily(r) => req'[r] = req[r] /\ ~HoldsFamily(r)'
  BY <1>1 DEF FamilyExists, TokenExists, HoldsFamily
<1>6. TypeOK'
  <2>1. \A f \in Families : family'[f] \in {NoRow, Deleted} \union FamilyRow
    <3> SUFFICES ASSUME NEW f \in Families
                 PROVE  family'[f] \in {NoRow, Deleted} \union FamilyRow
      OBVIOUS
    <3>1. CASE FamilyExists(f)
      <4>1. family[f] \in FamilyRow
        BY <1>2, <3>1
      <4>2. family[f].left \in 0..AbsoluteTicks
        BY <4>1 DEF FamilyRow
      <4>3. Less(family[f].left) \in 0..AbsoluteTicks
        BY <4>2, SessionsAssumption DEF Less
      <4> QED
        BY <1>2, <3>1, <4>1, <4>3 DEF FamilyRow
    <3>2. CASE ~FamilyExists(f)
      BY <1>5, <3>2 DEF IInv, TypeOK
    <3> QED
      BY <3>1, <3>2
  <2>2. \A t \in Tokens : token'[t] \in {NoRow, Deleted} \union TokenRow
    <3> SUFFICES ASSUME NEW t \in Tokens
                 PROVE  token'[t] \in {NoRow, Deleted} \union TokenRow
      OBVIOUS
    <3>1. CASE TokenExists(t)
      <4>1. token[t] \in TokenRow
        BY <1>3, <3>1
      <4>2. token[t].left \in 0..AbsoluteTicks
        BY <4>1 DEF TokenRow
      <4>3. Less(token[t].left) \in 0..AbsoluteTicks
        BY <4>2, SessionsAssumption DEF Less
      <4> QED
        BY <1>3, <3>1, <4>1, <4>3 DEF TokenRow
    <3>2. CASE ~TokenExists(t)
      BY <1>5, <3>2 DEF IInv, TypeOK
    <3> QED
      BY <3>1, <3>2
  <2>3. \A r \in Requests : req'[r] \in {Idle} \union LoginTx \union RefreshTx
    <3> SUFFICES ASSUME NEW r \in Requests
                 PROVE  req'[r] \in {Idle} \union LoginTx \union RefreshTx
      OBVIOUS
    <3>1. CASE HoldsFamily(r)
      <4>1. req[r] \in RefreshTx
        BY <1>4, <3>1
      <4>2. req[r].left \in 0..AbsoluteTicks
        BY <4>1 DEF RefreshTx
      <4>3. Less(req[r].left) \in 0..AbsoluteTicks
        BY <4>2, SessionsAssumption DEF Less
      <4> QED
        BY <1>4, <3>1, <4>1, <4>3 DEF RefreshTx
    <3>2. CASE ~HoldsFamily(r)
      BY <1>5, <3>2 DEF IInv, TypeOK
    <3> QED
      BY <3>1, <3>2
  <2> QED
    BY <1>1, <2>1, <2>2, <2>3 DEF IInv, TypeOK
<1>7. /\ \A f \in Families : /\ FamilyExists(f)' <=> FamilyExists(f)
                             /\ Unrevoked(f)' <=> Unrevoked(f)
                             /\ FamilyExists(f) => /\ UserOf(f)' = UserOf(f)
                                                   /\ family'[f].revoked = family[f].revoked
                                                   /\ family'[f].outlived = family[f].outlived
      /\ \A t \in Tokens : /\ TokenExists(t)' <=> TokenExists(t)
                           /\ TokenExists(t) => /\ FamilyOf(t)' = FamilyOf(t)
                                                /\ token'[t].revoked = token[t].revoked
      /\ \A r \in Requests : HoldsFamily(r)' <=> HoldsFamily(r)
  BY <1>2, <1>3, <1>4, <1>5 DEF Unrevoked
<1>8. OneLiveToken'
  <2>1. \A f \in Families : LiveTokens(f)' = LiveTokens(f)
    BY <1>7 DEF LiveTokens, TokensOf
  <2> QED
    BY <1>7, <2>1 DEF IInv, OneLiveToken
<1>9. ASSUME NEW t \in Tokens, TokenExists(t)
      PROVE  /\ FamilyOf(t) \in Families /\ FamilyExists(FamilyOf(t))
             /\ token[t].left \in Nat /\ family[FamilyOf(t)].left \in Nat
             /\ token[t].left <= family[FamilyOf(t)].left /\ token[t].left <= IdleTicks
  <2>1. token[t] \in TokenRow /\ FamilyOf(t) \in Families /\ FamilyExists(FamilyOf(t))
    BY <1>9, TokenRows DEF IInv, TokenWithinFamily, TokenRow, FamilyOf
  <2>2. family[FamilyOf(t)] \in FamilyRow
    BY <2>1, FamilyRows DEF IInv
  <2> QED
    BY <1>9, <2>1, <2>2 DEF IInv, TokenWithinFamily, TokenRow, FamilyRow
<1>10. ASSUME NEW r \in Requests, HoldsFamily(r)
       PROVE  /\ req[r].token \in Tokens /\ TokenExists(req[r].token)
              /\ FamilyOf(req[r].token) \in Families /\ FamilyExists(FamilyOf(req[r].token))
              /\ req[r].left \in Nat /\ family[FamilyOf(req[r].token)].left \in Nat
              /\ req[r].left <= family[FamilyOf(req[r].token)].left /\ req[r].left <= IdleTicks
  <2>1. /\ req[r].token \in Tokens /\ TokenExists(req[r].token)
        /\ FamilyOf(req[r].token) \in Families /\ FamilyExists(FamilyOf(req[r].token))
        /\ family[FamilyOf(req[r].token)] \in FamilyRow
    BY <1>10, RefreshedRows
  <2>2. req[r] \in RefreshTx
    BY <1>4, <1>10
  <2>3. req[r].left \in Nat /\ family[FamilyOf(req[r].token)].left \in Nat
    BY <2>1, <2>2, SessionsAssumption DEF RefreshTx, FamilyRow
  <2> QED
    BY <1>10, <2>1, <2>3 DEF IInv, TokenWithinFamily, RequestWithinIdle
<1>11. TokenWithinFamily' /\ RequestWithinIdle'
  <2>1. ASSUME NEW t \in Tokens, TokenExists(t)'
        PROVE  (/\ FamilyExists(FamilyOf(t))
                /\ token[t].left <= family[FamilyOf(t)].left
                /\ token[t].left <= IdleTicks)'
    <3>1. TokenExists(t) /\ FamilyOf(t)' = FamilyOf(t)
      BY <1>7, <2>1
    <3>2. /\ token'[t].left = Less(token[t].left)
          /\ family'[FamilyOf(t)].left = Less(family[FamilyOf(t)].left)
          /\ FamilyExists(FamilyOf(t))'
      BY <1>2, <1>3, <1>9, <3>1
    <3> QED
      BY <1>9, <3>1, <3>2, Lessened, SessionsAssumption
  <2>2. ASSUME NEW r \in Requests, HoldsFamily(r)'
        PROVE  (/\ req[r].left <= family[FamilyOf(req[r].token)].left
                /\ req[r].left <= IdleTicks)'
    <3>1. HoldsFamily(r)
      BY <1>7, <2>2
    <3>2. FamilyOf(req[r].token)' = FamilyOf(req[r].token)
      BY <1>4, <1>10, <1>3, <3>1 DEF FamilyOf
    <3>3. /\ req'[r].left = Less(req[r].left)
          /\ family'[FamilyOf(req[r].token)].left = Less(family[FamilyOf(req[r].token)].left)
      BY <1>2, <1>4, <1>10, <3>1
    <3> QED
      BY <1>10, <3>1, <3>2, <3>3, Lessened, SessionsAssumption
  <2> QED
    BY <2>1, <2>2 DEF TokenWithinFamily, RequestWithinIdle
<1>12. LockHolds'
  <2>1. \A r \in Requests : HoldsFamily(r)' =>
          /\ HoldsFamily(r) /\ req'[r].op = req[r].op /\ req'[r].active = req[r].active
          /\ req'[r].token = req[r].token /\ FamilyOf(req[r].token)' = FamilyOf(req[r].token)
          /\ TokenExists(req[r].token)'
    BY <1>3, <1>4, <1>7, <1>10 DEF FamilyOf
  <2>2. \A r, q \in Requests :
          HoldsFamily(r)' /\ HoldsFamily(q)' /\ r # q
            => (FamilyOf(req[r].token) # FamilyOf(req[q].token))'
    BY <2>1 DEF IInv, LockHolds
  <2>3. \A r \in Requests, a \in Admins :
          HoldsFamily(r)' /\ Changing(a)' => FamilyOf(req[r].token)' \notin admin'[a].held
    BY <1>1, <2>1 DEF IInv, LockHolds, Changing
  <2>4. \A r \in Requests : HoldsFamily(r)' => TokenExists(req[r].token)'
    BY <2>1
  <2>5. ASSUME NEW r \in Requests, req'[r].op = "rotate"
        PROVE  (/\ ~token[req[r].token].revoked
                /\ Unrevoked(FamilyOf(req[r].token))
                /\ active[UserOf(FamilyOf(req[r].token))]
                /\ req[r].active)'
    <3>1. HoldsFamily(r)'
      BY <2>5 DEF HoldsFamily
    <3>2. /\ HoldsFamily(r) /\ req[r].op = "rotate" /\ req'[r].token = req[r].token
          /\ FamilyOf(req[r].token)' = FamilyOf(req[r].token) /\ req'[r].active = req[r].active
      BY <2>1, <2>5, <3>1
    <3>3. /\ ~token[req[r].token].revoked /\ Unrevoked(FamilyOf(req[r].token))
          /\ active[UserOf(FamilyOf(req[r].token))] /\ req[r].active
      BY <3>2 DEF IInv, LockHolds
    <3>4. /\ ~token'[req[r].token].revoked /\ Unrevoked(FamilyOf(req[r].token))'
          /\ UserOf(FamilyOf(req[r].token))' = UserOf(FamilyOf(req[r].token))
      <4>1. PICK t \in Tokens : t = req[r].token /\ TokenExists(t)
        BY <1>10, <3>2
      <4>2. PICK f \in Families : f = FamilyOf(t) /\ FamilyExists(f) /\ Unrevoked(f)
        BY <1>10, <3>2, <3>3, <4>1
      <4>3. Unrevoked(f)' /\ UserOf(f)' = UserOf(f) /\ token'[t].revoked = token[t].revoked
        BY <1>7, <4>1, <4>2
      <4>4. req'[r].token = t /\ FamilyOf(t)' = f
        BY <1>7, <3>2, <4>1, <4>2
      <4> QED
        BY <3>2, <3>3, <4>1, <4>2, <4>3, <4>4 DEF UserOf, Unrevoked, FamilyExists
    <3> QED
      BY <1>1, <3>2, <3>3, <3>4 DEF UserOf, Unrevoked, FamilyExists
  <2> QED
    BY <2>2, <2>3, <2>4, <2>5 DEF LockHolds
<1>13. UsesCounted' /\ ReplayEndsSession'
  <2>1. \A t \in Tokens : token'[t] = NoRow => token[t] = NoRow
    BY <1>3, <1>5, <1>7 DEF TokenExists, NoRow
  <2> QED
    BY <1>1, <1>7, <1>9, <2>1 DEF IInv, UsesCounted, ReplayEndsSession
<1>14. ChangeEndsSessions'
  BY <1>7 DEF IInv, ChangeEndsSessions
<1>15. UserLockHolds' /\ ChangeSees'
  BY <1>1, <1>7 DEF IInv, UserLockHolds, ChangeSees, Changing, Unrevoked
<1> QED
  BY <1>6, <1>8, <1>11, <1>12, <1>13, <1>14, <1>15 DEF IInv

-----------------------------------------------------------------------------
(* Every step. *)

LEMMA StepPreserves == IInv /\ [Next]_vars => IInv'
<1> SUFFICES ASSUME IInv, [Next]_vars PROVE IInv'
  OBVIOUS
<1>1. ASSUME NEW r \in Requests, NEW u \in Users, CheckPassword(r, u) PROVE IInv'
  BY <1>1, CheckPasswordPreserves
<1>2. ASSUME NEW r \in Requests, NEW t \in Tokens, LockFamily(r, t) \/ LockForLogout(r, t)
      PROVE  IInv'
  BY <1>2, LockFamilyPreserves, LockForLogoutPreserves
<1>3. ASSUME NEW r \in Requests, OpenFamily(r) \/ Rotate(r) \/ RevokeReplayed(r) PROVE IInv'
  BY <1>3, OpenFamilyPreserves, RotatePreserves, RevokeReplayedPreserves
<1>4. ASSUME NEW r \in Requests, RevokeLoggedOut(r) \/ AbortRequest(r) PROVE IInv'
  BY <1>4, RevokeLoggedOutPreserves, AbortRequestPreserves
<1>5. ASSUME NEW a \in Admins, NEW u \in Users, LockUser(a, u) PROVE IInv'
  BY <1>5, LockUserPreserves
<1>6. ASSUME NEW a \in Admins, NEW f \in Families, TakeFamily(a, f) PROVE IInv'
  BY <1>6, TakeFamilyPreserves
<1>7. ASSUME NEW a \in Admins, FindFamilies(a) \/ CommitChange(a) \/ AbortChange(a) PROVE IInv'
  BY <1>7, FindFamiliesPreserves, CommitChangePreserves, AbortChangePreserves
<1>8. ASSUME NEW u \in Users, Seed(u) PROVE IInv'
  BY <1>8, SeedPreserves
<1>9. ASSUME NEW f \in Families, CleanupFamily(f) PROVE IInv'
  BY <1>9, CleanupFamilyPreserves
<1>10. CASE UNCHANGED vars
  BY <1>10 DEF vars, IInv, TypeOK, OneLiveToken, LiveTokens, TokensOf, TokenExists, FamilyExists,
               FamilyOf, UserOf, Unrevoked, HoldsFamily, Changing, TokenWithinFamily,
               RequestWithinIdle, LockHolds, UsesCounted, ReplayEndsSession, ChangeEndsSessions,
               UserLockHolds, ChangeSees
<1> QED
  BY <1>1, <1>2, <1>3, <1>4, <1>5, <1>6, <1>7, <1>8, <1>9, <1>10, TickPreserves DEF Next

LEMMA Inductive == Spec => []IInv
BY InitEstablishes, StepPreserves, PTL DEF Spec

(* Rows, transactions and counters keep their shape: no expiry is negative or
   beyond the absolute lifetime, a request is a login, a rotation, a replay or a logout. *)
THEOREM TypeCorrect == Spec => []TypeOK
<1>1. IInv => TypeOK
  BY DEF IInv
<1> QED
  BY <1>1, Inductive, PTL

(* However many refreshes, replays, logouts and user changes race for a
   session, it is carried by exactly one unrevoked token while it is unrevoked,
   and by none afterwards. *)
THEOREM SessionHasOneToken == Spec => []OneLiveToken
<1>1. IInv => OneLiveToken
  BY DEF IInv
<1> QED
  BY <1>1, Inductive, PTL

(* No refresh, in flight or committed, carries a token past the absolute
   lifetime of its session or past the idle window. *)
THEOREM TokensExpireInTime == Spec => []TokenWithinFamily
<1>1. IInv => TokenWithinFamily
  BY DEF IInv
<1> QED
  BY <1>1, Inductive, PTL

(* A token that was accepted by a second refresh belongs to a revoked
   session. *)
THEOREM ReplayIsFatal == Spec => []ReplayEndsSession
<1>1. IInv => ReplayEndsSession
  BY DEF IInv
<1> QED
  BY <1>1, Inductive, PTL

(* No session opened before a request deleted its user or gave it another role
   is still unrevoked after it.  A role changed by the seed command is not
   among them: RoleChangeRevokes is violated. *)
THEOREM SessionsEndWithTheirUser == Spec => []ChangeEndsSessions
<1>1. IInv => ChangeEndsSessions
  BY DEF IInv
<1> QED
  BY <1>1, Inductive, PTL

-----------------------------------------------------------------------------
(* What a step may never do to a session. *)

LEMMA RowsLeftAlone ==
  ASSUME TypeOK
  PROVE  /\ \A f \in Families : family'[f] = family[f] => FamilyStaysRevoked(f)
         /\ \A t \in Tokens : token'[t] = token[t] => TokenStaysRevoked(t)
<1>1. /\ \A f \in Families : FamilyExists(f) => family[f].left \in Nat
      /\ \A t \in Tokens : TokenExists(t) => token[t].left \in Nat
  BY FamilyRows, TokenRows, SessionsAssumption DEF FamilyRow, TokenRow
<1> QED
  BY <1>1 DEF FamilyStaysRevoked, TokenStaysRevoked

(* An update of existing tokens revokes them and nothing else. *)
LEMMA RevokedTokensStay ==
  ASSUME TypeOK, NEW T \in SUBSET Tokens, \A t \in T : TokenExists(t),
         token' = RevokeTokens(T)
  PROVE  \A t \in Tokens : TokenStaysRevoked(t) /\ ExtendsLiveSession(t)
<1> SUFFICES ASSUME NEW t \in Tokens PROVE TokenStaysRevoked(t) /\ ExtendsLiveSession(t)
  OBVIOUS
<1>1. CASE t \in T
  <2>1. token[t] \in TokenRow /\ TokenExists(t) /\ token[t] # NoRow /\ token[t] # Deleted
    BY <1>1, TokenRows
  <2>2. token'[t] = [token[t] EXCEPT !.revoked = TRUE]
    BY <1>1 DEF RevokeTokens
  <2>3. token'[t].revoked /\ token'[t].left = token[t].left /\ token[t].left \in Nat
    BY <2>1, <2>2, SessionsAssumption DEF TokenRow
  <2> QED
    BY <2>1, <2>3 DEF TokenStaysRevoked, ExtendsLiveSession
<1>2. CASE t \notin T
  <2>1. token'[t] = token[t]
    BY <1>2 DEF RevokeTokens
  <2> QED
    BY <2>1, RowsLeftAlone DEF ExtendsLiveSession
<1> QED
  BY <1>1, <1>2

LEMMA OpenFamilyStays ==
  ASSUME IInv, NEW r \in Requests, OpenFamily(r)
  PROVE  /\ \A f \in Families : FamilyStaysRevoked(f)
         /\ \A t \in Tokens : TokenStaysRevoked(t) /\ ExtendsLiveSession(t)
<1>1. PICK f \in Families, t \in Tokens :
        /\ family[f] = NoRow /\ token[t] = NoRow
        /\ family' = [family EXCEPT ![f] = NewFamily(req[r].user)]
        /\ token' = [token EXCEPT ![t] = NewToken(f, IdleExpiry(AbsoluteTicks))]
  BY DEF OpenFamily
<1>2. /\ ~FamilyExists(f) /\ family[f] # Deleted /\ ~TokenExists(t) /\ token[t] # Deleted
      /\ token'[t].family = f
      /\ \A g \in Families : g # f => family'[g] = family[g]
      /\ \A s \in Tokens : s # t => token'[s] = token[s]
  BY <1>1 DEF IInv, TypeOK, FamilyExists, TokenExists, NoRow, Deleted, NewToken
<1>3. FamilyStaysRevoked(f) /\ TokenStaysRevoked(t) /\ ExtendsLiveSession(t)
  BY <1>2 DEF FamilyStaysRevoked, TokenStaysRevoked, ExtendsLiveSession
<1>4. \A s \in Tokens : s # t => ExtendsLiveSession(s)
  BY <1>2 DEF ExtendsLiveSession
<1> QED
  BY <1>2, <1>3, <1>4, RowsLeftAlone DEF IInv

LEMMA RotateStays ==
  ASSUME IInv, NEW r \in Requests, Rotate(r)
  PROVE  /\ \A f \in Families : FamilyStaysRevoked(f)
         /\ \A t \in Tokens : TokenStaysRevoked(t) /\ ExtendsLiveSession(t)
<1>1. PICK t : t = req[r].token
  OBVIOUS
<1>2. PICK f : f = FamilyOf(t)
  OBVIOUS
<1>3. HoldsFamily(r) /\ req[r].op = "rotate" /\ UNCHANGED family
  BY DEF Rotate, HoldsFamily
<1>4. t \in Tokens /\ TokenExists(t) /\ token[t] \in TokenRow /\ f \in Families
  BY <1>1, <1>2, <1>3, RefreshedRows
<1>5. ~token[t].revoked /\ Unrevoked(f) /\ active[UserOf(f)] /\ ~UserLocked(UserOf(f))
  BY <1>1, <1>2, <1>3 DEF IInv, LockHolds, Rotate, MayInsert, Inserts
<1>6. PICK n \in Tokens :
        /\ token[n] = NoRow
        /\ token' = [Consume(t) EXCEPT ![n] = NewToken(f, req[r].left)]
  BY <1>1, <1>2 DEF Rotate
<1>7. n # t /\ ~TokenExists(n) /\ token[n] # Deleted
  BY <1>4, <1>6 DEF TokenExists, NoRow, Deleted
<1>8. /\ token'[n].family = f
      /\ \A s \in Tokens : s # t /\ s # n => token'[s] = token[s]
  BY <1>6, <1>7 DEF Consume, RevokeTokens, NewToken
<1>9. \A g \in Families : FamilyStaysRevoked(g)
  BY <1>3, RowsLeftAlone DEF IInv
<1>10. TokenStaysRevoked(n) /\ ExtendsLiveSession(n)
  BY <1>5, <1>7, <1>8 DEF TokenStaysRevoked, ExtendsLiveSession
<1>11. TokenStaysRevoked(t) /\ ExtendsLiveSession(t)
  BY <1>4, <1>5, TokenRows DEF IInv, TokenStaysRevoked, ExtendsLiveSession
<1>12. \A s \in Tokens : s # t /\ s # n => TokenStaysRevoked(s) /\ ExtendsLiveSession(s)
  BY <1>8, RowsLeftAlone DEF IInv, ExtendsLiveSession
<1> QED
  BY <1>9, <1>10, <1>11, <1>12

(* A replay and a logout. *)
LEMMA RevokedFamilyStays ==
  ASSUME IInv, NEW f \in Families, FamilyExists(f),
         family' = RevokeFamily(f), token' = RevokeTokens(TokensOf(f))
  PROVE  /\ \A g \in Families : FamilyStaysRevoked(g)
         /\ \A t \in Tokens : TokenStaysRevoked(t) /\ ExtendsLiveSession(t)
<1>1. family[f] \in FamilyRow /\ family[f] # Deleted
  BY FamilyRows DEF IInv
<1>2. /\ family'[f] = [family[f] EXCEPT !.revoked = TRUE]
      /\ \A g \in Families : g # f => family'[g] = family[g]
  BY DEF RevokeFamily, IInv, TypeOK
<1>3. family'[f].revoked /\ family'[f].left = family[f].left /\ family[f].left \in Nat
  BY <1>1, <1>2, SessionsAssumption DEF FamilyRow
<1>4. FamilyStaysRevoked(f)
  BY <1>1, <1>3 DEF FamilyStaysRevoked
<1>5. \A t \in Tokens : TokenStaysRevoked(t) /\ ExtendsLiveSession(t)
  BY RevokedTokensStay DEF IInv, TokensOf
<1> QED
  BY <1>2, <1>4, <1>5, RowsLeftAlone DEF IInv

LEMMA CommitChangeStays ==
  ASSUME IInv, NEW a \in Admins, CommitChange(a)
  PROVE  /\ \A g \in Families : FamilyStaysRevoked(g)
         /\ \A t \in Tokens : TokenStaysRevoked(t) /\ ExtendsLiveSession(t)
<1>1. \A t \in Tokens : TokenStaysRevoked(t) /\ ExtendsLiveSession(t)
  BY RevokedTokensStay DEF IInv, CommitChange, TokensOfUser
<1>2. ASSUME NEW g \in Families PROVE FamilyStaysRevoked(g)
  <2>1. family'[g] = AfterChange(g, a)
    BY DEF CommitChange
  <2>2. CASE FamilyExists(g) /\ UserOf(g) = admin[a].user
    <3>1. family[g] \in FamilyRow /\ family[g] # Deleted
      BY <2>2, FamilyRows DEF IInv
    <3>2. family'[g] = [family[g] EXCEPT !.revoked = @ \/ g \in admin[a].held, !.outlived = TRUE]
      BY <2>1, <2>2 DEF AfterChange
    <3>3. /\ family[g].revoked => family'[g].revoked
          /\ family'[g].left = family[g].left /\ family[g].left \in Nat
      BY <3>1, <3>2, SessionsAssumption DEF FamilyRow
    <3> QED
      BY <3>1, <3>3 DEF FamilyStaysRevoked
  <2>3. CASE ~(FamilyExists(g) /\ UserOf(g) = admin[a].user)
    BY <2>1, <2>3, RowsLeftAlone DEF AfterChange, IInv
  <2> QED
    BY <2>2, <2>3
<1> QED
  BY <1>1, <1>2

LEMMA CleanupFamilyStays ==
  ASSUME IInv, NEW f \in Families, CleanupFamily(f)
  PROVE  /\ \A g \in Families : FamilyStaysRevoked(g)
         /\ \A t \in Tokens : TokenStaysRevoked(t) /\ ExtendsLiveSession(t)
<1>1. /\ family'[f] = Deleted
      /\ \A g \in Families : g # f => family'[g] = family[g]
      /\ \A t \in Tokens : IF t \in TokensOf(f) THEN token'[t] = Deleted
                           ELSE token'[t] = token[t]
  BY DEF CleanupFamily, IInv, TypeOK
<1>2. FamilyStaysRevoked(f)
  BY <1>1 DEF FamilyStaysRevoked
<1>3. \A t \in Tokens : t \in TokensOf(f) => token[t] # NoRow
  BY TokenRows DEF IInv, TokensOf
<1>4. \A t \in Tokens : TokenStaysRevoked(t)
  BY <1>1, RowsLeftAlone DEF IInv, TokenStaysRevoked
<1>5. \A t \in Tokens : ExtendsLiveSession(t)
  BY <1>1, <1>3 DEF ExtendsLiveSession
<1> QED
  BY <1>1, <1>2, <1>4, <1>5, RowsLeftAlone DEF IInv

LEMMA TickStays ==
  ASSUME IInv, Tick
  PROVE  /\ \A g \in Families : FamilyStaysRevoked(g)
         /\ \A t \in Tokens : TokenStaysRevoked(t) /\ ExtendsLiveSession(t)
<1>1. ASSUME NEW f \in Families PROVE FamilyStaysRevoked(f)
  <2>1. CASE FamilyExists(f)
    <3>1. family[f] \in FamilyRow /\ family[f] # Deleted
      BY <2>1, FamilyRows DEF IInv
    <3>2. family'[f] = [family[f] EXCEPT !.left = Less(family[f].left)]
      BY <2>1 DEF Tick
    <3>3. family'[f].revoked = family[f].revoked /\ family'[f].left = Less(family[f].left)
      BY <3>1, <3>2 DEF FamilyRow
    <3>4. family[f].left \in Nat
      BY <3>1, SessionsAssumption DEF FamilyRow
    <3> QED
      BY <3>1, <3>3, <3>4, Lessened DEF FamilyStaysRevoked
  <2>2. CASE ~FamilyExists(f)
    BY <2>2, RowsLeftAlone DEF IInv, Tick
  <2> QED
    BY <2>1, <2>2
<1>2. ASSUME NEW t \in Tokens PROVE TokenStaysRevoked(t) /\ ExtendsLiveSession(t)
  <2>1. CASE TokenExists(t)
    <3>1. token[t] \in TokenRow /\ token[t] # Deleted /\ token[t] # NoRow
      BY <2>1, TokenRows DEF IInv
    <3>2. token'[t] = [token[t] EXCEPT !.left = Less(token[t].left)]
      BY <2>1 DEF Tick
    <3>3. token'[t].revoked = token[t].revoked /\ token'[t].left = Less(token[t].left)
      BY <3>1, <3>2 DEF TokenRow
    <3>4. token[t].left \in Nat
      BY <3>1, SessionsAssumption DEF TokenRow
    <3> QED
      BY <3>1, <3>3, <3>4, Lessened DEF TokenStaysRevoked, ExtendsLiveSession
  <2>2. CASE ~TokenExists(t)
    BY <2>2, RowsLeftAlone DEF IInv, Tick, ExtendsLiveSession
  <2> QED
    BY <2>1, <2>2
<1> QED
  BY <1>1, <1>2

LEMMA SeedStays ==
  ASSUME IInv, NEW u \in Users, Seed(u)
  PROVE  /\ \A f \in Families : FamilyStaysRevoked(f)
         /\ \A t \in Tokens : TokenStaysRevoked(t) /\ ExtendsLiveSession(t)
<1>1. ASSUME NEW f \in Families PROVE FamilyStaysRevoked(f)
  <2>1. FamilyExists(f) => family[f].left \in Nat
    BY FamilyRows, SessionsAssumption DEF IInv, FamilyRow
  <2> QED
    BY <2>1, SeedMarks DEF FamilyStaysRevoked
<1>2. UNCHANGED token
  BY DEF Seed
<1> QED
  BY <1>1, <1>2, RowsLeftAlone DEF IInv, ExtendsLiveSession

LEMMA StepStays ==
  IInv /\ [Next]_vars => /\ \A f \in Families : FamilyStaysRevoked(f)
                         /\ \A t \in Tokens : TokenStaysRevoked(t) /\ ExtendsLiveSession(t)
<1> SUFFICES ASSUME IInv, [Next]_vars
             PROVE  /\ \A f \in Families : FamilyStaysRevoked(f)
                    /\ \A t \in Tokens : TokenStaysRevoked(t) /\ ExtendsLiveSession(t)
  OBVIOUS
<1>1. CASE UNCHANGED <<family, token>>
  BY <1>1, RowsLeftAlone DEF IInv, ExtendsLiveSession
<1>2. ASSUME NEW r \in Requests, OpenFamily(r) \/ Rotate(r)
      PROVE  /\ \A f \in Families : FamilyStaysRevoked(f)
             /\ \A t \in Tokens : TokenStaysRevoked(t) /\ ExtendsLiveSession(t)
  BY <1>2, OpenFamilyStays, RotateStays
<1>3. ASSUME NEW r \in Requests, RevokeReplayed(r) \/ RevokeLoggedOut(r)
      PROVE  /\ \A f \in Families : FamilyStaysRevoked(f)
             /\ \A t \in Tokens : TokenStaysRevoked(t) /\ ExtendsLiveSession(t)
  <2>1. PICK f : f = FamilyOf(req[r].token)
    OBVIOUS
  <2>2. HoldsFamily(r) /\ family' = RevokeFamily(f) /\ token' = RevokeTokens(TokensOf(f))
    BY <1>3, <2>1 DEF RevokeReplayed, RevokeLoggedOut, HoldsFamily
  <2> QED
    BY <2>1, <2>2, RefreshedRows, RevokedFamilyStays
<1>4. ASSUME NEW a \in Admins, FindFamilies(a) \/ CommitChange(a) \/ AbortChange(a)
      PROVE  /\ \A f \in Families : FamilyStaysRevoked(f)
             /\ \A t \in Tokens : TokenStaysRevoked(t) /\ ExtendsLiveSession(t)
  <2>1. CASE CommitChange(a)
    BY <2>1, CommitChangeStays
  <2>2. CASE FindFamilies(a) \/ AbortChange(a)
    BY <1>1, <2>2 DEF FindFamilies, AbortChange
  <2> QED
    BY <1>4, <2>1, <2>2
<1>5. ASSUME NEW r \in Requests, NEW u \in Users, CheckPassword(r, u)
      PROVE  UNCHANGED <<family, token>>
  BY <1>5 DEF CheckPassword
<1>6. /\ \A r \in Requests, t \in Tokens :
           LockFamily(r, t) \/ LockForLogout(r, t) => UNCHANGED <<family, token>>
      /\ \A r \in Requests : AbortRequest(r) => UNCHANGED <<family, token>>
  BY DEF LockFamily, LockForLogout, AbortRequest
<1>7. ASSUME NEW a \in Admins, NEW u \in Users, LockUser(a, u)
      PROVE  UNCHANGED <<family, token>>
  BY <1>7 DEF LockUser
<1>8. ASSUME NEW a \in Admins, NEW f \in Families, TakeFamily(a, f)
      PROVE  UNCHANGED <<family, token>>
  BY <1>8 DEF TakeFamily
<1>9. ASSUME NEW u \in Users, Seed(u)
      PROVE  /\ \A f \in Families : FamilyStaysRevoked(f)
             /\ \A t \in Tokens : TokenStaysRevoked(t) /\ ExtendsLiveSession(t)
  BY <1>9, SeedStays
<1>10. CASE UNCHANGED vars
  BY <1>1, <1>10 DEF vars
<1> QED
  BY <1>1, <1>2, <1>3, <1>4, <1>5, <1>6, <1>7, <1>8, <1>9, <1>10,
     TickStays, CleanupFamilyStays DEF Next

(* No step brings a revoked session or token back, reuses the row of a
   deleted one, or moves the expiry of a session. *)
THEOREM SessionsStayRevoked == Spec => NothingRevives
<1>1. IInv /\ [Next]_vars => [/\ \A f \in Families : FamilyStaysRevoked(f)
                              /\ \A t \in Tokens : TokenStaysRevoked(t)]_vars
  BY StepStays
<1> QED
  BY <1>1, Inductive, PTL DEF Spec, NothingRevives

(* The token that continues a session is inserted while the session is
   unrevoked and its user active and not being changed, although Refresh
   looked at the user before it held a lock on it. *)
THEOREM OnlyLiveSessionsRotate == Spec => RotatesLiveSession
<1>1. IInv /\ [Next]_vars => [\A n \in Tokens : ExtendsLiveSession(n)]_vars
  BY StepStays
<1> QED
  BY <1>1, Inductive, PTL DEF Spec, RotatesLiveSession
=============================================================================
