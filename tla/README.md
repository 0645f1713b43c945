# A TLA+ model of golang-backend

This directory holds TLA+ modules for the parts of the backend whose
correctness depends on the order of events: the email outbox, refresh sessions,
role-based access control, notification numbering and streaming, the response
cache, uploads with their cleanup, the rate limiter, the refresh cookie, and the
API process with its request pipeline and shutdown; and, without state, the
configuration these start from. TLC checks each of them on a small instance.
TLAPS proves for every value of the constants the safety of the outbox, the
refresh sessions, roles and permissions, notifications, the cache, the uploads,
the rate limiter and the API process.

    tlc -workers 2 -config EmailOutbox.cfg MCEmailOutbox
    tlapm EmailOutboxProofs.tla

`PROJECT.json` lists components, runs, mutants, hazards, findings and theorems,
and maps every definition to the lines it models.

## 1. Inventory

The program is one Go API (`cmd/api`) with any number of replicas in front of
one database (PostgreSQL or MySQL), optionally Redis, an SMTP server and a local
or S3 object store, plus commands run by hand or by schedule (`cleanup`,
`cleanup-uploads`, `seed`, `migrate`). Replicas share nothing but the database,
Redis and the object store, so every ordering guarantee comes from row locks,
conditional updates, unique keys and leases.

| Component | Code | State | Operations | Interacts with |
|---|---|---|---|---|
| Email outbox | `internal/jobs/worker.go`, `internal/notification/service.go`, `internal/db/queries/jobs.sql` | `email_jobs`, `notifications.email_status`; a delivery in each worker goroutine | enqueue, claim, recover, exhaust, send, renew, finish, purge | notifications (same transaction), SMTP, database and host clocks |
| Refresh sessions | `internal/auth/service.go` | `refresh_families`, `auth_refresh_tokens` | login, refresh, replay, logout, expiry, retention | user deletion and change of role (`RevokeUserSessions`), seed |
| Roles, permissions, users | `internal/role`, `internal/user`, `cmd/seed` | `users`, `roles`, `permissions`, `role_permissions` | create, update, delete, assign, register, seed | auth loads the actor; every mutation writes an audit row that locks the actor |
| Notifications | `internal/notification/service.go`, `internal/httpapi/notifications.go` | `notification_counters`, `notifications`; an SSE handler per connection | create, mark read, list pages, stream | outbox; accounts being deactivated |
| Response cache | `internal/cache/cache.go`, `internal/httpapi/registration.go` | Redis: `cache:version` and entries with a TTL | key, get, put, invalidate | every GET and every mutation |
| Uploads | `internal/upload/service.go`, `internal/storage/storage.go`, `cmd/cleanup-uploads` | objects; `stored_files` | put, insert, compensate, list, check, delete | cleanup runs race uploads and one another |
| Rate limiter | `internal/ratelimit/limiter.go`, `enforce` in `internal/httpapi/registration.go` | counters in the memory of each instance, or in Redis | allow, prune, expire | every request but the probes, before the actor is loaded |
| Audit writer | `internal/audit/audit.go` | `audit_logs` | write in the caller's transaction, after it, or never | locks the caller's row by a foreign key |
| HTTP layer | `internal/httpapi` | the registry with its policies | resolve, middleware, enforce, register | all services |
| Refresh cookie | `internal/httpapi/refresh_cookie.go`, `auth.go` | a cookie in each browser | set, read, clear | refresh sessions |
| API server process | `cmd/api/main.go`, `internal/db/connection.go`, `db.go` | open dependencies, the connection pool | start, serve, drain, close | everything above |
| Configuration | `internal/config` | none: read once | load, check | start-up; the policies of endpoints; limits, lifetimes |
| Migrations, faults, telemetry, generators | `internal/db/migrations`, `internal/fault`, `internal/telemetry`, `cmd/initproject` | none of their own | | |

### What is hard, and what must hold

* **Outbox.** A lease may run out while SMTP is answering; processes die between
  claim and finish; host clocks differ from the database's; the outcome is
  written twice (job row and notification). It must hold that an attempt belongs
  to one worker, that only the latest attempt settles a job, that SENT is never
  shown for a message SMTP did not take, and that every job is settled.
* **Sessions.** The token is looked up without a lock, a family is locked before
  a user in a refresh and after it in a user change, and a login checks the
  password before its transaction. It must hold that a session has exactly one
  live token, that a token used twice ends the session, that nothing revives one,
  and that changes of the user, made by a request, end all older ones.
* **RBAC.** The caller's rights are read before the transaction; counts of holders are
  plain reads; a lock is taken on system permissions in the middle; the seed command
  changes roles and accounts without any of this. It must hold that every system
  permission keeps an active holder and that nobody hands out, or takes from others,
  what they do not have.
* **Notifications.** A stream never looks below its cursor, so numbers must become
  visible in order; events are flushed and lost; pages shift under inserts.
* **Cache.** Reads and stores straddle invalidations; Redis fails or forgets.
* **Uploads.** Object and row are stored by two systems; answers are lost; cleanup
  looks for references and deletes later.
* **Rate limiter.** A request finds its window by the clock of its instance and is
  counted later, perhaps when the window has expired; a full memory throws
  counters out; Redis fails after having counted. A client must not get more
  than a fixed-window limit means, on any number of instances, and the memory
  must stay bounded.
* **Process and pipeline.** Change and audit row share a transaction or follow one
  another, by a policy that operators can override; rejected requests must not
  reach the database; at SIGTERM requests may be left in the middle of their
  transactions, and the pool is closed under them.
* **Cookie.** The browser forgets by its own clock what the server still honours.

`PROJECT.json` has these hazards at their lines, with the properties that
would notice each going wrong.

## 2. Modules

    OutboxContract <--refines-- EmailOutbox <-- MCEmailOutbox, EmailOutboxProofs
    RefreshSessions    <-- MCRefreshSessions, RefreshSessionsProofs
    Rbac               <-- MCRbac, RbacProofs
    NotificationStream <-- MCNotificationStream, NotificationStreamProofs
    ResponseCache      <-- MCResponseCache, ResponseCacheProofs
    UploadStore        <-- MCUploadStore, UploadStoreProofs
    Configuration <-- RateLimiter   <-- MCRateLimiter, RateLimiterProofs
                  <-- ApiServer     <-- MCApiServer, ApiServerProofs
                  <-- RefreshCookie <-- MCRefreshCookie

A transaction is cut where another one can get in between: where it waits for a
row lock, and between a read outside it and its first lock. Everything between
two such points is one action. What a process does between transactions
(sending, reading rows, writing events) is an action of its own. A definition
commented "Mutant" is not part of the model: it is a plausible bug, put in place
of the definition after it to show that a property notices.

Every clock that is compared with an instant is kept as the ticks left until the
instant where possible (outbox, sessions); so time needs no horizon there.

### EmailOutbox, OutboxContract

`row` is `email_jobs`, `mail` is `notifications.email_status`, `worker` is the
goroutine of `Worker.Run` with the delivery it has in memory, `accepted` is a
history of the attempts SMTP took. `Claim`, `ClaimExhausted` are `claim`'s
transaction (worker.go); `SmtpAccepts`, `SendReturns` are `Mailer.Send`;
`Renew`, `RenewFails`, `StopRenew` the renewing goroutine; `Complete`,
`Superseded` the finishing transaction with its comparison of leases under
`LockEmail`; `Lose` a crash or a failed finish; `Purge` retention. The lease id is
fresh at each claim and named by the number of attempts. Claims compare with the
host clock, up to `Skew` ticks off, and renewals use the database clock.

`OutboxContract` promises for one notification: at most `MaxAttempts` tries, at
most one copy per try, and an outcome settled once, SENT after a copy was taken
and FAILED after all tries. A late copy may be taken after the outcome: delivery
is at least once, not exactly once.

### RefreshSessions

`family` and `token` are the two tables, `req` a login, refresh or logout in flight,
`admin` a deletion or change of role in flight, `active` is `users.deleted_at IS
NULL`; `uses`, `outlived` and `moved` are histories. `LockFamily` is `Refresh` up to
its decision, with the lock on the family; `Rotate`, `RevokeReplayed` the two ways
`Refresh` commits; `LockForLogout` and `RevokeLoggedOut` are `Logout`; `CheckPassword`
and `OpenFamily` are `Login`, cut at the transaction; `LockUser`, `FindFamilies`,
`TakeFamily`, `CommitChange` are the user change up to `RevokeUserSessions`, which
takes one family at a time. `ResolveDeadlock` is the database aborting one of two
transactions that wait for each other. Inserts of families, tokens and required audit
rows wait for the user row because of their foreign keys; `Audited` says for which of
replay and logout the audit row is required (the registry requires the first, and a
policy may add or remove either). `AbortRequest` takes back what its transaction did:
a replay whose required audit row cannot be written has revoked nothing, and the
consumed token is recognised again the next time.

`Seed` is the upsert of the seed command for an account that exists: it restores it,
or gives it another role, or both, and touches no session. `ChangeEndsSessions` is
therefore about changes that requests make, and `RoleChangeRevokes` says what the
seed command leaves.

### Rbac

`role`, `active`, `roles`, `perms`, `known` are the tables; `tx` the request of each
transaction with its phase: authorized, checked, guarded, counted. The phases are
those of the code: the actor is loaded (`Arrive`), the row is locked and compared with
what the actor has (`LockAndCheck`), the guard's rows are locked (`Guard`), holders
are counted, the change is made and holders are counted again (`Count`), and the audit
row locks the actor (`Commit`). `RepeatableRead` selects what plain SELECTs see: the
latest commit on PostgreSQL (db/connection.go:36-38), or on MySQL the snapshot of the
first plain read (47-57). The guard locks all its rows in one order, so it is one
lock. `LocksUser` and `LocksRole` are `LockUser` and `LockRole` (FOR UPDATE): whoever
inserts a row that refers to a locked one, or updates it, waits, be it a registration,
a new permission or the seed command. `Uncommitted` are the rows of `role_permissions`
that an assignment has written and not committed: deleting their permission waits for
them. Creating a permission takes two steps: `ListManagers` inserts it and lists the
roles that manage permissions, and `CreatePermission` grants it to them later, when
nobody holds their rows. Renames of roles and permissions change nothing modelled.

`scene` is the database a behaviour begins with, and who sends how many requests about
what; it never changes. `NoEscalation` and `SuperiorsUntouched` measure against it:
`Ceiling` is what the callers, or anybody who registers, held then, and `Deletable` what
one of them may delete for everybody.

The seed command is a sequence of statements that commit one by one, and may end after
any of them: `SeedAdminPermissions` fills the role admin, `SeedAdmin` upserts the
account of ADMIN_EMAIL (`Bootstrap`), `SeedOther` the one of USER_EMAIL (`UserEmail`,
any account, or a new one). `SeedUser` creates the account, restores it, or gives it
the role of its entry, and asks neither the rule nor the guard. `moved` is a history
of the active accounts that a seed run took to another role; `SystemPermissionsHeld`
and `SuperiorsUntouched` exempt what it did to them.

### NotificationStream

`counter`, `row` and `creating` are the recipient's numbering; a creating transaction
holds the counter's row until it ends. `stream` is the handler of the open connection
with its cursor and the rest of its batch, `wire` what is flushed and not received,
`client` what the client knows: the Last-Event-ID it returns with. `Close` loses
what is on the wire. `pager` follows `X-Next-Cursor`.

### ResponseCache

`db` is the number of committed mutations: the data, as far as freshness goes.
A GET goes through `Arrive`, `Key` (reads `cache:version`), `Hit` or `Miss`, `Read`,
`Put`; a mutation through `Commit` and `Invalidate`, or `InvalidateFails`. Redis may
fail each call, and `Crash` brings it back with an older version and some of the
entries; an entry that has been replaced is not brought back in its old form.
A request is cancelled after `Latency` (30 s, httpapi/server.go). One endpoint,
caller and URL: others share nothing but the version, and an increment for another
resource only makes misses.

### UploadStore

`object` and `age` are the storage, `row` is `stored_files`, `upload`, `elapsed` and
`told` the request and what its client learned, `cleaner` the runs of
`cleanup-uploads --apply`. An upload stores, inserts, and compensates if the insert
failed, or seems to have. A run lists in key order, takes at most a batch of old
unreferenced keys, looks again, and deletes. Ages are capped at `Grace + 1`.
`MaxRequest <= Grace` is assumed: a request takes at most 30 s and the shortest grace
is an hour; without it a cleanup could delete an object whose row is about to be
committed.

### Configuration

No state: what `config.Load` accepts and what it makes of it. An environment is a
function from keys to values that stand for the parsed texts (a number, a word,
the parts of a URL that are looked at; `Garbage` is what cannot be parsed).
`LoadEnvironment` gives variables of the process precedence over the file,
`Settings` is the record with its defaults, `Accepted` the conjunction of every check
of `Load` and `loadOperations`. `Definitions` is the registry of endpoints by what
the pipeline asks of them, `Resolvable` and `Policy` are `Resolve`. The three
modules below begin with an environment and follow only what is accepted, so an
error in a check is seen where it has consequences.

### RateLimiter

`counters` is the map of each instance or the keys in Redis (`Place`), `call` the
requests on their way, `skew` the clocks. `ReadClock` is the beginning of `Allow`,
which picks the window; `CountInMemory` and `CountInRedis` are the rest of it and
the decision of `enforce`; `StoreFails` is an error of Redis, before or after the
script ran. `Pruned` is `prune`, with every choice that the iteration over a map may
make. `Tick` passes time and lets Redis expire keys; a request is counted within
`Latency`. `served` counts for each client the requests let through before each tick,
`delayed` and `excused` are histories too. A client whose live counter
was thrown out, or that was served because Redis failed, is excused and followed
no further; failing closed means that this second excuse does not exist for the
authentication group. Counts above the limit are all alike and counted as one.

### ApiServer

`phase` and `open` are where `run` is and which `Close` calls are deferred; `request`,
`held` and `staged` are the requests, their pooled connections and what their
transactions have written; `changes` and `audits` are what is committed; `queried` is
a history. Start: `LoadConfig`, `SetupTelemetry`, `ConnectDatabase`, `ConnectRedis`,
`OpenStorage`, `Listen`, each of which may fail and close what is open. A request:
`Arrive`, `VerifyToken`, `Throttle`, `LoadActor`, then `Ready`, `Read` and
`ReadAudit`, or `Begin`, `Change`, `Commit` and `OptionalAudit`. A commit may succeed
and its answer be lost. Stop: `Terminate` or `ListenFails`, `Drain` or `DrainExpires`
(10 s), the closings in reverse order, `Exit`. pgx waits for connections to be given
back; database/sql does not. Any call may fail; that stands for the request's timeout
too. What a request changes is left to the other modules.

### RefreshCookie

One browser against one session, in days. `cookie` is what the browser keeps and
until when, `session` the latest family with the expiry of its latest token; answers
may be lost, so the browser may hold an older token than the server's latest.

## 3. What TLC checks

| Run | Instance | Shows |
|---|---|---|
| `outbox` (`EmailOutbox.cfg`) | 1 job, 2 workers, 3 attempts, lease 2, back-offs 1 and 2, skew 1 | `OneWorkerPerAttempt`, `OutcomeAgrees`, `LatestAttemptSettles`, `EveryJobSettles`; the contract (`ImplementsContract`) |
| `sessions` (`RefreshSessions.cfg`) | 1 user, 2 families, 3 tokens, 2 requests, 1 user change in flight; up to 3 logins and changes (seed runs included), at most 2 of either | One live token, replay ends the session, tokens stay within the family's life, changes end sessions, nothing revives one, only live sessions rotate; `RequestsEnd`, although locks are taken in opposite orders |
| `sessions_changed` (`RefreshSessions_changed.cfg`) | 2 users, 2 families, 1 request, 1 deletion and 1 seed run | *Violated*: `UserChangeRevokes`, that changes of the user leave no session |
| `rbac` (`Rbac.cfg`) | 2 transactions, 3 requests, READ COMMITTED; administrators x and y with different roles and equal permissions, manager y below administrators x and z, or manager y who may delete a permission of administrator x | `SystemPermissionsHeld`, `NoEscalation`, `SuperiorsUntouched`, `RequestsEnd` |
| `rbac_mysql` (`Rbac_mysql.cfg`) | x and y, 2 requests, REPEATABLE READ | *Violated*: `SystemPermissionsHeld` |
| `rbac_seed` (`Rbac_seed.cfg`) | x and y, 2 requests or seed runs, y has USER_EMAIL, READ COMMITTED | *Violated*: `EveryPermissionHeld` |
| `stream` (`NotificationStream.cfg`) | 2 creators, 4 notifications, batches and pages of 2, 2 broken connections | Nothing skipped, repeated or out of order; pages complete; unread ones arrive |
| `cache` (`ResponseCache.cfg`) | 2 GETs, 2 mutations, TTL 1, latency 1, clock to 3, 1 restart of Redis | `FreshAfterInvalidation`, `StaleWithinTTL` |
| `uploads` (`UploadStore.cfg`) | 2 uploads, 2 cleanup runs, batches of 1, grace 1 | Acknowledged files stay, referenced objects are protected, orphans go |
| `admission` (`RateLimiter.cfg`) | limits of 1 and 2 in windows of 2, memories of 2 counters, skew 1, latency 1, clock to 4, 2 calls; each store with 1 and 2 instances | `AdmittedWithinLimit`, `MemoryBounded` |
| `api` (`ApiServer.cfg`) | 2 requests on a pool of 1 connection; 36 deployments (usual ones, customized policies, production, and 14 that are refused) | `AuditAgrees`, `RejectedNeverQueries`, `RequestsOutlived`, `ProcessEnds` |
| `cookie` (`RefreshCookie.cfg`) | 2 tokens, 35 days, idle windows of 30 and 60 days | *Violated*: a browser keeps a live token |

### Why the bounds are enough

* **Outbox.** Two workers on one job is what a taken-over lease needs; a third
  would only add another loser of the same race, and jobs share nothing. Lease 2
  with skew 1 lets a host claim before the database would, and judge its own lease
  too long. Three attempts use both back-offs. The proofs need none of these
  bounds.
* **Sessions.** Three tokens are two rotations in one family, and so a replay of the
  grandparent of the live token, or one rotation next to another family. Two requests
  and one change give every pair of transactions that can wait for each other; the
  rows of different users never meet. Two changes are a deletion and the seed run that
  restores the account, and with one login between or after them they are the sessions
  opened before and after (`Small`). Rows are used in a fixed order (`InOrder`): which
  unused one an insert takes makes no difference. Idle 1 and absolute 2 make a
  family's end come before the idle window's (`TokenWithinFamily`). The safety proofs
  need no bound.
* **RBAC.** The guard is about two transactions that each leave a different last
  holder; a third request lets a deletion, an assignment, a seed run or a registration
  come in between. Escalation takes a caller, someone above, and an account and a role
  to move things to; three requests are a chain of a move, an assignment and a new
  role. In each scene USER_EMAIL names another account: one of the two administrators,
  the superior of the manager, or one that does not exist yet.
* **Stream.** A batch of 2 with four rows has a first, a full and a last batch; two
  creators commit in either order; two drops are one with and one without a
  received event. Pages of 2 over four rows have an exact last page and one with
  a rest.
* **Cache.** One GET straddles a mutation, the other one looks for what it stored.
  Two mutations are needed for an invalidation that covers another one's data.
  The clock runs past TTL + Latency. The proofs need no bound.
* **Uploads.** Two keys are the fewest for which a batch of one leaves something
  out; two runs delete what the other one has checked. The safety proofs need no
  bound but `MaxRequest <= Grace`.
* **Rate limiter.** Four ticks are two windows, so a span can straddle a boundary. The
  bounds are reached: where clocks agree and requests are counted at once, 2 * Max in
  a span and Max in an aligned window; where they do not, 5 * Max - 2. Then a span
  meets three windows of the clocks, and a counter of Redis may expire with requests
  of its window still to come, which start it anew: five counters, two of which were
  begun by a request before the span. With a limit of 1 that is 3 and hides the
  difference to three full counters, so one environment has a limit of 2. Skew and
  latency together are at most a window: `Timely` is a hypothesis of the property,
  because `Load` accepts windows of any width and a window shorter than that says
  little. Two clients fill a memory of 2 counters (pruned to 90 %, which is 1), so
  live ones are thrown out and expired ones kept apart. Two instances, each with a
  memory, are among the environments: `Load` refuses them, and if it did not, the
  limit would be broken.
* **Process.** With one connection two requests exhaust the pool and one can be
  waiting at shutdown. A request's endpoint is chosen among those of its
  deployment; each kind of audit, cache and rate policy occurs, as do both providers
  and each dependency's absence.
* **Cookie.** 35 days pass the age of the cookie.

`CHECK_DEADLOCK FALSE` is set where a behaviour may end: all jobs are settled and
purged, or the bounded inputs (requests, rows, mutations, the clock) are used up.
The waiting that matters is covered by the `RequestsEnd` properties instead.

### Fairness

* **Outbox** (`Fairness`): time passes, and each worker loop takes its next step:
  it polls, `Send` returns by its timeout, renewal stops, and the finish commits or
  finds itself superseded. Nothing obliges SMTP to accept, and crashes and lost
  claims may go on for ever: attempts are counted at the claim, so they end too.
* **Sessions, RBAC**: a transaction that can go on does; one that waits for a lock
  gets it if the lock is free again and again (lock queues); and one of two that
  wait for each other is aborted, which both databases do. Clients need not start
  anything.
* **Stream**: the handler's loop polls on its ticker, flushed events arrive while
  the connection stands, and the client reconnects. The number of drops is
  bounded, so connections stop breaking at last.
* **Uploads**: one cleanup run is scheduled again and again, and at last stops
  failing; requests end; time passes. The second condition is essential: a
  single object that can never be deleted ends every run at the same place.
* **Process**: start-up and shutdown go on, and each request comes to an end, since the
  context of a request ends after 30 s (a stream's after 14 min) and every call takes
  that context; the deferred rollback has its own of 5 s.
* The rate limiter, the cache and the cookie make no liveness claims.

## 4. What is proved

`EmailOutboxProofs` holds for any numbers of jobs, workers and attempts, any lease,
back-off and skew, from `OutboxAssumption` alone.

* The inductive invariant `IInv` (`Inductive`) is type correctness and the checked
  invariants together with two strengthenings. `LeaseNamesAttempt` says that the
  lease of a claimed row is that of its latest attempt; `DeliveryMatchesRow` that
  the attempt of a delivery in memory has been counted by its row and that SMTP's
  answer to it is recorded. Without the first, a worker whose lease was taken over
  could match it by chance; without the second, SENT could be written for a
  message nobody took. There is one lemma per action, with the fields that claims
  and settlements share in lemmas of their own (`ClaimIInv`, `SettleRowIInv`,
  `ForgetIInv`, `AdvanceIInv`).
* `TypeCorrect`, `Budget`, `Fencing` and `OutcomeIsTrue` are its parts;
  `OnlyLatestAttemptSettles` and `OutcomeIsFinal` are action properties proved under it.
* `Implementation`: `Spec => Contract!Spec`. Each action is one step of the contract
  or none: a claim is a try, an acceptance a delivery, a finish a settlement.

`RefreshSessionsProofs` holds for any numbers of users, sessions, tokens, requests
and user changes, and any lifetimes, from `SessionsAssumption` alone.

* `IInv` is the checked invariants with those of the locks. `LockHolds` says
  that a refresh in flight still knows what it read: no other refresh or user change
  holds its family, and a token it is going to rotate is still live, in a live
  session of an active user. Refreshes and logouts take it alike (`FamilyTaken`).
  `RequestWithinIdle` bounds the expiry that it computed. Without `LockHolds` two
  refreshes of one token could both rotate (`OneLiveToken`). `UsesCounted` links
  the history of uses to the row: a used token is revoked, which makes the
  second use a replay.
* `ChangeSees` is what `ChangeEndsSessions` needs: from the time a change begins to
  revoke until it commits, every unrevoked session of the user is one it waits for or
  has taken. It holds because inserting a family takes the user's row
  (`UserLockHolds`: one change per user), so a login commits before the list is
  made or after the change.
* `TypeCorrect`, `SessionHasOneToken`, `TokensExpireInTime`, `ReplayIsFatal` and
  `SessionsEndWithTheirUser` are parts of `IInv`; `SessionsStayRevoked` and
  `OnlyLiveSessionsRotate` are action properties proved under it, action by action.
  The seed command changes no field that any of them reads (`SeedMarks`), except that
  an account may become active again.

`UploadStoreProofs` holds for any uploads and cleanup runs, any batch and any grace
not shorter than a request, from `UploadAssumption`.

* The argument is about ages: while a request runs its object is no older than
  the request (`ObjectsAreYoung`), and the request no older than the grace; a run lists
  only what is older than that, so what it lists belongs to requests that have ended
  (`RunsSeeEnded`) and can gain no row any more. What was checked without a row
  is therefore still without one when it is deleted (`RunsDeleteOrphans`), however
  long that takes.
* `LeastKey` (a set of keys has a first one, by well-founded order) makes "the next object
  of the listing" well defined. `TypeCorrect`, `AcknowledgedStay` and `OnlyOrphansGo`
  are the results.

`RbacProofs` holds for any numbers of users, roles, permissions and transactions, and
any scenes, from `RbacAssumption` and the hypotheses named here.

* `TypeCorrect` includes the foreign keys. A deletion is refused by, or waits for,
  what refers to its row, and a transaction that has counted keeps its new role and
  its permissions in existence until it commits (`Sound`, in `TypeInv`).
* `NoPermissionOrphaned`: under READ COMMITTED (`~RepeatableRead`, since with it TLC
  finds the violation of section 5), every system permission keeps an active holder if
  it has one in the beginning (`NoOrphan`; the guard compares with what was unheld
  before, so an orphan would stay one), as long as no seed run moves an active account
  to another role (`moved`; section 5 says what happens if one does). `HoldersInv`
  says that no two transactions share a row lock or the guard (`Apart`), that a locked
  account is active, and that the count of a transaction which has the guard still
  stands (`Counted`), and the inductive invariant is that it holds while `moved` is
  empty (`UnmovedInv`). Each other action is shown not to disturb it: requests without
  the guard only add holders, or touch rows that carry none.
* `NobodyEscalates` and `NobodyReachesUp` hold at either isolation level, from a database
  that the seed command has filled (`Seeded`). Without that, the seed command would itself
  move an account up. Seed runs that follow take to the role admin only the account that
  began with it, and to the default role any: `NobodyReachesUp` is about the accounts they
  did not move. `EscalationInv` splits roles into those above the callers
  (`Superior`: with a permission that no caller held) and the others. A role of the first
  kind keeps what it had (`Kept`), one of the second never exceeds `Ceiling`
  and its own beginning (`Within`), accounts stay on their side (`Placed`), and a
  transaction past its check has only such a change in hand (`Bounded`): the stale
  role of its caller was below the ceiling when it was read, and still is.

`NotificationStreamProofs` holds for any creators, rows, batches, pages and drops, from
`StreamAssumption` alone.

* `Numbered`: at most one transaction has a number that is not committed, it is the
  highest, and all below are visible. That is what the lock on the counter is for; with it
  `TypeCorrect` follows, and no row can turn up below a cursor.
* `NeverSkips`: `StreamInv` adds that what was received, the wire and the batch follow
  one another (`Ordered`), and that every visible row that any of the cursors has passed
  was received, read, or is under way (`NoGap`). A broken connection loses wire and
  batch, but with them the cursors that have passed them. `ArrivesInOrder` follows.
* `PagesShowAll`: `PagerInv` says that the pages so far show exactly what the first
  page found from the cursor up. It needs only `Numbered` besides: new rows are above
  all pages.
* `Lowest` and `Highest` choose an ordered listing of a set. That one exists is shown
  by a least counterexample (`LeastNumber`, `ListingExtends`, `ListingExists`), for
  induction with an operator as parameter is out of reach; `LowestIs` and `HighestIs`
  say what they are: the set itself if it is short, else as many elements with nothing
  left out before the last.

`RateLimiterProofs` holds for any clients, environments, caps and clocks, from
`RateLimiterAssumption`.

* `MemoryStaysBounded`: a memory below the cap gains one counter, and a full one is
  first pruned below it (`PrunedHasRoom`), since nine tenths of the cap are less than
  the cap.
* `TypeCorrect` uses the checks of `Load`: an accepted environment has windows and
  limits of at least 1, so the division by the window is defined and a counter has at
  least one request. That a number in an environment is one (`Numeric`) is what `integer`
  gives.
* `AdmittedAlwaysWithinLimit` combines two arguments. `LimitsHold` is the one for
  agreeing clocks and requests counted in the tick they come (`WithinWindow`).
  `WindowInv` says that a window has let through at most Max, and while it lasts no
  more than its counter says (`Kept`), that a counter outlives its window (`InPhase`),
  and that the sums in `served` rise to the present and are flat from there (`Rising`,
  `Flat`). A span of a window's length lies in two windows (`SpanOfTwo`), hence twice
  the limit. One place for all counters is what `Load` enforces for more than one
  instance (`OnePlace`).
* The other one is for clocks that differ and requests that come late
  (`WithinFiveCounters`). The state does not say which window a request was counted
  in, so `CounterInv` says that the requests let through can be split by window
  (`Split`) with each part keeping to its counters (`Under`): while a counter lives
  the part grows no faster than its count (`Begun`), and what a window lets through in
  a span is at most Max, or 2 * Max - 1 if the window had begun, by some clock, before
  the span does (`InSpans`, `Excess`): then an earlier counter, begun by a request
  before the span, may have expired with requests still to come. A request is counted
  for a window its clock was in at most `Latency` ago (`OnTime`). A span of a window's
  length meets three windows, and the last cannot have begun two counters in it
  (`SpanOfThree`): 2 * Max - 1 twice and Max once.

`ResponseCacheProofs` holds for any number of readers, mutations and restarts, any
TTL and latency, from `CacheAssumption` alone.

* `Fresh`: `settled[v]` is what was committed when version v began, and never more
  than `db`. An entry under v has at least `settled[v]`, since it was read after its
  key was; a request's key begins no earlier than its floor. The invariant
  `FreshInv` says this while Redis has not lost anything.
* `Stale`: an entry that misses mutation n was read by a request that began before
  n was committed, stored within `Latency`, and gone `TTL` later. `StaleInv` says it for
  entries and for each phase of a request, whichever versions Redis forgets.
* `TypeCorrect` needs that versions do not outrun mutations (`VersionInv`) and that a
  lookup has a key (`KeyInv`).

`ApiServerProofs` holds for any deployments, overrides, requests and size of the pool,
from `ApiServerAssumption` alone.

* `DefinitionsSound` says that the registry requires audit rows only of endpoints
  with a transaction, `PolicySound` that every override `Resolve` accepts keeps that.
* `IInv` follows each request (`OfRequest`): a request being served names an endpoint
  of a resolved registry, what a transaction has staged is a change with its
  required row (or, for a logout, nothing), and nothing is committed before the
  commit. `OfProcess` says that a pool is closed only when its connections are back,
  or is one that does not wait, and that a process closing over a request has
  failed. Steps of a request leave the others alone (`RequestStep`), steps of
  the process all of them (`ProcessStep`); so there is one lemma per group of
  actions.
* `AuditAlwaysAgrees`, `RejectedCostNothing`, `FewOutlived` and `TypeCorrect` follow.
  `ProcessEnds` is a liveness property and stays with TLC.

`SentWasAccepted`, `LeaseNamesAttempt`, `DeliveryMatchesRow`, `AttemptBudget`,
`OutcomeFinal` and `LockHolds` are invariants or action properties that no run lists:
they are proved for all instances.

Only model-checked: all liveness properties, because fairness and ENABLED are beyond
the prover. `UserChangeRevokes` and `EveryPermissionHeld` are refuted.
`SystemPermissionsHeld` is proved under READ COMMITTED and refuted under REPEATABLE READ.

## 5. Where code and documents disagree

* `sessions_changed`: `docs/HARDENING-UPGRADE.md:9` says that deleting a user or
  changing their role revokes every family of that user. Neither half holds, and the
  run's behaviour refutes both. A login that checked the password before a deletion
  committed inserts its family after it; it stays unrevoked (refresh refuses it while
  the account is deleted, and a seed run that restores the account makes it usable).
  And the seed command, which sets the role of an account that exists
  (`internal/db/sqlc/seed.sql.go:40`), revokes no family: a session goes on with the
  new role.
* `rbac_seed`: `CHANGELOG.md:11` says that no change may leave a system permission without
  an active holder. The seed command gives the account of USER_EMAIL the role "user"
  without asking the guard. If, since the seed run filled it, the role admin was stripped
  of a permission, which the guard allows while that account holds it by another role,
  nobody holds it.
* `rbac_mysql`: under REPEATABLE READ the second of two assignments waits for the
  guard and then counts holders in the snapshot it took before: both commit, and a
  system permission has no holder left. The comment at role/privilege.go:81-85
  says that MySQL is covered.
* `cookie`: `httpapi/refresh_cookie.go:15` says that the age of the cookie matches the
  lifetime of the token. It is a constant 30 days; `config.go:157-165` accepts idle
  windows of up to 3650 days. With 60 the browser loses a live session at day 30.

One more disagreement needs no run: `CHANGELOG.md:10` says that a login deletes its
user's expired tokens; `Login` deletes none, on purpose (`auth/service.go:98`), and
retention does. That a drain which runs out abandons requests is documented
(`docs/OPERATIONS.md:10`).

## 6. What is not modelled, and what comes next

Not modelled:

* `mysql_adapter.go`, `telemetry_queries.go` and the generated MySQL queries: type
  conversions, and the same statements with other syntax. Where providers differ in
  locking or isolation, `Rbac` and `ApiServer` say so.
* Migrations, the project initializer and the generators: run by hand, one step after
  the other, before any process starts.
* Telemetry and logging, fault mapping, time, models: no decision reads them.
* Formats: envelopes, projections, the OpenAPI document, CORS and security headers,
  e-mail bodies, signatures of uploads, the redaction of audit rows, access
  tokens (verified without state).
* A restart empties an instance's counters, and a restart of Redis the shared ones: a
  client may then exceed its limit, as with any fixed window kept in memory. A panic
  in a handler is an error like others: the middleware recovers, and the deferred
  rollback runs.

Order of work:

1. An abstract session (open, extended, ended) that `RefreshSessions` implements, stated
   as a module like `OutboxContract` and proved step by step.
2. The same for the stream: a client's view of its notifications that only grows, in
   order, and the cache as a bounded-staleness register.
