----------------------------- MODULE ApiServer -----------------------------
(* The API process (cmd/api): it starts one dependency after the other, takes
   requests through the pipeline of httpapi (token, throttle, actor, handler,
   audit), drains them at SIGTERM for a bounded time, and closes what it opened
   in reverse order.

   Any call may fail: that stands for refused connections, errors of the
   database, broken clients and the 30 s (streams: 14 min) a request may take.
   What handlers read and write is left to the other modules; here a
   mutation is one change and its audit row, in one transaction or not. *)
EXTENDS Configuration

CONSTANTS
  Request,      \* requests that may come
  Deployments,  \* [environment, marker, endpoints]: how it is started, what is asked
  PoolSize      \* connections of the database pool

ASSUME ApiServerAssumption ==
  /\ PoolSize \in Nat \ {0}
  /\ \A d \in Deployments : d.endpoints \subseteq DOMAIN Definitions

VARIABLES
  deployment,
  phase,    \* where run is: starting, serving, draining, closing, exited
  open,     \* dependencies whose Close is deferred
  failed,   \* run will return an error
  request,  \* [step, endpoint, answer]
  held,     \* requests with a connection of the pool
  staged,   \* per request: what its transaction has written
  changes,  \* requests whose change is committed
  audits,   \* requests with an audit row
  queried   \* history: requests that made a query

process == <<deployment, phase, open, failed>>
data == <<held, staged, changes, audits>>
vars == <<process, request, data, queried>>

---------------------------------------------------------------------------
settings == Settings(deployment.environment)

Ended == {"idle", "done"}
Active == {r \in Request : request[r].step \notin Ended}
Answered(answer) == {r \in Request : request[r].step = "done" /\ request[r].answer = answer}

Ep(r) == Policy(settings, request[r].endpoint)

(* Handlers that change something; the others read. *)
Mutation(r) == Ep(r).AuditCapability = "transaction"

At(r, step) == phase # "exited" /\ request[r].step = step
Go(r, step) == request' = [request EXCEPT ![r].step = step]
Answer(r, answer) == request' = [request EXCEPT ![r].step = "done", ![r].answer = answer]

(* The pool gives a connection: it is open and not all are taken. *)
Acquirable == "database" \in open /\ Cardinality(held) < PoolSize

(* A statement outside a transaction: a connection is taken and given back. *)
Query(r) == Acquirable /\ queried' = queried \cup {r}

---------------------------------------------------------------------------
(* Start: run up to serve *)

Starting == {"loading", "telemetry", "database", "redis", "storage", "listening"}

(* run returns an error: what is open is closed. *)
Abort ==
  /\ failed' = TRUE
  /\ phase' = "closing"
  /\ UNCHANGED <<deployment, open>>

Proceed(to, opened) ==
  /\ phase' = to
  /\ open' = open \cup opened
  /\ UNCHANGED <<deployment, failed>>

LoadConfig ==
  /\ phase = "loading"
  /\ IF Accepted(deployment.environment, deployment.marker)
       THEN Proceed("telemetry", {}) ELSE Abort

SetupTelemetry ==
  /\ phase = "telemetry"
  /\ Proceed("database", {"telemetry"}) \/ Abort

(* ConnectProvider, for either database, ends with a ping. *)
ConnectDatabase ==
  /\ phase = "database"
  /\ Proceed("redis", {"database"}) \/ Abort

(* The client connects on demand; only the rate store must answer a ping, and by
   then the client's Close is deferred. *)
ConnectRedis ==
  /\ phase = "redis"
  /\ IF NeedsRedis(settings)
       THEN \/ Proceed("storage", {"redis"})
            \/ Abort
            \/ /\ settings.RateStore = "redis"
               /\ phase' = "closing"
               /\ failed' = TRUE
               /\ open' = open \cup {"redis"}
               /\ UNCHANGED deployment
       ELSE Proceed("storage", {})

OpenStorage ==
  /\ phase = "storage"
  /\ Proceed("listening", {}) \/ (settings.UploadEnabled /\ Abort)

(* NewServer resolves the policies of the endpoints. *)
Listen ==
  /\ phase = "listening"
  /\ IF Resolvable(settings) THEN Proceed("serving", {}) ELSE Abort

Start ==
  /\ \/ LoadConfig \/ SetupTelemetry \/ ConnectDatabase
     \/ ConnectRedis \/ OpenStorage \/ Listen
  /\ UNCHANGED <<request, data, queried>>

---------------------------------------------------------------------------
(* A request *)

(* middleware: hidden documentation is not found *)
Arrive(r, endpoint) ==
  /\ phase = "serving"
  /\ request[r].step = "idle"
  /\ request' = [request EXCEPT ![r] =
       IF endpoint \in Docs /\ settings.DocsDisabled
         THEN [step |-> "done", endpoint |-> endpoint, answer |-> "error"]
         ELSE [step |-> "token", endpoint |-> endpoint, answer |-> "none"]]
  /\ UNCHANGED <<process, data, queried>>

\* Mutant: Authenticate, which loads the actor before the throttle.
Authenticate(r) ==
  /\ At(r, "token")
  /\ \/ Ep(r).Public /\ Go(r, "throttle") /\ UNCHANGED queried
     \/ ~Ep(r).Public /\ Query(r) /\ Go(r, "throttle")
     \/ ~Ep(r).Public /\ Answer(r, "unauthenticated") /\ UNCHANGED queried
  /\ UNCHANGED <<process, data>>

(* enforce: the token is verified without the database *)
VerifyToken(r) ==
  /\ At(r, "token")
  /\ \/ Go(r, "throttle")
     \/ ~Ep(r).Public /\ Answer(r, "unauthenticated")
  /\ UNCHANGED <<process, data, queried>>

(* The limiter cannot answer without its store: the call to Redis fails. *)
StoreMayFail == settings.RateStore = "redis"

(* enforce: Allow says yes or no, or its store fails *)
Throttle(r) ==
  /\ At(r, "throttle")
  /\ \/ Go(r, "actor")
     \/ request[r].endpoint \notin Probe /\ Answer(r, "throttled")
     \/ request[r].endpoint \notin Probe /\ StoreMayFail /\ Ep(r).Rate = "auth"
          /\ Answer(r, "unavailable")
  /\ UNCHANGED <<process, data, queried>>

(* enforce: LoadActor and Authorize query the user and its permission.  Public or
   not, a body that is not JSON is an error. *)
LoadActor(r) ==
  /\ At(r, "actor")
  /\ \/ Ep(r).Public /\ Go(r, "handler") /\ UNCHANGED queried
     \/ ~Ep(r).Public /\ Query(r) /\ (Go(r, "handler") \/ Answer(r, "error"))
     \/ Answer(r, "error") /\ UNCHANGED queried
  /\ UNCHANGED <<process, data>>

(* ready.get: the database, and Redis when it is the rate store *)
Ready(r) ==
  /\ At(r, "handler")
  /\ request[r].endpoint = "ready.get"
  /\ \/ Query(r) /\ Go(r, "read audit")
     \/ Answer(r, "error") /\ UNCHANGED queried
  /\ UNCHANGED <<process, data>>

(* Only handlers mounted by register look at the cache. *)
CacheHit(r) ==
  /\ settings.CacheEnabled
  /\ Ep(r).Cache = "read"
  /\ request[r].endpoint \notin Docs \cup {"notification.list", "notification.stream"}

(* A GET: from the cache, from the database, or from neither.  A stream is one
   that goes on for up to 14 minutes. *)
Read(r) ==
  /\ At(r, "handler")
  /\ ~Mutation(r)
  /\ request[r].endpoint # "ready.get"
  /\ \/ Query(r) /\ Go(r, "read audit")
     \/ /\ Ep(r).Public \/ CacheHit(r)
        /\ Go(r, "read audit") /\ UNCHANGED queried
     \/ Answer(r, "error") /\ UNCHANGED queried
  /\ UNCHANGED <<process, data>>

(* Writer.Read: a row of its own, whose failure is only logged *)
ReadAudit(r) ==
  /\ At(r, "read audit")
  /\ Answer(r, "ok")
  /\ \/ Ep(r).Audit = "optional" /\ Query(r) /\ audits' = audits \cup {r}
     \/ UNCHANGED <<audits, queried>>
  /\ UNCHANGED <<process, held, staged, changes>>

(* Transaction: begin *)
Begin(r) ==
  /\ At(r, "handler")
  /\ Mutation(r)
  /\ \/ Query(r) /\ held' = held \cup {r} /\ Go(r, "change")
     \/ Answer(r, "error") /\ UNCHANGED <<held, queried>>
  /\ UNCHANGED <<process, staged, changes, audits>>

\* Mutant: only a commit gives the connection back.
ReleasedByCommit(r) == IF request[r].step = "commit" THEN held \ {r} ELSE held

(* The deferred rollback, which has a context of its own, gives the connection
   back on every path. *)
Released(r) == held \ {r}

\* Mutant: what was written stays behind.
RollBackLate(r) ==
  /\ held' = Released(r)
  /\ Answer(r, "error")
  /\ UNCHANGED <<staged, changes, audits>>

(* A transaction that ends without a commit *)
RollBack(r) ==
  /\ held' = Released(r)
  /\ staged' = [staged EXCEPT ![r] = {}]
  /\ Answer(r, "error")
  /\ UNCHANGED <<changes, audits>>

\* Mutant: a required audit row is left for after the commit.
NeverInTransaction(mode) == FALSE

(* What the transaction of a handler writes after its change: the audit row if
   one is required *)
InTransaction(mode) == mode = "required"

(* Mutate: the service's function, then the required audit row.  A logout of an
   unknown session changes nothing and has none. *)
Change(r) ==
  /\ At(r, "change")
  /\ \/ RollBack(r)
     \/ /\ staged' = [staged EXCEPT ![r] =
             {"change"} \cup IF InTransaction(Ep(r).Audit) THEN {"audit"} ELSE {}]
        /\ Go(r, "commit")
        /\ UNCHANGED <<held, changes, audits>>
     \/ /\ request[r].endpoint = "auth.logout"
        /\ Go(r, "commit")
        /\ UNCHANGED data
  /\ UNCHANGED <<process, queried>>

(* Transaction: commit.  It may fail, and it may be done with its answer lost;
   the request is then told of an error. *)
Commit(r) ==
  /\ At(r, "commit")
  /\ \/ RollBack(r)
     \/ /\ changes' = IF "change" \in staged[r] THEN changes \cup {r} ELSE changes
        /\ audits' = IF "audit" \in staged[r] THEN audits \cup {r} ELSE audits
        /\ staged' = [staged EXCEPT ![r] = {}]
        /\ held' = Released(r)
        /\ Go(r, "optional audit") \/ Answer(r, "error")
  /\ UNCHANGED <<process, queried>>

(* Mutate: the optional audit row, in a statement of its own after the commit,
   with 2 s left to it whatever became of the client.  The cache is invalidated
   in any case. *)
OptionalAudit(r) ==
  /\ At(r, "optional audit")
  /\ Answer(r, "ok")
  /\ \/ Ep(r).Audit = "optional" /\ r \in changes /\ Query(r) /\ audits' = audits \cup {r}
     \/ UNCHANGED <<audits, queried>>
  /\ UNCHANGED <<process, held, staged, changes>>

Handle(r) ==
  \/ VerifyToken(r) \/ Throttle(r) \/ LoadActor(r)
  \/ Ready(r) \/ Read(r) \/ ReadAudit(r)
  \/ Begin(r) \/ Change(r) \/ Commit(r) \/ OptionalAudit(r)

---------------------------------------------------------------------------
(* Shutdown: serve and the deferred calls of run *)

(* SIGTERM, or the listener fails *)
Terminate ==
  /\ phase = "serving"
  /\ phase' = "draining"
  /\ UNCHANGED <<deployment, open, failed, request, data, queried>>

ListenFails ==
  /\ phase = "serving"
  /\ Abort
  /\ UNCHANGED <<request, data, queried>>

\* Mutant: Close is called instead of Shutdown.
DrainedAtOnce == TRUE

(* Shutdown returns when no connection is active any more. *)
Drained == Active = {}

(* Shutdown: nothing new comes in, requests in flight are waited for ... *)
Drain ==
  /\ phase = "draining"
  /\ Drained
  /\ phase' = "closing"
  /\ UNCHANGED <<deployment, open, failed, request, data, queried>>

(* ... for 10 s; then connections are closed and run returns an error. *)
DrainExpires ==
  /\ phase = "draining"
  /\ Active # {}
  /\ Abort
  /\ UNCHANGED <<request, data, queried>>

Close(dependency, others) ==
  /\ phase = "closing"
  /\ dependency \in open
  /\ open \cap others = {}
  /\ open' = open \ {dependency}
  /\ UNCHANGED <<deployment, phase, failed, request, data, queried>>

CloseRedis == Close("redis", {})

(* The pool of PostgreSQL waits until every connection has been given back; that
   of MySQL closes each when it is. *)
CloseDatabase ==
  /\ held = {} \/ settings.DatabaseProvider = "mysql"
  /\ Close("database", {"redis"})

CloseTelemetry == Close("telemetry", {"redis", "database"})

(* The process ends, and with it whatever is still in it. *)
Exit ==
  /\ phase = "closing"
  /\ open = {}
  /\ phase' = "exited"
  /\ UNCHANGED <<deployment, open, failed, request, data, queried>>

Stop == Drain \/ DrainExpires \/ CloseRedis \/ CloseDatabase \/ CloseTelemetry \/ Exit

---------------------------------------------------------------------------
Init ==
  /\ deployment \in Deployments
  /\ phase = "loading"
  /\ open = {}
  /\ failed = FALSE
  /\ request = [r \in Request |-> [step |-> "idle", endpoint |-> "", answer |-> "none"]]
  /\ held = {}
  /\ staged = [r \in Request |-> {}]
  /\ changes = {}
  /\ audits = {}
  /\ queried = {}

Next ==
  \/ Start \/ Terminate \/ ListenFails \/ Stop
  \/ \E r \in Request :
       \/ \E endpoint \in deployment.endpoints : Arrive(r, endpoint)
       \/ Handle(r)

(* Start and stop go on, and every request comes to its end by its timeout. *)
Fairness == WF_vars(Start) /\ WF_vars(Stop) /\ \A r \in Request : WF_vars(Handle(r))

Spec == Init /\ [][Next]_vars
FairSpec == Spec /\ Fairness

---------------------------------------------------------------------------
(* Properties *)

Step == Ended \cup {"token", "throttle", "actor", "handler", "read audit", "change", "commit",
                    "optional audit"}

\* Variables have their types; what is written and not committed belongs to a
\* transaction that has yet to commit.
TypeOK ==
  /\ deployment \in Deployments
  /\ phase \in Starting \cup {"serving", "draining", "closing", "exited"}
  /\ open \subseteq {"telemetry", "database", "redis"}
  /\ failed \in BOOLEAN
  /\ \A r \in Request :
       /\ request[r].step \in Step
       /\ request[r].endpoint \in deployment.endpoints \cup {""}
       /\ request[r].answer \in {"none", "ok", "unauthenticated", "throttled", "unavailable", "error"}
  /\ held \subseteq Request
  /\ \A r \in Request : staged[r] \subseteq IF request[r].step = "commit" THEN {"change", "audit"}
                                           ELSE {}
  /\ changes \cup audits \cup queried \subseteq Request

\* Whatever overrides Resolve let pass and wherever a transaction broke off: with
\* a required audit there is a row exactly for what was changed, with an optional
\* one a row only for what was changed, and a mutation that reports success has
\* been committed (audit.go:138-164, registry.go:106-118).  A logout of a session
\* that has ended already reports success, changes nothing and writes no row
\* (auth/service.go:245-247).
AuditAgrees ==
  \A r \in Request : request[r].endpoint # "" =>
    /\ Mutation(r) => /\ r \in audits => r \in changes
                      /\ r \in Answered("ok") /\ request[r].endpoint # "auth.logout" => r \in changes
    /\ Ep(r).Audit = "required" => /\ r \in changes => r \in audits
                                   /\ r \in Answered("ok") => Mutation(r)
    /\ Ep(r).Audit = "none" => r \notin audits

\* "Rejected or throttled requests never reach a query" (registration.go:44-45).
RejectedNeverQueries ==
  \A answer \in {"unauthenticated", "throttled", "unavailable"} :
    Answered(answer) \cap queried = {}

\* Dependencies are closed under a request only if it outlasted the 10 s drain or
\* the listener broke; run then returns an error.  A process that exits has
\* closed all it opened, and if it reports success it has answered all it took
\* (main.go:47-75, 99-125).
RequestsOutlived ==
  /\ phase \in {"closing", "exited"} /\ Active # {} => failed
  /\ phase = "exited" => open = {} /\ (held = {} \/ settings.DatabaseProvider = "mysql")

\* A process told to stop, or that could not start, exits, even when requests
\* were abandoned in the middle of a transaction (db.go:95-109, main.go:99-125).
ProcessEnds == phase \in {"draining", "closing"} ~> phase = "exited"
=============================================================================
