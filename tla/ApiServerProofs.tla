-------------------------- MODULE ApiServerProofs --------------------------
(***************************************************************************)
(* Proofs about ApiServer for any requests, pool, deployments and policies. *)
(***************************************************************************)
EXTENDS ApiServer, TLAPS

\* A row of the registry
IsRow(row) ==
  \E method, public, audit, cache, rate, capability :
    row = Endpoint(method, public, audit, cache, rate, capability)

\* An audit row is required only of an endpoint with a transaction to put it in.
Sound(endpoint) == endpoint.Audit = "required" => endpoint.AuditCapability = "transaction"

-----------------------------------------------------------------------------
(* The registry and its overrides.                                         *)

(* The registry requires audit rows only where there are transactions. *)
LEMMA DefinitionsSound ==
  ASSUME NEW id \in DOMAIN Definitions
  PROVE  IsRow(Definitions[id]) /\ Sound(Definitions[id])
<1> DEFINE row == Definition(id)
<1>1. Definitions[id] = row /\ id \in EndpointID
  BY DEF Definitions
<1>2. \/ row = Endpoint("GET", TRUE, "none", "off", "public", "read")
      \/ row = Endpoint("POST", TRUE, "required", "off", "auth", "transaction")
      \/ row = Endpoint("POST", TRUE, "optional", "off", "auth", "transaction")
      \/ row = Endpoint("POST", FALSE, "required", "off", "internal", "transaction")
      \/ row = Endpoint("PATCH", FALSE, "required", "off", "internal", "transaction")
      \/ row = Endpoint("DELETE", FALSE, "required", "off", "internal", "transaction")
      \/ row = Endpoint("GET", FALSE, "none", "read", "internal", "read")
      \/ row = Endpoint("GET", FALSE, "none", "off", "internal", "read")
      \/ row = Endpoint("GET", FALSE, "none", "off", "internal", "none")
  BY <1>1, Zenon DEF Definition, EndpointID
<1> HIDE DEF row
<1>3. IsRow(row)
  BY <1>2, Zenon DEF IsRow
<1>4. Sound(row)
  BY <1>2 DEF Endpoint, Sound
<1> QED
  BY <1>1, <1>3, <1>4

(* Overrides that Resolve lets pass keep it so, and keep the capability. *)
LEMMA PolicySound ==
  ASSUME NEW c, Resolvable(c), NEW id \in DOMAIN Definitions
  PROVE  /\ Sound(Policy(c, id))
         /\ Policy(c, id).AuditCapability = Definitions[id].AuditCapability
<1> DEFINE base == Definitions[id]
           override == c.Policies[id]
<1>1. IsRow(base) /\ Sound(base)
  BY DefinitionsSound
<1>2. CASE id \notin DOMAIN c.Policies
  BY <1>1, <1>2 DEF Policy
<1>3. CASE id \in DOMAIN c.Policies
  <2>1. Allowed(c, base, override)
    BY <1>3 DEF Resolvable
  <2>2. Policy(c, id) = [base EXCEPT !.Audit = Overridden(base.Audit, override.audit),
                                     !.Rate = Overridden(base.Rate, override.rateLimit),
                                     !.Cache = Overridden(base.Cache, override.cache)]
    BY <1>3, Zenon DEF Policy
  <2> HIDE DEF base, override
  <2>3. Policy(c, id).Audit = Overridden(base.Audit, override.audit)
    BY <1>1, <2>2 DEF IsRow, Endpoint
  <2>4. Policy(c, id).AuditCapability = base.AuditCapability
    BY <1>1, <2>2 DEF IsRow, Endpoint
  <2>5. override.audit = "required" => base.AuditCapability = "transaction"
    BY <2>1 DEF Allowed, AuditSupported
  <2> QED
    BY <1>1, <2>3, <2>4, <2>5 DEF Sound, Overridden, base
<1> QED
  BY <1>2, <1>3

(* The readiness probe reads. *)
LEMMA ReadyReads ==
  /\ "ready.get" \in DOMAIN Definitions
  /\ Definitions["ready.get"].AuditCapability = "read"
<1>1. "ready.get" \in EndpointID /\ "ready.get" \in Probe \cup Docs
  BY DEF EndpointID, Probe
<1>2. "ready.get" \notin Register \cup Session \cup Create \cup Update \cup Delete \cup Cached
                        \cup Own \cup Stream
  BY DEF Register, Session, Create, Update, Delete, Cached, Own, Stream
<1>3. Definition("ready.get") = Endpoint("GET", TRUE, "none", "off", "public", "read")
  BY <1>1, <1>2 DEF Definition
<1> QED
  BY <1>1, <1>3 DEF Definitions, Endpoint

-----------------------------------------------------------------------------
(* The inductive invariant.                                                *)

Answers == {"none", "ok", "unauthenticated", "throttled", "unavailable", "error"}

Shape ==
  /\ deployment \in Deployments
  /\ phase \in Starting \cup {"serving", "draining", "closing", "exited"}
  /\ open \subseteq {"telemetry", "database", "redis"}
  /\ failed \in BOOLEAN
  /\ request \in [Request -> [step : Step, endpoint : deployment.endpoints \cup {""},
                              answer : Answers]]
  /\ held \subseteq Request
  /\ staged \in [Request -> SUBSET {"change", "audit"}]
  /\ changes \subseteq Request /\ audits \subseteq Request /\ queried \subseteq Request

\* A request names an endpoint of a registry whose overrides were accepted, and
\* has an answer when it is done.
Named(r) ==
  /\ request[r].step = "idle" => request[r].endpoint = ""
  /\ request[r].step # "idle" =>
       request[r].endpoint \in DOMAIN Definitions /\ Resolvable(settings)
  /\ request[r].step # "done" => request[r].answer = "none"

\* The connection of a request is that of its transaction, and what the
\* transaction has written is a change with its required audit row, or nothing
\* for a logout.
TransactionAgrees(r) ==
  /\ r \in held => request[r].step \in {"change", "commit"}
  /\ request[r].step \in {"change", "commit", "optional audit"} => Mutation(r)
  /\ request[r].step = "read audit" => ~Mutation(r)
  /\ request[r].step # "commit" => staged[r] = {}
  /\ request[r].step = "commit" =>
       /\ "audit" \in staged[r] <=> ("change" \in staged[r] /\ Ep(r).Audit = "required")
       /\ "change" \in staged[r] \/ request[r].endpoint = "auth.logout"

\* What is committed of a request, before and after its transaction.
CommittedAgrees(r) ==
  /\ request[r].step \notin {"optional audit", "done"} => r \notin changes /\ r \notin audits
  /\ request[r].step = "optional audit" => r \in changes \/ request[r].endpoint = "auth.logout"
  /\ request[r].endpoint # "" =>
       /\ Mutation(r) =>
            /\ r \in audits => r \in changes
            /\ request[r].step = "done" /\ request[r].answer = "ok"
                 /\ request[r].endpoint # "auth.logout" => r \in changes
       /\ Ep(r).Audit = "required" =>
            /\ r \in changes => r \in audits
            /\ request[r].step = "done" /\ request[r].answer = "ok" => Mutation(r)
       /\ Ep(r).Audit = "none" => r \notin audits

\* No query before the actor is loaded, and none by a request rejected before.
QueriesAgree(r) ==
  /\ request[r].step \in {"idle", "token", "throttle"} => r \notin queried
  /\ request[r].answer \in {"unauthenticated", "throttled", "unavailable"} => r \notin queried

OfRequest(r) == Named(r) /\ TransactionAgrees(r) /\ CommittedAgrees(r) /\ QueriesAgree(r)

\* The process serves only policies it has resolved, and a closed pool has no
\* connection out, or is one that does not wait for it.
OfProcess ==
  /\ phase \in {"serving", "draining"} => Resolvable(settings)
  /\ "database" \notin open => held = {} \/ settings.DatabaseProvider = "mysql"
  /\ phase \in {"closing", "exited"} /\ Active # {} => failed
  /\ phase = "exited" => open = {}

IInv == Shape /\ OfProcess /\ \A r \in Request : OfRequest(r)

-----------------------------------------------------------------------------

(* The policy of a request under way has a required audit row only with a
   transaction. *)
LEMMA EpSound ==
  ASSUME NEW r \in Request, Named(r), request[r].step # "idle"
  PROVE  Ep(r).Audit = "required" => Mutation(r)
BY PolicySound DEF Named, Ep, Mutation, Sound

(* The policy of a request depends on the deployment and its endpoint. *)
LEMMA SamePolicy ==
  ASSUME NEW r \in Request, deployment' = deployment,
         request'[r].endpoint = request[r].endpoint
  PROVE  Ep(r)' = Ep(r) /\ settings' = settings
BY DEF Ep, settings

(* What a step of a request does to its record *)
LEMMA GoesOn ==
  ASSUME Shape, NEW r \in Request, NEW step \in Step, Go(r, step), deployment' = deployment
  PROVE  /\ request' \in [Request -> [step : Step, endpoint : deployment'.endpoints \cup {""},
                                      answer : Answers]]
         /\ request'[r].step = step
         /\ request'[r].endpoint = request[r].endpoint
         /\ request'[r].answer = request[r].answer
         /\ \A q \in Request : q # r => request'[q] = request[q]
BY DEF Shape, Go

LEMMA IsAnswered ==
  ASSUME Shape, NEW r \in Request, NEW answer \in Answers, Answer(r, answer),
         deployment' = deployment
  PROVE  /\ request' \in [Request -> [step : Step, endpoint : deployment'.endpoints \cup {""},
                                      answer : Answers]]
         /\ request'[r].step = "done"
         /\ request'[r].endpoint = request[r].endpoint
         /\ request'[r].answer = answer
         /\ \A q \in Request : q # r => request'[q] = request[q]
BY DEF Shape, Answer, Step, Ended

(* A request nothing happens to keeps its part of the invariant. *)
LEMMA Undisturbed ==
  ASSUME NEW q \in Request, OfRequest(q), deployment' = deployment,
         request'[q] = request[q], staged'[q] = staged[q],
         q \in held' <=> q \in held, q \in changes' <=> q \in changes,
         q \in audits' <=> q \in audits, q \in queried' <=> q \in queried
  PROVE  OfRequest(q)'
<1>1. Ep(q)' = Ep(q) /\ settings' = settings
  BY SamePolicy
<1> QED
  BY <1>1 DEF OfRequest, Named, TransactionAgrees, CommittedAgrees, QueriesAgree, Mutation

(* A set keeps its other members when one is added. *)
LEMMA SameElsewhere ==
  ASSUME NEW S, NEW T, NEW x, T = S \/ T = S \cup {x}
  PROVE  \A y : y # x => (y \in T <=> y \in S)
OBVIOUS

(* A step that concerns one request only *)
OnlyThis(r) ==
  \A q \in Request : q # r =>
    /\ request'[q] = request[q] /\ staged'[q] = staged[q]
    /\ q \in held' <=> q \in held
    /\ q \in changes' <=> q \in changes
    /\ q \in audits' <=> q \in audits
    /\ q \in queried' <=> q \in queried

(* A step of one request preserves the invariant if it preserves its part. *)
LEMMA RequestStep ==
  ASSUME IInv, NEW r \in Request, UNCHANGED process, Shape', OnlyThis(r), OfRequest(r)',
         r \in Active \/ phase = "serving",
         r \in held' => r \in held \/ "database" \in open
  PROVE  IInv'
<1>1. deployment' = deployment /\ phase' = phase /\ open' = open /\ failed' = failed
  BY DEF process
<1>2. settings' = settings
  BY <1>1 DEF settings
<1>3. \A q \in Request : OfRequest(q)'
  BY <1>1, Undisturbed DEF IInv, OnlyThis
<1>4. phase' \in {"closing", "exited"} => Active' \subseteq Active
  BY <1>1 DEF Active, OnlyThis
<1>5. "database" \notin open' => held' \subseteq held
  BY <1>1 DEF OnlyThis, IInv, Shape
<1>6. OfProcess'
  BY <1>1, <1>2, <1>4, <1>5 DEF IInv, OfProcess
<1> QED
  BY <1>3, <1>6 DEF IInv

LEMMA InitEstablishes == Init => IInv
<1> SUFFICES ASSUME Init PROVE IInv
  OBVIOUS
<1>1. Shape
  BY DEF Init, Shape, Starting, Step, Ended, Answers
<1>2. OfProcess
  BY DEF Init, OfProcess
<1>3. ASSUME NEW r \in Request PROVE OfRequest(r)
  BY DEF Init, OfRequest, Named, TransactionAgrees, CommittedAgrees, QueriesAgree
<1> QED
  BY <1>1, <1>2, <1>3 DEF IInv

-----------------------------------------------------------------------------
(* Steps of a request, before its handler.                                 *)

LEMMA ArrivePreserves ==
  ASSUME IInv, NEW r \in Request, NEW endpoint \in deployment.endpoints, Arrive(r, endpoint)
  PROVE  IInv'
<1>1. UNCHANGED process /\ UNCHANGED data /\ queried' = queried /\ phase = "serving"
  BY DEF Arrive
<1>2. deployment' = deployment /\ held' = held /\ staged' = staged /\ changes' = changes
      /\ audits' = audits
  BY <1>1 DEF process, data
<1>3. PICK step \in {"done", "token"}, answer \in {"error", "none"} :
        /\ step = "done" <=> answer = "error"
        /\ request' = [request EXCEPT ![r] = [step |-> step, endpoint |-> endpoint, answer |-> answer]]
  BY DEF Arrive
<1>4. endpoint \in DOMAIN Definitions
  BY ApiServerAssumption DEF IInv, Shape
<1>5. request[r].step = "idle" /\ r \in DOMAIN request
  BY DEF Arrive, IInv, Shape
<1>6. /\ request'[r].step = step /\ request'[r].endpoint = endpoint
      /\ request'[r].answer = answer
  BY <1>3, <1>5
<1>7. Shape'
  BY <1>1, <1>2, <1>3 DEF IInv, Shape, process, Step, Ended, Answers
<1>8. OnlyThis(r)
  BY <1>1, <1>2, <1>3 DEF OnlyThis, IInv, Shape
<1>9. settings' = settings /\ Resolvable(settings)
  BY <1>1, <1>2 DEF settings, IInv, OfProcess
<1>10. r \notin held /\ staged[r] = {} /\ r \notin changes /\ r \notin audits /\ r \notin queried
  BY <1>5 DEF IInv, OfRequest, TransactionAgrees, CommittedAgrees, QueriesAgree
<1>11. OfRequest(r)'
  <2>1. Named(r)'
    BY <1>3, <1>4, <1>6, <1>9 DEF Named
  <2>2. TransactionAgrees(r)'
    BY <1>2, <1>6, <1>10 DEF TransactionAgrees
  <2>3. CommittedAgrees(r)'
    BY <1>2, <1>3, <1>6, <1>10 DEF CommittedAgrees
  <2>4. QueriesAgree(r)'
    BY <1>1, <1>3, <1>6, <1>10 DEF QueriesAgree
  <2> QED
    BY <2>1, <2>2, <2>3, <2>4 DEF OfRequest
<1> QED
  BY <1>1, <1>2, <1>7, <1>8, <1>11, RequestStep

(* A step of a request that leaves data alone and goes on. *)
LEMMA GoPreserves ==
  ASSUME IInv, NEW r \in Request, UNCHANGED process, UNCHANGED data,
         NEW step \in Step, Go(r, step), request[r].step \notin Ended,
         queried' = queried \/ (queried' = queried \cup {r} /\ step \notin {"idle", "token", "throttle"}),
         step \in {"throttle", "actor"} \/ (step = "handler" /\ request[r].step = "actor")
           \/ (step = "read audit" /\ ~Mutation(r)),
         request[r].step \in {"token", "throttle"} \/ step \notin {"throttle"},
         request[r].step \in {"token", "throttle", "actor", "handler"}
  PROVE  IInv'
<1>1. deployment' = deployment /\ held' = held /\ staged' = staged /\ changes' = changes
      /\ audits' = audits
  BY DEF process, data
<1>2. Ep(r)' = Ep(r) /\ settings' = settings /\ request'[r].endpoint = request[r].endpoint
  BY <1>1, GoesOn, SamePolicy DEF IInv
<1>3. /\ request'[r].step = step /\ request'[r].answer = request[r].answer
      /\ \A q \in Request : q # r => request'[q] = request[q]
  BY <1>1, GoesOn DEF IInv
<1>4. Shape'
  BY <1>1, GoesOn DEF IInv, Shape, process
<1>5. OnlyThis(r)
  <2>1. queried' = queried \/ queried' = queried \cup {r}
    BY Zenon
  <2>2. \A q \in Request : q # r => (q \in queried' <=> q \in queried)
    BY <2>1
  <2> QED
    BY <1>1, <1>3, <2>2, Zenon DEF OnlyThis
<1>6. Mutation(r)' <=> Mutation(r)
  BY <1>2 DEF Mutation
<1>7. OfRequest(r)'
  <2>1. Named(r)'
    BY <1>2, <1>3 DEF Named, IInv, OfRequest, Ended
  <2>2. TransactionAgrees(r)'
    BY <1>1, <1>2, <1>3, <1>6 DEF TransactionAgrees, IInv, OfRequest
  <2>3. CommittedAgrees(r)'
    BY <1>1, <1>2, <1>3, <1>6 DEF CommittedAgrees, IInv, OfRequest
  <2>4. QueriesAgree(r)'
    BY <1>2, <1>3 DEF QueriesAgree, Named, IInv, OfRequest, Ended
  <2> QED
    BY <2>1, <2>2, <2>3, <2>4 DEF OfRequest
<1>8. r \in Active
  BY DEF Active
<1> QED
  BY <1>1, <1>4, <1>5, <1>7, <1>8, RequestStep

(* A step of a request that leaves data alone and answers something else than
   success. *)
LEMMA RefusalPreserves ==
  ASSUME IInv, NEW r \in Request, UNCHANGED process, UNCHANGED data,
         NEW answer \in Answers \ {"none", "ok"}, Answer(r, answer),
         request[r].step \in {"token", "throttle", "actor", "handler"},
         \/ queried' = queried
              /\ (request[r].step \in {"token", "throttle"} \/ answer = "error")
         \/ queried' = queried \cup {r} /\ answer = "error"
  PROVE  IInv'
<1>1. deployment' = deployment /\ held' = held /\ staged' = staged /\ changes' = changes
      /\ audits' = audits
  BY DEF process, data
<1>2. Ep(r)' = Ep(r) /\ settings' = settings /\ request'[r].endpoint = request[r].endpoint
  BY <1>1, IsAnswered, SamePolicy DEF IInv
<1>3. /\ request'[r].step = "done" /\ request'[r].answer = answer
      /\ \A q \in Request : q # r => request'[q] = request[q]
  BY <1>1, IsAnswered DEF IInv
<1>4. Shape'
  BY <1>1, IsAnswered DEF IInv, Shape, process
<1>5. OnlyThis(r)
  BY <1>1, <1>3 DEF OnlyThis
<1>6. Mutation(r)' <=> Mutation(r)
  BY <1>2 DEF Mutation
<1>7. OfRequest(r)'
  <2>1. Named(r)'
    BY <1>2, <1>3 DEF Named, IInv, OfRequest
  <2>2. TransactionAgrees(r)'
    BY <1>1, <1>2, <1>3, <1>6 DEF TransactionAgrees, IInv, OfRequest
  <2>3. CommittedAgrees(r)'
    BY <1>1, <1>2, <1>3, <1>6 DEF CommittedAgrees, IInv, OfRequest
  <2>4. QueriesAgree(r)'
    BY <1>2, <1>3 DEF QueriesAgree, IInv, OfRequest
  <2> QED
    BY <2>1, <2>2, <2>3, <2>4 DEF OfRequest
<1>8. r \in Active
  BY DEF Active, Ended
<1> QED
  BY <1>1, <1>4, <1>5, <1>7, <1>8, RequestStep

(* enforce, readiness and reads: every way on or out leaves data alone. *)
LEMMA EnforcePreserves ==
  ASSUME IInv, NEW r \in Request,
         VerifyToken(r) \/ Throttle(r) \/ LoadActor(r) \/ Ready(r) \/ Read(r)
  PROVE  IInv'
<1>1. UNCHANGED process /\ UNCHANGED data
  BY DEF VerifyToken, Throttle, LoadActor, Ready, Read
<1>2. {"throttle", "actor", "handler", "read audit"} \subseteq Step
  BY DEF Step
<1>3. CASE VerifyToken(r)
  <2>1. request[r].step = "token" /\ queried' = queried
    BY <1>3 DEF VerifyToken, At
  <2>2. Go(r, "throttle") \/ Answer(r, "unauthenticated")
    BY <1>3 DEF VerifyToken
  <2>3. CASE Go(r, "throttle")
    BY <1>1, <1>2, <2>1, <2>3, GoPreserves DEF Ended
  <2>4. CASE Answer(r, "unauthenticated")
    BY <1>1, <2>1, <2>4, RefusalPreserves DEF Answers
  <2> QED
    BY <2>2, <2>3, <2>4
<1>4. CASE Throttle(r)
  <2>1. request[r].step = "throttle" /\ queried' = queried
    BY <1>4 DEF Throttle, At
  <2>2. Go(r, "actor") \/ Answer(r, "throttled") \/ Answer(r, "unavailable")
    BY <1>4 DEF Throttle
  <2>3. CASE Go(r, "actor")
    BY <1>1, <1>2, <2>1, <2>3, GoPreserves DEF Ended
  <2>4. CASE Answer(r, "throttled") \/ Answer(r, "unavailable")
    BY <1>1, <2>1, <2>4, RefusalPreserves DEF Answers
  <2> QED
    BY <2>2, <2>3, <2>4
<1>5. CASE LoadActor(r)
  <2>1. request[r].step = "actor" /\ (queried' = queried \/ queried' = queried \cup {r})
    BY <1>5 DEF LoadActor, At, Query
  <2>2. Go(r, "handler") \/ Answer(r, "error")
    BY <1>5 DEF LoadActor
  <2>3. CASE Go(r, "handler")
    BY <1>1, <1>2, <2>1, <2>3, GoPreserves DEF Ended
  <2>4. CASE Answer(r, "error")
    BY <1>1, <2>1, <2>4, RefusalPreserves DEF Answers
  <2> QED
    BY <2>2, <2>3, <2>4
<1>6. CASE Ready(r) \/ Read(r)
  <2>1. request[r].step = "handler" /\ (queried' = queried \/ queried' = queried \cup {r})
    BY <1>6 DEF Ready, Read, At, Query
  <2>2. Go(r, "read audit") \/ Answer(r, "error")
    BY <1>6 DEF Ready, Read
  <2>3. ~Mutation(r)
    <3>1. CASE Read(r)
      BY <3>1 DEF Read
    <3>2. CASE Ready(r)
      <4>1. Resolvable(settings) /\ request[r].endpoint = "ready.get"
        BY <2>1, <3>2 DEF IInv, OfRequest, Named, Ready
      <4> QED
        BY <4>1, PolicySound, ReadyReads DEF Mutation, Ep
    <3> QED
      BY <1>6, <3>1, <3>2
  <2>4. CASE Go(r, "read audit")
    BY <1>1, <1>2, <2>1, <2>3, <2>4, GoPreserves DEF Ended
  <2>5. CASE Answer(r, "error")
    BY <1>1, <2>1, <2>5, RefusalPreserves DEF Answers
  <2> QED
    BY <2>2, <2>4, <2>5
<1> QED
  BY <1>3, <1>4, <1>5, <1>6

-----------------------------------------------------------------------------
(* Steps of a transaction, and audit rows.                                 *)

(* Success: what is known before the answer is what the answer says. *)
LEMMA SuccessPreserves ==
  ASSUME IInv, NEW r \in Request, Answer(r, "ok"),
         request[r].step \in {"read audit", "optional audit"},
         UNCHANGED process, held' = held, staged' = staged, changes' = changes,
         \/ audits' = audits
         \/ audits' = audits \cup {r} /\ Ep(r).Audit = "optional" /\ (r \in changes \/ ~Mutation(r)),
         queried' = queried \/ queried' = queried \cup {r}
  PROVE  IInv'
<1>1. deployment' = deployment
  BY DEF process
<1>2. "ok" \in Answers
  BY DEF Answers
<1>3. Ep(r)' = Ep(r) /\ settings' = settings /\ request'[r].endpoint = request[r].endpoint
  BY <1>1, <1>2, IsAnswered, SamePolicy DEF IInv
<1>4. /\ request'[r].step = "done" /\ request'[r].answer = "ok"
      /\ \A q \in Request : q # r => request'[q] = request[q]
  BY <1>1, <1>2, IsAnswered DEF IInv
<1>5. Shape'
  BY <1>1, <1>2, IsAnswered DEF IInv, Shape, process
<1>6. OnlyThis(r)
  <2>1. \A q \in Request : q # r => (q \in queried' <=> q \in queried)
    BY SameElsewhere, Zenon
  <2>2. \A q \in Request : q # r => (q \in audits' <=> q \in audits)
    BY SameElsewhere, Zenon
  <2> QED
    BY <1>4, <2>1, <2>2, Zenon DEF OnlyThis
<1>7. Mutation(r)' <=> Mutation(r)
  BY <1>3 DEF Mutation
<1>8. OfRequest(r)
  BY DEF IInv
<1>9. Ep(r).Audit = "required" => Mutation(r)
  BY <1>8, EpSound DEF OfRequest
<1>10. OfRequest(r)'
  <2>1. Named(r)'
    BY <1>3, <1>4, <1>8 DEF Named, OfRequest
  <2>2. TransactionAgrees(r)'
    BY <1>3, <1>4, <1>7, <1>8 DEF TransactionAgrees, OfRequest
  <2>3. CommittedAgrees(r)'
    BY <1>3, <1>4, <1>7, <1>8, <1>9 DEF CommittedAgrees, TransactionAgrees, Named, OfRequest
  <2>4. QueriesAgree(r)'
    BY <1>4 DEF QueriesAgree
  <2> QED
    BY <2>1, <2>2, <2>3, <2>4 DEF OfRequest
<1>11. r \in Active
  BY DEF Active, Ended
<1> QED
  BY <1>5, <1>6, <1>10, <1>11, RequestStep

LEMMA AuditPreserves ==
  ASSUME IInv, NEW r \in Request, ReadAudit(r) \/ OptionalAudit(r)
  PROVE  IInv'
<1>1. CASE ReadAudit(r)
  <2>1. request[r].step = "read audit"
    BY <1>1 DEF ReadAudit, At
  <2>2. ~Mutation(r)
    BY <2>1 DEF IInv, OfRequest, TransactionAgrees
  <2> QED
    BY <1>1, <2>1, <2>2, SuccessPreserves DEF ReadAudit, Query
<1>2. CASE OptionalAudit(r)
  BY <1>2, SuccessPreserves DEF OptionalAudit, Query, At
<1> QED
  BY <1>1, <1>2

LEMMA BeginPreserves ==
  ASSUME IInv, NEW r \in Request, Begin(r)
  PROVE  IInv'
<1>1. UNCHANGED process /\ staged' = staged /\ changes' = changes /\ audits' = audits
      /\ request[r].step = "handler" /\ Mutation(r)
  BY DEF Begin, At
<1>2. CASE Answer(r, "error") /\ UNCHANGED <<held, queried>>
  BY <1>1, <1>2, RefusalPreserves DEF Answers, data
<1>3. CASE Query(r) /\ held' = held \cup {r} /\ Go(r, "change")
  <2>1. deployment' = deployment
    BY <1>1 DEF process
  <2>2. "change" \in Step /\ Go(r, "change")
    BY <1>3 DEF Step
  <2>3. Ep(r)' = Ep(r) /\ settings' = settings /\ request'[r].endpoint = request[r].endpoint
    BY <2>1, <2>2, GoesOn, SamePolicy DEF IInv
  <2>4. /\ request'[r].step = "change" /\ request'[r].answer = request[r].answer
        /\ \A q \in Request : q # r => request'[q] = request[q]
    BY <2>1, <2>2, GoesOn DEF IInv
  <2>5. Shape'
    BY <1>1, <1>3, <2>1, <2>2, GoesOn DEF IInv, Shape, process, Query
  <2>6. OnlyThis(r)
    BY <1>1, <1>3, <2>4 DEF OnlyThis, Query
  <2>7. Mutation(r)' <=> Mutation(r)
    BY <2>3 DEF Mutation
  <2>8. OfRequest(r)
    BY DEF IInv
  <2>9. OfRequest(r)'
    <3>1. Named(r)'
      BY <1>1, <2>3, <2>4, <2>8 DEF Named, OfRequest
    <3>2. TransactionAgrees(r)'
      BY <1>1, <2>3, <2>4, <2>7, <2>8 DEF TransactionAgrees, OfRequest
    <3>3. CommittedAgrees(r)'
      BY <1>1, <2>3, <2>4, <2>7, <2>8 DEF CommittedAgrees, OfRequest
    <3>4. QueriesAgree(r)'
      BY <1>1, <2>4, <2>8 DEF QueriesAgree, Named, OfRequest
    <3> QED
      BY <3>1, <3>2, <3>3, <3>4 DEF OfRequest
  <2>10. r \in Active /\ "database" \in open
    BY <1>1, <1>3 DEF Active, Ended, Query, Acquirable
  <2> QED
    BY <1>1, <2>5, <2>6, <2>9, <2>10, RequestStep
<1> QED
  BY <1>2, <1>3 DEF Begin

(* What a step in a transaction, or its commit, leaves *)
LEMMA TransactionStep ==
  ASSUME IInv, NEW r \in Request, UNCHANGED process, queried' = queried,
         request[r].step \in {"change", "commit"},
         Go(r, "commit") \/ Go(r, "optional audit") \/ Answer(r, "error"),
         staged' \in [Request -> SUBSET {"change", "audit"}],
         held' \subseteq held, changes' \subseteq changes \cup {r}, audits' \subseteq audits \cup {r},
         \A q \in Request : q # r =>
           staged'[q] = staged[q] /\ (q \in held' <=> q \in held)
             /\ (q \in changes' <=> q \in changes) /\ (q \in audits' <=> q \in audits),
         r \in held' => request'[r].step = "commit",
         request'[r].step # "commit" => staged'[r] = {},
         request'[r].step = "commit" =>
           /\ "audit" \in staged'[r] <=> ("change" \in staged'[r] /\ Ep(r).Audit = "required")
           /\ "change" \in staged'[r] \/ request[r].endpoint = "auth.logout"
           /\ r \notin changes' /\ r \notin audits',
         request'[r].step = "optional audit" =>
           r \in changes' \/ request[r].endpoint = "auth.logout",
         r \in audits' <=> (r \in changes' /\ Ep(r).Audit = "required")
  PROVE  IInv'
<1>1. deployment' = deployment
  BY DEF process
<1>2. {"commit", "optional audit"} \subseteq Step /\ "error" \in Answers
  BY DEF Step, Answers
<1>3. /\ request' \in [Request -> [step : Step, endpoint : deployment'.endpoints \cup {""},
                                   answer : Answers]]
      /\ request'[r].endpoint = request[r].endpoint
      /\ \A q \in Request : q # r => request'[q] = request[q]
      /\ \/ /\ request'[r].step \in {"commit", "optional audit"}
            /\ request'[r].answer = request[r].answer
         \/ request'[r].step = "done" /\ request'[r].answer = "error"
  <2>1. CASE Go(r, "commit") \/ Go(r, "optional audit")
    BY <1>1, <1>2, <2>1, GoesOn DEF IInv
  <2>2. CASE Answer(r, "error")
    BY <1>1, <1>2, <2>2, IsAnswered DEF IInv
  <2> QED
    BY <2>1, <2>2
<1>4. Ep(r)' = Ep(r) /\ settings' = settings
  BY <1>1, <1>3, SamePolicy
<1>5. Shape'
  BY <1>1, <1>3 DEF IInv, Shape, process
<1>6. OnlyThis(r)
  BY <1>3, Zenon DEF OnlyThis
<1>7. Mutation(r)' <=> Mutation(r)
  BY <1>4 DEF Mutation
<1>8. OfRequest(r) /\ Mutation(r)
  BY DEF IInv, OfRequest, TransactionAgrees
<1>9. OfRequest(r)'
  <2>1. Named(r)'
    BY <1>3, <1>4, <1>8 DEF Named, OfRequest
  <2>2. TransactionAgrees(r)'
    BY <1>3, <1>4, <1>7, <1>8 DEF TransactionAgrees
  <2>3. CommittedAgrees(r)'
    BY <1>3, <1>4, <1>7, <1>8 DEF CommittedAgrees
  <2>4. QueriesAgree(r)'
    BY <1>3, <1>8 DEF QueriesAgree, Named, OfRequest
  <2> QED
    BY <2>1, <2>2, <2>3, <2>4 DEF OfRequest
<1>10. r \in Active
  BY DEF Active, Ended
<1> QED
  BY <1>5, <1>6, <1>9, <1>10, RequestStep

(* Nothing of a request whose transaction is rolled back remains. *)
LEMMA RollBackPreserves ==
  ASSUME IInv, NEW r \in Request, UNCHANGED process, queried' = queried,
         request[r].step \in {"change", "commit"}, RollBack(r)
  PROVE  IInv'
<1>1. r \notin changes /\ r \notin audits
  BY DEF IInv, OfRequest, CommittedAgrees
<1>2. "error" \in Answers /\ deployment' = deployment
  BY DEF Answers, process
<1>3. request'[r].step = "done"
  BY <1>2, IsAnswered DEF RollBack, IInv
<1>4. /\ held' = held \ {r} /\ changes' = changes /\ audits' = audits /\ Answer(r, "error")
      /\ staged' = [staged EXCEPT ![r] = {}]
  BY DEF RollBack, Released
<1>5. /\ staged' \in [Request -> SUBSET {"change", "audit"}] /\ staged'[r] = {}
      /\ \A q \in Request : q # r => staged'[q] = staged[q]
  BY <1>4 DEF IInv, Shape
<1> QED
  BY <1>1, <1>3, <1>4, <1>5, TransactionStep

LEMMA ChangePreserves ==
  ASSUME IInv, NEW r \in Request, Change(r)
  PROVE  IInv'
<1>1. UNCHANGED process /\ queried' = queried /\ request[r].step = "change"
  BY DEF Change, At
<1>2. CASE RollBack(r)
  BY <1>1, <1>2, RollBackPreserves
<1>3. CASE ~RollBack(r)
  <2>1. Go(r, "commit") /\ held' = held /\ changes' = changes /\ audits' = audits
    BY <1>3 DEF Change, data
  <2>2. r \notin changes /\ r \notin audits /\ staged[r] = {}
    BY <1>1 DEF IInv, OfRequest, CommittedAgrees, TransactionAgrees
  <2>3. "commit" \in Step /\ deployment' = deployment
    BY <1>1 DEF Step, process
  <2>4. request'[r].step = "commit"
    BY <2>1, <2>3, GoesOn DEF IInv
  <2>5. \/ staged' = [staged EXCEPT ![r] =
                       {"change"} \cup IF Ep(r).Audit = "required" THEN {"audit"} ELSE {}]
        \/ staged' = staged /\ request[r].endpoint = "auth.logout"
    BY <1>3 DEF Change, InTransaction, data
  <2>6. /\ staged' \in [Request -> SUBSET {"change", "audit"}]
        /\ \A q \in Request : q # r => staged'[q] = staged[q]
        /\ "audit" \in staged'[r] <=> ("change" \in staged'[r] /\ Ep(r).Audit = "required")
        /\ "change" \in staged'[r] \/ request[r].endpoint = "auth.logout"
    <3> DEFINE written == {"change"} \cup IF Ep(r).Audit = "required" THEN {"audit"} ELSE {}
    <3>1. /\ written \in SUBSET {"change", "audit"}
          /\ "change" \in written
          /\ "audit" \in written <=> Ep(r).Audit = "required"
      OBVIOUS
    <3>2. staged \in [Request -> SUBSET {"change", "audit"}]
      BY DEF IInv, Shape
    <3> HIDE DEF written
    <3>3. CASE staged' = [staged EXCEPT ![r] = written]
      BY <3>1, <3>2, <3>3
    <3>4. CASE staged' = staged /\ request[r].endpoint = "auth.logout"
      BY <2>2, <3>2, <3>4
    <3> QED
      BY <2>5, <3>3, <3>4 DEF written
  <2>7. held' \subseteq held /\ changes' \subseteq changes \cup {r} /\ audits' \subseteq audits \cup {r}
    BY <2>1
  <2>8. r \notin changes' /\ r \notin audits'
    BY <2>1, <2>2
  <2>9. \A q \in Request : q # r =>
          staged'[q] = staged[q] /\ (q \in held' <=> q \in held)
            /\ (q \in changes' <=> q \in changes) /\ (q \in audits' <=> q \in audits)
    BY <2>1, <2>6
  <2> QED
    BY <1>1, <2>1, <2>4, <2>6, <2>7, <2>8, <2>9, TransactionStep
<1> QED
  BY <1>2, <1>3

LEMMA CommitPreserves ==
  ASSUME IInv, NEW r \in Request, Commit(r)
  PROVE  IInv'
<1>1. UNCHANGED process /\ queried' = queried /\ request[r].step = "commit"
  BY DEF Commit, At
<1>2. CASE RollBack(r)
  BY <1>1, <1>2, RollBackPreserves
<1>3. CASE ~RollBack(r)
  <2>1. /\ changes' = IF "change" \in staged[r] THEN changes \cup {r} ELSE changes
        /\ audits' = IF "audit" \in staged[r] THEN audits \cup {r} ELSE audits
        /\ staged' = [staged EXCEPT ![r] = {}]
        /\ held' = held \ {r}
        /\ Go(r, "optional audit") \/ Answer(r, "error")
    BY <1>3 DEF Commit, Released
  <2>2. r \notin changes /\ r \notin audits
    BY <1>1 DEF IInv, OfRequest, CommittedAgrees
  <2>3. /\ "audit" \in staged[r] <=> ("change" \in staged[r] /\ Ep(r).Audit = "required")
        /\ "change" \in staged[r] \/ request[r].endpoint = "auth.logout"
    BY <1>1 DEF IInv, OfRequest, TransactionAgrees
  <2>4. "optional audit" \in Step /\ "error" \in Answers /\ deployment' = deployment
    BY <1>1 DEF Step, Answers, process
  <2>5. request'[r].step \in {"optional audit", "done"}
    BY <2>1, <2>4, GoesOn, IsAnswered DEF IInv
  <2>6. /\ staged' \in [Request -> SUBSET {"change", "audit"}] /\ staged'[r] = {}
        /\ \A q \in Request : q # r => staged'[q] = staged[q]
    BY <2>1 DEF IInv, Shape
  <2>7. /\ r \in changes' <=> "change" \in staged[r]
        /\ r \in audits' <=> "audit" \in staged[r]
        /\ changes' \subseteq changes \cup {r} /\ audits' \subseteq audits \cup {r}
        /\ \A q \in Request : q # r =>
             (q \in held' <=> q \in held)
               /\ (q \in changes' <=> q \in changes) /\ (q \in audits' <=> q \in audits)
    BY <2>1, <2>2
  <2>8. held' \subseteq held /\ r \notin held'
    BY <2>1
  <2>9. /\ request'[r].step # "commit"
        /\ r \in audits' <=> (r \in changes' /\ Ep(r).Audit = "required")
        /\ r \in changes' \/ request[r].endpoint = "auth.logout"
    BY <2>3, <2>5, <2>7
  <2>10. \A q \in Request : q # r =>
           staged'[q] = staged[q] /\ (q \in held' <=> q \in held)
             /\ (q \in changes' <=> q \in changes) /\ (q \in audits' <=> q \in audits)
    BY <2>6, <2>7
  <2>11. Go(r, "commit") \/ Go(r, "optional audit") \/ Answer(r, "error")
    BY <2>1
  <2> QED
    BY <1>1, <2>6, <2>7, <2>8, <2>9, <2>10, <2>11, TransactionStep
<1> QED
  BY <1>2, <1>3

-----------------------------------------------------------------------------
(* Steps of the process.                                                   *)

(* A step of the process leaves every request as it is. *)
LEMMA ProcessStep ==
  ASSUME IInv, UNCHANGED <<deployment, request, data, queried>>,
         phase' \in Starting \cup {"serving", "draining", "closing", "exited"},
         open' \subseteq {"telemetry", "database", "redis"}, failed' \in BOOLEAN,
         phase' \in {"serving", "draining"} => Resolvable(settings),
         "database" \notin open' => held = {} \/ settings.DatabaseProvider = "mysql",
         phase' \in {"closing", "exited"} /\ Active # {} => failed',
         phase' = "exited" => open' = {}
  PROVE  IInv'
<1>1. /\ held' = held /\ staged' = staged /\ changes' = changes /\ audits' = audits
      /\ deployment' = deployment /\ request' = request /\ queried' = queried
  BY DEF data
<1>2. settings' = settings /\ Active' = Active
  BY <1>1 DEF settings, Active
<1>3. Shape'
  BY <1>1 DEF IInv, Shape
<1>4. OfProcess'
  BY <1>1, <1>2 DEF OfProcess
<1>5. \A q \in Request : OfRequest(q)'
  BY <1>1, Undisturbed DEF IInv
<1> QED
  BY <1>3, <1>4, <1>5 DEF IInv

LEMMA StartPreserves == IInv /\ Start => IInv'
<1> SUFFICES ASSUME IInv, Start PROVE IInv'
  OBVIOUS
<1>1. UNCHANGED <<deployment, request, data, queried>> /\ phase \in Starting
  BY DEF Start, LoadConfig, SetupTelemetry, ConnectDatabase, ConnectRedis, OpenStorage, Listen,
         Abort, Proceed, Starting
<1>2. open \subseteq {"telemetry", "database", "redis"} /\ failed \in BOOLEAN
  BY DEF IInv, Shape
<1>3. "database" \notin open => held = {} \/ settings.DatabaseProvider = "mysql"
  BY DEF IInv, OfProcess
<1>4. \/ phase' = "closing" /\ failed' = TRUE /\ (open' = open \/ open' = open \cup {"redis"})
      \/ /\ phase' \in Starting /\ failed' = failed
         /\ \E opened \in {{}, {"telemetry"}, {"database"}, {"redis"}} : open' = open \cup opened
      \/ phase' = "serving" /\ failed' = failed /\ open' = open /\ Resolvable(settings)
  BY DEF Start, LoadConfig, SetupTelemetry, ConnectDatabase, ConnectRedis, OpenStorage, Listen,
         Abort, Proceed, Starting
<1>5. open \subseteq open' /\ open' \subseteq {"telemetry", "database", "redis"}
  BY <1>2, <1>4
<1>6. "database" \notin open' => held = {} \/ settings.DatabaseProvider = "mysql"
  BY <1>3, <1>5
<1>7. /\ phase' \in Starting \cup {"serving", "closing"} /\ failed' \in BOOLEAN
      /\ phase' \in {"serving", "draining"} => Resolvable(settings)
      /\ phase' \in {"closing", "exited"} => failed'
      /\ phase' # "exited"
  BY <1>2, <1>4 DEF Starting
<1> QED
  BY <1>1, <1>5, <1>6, <1>7, ProcessStep

LEMMA StopPreserves == IInv /\ (Terminate \/ ListenFails \/ Stop) => IInv'
<1> SUFFICES ASSUME IInv, Terminate \/ ListenFails \/ Stop PROVE IInv'
  OBVIOUS
<1>1. UNCHANGED <<deployment, request, data, queried>>
  BY DEF Terminate, ListenFails, Abort, Stop, Drain, DrainExpires, CloseRedis, CloseDatabase,
         CloseTelemetry, Close, Exit
<1>2. open \subseteq {"telemetry", "database", "redis"} /\ failed \in BOOLEAN
  BY DEF IInv, Shape
<1>3. /\ phase \in {"serving", "draining"} => Resolvable(settings)
      /\ "database" \notin open => held = {} \/ settings.DatabaseProvider = "mysql"
      /\ phase \in {"closing", "exited"} /\ Active # {} => failed
  BY DEF IInv, OfProcess
<1>4. CASE Terminate \/ ListenFails \/ Drain \/ DrainExpires
  <2>1. /\ open' = open /\ phase \in {"serving", "draining"}
        /\ \/ phase' = "draining" /\ failed' = failed
           \/ phase' = "closing" /\ failed' = TRUE
           \/ phase' = "closing" /\ failed' = failed /\ Active = {}
    BY <1>4 DEF Terminate, ListenFails, Abort, Drain, Drained, DrainExpires
  <2> QED
    BY <1>1, <1>2, <1>3, <2>1, ProcessStep
<1>5. CASE CloseRedis \/ CloseTelemetry
  <2>1. /\ phase = "closing" /\ phase' = phase /\ failed' = failed
        /\ open' = open \ {"redis"} \/ open' = open \ {"telemetry"}
    BY <1>5 DEF CloseRedis, CloseTelemetry, Close
  <2> QED
    BY <1>1, <1>2, <1>3, <2>1, ProcessStep
<1>6. CASE CloseDatabase
  <2>1. /\ phase = "closing" /\ phase' = phase /\ failed' = failed
        /\ open' = open \ {"database"}
        /\ held = {} \/ settings.DatabaseProvider = "mysql"
    BY <1>6 DEF CloseDatabase, Close
  <2> QED
    BY <1>1, <1>2, <1>3, <2>1, ProcessStep
<1>7. CASE Exit
  <2>1. phase = "closing" /\ phase' = "exited" /\ failed' = failed /\ open' = open /\ open = {}
    BY <1>7 DEF Exit
  <2> QED
    BY <1>1, <1>2, <1>3, <2>1, ProcessStep
<1> QED
  BY <1>4, <1>5, <1>6, <1>7 DEF Stop

-----------------------------------------------------------------------------

LEMMA StepPreserves == IInv /\ [Next]_vars => IInv'
<1> SUFFICES ASSUME IInv, [Next]_vars PROVE IInv'
  OBVIOUS
<1>1. CASE UNCHANGED vars
  <2>1. /\ UNCHANGED <<deployment, request, data, queried>>
        /\ phase' = phase /\ open' = open /\ failed' = failed
    BY <1>1 DEF vars, process
  <2>2. /\ phase \in Starting \cup {"serving", "draining", "closing", "exited"}
        /\ open \subseteq {"telemetry", "database", "redis"} /\ failed \in BOOLEAN
    BY DEF IInv, Shape
  <2>3. OfProcess
    BY DEF IInv
  <2> QED
    BY <2>1, <2>2, <2>3, ProcessStep DEF OfProcess
<1>2. CASE Start
  BY <1>2, StartPreserves
<1>3. CASE Terminate \/ ListenFails \/ Stop
  BY <1>3, StopPreserves
<1>4. ASSUME NEW r \in Request, NEW endpoint \in deployment.endpoints, Arrive(r, endpoint)
      PROVE  IInv'
  BY <1>4, ArrivePreserves
<1>5. ASSUME NEW r \in Request, Handle(r)
      PROVE  IInv'
  BY <1>5, EnforcePreserves, AuditPreserves, BeginPreserves, ChangePreserves, CommitPreserves
     DEF Handle
<1> QED
  BY <1>1, <1>2, <1>3, <1>4, <1>5 DEF Next

LEMMA Inductive == Spec => []IInv
BY InitEstablishes, StepPreserves, PTL DEF Spec

-----------------------------------------------------------------------------

(* Every variable keeps its type; what is written and not committed belongs to
   a transaction that is about to commit (db.go:95-109). *)
THEOREM TypeCorrect == Spec => []TypeOK
<1>1. IInv => TypeOK
  <2> SUFFICES ASSUME IInv PROVE TypeOK
    OBVIOUS
  <2>1. ASSUME NEW r \in Request
        PROVE  /\ request[r].step \in Step
               /\ request[r].endpoint \in deployment.endpoints \cup {""}
               /\ request[r].answer \in Answers
               /\ staged[r] \subseteq IF request[r].step = "commit" THEN {"change", "audit"} ELSE {}
    BY DEF IInv, Shape, OfRequest, TransactionAgrees
  <2> QED
    BY <2>1 DEF IInv, Shape, TypeOK, Answers
<1> QED
  BY <1>1, Inductive, PTL

(* Whatever overrides of the registry Resolve accepts: rows of a required audit
   and changes come together, and no mutation but a logout of an ended session
   reports success without them (audit.go:138-164, registry.go:106-118). *)
THEOREM AuditAlwaysAgrees == Spec => []AuditAgrees
<1>1. IInv => AuditAgrees
  <2> SUFFICES ASSUME IInv, NEW r \in Request, request[r].endpoint # ""
               PROVE  /\ Mutation(r) => /\ r \in audits => r \in changes
                                        /\ r \in Answered("ok") /\ request[r].endpoint # "auth.logout"
                                             => r \in changes
                      /\ Ep(r).Audit = "required" => /\ r \in changes => r \in audits
                                                     /\ r \in Answered("ok") => Mutation(r)
                      /\ Ep(r).Audit = "none" => r \notin audits
    BY DEF AuditAgrees
  <2> QED
    BY DEF IInv, OfRequest, CommittedAgrees, Answered
<1> QED
  BY <1>1, Inductive, PTL

(* A request rejected for its token, by the limiter or because the limiter
   cannot answer has made no query (registration.go:44-66). *)
THEOREM RejectedCostNothing == Spec => []RejectedNeverQueries
<1>1. IInv => RejectedNeverQueries
  BY DEF IInv, OfRequest, QueriesAgree, RejectedNeverQueries, Answered
<1> QED
  BY <1>1, Inductive, PTL

(* Dependencies are closed under a request only by a process that reports an
   error, and a process exits with everything closed and, where the pool waits,
   no connection out (main.go:47-75, 99-125). *)
THEOREM FewOutlived == Spec => []RequestsOutlived
<1>1. IInv => RequestsOutlived
  BY DEF IInv, OfProcess, RequestsOutlived
<1> QED
  BY <1>1, Inductive, PTL
=============================================================================
