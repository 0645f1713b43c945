---------------------------- MODULE MCApiServer ----------------------------
(* The deployments of ApiServer that TLC checks. *)
EXTENDS ApiServer

Required ==
  [DATABASE_URL |-> [scheme |-> "postgres", user |-> 8, name |-> 8],
   JWT_SECRET |-> [length |-> 32, placeholder |-> FALSE]]

Redis == [RATE_LIMIT_STORE |-> "redis", REDIS_URL |-> "url"]
Caching == [CACHE_ENABLED |-> TRUE, REDIS_URL |-> "url"]
MySQL ==
  [DB_PROVIDER |-> "mysql", DATABASE_URL |-> [scheme |-> "mysql", user |-> 32, name |-> 64]]
Override(audit, rate) == [audit |-> audit, rateLimit |-> rate, cache |-> ""]
Overrides(id, override) == [ENDPOINT_POLICIES_JSON |-> id :> override]

Deployment(given, endpoints) ==
  [environment |-> LoadEnvironment(given, Required), marker |-> "", endpoints |-> endpoints]

\* Started as documented ...
Usual ==
  {Deployment(<<>>, {"health.get", "ready.get", "user.create", "notification.stream"}),
   Deployment(Redis, {"auth.login", "auth.logout", "auth.refresh"}),
   Deployment(Caching, {"user.get", "user.delete"}),
   Deployment(MySQL, {"user.update"})}

\* ... with policies of one's own, some of which Resolve refuses ...
Customized ==
  {Deployment(Overrides(id, override), {id}) :
     id \in {"user.create", "user.get", "notification.stream"},
     override \in {Override(audit, "") : audit \in {"required", "optional", "none"}}
                   \cup {Override("", "auth"), Override("", "none")}}
  \cup {Deployment(Overrides("auth.logout", Override("required", "public")), {"auth.logout"}),
        Deployment(Overrides("unknown", Override("", "")), {})}

\* ... in production without documentation, and in ways Load refuses.
Production == [NODE_ENV |-> "production", CORS_ORIGINS |-> {"https"}]
Refused ==
  {[NODE_ENV |-> "production"], [DB_PROVIDER |-> "mysql"], [RATE_LIMIT_STORE |-> "redis"],
   [PORT |-> 65536], [UPLOAD_STORAGE |-> "s3"], [SMTP_ENABLED |-> TRUE],
   [WORKER_RENEW_SECONDS |-> 30], [CLEANUP_AUDIT_ENABLED |-> TRUE],
   [REFRESH_COOKIE_SAMESITE |-> "none", REFRESH_COOKIE_SECURE |-> FALSE],
   [REFRESH_TOKEN_IDLE_DAYS |-> 91], [OTEL_ENABLED |-> TRUE, OTEL_SERVICE_NAME |-> Garbage],
   [RATE_LIMIT_AUTH_MAX |-> 0], [CACHE_ENABLED |-> Garbage], [ENDPOINT_POLICIES_JSON |-> Garbage]}

MCDeployments ==
  Usual \cup Customized \cup {Deployment(Production, {"docs.ui"})}
    \cup {Deployment(given, {"health.get"}) : given \in Refused}

=============================================================================
