--------------------------- MODULE Configuration ---------------------------
(* What an environment must say for a process to start: config.Load with its
   parts, and the endpoint policies httpapi.Resolve derives from it.  There is
   no state here; RateLimiter and ApiServer take their settings from an
   environment this module accepts.

   An environment is a function from keys to values.  A value is what the text
   of the variable stands for: a number, a Boolean, a word, a record of the
   parts a check looks at.  Garbage is a text that cannot be read as what its
   key asks for, or does not match its pattern; "" is an empty text. *)
EXTENDS Integers, FiniteSets, TLC

CONSTANT Garbage

---------------------------------------------------------------------------
(* Reading *)

(* LoadEnvironment: a variable of the process, an empty one too, wins over the
   .env file. *)
LoadEnvironment(process, file) == process @@ file

(* getenv *)
Getenv(env, key, fallback) == IF key \in DOMAIN env THEN env[key] ELSE fallback

RateGroup == {"auth", "public", "internal"}

WindowKey ==
  [auth |-> "RATE_LIMIT_AUTH_WINDOW_MS", public |-> "RATE_LIMIT_PUBLIC_WINDOW_MS",
   internal |-> "RATE_LIMIT_INTERNAL_WINDOW_MS"]
MaxKey ==
  [auth |-> "RATE_LIMIT_AUTH_MAX", public |-> "RATE_LIMIT_PUBLIC_MAX",
   internal |-> "RATE_LIMIT_INTERNAL_MAX"]
DefaultMax == [auth |-> 20, public |-> 100, internal |-> 300]

(* Load: c.Rates *)
Rates(env) ==
  [g \in RateGroup |-> [WindowMS |-> Getenv(env, WindowKey[g], 900000),
                        Max |-> Getenv(env, MaxKey[g], DefaultMax[g])]]

(* loadOperations: fallback, least and greatest value of each number *)
OperationBounds ==
  [WORKER_CONCURRENCY |-> <<2, 1, 16>>, WORKER_POLL_SECONDS |-> <<3, 1, 300>>,
   WORKER_LEASE_SECONDS |-> <<60, 30, 3600>>, WORKER_RENEW_SECONDS |-> <<20, 1, 1800>>,
   WORKER_MAX_ATTEMPTS |-> <<5, 1, 5>>, CLEANUP_BATCH_SIZE |-> <<500, 1, 5000>>,
   CLEANUP_SESSION_DAYS |-> <<30, 1, 3650>>, CLEANUP_OUTBOX_DAYS |-> <<30, 1, 3650>>,
   CLEANUP_AUDIT_DAYS |-> <<365, 1, 36500>>]
Operation(env, key) == Getenv(env, key, OperationBounds[key][1])

(* The absent DATABASE_URL, and a secret: how long it is, and whether it still
   holds the word of the example file. *)
NoURL == [scheme |-> "", user |-> 0, name |-> 0]
NoSecret == [length |-> 0, placeholder |-> FALSE]

(* Load: the settings with their defaults.  Those nothing is asked of are left
   out (issuer, audience, MIME types, local directory, S3 endpoint). *)
Settings(env) ==
  LET environment == Getenv(env, "NODE_ENV", "development") IN
  [Environment |-> environment,
   Port |-> Getenv(env, "PORT", 8080),
   DatabaseURL |-> Getenv(env, "DATABASE_URL", NoURL),
   DatabaseProvider |-> Getenv(env, "DB_PROVIDER", "postgresql"),
   JWTSecret |-> Getenv(env, "JWT_SECRET", NoSecret),
   RefreshIdleDays |-> Getenv(env, "REFRESH_TOKEN_IDLE_DAYS", 30),
   RefreshAbsoluteDays |-> Getenv(env, "REFRESH_TOKEN_ABSOLUTE_DAYS", 90),
   CORSOrigins |-> Getenv(env, "CORS_ORIGINS",
                          IF environment = "production" THEN {} ELSE {"local"}),
   RedisURL |-> Getenv(env, "REDIS_URL", ""),
   RedisNamespace |-> Getenv(env, "REDIS_NAMESPACE", "modular-golang"),
   CacheEnabled |-> Getenv(env, "CACHE_ENABLED", FALSE),
   RateStore |-> Getenv(env, "RATE_LIMIT_STORE", "memory"),
   Rates |-> Rates(env),
   InstanceCount |-> Getenv(env, "APP_INSTANCE_COUNT", 1),
   TrustProxyHops |-> Getenv(env, "TRUST_PROXY_HOPS", 0),
   Policies |-> Getenv(env, "ENDPOINT_POLICIES_JSON", <<>>),
   UploadEnabled |-> Getenv(env, "UPLOAD_ENABLED", TRUE),
   UploadStorage |-> Getenv(env, "UPLOAD_STORAGE", "local"),
   UploadMaxBytes |-> Getenv(env, "UPLOAD_MAX_BYTES", 10485760),
   UploadOrphanGraceHours |-> Getenv(env, "UPLOAD_ORPHAN_GRACE_HOURS", 24),
   DocsDisabled |-> ~Getenv(env, "DOCS_ENABLED", environment # "production"),
   RefreshTransport |-> Getenv(env, "REFRESH_TOKEN_TRANSPORT", "body"),
   RefreshCookieSecure |-> Getenv(env, "REFRESH_COOKIE_SECURE", TRUE),
   OTelEnabled |-> Getenv(env, "OTEL_ENABLED", FALSE),
   SMTPEnabled |-> Getenv(env, "SMTP_ENABLED", FALSE)]

---------------------------------------------------------------------------
(* Checking *)

NumericKey ==
  {"PORT", "SMTP_PORT", "APP_INSTANCE_COUNT", "TRUST_PROXY_HOPS", "REFRESH_TOKEN_IDLE_DAYS",
   "REFRESH_TOKEN_ABSOLUTE_DAYS", "UPLOAD_ORPHAN_GRACE_HOURS", "UPLOAD_MAX_BYTES"}
    \cup {WindowKey[g] : g \in RateGroup} \cup {MaxKey[g] : g \in RateGroup}
    \cup DOMAIN OperationBounds
BooleanKey ==
  {"SMTP_ENABLED", "SMTP_SECURE", "CACHE_ENABLED", "UPLOAD_ENABLED", "DOCS_ENABLED",
   "REFRESH_COOKIE_SECURE", "S3_FORCE_PATH_STYLE", "OTEL_ENABLED", "CLEANUP_AUDIT_ENABLED"}

(* integer makes a number of a text, or refuses it. *)
Numeric(env) == \A key \in DOMAIN env \cap NumericKey : env[key] # Garbage => env[key] \in Int

(* integer and boolean *)
Parses(env) == \A key \in DOMAIN env \cap (NumericKey \cup BooleanKey) : env[key] # Garbage

(* SMTP, when enabled, has a host, a sender that is an address, a port, and a
   password exactly when it has a user. *)
SmtpUsable(env) ==
  Getenv(env, "SMTP_ENABLED", FALSE) =>
    /\ Getenv(env, "SMTP_HOST", "") # ""
    /\ Getenv(env, "SMTP_FROM", "") \notin {"", Garbage}
    /\ Getenv(env, "SMTP_PORT", 587) \in 1..65535
    /\ (Getenv(env, "SMTP_USER", "") = "") <=> (Getenv(env, "SMTP_PASSWORD", "") = "")

LifetimesUsable(c) ==
  /\ c.RefreshIdleDays >= 1
  /\ c.RefreshAbsoluteDays <= 3650
  /\ c.RefreshAbsoluteDays >= c.RefreshIdleDays

(* A cookie for other sites is only kept by browsers if it is Secure. *)
CookieUsable(env) ==
  LET sameSite == Getenv(env, "REFRESH_COOKIE_SAMESITE", "lax") IN
  /\ Getenv(env, "REFRESH_TOKEN_TRANSPORT", "body") \in {"body", "cookie"}
  /\ Getenv(env, "REFRESH_COOKIE_NAME", "refresh_token") \notin {"", Garbage}
  /\ sameSite \in {"lax", "strict", "none"}
  /\ Getenv(env, "REFRESH_COOKIE_DOMAIN", "") # Garbage
  /\ sameSite = "none" => Getenv(env, "REFRESH_COOKIE_SECURE", TRUE)

RatesUsable(c) == \A g \in RateGroup : c.Rates[g].WindowMS > 0 /\ c.Rates[g].Max > 0

(* Origins are bare http(s) origins; in production somebody must have named one. *)
OriginsUsable(c) ==
  /\ Garbage \notin c.CORSOrigins
  /\ c.Environment = "production" => c.CORSOrigins # {}

Between(least, number, greatest) == least <= number /\ number <= greatest

NumbersUsable(c) ==
  /\ Between(1, c.Port, 65535)
  /\ c.InstanceCount >= 1
  /\ c.TrustProxyHops >= 0
  /\ Between(1, c.UploadMaxBytes, 104857600)
  /\ c.UploadOrphanGraceHours >= 1

SecretUsable(c) ==
  /\ c.JWTSecret.length >= 32
  /\ c.Environment = "production" => ~c.JWTSecret.placeholder

(* The URL is for the provider and names a user and a database with lengths
   the provider allows (0: not an identifier).  A generated project is for one
   provider; marker is its backend-template.json, "" without that file. *)
DatabaseUsable(c, marker) ==
  /\ c.DatabaseProvider \in {"postgresql", "mysql"}
  /\ c.DatabaseURL.scheme \in IF c.DatabaseProvider = "mysql" THEN {"mysql"}
                              ELSE {"postgresql", "postgres"}
  /\ c.DatabaseURL.user \in 1..(IF c.DatabaseProvider = "mysql" THEN 32 ELSE 63)
  /\ c.DatabaseURL.name \in 1..(IF c.DatabaseProvider = "mysql" THEN 64 ELSE 63)
  /\ marker \in {"", c.DatabaseProvider}

\* Mutant: any number of instances may count in memory.
AnyStore(c) == TRUE

(* Instances that do not share memory must share Redis. *)
InstancesShareLimits(c) == c.InstanceCount > 1 => c.RateStore # "memory"

NeedsRedis(c) == c.CacheEnabled \/ c.RateStore = "redis"

RedisUsable(c) ==
  /\ c.RedisNamespace \notin {"", Garbage}
  /\ c.RateStore \in {"memory", "redis"}
  /\ InstancesShareLimits(c)
  /\ NeedsRedis(c) => c.RedisURL # ""

StorageUsable(env, c) ==
  /\ c.UploadStorage \in {"local", "s3"}
  /\ c.UploadEnabled /\ c.UploadStorage = "s3" =>
       \A key \in {"S3_REGION", "S3_BUCKET", "S3_ACCESS_KEY_ID", "S3_SECRET_ACCESS_KEY"} :
         Getenv(env, key, "") # ""

TelemetryUsable(env, c) ==
  c.OTelEnabled =>
    /\ Getenv(env, "OTEL_SERVICE_NAME", "modular-golang") \notin {"", Garbage}
    /\ Getenv(env, "OTEL_EXPORTER_OTLP_ENDPOINT", "http") \notin {"", Garbage}

(* loadOperations: numbers in range, deletion of audit rows only after a number
   of days somebody wrote down, and two renewals within a lease. *)
OperationsUsable(env) ==
  /\ \A key \in DOMAIN OperationBounds :
       Operation(env, key) \in OperationBounds[key][2]..OperationBounds[key][3]
  /\ Getenv(env, "CLEANUP_AUDIT_ENABLED", FALSE) => "CLEANUP_AUDIT_DAYS" \in DOMAIN env
  /\ Operation(env, "WORKER_RENEW_SECONDS") * 2 < Operation(env, "WORKER_LEASE_SECONDS")

(* Load *)
Accepted(env, marker) ==
  LET c == Settings(env) IN
  /\ Parses(env)
  /\ SmtpUsable(env)
  /\ LifetimesUsable(c)
  /\ CookieUsable(env)
  /\ RatesUsable(c)
  /\ OriginsUsable(c)
  /\ c.Policies # Garbage
  /\ NumbersUsable(c)
  /\ SecretUsable(c)
  /\ DatabaseUsable(c, marker)
  /\ c.Environment \in {"development", "production", "test"}
  /\ RedisUsable(c)
  /\ StorageUsable(env, c)
  /\ TelemetryUsable(env, c)
  /\ OperationsUsable(env)

---------------------------------------------------------------------------
(* Endpoints *)

Endpoint(method, public, audit, cache, rate, capability) ==
  [Method |-> method, Public |-> public, Audit |-> audit, Cache |-> cache, Rate |-> rate,
   AuditCapability |-> capability]

Probe == {"health.get", "live.get", "ready.get"}
Docs == {"docs.ui", "docs.spec", "docs.moduleSpec"}
Create == {"user.create", "role.create", "role.assignPermissions", "permission.create",
           "upload.create", "notification.create"}
Update == {"user.update", "role.update", "permission.update", "notification.read"}
Delete == {"user.delete", "role.delete", "permission.delete"}
Cached == {"user.list", "user.get", "role.list", "role.get", "permission.list",
           "permission.get", "upload.get"}
Own == {"auth.me", "notification.list"}

Register == {"auth.register", "auth.refresh"}
Session == {"auth.login", "auth.logout"}
Stream == {"notification.stream"}

EndpointID ==
  Probe \cup Docs \cup Register \cup Session \cup Create \cup Update \cup Delete
    \cup Cached \cup Own \cup Stream

Definition(id) ==
  CASE id \in Probe \cup Docs -> Endpoint("GET", TRUE, "none", "off", "public", "read")
    [] id \in Register -> Endpoint("POST", TRUE, "required", "off", "auth", "transaction")
    [] id \in Session -> Endpoint("POST", TRUE, "optional", "off", "auth", "transaction")
    [] id \in Create -> Endpoint("POST", FALSE, "required", "off", "internal", "transaction")
    [] id \in Update -> Endpoint("PATCH", FALSE, "required", "off", "internal", "transaction")
    [] id \in Delete -> Endpoint("DELETE", FALSE, "required", "off", "internal", "transaction")
    [] id \in Cached -> Endpoint("GET", FALSE, "none", "read", "internal", "read")
    [] id \in Own -> Endpoint("GET", FALSE, "none", "off", "internal", "read")
    [] id \in Stream -> Endpoint("GET", FALSE, "none", "off", "internal", "none")

(* Definitions: the rows of the registry, those that differ only in path,
   summary, permission and status together.  IDs and routes are distinct. *)
Definitions == [id \in EndpointID |-> Definition(id)]

\* Mutant: any endpoint can be asked for any audit.
AnyAudit(base, audit) == audit \in {"required", "optional", "none"}

(* Nobody can require an audit row of an endpoint that has no transaction to
   put it in, or any of one that writes none at all. *)
AuditSupported(base, audit) ==
  /\ audit \in {"required", "optional", "none"}
  /\ audit = "required" => base.AuditCapability = "transaction"
  /\ audit # "none" => base.AuditCapability # "none"

(* Resolve: an override, whose empty fields keep the registry's value *)
Allowed(c, base, override) ==
  /\ override.audit # "" => AuditSupported(base, override.audit)
  /\ override.rateLimit # "" => override.rateLimit \in DOMAIN c.Rates
  /\ override.cache # "" => /\ override.cache \in {"read", "off"}
                            /\ override.cache = "read" => base.Method = "GET"

Resolvable(c) ==
  \A id \in DOMAIN c.Policies :
    id \in DOMAIN Definitions /\ Allowed(c, Definitions[id], c.Policies[id])

Overridden(value, override) == IF override = "" THEN value ELSE override

(* Resolve: the policy of an endpoint *)
Policy(c, id) ==
  LET base == Definitions[id] IN
  IF id \notin DOMAIN c.Policies THEN base
  ELSE [base EXCEPT !.Audit = Overridden(@, c.Policies[id].audit),
                    !.Rate = Overridden(@, c.Policies[id].rateLimit),
                    !.Cache = Overridden(@, c.Policies[id].cache)]
=============================================================================
