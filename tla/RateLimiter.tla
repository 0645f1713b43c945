---------------------------- MODULE RateLimiter ----------------------------
(* Admission by ratelimit.Limiter, as enforce (httpapi/registration.go) uses
   it: fixed windows, counted per client in the memory of each instance or for
   all of them in Redis.  A request reads its clock to find its window and
   counts itself later, perhaps in the next window; clocks of instances differ;
   Redis forgets a key when it expires, memory when it is full; a call to Redis
   may fail with or without having counted.

   Time passes in ticks of the windows' unit.  A client is a pair of a rate
   group and a key: one address or one user. *)
EXTENDS Configuration

CONSTANTS
  Client,   \* <<rate group, key>>
  Call,     \* slots for requests being admitted at the same time
  Scenes,   \* environments, each with the clients that come
  Cap,      \* maxMemoryBuckets
  Skew,     \* clocks of instances are ahead of Redis by at most this
  Latency,  \* ticks between reading the clock and counting, at most
  Horizon   \* bound on time

ASSUME RateLimiterAssumption ==
  /\ \A c \in Client : c[1] \in RateGroup
  /\ Cap \in Nat \ {0}
  /\ \A s \in Scenes : s.clients \subseteq Client /\ Numeric(s.environment)
  /\ Skew \in Nat /\ Latency \in Nat /\ Horizon \in Nat

VARIABLES
  settings,  \* what Load made of an environment it accepts
  clients,   \* those that come
  skew,      \* how far the clock of each instance is ahead
  now,
  counters,  \* Limiter.memory of each instance, or the keys in Redis
  call,      \* requests on their way through Allow
  served,    \* history: requests of a client let through before each tick
  delayed,   \* history: some request was counted after the tick of its clock
  excused    \* history: clients the limiter gave up counting

vars == <<settings, clients, skew, now, counters, call, served, delayed, excused>>

---------------------------------------------------------------------------
Instance == 1..settings.InstanceCount

(* NewServer hands the client to the limiter only for this store. *)
Shared == settings.RateStore = "redis"
Place(i) == IF Shared THEN "redis" ELSE i
Places == IF Shared THEN {"redis"} ELSE Instance

Rate(c) == settings.Rates[c[1]]

Idle == [phase |-> "idle"]
Reading(c, i) ==
  [phase |-> "counting", client |-> c, instance |-> i, since |-> now,
   window |-> (now + skew[i]) \div Rate(c).WindowMS]

Key(r) == <<call[r].client, call[r].window>>

Restricted(f, S) == [k \in S |-> f[k]]

Stored(buckets, key, bucket) ==
  [k \in DOMAIN buckets \cup {key} |-> IF k = key THEN bucket ELSE buckets[k]]

(* Counts above the limit are all alike. *)
Count(bucket, c) == IF bucket.count > Rate(c).Max THEN bucket.count ELSE bucket.count + 1

\* Mutant: the first request of a window is not counted.
CountedFromZero(buckets, key) ==
  IF key \in DOMAIN buckets
    THEN [buckets[key] EXCEPT !.count = Count(buckets[key], key[1])]
    ELSE [count |-> 0, expires |-> now + Rate(key[1]).WindowMS]

(* The bucket after counting once more: a new one expires a window from now. *)
Counted(buckets, key) ==
  IF key \in DOMAIN buckets
    THEN [buckets[key] EXCEPT !.count = Count(buckets[key], key[1])]
    ELSE [count |-> 1, expires |-> now + Rate(key[1]).WindowMS]

Low == (Cap * 9) \div 10

\* Mutant: only expired buckets go.
ExpiredOnly(buckets) ==
  IF Cardinality(DOMAIN buckets) < Cap THEN {buckets}
  ELSE {Restricted(buckets, {k \in DOMAIN buckets : now <= buckets[k].expires})}

(* prune: when the map is full, expired buckets go, and then arbitrary ones
   down to 90% of the cap.  The maps it may leave. *)
Pruned(buckets) ==
  IF Cardinality(DOMAIN buckets) < Cap THEN {buckets}
  ELSE LET live == {k \in DOMAIN buckets : now <= buckets[k].expires}
           size == IF Cardinality(live) <= Low THEN Cardinality(live) ELSE Low
       IN {Restricted(buckets, K) : K \in {S \in SUBSET live : Cardinality(S) = size}}

(* The clients that lost a bucket that had not expired *)
Evicted(before, after) ==
  {k[1] : k \in {key \in DOMAIN before \ DOMAIN after : now <= before[key].expires}}

(* Redis drops a key at its expiry. *)
Unexpired(keys, time) == Restricted(keys, {k \in DOMAIN keys : time < keys[k].expires})

NoneServed == [t \in 0..(Horizon + 1) |-> 0]
OneMore(served_before) ==
  [t \in 0..(Horizon + 1) |-> IF t > now THEN served_before[t] + 1 ELSE served_before[t]]

---------------------------------------------------------------------------
Init ==
  /\ \E s \in Scenes : /\ Accepted(s.environment, "")
                       /\ settings = Settings(s.environment)
                       /\ clients = s.clients
  /\ skew \in {s \in [Instance -> 0..Skew] : s[1] = 0}
  /\ now = 0
  /\ counters = [p \in Places |-> <<>>]
  /\ call = [r \in Call |-> Idle]
  /\ served = [c \in clients |-> NoneServed]
  /\ delayed = FALSE
  /\ excused = {}

(* Allow: the window the request belongs to *)
ReadClock(r, c, i) ==
  /\ call[r] = Idle
  /\ call' = [call EXCEPT ![r] = Reading(c, i)]
  /\ UNCHANGED <<settings, clients, skew, now, counters, served, delayed, excused>>

(* enforce: the request goes on if its count is within the limit.  A client the
   limiter gave up counting is not followed any further. *)
Decide(r, bucket, given_up) ==
  LET c == call[r].client IN
  /\ excused' = excused \cup given_up
  /\ served' = [d \in clients |->
                  IF d \in excused' THEN NoneServed
                  ELSE IF d = c /\ bucket.count <= Rate(c).Max
                    THEN OneMore(served[c]) ELSE served[d]]
  /\ delayed' = (delayed \/ call[r].since < now)
  /\ call' = [call EXCEPT ![r] = Idle]

(* Allow without Redis, under its mutex *)
CountInMemory(r) ==
  LET place == call[r].instance IN
  /\ call[r].phase = "counting"
  /\ ~Shared
  /\ \E kept \in Pruned(counters[place]) :
       LET bucket == Counted(kept, Key(r)) IN
       /\ counters' = [counters EXCEPT ![place] = Stored(kept, Key(r), bucket)]
       /\ Decide(r, bucket, Evicted(counters[place], kept))
  /\ UNCHANGED <<settings, clients, skew, now>>

(* Allow with Redis: the script runs as one step *)
CountInRedis(r) ==
  LET bucket == Counted(counters["redis"], Key(r)) IN
  /\ call[r].phase = "counting"
  /\ Shared
  /\ counters' = [counters EXCEPT !["redis"] = Stored(@, Key(r), bucket)]
  /\ Decide(r, bucket, {})
  /\ UNCHANGED <<settings, clients, skew, now>>

\* Mutant: every group is served without an answer of the store.
NeverCloses(group) == FALSE

(* enforce: without an answer of the store this group is refused *)
FailsClosed(group) == group = "auth"

(* Allow returns an error; the script may have run. *)
StoreFails(r) ==
  LET c == call[r].client IN
  /\ call[r].phase = "counting"
  /\ Shared
  /\ counters' \in {counters,
                    [counters EXCEPT !["redis"] = Stored(@, Key(r), Counted(@, Key(r)))]}
  /\ IF c[1] = "auth"
       THEN /\ served' = IF FailsClosed(c[1]) THEN served ELSE [served EXCEPT ![c] = OneMore(@)]
            /\ UNCHANGED excused
       ELSE /\ served' = [served EXCEPT ![c] = NoneServed]
            /\ excused' = excused \cup {c}
  /\ call' = [call EXCEPT ![r] = Idle]
  /\ UNCHANGED <<settings, clients, skew, now, delayed>>

(* Time passes; a request is counted or fails within its latency. *)
Tick ==
  /\ now < Horizon
  /\ \A r \in Call : call[r].phase = "counting" => now - call[r].since < Latency
  /\ now' = now + 1
  /\ counters' = IF Shared THEN [counters EXCEPT !["redis"] = Unexpired(@, now + 1)]
                 ELSE counters
  /\ UNCHANGED <<settings, clients, skew, call, served, delayed, excused>>

Next ==
  \/ Tick
  \/ \E r \in Call :
       \/ \E c \in clients, i \in Instance : ReadClock(r, c, i)
       \/ CountInMemory(r)
       \/ CountInRedis(r)
       \/ StoreFails(r)

Spec == Init /\ [][Next]_vars

---------------------------------------------------------------------------
(* Properties *)

Bucket == [count : Nat \ {0}, expires : Nat]
BucketKey == clients \X Nat

\* Variables have their types, and counters are where the configuration says.
TypeOK ==
  /\ \E s \in Scenes : settings = Settings(s.environment) /\ clients = s.clients
  /\ skew \in [Instance -> 0..Skew]
  /\ now \in 0..Horizon
  /\ DOMAIN counters = Places
  /\ \A p \in Places : /\ DOMAIN counters[p] \subseteq BucketKey
                       /\ \A k \in DOMAIN counters[p] : counters[p][k] \in Bucket
  /\ DOMAIN call = Call
  /\ \A r \in Call :
       call[r] = Idle \/ /\ call[r].phase = "counting"
                         /\ call[r].client \in clients
                         /\ call[r].instance \in Instance
                         /\ call[r].since \in 0..now
                         /\ call[r].window \in Nat
  /\ served \in [clients -> [0..(Horizon + 1) -> Nat]]
  /\ delayed \in BOOLEAN
  /\ excused \subseteq clients

Admitted(c, from, to) ==
  served[c][IF to < Horizon THEN to + 1 ELSE Horizon + 1] - served[c][from]

Punctual == ~delayed /\ \A i \in Instance : skew[i] = 0

\* Where clocks agree and requests are counted in the tick they come, a client
\* has Max in each window of the clock, so 2 * Max in any span of that length.
WithinWindow ==
  Punctual => \A c \in clients \ excused : \A t \in 0..Horizon :
    LET W == Rate(c).WindowMS IN
    /\ Admitted(c, t, t + W - 1) <= 2 * Rate(c).Max
    /\ t % W = 0 => Admitted(c, t, t + W - 1) <= Rate(c).Max

\* Clocks differ and requests are late by no more than a window of the client.
Timely(c) == Skew + Latency <= Rate(c).WindowMS

\* Otherwise a span meets three windows, and of two of them a counter that
\* expires with requests still to come: five counters, two of which were begun
\* before the span, by a request that is not in it.
WithinFiveCounters ==
  \A c \in clients \ excused : Timely(c) => \A t \in 0..Horizon :
    Admitted(c, t, t + Rate(c).WindowMS - 1) <= 5 * Rate(c).Max - 2

\* What a limit of Max per window means for a client, on however many instances
\* its requests land.  Clients are excused when a full memory threw their live
\* bucket away, or when Redis failed, but never the authentication group for the
\* latter (limiter.go:31-54, registration.go:60-70).
AdmittedWithinLimit == WithinWindow /\ WithinFiveCounters

\* The memory of an instance never holds more than maxMemoryBuckets counters,
\* whatever clients come (limiter.go:58-79).
MemoryBounded ==
  ~Shared => \A i \in Instance : Cardinality(DOMAIN counters[i]) <= Cap
=============================================================================
