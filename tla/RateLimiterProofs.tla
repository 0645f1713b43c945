------------------------- MODULE RateLimiterProofs -------------------------
(* Proofs about RateLimiter for any clients, environments, caps and clocks: memory,
   types, and what a limit means, first where clocks agree, then in general. *)
EXTENDS RateLimiter, FiniteSetTheorems, TLAPS

\* A map of counters of at most this size
AtMost(buckets, size) ==
  IsFiniteSet(DOMAIN buckets) /\ Cardinality(DOMAIN buckets) <= size

\* The inductive invariant: where counters are, and that every memory keeps to
\* the cap.
IInv ==
  /\ DOMAIN counters = Places
  /\ ~Shared => \A i \in Instance : AtMost(counters[i], Cap)

(* Nine tenths of the cap, rounded down, are less than the cap. *)
LEMMA LowBelowCap == Low \in Nat /\ Low < Cap
<1>1. Cap \in Nat /\ Cap >= 1
  BY RateLimiterAssumption
<1> QED
  BY <1>1, SMT DEF Low

(* Pruning leaves room for one more counter. *)
LEMMA PrunedHasRoom ==
  ASSUME NEW buckets, AtMost(buckets, Cap), NEW kept \in Pruned(buckets)
  PROVE  IsFiniteSet(DOMAIN kept) /\ Cardinality(DOMAIN kept) < Cap
<1>1. IsFiniteSet(DOMAIN buckets)
  BY DEF AtMost
<1>2. CASE Cardinality(DOMAIN buckets) < Cap
  BY <1>1, <1>2 DEF Pruned
<1>3. CASE ~(Cardinality(DOMAIN buckets) < Cap)
  <2> DEFINE live == {k \in DOMAIN buckets : now <= buckets[k].expires}
             size == IF Cardinality(live) <= Low THEN Cardinality(live) ELSE Low
  <2>1. PICK K \in SUBSET live : Cardinality(K) = size /\ kept = Restricted(buckets, K)
    BY <1>3 DEF Pruned
  <2>2. IsFiniteSet(live) /\ IsFiniteSet(K)
    BY <1>1, <2>1, FS_Subset
  <2>3. Cardinality(live) \in Nat
    BY <2>2, FS_CardinalityType
  <2>4. size <= Low
    BY <2>3, LowBelowCap
  <2>5. DOMAIN kept = K
    BY <2>1 DEF Restricted
  <2>6. Cardinality(K) <= Low
    BY <2>1, <2>4
  <2> HIDE DEF live, size
  <2>7. Cardinality(K) \in Nat
    BY <2>2, FS_CardinalityType
  <2> QED
    BY <2>2, <2>5, <2>6, <2>7, LowBelowCap, RateLimiterAssumption
<1> QED
  BY <1>2, <1>3

(* One more counter, or the same one again, fits where there is room. *)
LEMMA OneMoreFits ==
  ASSUME NEW kept, IsFiniteSet(DOMAIN kept), Cardinality(DOMAIN kept) < Cap,
         NEW key, NEW bucket
  PROVE  AtMost(Stored(kept, key, bucket), Cap)
<1> DEFINE after == Stored(kept, key, bucket)
<1>1. DOMAIN after = DOMAIN kept \cup {key}
  BY DEF Stored
<1>2. /\ IsFiniteSet(DOMAIN kept \cup {key})
      /\ \/ Cardinality(DOMAIN kept \cup {key}) = Cardinality(DOMAIN kept)
         \/ Cardinality(DOMAIN kept \cup {key}) = Cardinality(DOMAIN kept) + 1
  BY FS_AddElement
<1>3. Cardinality(DOMAIN kept) \in Nat
  BY FS_CardinalityType
<1> HIDE DEF after
<1>4. Cardinality(DOMAIN after) <= Cap
  BY <1>1, <1>2, <1>3, RateLimiterAssumption
<1>5. IsFiniteSet(DOMAIN after)
  BY <1>1, <1>2
<1> QED
  BY <1>4, <1>5 DEF AtMost, after

(* Where counters are is settled by the settings. *)
LEMMA SamePlaces ==
  ASSUME UNCHANGED settings
  PROVE  Shared' = Shared /\ Places' = Places /\ Instance' = Instance
BY DEF Shared, Places, Instance

(* Counters in memory stay as they are in every step but one. *)
LEMMA SameMemory ==
  ASSUME IInv, UNCHANGED settings, DOMAIN counters' = DOMAIN counters,
         ~Shared => UNCHANGED counters
  PROVE  IInv'
<1>1. DOMAIN counters' = Places'
  BY SamePlaces DEF IInv
<1>2. ~Shared' => \A i \in Instance' : AtMost(counters[i], Cap)'
  BY SamePlaces DEF IInv, AtMost
<1> QED
  BY <1>1, <1>2 DEF IInv

LEMMA InitEstablishes == Init => IInv
<1> SUFFICES ASSUME Init PROVE IInv
  OBVIOUS
<1>1. DOMAIN counters = Places
  BY DEF Init
<1>2. ASSUME ~Shared, NEW i \in Instance
      PROVE  AtMost(counters[i], Cap)
  <2>1. counters[i] = <<>>
    BY <1>2 DEF Init, Places
  <2>2. DOMAIN counters[i] = {}
    BY <2>1
  <2> QED
    BY <2>2, FS_EmptySet, RateLimiterAssumption DEF AtMost
<1> QED
  BY <1>1, <1>2 DEF IInv

LEMMA CountInMemoryPreserves ==
  ASSUME IInv, NEW r \in Call, CountInMemory(r)
  PROVE  IInv'
<1> DEFINE place == call[r].instance
<1>1. UNCHANGED settings /\ ~Shared
  BY DEF CountInMemory
<1>2. PICK kept \in Pruned(counters[place]) :
        counters' = [counters EXCEPT ![place] =
                       Stored(kept, Key(r), Counted(kept, Key(r)))]
  BY DEF CountInMemory
<1>3. DOMAIN counters' = Places'
  BY <1>1, <1>2, SamePlaces DEF IInv
<1>4. ASSUME NEW i \in Instance PROVE AtMost(counters'[i], Cap)
  <2>1. i \in DOMAIN counters /\ AtMost(counters[i], Cap)
    BY <1>1 DEF IInv, Places
  <2>2. CASE i = place
    <3>1. IsFiniteSet(DOMAIN kept) /\ Cardinality(DOMAIN kept) < Cap
      BY <1>2, <2>1, <2>2, PrunedHasRoom
    <3>2. counters'[i] = Stored(kept, Key(r), Counted(kept, Key(r)))
      BY <1>2, <2>1, <2>2
    <3> QED
      BY <3>1, <3>2, OneMoreFits
  <2>3. CASE i # place
    BY <1>2, <2>1, <2>3
  <2> QED
    BY <2>2, <2>3
<1>5. ~Shared' => \A i \in Instance' : AtMost(counters[i], Cap)'
  BY <1>1, <1>4, SamePlaces DEF AtMost
<1> QED
  BY <1>3, <1>5 DEF IInv

LEMMA StepPreserves ==
  ASSUME IInv, [Next]_vars
  PROVE  IInv'
<1>1. CASE Tick
  BY <1>1, SameMemory DEF Tick
<1>2. ASSUME NEW r \in Call, NEW c \in clients, NEW i \in Instance, ReadClock(r, c, i)
      PROVE  IInv'
  BY <1>2, SameMemory DEF ReadClock
<1>3. ASSUME NEW r \in Call, CountInMemory(r)
      PROVE  IInv'
  BY <1>3, CountInMemoryPreserves
<1>4. ASSUME NEW r \in Call, CountInRedis(r)
      PROVE  IInv'
  <2>1. UNCHANGED settings /\ Shared /\ DOMAIN counters' = DOMAIN counters
    BY <1>4 DEF CountInRedis
  <2> QED
    BY <2>1, SameMemory
<1>5. ASSUME NEW r \in Call, StoreFails(r)
      PROVE  IInv'
  <2>1. UNCHANGED settings /\ Shared /\ DOMAIN counters' = DOMAIN counters
    BY <1>5 DEF StoreFails
  <2> QED
    BY <2>1, SameMemory
<1>6. CASE UNCHANGED vars
  BY <1>6, SameMemory DEF vars
<1> QED
  BY <1>1, <1>2, <1>3, <1>4, <1>5, <1>6 DEF Next

(* No memory ever holds more counters than maxMemoryBuckets, whatever clients
   come, however the clock runs and whichever counters prune happens to drop
   (limiter.go:56-79). *)
THEOREM MemoryStaysBounded == Spec => []MemoryBounded
<1>1. IInv => MemoryBounded
  BY DEF IInv, MemoryBounded, AtMost
<1> QED
  BY InitEstablishes, StepPreserves, <1>1, PTL DEF Spec

---------------------------------------------------------------------------
(* What the settings of an accepted environment are. *)

\* The process runs with the settings of an environment it accepted.
Setup ==
  \E s \in Scenes : /\ Accepted(s.environment, "")
                    /\ settings = Settings(s.environment)
                    /\ clients = s.clients

(* Numbers are read as numbers. *)
LEMMA NumberRead ==
  ASSUME NEW env, Numeric(env), Parses(env), NEW key \in NumericKey, NEW fallback \in Int
  PROVE  Getenv(env, key, fallback) \in Int
BY DEF Numeric, Parses, Getenv

(* What Load checked of the numbers used here *)
LEMMA AcceptedIs ==
  ASSUME NEW env, Accepted(env, "")
  PROVE  /\ Parses(env) /\ RatesUsable(Settings(env)) /\ NumbersUsable(Settings(env))
         /\ RedisUsable(Settings(env))
BY Zenon DEF Accepted

LEMMA SettingsRead ==
  ASSUME NEW env
  PROVE  /\ Settings(env).Rates = Rates(env)
         /\ Settings(env).InstanceCount = Getenv(env, "APP_INSTANCE_COUNT", 1)
BY SMT DEF Settings

LEMMA RatesAre ==
  ASSUME NEW env, Numeric(env), Parses(env), RatesUsable(Settings(env)), NEW g \in RateGroup
  PROVE  /\ Settings(env).Rates[g].WindowMS \in Nat \ {0}
         /\ Settings(env).Rates[g].Max \in Nat \ {0}
<1>1. Rates(env)[g] = [WindowMS |-> Getenv(env, WindowKey[g], 900000),
                       Max |-> Getenv(env, MaxKey[g], DefaultMax[g])]
  BY SMT DEF Rates
<1>2. WindowKey[g] \in NumericKey /\ MaxKey[g] \in NumericKey
  BY DEF NumericKey
<1>3. DefaultMax[g] \in Int
  BY SMT DEF RateGroup, DefaultMax
<1>4. Getenv(env, WindowKey[g], 900000) \in Int
  BY <1>2, NumberRead, SMT
<1>5. Getenv(env, MaxKey[g], DefaultMax[g]) \in Int
  BY <1>2, <1>3, NumberRead, SMT
<1>6. Settings(env).Rates[g].WindowMS > 0 /\ Settings(env).Rates[g].Max > 0
  BY SMT DEF RatesUsable
<1> QED
  BY <1>1, <1>4, <1>5, <1>6, SettingsRead, SMT

LEMMA InstancesCounted ==
  ASSUME NEW c, NumbersUsable(c)
  PROVE  c.InstanceCount >= 1
BY SMT DEF NumbersUsable

LEMMA InstancesAre ==
  ASSUME NEW env, Numeric(env), Parses(env), NumbersUsable(Settings(env)),
         RedisUsable(Settings(env))
  PROVE  /\ Settings(env).InstanceCount \in Nat \ {0}
         /\ Settings(env).RateStore # "redis" => Settings(env).InstanceCount = 1
<1> DEFINE c == Settings(env)
<1>1. "APP_INSTANCE_COUNT" \in NumericKey
  BY DEF NumericKey
<1>2. c.InstanceCount \in Int
  BY <1>1, NumberRead, SettingsRead
<1> HIDE DEF c
<1>3. c.InstanceCount >= 1
  BY InstancesCounted, Zenon DEF c
<1>4. c.RateStore \in {"memory", "redis"} /\ (c.InstanceCount > 1 => c.RateStore # "memory")
  BY Zenon DEF RedisUsable, InstancesShareLimits, c
<1>5. c.InstanceCount \in Nat \ {0} /\ (c.RateStore # "redis" => c.InstanceCount = 1)
  BY <1>2, <1>3, <1>4
<1> QED
  BY <1>5 DEF c

LEMMA SettingsAre ==
  ASSUME Setup
  PROVE  /\ \A c \in clients : /\ Rate(c).WindowMS \in Nat \ {0}
                               /\ Rate(c).Max \in Nat \ {0}
         /\ settings.InstanceCount \in Nat \ {0}
         /\ ~Shared => Instance = {1}
<1>1. PICK env : /\ Numeric(env) /\ Accepted(env, "") /\ settings = Settings(env)
                 /\ clients \subseteq Client
  BY RateLimiterAssumption, Zenon DEF Setup
<1>2. /\ Parses(env) /\ RatesUsable(Settings(env)) /\ NumbersUsable(Settings(env))
      /\ RedisUsable(Settings(env)) /\ Numeric(env)
  BY <1>1, AcceptedIs, Zenon
<1>3. settings = Settings(env) /\ clients \subseteq Client
  BY <1>1, Zenon
<1>4. \A g \in RateGroup : /\ settings.Rates[g].WindowMS \in Nat \ {0}
                           /\ settings.Rates[g].Max \in Nat \ {0}
  BY <1>2, <1>3, RatesAre, Zenon
<1>5. /\ settings.InstanceCount \in Nat \ {0}
      /\ settings.RateStore # "redis" => settings.InstanceCount = 1
  BY <1>2, <1>3, InstancesAre, Zenon
<1>6. \A c \in clients : c[1] \in RateGroup
  BY <1>3, RateLimiterAssumption, Zenon
<1>7. \A c \in clients : Rate(c).WindowMS \in Nat \ {0} /\ Rate(c).Max \in Nat \ {0}
  BY <1>4, <1>6, Zenon DEF Rate
<1>8. ASSUME ~Shared PROVE Instance = {1}
  <2>1. settings.InstanceCount = 1
    BY <1>5, <1>8, Zenon DEF Shared
  <2> QED
    BY <2>1, SMT DEF Instance
<1> QED
  BY <1>5, <1>7, <1>8, Zenon

---------------------------------------------------------------------------
(* Types. *)

TypeInv == Setup /\ TypeOK

\* A map of counters, each with a request and an expiry
Typed(buckets) ==
  /\ DOMAIN buckets \subseteq BucketKey
  /\ \A k \in DOMAIN buckets : buckets[k] \in Bucket

Counts == [0..(Horizon + 1) -> Nat]

LEMMA DivisionIs ==
  ASSUME NEW a \in Nat, NEW b \in Nat \ {0}
  PROVE  a \div b \in Nat /\ (a \div b) * b <= a /\ a < (a \div b) * b + b
OBVIOUS

LEMMA CountedIs ==
  ASSUME TypeInv, NEW buckets, Typed(buckets), NEW key \in BucketKey
  PROVE  /\ Counted(buckets, key) \in Bucket
         /\ key \in DOMAIN buckets =>
              /\ Counted(buckets, key).expires = buckets[key].expires
              /\ Counted(buckets, key).count = Count(buckets[key], key[1])
         /\ key \notin DOMAIN buckets =>
              /\ Counted(buckets, key).expires = now + Rate(key[1]).WindowMS
              /\ Counted(buckets, key).count = 1
<1>1. key[1] \in clients /\ now \in Nat
  BY RateLimiterAssumption DEF TypeInv, TypeOK, BucketKey
<1>2. Rate(key[1]).WindowMS \in Nat \ {0} /\ Rate(key[1]).Max \in Nat \ {0}
  BY <1>1, SettingsAre DEF TypeInv
<1>3. CASE key \in DOMAIN buckets
  <2>1. buckets[key] \in Bucket
    BY <1>3 DEF Typed
  <2>2. Count(buckets[key], key[1]) \in Nat \ {0}
    BY <1>2, <2>1 DEF Bucket, Count
  <2>3. Counted(buckets, key) = [buckets[key] EXCEPT !.count = Count(buckets[key], key[1])]
    BY <1>3, Zenon DEF Counted
  <2> QED
    BY <1>3, <2>1, <2>2, <2>3 DEF Bucket
<1>4. CASE key \notin DOMAIN buckets
  <2>1. Counted(buckets, key) = [count |-> 1, expires |-> now + Rate(key[1]).WindowMS]
    BY <1>4, Zenon DEF Counted
  <2> QED
    BY <1>1, <1>2, <1>4, <2>1 DEF Bucket
<1> QED
  BY <1>3, <1>4

LEMMA StoredTyped ==
  ASSUME NEW buckets, Typed(buckets), NEW key \in BucketKey, NEW bucket \in Bucket
  PROVE  Typed(Stored(buckets, key, bucket))
<1> DEFINE after == Stored(buckets, key, bucket)
<1>1. /\ DOMAIN after = DOMAIN buckets \cup {key} /\ after[key] = bucket
      /\ \A k \in DOMAIN buckets : k # key => after[k] = buckets[k]
  BY SMT DEF Stored
<1> HIDE DEF after
<1>2. Typed(after)
  BY <1>1 DEF Typed
<1> QED
  BY <1>2 DEF after

\* What is kept is kept as it was.
Part(kept, buckets) ==
  /\ DOMAIN kept \subseteq DOMAIN buckets
  /\ \A k \in DOMAIN kept : kept[k] = buckets[k]

LEMMA PartTyped ==
  ASSUME NEW buckets, Typed(buckets), NEW kept, Part(kept, buckets)
  PROVE  Typed(kept)
BY DEF Part, Typed

LEMMA RestrictedIsPart ==
  ASSUME NEW buckets, NEW K \in SUBSET DOMAIN buckets
  PROVE  Part(Restricted(buckets, K), buckets) /\ DOMAIN Restricted(buckets, K) = K
BY DEF Part, Restricted

LEMMA PrunedIsPart ==
  ASSUME NEW buckets, NEW kept \in Pruned(buckets)
  PROVE  Part(kept, buckets)
<1>1. CASE Cardinality(DOMAIN buckets) < Cap
  BY <1>1 DEF Pruned, Part
<1>2. CASE ~(Cardinality(DOMAIN buckets) < Cap)
  <2>1. PICK K \in SUBSET DOMAIN buckets : kept = Restricted(buckets, K)
    BY <1>2 DEF Pruned
  <2> QED
    BY <2>1, RestrictedIsPart
<1> QED
  BY <1>1, <1>2

LEMMA CountersTyped ==
  ASSUME TypeInv
  PROVE  /\ now \in 0..Horizon /\ now \in Nat /\ Horizon \in Nat
         /\ \A p \in Places : Typed(counters[p])
         /\ \A r \in Call : call[r] # Idle => /\ Key(r) \in BucketKey /\ Key(r)[1] \in clients
                                              /\ call[r].instance \in Instance
<1>1. now \in 0..Horizon /\ now \in Nat /\ Horizon \in Nat
  BY RateLimiterAssumption DEF TypeInv, TypeOK
<1>2. \A p \in Places : Typed(counters[p])
  BY DEF TypeInv, TypeOK, Typed
<1>3. ASSUME NEW r \in Call, call[r] # Idle
      PROVE  Key(r) \in BucketKey /\ Key(r)[1] \in clients /\ call[r].instance \in Instance
  BY <1>3 DEF TypeInv, TypeOK, Key, BucketKey
<1> QED
  BY <1>1, <1>2, <1>3

LEMMA CountsAre == NoneServed \in Counts /\ \A f \in Counts : OneMore(f) \in Counts
<1>1. Horizon \in Nat
  BY RateLimiterAssumption
<1> QED
  BY <1>1 DEF Counts, NoneServed, OneMore

LEMMA TypeInit == Init => TypeInv
<1> SUFFICES ASSUME Init PROVE TypeInv
  OBVIOUS
<1>1. Setup
  BY Zenon DEF Init, Setup
<1>2. \E s \in Scenes : settings = Settings(s.environment) /\ clients = s.clients
  BY <1>1, Zenon DEF Setup
<1>3. /\ skew \in {s \in [Instance -> 0..Skew] : s[1] = 0} /\ now = 0
      /\ counters = [p \in Places |-> <<>>] /\ call = [r \in Call |-> Idle]
      /\ served = [c \in clients |-> NoneServed] /\ delayed = FALSE /\ excused = {}
  BY Zenon DEF Init
<1>4. /\ skew \in [Instance -> 0..Skew] /\ now \in 0..Horizon
      /\ delayed \in BOOLEAN /\ excused \subseteq clients
  <2>1. Horizon \in Nat
    BY RateLimiterAssumption
  <2>2. now \in 0..Horizon
    BY <1>3, <2>1
  <2> QED
    BY <1>3, <2>2, Zenon
<1>5. DOMAIN counters = Places /\ \A p \in Places : DOMAIN counters[p] = {}
  BY <1>3
<1>6. DOMAIN call = Call /\ \A r \in Call : call[r] = Idle
  BY <1>3
<1>7. served \in [clients -> Counts]
  BY <1>3, CountsAre
<1> QED
  BY <1>1, <1>2, <1>4, <1>5, <1>6, <1>7 DEF TypeInv, TypeOK, Counts

\* A call is as TypeOK says.
CallOK(x) ==
  x = Idle \/ /\ x.phase = "counting" /\ x.client \in clients /\ x.instance \in Instance
              /\ x.since \in 0..now /\ x.window \in Nat

\* Types are kept by steps that keep the settings.
LEMMA TypeStays ==
  ASSUME TypeInv, UNCHANGED <<settings, clients, skew>>, now' \in 0..Horizon,
         DOMAIN counters' = Places, \A p \in Places : Typed(counters'[p]),
         DOMAIN call' = Call, \A r \in Call : CallOK(call[r])',
         served' \in [clients -> Counts], delayed' \in BOOLEAN, excused' \subseteq clients
  PROVE  TypeInv'
<1>1. Setup'
  BY Zenon DEF TypeInv, Setup
<1>2. \E s \in Scenes : settings' = Settings(s.environment) /\ clients' = s.clients
  BY Zenon DEF TypeInv, Setup
<1>3. Places' = Places /\ Instance' = Instance /\ BucketKey' = BucketKey
  BY SamePlaces DEF BucketKey
<1>4. \A p \in Places' : /\ DOMAIN counters'[p] \subseteq BucketKey'
                         /\ \A k \in DOMAIN counters'[p] : counters'[p][k] \in Bucket
  BY <1>3 DEF Typed
<1>5. served' \in [clients' -> [0..(Horizon + 1) -> Nat]]
  BY DEF Counts
<1>6. skew' \in [Instance' -> 0..Skew]
  BY <1>3 DEF TypeInv, TypeOK
<1> QED
  BY <1>1, <1>2, <1>3, <1>4, <1>5, <1>6 DEF TypeInv, TypeOK, CallOK

LEMMA CallsStay ==
  ASSUME TypeInv, UNCHANGED <<settings, clients>>, now' \in Nat, now <= now',
         \A r \in Call : call'[r] = call[r] \/ call'[r] = Idle
  PROVE  \A r \in Call : CallOK(call[r])'
<1> SUFFICES ASSUME NEW r \in Call, call'[r] = call[r], call[r] # Idle
             PROVE  CallOK(call[r])'
  BY DEF CallOK
<1>1. CallOK(call[r]) /\ now \in Nat
  BY CountersTyped DEF TypeInv, TypeOK, CallOK
<1>2. call[r].since \in 0..now'
  BY <1>1 DEF CallOK
<1> QED
  BY <1>1, <1>2, SamePlaces DEF CallOK

LEMMA CallsAnswered ==
  ASSUME TypeInv, NEW r \in Call, UNCHANGED <<settings, clients, now>>,
         call' = [call EXCEPT ![r] = Idle]
  PROVE  \A q \in Call : CallOK(call[q])'
<1>1. \A q \in Call : call'[q] = call[q] \/ call'[q] = Idle
  BY DEF TypeInv, TypeOK
<1>2. now \in Nat /\ now' \in Nat /\ now <= now'
  BY CountersTyped
<1> QED
  BY <1>1, <1>2, CallsStay

LEMMA TypeReadClock ==
  ASSUME TypeInv, NEW r \in Call, NEW c \in clients, NEW i \in Instance, ReadClock(r, c, i)
  PROVE  TypeInv' /\ call' = [call EXCEPT ![r] = Reading(c, i)]
<1>1. /\ call' = [call EXCEPT ![r] = Reading(c, i)] /\ DOMAIN call = Call
      /\ UNCHANGED <<settings, clients, skew, now, counters, served, delayed, excused>>
  BY Zenon DEF ReadClock, TypeInv, TypeOK
<1>2. now \in Nat /\ skew[i] \in Nat /\ Rate(c).WindowMS \in Nat \ {0}
  BY CountersTyped, SettingsAre, RateLimiterAssumption DEF TypeInv, TypeOK
<1>3. (now + skew[i]) \div Rate(c).WindowMS \in Nat
  <2>1. now + skew[i] \in Nat
    BY <1>2
  <2> QED
    BY <1>2, <2>1, DivisionIs
<1>4. CallOK(Reading(c, i))
  BY <1>2, <1>3 DEF CallOK, Reading
<1>5. ASSUME NEW q \in Call PROVE CallOK(call[q])'
  <2>1. call'[q] = call[q] \/ call'[q] = Reading(c, i)
    BY <1>1
  <2>2. CallOK(call[q]) /\ now' = now /\ clients' = clients /\ Instance' = Instance
    BY <1>1, SamePlaces DEF CallOK, TypeInv, TypeOK
  <2> QED
    BY <1>4, <2>1, <2>2 DEF CallOK
<1>6. /\ now' \in 0..Horizon /\ DOMAIN counters' = Places
      /\ served' \in [clients -> Counts] /\ delayed' \in BOOLEAN /\ excused' \subseteq clients
      /\ \A p \in Places : Typed(counters'[p])
  BY <1>1, CountersTyped DEF TypeInv, TypeOK, Counts
<1> QED
  BY <1>1, <1>5, <1>6, TypeStays

LEMMA CountersStored ==
  ASSUME TypeInv, NEW p \in Places, NEW kept, Typed(kept), NEW key \in BucketKey,
         NEW bucket \in Bucket, counters' = [counters EXCEPT ![p] = Stored(kept, key, bucket)]
  PROVE  /\ DOMAIN counters' = Places /\ counters'[p] = Stored(kept, key, bucket)
         /\ \A q \in Places : Typed(counters'[q])
<1>1. DOMAIN counters = Places
  BY DEF TypeInv, TypeOK
<1>2. DOMAIN counters' = Places /\ counters'[p] = Stored(kept, key, bucket)
      /\ \A q \in Places : q # p => counters'[q] = counters[q]
  BY <1>1
<1>3. Typed(Stored(kept, key, bucket))
  BY StoredTyped
<1> QED
  BY <1>2, <1>3, CountersTyped

LEMMA TypeDecide ==
  ASSUME TypeInv, NEW r \in Call, NEW bucket, NEW given_up \in SUBSET clients,
         Decide(r, bucket, given_up), UNCHANGED <<settings, clients, skew, now>>,
         DOMAIN counters' = Places, \A p \in Places : Typed(counters'[p])
  PROVE  TypeInv'
<1> DEFINE c == call[r].client
<1>1. /\ excused' = excused \cup given_up
      /\ served' = [d \in clients |->
                      IF d \in excused' THEN NoneServed
                      ELSE IF d = c /\ bucket.count <= Rate(c).Max
                        THEN OneMore(served[c]) ELSE served[d]]
      /\ call' = [call EXCEPT ![r] = Idle]
  BY Zenon DEF Decide
<1>2. delayed' \in BOOLEAN
  BY Zenon DEF Decide
<1>3. excused' \subseteq clients
  BY <1>1 DEF TypeInv, TypeOK
<1>4. served' \in [clients -> Counts]
  <2>1. \A d \in clients : served[d] \in Counts
    BY DEF TypeInv, TypeOK, Counts
  <2>2. \A d \in clients : served'[d] \in Counts
    BY <1>1, <2>1, CountsAre
  <2> QED
    BY <1>1, <2>2
<1>5. now' \in 0..Horizon
  BY CountersTyped
<1>6. DOMAIN call' = Call /\ \A q \in Call : CallOK(call[q])'
  BY <1>1, CallsAnswered DEF TypeInv, TypeOK
<1> QED
  BY <1>2, <1>3, <1>4, <1>5, <1>6, TypeStays

(* What counting in memory and in Redis have in common *)
LEMMA CountsInOne ==
  ASSUME TypeInv, NEW r \in Call, CountInMemory(r) \/ CountInRedis(r)
  PROVE  \E kept, given_up :
           LET place == Place(call[r].instance)
               bucket == Counted(kept, Key(r))
           IN /\ call[r] # Idle /\ place \in Places
              /\ Part(kept, counters[place]) /\ given_up \in SUBSET clients
              /\ \A k \in DOMAIN counters[place] \ DOMAIN kept :
                   k[1] \in given_up \/ ~(now <= counters[place][k].expires)
              /\ counters' = [counters EXCEPT ![place] = Stored(kept, Key(r), bucket)]
              /\ Decide(r, bucket, given_up)
              /\ UNCHANGED <<settings, clients, skew, now>>
<1>1. CASE CountInMemory(r)
  <2> DEFINE place == call[r].instance
  <2>1. ~Shared /\ call[r] # Idle /\ UNCHANGED <<settings, clients, skew, now>>
    BY <1>1 DEF CountInMemory, Idle
  <2>2. PICK kept \in Pruned(counters[place]) :
          /\ counters' = [counters EXCEPT ![place] = Stored(kept, Key(r), Counted(kept, Key(r)))]
          /\ Decide(r, Counted(kept, Key(r)), Evicted(counters[place], kept))
    BY <1>1, Zenon DEF CountInMemory
  <2>3. place \in Places /\ Place(place) = place
    BY <2>1, CountersTyped DEF Place, Places
  <2>4. Part(kept, counters[place])
    BY PrunedIsPart
  <2>5. Evicted(counters[place], kept) \in SUBSET clients
    <3>1. Typed(counters[place])
      BY <2>3, CountersTyped
    <3> QED
      BY <3>1 DEF Typed, Evicted, BucketKey
  <2>6. \A k \in DOMAIN counters[place] \ DOMAIN kept :
          k[1] \in Evicted(counters[place], kept) \/ ~(now <= counters[place][k].expires)
    BY Zenon DEF Evicted
  <2> QED
    BY <2>1, <2>2, <2>3, <2>4, <2>5, <2>6, Zenon
<1>2. CASE CountInRedis(r)
  <2>1. Shared /\ call[r] # Idle /\ UNCHANGED <<settings, clients, skew, now>>
    BY <1>2 DEF CountInRedis, Idle
  <2>2. Place(call[r].instance) = "redis" /\ "redis" \in Places
    BY <2>1 DEF Place, Places
  <2>3. /\ counters' = [counters EXCEPT !["redis"] =
                          Stored(counters["redis"], Key(r), Counted(counters["redis"], Key(r)))]
        /\ Decide(r, Counted(counters["redis"], Key(r)), {})
    BY <1>2, Zenon DEF CountInRedis
  <2>4. Part(counters["redis"], counters["redis"]) /\ {} \in SUBSET clients
    BY DEF Part
  <2>5. DOMAIN counters["redis"] \ DOMAIN counters["redis"] = {}
    OBVIOUS
  <2> QED
    BY <2>1, <2>2, <2>3, <2>4, <2>5, Zenon
<1> QED
  BY <1>1, <1>2

LEMMA TypeCount ==
  ASSUME TypeInv, NEW r \in Call, CountInMemory(r) \/ CountInRedis(r)
  PROVE  TypeInv'
<1> DEFINE place == Place(call[r].instance)
           bucket(kept) == Counted(kept, Key(r))
<1>1. PICK kept, given_up :
        /\ call[r] # Idle /\ place \in Places
        /\ Part(kept, counters[place]) /\ given_up \in SUBSET clients
        /\ counters' = [counters EXCEPT ![place] = Stored(kept, Key(r), bucket(kept))]
        /\ Decide(r, bucket(kept), given_up)
        /\ UNCHANGED <<settings, clients, skew, now>>
  BY CountsInOne, Zenon
<1> HIDE DEF place
<1>2. Typed(kept)
  BY <1>1, CountersTyped, PartTyped
<1>3. Key(r) \in BucketKey
  BY <1>1, CountersTyped
<1>4. bucket(kept) \in Bucket
  BY <1>2, <1>3, CountedIs
<1> HIDE DEF bucket
<1>5. DOMAIN counters' = Places /\ \A q \in Places : Typed(counters'[q])
  BY <1>1, <1>2, <1>3, <1>4, CountersStored
<1> QED
  BY <1>1, <1>5, TypeDecide

LEMMA TypeStoreFails ==
  ASSUME TypeInv, NEW r \in Call, StoreFails(r)
  PROVE  /\ TypeInv' /\ Shared /\ call[r] # Idle
         /\ UNCHANGED <<settings, clients, skew, now, delayed>>
         /\ call' = [call EXCEPT ![r] = Idle]
         /\ \/ counters' = counters
            \/ counters' = [counters EXCEPT !["redis"] =
                 Stored(counters["redis"], Key(r), Counted(counters["redis"], Key(r)))]
         /\ \/ served' = served /\ excused' = excused
            \/ /\ served' = [served EXCEPT ![call[r].client] = NoneServed]
               /\ excused' = excused \cup {call[r].client}
<1> DEFINE c == call[r].client
<1>1. /\ Shared /\ call[r] # Idle
      /\ UNCHANGED <<settings, clients, skew, now, delayed>>
      /\ call' = [call EXCEPT ![r] = Idle]
  BY DEF StoreFails, Idle
<1>2. \/ counters' = counters
      \/ counters' = [counters EXCEPT !["redis"] =
           Stored(counters["redis"], Key(r), Counted(counters["redis"], Key(r)))]
  BY Zenon DEF StoreFails
<1>3. \/ served' = served /\ excused' = excused
      \/ /\ served' = [served EXCEPT ![c] = NoneServed]
         /\ excused' = excused \cup {c}
  BY Zenon DEF StoreFails, FailsClosed
<1>4. c \in clients /\ Key(r) \in BucketKey /\ "redis" \in Places
  BY <1>1, CountersTyped DEF Places, Key
<1>5. DOMAIN counters' = Places /\ \A q \in Places : Typed(counters'[q])
  <2>1. CASE counters' = counters
    BY <2>1, CountersTyped DEF TypeInv, TypeOK
  <2>2. CASE counters' # counters
    <3>1. Typed(counters["redis"])
      BY <1>4, CountersTyped
    <3>2. Counted(counters["redis"], Key(r)) \in Bucket
      BY <1>4, <3>1, CountedIs
    <3> QED
      BY <1>2, <1>4, <2>2, <3>1, <3>2, CountersStored
  <2> QED
    BY <2>1, <2>2
<1>6. served' \in [clients -> Counts] /\ excused' \subseteq clients
  <2>1. served \in [clients -> Counts] /\ excused \subseteq clients
    BY DEF TypeInv, TypeOK, Counts
  <2> QED
    BY <1>3, <1>4, <2>1, CountsAre
<1>7. DOMAIN call' = Call /\ \A q \in Call : CallOK(call[q])'
  BY <1>1, CallsAnswered DEF TypeInv, TypeOK
<1>8. now' \in 0..Horizon /\ delayed' \in BOOLEAN
  BY <1>1, CountersTyped DEF TypeInv, TypeOK
<1>9. TypeInv'
  BY <1>1, <1>5, <1>6, <1>7, <1>8, TypeStays
<1> QED
  BY <1>1, <1>2, <1>3, <1>9, Zenon

\* What is left of the counters when time has passed
LEMMA TypeTick ==
  ASSUME TypeInv, Tick
  PROVE  /\ TypeInv' /\ now' = now + 1 /\ now < Horizon
         /\ UNCHANGED <<settings, clients, skew, call, served, delayed, excused>>
         /\ \A p \in Places : /\ Part(counters'[p], counters[p])
                              /\ \A k \in DOMAIN counters[p] \ DOMAIN counters'[p] :
                                   ~(now + 1 < counters[p][k].expires)
<1>1. /\ now' = now + 1 /\ now < Horizon
      /\ UNCHANGED <<settings, clients, skew, call, served, delayed, excused>>
      /\ counters' = IF Shared THEN [counters EXCEPT !["redis"] = Unexpired(counters["redis"], now + 1)]
                     ELSE counters
  BY Zenon DEF Tick
<1>2. DOMAIN counters = Places
  BY DEF TypeInv, TypeOK
<1>3. ASSUME NEW p \in Places
      PROVE  /\ Part(counters'[p], counters[p])
             /\ \A k \in DOMAIN counters[p] \ DOMAIN counters'[p] :
                  ~(now + 1 < counters[p][k].expires)
  <2>1. CASE counters'[p] = counters[p]
    BY <2>1 DEF Part
  <2>2. CASE counters'[p] = Unexpired(counters[p], now + 1)
    <3> DEFINE K == {k \in DOMAIN counters[p] : now + 1 < counters[p][k].expires}
    <3>1. counters'[p] = Restricted(counters[p], K)
      BY <2>2, Zenon DEF Unexpired
    <3>2. Part(counters'[p], counters[p]) /\ DOMAIN counters'[p] = K
      BY <3>1, RestrictedIsPart
    <3> QED
      BY <3>2
  <2>3. counters'[p] = counters[p] \/ counters'[p] = Unexpired(counters[p], now + 1)
    BY <1>1, <1>2
  <2> QED
    BY <2>1, <2>2, <2>3
<1>4. DOMAIN counters' = Places /\ \A p \in Places : Typed(counters'[p])
  <2>1. DOMAIN counters' = Places
    BY <1>1, <1>2
  <2> QED
    BY <1>3, <2>1, CountersTyped, PartTyped
<1>5. now' \in 0..Horizon /\ now' \in Nat /\ now <= now'
  BY <1>1, CountersTyped
<1>6. \A r \in Call : CallOK(call[r])'
  BY <1>1, <1>5, CallsStay
<1>7. /\ DOMAIN call' = Call /\ served' \in [clients -> Counts] /\ delayed' \in BOOLEAN
      /\ excused' \subseteq clients
  BY <1>1 DEF TypeInv, TypeOK, Counts
<1>8. TypeInv'
  BY <1>1, <1>4, <1>5, <1>6, <1>7, TypeStays
<1> QED
  BY <1>1, <1>3, <1>8, Zenon

LEMMA TypeNext == TypeInv /\ [Next]_vars => TypeInv'
<1> SUFFICES ASSUME TypeInv, [Next]_vars PROVE TypeInv'
  OBVIOUS
<1>1. CASE Tick
  BY <1>1, TypeTick
<1>2. ASSUME NEW r \in Call, NEW c \in clients, NEW i \in Instance, ReadClock(r, c, i)
      PROVE  TypeInv'
  BY <1>2, TypeReadClock
<1>3. ASSUME NEW r \in Call, CountInMemory(r) \/ CountInRedis(r)
      PROVE  TypeInv'
  BY <1>3, TypeCount
<1>4. ASSUME NEW r \in Call, StoreFails(r)
      PROVE  TypeInv'
  BY <1>4, TypeStoreFails
<1>5. CASE UNCHANGED vars
  <2>1. UNCHANGED <<settings, clients, skew, now, counters, call, served, delayed, excused>>
    BY <1>5, Zenon DEF vars
  <2>2. /\ now' \in 0..Horizon /\ DOMAIN counters' = Places /\ DOMAIN call' = Call
        /\ served' \in [clients -> Counts] /\ delayed' \in BOOLEAN /\ excused' \subseteq clients
        /\ \A p \in Places : Typed(counters'[p])
    BY <2>1, CountersTyped DEF TypeInv, TypeOK, Counts
  <2>3. now' \in Nat /\ now <= now' /\ \A r \in Call : call'[r] = call[r]
    BY <2>1, CountersTyped
  <2>4. \A r \in Call : CallOK(call[r])'
    BY <2>1, <2>3, CallsStay
  <2> QED
    BY <2>1, <2>2, <2>4, TypeStays
<1> QED
  BY <1>1, <1>2, <1>3, <1>4, <1>5, Zenon DEF Next

(* For any clients, clocks and environments the process accepts, counters are
   where the configuration puts them and every one has a request and an expiry;
   a window is never computed from a width of zero (limiter.go:31-54). *)
THEOREM TypeCorrect == Spec => []TypeOK
<1>1. TypeInv => TypeOK
  BY DEF TypeInv
<1> QED
  BY <1>1, TypeInit, TypeNext, PTL DEF Spec

---------------------------------------------------------------------------
(* Windows, where clocks agree and requests are counted in the tick they come. *)

SkewFree == \A i \in Instance : skew[i] = 0

\* The counters of all instances, the only one's memory or Redis
Store == counters[Place(1)]
Seen(c, w) == IF <<c, w>> \in DOMAIN Store THEN Store[<<c, w>>].count ELSE 0

Start(c, w) == w * Rate(c).WindowMS
InWindow(c, w) == Admitted(c, Start(c, w), Start(c, w) + Rate(c).WindowMS - 1)

\* Sums over the ticks rise up to now and stay there.
Rising(f) == \A t, u \in 0..(Horizon + 1) : t <= u => f[t] <= f[u]
Flat(f) == \A t \in 0..(Horizon + 1) : t > now => f[t] = f[now + 1]

\* A request belongs to the window of the tick in which it came, and a counter
\* outlives its window.
InPhase ==
  /\ \A r \in Call :
       call[r] # Idle => call[r].window = call[r].since \div Rate(call[r].client).WindowMS
  /\ \A k \in DOMAIN Store : Start(k[1], k[2]) + Rate(k[1]).WindowMS <= Store[k].expires

\* No window has let more through than the limit, and one that has not ended no
\* more than its counter says.
Kept(c, w) ==
  /\ InWindow(c, w) <= Rate(c).Max
  /\ now < Start(c, w) + Rate(c).WindowMS => InWindow(c, w) <= Seen(c, w)

WindowInv ==
  /\ TypeInv
  /\ \A c \in clients : Rising(served[c]) /\ Flat(served[c])
  /\ SkewFree => InPhase
  /\ Punctual => \A c \in clients \ excused, w \in Nat : Start(c, w) <= Horizon => Kept(c, w)

LEMMA OnePlace ==
  ASSUME TypeInv
  PROVE  Place(1) \in Places /\ \A i \in Instance : Place(i) = Place(1)
<1>1. 1 \in Instance /\ (~Shared => Instance = {1})
  BY SettingsAre DEF TypeInv, Instance
<1> QED
  BY <1>1 DEF Place, Places

\* A window's ticks and what was let through in them
LEMMA WindowIs ==
  ASSUME TypeInv, NEW c \in clients, NEW w \in Nat, Start(c, w) <= Horizon
  PROVE  /\ Start(c, w) \in 0..Horizon /\ Rate(c).WindowMS \in Nat \ {0}
         /\ served[c] \in Counts
         /\ \E e \in 0..(Horizon + 1) :
              /\ Start(c, w) < e /\ e <= Start(c, w) + Rate(c).WindowMS
              /\ e = Start(c, w) + Rate(c).WindowMS \/ e = Horizon + 1
              /\ InWindow(c, w) = served[c][e] - served[c][Start(c, w)]
              /\ settings' = settings =>
                   InWindow(c, w)' = served'[c][e] - served'[c][Start(c, w)]
<1> DEFINE S == Start(c, w)
           W == Rate(c).WindowMS
           e == IF S + W - 1 < Horizon THEN (S + W - 1) + 1 ELSE Horizon + 1
<1>1. W \in Nat \ {0} /\ Horizon \in Nat
  BY SettingsAre, CountersTyped DEF TypeInv
<1>2. S \in Nat
  BY <1>1 DEF Start
<1>3. served[c] \in Counts
  BY DEF TypeInv, TypeOK, Counts
<1>4. settings' = settings => S' = S /\ W' = W
  BY DEF Start, Rate
<1>5. InWindow(c, w) = served[c][e] - served[c][S]
  BY Zenon DEF InWindow, Admitted
<1>6. settings' = settings => InWindow(c, w)' = served'[c][e] - served'[c][S]
  BY <1>4, Zenon DEF InWindow, Admitted
<1> HIDE DEF S, W
<1>7. e \in 0..(Horizon + 1) /\ S < e /\ e <= S + W /\ (e = S + W \/ e = Horizon + 1)
  BY <1>1, <1>2 DEF S
<1> QED
  BY <1>1, <1>2, <1>3, <1>5, <1>6, <1>7 DEF S, W

LEMMA OneMoreIs ==
  ASSUME NEW f \in Counts, now \in 0..Horizon, Rising(f), Flat(f)
  PROVE  /\ OneMore(f) \in Counts /\ Rising(OneMore(f)) /\ Flat(OneMore(f))
         /\ \A t \in 0..(Horizon + 1) : /\ t > now => OneMore(f)[t] = f[t] + 1
                                        /\ t <= now => OneMore(f)[t] = f[t]
<1> DEFINE g == OneMore(f)
<1>1. Horizon \in Nat /\ now \in Nat /\ now + 1 \in 0..(Horizon + 1)
  BY RateLimiterAssumption
<1>2. /\ \A t \in 0..(Horizon + 1) : /\ t > now => g[t] = f[t] + 1
                                     /\ t <= now => g[t] = f[t]
      /\ \A t \in 0..(Horizon + 1) : f[t] \in Nat
  BY <1>1 DEF OneMore, Counts
<1>3. g \in Counts
  BY CountsAre
<1> HIDE DEF g
<1>4. Rising(g)
  BY <1>1, <1>2 DEF Rising
<1>5. Flat(g)
  BY <1>1, <1>2 DEF Flat
<1> QED
  BY <1>2, <1>3, <1>4, <1>5 DEF g

LEMMA NoneServedIs ==
  ASSUME now \in 0..Horizon
  PROVE  Rising(NoneServed) /\ Flat(NoneServed)
<1>1. Horizon \in Nat /\ now + 1 \in 0..(Horizon + 1)
  BY RateLimiterAssumption
<1> QED
  BY <1>1 DEF NoneServed, Rising, Flat

LEMMA SameWindows ==
  ASSUME UNCHANGED settings
  PROVE  /\ \A c : Rate(c)' = Rate(c)
         /\ \A c, w : Start(c, w)' = Start(c, w)
         /\ Place(1)' = Place(1)
<1>1. \A c : Rate(c)' = Rate(c)
  BY DEF Rate
<1>2. \A c, w : Start(c, w)' = Start(c, w)
  BY DEF Rate, Start
<1> QED
  BY <1>1, <1>2 DEF Place, Shared

LEMMA WindowInit == Init => WindowInv
<1> SUFFICES ASSUME Init PROVE WindowInv
  OBVIOUS
<1>1. TypeInv
  BY TypeInit
<1>2. now = 0 /\ served = [c \in clients |-> NoneServed] /\ call = [r \in Call |-> Idle]
      /\ counters = [p \in Places |-> <<>>]
  BY Zenon DEF Init
<1>3. Horizon \in Nat /\ now \in 0..Horizon
  BY <1>1, CountersTyped
<1>4. \A c \in clients : Rising(served[c]) /\ Flat(served[c])
  BY <1>2, <1>3, NoneServedIs
<1>5. DOMAIN Store = {}
  BY <1>1, <1>2, OnePlace DEF Store
<1>6. InPhase
  BY <1>2, <1>5 DEF InPhase
<1>7. ASSUME NEW c \in clients, NEW w \in Nat, Start(c, w) <= Horizon PROVE Kept(c, w)
  <2>1. InWindow(c, w) = 0
    <3>1. PICK e \in 0..(Horizon + 1) : InWindow(c, w) = served[c][e] - served[c][Start(c, w)]
      BY <1>1, <1>7, WindowIs
    <3>2. Start(c, w) \in 0..Horizon
      BY <1>1, <1>7, WindowIs
    <3>3. served[c] = NoneServed
      BY <1>2
    <3>4. NoneServed[e] = 0 /\ NoneServed[Start(c, w)] = 0
      BY <1>3, <3>2 DEF NoneServed
    <3> QED
      BY <3>1, <3>3, <3>4
  <2>2. Seen(c, w) = 0
    BY <1>5 DEF Seen
  <2>3. Rate(c).Max \in Nat \ {0}
    BY <1>1, SettingsAre DEF TypeInv
  <2> QED
    BY <2>1, <2>2, <2>3 DEF Kept
<1> QED
  BY <1>1, <1>4, <1>6, <1>7 DEF WindowInv

\* Steps that change at most the calls
LEMMA WindowStays ==
  ASSUME WindowInv, TypeInv',
         UNCHANGED <<settings, clients, skew, now, counters, served, delayed, excused>>,
         SkewFree => \A r \in Call :
           \/ call'[r] = call[r]
           \/ call'[r].window = call'[r].since \div Rate(call'[r].client).WindowMS
  PROVE  WindowInv'
<1>1. /\ \A c : Rate(c)' = Rate(c)
      /\ \A c, w : Start(c, w)' = Start(c, w)
      /\ Place(1)' = Place(1)
  BY SameWindows
<1>2. SkewFree' = SkewFree /\ Punctual' = Punctual
  BY SamePlaces DEF SkewFree, Punctual
<1>3. Store' = Store
  BY <1>1 DEF Store
<1>4. \A c, w : Seen(c, w)' = Seen(c, w) /\ InWindow(c, w)' = InWindow(c, w)
  BY <1>1, <1>3 DEF Seen, InWindow, Admitted
<1>5. ASSUME SkewFree PROVE InPhase'
  <2>1. InPhase
    BY <1>5 DEF WindowInv
  <2> QED
    BY <1>1, <1>3, <1>5, <2>1 DEF InPhase
<1>6. ASSUME Punctual, NEW c \in clients \ excused, NEW w \in Nat, Start(c, w) <= Horizon
      PROVE  Kept(c, w)'
  <2>1. Kept(c, w)
    BY <1>6 DEF WindowInv
  <2> QED
    BY <1>1, <1>4, <2>1 DEF Kept
<1>7. \A c \in clients' : Rising(served'[c]) /\ Flat(served[c])'
  BY DEF WindowInv, Flat
<1> QED
  BY <1>1, <1>2, <1>5, <1>6, <1>7 DEF WindowInv, Rising

LEMMA WindowReadClock ==
  ASSUME WindowInv, NEW r \in Call, NEW c \in clients, NEW i \in Instance, ReadClock(r, c, i)
  PROVE  WindowInv'
<1>1. /\ TypeInv' /\ call' = [call EXCEPT ![r] = Reading(c, i)] /\ DOMAIN call = Call
  BY TypeReadClock DEF WindowInv, TypeInv, TypeOK
<1>2. UNCHANGED <<settings, clients, skew, now, counters, served, delayed, excused>>
  BY Zenon DEF ReadClock
<1>3. ASSUME SkewFree
      PROVE  Reading(c, i).window = Reading(c, i).since \div Rate(Reading(c, i).client).WindowMS
  <2>1. skew[i] = 0 /\ now \in Nat
    BY <1>3, CountersTyped DEF SkewFree, WindowInv
  <2> QED
    BY <2>1 DEF Reading
<1> QED
  BY <1>1, <1>2, <1>3, WindowStays

LEMMA WindowTick ==
  ASSUME WindowInv, Tick
  PROVE  WindowInv'
<1>1. /\ TypeInv' /\ now' = now + 1 /\ now < Horizon
      /\ UNCHANGED <<settings, clients, skew, call, served, delayed, excused>>
      /\ \A p \in Places : /\ Part(counters'[p], counters[p])
                           /\ \A k \in DOMAIN counters[p] \ DOMAIN counters'[p] :
                                ~(now + 1 < counters[p][k].expires)
  BY TypeTick DEF WindowInv
<1>2. /\ \A c : Rate(c)' = Rate(c)
      /\ \A c, w : Start(c, w)' = Start(c, w)
      /\ Place(1)' = Place(1) /\ Place(1) \in Places
  BY <1>1, SameWindows, OnePlace DEF WindowInv
<1>3. SkewFree' = SkewFree /\ Punctual' = Punctual /\ (Punctual => SkewFree)
  BY <1>1, SamePlaces DEF SkewFree, Punctual
<1>4. /\ Part(Store', Store)
      /\ \A k \in DOMAIN Store \ DOMAIN Store' : ~(now + 1 < Store[k].expires)
  BY <1>1, <1>2 DEF Store
<1>5. ASSUME SkewFree PROVE InPhase'
  <2>1. InPhase
    BY <1>5 DEF WindowInv
  <2> QED
    BY <1>1, <1>2, <1>4, <2>1 DEF InPhase, Part
<1>6. ASSUME Punctual, NEW c \in clients \ excused, NEW w \in Nat, Start(c, w) <= Horizon
      PROVE  Kept(c, w)'
  <2>1. Kept(c, w) /\ InPhase
    BY <1>3, <1>6 DEF WindowInv
  <2>2. InWindow(c, w)' = InWindow(c, w)
    BY <1>1, <1>2 DEF InWindow, Admitted
  <2>3. ASSUME now + 1 < Start(c, w) + Rate(c).WindowMS
        PROVE  InWindow(c, w) <= Seen(c, w) /\ Seen(c, w)' = Seen(c, w)
    <3>1. now \in Nat /\ Start(c, w) \in Nat /\ Rate(c).WindowMS \in Nat
      BY <1>6, CountersTyped, WindowIs DEF WindowInv
    <3>2. InWindow(c, w) <= Seen(c, w)
      BY <2>1, <2>3, <3>1 DEF Kept
    <3>3. CASE <<c, w>> \notin DOMAIN Store
      BY <1>4, <3>2, <3>3 DEF Seen, Part
    <3>4. CASE <<c, w>> \in DOMAIN Store
      <4>1. Typed(Store)
        BY <1>2, CountersTyped DEF Store, WindowInv
      <4>2. Store[<<c, w>>].expires \in Nat
        BY <3>4, <4>1 DEF Typed, Bucket
      <4>3. Start(c, w) + Rate(c).WindowMS <= Store[<<c, w>>].expires
        BY <2>1, <3>4 DEF InPhase
      <4>4. <<c, w>> \in DOMAIN Store'
        BY <1>4, <2>3, <3>1, <3>4, <4>2, <4>3
      <4> QED
        BY <1>4, <3>2, <3>4, <4>4 DEF Seen, Part
    <3> QED
      BY <3>3, <3>4
  <2> QED
    BY <1>1, <1>2, <2>1, <2>2, <2>3 DEF Kept
<1>7. \A c \in clients' : Rising(served[c])' /\ Flat(served[c])'
  <2>1. now \in 0..Horizon /\ now + 1 \in 0..(Horizon + 1) /\ now + 2 \in 0..(Horizon + 1)
    BY <1>1, CountersTyped DEF WindowInv
  <2>2. ASSUME NEW c \in clients PROVE Flat(served[c])'
    <3>1. Flat(served[c])
      BY DEF WindowInv
    <3> QED
      BY <1>1, <2>1, <3>1 DEF Flat
  <2> QED
    BY <1>1, <2>2 DEF WindowInv, Rising
<1> QED
  BY <1>1, <1>2, <1>3, <1>5, <1>6, <1>7 DEF WindowInv

(* Counting a request leaves every other running window's counter, and adds
   one to its own unless that is beyond the limit. *)
LEMMA StoreAfter ==
  ASSUME WindowInv, SkewFree, NEW r \in Call, call[r] # Idle,
         NEW kept, Part(kept, Store), NEW given_up,
         \A k \in DOMAIN Store \ DOMAIN kept :
           k[1] \in given_up \/ ~(now <= Store[k].expires),
         counters' = [counters EXCEPT ![Place(1)] =
                        Stored(kept, Key(r), Counted(kept, Key(r)))],
         UNCHANGED <<settings, now>>
  PROVE  /\ \A k \in DOMAIN Store' : Start(k[1], k[2]) + Rate(k[1]).WindowMS <= Store'[k].expires
         /\ \A c \in clients \ given_up, w \in Nat :
              now < Start(c, w) + Rate(c).WindowMS =>
                /\ Seen(c, w) <= Seen(c, w)'
                /\ Key(r) = <<c, w>> =>
                     /\ Seen(c, w)' = Counted(kept, Key(r)).count
                     /\ Seen(c, w)' <= Rate(c).Max => Seen(c, w)' = Seen(c, w) + 1
<1> DEFINE key == Key(r)
           bucket == Counted(kept, key)
<1>1. /\ Typed(Store) /\ now \in Nat /\ key \in BucketKey /\ Place(1) \in Places
      /\ InPhase /\ TypeInv
  BY OnePlace, CountersTyped DEF WindowInv, Store
<1>2. Typed(kept)
  BY <1>1, PartTyped
<1>3. /\ bucket \in Bucket
      /\ key \in DOMAIN kept => /\ bucket.expires = kept[key].expires
                                /\ bucket.count = Count(kept[key], key[1])
      /\ key \notin DOMAIN kept => /\ bucket.expires = now + Rate(key[1]).WindowMS
                                   /\ bucket.count = 1
  BY <1>1, <1>2, CountedIs
<1>4. counters'[Place(1)] = Stored(kept, key, bucket) /\ Place(1)' = Place(1)
  <2>1. DOMAIN counters = Places
    BY <1>1 DEF TypeInv, TypeOK
  <2> QED
    BY <1>1, <2>1, SameWindows
<1>5. /\ DOMAIN Store' = DOMAIN kept \cup {key} /\ Store'[key] = bucket
      /\ \A k \in DOMAIN kept : k # key => Store'[k] = kept[k]
  <2>1. Store' = Stored(kept, key, bucket)
    BY <1>4 DEF Store
  <2> HIDE DEF bucket, key
  <2> QED
    BY <2>1, SMT DEF Stored
<1>6. /\ key[1] \in clients /\ key[2] \in Nat /\ Rate(key[1]).WindowMS \in Nat \ {0}
      /\ Start(key[1], key[2]) <= now
  <2>1. key[1] \in clients /\ key[2] \in Nat /\ key[1] = call[r].client /\ key[2] = call[r].window
    BY <1>1 DEF BucketKey, Key
  <2>2. Rate(key[1]).WindowMS \in Nat \ {0}
    BY <1>1, <2>1, SettingsAre DEF TypeInv
  <2>3. call[r].since \in Nat /\ call[r].since <= now
    BY <1>1 DEF TypeInv, TypeOK
  <2>4. call[r].window = call[r].since \div Rate(call[r].client).WindowMS
    BY <1>1 DEF InPhase
  <2>5. call[r].window * Rate(call[r].client).WindowMS <= call[r].since
    BY <2>1, <2>2, <2>3, <2>4, DivisionIs
  <2> QED
    BY <1>1, <2>1, <2>2, <2>3, <2>5 DEF Start
<1>7. \A c, w : Seen(c, w)' = IF <<c, w>> \in DOMAIN Store' THEN Store'[<<c, w>>].count ELSE 0
  BY DEF Seen
<1> HIDE DEF key, bucket
<1>8. ASSUME NEW k \in DOMAIN Store'
      PROVE  Start(k[1], k[2]) + Rate(k[1]).WindowMS <= Store'[k].expires
  <2>1. CASE k # key \/ key \in DOMAIN kept
    <3>1. k \in DOMAIN kept /\ k \in DOMAIN Store /\ Store'[k].expires = Store[k].expires
      BY <1>3, <1>5, <2>1 DEF Part
    <3> QED
      BY <1>1, <3>1 DEF InPhase
  <2>2. CASE k = key /\ key \notin DOMAIN kept
    <3>1. Start(key[1], key[2]) \in Nat
      BY <1>6 DEF Start
    <3> QED
      BY <1>1, <1>3, <1>5, <1>6, <2>2, <3>1
  <2> QED
    BY <2>1, <2>2
<1>9. ASSUME NEW c \in clients \ given_up, NEW w \in Nat,
             now < Start(c, w) + Rate(c).WindowMS
      PROVE  /\ Seen(c, w) <= Seen(c, w)'
             /\ key = <<c, w>> =>
                  /\ Seen(c, w)' = bucket.count
                  /\ Seen(c, w)' <= Rate(c).Max => Seen(c, w)' = Seen(c, w) + 1
  <2> DEFINE k == <<c, w>>
  <2>1. k \in DOMAIN Store => k \in DOMAIN kept
    <3> SUFFICES ASSUME k \in DOMAIN Store, k \notin DOMAIN kept PROVE FALSE
      OBVIOUS
    <3>1. ~(now <= Store[k].expires)
      OBVIOUS
    <3>2. Start(c, w) + Rate(c).WindowMS <= Store[k].expires
      BY <1>1 DEF InPhase
    <3>3. Store[k].expires \in Nat /\ Rate(c).WindowMS \in Nat
      BY <1>1, SettingsAre DEF Typed, Bucket, TypeInv
    <3>4. Start(c, w) \in Nat
      BY <3>3 DEF Start
    <3> QED
      BY <1>1, <1>9, <3>1, <3>2, <3>3, <3>4
  <2>2. /\ k \in DOMAIN kept => /\ Seen(c, w) = kept[k].count /\ kept[k] \in Bucket
                                /\ Seen(c, w) \in Nat
        /\ k \notin DOMAIN kept => Seen(c, w) = 0
    BY <1>2, <2>1 DEF Seen, Part, Typed, Bucket
  <2>3. Rate(c).Max \in Nat
    BY <1>1, SettingsAre DEF TypeInv
  <2>4. CASE key = k
    <3>1. Seen(c, w)' = bucket.count
      BY <1>5, <1>7, <2>4
    <3>2. CASE k \in DOMAIN kept
      <4>1. bucket.count = IF kept[k].count > Rate(c).Max THEN kept[k].count
                           ELSE kept[k].count + 1
        BY <1>3, <2>4, <3>2 DEF Count
      <4> QED
        BY <2>2, <2>3, <3>1, <3>2, <4>1
    <3>3. CASE k \notin DOMAIN kept
      BY <1>3, <2>2, <2>4, <3>1, <3>3
    <3> QED
      BY <3>2, <3>3
  <2>5. CASE key # k
    <3>1. Seen(c, w)' = Seen(c, w)
      BY <1>5, <1>7, <2>2, <2>5
    <3>2. Seen(c, w) \in Nat
      BY <2>2
    <3> QED
      BY <2>5, <3>1, <3>2
  <2> QED
    BY <2>4, <2>5
<1> QED
  BY <1>8, <1>9 DEF key, bucket

\* Windows of steps in which time stands still
LEMMA SameTime ==
  ASSUME WindowInv, UNCHANGED <<settings, skew, now>>
  PROVE  /\ SkewFree' = SkewFree
         /\ SkewFree /\ (\A r \in Call : call'[r] = call[r] \/ call'[r] = Idle)
              /\ (\A k \in DOMAIN Store' :
                    Start(k[1], k[2]) + Rate(k[1]).WindowMS <= Store'[k].expires)
            => InPhase'
<1>1. /\ \A c : Rate(c)' = Rate(c)
      /\ \A c, w : Start(c, w)' = Start(c, w)
  BY SameWindows
<1>2. SkewFree' = SkewFree
  BY SamePlaces DEF SkewFree
<1>3. ASSUME SkewFree, \A r \in Call : call'[r] = call[r] \/ call'[r] = Idle,
             \A k \in DOMAIN Store' :
               Start(k[1], k[2]) + Rate(k[1]).WindowMS <= Store'[k].expires
      PROVE  InPhase'
  <2>1. InPhase
    BY <1>3 DEF WindowInv
  <2>2. ASSUME NEW r \in Call, call'[r] # Idle
        PROVE  call'[r].window = call'[r].since \div Rate(call'[r].client).WindowMS
    BY <1>3, <2>1, <2>2 DEF InPhase
  <2> QED
    BY <1>1, <1>3, <2>2 DEF InPhase
<1> QED
  BY <1>2, <1>3

LEMMA WindowCount ==
  ASSUME WindowInv, NEW r \in Call, CountInMemory(r) \/ CountInRedis(r)
  PROVE  WindowInv'
<1> DEFINE d == call[r].client
           key == Key(r)
<1>1. PICK kept, given_up :
        /\ call[r] # Idle /\ Place(call[r].instance) \in Places
        /\ Part(kept, counters[Place(call[r].instance)]) /\ given_up \in SUBSET clients
        /\ \A k \in DOMAIN counters[Place(call[r].instance)] \ DOMAIN kept :
             k[1] \in given_up \/ ~(now <= counters[Place(call[r].instance)][k].expires)
        /\ counters' = [counters EXCEPT ![Place(call[r].instance)] =
                          Stored(kept, key, Counted(kept, key))]
        /\ Decide(r, Counted(kept, key), given_up)
        /\ UNCHANGED <<settings, clients, skew, now>>
  BY CountsInOne, Zenon DEF WindowInv
<1> DEFINE bucket == Counted(kept, key)
           admitted == bucket.count <= Rate(d).Max
<1>2. /\ TypeInv /\ TypeInv' /\ now \in 0..Horizon /\ now \in Nat /\ key \in BucketKey
      /\ d \in clients /\ key = <<d, call[r].window>> /\ call[r].window \in Nat
  <2>1. TypeInv /\ TypeInv'
    BY TypeCount DEF WindowInv
  <2>2. d \in clients /\ call[r].window \in Nat
    BY <1>1, <2>1 DEF TypeInv, TypeOK
  <2> QED
    BY <1>1, <2>1, <2>2, CountersTyped DEF Key
<1>3. Place(call[r].instance) = Place(1)
  BY <1>1, <1>2, OnePlace, CountersTyped
<1>4. /\ excused' = excused \cup given_up
      /\ served' = [c \in clients |->
                      IF c \in excused' THEN NoneServed
                      ELSE IF c = d /\ admitted THEN OneMore(served[d]) ELSE served[c]]
      /\ delayed' = (delayed \/ call[r].since < now)
      /\ call' = [call EXCEPT ![r] = Idle]
  BY <1>1, Zenon DEF Decide
<1>5. \A q \in Call : call'[q] = call[q] \/ call'[q] = Idle
  BY <1>4, <1>2 DEF TypeInv, TypeOK
<1>6. \A c \in clients : served[c] \in Counts /\ Rising(served[c]) /\ Flat(served[c])
  BY DEF WindowInv, TypeInv, TypeOK, Counts
<1>7. \A c \in clients' : Rising(served'[c]) /\ Flat(served[c])'
  <2>1. ASSUME NEW c \in clients PROVE Rising(served'[c]) /\ Flat(served'[c])
    BY <1>2, <1>4, <1>6, NoneServedIs, OneMoreIs
  <2> QED
    BY <1>1, <2>1 DEF Flat
<1>8. /\ SkewFree' = SkewFree /\ (SkewFree => InPhase) /\ (SkewFree => InPhase')
  <2>1. ASSUME SkewFree
        PROVE  \A k \in DOMAIN Store' :
                 Start(k[1], k[2]) + Rate(k[1]).WindowMS <= Store'[k].expires
    BY <1>1, <1>3, <2>1, StoreAfter, Zenon DEF Store
  <2> QED
    BY <1>1, <1>5, <2>1, SameTime DEF WindowInv
<1>9. ASSUME Punctual', NEW c \in clients \ excused', NEW w \in Nat, Start(c, w) <= Horizon
      PROVE  Kept(c, w)'
  <2>1. Punctual /\ SkewFree /\ ~(call[r].since < now)
    BY <1>4, <1>8, <1>9, <1>1, Zenon DEF Punctual, SkewFree
  <2>2. c \in clients \ excused /\ c \in clients \ given_up /\ Kept(c, w) /\ InPhase
    BY <1>4, <1>8, <1>9, <2>1 DEF WindowInv
  <2>3. now < Start(c, w) + Rate(c).WindowMS =>
          /\ Seen(c, w) <= Seen(c, w)'
          /\ key = <<c, w>> =>
               /\ Seen(c, w)' = bucket.count
               /\ Seen(c, w)' <= Rate(c).Max => Seen(c, w)' = Seen(c, w) + 1
    <3>1. \A x \in clients \ given_up, u \in Nat :
            now < Start(x, u) + Rate(x).WindowMS =>
              /\ Seen(x, u) <= Seen(x, u)'
              /\ Key(r) = <<x, u>> =>
                   /\ Seen(x, u)' = Counted(kept, Key(r)).count
                   /\ Seen(x, u)' <= Rate(x).Max => Seen(x, u)' = Seen(x, u) + 1
      BY <1>1, <1>3, <2>1, StoreAfter, Zenon DEF Store
    <3> QED
      BY <2>2, <3>1, Zenon
  <2>4. PICK e \in 0..(Horizon + 1) :
          /\ Start(c, w) < e /\ e <= Start(c, w) + Rate(c).WindowMS
          /\ e = Start(c, w) + Rate(c).WindowMS \/ e = Horizon + 1
          /\ InWindow(c, w) = served[c][e] - served[c][Start(c, w)]
          /\ InWindow(c, w)' = served'[c][e] - served'[c][Start(c, w)]
    BY <1>1, <1>2, <1>9, WindowIs
  <2>5. /\ Start(c, w) \in 0..Horizon /\ Start(c, w) \in Nat /\ e \in Nat
        /\ Rate(c).WindowMS \in Nat \ {0} /\ Rate(c).Max \in Nat \ {0}
        /\ served[c][e] \in Nat /\ served[c][Start(c, w)] \in Nat
        /\ Horizon \in Nat
    <3>1. Start(c, w) \in 0..Horizon /\ Rate(c).WindowMS \in Nat \ {0} /\ served[c] \in Counts
      BY <1>2, <1>9, WindowIs
    <3>2. Rate(c).Max \in Nat \ {0} /\ Horizon \in Nat
      BY <1>2, SettingsAre, CountersTyped DEF TypeInv
    <3> QED
      BY <3>1, <3>2 DEF Counts
  <2>6. Seen(c, w) \in Nat /\ Seen(c, w)' \in Nat
    <3>1. Typed(Store)
      BY <1>2, OnePlace, CountersTyped DEF Store
    <3>2. Typed(Store')
      <4>1. Place(1)' = Place(1) /\ Places' = Places /\ BucketKey' = BucketKey
        BY <1>1, SameWindows, SamePlaces DEF BucketKey
      <4>2. Place(1) \in Places
        BY <1>2, OnePlace
      <4> QED
        BY <1>2, <4>1, <4>2 DEF Store, Typed, TypeInv, TypeOK
    <3>3. Seen(c, w) \in Nat
      BY <3>1 DEF Seen, Typed, Bucket
    <3>4. Seen(c, w)' \in Nat
      BY <3>2 DEF Seen, Typed, Bucket
    <3> QED
      BY <3>3, <3>4
  <2>7. Kept(c, w)' <=>
          /\ InWindow(c, w)' <= Rate(c).Max
          /\ now < Start(c, w) + Rate(c).WindowMS => InWindow(c, w)' <= Seen(c, w)'
    BY <1>1, SameWindows DEF Kept
  <2>8. CASE ~(c = d /\ admitted)
    <3>1. served'[c] = served[c]
      BY <1>4, <1>9, <2>8
    <3> QED
      BY <2>2, <2>3, <2>4, <2>5, <2>6, <2>7, <3>1 DEF Kept
  <2>9. CASE c = d /\ admitted
    <3> DEFINE v == call[r].window
    <3>1. served'[c] = OneMore(served[c])
      BY <1>4, <1>9, <2>9
    <3>2. \A t \in 0..(Horizon + 1) : /\ t > now => served'[c][t] = served[c][t] + 1
                                      /\ t <= now => served'[c][t] = served[c][t]
      BY <1>2, <1>6, <2>9, <3>1, OneMoreIs
    <3>3. Start(c, v) <= now /\ now < Start(c, v) + Rate(c).WindowMS
      <4>1. call[r].since = now
        BY <1>1, <1>2, <2>1 DEF TypeInv, TypeOK
      <4>2. v = now \div Rate(c).WindowMS
        BY <1>1, <2>2, <2>9, <4>1 DEF InPhase
      <4> QED
        BY <1>2, <2>5, <4>2, DivisionIs DEF Start
    <3>4. CASE w = v
      <4>1. key = <<c, w>>
        BY <1>2, <2>9, <3>4
      <4>2. InWindow(c, w)' = InWindow(c, w) + 1
        BY <1>2, <2>4, <2>5, <3>2, <3>3, <3>4
      <4>3. Seen(c, w)' = Seen(c, w) + 1 /\ Seen(c, w)' <= Rate(c).Max
        BY <2>3, <2>9, <3>3, <3>4, <4>1
      <4>4. InWindow(c, w) <= Seen(c, w)
        BY <2>2, <3>3, <3>4 DEF Kept
      <4>5. InWindow(c, w) \in Int
        BY <2>4, <2>5
      <4> QED
        BY <2>5, <2>6, <2>7, <4>2, <4>3, <4>4, <4>5
    <3>5. CASE w < v
      <4>1. Start(c, w) + Rate(c).WindowMS <= Start(c, v)
        BY <1>2, <2>5, <3>5 DEF Start
      <4>2. e <= now /\ Start(c, w) <= now
        <5>1. Start(c, v) \in Nat
          BY <1>2, <2>5 DEF Start
        <5> QED
          BY <1>2, <2>4, <2>5, <3>3, <4>1, <5>1
      <4>3. InWindow(c, w)' = InWindow(c, w)
        BY <2>4, <2>5, <3>2, <4>2
      <4>4. ~(now < Start(c, w) + Rate(c).WindowMS)
        <5>1. Start(c, v) \in Nat
          BY <1>2, <2>5 DEF Start
        <5> QED
          BY <1>2, <2>5, <3>3, <4>1, <5>1
      <4> QED
        BY <2>2, <2>7, <4>3, <4>4 DEF Kept
    <3>6. CASE v < w
      <4>1. Start(c, v) + Rate(c).WindowMS <= Start(c, w) /\ Start(c, v) \in Nat
        BY <1>2, <2>5, <3>6 DEF Start
      <4>2. Start(c, w) > now /\ e > now
        BY <1>2, <2>4, <2>5, <3>3, <4>1
      <4>3. InWindow(c, w)' = InWindow(c, w)
        BY <2>4, <2>5, <3>2, <4>2
      <4>4. InWindow(c, w) \in Int
        BY <2>4, <2>5
      <4> QED
        BY <2>2, <2>3, <2>6, <2>7, <4>3, <4>4 DEF Kept
    <3> QED
      BY <1>2, <3>4, <3>5, <3>6
  <2> QED
    BY <2>8, <2>9
<1>10. \A c, w : Start(c, w)' = Start(c, w)
  BY <1>1, SameWindows
<1> QED
  BY <1>1, <1>2, <1>7, <1>8, <1>9, <1>10 DEF WindowInv, Rising

LEMMA WindowStoreFails ==
  ASSUME WindowInv, NEW r \in Call, StoreFails(r)
  PROVE  WindowInv'
<1> DEFINE d == call[r].client
           key == Key(r)
<1>1. /\ TypeInv /\ TypeInv' /\ Shared /\ call[r] # Idle
      /\ UNCHANGED <<settings, clients, skew, now, delayed>>
      /\ call' = [call EXCEPT ![r] = Idle]
      /\ \/ counters' = counters
         \/ counters' = [counters EXCEPT !["redis"] =
              Stored(counters["redis"], key, Counted(counters["redis"], key))]
      /\ \/ served' = served /\ excused' = excused
         \/ /\ served' = [served EXCEPT ![d] = NoneServed]
            /\ excused' = excused \cup {d}
  BY TypeStoreFails DEF WindowInv
<1>2. /\ Place(1) = "redis" /\ Store = counters["redis"] /\ Place(1)' = Place(1)
      /\ \A c : Rate(c)' = Rate(c)
      /\ \A c, w : Start(c, w)' = Start(c, w)
  BY <1>1, SameWindows DEF Place, Store
<1>3. \A q \in Call : call'[q] = call[q] \/ call'[q] = Idle
  BY <1>1 DEF TypeInv, TypeOK
<1>4. ASSUME SkewFree
      PROVE  /\ \A k \in DOMAIN Store' :
                  Start(k[1], k[2]) + Rate(k[1]).WindowMS <= Store'[k].expires
             /\ \A c \in clients, w \in Nat :
                  now < Start(c, w) + Rate(c).WindowMS => Seen(c, w) <= Seen(c, w)'
  <2>1. CASE counters' = counters
    <3>1. Store' = Store
      BY <1>2, <2>1 DEF Store
    <3>2. \A k \in DOMAIN Store : Start(k[1], k[2]) + Rate(k[1]).WindowMS <= Store[k].expires
      BY <1>4 DEF WindowInv, InPhase
    <3>3. Typed(Store)
      BY <1>1, OnePlace, CountersTyped DEF Store
    <3>4. \A c, w : Seen(c, w) \in Nat /\ Seen(c, w)' = Seen(c, w)
      BY <3>1, <3>3 DEF Seen, Typed, Bucket
    <3> QED
      BY <3>1, <3>2, <3>4
  <2>2. CASE counters' # counters
    <3>1. counters' = [counters EXCEPT ![Place(1)] =
                         Stored(Store, Key(r), Counted(Store, Key(r)))]
      BY <1>1, <1>2, <2>2, Zenon
    <3>2. Part(Store, Store) /\ \A k \in DOMAIN Store \ DOMAIN Store :
            k[1] \in {} \/ ~(now <= Store[k].expires)
      BY DEF Part
    <3>3. /\ \A k \in DOMAIN Store' :
               Start(k[1], k[2]) + Rate(k[1]).WindowMS <= Store'[k].expires
          /\ \A c \in clients \ {}, w \in Nat :
               now < Start(c, w) + Rate(c).WindowMS => Seen(c, w) <= Seen(c, w)'
      BY <1>1, <1>4, <3>1, <3>2, StoreAfter, Zenon
    <3> QED
      BY <3>3, Zenon
  <2> QED
    BY <2>1, <2>2
<1>5. SkewFree' = SkewFree /\ (SkewFree => InPhase')
  BY <1>1, <1>3, <1>4, SameTime, Zenon
<1>6. \A c \in clients' : Rising(served'[c]) /\ Flat(served[c])'
  <2>1. now \in 0..Horizon /\ DOMAIN served = clients
    BY <1>1, CountersTyped DEF TypeInv, TypeOK
  <2>2. ASSUME NEW c \in clients PROVE Rising(served'[c]) /\ Flat(served'[c])
    <3>1. served'[c] = served[c] \/ served'[c] = NoneServed
      BY <1>1, <2>1
    <3> QED
      BY <2>1, <3>1, NoneServedIs DEF WindowInv
  <2> QED
    BY <1>1, <2>2 DEF Flat
<1>7. ASSUME Punctual', NEW c \in clients \ excused', NEW w \in Nat, Start(c, w) <= Horizon
      PROVE  Kept(c, w)'
  <2>1. Punctual /\ SkewFree
    BY <1>1, <1>5, <1>7, Zenon DEF Punctual, SkewFree
  <2>2. c \in clients \ excused /\ Kept(c, w)
    BY <1>1, <1>7, <2>1 DEF WindowInv
  <2>3. served'[c] = served[c]
    BY <1>1, <1>7 DEF TypeInv, TypeOK
  <2>4. PICK e \in 0..(Horizon + 1) :
          /\ InWindow(c, w) = served[c][e] - served[c][Start(c, w)]
          /\ InWindow(c, w)' = served'[c][e] - served'[c][Start(c, w)]
    BY <1>1, <1>7, WindowIs
  <2>5. InWindow(c, w)' = InWindow(c, w) /\ InWindow(c, w) \in Int
    <3>1. served[c] \in Counts /\ Start(c, w) \in 0..Horizon /\ Horizon \in Nat
      BY <1>1, <1>7, WindowIs, CountersTyped
    <3> QED
      BY <2>3, <2>4, <3>1 DEF Counts
  <2>6. now < Start(c, w) + Rate(c).WindowMS =>
          Seen(c, w) <= Seen(c, w)' /\ Seen(c, w) \in Nat /\ Seen(c, w)' \in Nat
    <3>1. now < Start(c, w) + Rate(c).WindowMS => Seen(c, w) <= Seen(c, w)'
      BY <1>4, <2>1, <2>2
    <3>2. Typed(Store) /\ Typed(Store')
      <4>1. Places' = Places /\ BucketKey' = BucketKey /\ Place(1) \in Places
        BY <1>1, SamePlaces, OnePlace DEF BucketKey
      <4> QED
        BY <1>1, <1>2, <4>1, CountersTyped DEF Store, Typed, TypeInv, TypeOK
    <3>3. Seen(c, w) \in Nat
      BY <3>2 DEF Seen, Typed, Bucket
    <3>4. Seen(c, w)' \in Nat
      BY <3>2 DEF Seen, Typed, Bucket
    <3> QED
      BY <3>1, <3>3, <3>4
  <2> QED
    BY <1>1, <1>2, <2>2, <2>5, <2>6 DEF Kept
<1> QED
  BY <1>1, <1>2, <1>5, <1>6, <1>7 DEF WindowInv, Rising

LEMMA WindowNext == WindowInv /\ [Next]_vars => WindowInv'
<1> SUFFICES ASSUME WindowInv, [Next]_vars PROVE WindowInv'
  OBVIOUS
<1>1. CASE Tick
  BY <1>1, WindowTick
<1>2. ASSUME NEW r \in Call, NEW c \in clients, NEW i \in Instance, ReadClock(r, c, i)
      PROVE  WindowInv'
  BY <1>2, WindowReadClock
<1>3. ASSUME NEW r \in Call, CountInMemory(r) \/ CountInRedis(r)
      PROVE  WindowInv'
  BY <1>3, WindowCount
<1>4. ASSUME NEW r \in Call, StoreFails(r)
      PROVE  WindowInv'
  BY <1>4, WindowStoreFails
<1>5. CASE UNCHANGED vars
  <2>1. UNCHANGED <<settings, clients, skew, now, counters, call, served, delayed, excused>>
    BY <1>5, Zenon DEF vars
  <2>2. TypeInv'
    BY <1>5, TypeNext DEF WindowInv
  <2> QED
    BY <2>1, <2>2, WindowStays
<1> QED
  BY <1>1, <1>2, <1>3, <1>4, <1>5, Zenon DEF Next

(* A span as long as a window meets two windows. *)
LEMMA SpanOfTwo ==
  ASSUME WindowInv, Punctual, NEW c \in clients \ excused, NEW t \in 0..Horizon
  PROVE  /\ Admitted(c, t, t + Rate(c).WindowMS - 1) <= 2 * Rate(c).Max
         /\ t % Rate(c).WindowMS = 0 =>
              Admitted(c, t, t + Rate(c).WindowMS - 1) <= Rate(c).Max
<1> DEFINE W == Rate(c).WindowMS
           M == Rate(c).Max
           f == served[c]
           w == t \div W
           e == IF t + W - 1 < Horizon THEN (t + W - 1) + 1 ELSE Horizon + 1
<1>1. /\ TypeInv /\ W \in Nat \ {0} /\ M \in Nat \ {0} /\ t \in Nat /\ Horizon \in Nat
      /\ f \in Counts /\ Rising(f)
  BY SettingsAre, RateLimiterAssumption DEF WindowInv, TypeInv, TypeOK, Counts
<1>2. Admitted(c, t, t + W - 1) = f[e] - f[t]
  BY Zenon DEF Admitted
<1> HIDE DEF W, M, f
<1>3. w \in Nat /\ w * W <= t /\ t < w * W + W /\ (t % W = 0 => t = w * W)
  BY <1>1, DivisionIs
<1> HIDE DEF w
<1>4. Start(c, w) = w * W /\ Start(c, w + 1) = w * W + W /\ w * W \in Nat
  BY <1>1, <1>3 DEF Start, W
<1>5. /\ e \in 0..(Horizon + 1) /\ e <= t + W /\ t < e
      /\ \A s \in 0..(Horizon + 1) : f[s] \in Nat
  BY <1>1 DEF Counts
<1> HIDE DEF e
<1>6. PICK e1 \in 0..(Horizon + 1) :
        /\ Start(c, w) < e1 /\ e1 <= Start(c, w) + W
        /\ e1 = Start(c, w) + W \/ e1 = Horizon + 1
        /\ InWindow(c, w) = f[e1] - f[Start(c, w)]
  BY <1>1, <1>3, <1>4, WindowIs DEF W, f
<1>7. InWindow(c, w) <= M
  BY <1>1, <1>3, <1>4 DEF WindowInv, Kept, M
<1>8. w * W \in 0..(Horizon + 1) /\ f[w * W] <= f[t] /\ f[e1] - f[w * W] <= M
  BY <1>1, <1>3, <1>4, <1>6, <1>7 DEF Rising
<1>9. CASE w * W + W > Horizon
  <2>1. e1 = Horizon + 1 /\ f[e] <= f[e1]
    BY <1>1, <1>4, <1>5, <1>6, <1>9 DEF Rising
  <2>2. f[e] - f[t] <= M
    BY <1>1, <1>5, <1>8, <2>1
  <2> QED
    BY <1>1, <1>2, <1>5, <2>2 DEF W, M
<1>10. CASE ~(w * W + W > Horizon)
  <2>1. e1 = w * W + W /\ w + 1 \in Nat /\ Start(c, w + 1) <= Horizon
    BY <1>1, <1>3, <1>4, <1>6, <1>10
  <2>2. PICK e2 \in 0..(Horizon + 1) :
          /\ e2 = Start(c, w + 1) + W \/ e2 = Horizon + 1
          /\ InWindow(c, w + 1) = f[e2] - f[Start(c, w + 1)]
    BY <1>1, <2>1, WindowIs DEF W, f
  <2>3. InWindow(c, w + 1) <= M
    BY <2>1 DEF WindowInv, Kept, M
  <2>4. f[e] <= f[e2] /\ f[e2] - f[e1] <= M
    BY <1>1, <1>3, <1>4, <1>5, <2>1, <2>2, <2>3 DEF Rising
  <2>5. f[e] - f[t] <= 2 * M
    BY <1>1, <1>5, <1>8, <2>4
  <2>6. ASSUME t % W = 0 PROVE f[e] - f[t] <= M
    <3>1. t = w * W /\ f[e] <= f[e1]
      BY <1>1, <1>3, <1>4, <1>5, <2>1, <2>6 DEF Rising
    <3> QED
      BY <1>1, <1>5, <1>8, <3>1
  <2> QED
    BY <1>2, <2>5, <2>6 DEF W, M
<1> QED
  BY <1>1, <1>3, <1>9, <1>10

(* Where clocks agree and requests are counted in the tick they come, a client
   of any group has Max in each window of the clock and 2 * Max in any span of
   that length, on however many instances its requests land and whatever the
   store forgets, unless it was excused: for any limits, windows, clients and
   any number of racing requests (limiter.go:31-54). *)
THEOREM LimitsHold == Spec => []WithinWindow
<1>1. WindowInv => WithinWindow
  BY SpanOfTwo DEF WithinWindow
<1> QED
  BY WindowInit, WindowNext, <1>1, PTL DEF Spec


---------------------------------------------------------------------------
(* Counters, where clocks differ and requests come late.  The requests of a
   client are told apart by the window they are counted in; h is how many of one
   window were let through before each tick, begin when the window begins. *)

Ticks == 0..(Horizon + 1)

\* Requests of an earlier counter of the window, which the first of them began
\* before the span at t.
Excess(t, begin, M) == IF begin < t + Skew THEN M - 1 ELSE 0

\* A span meets two counters of a window, or one.
InSpans(h, begin, W, M) ==
  \A t, u \in Ticks : t <= u /\ u <= t + W => h[u] - h[t] <= M + Excess(t, begin, M)

\* At n, the window has a counter since b, with x requests that may have been
\* let through.
Begun(h, begin, W, M, n, b, x) ==
  /\ b <= n /\ begin <= b + Skew
  /\ \A t \in Ticks : b < t => h[n + 1] - h[t] <= x - 1
  /\ \A t \in Ticks : t <= b /\ b < t + W => h[n + 1] - h[t] <= x + Excess(t, begin, M)

\* It has none; if it had, that one expired.
Ended(h, begin, W, M, n) ==
  \A t \in Ticks : n < t + W => h[n + 1] - h[t] <= Excess(t, begin, M)

FlatFrom(h, n) == \A t \in Ticks : t > n => h[t] = h[n + 1]

\* h with one request more at n
Plus(g, h, n) == \A t \in Ticks : /\ t > n => g[t] = h[t] + 1
                                  /\ t <= n => g[t] = h[t]

LEMMA BegunLasts ==
  ASSUME NEW h \in [Ticks -> Int], NEW begin \in Nat, NEW W \in Nat \ {0}, NEW M \in Nat \ {0},
         NEW n \in Nat, NEW m \in Nat, n <= m, m <= n + 1, m <= Horizon, FlatFrom(h, n),
         NEW b \in Int, NEW x \in Int, Begun(h, begin, W, M, n, b, x)
  PROVE  /\ Begun(h, begin, W, M, m, b, x)
         /\ x <= M /\ b + W <= m => Ended(h, begin, W, M, m)
<1>1. Horizon \in Nat /\ Skew \in Nat
  BY RateLimiterAssumption
<1>2. n + 1 \in Ticks /\ m + 1 \in Ticks /\ h[m + 1] = h[n + 1]
  BY <1>1 DEF Ticks, FlatFrom
<1>3. Begun(h, begin, W, M, m, b, x)
  BY <1>2 DEF Begun
<1>4. ASSUME x <= M, b + W <= m, NEW t \in Ticks, m < t + W
      PROVE  h[m + 1] - h[t] <= Excess(t, begin, M)
  <2>1. b < t /\ begin < t + Skew
    BY <1>1, <1>4 DEF Begun, Ticks
  <2>2. h[m + 1] - h[t] <= x - 1 /\ h[m + 1] \in Int /\ h[t] \in Int
    BY <1>2, <2>1 DEF Begun
  <2> QED
    BY <1>4, <2>1, <2>2 DEF Excess
<1> QED
  BY <1>3, <1>4 DEF Ended

LEMMA EndedLasts ==
  ASSUME NEW h \in [Ticks -> Int], NEW begin \in Nat, NEW W \in Nat \ {0}, NEW M \in Nat \ {0},
         NEW n \in Nat, NEW m \in Nat, n <= m, m <= n + 1, m <= Horizon, FlatFrom(h, n),
         Ended(h, begin, W, M, n)
  PROVE  Ended(h, begin, W, M, m)
<1>1. Horizon \in Nat
  BY RateLimiterAssumption
<1>2. n + 1 \in Ticks /\ m + 1 \in Ticks /\ h[m + 1] = h[n + 1]
  BY <1>1 DEF Ticks, FlatFrom
<1> QED
  BY <1>2 DEF Ended, Ticks

LEMMA BegunCounts ==
  ASSUME NEW h \in [Ticks -> Int], NEW begin \in Nat, NEW W \in Nat \ {0}, NEW M \in Nat \ {0},
         NEW n \in 0..Horizon, FlatFrom(h, n), NEW b \in Int, NEW x \in Nat, NEW y \in Nat, x <= y,
         Begun(h, begin, W, M, n, b, x)
  PROVE  /\ Begun(h, begin, W, M, n, b, y)
         /\ x < y => \A g \in [Ticks -> Int] : Plus(g, h, n) => Begun(g, begin, W, M, n, b, y)
<1>1. Horizon \in Nat /\ Skew \in Nat /\ n \in Nat
  BY RateLimiterAssumption
<1>2. n + 1 \in Ticks /\ \A t \in Ticks : Excess(t, begin, M) \in Int
  BY <1>1 DEF Ticks, Excess
<1>3. Begun(h, begin, W, M, n, b, y)
  <2>1. \A t \in Ticks : h[t] \in Int
    OBVIOUS
  <2> QED
    BY <1>2, <2>1 DEF Begun
<1>4. ASSUME x < y, NEW g \in [Ticks -> Int], Plus(g, h, n)
      PROVE  Begun(g, begin, W, M, n, b, y)
  <2>1. g[n + 1] = h[n + 1] + 1 /\ g[n + 1] \in Int /\ h[n + 1] \in Int
    BY <1>1, <1>2, <1>4 DEF Plus
  <2>2. ASSUME NEW t \in Ticks, b < t PROVE g[n + 1] - g[t] <= y - 1
    <3>1. h[n + 1] - h[t] <= x - 1 /\ h[t] \in Int /\ g[t] \in Int /\ t \in Int
      BY <2>2, <1>1 DEF Begun, Ticks
    <3>2. t > n => h[t] = h[n + 1] /\ g[t] = h[t] + 1
      BY <1>4 DEF Plus, FlatFrom
    <3>3. t <= n => g[t] = h[t]
      BY <1>4 DEF Plus
    <3>4. CASE t > n
      BY <1>1, <1>4, <2>1, <3>1, <3>2, <3>4
    <3>5. CASE t <= n
      BY <1>1, <1>4, <2>1, <3>1, <3>3, <3>5
    <3> QED
      BY <1>1, <3>1, <3>4, <3>5
  <2>3. ASSUME NEW t \in Ticks, t <= b, b < t + W
        PROVE  g[n + 1] - g[t] <= y + Excess(t, begin, M)
    <3>1. h[n + 1] - h[t] <= x + Excess(t, begin, M) /\ h[t] \in Int /\ g[t] = h[t]
      BY <2>3, <1>1, <1>4 DEF Begun, Plus, Ticks
    <3> QED
      BY <1>2, <1>4, <2>1, <3>1
  <2> QED
    BY <2>2, <2>3 DEF Begun
<1> QED
  BY <1>3, <1>4

\* The first request of a counter, let through or not
LEMMA BegunAnew ==
  ASSUME NEW h \in [Ticks -> Int], NEW begin \in Nat, NEW W \in Nat \ {0}, NEW M \in Nat \ {0},
         NEW n \in 0..Horizon, FlatFrom(h, n), begin <= n + Skew, Ended(h, begin, W, M, n)
  PROVE  /\ Begun(h, begin, W, M, n, n, 1)
         /\ \A g \in [Ticks -> Int] : Plus(g, h, n) => Begun(g, begin, W, M, n, n, 1)
<1>1. Horizon \in Nat /\ Skew \in Nat /\ n \in Nat
  BY RateLimiterAssumption
<1>2. n + 1 \in Ticks /\ \A t \in Ticks : Excess(t, begin, M) \in Int
  BY <1>1 DEF Ticks, Excess
<1>3. ASSUME NEW t \in Ticks
      PROVE  /\ n < t => h[n + 1] = h[t]
             /\ n < t + W => h[n + 1] - h[t] <= Excess(t, begin, M)
             /\ h[t] \in Int /\ h[n + 1] \in Int
  BY <1>2 DEF Ended, FlatFrom
<1>4. Begun(h, begin, W, M, n, n, 1)
  <2>1. ASSUME NEW t \in Ticks, n < t PROVE h[n + 1] - h[t] <= 1 - 1
    BY <1>3, <2>1
  <2>2. ASSUME NEW t \in Ticks, t <= n, n < t + W
        PROVE  h[n + 1] - h[t] <= 1 + Excess(t, begin, M)
    BY <1>2, <1>3, <2>2
  <2> QED
    BY <1>1, <2>1, <2>2 DEF Begun
<1>5. ASSUME NEW g \in [Ticks -> Int], Plus(g, h, n) PROVE Begun(g, begin, W, M, n, n, 1)
  <2>1. g[n + 1] = h[n + 1] + 1 /\ g[n + 1] \in Int
    BY <1>1, <1>2, <1>5 DEF Plus
  <2>2. ASSUME NEW t \in Ticks, n < t PROVE g[n + 1] - g[t] <= 1 - 1
    BY <1>3, <1>5, <2>1, <2>2 DEF Plus
  <2>3. ASSUME NEW t \in Ticks, t <= n, n < t + W
        PROVE  g[n + 1] - g[t] <= 1 + Excess(t, begin, M)
    <3>1. g[t] = h[t]
      BY <1>5, <2>3 DEF Plus
    <3> QED
      BY <1>2, <1>3, <2>1, <2>3, <3>1
  <2> QED
    BY <1>1, <2>2, <2>3 DEF Begun
<1> QED
  BY <1>4, <1>5

\* A span that ends with the request just let through
LEMMA SpansGrow ==
  ASSUME NEW h \in [Ticks -> Int], NEW begin \in Nat, NEW W \in Nat \ {0}, NEW M \in Nat \ {0},
         NEW n \in 0..Horizon, FlatFrom(h, n), InSpans(h, begin, W, M),
         NEW g \in [Ticks -> Int], Plus(g, h, n),
         NEW b \in Int, NEW x \in Nat, x <= M, Begun(g, begin, W, M, n, b, x)
  PROVE  InSpans(g, begin, W, M)
<1>1. Horizon \in Nat /\ Skew \in Nat /\ n \in Nat /\ n + 1 \in Ticks
  BY RateLimiterAssumption DEF Ticks
<1> SUFFICES ASSUME NEW t \in Ticks, NEW u \in Ticks, t <= u, u <= t + W
             PROVE  g[u] - g[t] <= M + Excess(t, begin, M)
  BY DEF InSpans
<1>2. /\ t \in Nat /\ u \in Nat /\ Excess(t, begin, M) \in Nat
      /\ g[t] \in Int /\ g[u] \in Int /\ h[t] \in Int /\ h[u] \in Int
  BY <1>1 DEF Ticks, Excess
<1>3. h[u] - h[t] <= M + Excess(t, begin, M)
  BY DEF InSpans
<1>4. CASE u <= n \/ t > n
  <2>1. g[u] - g[t] = h[u] - h[t]
    BY <1>1, <1>2, <1>4 DEF Plus
  <2> QED
    BY <1>3, <2>1
<1>5. CASE u > n /\ t <= n
  <2>1. g[u] = g[n + 1]
    BY <1>1, <1>2, <1>5 DEF Plus, FlatFrom
  <2>2. CASE b < t
    <3>1. g[n + 1] - g[t] <= x - 1
      BY <2>2 DEF Begun
    <3> QED
      BY <1>2, <2>1, <3>1
  <2>3. CASE ~(b < t)
    <3>1. t <= b /\ b < t + W
      BY <1>1, <1>2, <1>5, <2>3 DEF Begun
    <3>2. g[n + 1] - g[t] <= x + Excess(t, begin, M)
      BY <3>1 DEF Begun
    <3> QED
      BY <1>2, <2>1, <3>2
  <2> QED
    BY <2>2, <2>3
<1> QED
  BY <1>1, <1>2, <1>4, <1>5

\* Requests of a counter that may have been let through
Within(count, M) == IF count <= M THEN count ELSE M

\* What the counters of a store say of window w of client c at n
Under(buckets, h, c, w, n) ==
  LET begin == Start(c, w)
      W == Rate(c).WindowMS
      M == Rate(c).Max
      k == <<c, w>>
  IN /\ InSpans(h, begin, W, M)
     /\ k \in DOMAIN buckets =>
          Begun(h, begin, W, M, n, buckets[k].expires - W, Within(buckets[k].count, M))
     /\ k \notin DOMAIN buckets => Ended(h, begin, W, M, n)

LEMMA RateIs ==
  ASSUME TypeInv, NEW c \in clients, NEW w \in Nat
  PROVE  /\ Rate(c).WindowMS \in Nat \ {0} /\ Rate(c).Max \in Nat \ {0}
         /\ Start(c, w) \in Nat /\ <<c, w>> \in BucketKey
<1>1. Rate(c).WindowMS \in Nat \ {0} /\ Rate(c).Max \in Nat \ {0}
  BY SettingsAre DEF TypeInv
<1> QED
  BY <1>1 DEF Start, BucketKey

\* Counters that go have expired.
LEMMA UnderPart ==
  ASSUME TypeInv, NEW c \in clients, NEW w \in Nat, NEW h \in [Ticks -> Int],
         NEW buckets, Typed(buckets), NEW kept, Part(kept, buckets),
         NEW n \in Nat, NEW m \in Nat, n <= m, m <= n + 1, m <= Horizon, FlatFrom(h, n),
         <<c, w>> \in DOMAIN buckets \ DOMAIN kept => buckets[<<c, w>>].expires <= m,
         Under(buckets, h, c, w, n)
  PROVE  Under(kept, h, c, w, m)
<1> DEFINE begin == Start(c, w)
           W == Rate(c).WindowMS
           M == Rate(c).Max
           k == <<c, w>>
<1>1. W \in Nat \ {0} /\ M \in Nat \ {0} /\ begin \in Nat
  BY RateIs
<1>2. InSpans(h, begin, W, M)
  BY Zenon DEF Under
<1>3. CASE k \in DOMAIN buckets
  <2> DEFINE b == buckets[k].expires - W
             x == Within(buckets[k].count, M)
  <2>1. buckets[k].expires \in Nat /\ buckets[k].count \in Nat \ {0}
    BY <1>3 DEF Typed, Bucket
  <2>2. b \in Int /\ x \in Int /\ x <= M
    BY <1>1, <2>1 DEF Within
  <2>3. Begun(h, begin, W, M, n, b, x)
    BY <1>3, Zenon DEF Under
  <2>4. k \notin DOMAIN kept => b + W <= m
    BY <1>1, <1>3, <2>1
  <2>5. k \in DOMAIN kept => b = kept[k].expires - W /\ x = Within(kept[k].count, M)
    BY DEF Part
  <2> HIDE DEF b, x, begin, W, M
  <2>6. Begun(h, begin, W, M, m, b, x) /\ (b + W <= m => Ended(h, begin, W, M, m))
    BY <1>1, <2>2, <2>3, BegunLasts
  <2> QED
    BY <1>2, <2>4, <2>5, <2>6, Zenon DEF Under, begin, W, M
<1>4. CASE k \notin DOMAIN buckets
  <2>1. k \notin DOMAIN kept
    BY <1>4 DEF Part
  <2>2. Ended(h, begin, W, M, n)
    BY <1>4, Zenon DEF Under
  <2> HIDE DEF begin, W, M
  <2>3. Ended(h, begin, W, M, m)
    BY <1>1, <2>2, EndedLasts
  <2> QED
    BY <1>2, <2>1, <2>3, Zenon DEF Under, begin, W, M
<1> QED
  BY <1>3, <1>4

LEMMA UnderOther ==
  ASSUME NEW c, NEW w, NEW h, NEW n, NEW buckets, NEW key, NEW bucket,
         key # <<c, w>>, Under(buckets, h, c, w, n)
  PROVE  Under(Stored(buckets, key, bucket), h, c, w, n)
<1> DEFINE k == <<c, w>>
           after == Stored(buckets, key, bucket)
<1>1. /\ DOMAIN after = DOMAIN buckets \cup {key}
      /\ \A q \in DOMAIN buckets : q # key => after[q] = buckets[q]
  BY SMT DEF Stored
<1> HIDE DEF after
<1>2. /\ k \in DOMAIN after <=> k \in DOMAIN buckets
      /\ k \in DOMAIN buckets => after[k] = buckets[k]
  BY <1>1
<1> QED
  BY <1>2, Zenon DEF Under, after

\* A request is counted, and let through if its count is within the limit.
LEMMA UnderCounted ==
  ASSUME TypeInv, NEW c \in clients, NEW w \in Nat, NEW h \in [Ticks -> Int],
         NEW buckets, Typed(buckets), FlatFrom(h, now), Start(c, w) <= now + Skew,
         Under(buckets, h, c, w, now)
  PROVE  LET key == <<c, w>>
             bucket == Counted(buckets, key)
             after == Stored(buckets, key, bucket)
         IN /\ Under(after, h, c, w, now)
            /\ bucket.count <= Rate(c).Max =>
                 \A g \in [Ticks -> Int] : Plus(g, h, now) => Under(after, g, c, w, now)
<1> DEFINE begin == Start(c, w)
           W == Rate(c).WindowMS
           M == Rate(c).Max
           k == <<c, w>>
           bucket == Counted(buckets, k)
           after == Stored(buckets, k, bucket)
           b == bucket.expires - W
           x == Within(bucket.count, M)
<1>1. W \in Nat \ {0} /\ M \in Nat \ {0} /\ begin \in Nat /\ k \in BucketKey
  BY RateIs
<1>2. now \in 0..Horizon /\ now \in Nat
  BY CountersTyped
<1> HIDE DEF bucket, k
<1>3. k \in DOMAIN after /\ after[k] = bucket
  BY SMT DEF Stored
<1> USE DEF bucket, k
<1>4. /\ bucket \in Bucket
      /\ k \in DOMAIN buckets => /\ bucket.expires = buckets[k].expires
                                 /\ bucket.count = Count(buckets[k], c)
      /\ k \notin DOMAIN buckets => bucket.expires = now + W /\ bucket.count = 1
  BY <1>1, CountedIs
<1> HIDE DEF bucket, after
<1>5. bucket.count \in Nat \ {0} /\ bucket.expires \in Nat
  BY <1>4 DEF Bucket
<1>6. b \in Int /\ x \in Nat /\ x <= M
  BY <1>1, <1>5 DEF Within
<1>7. InSpans(h, begin, W, M)
  BY Zenon DEF Under
<1>8. /\ Begun(h, begin, W, M, now, b, x)
      /\ bucket.count <= M =>
           \A g \in [Ticks -> Int] : Plus(g, h, now) => Begun(g, begin, W, M, now, b, x)
  <2>1. CASE k \in DOMAIN buckets
    <3> DEFINE y == Within(buckets[k].count, M)
    <3>1. Begun(h, begin, W, M, now, buckets[k].expires - W, y)
      BY <2>1, Zenon DEF Under
    <3>2. buckets[k].count \in Nat \ {0} /\ b = buckets[k].expires - W
      BY <1>4, <2>1 DEF Typed, Bucket
    <3>3. bucket.count = IF buckets[k].count > M THEN buckets[k].count ELSE buckets[k].count + 1
      BY <1>4, <2>1 DEF Count
    <3>4. y \in Nat /\ y <= x /\ (bucket.count <= M => y < x)
      BY <1>1, <3>2, <3>3 DEF Within
    <3> HIDE DEF y, b, x, begin, W, M
    <3> QED
      BY <1>1, <1>2, <1>6, <3>1, <3>2, <3>4, BegunCounts
  <2>2. CASE k \notin DOMAIN buckets
    <3>1. Ended(h, begin, W, M, now)
      BY <2>2, Zenon DEF Under
    <3>2. b = now /\ x = 1
      BY <1>1, <1>2, <1>4, <2>2 DEF Within
    <3>3. begin <= now + Skew
      OBVIOUS
    <3> HIDE DEF b, x, begin, W, M
    <3> QED
      BY <1>1, <1>2, <3>1, <3>2, <3>3, BegunAnew
  <2> QED
    BY <2>1, <2>2
<1> HIDE DEF b, x, begin, W, M
<1>9. Under(after, h, c, w, now)
  BY <1>3, <1>7, <1>8, Zenon DEF Under, b, x, begin, W, M
<1>10. ASSUME bucket.count <= M, NEW g \in [Ticks -> Int], Plus(g, h, now)
       PROVE  Under(after, g, c, w, now)
  <2>1. Begun(g, begin, W, M, now, b, x)
    BY <1>8, <1>10
  <2>2. InSpans(g, begin, W, M)
    BY <1>1, <1>2, <1>6, <1>7, <1>10, <2>1, SpansGrow
  <2> QED
    BY <1>3, <2>1, <2>2, Zenon DEF Under, b, x, begin, W, M
<1> QED
  BY <1>9, <1>10 DEF bucket, after, M

\* F[k] counts the requests let through in windows before k, f all of them: a
\* window's begin not long before it begins, and end not long after it ends.
Split(F, f, c, n) ==
  /\ F \in [Nat -> Counts]
  /\ F[0] = NoneServed
  /\ \A k \in Nat : FlatFrom(F[k], n)
  /\ \A k \in Nat, t \in Ticks : t + Skew <= Start(c, k) => F[k][t] = f[t]
  /\ \A k \in Nat, t, u \in Ticks :
       Start(c, k) + Latency <= t /\ t <= u => F[k][t] = F[k][u]

Of(F, w) == [t \in Ticks |-> F[w + 1][t] - F[w][t]]

\* The counters of a client account for what was let through.
Accounted(c, buckets, f, n) ==
  \E F : Split(F, f, c, n) /\ \A w \in Nat : Under(buckets, Of(F, w), c, w, n)

OnTime ==
  \A r \in Call : call[r] # Idle =>
    LET begin == Start(call[r].client, call[r].window) IN
    /\ begin <= call[r].since + Skew
    /\ call[r].since < begin + Rate(call[r].client).WindowMS
    /\ now <= call[r].since + Latency

CounterInv ==
  /\ TypeInv
  /\ OnTime
  /\ \A c \in clients \ excused : Accounted(c, Store, served[c], now)

LEMMA OfIs ==
  ASSUME NEW F \in [Nat -> Counts], NEW w \in Nat, NEW n \in 0..Horizon,
         \A k \in Nat : FlatFrom(F[k], n)
  PROVE  Of(F, w) \in [Ticks -> Int] /\ FlatFrom(Of(F, w), n)
<1>1. F[w] \in Counts /\ F[w + 1] \in Counts /\ FlatFrom(F[w], n) /\ FlatFrom(F[w + 1], n)
  OBVIOUS
<1>2. n + 1 \in Ticks
  BY RateLimiterAssumption DEF Ticks
<1> DEFINE f == F[w]
           g == F[w + 1]
<1>3. Of(F, w) = [t \in Ticks |-> g[t] - f[t]]
  BY DEF Of
<1>4. f \in [Ticks -> Nat] /\ g \in [Ticks -> Nat] /\ FlatFrom(f, n) /\ FlatFrom(g, n)
  BY <1>1 DEF Counts, Ticks
<1> HIDE DEF f, g
<1> QED
  BY <1>2, <1>3, <1>4 DEF FlatFrom

LEMMA AccountedPart ==
  ASSUME TypeInv, NEW c \in clients, NEW buckets, Typed(buckets), NEW kept, Part(kept, buckets),
         NEW n \in 0..Horizon, NEW m \in 0..Horizon, n <= m, m <= n + 1,
         \A w : <<c, w>> \in DOMAIN buckets \ DOMAIN kept => buckets[<<c, w>>].expires <= m,
         NEW f, Accounted(c, buckets, f, n)
  PROVE  Accounted(c, kept, f, m)
<1>1. PICK F : Split(F, f, c, n) /\ \A w \in Nat : Under(buckets, Of(F, w), c, w, n)
  BY Zenon DEF Accounted
<1>2. F \in [Nat -> Counts] /\ \A k \in Nat : FlatFrom(F[k], n)
  BY <1>1, Zenon DEF Split
<1>3. Horizon \in Nat /\ n \in Nat /\ m \in Nat /\ m <= Horizon /\ n + 1 \in Ticks /\ m + 1 \in Ticks
  BY RateLimiterAssumption DEF Ticks
<1>4. \A k \in Nat : FlatFrom(F[k], m)
  BY <1>2, <1>3 DEF FlatFrom, Ticks
<1>5. Split(F, f, c, m)
  BY <1>1, <1>4, Zenon DEF Split
<1>6. ASSUME NEW w \in Nat PROVE Under(kept, Of(F, w), c, w, m)
  <2>1. Of(F, w) \in [Ticks -> Int] /\ FlatFrom(Of(F, w), n)
    BY <1>2, OfIs
  <2>2. Under(buckets, Of(F, w), c, w, n)
    BY <1>1
  <2> QED
    BY <1>3, <2>1, <2>2, UnderPart, Zenon
<1> QED
  BY <1>5, <1>6, Zenon DEF Accounted

LEMMA AccountedOther ==
  ASSUME NEW c, NEW buckets, NEW f, NEW n, NEW key, NEW bucket, key[1] # c,
         Accounted(c, buckets, f, n)
  PROVE  Accounted(c, Stored(buckets, key, bucket), f, n)
<1>1. PICK F : Split(F, f, c, n) /\ \A w \in Nat : Under(buckets, Of(F, w), c, w, n)
  BY Zenon DEF Accounted
<1>2. \A w \in Nat : key # <<c, w>>
  OBVIOUS
<1>3. \A w \in Nat : Under(Stored(buckets, key, bucket), Of(F, w), c, w, n)
  BY <1>1, <1>2, UnderOther
<1> QED
  BY <1>1, <1>3, Zenon DEF Accounted

\* What counting in window v adds to those before each window
Added(F, v) == [k \in Nat |-> IF k > v THEN OneMore(F[k]) ELSE F[k]]

LEMMA AddedIs ==
  ASSUME now \in 0..Horizon, NEW F \in [Nat -> Counts], NEW v \in Nat,
         \A k \in Nat : FlatFrom(F[k], now)
  PROVE  /\ Added(F, v) \in [Nat -> Counts]
         /\ \A k \in Nat : FlatFrom(Added(F, v)[k], now)
         /\ \A k \in Nat : /\ k > v => Plus(Added(F, v)[k], F[k], now)
                           /\ k <= v => Added(F, v)[k] = F[k]
         /\ Plus(Of(Added(F, v), v), Of(F, v), now)
         /\ \A w \in Nat : w # v => Of(Added(F, v), w) = Of(F, w)
<1> DEFINE G == Added(F, v)
<1>1. Horizon \in Nat /\ now \in Nat /\ now + 1 \in Ticks
  BY RateLimiterAssumption DEF Ticks
<1>2. \A k \in Nat : G[k] = IF k > v THEN OneMore(F[k]) ELSE F[k]
  BY DEF Added
<1>3. G \in [Nat -> Counts]
  BY CountsAre DEF Added
<1> HIDE DEF G
<1>4. ASSUME NEW k \in Nat, k > v PROVE Plus(G[k], F[k], now)
  <2>1. G[k] = OneMore(F[k])
    BY <1>2, <1>4
  <2> QED
    BY <1>1, <2>1 DEF OneMore, Plus, Ticks
<1>5. \A k \in Nat : k <= v => G[k] = F[k]
  BY <1>2
<1>6. ASSUME NEW k \in Nat PROVE FlatFrom(G[k], now)
  <2>1. FlatFrom(F[k], now)
    OBVIOUS
  <2>2. CASE k > v
    <3>1. Plus(G[k], F[k], now)
      BY <1>4, <2>2
    <3> QED
      BY <1>1, <2>1, <3>1 DEF FlatFrom, Plus
  <2>3. CASE ~(k > v)
    BY <1>5, <2>1, <2>3
  <2> QED
    BY <2>2, <2>3
<1>7. ASSUME NEW w \in Nat, NEW t \in Ticks
      PROVE  Of(G, w)[t] = G[w + 1][t] - G[w][t] /\ Of(F, w)[t] = F[w + 1][t] - F[w][t]
  BY DEF Of
<1>8. \A k \in Nat, t \in Ticks : G[k][t] \in Nat /\ F[k][t] \in Nat
  BY <1>3 DEF Counts, Ticks
<1>9. Plus(Of(G, v), Of(F, v), now)
  <2>1. Plus(G[v + 1], F[v + 1], now) /\ G[v] = F[v] /\ v + 1 \in Nat
    BY <1>4, <1>5
  <2>2. ASSUME NEW t \in Ticks
        PROVE  /\ t > now => Of(G, v)[t] = Of(F, v)[t] + 1
               /\ t <= now => Of(G, v)[t] = Of(F, v)[t]
    BY <1>7, <1>8, <2>1 DEF Plus
  <2> QED
    BY <2>2 DEF Plus
<1>10. ASSUME NEW w \in Nat, w # v PROVE Of(G, w) = Of(F, w)
  <2>1. ASSUME NEW t \in Ticks PROVE G[w + 1][t] - G[w][t] = F[w + 1][t] - F[w][t]
    <3>1. CASE w < v
      <4>1. G[w + 1] = F[w + 1] /\ G[w] = F[w]
        BY <1>5, <3>1
      <4> QED
        BY <4>1
    <3>2. CASE w > v
      <4>1. Plus(G[w + 1], F[w + 1], now) /\ Plus(G[w], F[w], now) /\ w + 1 \in Nat
        BY <1>4, <3>2
      <4>2. t \in Int
        BY DEF Ticks
      <4> QED
        BY <1>1, <1>8, <4>1, <4>2 DEF Plus
    <3> QED
      BY <1>10, <3>1, <3>2
  <2> QED
    BY <2>1 DEF Of
<1> QED
  BY <1>3, <1>4, <1>5, <1>6, <1>9, <1>10 DEF G

\* Windows follow one another.
LEMMA LaterWindow ==
  ASSUME TypeInv, NEW c \in clients, NEW v \in Nat, NEW w \in Nat, v < w
  PROVE  Start(c, v) + Rate(c).WindowMS <= Start(c, w)
<1>1. Rate(c).WindowMS \in Nat
  BY RateIs
<1> QED
  BY <1>1 DEF Start

LEMMA WindowsAfter ==
  ASSUME NEW c, NEW w \in Nat, Rate(c).WindowMS \in Nat
  PROVE  LET W == Rate(c).WindowMS IN
         /\ Start(c, w) = w * W /\ w * W \in Nat
         /\ Start(c, w + 2) = w * W + W + W
         /\ Start(c, w + 3) = w * W + W + W + W
<1> DEFINE W == Rate(c).WindowMS
<1>1. \A k : Start(c, k) = k * W
  BY DEF Start
<1> HIDE DEF W
<1>2. W \in Nat
  BY DEF W
<1>3. w * W \in Nat /\ (w + 2) * W = w * W + W + W /\ (w + 3) * W = w * W + W + W + W
  BY <1>2
<1> QED
  BY <1>1, <1>3 DEF W

LEMMA SplitAdded ==
  ASSUME TypeInv, NEW c \in clients, NEW v \in Nat, NEW f \in Counts, NEW F,
         Split(F, f, c, now), Start(c, v) <= now + Skew,
         now < Start(c, v) + Rate(c).WindowMS + Latency
  PROVE  Split(Added(F, v), OneMore(f), c, now)
<1> DEFINE G == Added(F, v)
           g == OneMore(f)
<1>1. /\ now \in 0..Horizon /\ now \in Nat /\ Horizon \in Nat /\ Skew \in Nat /\ Latency \in Nat
      /\ \A k \in Nat : Start(c, k) \in Nat
      /\ Rate(c).WindowMS \in Nat
  BY CountersTyped, RateLimiterAssumption, RateIs
<1>2. F \in [Nat -> Counts] /\ F[0] = NoneServed /\ \A k \in Nat : FlatFrom(F[k], now)
  BY Zenon DEF Split
<1>3. /\ G \in [Nat -> Counts] /\ \A k \in Nat : FlatFrom(G[k], now)
      /\ \A k \in Nat : /\ k > v => Plus(G[k], F[k], now)
                        /\ k <= v => G[k] = F[k]
  BY <1>1, <1>2, AddedIs
<1>4. \A t \in Ticks : /\ t > now => g[t] = f[t] + 1
                       /\ t <= now => g[t] = f[t]
  BY <1>1 DEF OneMore, Ticks
<1> HIDE DEF G, g
<1>5. G[0] = NoneServed
  BY <1>2, <1>3
<1>6. ASSUME NEW k \in Nat, NEW t \in Ticks, t + Skew <= Start(c, k) PROVE G[k][t] = g[t]
  <2>1. F[k][t] = f[t]
    BY <1>6, Zenon DEF Split
  <2>0. t \in Nat
    BY <1>1 DEF Ticks
  <2>2. CASE k > v
    <3>1. Plus(G[k], F[k], now)
      BY <1>3, <2>2
    <3>2. /\ t > now => G[k][t] = F[k][t] + 1
          /\ t <= now => G[k][t] = F[k][t]
      BY <3>1 DEF Plus
    <3>3. t > now \/ t <= now
      BY <1>1, <2>0
    <3> QED
      BY <1>4, <2>1, <3>2, <3>3
  <2>3. CASE k <= v
    <3>1. Start(c, k) <= Start(c, v)
      <4>1. k < v => Start(c, k) + Rate(c).WindowMS <= Start(c, v)
        BY LaterWindow
      <4> QED
        BY <1>1, <2>3, <4>1
    <3>2. t <= now
      BY <1>1, <1>6, <2>0, <3>1
    <3>3. G[k] = F[k] /\ g[t] = f[t]
      BY <1>3, <1>4, <2>3, <3>2
    <3> QED
      BY <2>1, <3>3
  <2> QED
    BY <2>2, <2>3
<1>7. ASSUME NEW k \in Nat, NEW t \in Ticks, NEW u \in Ticks,
             Start(c, k) + Latency <= t, t <= u
      PROVE  G[k][t] = G[k][u]
  <2>0. t \in Nat /\ u \in Nat
    BY <1>1 DEF Ticks
  <2>1. F[k][t] = F[k][u]
    BY <1>7, Zenon DEF Split
  <2>2. CASE k > v
    <3>1. Start(c, v) + Rate(c).WindowMS <= Start(c, k)
      BY <2>2, LaterWindow
    <3>2. now < t /\ now < u
      BY <1>1, <1>7, <2>0, <3>1
    <3>3. Plus(G[k], F[k], now)
      BY <1>3, <2>2
    <3>4. G[k][t] = F[k][t] + 1 /\ G[k][u] = F[k][u] + 1
      BY <3>2, <3>3 DEF Plus
    <3> QED
      BY <2>1, <3>4
  <2>3. CASE k <= v
    BY <1>3, <2>1, <2>3
  <2> QED
    BY <2>2, <2>3
<1> QED
  BY <1>3, <1>5, <1>6, <1>7, Zenon DEF Split, G, g

LEMMA AccountedCounted ==
  ASSUME TypeInv, NEW c \in clients, NEW v \in Nat, NEW f \in Counts,
         Start(c, v) <= now + Skew, now < Start(c, v) + Rate(c).WindowMS + Latency,
         NEW buckets, Typed(buckets), Accounted(c, buckets, f, now)
  PROVE  LET key == <<c, v>>
             bucket == Counted(buckets, key)
             after == Stored(buckets, key, bucket)
         IN /\ Accounted(c, after, f, now)
            /\ bucket.count <= Rate(c).Max => Accounted(c, after, OneMore(f), now)
<1> DEFINE key == <<c, v>>
           bucket == Counted(buckets, key)
           after == Stored(buckets, key, bucket)
<1>1. PICK F : Split(F, f, c, now) /\ \A w \in Nat : Under(buckets, Of(F, w), c, w, now)
  BY Zenon DEF Accounted
<1> DEFINE G == Added(F, v)
<1>2. now \in 0..Horizon /\ F \in [Nat -> Counts] /\ \A k \in Nat : FlatFrom(F[k], now)
  BY <1>1, CountersTyped, Zenon DEF Split
<1>3. \A w \in Nat : Of(F, w) \in [Ticks -> Int] /\ FlatFrom(Of(F, w), now)
  BY <1>2, OfIs
<1>4. /\ Under(after, Of(F, v), c, v, now)
      /\ bucket.count <= Rate(c).Max =>
           \A g \in [Ticks -> Int] : Plus(g, Of(F, v), now) => Under(after, g, c, v, now)
  BY <1>1, <1>3, UnderCounted
<1>5. ASSUME NEW w \in Nat, w # v PROVE Under(after, Of(F, w), c, w, now)
  <2>1. key # <<c, w>> /\ Under(buckets, Of(F, w), c, w, now)
    BY <1>1, <1>5
  <2> HIDE DEF key, bucket
  <2> QED
    BY <2>1, UnderOther
<1> HIDE DEF after, bucket, G
<1>6. Accounted(c, after, f, now)
  BY <1>1, <1>4, <1>5, Zenon DEF Accounted
<1>7. ASSUME bucket.count <= Rate(c).Max PROVE Accounted(c, after, OneMore(f), now)
  <2>1. Split(G, OneMore(f), c, now)
    BY <1>1, SplitAdded DEF G
  <2>2. /\ G \in [Nat -> Counts] /\ \A k \in Nat : FlatFrom(G[k], now)
        /\ Plus(Of(G, v), Of(F, v), now)
        /\ \A w \in Nat : w # v => Of(G, w) = Of(F, w)
    BY <1>2, AddedIs DEF G
  <2>3. Of(G, v) \in [Ticks -> Int]
    BY <1>2, <2>2, OfIs
  <2>4. Under(after, Of(G, v), c, v, now)
    BY <1>4, <1>7, <2>2, <2>3
  <2>5. \A w \in Nat : Under(after, Of(G, w), c, w, now)
    BY <1>5, <2>2, <2>4
  <2> QED
    BY <2>1, <2>5, Zenon DEF Accounted
<1> QED
  BY <1>6, <1>7 DEF after, bucket

(* A span as long as a window meets three windows, of which the last one has
   begun no counter before it. *)
LEMMA SpanOfThree ==
  ASSUME CounterInv, NEW c \in clients \ excused, Timely(c), NEW t \in 0..Horizon
  PROVE  Admitted(c, t, t + Rate(c).WindowMS - 1) <= 5 * Rate(c).Max - 2
<1> DEFINE W == Rate(c).WindowMS
           M == Rate(c).Max
           f == served[c]
           w == IF t < Latency THEN 0 ELSE (t - Latency) \div W
           e == IF t + W - 1 < Horizon THEN (t + W - 1) + 1 ELSE Horizon + 1
<1>1. /\ TypeInv /\ W \in Nat \ {0} /\ M \in Nat \ {0} /\ t \in Nat /\ Horizon \in Nat
      /\ Skew \in Nat /\ Latency \in Nat /\ f \in Counts /\ Skew + Latency <= W
      /\ Accounted(c, Store, f, now) /\ now \in 0..Horizon
  <2>1. TypeInv /\ Accounted(c, Store, f, now)
    BY Zenon DEF CounterInv
  <2>2. W \in Nat \ {0} /\ M \in Nat \ {0} /\ f \in Counts
    BY <2>1, SettingsAre DEF TypeInv, TypeOK, Counts
  <2>3. Horizon \in Nat /\ Skew \in Nat /\ Latency \in Nat /\ now \in 0..Horizon /\ t \in Nat
    BY <2>1, CountersTyped, RateLimiterAssumption
  <2> QED
    BY <2>1, <2>2, <2>3 DEF Timely
<1>2. Admitted(c, t, t + W - 1) = f[e] - f[t]
  BY Zenon DEF Admitted
<1>3. PICK F : Split(F, f, c, now) /\ \A k \in Nat : Under(Store, Of(F, k), c, k, now)
  BY <1>1, Zenon DEF Accounted
<1>4. /\ w \in Nat /\ t < w * W + W + Latency /\ (w = 0 \/ w * W + Latency <= t)
  <2> HIDE DEF W
  <2>1. CASE t < Latency
    BY <1>1, <2>1
  <2>2. CASE ~(t < Latency)
    <3>1. t - Latency \in Nat
      BY <1>1, <2>2
    <3>2. w = (t - Latency) \div W
      BY <2>2
    <3>3. w \in Nat /\ w * W <= t - Latency /\ t - Latency < w * W + W
      BY <1>1, <3>1, <3>2, DivisionIs
    <3> HIDE DEF w
    <3>4. w * W \in Nat
      BY <1>1, <3>3
    <3> QED
      BY <1>1, <3>3, <3>4
  <2> QED
    BY <2>1, <2>2
<1>5. /\ e \in Ticks /\ t \in Ticks /\ e <= t + W /\ t < e /\ e \in Nat
  BY <1>1 DEF Ticks
<1> HIDE DEF W, M, f, w, e
<1>6. /\ w + 1 \in Nat /\ w + 2 \in Nat /\ w + 3 \in Nat
      /\ w * W \in Nat
      /\ Start(c, w) = w * W /\ Start(c, w + 2) = w * W + W + W
      /\ Start(c, w + 3) = w * W + W + W + W
  <2>1. Rate(c).WindowMS \in Nat /\ w \in Nat
    BY <1>1, <1>4 DEF W
  <2>2. /\ Start(c, w) = w * W /\ w * W \in Nat
        /\ Start(c, w + 2) = w * W + W + W
        /\ Start(c, w + 3) = w * W + W + W + W
    BY <2>1, WindowsAfter, Zenon DEF W
  <2> QED
    BY <2>1, <2>2
<1>7. F[w][e] = F[w][t]
  <2>1. CASE w = 0
    BY <1>1, <1>3, <1>5, <2>1 DEF Split, NoneServed, Ticks
  <2>2. CASE w # 0
    <3>1. Start(c, w) + Latency <= t /\ t <= e
      BY <1>1, <1>4, <1>5, <1>6, <2>2
    <3> QED
      BY <1>3, <1>4, <1>5, <3>1, Zenon DEF Split
  <2> QED
    BY <2>1, <2>2
<1>8. F[w + 3][e] = f[e] /\ F[w + 3][t] = f[t]
  <2>1. e + Skew <= Start(c, w + 3) /\ t + Skew <= Start(c, w + 3)
    BY <1>1, <1>4, <1>5, <1>6
  <2> QED
    BY <1>3, <1>5, <1>6, <2>1, Zenon DEF Split
<1>9. ASSUME NEW k \in Nat
      PROVE  /\ (F[k + 1][e] - F[k][e]) - (F[k + 1][t] - F[k][t]) <= M + Excess(t, Start(c, k), M)
             /\ F[k][e] \in Int /\ F[k][t] \in Int
  <2>1. InSpans(Of(F, k), Start(c, k), W, M)
    BY <1>3, Zenon DEF Under, W, M
  <2>2. Of(F, k)[e] - Of(F, k)[t] <= M + Excess(t, Start(c, k), M)
    BY <1>1, <1>5, <2>1 DEF InSpans
  <2>3. Of(F, k)[e] = F[k + 1][e] - F[k][e] /\ Of(F, k)[t] = F[k + 1][t] - F[k][t]
    BY <1>5 DEF Of
  <2>4. F[k] \in Counts
    BY <1>3, Zenon DEF Split
  <2> DEFINE x == F[k]
  <2>5. x \in Counts
    BY <2>4
  <2> HIDE DEF x
  <2>6. x[e] \in Int /\ x[t] \in Int
    BY <1>5, <2>5 DEF Counts, Ticks
  <2> QED
    BY <2>2, <2>3, <2>6 DEF x
<1>10. \A begin : Excess(t, begin, M) \in Int /\ Excess(t, begin, M) <= M - 1
  BY <1>1 DEF Excess
<1>11. Excess(t, Start(c, w + 2), M) = 0
  BY <1>1, <1>4, <1>6 DEF Excess
<1>12. f[e] - f[t] <= M + Excess(t, Start(c, w), M) + M + Excess(t, Start(c, w + 1), M) + M
  <2>1. /\ (F[w + 1][e] - F[w][e]) - (F[w + 1][t] - F[w][t]) <= M + Excess(t, Start(c, w), M)
        /\ F[w][e] \in Int /\ F[w][t] \in Int
    BY <1>4, <1>9
  <2>2. /\ (F[w + 2][e] - F[w + 1][e]) - (F[w + 2][t] - F[w + 1][t])
             <= M + Excess(t, Start(c, w + 1), M)
        /\ F[w + 1][e] \in Int /\ F[w + 1][t] \in Int
    <3>1. (w + 1) + 1 = w + 2
      BY <1>4
    <3> QED
      BY <1>6, <1>9, <3>1
  <2>3. /\ (F[w + 3][e] - F[w + 2][e]) - (F[w + 3][t] - F[w + 2][t])
             <= M + Excess(t, Start(c, w + 2), M)
        /\ F[w + 2][e] \in Int /\ F[w + 2][t] \in Int
        /\ F[w + 3][e] \in Int /\ F[w + 3][t] \in Int
    <3>1. (w + 2) + 1 = w + 3
      BY <1>4
    <3> QED
      BY <1>6, <1>9, <3>1
  <2> QED
    BY <1>1, <1>7, <1>8, <1>10, <1>11, <2>1, <2>2, <2>3
<1>13. f[e] \in Int /\ f[t] \in Int
  BY <1>1, <1>5 DEF Counts, Ticks
<1>14. f[e] - f[t] <= 5 * M - 2
  BY <1>1, <1>10, <1>12, <1>13
<1> QED
  BY <1>2, <1>14 DEF W, M

LEMMA SameAccounts ==
  ASSUME UNCHANGED settings, NEW c
  PROVE  Accounted(c, Store, served[c], now)' <=> Accounted(c, Store', served'[c], now')
<1>1. Rate(c)' = Rate(c) /\ \A k : Start(c, k)' = Start(c, k)
  BY SameWindows
<1>2. ASSUME NEW F PROVE Split(F, served[c], c, now)' <=> Split(F, served'[c], c, now')
  <2>1. \A k : FlatFrom(F[k], now)' <=> FlatFrom(F[k], now')
    BY DEF FlatFrom, Ticks
  <2>2. (\A k \in Nat, t \in Ticks : t + Skew <= Start(c, k) => F[k][t] = served[c][t])'
            <=> \A k \in Nat, t \in Ticks : t + Skew <= Start(c, k)' => F[k][t] = served'[c][t]
    BY DEF Ticks
  <2>3. (\A k \in Nat, t, u \in Ticks : Start(c, k) + Latency <= t /\ t <= u => F[k][t] = F[k][u])'
            <=> \A k \in Nat, t, u \in Ticks :
                  Start(c, k)' + Latency <= t /\ t <= u => F[k][t] = F[k][u]
    BY DEF Ticks
  <2> QED
    BY <1>1, <2>1, <2>2, <2>3 DEF Split, Ticks, Counts, NoneServed
<1>3. \A F, w : Under(Store, Of(F, w), c, w, now)' <=> Under(Store', Of(F, w), c, w, now')
  BY <1>1 DEF Under, Within, Begun, Ended, InSpans, Excess, Ticks, Of
<1> QED
  BY <1>2, <1>3, Zenon DEF Accounted

LEMMA CounterInit == Init => CounterInv
<1> SUFFICES ASSUME Init PROVE CounterInv
  OBVIOUS
<1>1. TypeInv
  BY TypeInit
<1>2. now = 0 /\ served = [c \in clients |-> NoneServed] /\ call = [r \in Call |-> Idle]
      /\ counters = [p \in Places |-> <<>>]
  BY Zenon DEF Init
<1>3. OnTime
  BY <1>2 DEF OnTime
<1>4. DOMAIN Store = {}
  BY <1>1, <1>2, OnePlace DEF Store
<1>5. ASSUME NEW c \in clients PROVE Accounted(c, Store, served[c], now)
  <2> DEFINE F == [k \in Nat |-> NoneServed]
             zero == [t \in Ticks |-> 0]
  <2>1. /\ now \in 0..Horizon /\ now \in Nat /\ now + 1 \in Ticks /\ Skew \in Nat
        /\ Rate(c).WindowMS \in Nat \ {0} /\ Rate(c).Max \in Nat \ {0}
    BY <1>1, CountersTyped, SettingsAre, RateLimiterAssumption DEF Ticks, TypeInv
  <2>2. NoneServed = zero
    BY DEF NoneServed, Ticks
  <2>3. Split(F, served[c], c, now)
    <3>1. F \in [Nat -> Counts]
      BY CountsAre
    <3>2. \A k \in Nat : F[k] = NoneServed
      OBVIOUS
    <3>3. served[c] = NoneServed
      BY <1>2
    <3> HIDE DEF F
    <3>4. \A k \in Nat : FlatFrom(F[k], now)
      BY <2>1, <2>2, <3>2 DEF FlatFrom
    <3>5. \A k \in Nat, t, u \in Ticks : F[k][t] = served[c][t] /\ F[k][t] = F[k][u]
      BY <2>2, <3>2, <3>3
    <3> QED
      BY <3>1, <3>2, <3>4, <3>5 DEF Split
  <2>4. ASSUME NEW w \in Nat PROVE Under(Store, Of(F, w), c, w, now)
    <3>1. F[w + 1] = zero /\ F[w] = zero
      BY <2>2
    <3> HIDE DEF F
    <3>2. \A t \in Ticks : Of(F, w)[t] = 0
      BY <3>1 DEF Of
    <3>3. \A t \in Ticks : Excess(t, Start(c, w), Rate(c).Max) \in Nat
      BY <2>1 DEF Excess
    <3>4. InSpans(Of(F, w), Start(c, w), Rate(c).WindowMS, Rate(c).Max)
      BY <2>1, <3>2, <3>3 DEF InSpans
    <3>5. Ended(Of(F, w), Start(c, w), Rate(c).WindowMS, Rate(c).Max, now)
      BY <2>1, <3>2, <3>3 DEF Ended
    <3> QED
      BY <1>4, <3>4, <3>5 DEF Under
  <2> HIDE DEF F
  <2> QED
    BY <2>3, <2>4, Zenon DEF Accounted
<1> QED
  BY <1>1, <1>3, <1>5 DEF CounterInv

LEMMA CounterReadClock ==
  ASSUME CounterInv, NEW r \in Call, NEW c \in clients, NEW i \in Instance, ReadClock(r, c, i)
  PROVE  CounterInv'
<1>1. /\ TypeInv /\ TypeInv' /\ DOMAIN call = Call
      /\ call' = [call EXCEPT ![r] = Reading(c, i)]
  BY TypeReadClock DEF CounterInv, TypeInv, TypeOK
<1>2. UNCHANGED <<settings, clients, skew, now, counters, served, delayed, excused>>
  BY Zenon DEF ReadClock
<1>3. Place(1)' = Place(1) /\ \A d, k : Rate(d)' = Rate(d) /\ Start(d, k)' = Start(d, k)
  BY <1>2, SameWindows
<1>4. OnTime'
  <2> DEFINE x == Reading(c, i)
             W == Rate(c).WindowMS
             v == (now + skew[i]) \div W
  <2>1. now \in Nat /\ skew[i] \in Nat /\ skew[i] <= Skew /\ Skew \in Nat /\ Latency \in Nat
    BY <1>1, CountersTyped, RateLimiterAssumption DEF TypeInv, TypeOK
  <2>2. W \in Nat \ {0}
    BY <1>1, SettingsAre DEF TypeInv
  <2>3. v \in Nat /\ v * W <= now + skew[i] /\ now + skew[i] < v * W + W
    <3>1. now + skew[i] \in Nat
      BY <2>1
    <3> HIDE DEF W
    <3> QED
      BY <2>2, <3>1, DivisionIs
  <2>4. x.client = c /\ x.since = now /\ x.window = v /\ Start(c, v) = v * W
    BY DEF Reading, Start
  <2> HIDE DEF x, v, W
  <2>5. Start(c, v) <= now + Skew /\ now < Start(c, v) + W /\ now <= now + Latency
    <3>1. v * W \in Nat
      BY <2>2, <2>3
    <3> QED
      BY <2>1, <2>2, <2>3, <2>4, <3>1
  <2>6. /\ Start(x.client, x.window) <= x.since + Skew
        /\ x.since < Start(x.client, x.window) + Rate(x.client).WindowMS
        /\ now <= x.since + Latency
    BY <2>4, <2>5 DEF W
  <2>7. ASSUME NEW q \in Call, call'[q] # Idle
        PROVE  /\ Start(call'[q].client, call'[q].window) <= call'[q].since + Skew
               /\ call'[q].since < Start(call'[q].client, call'[q].window)
                                     + Rate(call'[q].client).WindowMS
               /\ now <= call'[q].since + Latency
    <3>1. call'[q] = call[q] \/ call'[q] = x
      BY <1>1 DEF x
    <3> QED
      BY <2>6, <2>7, <3>1 DEF CounterInv, OnTime
  <2> QED
    BY <1>2, <1>3, <2>7, Zenon DEF OnTime
<1>5. ASSUME NEW d \in clients \ excused PROVE Accounted(d, Store, served[d], now)'
  <2>1. Accounted(d, Store, served[d], now) /\ Store' = Store /\ served'[d] = served[d]
    BY <1>2, <1>3 DEF CounterInv, Store
  <2> QED
    BY <1>2, <2>1, SameAccounts
<1> QED
  BY <1>1, <1>2, <1>4, <1>5 DEF CounterInv

LEMMA CounterTick ==
  ASSUME CounterInv, Tick
  PROVE  CounterInv'
<1>1. /\ TypeInv /\ TypeInv' /\ now' = now + 1 /\ now < Horizon
      /\ UNCHANGED <<settings, clients, skew, call, served, delayed, excused>>
      /\ \A p \in Places : /\ Part(counters'[p], counters[p])
                           /\ \A k \in DOMAIN counters[p] \ DOMAIN counters'[p] :
                                ~(now + 1 < counters[p][k].expires)
  BY TypeTick DEF CounterInv
<1>2. /\ Place(1)' = Place(1) /\ Place(1) \in Places
      /\ \A d, k : Rate(d)' = Rate(d) /\ Start(d, k)' = Start(d, k)
  BY <1>1, SameWindows, OnePlace
<1>3. /\ now \in 0..Horizon /\ now \in Nat /\ now' \in 0..Horizon /\ now <= now'
      /\ Typed(Store) /\ Latency \in Nat
  BY <1>1, <1>2, CountersTyped, RateLimiterAssumption DEF Store
<1>4. OnTime'
  <2>1. ASSUME NEW r \in Call, call[r] # Idle PROVE now + 1 <= call[r].since + Latency
    <3>1. call[r].phase = "counting" /\ call[r].since \in Nat
      BY <1>1, <1>3, <2>1 DEF TypeInv, TypeOK
    <3>2. now - call[r].since < Latency
      BY <3>1, Zenon DEF Tick
    <3> QED
      BY <1>3, <3>1, <3>2
  <2>2. OnTime
    BY DEF CounterInv
  <2> QED
    BY <1>1, <1>2, <2>1, <2>2 DEF OnTime
<1>5. ASSUME NEW c \in clients \ excused PROVE Accounted(c, Store, served[c], now)'
  <2>1. /\ Part(Store', Store)
        /\ \A k \in DOMAIN Store \ DOMAIN Store' : ~(now + 1 < Store[k].expires)
    BY <1>1, <1>2 DEF Store
  <2>2. ASSUME NEW w, <<c, w>> \in DOMAIN Store \ DOMAIN Store'
        PROVE  Store[<<c, w>>].expires <= now'
    <3>1. Store[<<c, w>>].expires \in Nat
      BY <1>3, <2>2 DEF Typed, Bucket
    <3> QED
      BY <1>1, <1>3, <2>1, <2>2, <3>1
  <2>3. Accounted(c, Store, served[c], now)
    BY DEF CounterInv
  <2>4. Accounted(c, Store', served[c], now')
    BY <1>1, <1>3, <2>1, <2>2, <2>3, AccountedPart
  <2> QED
    BY <1>1, <2>4, SameAccounts
<1> QED
  BY <1>1, <1>4, <1>5 DEF CounterInv

\* Calls that are answered leave the others on time.
LEMMA OnTimeAnswered ==
  ASSUME TypeInv, OnTime, NEW r \in Call, UNCHANGED <<settings, now>>,
         call' = [call EXCEPT ![r] = Idle]
  PROVE  OnTime'
<1>1. \A d, k : Rate(d)' = Rate(d) /\ Start(d, k)' = Start(d, k)
  BY SameWindows
<1>2. \A q \in Call : call'[q] = call[q] \/ call'[q] = Idle
  BY DEF TypeInv, TypeOK
<1> QED
  BY <1>1, <1>2 DEF OnTime

LEMMA DueWindow ==
  ASSUME CounterInv, NEW r \in Call, call[r] # Idle
  PROVE  /\ call[r].client \in clients /\ call[r].window \in Nat
         /\ Key(r) = <<call[r].client, call[r].window>>
         /\ Start(call[r].client, call[r].window) <= now + Skew
         /\ now < Start(call[r].client, call[r].window)
                    + Rate(call[r].client).WindowMS + Latency
<1> DEFINE d == call[r].client
           v == call[r].window
           since == call[r].since
<1>1. d \in clients /\ v \in Nat /\ since \in Nat /\ since <= now /\ now \in Nat
      /\ Skew \in Nat /\ Latency \in Nat
  BY CountersTyped, RateLimiterAssumption DEF CounterInv, TypeInv, TypeOK
<1>2. Start(d, v) \in Nat /\ Rate(d).WindowMS \in Nat
  BY <1>1, RateIs DEF CounterInv
<1>3. Start(d, v) <= since + Skew /\ since < Start(d, v) + Rate(d).WindowMS
      /\ now <= since + Latency
  BY DEF CounterInv, OnTime
<1> QED
  BY <1>1, <1>2, <1>3 DEF Key

LEMMA CounterCount ==
  ASSUME CounterInv, NEW r \in Call, CountInMemory(r) \/ CountInRedis(r)
  PROVE  CounterInv'
<1> DEFINE d == call[r].client
           v == call[r].window
           key == Key(r)
<1>1. TypeInv /\ TypeInv'
  BY TypeCount DEF CounterInv
<1>2. PICK kept, given_up :
        /\ call[r] # Idle /\ Place(call[r].instance) \in Places
        /\ Part(kept, counters[Place(call[r].instance)]) /\ given_up \in SUBSET clients
        /\ \A k \in DOMAIN counters[Place(call[r].instance)] \ DOMAIN kept :
             k[1] \in given_up \/ ~(now <= counters[Place(call[r].instance)][k].expires)
        /\ counters' = [counters EXCEPT ![Place(call[r].instance)] =
                          Stored(kept, key, Counted(kept, key))]
        /\ Decide(r, Counted(kept, key), given_up)
        /\ UNCHANGED <<settings, clients, skew, now>>
  BY <1>1, CountsInOne, Zenon
<1> DEFINE bucket == Counted(kept, key)
           admitted == bucket.count <= Rate(d).Max
<1>3. Place(call[r].instance) = Place(1) /\ Place(1)' = Place(1) /\ Place(1) \in Places
  BY <1>1, <1>2, OnePlace, CountersTyped, SameWindows
<1>4. /\ excused' = excused \cup given_up
      /\ served' = [c \in clients |->
                      IF c \in excused' THEN NoneServed
                      ELSE IF c = d /\ admitted THEN OneMore(served[d]) ELSE served[c]]
      /\ call' = [call EXCEPT ![r] = Idle]
  BY <1>2, Zenon DEF Decide
<1>5. /\ d \in clients /\ v \in Nat /\ key = <<d, v>>
      /\ Start(d, v) <= now + Skew /\ now < Start(d, v) + Rate(d).WindowMS + Latency
  BY <1>2, DueWindow
<1>6. /\ Part(kept, Store) /\ Typed(Store) /\ Typed(kept) /\ now \in 0..Horizon /\ now \in Nat
      /\ \A k \in DOMAIN Store \ DOMAIN kept : k[1] \in given_up \/ ~(now <= Store[k].expires)
  BY <1>1, <1>2, <1>3, CountersTyped, PartTyped DEF Store
<1>7. Store' = Stored(kept, key, bucket)
  <2>1. DOMAIN counters = Places
    BY <1>1 DEF TypeInv, TypeOK
  <2>2. counters' = [counters EXCEPT ![Place(1)] = Stored(kept, key, bucket)]
    BY <1>2, <1>3, Zenon
  <2> HIDE DEF bucket, key
  <2> QED
    BY <1>3, <2>1, <2>2 DEF Store
<1>8. OnTime'
  BY <1>1, <1>2, <1>4, OnTimeAnswered DEF CounterInv
<1>9. ASSUME NEW c \in clients \ excused' PROVE Accounted(c, Store, served[c], now)'
  <2>1. c \in clients \ excused /\ c \notin given_up /\ served[c] \in Counts
    BY <1>1, <1>4 DEF TypeInv, TypeOK, Counts
  <2>2. ASSUME NEW w, <<c, w>> \in DOMAIN Store \ DOMAIN kept
        PROVE  Store[<<c, w>>].expires <= now
    <3>1. Store[<<c, w>>].expires \in Nat
      BY <1>6, <2>2 DEF Typed, Bucket
    <3> QED
      BY <1>6, <2>1, <2>2, <3>1
  <2>3. Accounted(c, kept, served[c], now)
    <3>1. Accounted(c, Store, served[c], now) /\ now <= now /\ now <= now + 1
      BY <1>6, <2>1 DEF CounterInv
    <3> QED
      BY <1>1, <1>6, <2>1, <2>2, <3>1, AccountedPart
  <2>4. Accounted(c, Store', served'[c], now)
    <3>1. CASE c # d
      <4>1. served'[c] = served[c] /\ key[1] # c
        BY <1>4, <1>5, <1>9, <3>1
      <4> HIDE DEF bucket, key
      <4> QED
        BY <1>7, <2>3, <4>1, AccountedOther
    <3>2. CASE c = d
      <4>1. /\ Accounted(c, Stored(kept, <<c, v>>, Counted(kept, <<c, v>>)), served[c], now)
            /\ Counted(kept, <<c, v>>).count <= Rate(c).Max =>
                 Accounted(c, Stored(kept, <<c, v>>, Counted(kept, <<c, v>>)),
                           OneMore(served[c]), now)
        BY <1>1, <1>5, <1>6, <2>1, <2>3, <3>2, AccountedCounted
      <4>2. /\ Accounted(c, Store', served[c], now)
            /\ admitted => Accounted(c, Store', OneMore(served[c]), now)
        BY <1>5, <1>7, <3>2, <4>1
      <4>3. served'[c] = IF admitted THEN OneMore(served[c]) ELSE served[c]
        BY <1>4, <1>9, <3>2
      <4> QED
        BY <4>2, <4>3
    <3> QED
      BY <3>1, <3>2
  <2> QED
    BY <1>2, <2>4, SameAccounts
<1> QED
  BY <1>1, <1>2, <1>8, <1>9 DEF CounterInv

LEMMA CounterStoreFails ==
  ASSUME CounterInv, NEW r \in Call, StoreFails(r)
  PROVE  CounterInv'
<1> DEFINE d == call[r].client
           v == call[r].window
           key == Key(r)
<1>1. /\ TypeInv /\ TypeInv' /\ Shared /\ call[r] # Idle
      /\ UNCHANGED <<settings, clients, skew, now, delayed>>
      /\ call' = [call EXCEPT ![r] = Idle]
      /\ \/ counters' = counters
         \/ counters' = [counters EXCEPT !["redis"] =
              Stored(counters["redis"], key, Counted(counters["redis"], key))]
      /\ \/ served' = served /\ excused' = excused
         \/ /\ served' = [served EXCEPT ![d] = NoneServed]
            /\ excused' = excused \cup {d}
  BY TypeStoreFails DEF CounterInv
<1>2. /\ Place(1) = "redis" /\ Store = counters["redis"] /\ Place(1)' = Place(1)
      /\ "redis" \in Places /\ DOMAIN counters = Places
  BY <1>1, SameWindows DEF Place, Places, Store, TypeInv, TypeOK
<1>3. /\ d \in clients /\ v \in Nat /\ key = <<d, v>>
      /\ Start(d, v) <= now + Skew /\ now < Start(d, v) + Rate(d).WindowMS + Latency
  BY <1>1, DueWindow
<1>4. Typed(Store)
  BY <1>1, <1>2, CountersTyped
<1>5. Store' = Store \/ Store' = Stored(Store, key, Counted(Store, key))
  <2> DEFINE after == Stored(Store, key, Counted(Store, key))
  <2>1. counters' = counters \/ counters' = [counters EXCEPT !["redis"] = after]
    BY <1>1, <1>2, Zenon
  <2>2. Store' = counters'["redis"]
    BY <1>2 DEF Store
  <2> HIDE DEF after
  <2>3. Store' = Store \/ Store' = after
    BY <1>2, <2>1, <2>2
  <2> QED
    BY <2>3 DEF after
<1>6. OnTime'
  BY <1>1, OnTimeAnswered DEF CounterInv
<1>7. ASSUME NEW c \in clients \ excused' PROVE Accounted(c, Store, served[c], now)'
  <2>1. c \in clients \ excused /\ served[c] \in Counts /\ served'[c] = served[c]
    BY <1>1, <1>7 DEF TypeInv, TypeOK, Counts
  <2>2. Accounted(c, Store, served[c], now)
    BY <2>1 DEF CounterInv
  <2>3. Accounted(c, Stored(Store, key, Counted(Store, key)), served[c], now)
    <3>1. CASE c # d
      <4>1. key[1] # c
        BY <1>3, <3>1
      <4> HIDE DEF key
      <4> QED
        BY <2>2, <4>1, AccountedOther
    <3>2. CASE c = d
      <4>1. Accounted(c, Stored(Store, <<c, v>>, Counted(Store, <<c, v>>)), served[c], now)
        BY <1>1, <1>3, <1>4, <2>1, <2>2, <3>2, AccountedCounted
      <4> QED
        BY <1>3, <3>2, <4>1
    <3> QED
      BY <3>1, <3>2
  <2>4. Accounted(c, Store', served'[c], now')
    BY <1>1, <1>5, <2>1, <2>2, <2>3
  <2> QED
    BY <1>1, <2>4, SameAccounts
<1> QED
  BY <1>1, <1>6, <1>7 DEF CounterInv

LEMMA CounterNext == CounterInv /\ [Next]_vars => CounterInv'
<1> SUFFICES ASSUME CounterInv, [Next]_vars PROVE CounterInv'
  OBVIOUS
<1>1. CASE Tick
  BY <1>1, CounterTick
<1>2. ASSUME NEW r \in Call, NEW c \in clients, NEW i \in Instance, ReadClock(r, c, i)
      PROVE  CounterInv'
  BY <1>2, CounterReadClock
<1>3. ASSUME NEW r \in Call, CountInMemory(r) \/ CountInRedis(r)
      PROVE  CounterInv'
  BY <1>3, CounterCount
<1>4. ASSUME NEW r \in Call, StoreFails(r)
      PROVE  CounterInv'
  BY <1>4, CounterStoreFails
<1>5. CASE UNCHANGED vars
  <2>1. UNCHANGED <<settings, clients, skew, now, counters, call, served, delayed, excused>>
    BY <1>5, Zenon DEF vars
  <2>2. TypeInv'
    BY <1>5, TypeNext DEF CounterInv
  <2>3. Store' = Store /\ \A d, k : Rate(d)' = Rate(d) /\ Start(d, k)' = Start(d, k)
    BY <2>1, SameWindows DEF Store
  <2>4. OnTime'
    BY <2>1, <2>3 DEF CounterInv, OnTime
  <2>5. ASSUME NEW c \in clients \ excused PROVE Accounted(c, Store, served[c], now)'
    <3>1. Accounted(c, Store', served'[c], now')
      BY <2>1, <2>3 DEF CounterInv
    <3> QED
      BY <2>1, <3>1, SameAccounts
  <2> QED
    BY <2>1, <2>2, <2>4, <2>5 DEF CounterInv
<1> QED
  BY <1>1, <1>2, <1>3, <1>4, <1>5, Zenon DEF Next

(* Whatever clocks say within a window of the truth, however late requests are
   counted and however often Redis forgets a counter with requests still to
   come, a client gets no more in any span of a window's length than five
   counters admit, two of them without the request that began them; and no more
   than two windows where clocks agree (limiter.go:31-54). *)
THEOREM AdmittedAlwaysWithinLimit == Spec => []AdmittedWithinLimit
<1>1. CounterInv => WithinFiveCounters
  BY SpanOfThree DEF WithinFiveCounters
<1>2. Spec => []CounterInv
  BY CounterInit, CounterNext, PTL DEF Spec
<1>3. WithinWindow /\ WithinFiveCounters => AdmittedWithinLimit
  BY DEF AdmittedWithinLimit
<1> QED
  BY <1>1, <1>2, <1>3, LimitsHold, PTL
=============================================================================
