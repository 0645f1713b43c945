------------------------ MODULE ResponseCacheProofs ------------------------
(***************************************************************************)
(* Proofs about ResponseCache for any number of readers and mutations and  *)
(* any TTL and latency.                                                    *)
(***************************************************************************)
EXTENDS ResponseCache, TLAPS

-----------------------------------------------------------------------------
(* The inductive invariants.                                               *)

\* What an entry or a key of the current version may be too old for is known
\* from when the version began.
FreshEntry(v) == v <= version /\ settled[v] <= entries[v].value
FreshRequest(q) ==
  /\ q.floor <= settled[version]
  /\ q.key # NoKey => q.key <= version /\ q.floor <= settled[q.key]
  /\ q.phase = "read" /\ q.key # NoKey => settled[q.key] <= q.value
  /\ q.phase \in {"read", "answered"} => q.floor <= q.value
FreshInv ==
  crashes = 0 => /\ \A v \in Versions : entries[v] # NoEntry => FreshEntry(v)
                 /\ \A r \in Readers : req[r] # Idle => FreshRequest(req[r])

\* An entry that misses a mutation was read by a request that began before it.
StaleEntry(v) ==
  /\ now < entries[v].expires /\ entries[v].expires <= now + TTL
  /\ \A n \in 1..db : n > entries[v].value => entries[v].expires <= wrote[n] + TTL + Latency
StaleRequest(q) ==
  /\ q.start <= now /\ now <= q.start + Latency
  /\ q.phase = "read" =>
       \A n \in 1..db : n > q.value => q.start <= wrote[n]
  /\ q.phase = "answered" =>
       \A n \in 1..db : n > q.value => q.start <= wrote[n] + TTL + Latency
StaleInv ==
  /\ \A v \in Versions : entries[v] # NoEntry => StaleEntry(v)
  /\ \A r \in Readers : req[r] # Idle => StaleRequest(req[r])

\* A version never began with more than is committed.
SettledInv == \A v \in Versions : settled[v] <= db

\* The number of increments never exceeds that of the mutations.
VersionInv == version + owed <= db

\* A lookup is made with a key.
KeyInv == \A r \in Readers : req[r].phase = "keyed" => req[r].key # NoKey

-----------------------------------------------------------------------------
(* The shape of a request in flight. *)
LEMMA InFlight ==
  ASSUME TypeOK, NEW r \in Readers, req[r].phase # "idle"
  PROVE  req[r] \in Request /\ req[r] # Idle
BY DEF TypeOK, Idle

(* A step of a request keeps the types when it leaves the request in one. *)
LEMMA RequestStep ==
  ASSUME TypeOK, NEW r \in Readers, NEW x \in {Idle} \union Request,
         req' = [req EXCEPT ![r] = x], entries' \in Contents,
         UNCHANGED <<db, owed, version, now, crashes, settled, wrote>>
  PROVE  TypeOK'
BY DEF TypeOK

(* No action takes a variable out of its type. *)
LEMMA TypeInductive ==
  ASSUME CacheAssumption, TypeOK, VersionInv, KeyInv, [Next]_vars
  PROVE  TypeOK'
<1>0. entries \in Contents /\ version \in Versions /\ now \in Times /\ db \in Values
  BY DEF TypeOK
<1>1. ASSUME NEW r \in Readers, Arrive(r) PROVE TypeOK'
  <2> DEFINE x == [phase |-> "arrived", key |-> NoKey, value |-> 0,
                   start |-> now, floor |-> settled[version]]
  <2>1. x \in Request
    BY <1>0 DEF CacheAssumption, TypeOK, Request, Values, Versions
  <2>. HIDE DEF x
  <2>. QED BY <1>1, <2>1, <1>0, RequestStep DEF Arrive, redis, history, x
<1>2. ASSUME NEW r \in Readers, Key(r) PROVE TypeOK'
  <2>1. req[r] \in Request BY <1>2, InFlight DEF Key
  <2>2. \E x \in Request : req' = [req EXCEPT ![r] = x]
    <3>1. CASE req' = [req EXCEPT ![r].phase = "keyed", ![r].key = version]
      <4>1. [req[r] EXCEPT !.phase = "keyed", !.key = version] \in Request
        BY <2>1, <1>0 DEF Request
      <4>. QED BY <3>1, <4>1
    <3>2. CASE req' = [req EXCEPT ![r].phase = "missed"]
      <4>1. [req[r] EXCEPT !.phase = "missed"] \in Request BY <2>1 DEF Request
      <4>. QED BY <3>2, <4>1
    <3>. QED BY <1>2, <3>1, <3>2 DEF Key
  <2>. QED BY <1>2, <2>2, <1>0, RequestStep DEF Key, redis, history
<1>3. ASSUME NEW r \in Readers, Hit(r) PROVE TypeOK'
  <2>1. req[r] \in Request BY <1>3, InFlight DEF Hit
  <2> DEFINE e == entries[req[r].key]
  <2>2. e.value \in Values
    <3>1. e # NoEntry BY <1>3 DEF Hit
    <3>2. CASE req[r].key \in Versions
      BY <3>1, <3>2, <1>0 DEF Contents, Entry
    <3>3. req[r].key \in Versions BY <1>3, <2>1 DEF Hit, KeyInv, Request
    <3>. QED BY <3>2, <3>3
  <2>3. [req[r] EXCEPT !.phase = "answered", !.value = e.value] \in Request
    BY <2>1, <2>2 DEF Request
  <2>. QED BY <1>3, <2>3, <1>0, RequestStep DEF Hit, redis, history
<1>4. ASSUME NEW r \in Readers, Miss(r) PROVE TypeOK'
  <2>1. req[r] \in Request BY <1>4, InFlight DEF Miss
  <2>2. [req[r] EXCEPT !.phase = "missed"] \in Request BY <2>1 DEF Request
  <2>. QED BY <1>4, <2>2, <1>0, RequestStep DEF Miss, redis, history
<1>5. ASSUME NEW r \in Readers, Read(r) PROVE TypeOK'
  <2>1. req[r] \in Request BY <1>5, InFlight DEF Read
  <2>2. [req[r] EXCEPT !.phase = "read", !.value = db] \in Request BY <2>1, <1>0 DEF Request
  <2>. QED BY <1>5, <2>2, <1>0, RequestStep DEF Read, redis, history
<1>6. ASSUME NEW r \in Readers, Put(r) PROVE TypeOK'
  <2>1. req[r] \in Request BY <1>6, InFlight DEF Put
  <2>2. entries' \in Contents
    <3>1. [value |-> req[r].value, expires |-> Expiry] \in Entry
      BY <2>1, <1>0 DEF CacheAssumption, Request, Entry, Expiry, Times
    <3>. QED BY <1>6, <2>1, <3>1, <1>0 DEF Put, Contents
  <2>3. [req[r] EXCEPT !.phase = "answered"] \in Request BY <2>1 DEF Request
  <2>. QED BY <1>6, <2>2, <2>3, <1>0, RequestStep DEF Put, history
<1>7. ASSUME NEW r \in Readers, End(r) PROVE TypeOK'
  BY <1>7, <1>0, RequestStep DEF End, redis, history
<1>8. CASE Commit
  BY <1>8 DEF Commit, redis, CacheAssumption, TypeOK, Values, Times
<1>9. CASE Invalidate
  <2>1. version + 1 \in Versions
    BY <1>9 DEF Invalidate, VersionInv, CacheAssumption, TypeOK, Values, Versions
  <2>. QED BY <1>9, <2>1 DEF Invalidate, TypeOK, CacheAssumption, Values
<1>10. CASE InvalidateFails
  BY <1>10 DEF InvalidateFails, redis, history, CacheAssumption, TypeOK, Values
<1>11. CASE Crash
  <2>1. entries' \in Contents BY <1>11, <1>0 DEF Crash, Contents
  <2>2. version' \in Versions
    BY <1>11, <1>0 DEF Crash, Versions, CacheAssumption
  <2>. QED BY <1>11, <2>1, <2>2 DEF Crash, history, TypeOK, CacheAssumption
<1>12. CASE Tick
  <2>1. entries' \in Contents BY <1>12, <1>0 DEF Tick, Unexpired, Contents
  <2>. QED BY <1>12, <2>1 DEF Tick, history, TypeOK, CacheAssumption, Times
<1>13. CASE UNCHANGED vars
  BY <1>13 DEF vars, TypeOK
<1>. QED
  BY <1>1, <1>2, <1>3, <1>4, <1>5, <1>6, <1>7, <1>8, <1>9, <1>10, <1>11, <1>12, <1>13
  DEF Next

(* No more increments than mutations, and no lookup without a key. *)
LEMMA AuxInductive ==
  ASSUME CacheAssumption, TypeOK, VersionInv, KeyInv, [Next]_vars
  PROVE  VersionInv' /\ KeyInv'
<1>1. VersionInv'
  <2>1. CASE \E r \in Readers : Arrive(r) \/ Key(r) \/ Hit(r) \/ Miss(r) \/ Read(r) \/ Put(r) \/ End(r)
    BY <2>1 DEF Arrive, Key, Hit, Miss, Read, Put, End, redis, VersionInv
  <2>2. CASE Commit BY <2>2 DEF Commit, redis, VersionInv, TypeOK, Values, Versions
  <2>3. CASE Invalidate BY <2>3 DEF Invalidate, VersionInv, TypeOK, Values, Versions
  <2>4. CASE InvalidateFails BY <2>4 DEF InvalidateFails, redis, VersionInv, TypeOK, Values, Versions
  <2>5. CASE Crash
    <3>1. version' \in 0..version /\ owed' = owed /\ db' = db BY <2>5 DEF Crash
    <3>2. db \in Nat /\ owed \in Nat /\ version \in Nat
      BY DEF TypeOK, Values, Versions, CacheAssumption
    <3>3. version' \in Nat /\ version' <= version BY <3>1, <3>2
    <3>4. version + owed <= db BY DEF VersionInv
    <3>5. \A a, b, c, d \in Nat : a <= b /\ b + c <= d => a + c <= d OBVIOUS
    <3>6. version' + owed <= db BY <3>2, <3>3, <3>4, <3>5
    <3>. QED BY <3>1, <3>6 DEF VersionInv
  <2>6. CASE Tick BY <2>6 DEF Tick, history, VersionInv
  <2>7. CASE UNCHANGED vars BY <2>7 DEF vars, VersionInv
  <2>. QED BY <2>1, <2>2, <2>3, <2>4, <2>5, <2>6, <2>7 DEF Next
<1>2. KeyInv'
  <2>0. \A r \in Readers : req[r] = Idle \/ req[r] \in Request BY DEF TypeOK
  <2>1. ASSUME NEW r \in Readers,
               Arrive(r) \/ Miss(r) \/ Read(r) \/ Put(r) \/ End(r) \/ Hit(r)
        PROVE  KeyInv'
    <3>1. req'[r].phase # "keyed" /\ \A s \in Readers : s # r => req'[s] = req[s]
      <4>1. CASE Arrive(r) \/ End(r)
        BY <4>1 DEF Arrive, End, TypeOK, Idle
      <4>2. CASE Miss(r) \/ Read(r) \/ Put(r) \/ Hit(r)
        <5>1. req[r] \in Request BY <4>2, InFlight DEF Miss, Read, Put, Hit
        <5>. QED BY <4>2, <5>1 DEF Miss, Read, Put, Hit, TypeOK, Request
      <4>. QED BY <2>1, <4>1, <4>2
    <3>. QED BY <3>1 DEF KeyInv
  <2>2. ASSUME NEW r \in Readers, Key(r) PROVE KeyInv'
    <3>1. req[r] \in Request BY <2>2, InFlight DEF Key
    <3>2. version # NoKey BY DEF CacheAssumption, TypeOK, Versions
    <3>3. req'[r].phase = "keyed" => req'[r].key # NoKey
      BY <2>2, <3>1, <3>2 DEF Key, TypeOK, Request
    <3>4. \A s \in Readers : s # r => req'[s] = req[s] BY <2>2 DEF Key, TypeOK
    <3>. QED BY <3>3, <3>4 DEF KeyInv
  <2>3. CASE UNCHANGED req BY <2>3 DEF KeyInv
  <2>. QED
    BY <2>1, <2>2, <2>3 DEF Next, Commit, Invalidate, InvalidateFails, Crash, Tick, vars
<1>. QED BY <1>1, <1>2

(* A version begins with what is committed, and more is committed later. *)
LEMMA SettledInductive ==
  ASSUME CacheAssumption, TypeOK, VersionInv, SettledInv, [Next]_vars
  PROVE  SettledInv'
<1>1. CASE Invalidate
  <2>1. version + 1 \in Versions
    BY <1>1 DEF Invalidate, VersionInv, CacheAssumption, TypeOK, Values, Versions
  <2>. QED BY <1>1, <2>1 DEF Invalidate, SettledInv, TypeOK, Values
<1>2. CASE Commit BY <1>2 DEF Commit, SettledInv, TypeOK, Values
<1>3. CASE settled' = settled /\ db' = db BY <1>3 DEF SettledInv
<1>. QED
  BY <1>1, <1>2, <1>3
  DEF Next, Arrive, Key, Hit, Miss, Read, Put, End, InvalidateFails, Crash, Tick, vars, redis, history

(* A step that changes nothing but one request, which it leaves in FreshRequest,
   keeps FreshInv; so does one that also stores a fresh entry. *)
LEMMA FreshStep ==
  ASSUME TypeOK, FreshInv, NEW r \in Readers, NEW x, req' = [req EXCEPT ![r] = x],
         crashes = 0 => x = Idle \/ FreshRequest(x),
         UNCHANGED <<version, crashes, settled>>,
         \A v \in Versions : entries'[v] = entries[v] \/ (crashes = 0 => FreshEntry(v)')
  PROVE  FreshInv'
<1>. SUFFICES ASSUME crashes' = 0 PROVE FreshInv' BY DEF FreshInv
<1>1. ASSUME NEW v \in Versions, entries'[v] # NoEntry PROVE FreshEntry(v)'
  BY <1>1 DEF FreshInv, FreshEntry
<1>2. ASSUME NEW s \in Readers, req'[s] # Idle PROVE FreshRequest(req[s])'
  <2>1. req'[s] = IF s = r THEN x ELSE req[s] BY DEF TypeOK
  <2>2. FreshRequest(req'[s]) BY <1>2, <2>1 DEF FreshInv
  <2>. QED BY <2>2 DEF FreshRequest
<1>. QED BY <1>1, <1>2 DEF FreshInv

(* No response is older than the version it was stored under, and none is
   stored under a version that began after its rows were read. *)
LEMMA FreshInductive ==
  ASSUME CacheAssumption, TypeOK, VersionInv, KeyInv, SettledInv, FreshInv, [Next]_vars
  PROVE  FreshInv'
<1>0. /\ version \in Versions /\ db \in Values /\ Values \subseteq Nat
      /\ Versions \subseteq Nat /\ NoKey \notin Versions
      /\ settled \in [Versions -> Values]
  BY DEF TypeOK, Values, Versions, CacheAssumption
<1>1. ASSUME NEW r \in Readers, Arrive(r) PROVE FreshInv'
  <2> DEFINE x == [phase |-> "arrived", key |-> NoKey, value |-> 0,
                   start |-> now, floor |-> settled[version]]
  <2>1. x.floor = settled[version] /\ x.key = NoKey /\ x.phase = "arrived" OBVIOUS
  <2>2. settled[version] <= settled[version]
    <3>1. settled[version] \in Nat BY <1>0
    <3>2. \A n \in Nat : n <= n OBVIOUS
    <3>. QED BY <3>1, <3>2
  <2>3. req' = [req EXCEPT ![r] = x] BY <1>1 DEF Arrive
  <2>. HIDE DEF x
  <2>4. FreshRequest(x) BY <2>1, <2>2 DEF FreshRequest
  <2>. QED BY <1>1, <2>3, <2>4, FreshStep DEF Arrive, redis, history
<1>2. ASSUME NEW r \in Readers, Key(r) PROVE FreshInv'
  <2>1. req[r] \in Request /\ req[r] # Idle BY <1>2, InFlight DEF Key
  <2>2. ASSUME crashes = 0 PROVE FreshRequest(req[r]) BY <2>1, <2>2 DEF FreshInv
  <2>3. CASE req' = [req EXCEPT ![r].phase = "keyed", ![r].key = version]
    <3> DEFINE x == [req[r] EXCEPT !.phase = "keyed", !.key = version]
    <3>1. crashes = 0 => FreshRequest(x) BY <2>1, <2>2, <1>0 DEF FreshRequest, Request
    <3>2. req' = [req EXCEPT ![r] = x] BY <2>3
    <3>. HIDE DEF x
    <3>. QED BY <1>2, <3>1, <3>2, FreshStep DEF Key, redis, history
  <2>4. CASE req' = [req EXCEPT ![r].phase = "missed"]
    <3> DEFINE x == [req[r] EXCEPT !.phase = "missed"]
    <3>1. crashes = 0 => FreshRequest(x) BY <2>1, <2>2, <1>0 DEF FreshRequest, Request
    <3>2. req' = [req EXCEPT ![r] = x] BY <2>4
    <3>. HIDE DEF x
    <3>. QED BY <1>2, <3>1, <3>2, FreshStep DEF Key, redis, history
  <2>. QED BY <1>2, <2>3, <2>4 DEF Key
<1>3. ASSUME NEW r \in Readers, Hit(r) PROVE FreshInv'
  <2>1. req[r] \in Request /\ req[r] # Idle BY <1>3, InFlight DEF Hit
  <2>2. req[r].key \in Versions BY <1>3, <2>1 DEF Hit, KeyInv, Request
  <2> DEFINE e == entries[req[r].key]
             x == [req[r] EXCEPT !.phase = "answered", !.value = e.value]
  <2>3. e.value \in Values BY <1>3, <2>2 DEF Hit, TypeOK, Contents, Entry
  <2>4. ASSUME crashes = 0 PROVE FreshRequest(x)
    <3>1. settled[req[r].key] <= e.value BY <1>3, <2>2, <2>4 DEF Hit, FreshInv, FreshEntry
    <3>2. FreshRequest(req[r]) BY <2>1, <2>4 DEF FreshInv
    <3>3. req[r].floor <= settled[req[r].key] BY <3>2, <1>0, <2>2 DEF FreshRequest
    <3>4. req[r].floor <= e.value
      <4>1. req[r].floor \in Nat /\ settled[req[r].key] \in Nat /\ e.value \in Nat
        BY <2>1, <2>2, <2>3, <1>0 DEF Request
      <4>. HIDE DEF e
      <4>. QED BY <3>1, <3>3, <4>1
    <3>5. x.floor = req[r].floor /\ x.key = req[r].key /\ x.phase = "answered" /\ x.value = e.value
      BY <2>1 DEF Request
    <3>. HIDE DEF x, e
    <3>. QED BY <3>2, <3>4, <3>5 DEF FreshRequest
  <2>5. req' = [req EXCEPT ![r] = x] BY <1>3 DEF Hit
  <2>. HIDE DEF x
  <2>. QED BY <1>3, <2>4, <2>5, FreshStep DEF Hit, redis, history
<1>4. ASSUME NEW r \in Readers, Miss(r) PROVE FreshInv'
  <2>1. req[r] \in Request /\ req[r] # Idle BY <1>4, InFlight DEF Miss
  <2> DEFINE x == [req[r] EXCEPT !.phase = "missed"]
  <2>2. crashes = 0 => FreshRequest(x) BY <2>1 DEF FreshInv, FreshRequest, Request
  <2>3. req' = [req EXCEPT ![r] = x] BY <1>4 DEF Miss
  <2>. HIDE DEF x
  <2>. QED BY <1>4, <2>2, <2>3, FreshStep DEF Miss, redis, history
<1>5. ASSUME NEW r \in Readers, Read(r) PROVE FreshInv'
  <2>1. req[r] \in Request /\ req[r] # Idle BY <1>5, InFlight DEF Read
  <2> DEFINE x == [req[r] EXCEPT !.phase = "read", !.value = db]
  <2>2. ASSUME crashes = 0 PROVE FreshRequest(x)
    <3>1. FreshRequest(req[r]) BY <2>1, <2>2 DEF FreshInv
    <3>2. settled[version] <= db /\ (req[r].key # NoKey => settled[req[r].key] <= db)
      BY <2>1, <1>0 DEF SettledInv, Request
    <3>3. req[r].floor <= db
      BY <3>1, <3>2, <2>1, <1>0 DEF FreshRequest, Request, Values
    <3>. QED BY <3>1, <3>2, <3>3, <2>1 DEF FreshRequest, Request
  <2>3. req' = [req EXCEPT ![r] = x] BY <1>5 DEF Read
  <2>. HIDE DEF x
  <2>. QED BY <1>5, <2>2, <2>3, FreshStep DEF Read, redis, history
<1>6. ASSUME NEW r \in Readers, Put(r) PROVE FreshInv'
  <2>1. req[r] \in Request /\ req[r] # Idle BY <1>6, InFlight DEF Put
  <2>2. ASSUME crashes = 0 PROVE FreshRequest(req[r]) BY <2>1, <2>2 DEF FreshInv
  <2> DEFINE x == [req[r] EXCEPT !.phase = "answered"]
  <2>3. crashes = 0 => FreshRequest(x) BY <1>6, <2>1, <2>2 DEF Put, FreshRequest, Request
  <2>4. req' = [req EXCEPT ![r] = x] BY <1>6 DEF Put
  <2>5. ASSUME NEW v \in Versions
        PROVE  entries'[v] = entries[v] \/ (crashes = 0 => FreshEntry(v)')
    <3>1. CASE v = req[r].key /\ v # NoKey
               /\ entries' = [entries EXCEPT ![req[r].key] = [value |-> req[r].value, expires |-> Expiry]]
      <4>1. entries'[v].value = req[r].value BY <3>1, <2>1 DEF TypeOK, Contents
      <4>. QED BY <1>6, <2>2, <3>1, <4>1 DEF Put, FreshEntry, FreshRequest, history
    <3>. QED BY <1>6, <3>1, <1>0 DEF Put, TypeOK, Contents
  <2>. HIDE DEF x
  <2>. QED BY <1>6, <2>3, <2>4, <2>5, FreshStep DEF Put, history
<1>7. ASSUME NEW r \in Readers, End(r) PROVE FreshInv'
  BY <1>7, FreshStep DEF End, redis, history
<1>8. CASE Commit BY <1>8 DEF Commit, redis, FreshInv, FreshEntry, FreshRequest
<1>9. CASE Invalidate
  <2>1. version + 1 \in Versions
    BY <1>9 DEF Invalidate, VersionInv, CacheAssumption, TypeOK, Values, Versions
  <2>2. \A v \in Versions : v <= version => settled'[v] = settled[v]
    BY <1>9 DEF Invalidate, TypeOK, Versions
  <2>3. settled'[version'] = db /\ settled[version] <= db /\ version < version'
    BY <1>9, <2>1, <1>0 DEF Invalidate, SettledInv, Versions
  <2>. SUFFICES ASSUME crashes = 0 PROVE FreshInv' BY <1>9 DEF Invalidate, FreshInv
  <2>4. ASSUME NEW v \in Versions, entries'[v] # NoEntry PROVE FreshEntry(v)'
    <3>1. FreshEntry(v) BY <1>9, <2>4 DEF Invalidate, FreshInv
    <3>. QED BY <1>9, <2>2, <2>3, <3>1, <1>0 DEF Invalidate, FreshEntry, Versions
  <2>5. ASSUME NEW r \in Readers, req'[r] # Idle PROVE FreshRequest(req[r])'
    <3>1. FreshRequest(req[r]) /\ req'[r] = req[r] BY <1>9, <2>5 DEF Invalidate, FreshInv
    <3>2. req[r] \in Request BY <2>5, <3>1 DEF TypeOK
    <3>3. req[r].floor <= settled'[version']
      BY <2>3, <3>1, <3>2, <1>0 DEF FreshRequest, Request, Values
    <3>4. ASSUME req[r].key # NoKey
          PROVE  req[r].key <= version' /\ settled'[req[r].key] = settled[req[r].key]
      <4>1. req[r].key \in Versions BY <3>2, <3>4 DEF Request
      <4>2. req[r].key <= version BY <3>1, <3>4 DEF FreshRequest
      <4>3. version' \in Nat /\ version < version' BY <1>9, <2>1, <1>0 DEF Invalidate
      <4>4. \A a, b, c \in Nat : a <= b /\ b < c => a <= c OBVIOUS
      <4>5. req[r].key \in Nat /\ version \in Nat BY <4>1, <1>0
      <4>6. req[r].key <= version' BY <4>2, <4>3, <4>4, <4>5
      <4>7. settled'[req[r].key] = settled[req[r].key] BY <2>2, <4>1, <4>2
      <4>. QED BY <4>6, <4>7
    <3>. QED BY <3>1, <3>3, <3>4 DEF FreshRequest
  <2>. QED BY <2>4, <2>5 DEF FreshInv
<1>10. CASE InvalidateFails
  BY <1>10 DEF InvalidateFails, redis, history, FreshInv, FreshEntry, FreshRequest
<1>11. CASE Crash BY <1>11 DEF Crash, FreshInv, TypeOK
<1>12. CASE Tick
  <2>1. \A v \in Versions : entries'[v] # NoEntry => entries'[v] = entries[v]
    BY <1>12 DEF Tick, Unexpired
  <2>. QED BY <1>12, <2>1 DEF Tick, history, FreshInv, FreshEntry, FreshRequest
<1>13. CASE UNCHANGED vars BY <1>13 DEF vars, FreshInv, FreshEntry, FreshRequest
<1>. QED
  BY <1>1, <1>2, <1>3, <1>4, <1>5, <1>6, <1>7, <1>8, <1>9, <1>10, <1>11, <1>12, <1>13
  DEF Next

(* The same for StaleInv. *)
LEMMA StaleStep ==
  ASSUME TypeOK, StaleInv, NEW r \in Readers, NEW x, req' = [req EXCEPT ![r] = x],
         x = Idle \/ StaleRequest(x), UNCHANGED <<db, now, wrote>>,
         \A v \in Versions : entries'[v] = entries[v] \/ StaleEntry(v)'
  PROVE  StaleInv'
<1>1. ASSUME NEW v \in Versions, entries'[v] # NoEntry PROVE StaleEntry(v)'
  BY <1>1 DEF StaleInv, StaleEntry
<1>2. ASSUME NEW s \in Readers, req'[s] # Idle PROVE StaleRequest(req[s])'
  <2>1. req'[s] = IF s = r THEN x ELSE req[s] BY DEF TypeOK
  <2>2. StaleRequest(req'[s]) BY <1>2, <2>1 DEF StaleInv
  <2>. QED BY <2>2 DEF StaleRequest
<1>. QED BY <1>1, <1>2 DEF StaleInv

(* Whatever misses a mutation was read by a request that began before it was
   committed, was stored within Latency, and is gone TTL later. *)
LEMMA StaleInductive ==
  ASSUME CacheAssumption, TypeOK, KeyInv, StaleInv, [Next]_vars
  PROVE  StaleInv'
<1>0. /\ now \in Nat /\ TTL \in Nat /\ TTL > 0 /\ Latency \in Nat /\ db \in Nat /\ db <= MaxWrites
      /\ MaxWrites \in Nat /\ \A n \in 1..db : wrote[n] \in Nat
  BY DEF TypeOK, Values, Times, CacheAssumption
<1>00. ASSUME NEW r \in Readers, req[r].phase # "idle"
       PROVE  /\ req[r] \in Request /\ req[r] # Idle /\ StaleRequest(req[r])
              /\ req[r].start \in Nat /\ req[r].value \in Nat
  <2>1. req[r] \in Request /\ req[r] # Idle BY <1>00, InFlight
  <2>. QED BY <2>1 DEF StaleInv, Request, Times, Values, CacheAssumption
<1>1. ASSUME NEW r \in Readers, Arrive(r) PROVE StaleInv'
  <2> DEFINE x == [phase |-> "arrived", key |-> NoKey, value |-> 0,
                   start |-> now, floor |-> settled[version]]
  <2>1. StaleRequest(x) BY <1>0 DEF StaleRequest
  <2>. HIDE DEF x
  <2>. QED BY <1>1, <2>1, StaleStep DEF Arrive, redis, history, x
<1>2. ASSUME NEW r \in Readers, Key(r) \/ Miss(r) PROVE StaleInv'
  <2>1. req[r] \in Request /\ StaleRequest(req[r]) BY <1>2, <1>00 DEF Key, Miss
  <2>2. \E x : req' = [req EXCEPT ![r] = x] /\ StaleRequest(x)
    <3>1. CASE req' = [req EXCEPT ![r].phase = "keyed", ![r].key = version]
      <4> DEFINE x == [req[r] EXCEPT !.phase = "keyed", !.key = version]
      <4>1. req' = [req EXCEPT ![r] = x] BY <3>1
      <4>2. StaleRequest(x) BY <2>1 DEF StaleRequest, Request
      <4>. QED BY <4>1, <4>2
    <3>2. CASE req' = [req EXCEPT ![r].phase = "missed"]
      <4> DEFINE x == [req[r] EXCEPT !.phase = "missed"]
      <4>1. req' = [req EXCEPT ![r] = x] BY <3>2
      <4>2. StaleRequest(x) BY <2>1 DEF StaleRequest, Request
      <4>. QED BY <4>1, <4>2
    <3>. QED BY <1>2, <3>1, <3>2 DEF Key, Miss
  <2>. QED BY <1>2, <2>2, StaleStep DEF Key, Miss, redis, history
<1>3. ASSUME NEW r \in Readers, Hit(r) PROVE StaleInv'
  <2>1. req[r] \in Request /\ StaleRequest(req[r]) /\ req[r].start \in Nat BY <1>3, <1>00 DEF Hit
  <2>2. req[r].key \in Versions BY <1>3, <2>1 DEF Hit, KeyInv, Request
  <2> DEFINE e == entries[req[r].key]
             x == [req[r] EXCEPT !.phase = "answered", !.value = e.value]
  <2>3. e \in Entry /\ StaleEntry(req[r].key)
    BY <1>3, <2>2 DEF Hit, StaleInv, TypeOK, Contents
  <2>4. e.expires \in Nat BY <2>3 DEF Entry, CacheAssumption
  <2>5. StaleRequest(x)
    <3>1. x.start = req[r].start /\ x.phase = "answered" /\ x.value = e.value
      BY <2>1 DEF Request
    <3>2. ASSUME NEW n \in 1..db, n > e.value PROVE req[r].start <= wrote[n] + TTL + Latency
      <4>1. e.expires <= wrote[n] + TTL + Latency BY <2>3, <3>2 DEF StaleEntry
      <4>2. req[r].start <= now /\ now < e.expires BY <2>1, <2>3 DEF StaleEntry, StaleRequest
      <4>. HIDE DEF e
      <4>. QED BY <4>1, <4>2, <2>1, <2>4, <1>0
    <3>. HIDE DEF x, e
    <3>. QED BY <2>1, <3>1, <3>2 DEF StaleRequest
  <2>6. req' = [req EXCEPT ![r] = x] BY <1>3 DEF Hit
  <2>. HIDE DEF x
  <2>. QED BY <1>3, <2>5, <2>6, StaleStep DEF Hit, redis, history
<1>5. ASSUME NEW r \in Readers, Read(r) PROVE StaleInv'
  <2>1. req[r] \in Request /\ StaleRequest(req[r]) BY <1>5, <1>00 DEF Read
  <2> DEFINE x == [req[r] EXCEPT !.phase = "read", !.value = db]
  <2>2. x.start = req[r].start /\ x.phase = "read" /\ x.value = db BY <2>1 DEF Request
  <2>3. req' = [req EXCEPT ![r] = x] BY <1>5 DEF Read
  <2>. HIDE DEF x
  <2>4. StaleRequest(x) BY <2>1, <2>2, <1>0 DEF StaleRequest
  <2>. QED BY <1>5, <2>4, <2>3, StaleStep DEF Read, redis, history
<1>6. ASSUME NEW r \in Readers, Put(r) PROVE StaleInv'
  <2>1. /\ req[r] \in Request /\ StaleRequest(req[r])
        /\ req[r].start \in Nat /\ req[r].value \in Nat
    BY <1>6, <1>00 DEF Put
  <2>2. ASSUME NEW n \in 1..db, n > req[r].value
        PROVE  req[r].start <= wrote[n] /\ now <= wrote[n] + Latency
    BY <1>6, <1>0, <2>1, <2>2 DEF Put, StaleRequest
  <2> DEFINE x == [req[r] EXCEPT !.phase = "answered"]
  <2>3. x.start = req[r].start /\ x.phase = "answered" /\ x.value = req[r].value
    BY <2>1 DEF Request
  <2>4. req' = [req EXCEPT ![r] = x] BY <1>6 DEF Put
  <2>. HIDE DEF x
  <2>5. StaleRequest(x) BY <2>1, <2>2, <2>3, <1>0 DEF StaleRequest
  <2>6. ASSUME NEW v \in Versions PROVE entries'[v] = entries[v] \/ StaleEntry(v)'
    <3>1. CASE v = req[r].key
               /\ entries' = [entries EXCEPT ![req[r].key] = [value |-> req[r].value, expires |-> Expiry]]
      <4>1. entries'[v].value = req[r].value /\ entries'[v].expires = now + TTL
        BY <3>1, <2>1 DEF TypeOK, Contents, Expiry
      <4>2. now' = now /\ db' = db /\ wrote' = wrote BY <1>6 DEF Put, history
      <4>. QED BY <2>2, <4>1, <4>2, <1>0 DEF StaleEntry
    <3>. QED BY <1>6, <3>1 DEF Put, TypeOK, Contents
  <2>. QED BY <1>6, <2>4, <2>5, <2>6, StaleStep DEF Put, history
<1>7. ASSUME NEW r \in Readers, End(r) PROVE StaleInv'
  BY <1>7, StaleStep DEF End, redis, history
<1>8. CASE Commit
  <2>1. db' = db + 1 /\ now' = now /\ req' = req /\ entries' = entries /\ db < MaxWrites
    BY <1>8 DEF Commit, redis
  <2>2. \A n \in 1..db' : IF n = db' THEN wrote'[n] = now ELSE n \in 1..db /\ wrote'[n] = wrote[n]
    BY <1>8, <2>1, <1>0 DEF Commit, TypeOK
  <2>3. ASSUME NEW v \in Versions, entries'[v] # NoEntry PROVE StaleEntry(v)'
    <3>1. StaleEntry(v) /\ entries'[v] = entries[v] BY <2>1, <2>3 DEF StaleInv
    <3>2. entries[v].expires \in Nat
      BY <2>1, <2>3 DEF TypeOK, Contents, Entry, CacheAssumption
    <3>. QED BY <2>1, <2>2, <3>1, <3>2, <1>0 DEF StaleEntry
  <2>4. ASSUME NEW r \in Readers, req'[r] # Idle PROVE StaleRequest(req[r])'
    <3>1. StaleRequest(req[r]) /\ req'[r] = req[r] BY <2>1, <2>4 DEF StaleInv
    <3>2. req[r].start \in Nat BY <2>1, <2>4 DEF TypeOK, Request, Times, CacheAssumption
    <3>. QED BY <2>1, <2>2, <3>1, <3>2, <1>0 DEF StaleRequest
  <2>. QED BY <2>3, <2>4 DEF StaleInv
<1>9. CASE Invalidate \/ InvalidateFails
  BY <1>9 DEF Invalidate, InvalidateFails, redis, history, StaleInv, StaleEntry, StaleRequest
<1>11. CASE Crash
  <2>1. \A v \in Versions : entries'[v] # NoEntry => entries'[v] = entries[v] BY <1>11 DEF Crash
  <2>. QED BY <1>11, <2>1 DEF Crash, history, StaleInv, StaleEntry, StaleRequest
<1>12. CASE Tick
  <2>1. now' = now + 1 /\ req' = req /\ db' = db /\ wrote' = wrote BY <1>12 DEF Tick, history
  <2>2. ASSUME NEW v \in Versions, entries'[v] # NoEntry PROVE StaleEntry(v)'
    <3>1. entries'[v] = entries[v] /\ Alive(entries[v], now + 1)
      BY <1>12, <2>2 DEF Tick, Unexpired
    <3>2. entries[v].expires \in Nat /\ StaleEntry(v)
      BY <3>1, <2>2 DEF TypeOK, Contents, Entry, CacheAssumption, StaleInv
    <3>. QED BY <2>1, <3>1, <3>2, <1>0 DEF StaleEntry, Alive
  <2>3. ASSUME NEW r \in Readers, req'[r] # Idle PROVE StaleRequest(req[r])'
    <3>1. StaleRequest(req[r]) /\ now < req[r].start + Latency
      BY <1>12, <2>1, <2>3 DEF StaleInv, Tick
    <3>2. req[r].start \in Nat BY <2>1, <2>3 DEF TypeOK, Request, Times, CacheAssumption
    <3>. QED BY <2>1, <3>1, <3>2, <1>0 DEF StaleRequest
  <2>. QED BY <2>2, <2>3 DEF StaleInv
<1>13. CASE UNCHANGED vars BY <1>13 DEF vars, StaleInv, StaleEntry, StaleRequest
<1>. QED
  BY <1>1, <1>2, <1>3, <1>5, <1>6, <1>7, <1>8, <1>9, <1>11, <1>12, <1>13 DEF Next

-----------------------------------------------------------------------------
(* What holds in every reachable state. *)
Inv == TypeOK /\ VersionInv /\ KeyInv /\ SettledInv /\ FreshInv /\ StaleInv

(* The invariant is inductive. *)
LEMMA InvHolds == ASSUME CacheAssumption PROVE Spec => []Inv
<1>1. Init => Inv
  <2>. SUFFICES ASSUME Init PROVE Inv OBVIOUS
  <2>1. TypeOK
    BY DEF Init, TypeOK, CacheAssumption, Values, Versions, Times, Contents, NoEntries
  <2>2. VersionInv /\ KeyInv BY DEF Init, VersionInv, KeyInv, Idle
  <2>3. SettledInv BY DEF Init, SettledInv
  <2>4. FreshInv /\ StaleInv BY DEF Init, FreshInv, StaleInv, NoEntries
  <2>. QED BY <2>1, <2>2, <2>3, <2>4 DEF Inv
<1>2. Inv /\ [Next]_vars => Inv'
  BY TypeInductive, AuxInductive, SettledInductive, FreshInductive, StaleInductive DEF Inv
<1>. QED BY <1>1, <1>2, PTL DEF Spec

(* The variables keep their types: no increment without a mutation, no entry
   or key of a version that does not exist. *)
THEOREM TypeCorrect == Spec => []TypeOK
<1>1. Inv => TypeOK BY DEF Inv
<1>. QED BY <1>1, InvHolds, CacheAssumption, PTL

(* While Redis keeps its data, no response is older than the last invalidation
   before its request. *)
THEOREM Fresh == Spec => []FreshAfterInvalidation
<1>1. Inv => FreshAfterInvalidation
  <2>. SUFFICES ASSUME Inv, NEW r \in Readers, Answered(r), crashes = 0
                PROVE  req[r].value >= req[r].floor
    BY DEF FreshAfterInvalidation
  <2>1. FreshRequest(req[r]) BY DEF Answered, Inv, FreshInv
  <2>2. req[r] \in Request BY DEF Answered, Inv, TypeOK
  <2>. QED BY <2>1, <2>2, CacheAssumption DEF Answered, FreshRequest, Request, Values, CacheAssumption
<1>. QED BY <1>1, InvHolds, CacheAssumption, PTL

(* Failed invalidations and restarts of Redis leave no response behind for
   longer than the life of an entry and of the request that stored it. *)
THEOREM Stale == Spec => []StaleWithinTTL
<1>1. Inv => StaleWithinTTL
  <2>. SUFFICES ASSUME Inv, NEW r \in Readers, Answered(r), NEW n \in 1..db,
                       req[r].start > wrote[n] + TTL + Latency
                PROVE  req[r].value >= n
    BY DEF StaleWithinTTL
  <2>1. StaleRequest(req[r]) BY DEF Answered, Inv, StaleInv
  <2>2. req[r] \in Request BY DEF Answered, Inv, TypeOK
  <2>3. /\ n \in Nat /\ wrote[n] \in Nat /\ TTL \in Nat /\ Latency \in Nat
        /\ req[r].start \in Nat /\ req[r].value \in Nat
    BY <2>2, CacheAssumption DEF CacheAssumption, Inv, TypeOK, Values, Times, Request
  <2>. QED BY <2>1, <2>3 DEF Answered, StaleRequest
<1>. QED BY <1>1, InvHolds, CacheAssumption, PTL
=============================================================================
