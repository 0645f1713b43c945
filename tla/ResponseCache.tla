--------------------------- MODULE ResponseCache ---------------------------
(***************************************************************************)
(* The cache of GET responses.  Its key contains a version, which a GET    *)
(* reads before it reads the database and every mutation increments after  *)
(* it has committed: what was stored under an older version is never found *)
(* again.  Redis may fail any call, and may come back with an older state. *)
(*                                                                         *)
(* One endpoint, caller and URL: other ones share nothing but the version. *)
(* The data is the number of mutations committed so far.                   *)
(***************************************************************************)
EXTENDS Naturals

CONSTANTS
  Readers,    \* GET requests at a time
  NoKey,      \* the key when Redis did not tell the version
  NoEntry,
  TTL,        \* ticks an entry lives, 30 s
  Latency,    \* ticks a request may take, 30 s
  MaxWrites,  \* bound: mutations
  MaxTime,    \* bound: the clock
  MaxCrashes  \* bound: restarts of Redis

ASSUME CacheAssumption ==
  /\ TTL \in Nat \ {0} /\ Latency \in Nat
  /\ MaxWrites \in Nat /\ MaxTime \in Nat /\ MaxCrashes \in Nat
  /\ NoKey \notin Nat

VARIABLES
  db,       \* mutations committed
  owed,     \* those whose invalidation is still to come
  version,  \* "cache:version"
  entries,  \* what is stored under each version
  req,      \* the GET requests
  now,
  crashes,  \* bound: restarts so far
  settled,  \* history: what was committed when a version began
  wrote     \* history: when a mutation was committed

redis == <<version, entries>>
history == <<settled, wrote>>
vars == <<db, owed, version, entries, req, now, crashes, settled, wrote>>

-----------------------------------------------------------------------------

Values == 0..MaxWrites
Versions == 0..MaxWrites
Times == 0..MaxTime
Entry == [value : Values, expires : 0..(MaxTime + TTL)]
NoEntries == [v \in Versions |-> NoEntry]
Contents == [Versions -> Entry \union {NoEntry}]
\* floor is what was committed when the current version began as it started.
Request ==
  [phase : {"arrived", "keyed", "missed", "read", "answered"}, key : Versions \union {NoKey},
   value : Values, start : Times, floor : Values]
Idle == [phase |-> "idle"]

TypeOK ==
  /\ db \in Values /\ owed \in 0..db
  /\ version \in Versions
  /\ entries \in Contents
  /\ req \in [Readers -> {Idle} \union Request]
  /\ now \in Times /\ crashes \in 0..MaxCrashes
  /\ settled \in [Versions -> Values]
  /\ wrote \in [1..MaxWrites -> Times]

Init ==
  /\ db = 0 /\ owed = 0
  /\ version = 0 /\ entries = NoEntries
  /\ req = [r \in Readers |-> Idle]
  /\ now = 0 /\ crashes = 0
  /\ settled = [v \in Versions |-> 0]
  /\ wrote = [n \in 1..MaxWrites |-> 0]

\* An entry that has not expired at time t.
Alive(e, t) == e # NoEntry /\ t < e.expires
Unexpired(content, t) == [v \in Versions |-> IF Alive(content[v], t) THEN content[v] ELSE NoEntry]

-----------------------------------------------------------------------------
(* A GET request.                                                          *)

\* It is authorized against the database, whatever the cache may hold.
Arrive(r) ==
  /\ req[r] = Idle
  /\ req' = [req EXCEPT ![r] = [phase |-> "arrived", key |-> NoKey, value |-> 0,
                                start |-> now, floor |-> settled[version]]]
  /\ UNCHANGED <<db, owed, redis, now, crashes, history>>

\* Without a version the request is served as if there were no cache.
Key(r) ==
  /\ req[r].phase = "arrived"
  /\ \/ req' = [req EXCEPT ![r].phase = "keyed", ![r].key = version]
     \/ req' = [req EXCEPT ![r].phase = "missed"]
  /\ UNCHANGED <<db, owed, redis, now, crashes, history>>

Hit(r) ==
  /\ req[r].phase = "keyed" /\ entries[req[r].key] # NoEntry
  /\ req' = [req EXCEPT ![r].phase = "answered", ![r].value = entries[req[r].key].value]
  /\ UNCHANGED <<db, owed, redis, now, crashes, history>>

\* Nothing is found, or Redis fails: the key is kept for Put either way.
Miss(r) ==
  /\ req[r].phase = "keyed"
  /\ req' = [req EXCEPT ![r].phase = "missed"]
  /\ UNCHANGED <<db, owed, redis, now, crashes, history>>

\* The handler.
Read(r) ==
  /\ req[r].phase = "missed"
  /\ req' = [req EXCEPT ![r].phase = "read", ![r].value = db]
  /\ UNCHANGED <<db, owed, redis, now, crashes, history>>

\* Mutant: entries are stored for good.
ExpiryNever == MaxTime + TTL

Expiry == now + TTL

\* Mutant: the version is read again for Put.
PutUnderCurrent(r) ==
  /\ req[r].phase = "read"
  /\ entries' = [entries EXCEPT ![version] = [value |-> req[r].value, expires |-> Expiry]]
  /\ req' = [req EXCEPT ![r].phase = "answered"]
  /\ UNCHANGED <<db, owed, version, now, crashes, history>>

\* Put may fail.
Put(r) ==
  /\ req[r].phase = "read"
  /\ \/ /\ req[r].key # NoKey
        /\ entries' = [entries EXCEPT ![req[r].key] = [value |-> req[r].value, expires |-> Expiry]]
     \/ UNCHANGED entries
  /\ req' = [req EXCEPT ![r].phase = "answered"]
  /\ UNCHANGED <<db, owed, version, now, crashes, history>>

\* The response is sent, or the request fails or runs out of time before.
End(r) ==
  /\ req[r] # Idle
  /\ req' = [req EXCEPT ![r] = Idle]
  /\ UNCHANGED <<db, owed, redis, now, crashes, history>>

-----------------------------------------------------------------------------
(* A mutation.                                                             *)

Commit ==
  /\ db < MaxWrites
  /\ db' = db + 1 /\ owed' = owed + 1
  /\ wrote' = [wrote EXCEPT ![db + 1] = now]
  /\ UNCHANGED <<redis, req, now, crashes, settled>>

\* Mutant: every request invalidates, GETs too.
InvalidateAlways ==
  /\ version' = version + 1
  /\ settled' = [settled EXCEPT ![version + 1] = db]
  /\ UNCHANGED <<db, owed, entries, req, now, crashes, wrote>>

\* With several mutations in flight one increment covers all committed ones.
Invalidate ==
  /\ owed > 0 /\ owed' = owed - 1
  /\ version' = version + 1
  /\ settled' = [settled EXCEPT ![version + 1] = db]
  /\ UNCHANGED <<db, entries, req, now, crashes, wrote>>

\* Redis fails, the client goes away, the process dies, or the mutation was
\* made by a command that knows nothing of the cache.
InvalidateFails ==
  /\ owed > 0 /\ owed' = owed - 1
  /\ UNCHANGED <<db, redis, req, now, crashes, history>>

-----------------------------------------------------------------------------
(* Redis and time.                                                         *)

\* Redis restarts from its last snapshot: with an older version and some of
\* the entries.  (One that has been replaced since is not brought back.)
Crash ==
  /\ crashes < MaxCrashes /\ crashes' = crashes + 1
  /\ version' \in 0..version
  /\ \E kept \in SUBSET Versions :
       entries' = [v \in Versions |-> IF v \in kept THEN entries[v] ELSE NoEntry]
  /\ UNCHANGED <<db, owed, req, now, history>>

\* A request that has taken Latency ticks has been cancelled.
Tick ==
  /\ now < MaxTime /\ now' = now + 1
  /\ \A r \in Readers : req[r] # Idle => now < req[r].start + Latency
  /\ entries' = Unexpired(entries, now + 1)
  /\ UNCHANGED <<db, owed, version, req, crashes, history>>

-----------------------------------------------------------------------------

Next ==
  \/ \E r \in Readers : Arrive(r) \/ Key(r) \/ Hit(r) \/ Miss(r) \/ Read(r) \/ Put(r) \/ End(r)
  \/ Commit \/ Invalidate \/ InvalidateFails
  \/ Crash \/ Tick

Spec == Init /\ [][Next]_vars

-----------------------------------------------------------------------------
(* Properties.                                                             *)

Answered(r) == req[r] # Idle /\ req[r].phase = "answered"

(* A response shows every mutation that was committed before an invalidation
   that succeeded before the request arrived, in whatever order versions are
   read, rows are read, entries are stored and versions are incremented, while
   Redis keeps its data (httpapi/registration.go register; cache.go). *)
FreshAfterInvalidation ==
  \A r \in Readers : Answered(r) /\ crashes = 0 => req[r].value >= req[r].floor

(* A failed invalidation, or a Redis that forgets one, leaves old responses
   behind for the life of an entry and no longer: a request that arrives later
   than TTL and Latency after a mutation shows it (docs/OPERATIONS.md:25). *)
StaleWithinTTL ==
  \A r \in Readers : Answered(r) =>
    \A n \in 1..db : req[r].start > wrote[n] + TTL + Latency => req[r].value >= n
=============================================================================
