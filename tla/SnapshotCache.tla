--------------------------- MODULE SnapshotCache ---------------------------
(***************************************************************************)
(* web/store.py: request threads over one SnapshotCache.  get() first      *)
(* looks at the snapshot, the clock, the load time and the back-off time   *)
(* without the lock, one read at a time; then under the lock it looks      *)
(* again and, if still stale, runs the loader, whose three queries are     *)
(* three statements of a READ COMMITTED transaction.  The tables change    *)
(* under it (the pipeline commits) and the database may be unreachable.    *)
(***************************************************************************)
EXTENDS Naturals, FiniteSets

CONSTANTS
    Threads,      \* worker threads of the web server
    Ttl,          \* CACHE_TTL_SECONDS
    Backoff,      \* RETRY_BACKOFF_SECONDS
    MaxClock,     \* bound on the clock
    MaxCommits,   \* bound on commits of the pipeline
    MaxRequests,  \* bound on requests per thread
    NoSnapshot, NoThread, NotAsked, Unavailable

ASSUME TimesAssumption == Ttl \in Nat \ {0} /\ Backoff \in Nat \ {0}
ASSUME BoundsAssumption ==
    /\ MaxClock \in Nat /\ Ttl <= MaxClock
    /\ MaxCommits \in Nat /\ MaxRequests \in Nat
ASSUME NoThreadAssumption == NoThread \notin Threads

VARIABLES
    clock,          \* time.monotonic()
    version,        \* commits of the pipeline so far: the state of the tables
    up,             \* whether the database answers
    snapshot,       \* self._snapshot
    loadedAt,       \* self._loaded_at
    nextAttemptAt,  \* self._next_attempt_at
    lock,           \* holder of self._lock
    pc,             \* where each thread is in get()
    now,            \* the clock reading of its unlocked check
    loading,        \* what the lock holder's loader has read so far
    requests,       \* requests handled so far, bounded
    asked,          \* history: the snapshot when the pending request arrived, or NotAsked
    askedAt,        \* history: the clock when the pending request arrived
    failedAt,       \* history: when the last refresh failed (0: never)
    answer          \* the last answer given: a snapshot or Unavailable (503)

dbVars    == <<clock, version, up>>
cacheVars == <<snapshot, loadedAt, nextAttemptAt>>
vars == <<dbVars, cacheVars, lock, pc, now, loading, requests, asked, askedAt, failedAt, answer>>

Time     == 0..(MaxClock + Backoff)
Versions == 0..MaxCommits
Snapshot == [roles : Versions, stats : Versions, arrivals : Versions]
NotRead  == [roles |-> 0, stats |-> 0, arrivals |-> 0]

(* None, no pending request and a 503 are no snapshots.                    *)
ASSUME MarkersAssumption ==
    /\ NoSnapshot \notin Snapshot
    /\ NotAsked \notin Snapshot \cup {NoSnapshot}
    /\ Unavailable \notin Snapshot \cup {NoSnapshot}

CacheTypeOK ==
    /\ clock \in Time /\ version \in Versions /\ up \in BOOLEAN
    /\ snapshot \in Snapshot \cup {NoSnapshot}
    /\ loadedAt \in Time /\ nextAttemptAt \in Time /\ failedAt \in Time
    /\ lock \in Threads \cup {NoThread}
    /\ pc \in [Threads -> {"idle", "clock", "ttl", "backoff", "serve", "wait",
                           "roles", "stats", "arrivals", "install", "stamp"}]
    /\ now \in [Threads -> Time] /\ askedAt \in [Threads -> Time]
    /\ loading \in Snapshot
    /\ requests \in [Threads -> 0..MaxRequests]
    /\ asked \in [Threads -> Snapshot \cup {NoSnapshot, NotAsked}]
    /\ answer \in Snapshot \cup {Unavailable}
    /\ \A t \in Threads : asked[t] = NotAsked <=> pc[t] = "idle"
    /\ \A t \in Threads : (lock = t) <=>
          pc[t] \in {"roles", "stats", "arrivals", "install", "stamp"}

(* time.monotonic() has an arbitrary origin: at the start of the service   *)
(* it may read less or more than a time to live.                           *)
CacheInit ==
    /\ clock \in {0, Ttl} /\ version = 0 /\ up \in BOOLEAN
    /\ snapshot = NoSnapshot /\ loadedAt = 0 /\ nextAttemptAt = 0
    /\ lock = NoThread /\ pc = [t \in Threads |-> "idle"]
    /\ now = [t \in Threads |-> 0] /\ loading = NotRead
    /\ requests = [t \in Threads |-> 0]
    /\ asked = [t \in Threads |-> NotAsked] /\ askedAt = [t \in Threads |-> 0]
    /\ failedAt = 0 /\ answer = Unavailable

Goto(t, l) == pc' = [pc EXCEPT ![t] = l]

(***************************************************************************)
(* The surroundings: time, the pipeline, the database, the routes.         *)
(***************************************************************************)
Tick ==
    /\ clock < MaxClock
    /\ clock' = clock + 1
    /\ UNCHANGED <<version, up, cacheVars, lock, pc, now, loading, requests, asked, askedAt, failedAt, answer>>

PipelineCommits ==
    /\ version < MaxCommits
    /\ version' = version + 1
    /\ UNCHANGED <<clock, up, cacheVars, lock, pc, now, loading, requests, asked, askedAt, failedAt, answer>>

DatabaseToggles ==
    /\ up' = ~up
    /\ UNCHANGED <<clock, version, cacheVars, lock, pc, now, loading, requests, asked, askedAt, failedAt, answer>>

(* Every route starts with snapshot_or_503().                              *)
Request(t) ==
    /\ pc[t] = "idle" /\ requests[t] < MaxRequests
    /\ requests' = [requests EXCEPT ![t] = @ + 1]
    /\ asked' = [asked EXCEPT ![t] = snapshot]
    /\ askedAt' = [askedAt EXCEPT ![t] = clock]
    /\ Goto(t, "clock")
    /\ UNCHANGED <<dbVars, cacheVars, lock, now, loading, failedAt, answer>>

(***************************************************************************)
(* get() before the lock: _is_fresh, one attribute at a time.              *)
(***************************************************************************)
ReadClock(t) ==
    /\ pc[t] = "clock"
    /\ IF snapshot = NoSnapshot
       THEN Goto(t, "wait") /\ UNCHANGED now
       ELSE Goto(t, "ttl") /\ now' = [now EXCEPT ![t] = clock]
    /\ UNCHANGED <<dbVars, cacheVars, lock, loading, requests, asked, askedAt, failedAt, answer>>

(* Mutated form: one tick too long.                                        *)
YoungOrAtLimit(n) == n <= loadedAt + Ttl

(* now - loaded_at < ttl, without a negative difference                    *)
Young(n) == n < loadedAt + Ttl

ReadLoadedAt(t) ==
    /\ pc[t] = "ttl"
    /\ Goto(t, IF Young(now[t]) THEN "serve" ELSE "backoff")
    /\ UNCHANGED <<dbVars, cacheVars, lock, now, loading, requests, asked, askedAt, failedAt, answer>>

ReadBackoff(t) ==
    /\ pc[t] = "backoff"
    /\ Goto(t, IF now[t] < nextAttemptAt THEN "serve" ELSE "wait")
    /\ UNCHANGED <<dbVars, cacheVars, lock, now, loading, requests, asked, askedAt, failedAt, answer>>

(* The request leaves: its locals and its history are forgotten.           *)
Respond(t, a) ==
    /\ answer' = a
    /\ asked' = [asked EXCEPT ![t] = NotAsked]
    /\ askedAt' = [askedAt EXCEPT ![t] = 0]
    /\ now' = [now EXCEPT ![t] = 0]
    /\ Goto(t, "idle")

ServeUnlocked(t) ==
    /\ pc[t] = "serve"
    /\ Respond(t, snapshot)
    /\ UNCHANGED <<dbVars, cacheVars, lock, loading, requests, failedAt>>

(* Mutated form: the lock holder looks only at the back-off.               *)
StillBackingOff == snapshot # NoSnapshot /\ clock < nextAttemptAt

(***************************************************************************)
(* get() under the lock.  Only the holder writes the three attributes, so  *)
(* the second check is one step; the clock is read once in it.             *)
(***************************************************************************)
IsFresh == snapshot # NoSnapshot /\ (Young(clock) \/ clock < nextAttemptAt)

ServeLocked(t) ==
    /\ pc[t] = "wait" /\ lock = NoThread
    /\ IsFresh
    /\ Respond(t, snapshot)
    /\ UNCHANGED <<dbVars, cacheVars, lock, loading, requests, failedAt>>

BeginLoad(t) ==
    /\ pc[t] = "wait" /\ lock = NoThread
    /\ ~IsFresh
    /\ lock' = t
    /\ Goto(t, "roles")
    /\ UNCHANGED <<dbVars, cacheVars, now, loading, requests, asked, askedAt, failedAt, answer>>

(* One statement of the loader; each sees the commits made before it.      *)
Statement(t, part, next) ==
    /\ pc[t] = part /\ up
    /\ loading' = [loading EXCEPT ![part] = version]
    /\ Goto(t, next)
    /\ UNCHANGED <<dbVars, cacheVars, lock, now, requests, asked, askedAt, failedAt, answer>>

FetchRoles(t)    == Statement(t, "roles", "stats")
FetchStats(t)    == Statement(t, "stats", "arrivals")
FetchArrivals(t) == Statement(t, "arrivals", "install")

(* Mutated form: the lock is not released.                                 *)
KeepLock == UNCHANGED lock

(* Leaving the with block, by return or by raise.                          *)
Release == lock' = NoThread

(* Mutated form: a failed refresh is always an error.                      *)
AlwaysRaise == TRUE
NothingToServe == snapshot = NoSnapshot

(* The except branch: raise if there is nothing to serve, otherwise put    *)
(* the next attempt off and serve what there is.                           *)
LoadFails(t) ==
    /\ pc[t] \in {"roles", "stats", "arrivals"} /\ ~up
    /\ Release
    /\ IF NothingToServe
       THEN Respond(t, Unavailable) /\ UNCHANGED <<nextAttemptAt, failedAt>>
       ELSE /\ Respond(t, snapshot)
            /\ nextAttemptAt' = clock + Backoff
            /\ failedAt' = clock
    /\ loading' = NotRead
    /\ UNCHANGED <<dbVars, snapshot, loadedAt, requests>>

(* self._snapshot = snapshot, then self._loaded_at = clock(): two writes   *)
(* that an unlocked check may fall between.                                *)
Install(t) ==
    /\ pc[t] = "install"
    /\ snapshot' = loading
    /\ Goto(t, "stamp")
    /\ UNCHANGED <<dbVars, loadedAt, nextAttemptAt, lock, now, loading, requests, asked, askedAt, failedAt, answer>>

Stamp(t) ==
    /\ pc[t] = "stamp"
    /\ loadedAt' = clock
    /\ Release
    /\ Respond(t, loading)
    /\ loading' = NotRead
    /\ UNCHANGED <<dbVars, snapshot, nextAttemptAt, requests, failedAt>>

ThreadStep(t) ==
    \/ ReadClock(t) \/ ReadLoadedAt(t) \/ ReadBackoff(t) \/ ServeUnlocked(t)
    \/ ServeLocked(t) \/ BeginLoad(t)
    \/ FetchRoles(t) \/ FetchStats(t) \/ FetchArrivals(t)
    \/ LoadFails(t) \/ Install(t) \/ Stamp(t)

CacheNext ==
    \/ Tick \/ PipelineCommits \/ DatabaseToggles
    \/ \E t \in Threads : Request(t) \/ ThreadStep(t)

CacheSpec == CacheInit /\ [][CacheNext]_vars

(* A thread that can take a step takes one: queries end in a result or in  *)
(* a time-out.  Requests are bounded, so no thread is passed by for ever   *)
(* at the lock.  Nothing is assumed of clock, pipeline and database.       *)
CacheFairness == \A t \in Threads : WF_vars(ThreadStep(t))

-----------------------------------------------------------------------------
(* RETRY_BACKOFF_SECONDS and the second check: once there is a snapshot,   *)
(* a load begins only if the last successful one ended a time to live ago  *)
(* and the last failed one a back-off ago, however many threads found the  *)
(* snapshot stale at the same moment.                                      *)
RefreshesAreSpaced ==
    [][\A t \in Threads :
         lock = NoThread /\ lock' = t /\ snapshot # NoSnapshot
           => /\ clock >= loadedAt + Ttl
              /\ failedAt # 0 => clock >= failedAt + Backoff]_vars

(* An answered request saw a snapshot that was younger than a time to live *)
(* when it asked, or a refresh had failed less than a back-off before.     *)
(* `Recent` is evaluated in the step that answers, by whatever branch.     *)
Recent(t) ==
    \/ answer' = Unavailable
    \/ askedAt[t] < loadedAt' + Ttl
    \/ failedAt' # 0 /\ askedAt[t] < failedAt' + Backoff

AnswersAreRecent ==
    [][\A t \in Threads : asked[t] # NotAsked /\ asked'[t] = NotAsked => Recent(t)]_vars

(* The cache keeps the promise of SnapshotService: an answer is at least   *)
(* as new as anything that was published when its request arrived, and a   *)
(* 503 means nothing had been.                                             *)
Service == INSTANCE SnapshotService WITH published <- snapshot

KeepsServicePromise == Service!ServiceSpec

(* Every request is answered, with a snapshot or a 503, whatever the       *)
(* database does.                                                          *)
EveryRequestIsAnswered ==
    \A t \in Threads : (asked[t] # NotAsked) ~> (asked[t] = NotAsked)
=============================================================================
