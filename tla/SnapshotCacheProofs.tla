------------------------ MODULE SnapshotCacheProofs ------------------------
(***************************************************************************)
(* Theorems about SnapshotCache, for every set of threads, every time to   *)
(* live and back-off, and every value of the bounds.                       *)
(***************************************************************************)
EXTENDS SnapshotCache, TLAPS

(* Where a thread has found a snapshot and is deciding whether to use it;  *)
(* where the lock holder's loader is.                                      *)
Checking == {"ttl", "backoff", "serve"}
Querying == {"roles", "stats", "arrivals"}

(* The clock never runs backwards, so times that were read or written are  *)
(* past; a back-off is there exactly when a refresh has failed.            *)
TimesOK ==
    /\ clock <= MaxClock /\ loadedAt <= clock /\ failedAt <= clock
    /\ nextAttemptAt = IF failedAt = 0 THEN 0 ELSE failedAt + Backoff
    /\ \A t \in Threads : askedAt[t] <= clock
    /\ \A t \in Threads : pc[t] \in {"ttl", "backoff"} => askedAt[t] <= now[t]

(* A request that asked when the snapshot was fresh, or backing off.       *)
AskedRecently(t) ==
    \/ askedAt[t] < loadedAt + Ttl
    \/ failedAt # 0 /\ askedAt[t] < failedAt + Backoff

(* A thread that serves without the lock has a snapshot to serve, and one  *)
(* that loads although there is a snapshot found it expired.               *)
ChecksOK ==
    \A t \in Threads :
        /\ pc[t] \in Checking => snapshot # NoSnapshot
        /\ pc[t] = "serve" => AskedRecently(t)
        /\ pc[t] \in Querying /\ snapshot # NoSnapshot => loadedAt + Ttl <= clock

(* Versions of the tables: what was served is no newer than they are, what *)
(* is being read is no older than what is served, and no request is        *)
(* pending that could have seen more than is served now.                   *)
Past(s) == s.roles <= version /\ s.stats <= version /\ s.arrivals <= version

VersionsOK ==
    /\ snapshot # NoSnapshot => Past(snapshot)
    /\ Past(loading)
    /\ \A t \in Threads :
          /\ asked[t] # NotAsked => Service!AtLeast(snapshot, asked[t])
          /\ snapshot # NoSnapshot =>
                /\ pc[t] \in {"stats", "arrivals", "install"} => snapshot.roles <= loading.roles
                /\ pc[t] \in {"arrivals", "install"} => snapshot.stats <= loading.stats
                /\ pc[t] = "install" => snapshot.arrivals <= loading.arrivals
          /\ pc[t] = "stamp" => snapshot = loading

CacheInv == CacheTypeOK /\ TimesOK /\ ChecksOK /\ VersionsOK

-----------------------------------------------------------------------------
LEMMA TypeInit == CacheInit => CacheTypeOK
BY TimesAssumption, BoundsAssumption, NoThreadAssumption, MarkersAssumption
   DEF CacheInit, CacheTypeOK, Time, Versions, Snapshot, NotRead

(* The times written are the clock's, and what is answered was there.      *)
LEMMA TypeStep ==
    ASSUME CacheTypeOK, TimesOK, ChecksOK, [CacheNext]_vars
    PROVE  CacheTypeOK'
<1> USE TimesAssumption, BoundsAssumption, NoThreadAssumption, MarkersAssumption
    DEF CacheTypeOK, TimesOK, Time, dbVars, cacheVars
<1>1. CASE UNCHANGED vars
  BY <1>1 DEF vars
<1>2. CASE Tick
  BY <1>2 DEF Tick
<1>3. CASE PipelineCommits
  BY <1>3 DEF PipelineCommits, Versions
<1>4. CASE DatabaseToggles
  BY <1>4 DEF DatabaseToggles
<1>5. ASSUME NEW t \in Threads, Request(t) PROVE CacheTypeOK'
  BY <1>5 DEF Request, Goto
<1>6. ASSUME NEW t \in Threads, ReadClock(t) PROVE CacheTypeOK'
  BY <1>6 DEF ReadClock, Goto
<1>7. ASSUME NEW t \in Threads, ReadLoadedAt(t) PROVE CacheTypeOK'
  BY <1>7 DEF ReadLoadedAt, Goto
<1>8. ASSUME NEW t \in Threads, ReadBackoff(t) PROVE CacheTypeOK'
  BY <1>8 DEF ReadBackoff, Goto
<1>9. ASSUME NEW t \in Threads, ServeUnlocked(t) PROVE CacheTypeOK'
  BY <1>9 DEF ServeUnlocked, Respond, Goto, ChecksOK, Checking
<1>10. ASSUME NEW t \in Threads, ServeLocked(t) PROVE CacheTypeOK'
  BY <1>10 DEF ServeLocked, Respond, Goto, IsFresh
<1>11. ASSUME NEW t \in Threads, BeginLoad(t) PROVE CacheTypeOK'
  BY <1>11 DEF BeginLoad, Goto
<1>12. ASSUME NEW t \in Threads, FetchRoles(t) PROVE CacheTypeOK'
  BY <1>12 DEF FetchRoles, Statement, Goto, Snapshot
<1>13. ASSUME NEW t \in Threads, FetchStats(t) PROVE CacheTypeOK'
  BY <1>13 DEF FetchStats, Statement, Goto, Snapshot
<1>14. ASSUME NEW t \in Threads, FetchArrivals(t) PROVE CacheTypeOK'
  BY <1>14 DEF FetchArrivals, Statement, Goto, Snapshot
<1>15. ASSUME NEW t \in Threads, LoadFails(t) PROVE CacheTypeOK'
  BY <1>15 DEF LoadFails, Release, NothingToServe, Respond, Goto, NotRead, Snapshot, Versions
<1>16. ASSUME NEW t \in Threads, Install(t) PROVE CacheTypeOK'
  BY <1>16 DEF Install, Goto
<1>17. ASSUME NEW t \in Threads, Stamp(t) PROVE CacheTypeOK'
  BY <1>17 DEF Stamp, Release, Respond, Goto, NotRead, Snapshot, Versions
<1> QED BY <1>1, <1>2, <1>3, <1>4, <1>5, <1>6, <1>7, <1>8, <1>9, <1>10, <1>11, <1>12, <1>13,
          <1>14, <1>15, <1>16, <1>17 DEF CacheNext, ThreadStep

(* A back-off follows a refresh of an expired snapshot, so the clock is     *)
(* past 0 by then.                                                         *)
LEMMA TimesStep ==
    ASSUME CacheTypeOK, TimesOK, ChecksOK, [CacheNext]_vars
    PROVE  TimesOK'
<1> USE TimesAssumption, BoundsAssumption, NoThreadAssumption
    DEF CacheTypeOK, TimesOK, Time, dbVars, cacheVars
<1>1. CASE UNCHANGED vars
  BY <1>1 DEF vars
<1>2. CASE Tick
  BY <1>2 DEF Tick
<1>3. CASE PipelineCommits
  BY <1>3 DEF PipelineCommits
<1>4. CASE DatabaseToggles
  BY <1>4 DEF DatabaseToggles
<1>5. ASSUME NEW t \in Threads, Request(t) PROVE TimesOK'
  BY <1>5 DEF Request, Goto
<1>6. ASSUME NEW t \in Threads, ReadClock(t) PROVE TimesOK'
  BY <1>6 DEF ReadClock, Goto
<1>7. ASSUME NEW t \in Threads, ReadLoadedAt(t) PROVE TimesOK'
  BY <1>7 DEF ReadLoadedAt, Goto
<1>8. ASSUME NEW t \in Threads, ReadBackoff(t) PROVE TimesOK'
  BY <1>8 DEF ReadBackoff, Goto
<1>9. ASSUME NEW t \in Threads, ServeUnlocked(t) PROVE TimesOK'
  BY <1>9 DEF ServeUnlocked, Respond, Goto
<1>10. ASSUME NEW t \in Threads, ServeLocked(t) PROVE TimesOK'
  BY <1>10 DEF ServeLocked, Respond, Goto
<1>11. ASSUME NEW t \in Threads, BeginLoad(t) PROVE TimesOK'
  BY <1>11 DEF BeginLoad, Goto
<1>12. ASSUME NEW t \in Threads, FetchRoles(t) PROVE TimesOK'
  BY <1>12 DEF FetchRoles, Statement, Goto
<1>13. ASSUME NEW t \in Threads, FetchStats(t) PROVE TimesOK'
  BY <1>13 DEF FetchStats, Statement, Goto
<1>14. ASSUME NEW t \in Threads, FetchArrivals(t) PROVE TimesOK'
  BY <1>14 DEF FetchArrivals, Statement, Goto
<1>15. ASSUME NEW t \in Threads, LoadFails(t) PROVE TimesOK'
  BY <1>15 DEF LoadFails, Release, NothingToServe, Respond, Goto, ChecksOK, Querying
<1>16. ASSUME NEW t \in Threads, Install(t) PROVE TimesOK'
  BY <1>16 DEF Install, Goto
<1>17. ASSUME NEW t \in Threads, Stamp(t) PROVE TimesOK'
  BY <1>17 DEF Stamp, Release, Respond, Goto
<1> QED BY <1>1, <1>2, <1>3, <1>4, <1>5, <1>6, <1>7, <1>8, <1>9, <1>10, <1>11, <1>12, <1>13,
          <1>14, <1>15, <1>16, <1>17 DEF CacheNext, ThreadStep

(* Nobody else writes while the lock is held, so what was checked still     *)
(* holds; an unlocked check may only have become more cautious.             *)
LEMMA ChecksStep ==
    ASSUME CacheTypeOK, TimesOK, ChecksOK, [CacheNext]_vars
    PROVE  ChecksOK'
<1> USE TimesAssumption, BoundsAssumption, NoThreadAssumption, MarkersAssumption
    DEF CacheTypeOK, TimesOK, ChecksOK, Checking, Querying, AskedRecently, Time, dbVars, cacheVars
<1>1. CASE UNCHANGED vars
  BY <1>1 DEF vars
<1>2. CASE Tick
  BY <1>2 DEF Tick
<1>3. CASE PipelineCommits
  BY <1>3 DEF PipelineCommits
<1>4. CASE DatabaseToggles
  BY <1>4 DEF DatabaseToggles
<1>5. ASSUME NEW t \in Threads, Request(t) PROVE ChecksOK'
  BY <1>5 DEF Request, Goto
<1>6. ASSUME NEW t \in Threads, ReadClock(t) PROVE ChecksOK'
  BY <1>6 DEF ReadClock, Goto
<1>7. ASSUME NEW t \in Threads, ReadLoadedAt(t) PROVE ChecksOK'
  BY <1>7 DEF ReadLoadedAt, Goto, Young
<1>8. ASSUME NEW t \in Threads, ReadBackoff(t) PROVE ChecksOK'
  BY <1>8 DEF ReadBackoff, Goto
<1>9. ASSUME NEW t \in Threads, ServeUnlocked(t) PROVE ChecksOK'
  BY <1>9 DEF ServeUnlocked, Respond, Goto
<1>10. ASSUME NEW t \in Threads, ServeLocked(t) PROVE ChecksOK'
  BY <1>10 DEF ServeLocked, Respond, Goto, IsFresh
<1>11. ASSUME NEW t \in Threads, BeginLoad(t) PROVE ChecksOK'
  BY <1>11 DEF BeginLoad, Goto, IsFresh, Young
<1>12. ASSUME NEW t \in Threads, FetchRoles(t) PROVE ChecksOK'
  BY <1>12 DEF FetchRoles, Statement, Goto
<1>13. ASSUME NEW t \in Threads, FetchStats(t) PROVE ChecksOK'
  BY <1>13 DEF FetchStats, Statement, Goto
<1>14. ASSUME NEW t \in Threads, FetchArrivals(t) PROVE ChecksOK'
  BY <1>14 DEF FetchArrivals, Statement, Goto
<1>15. ASSUME NEW t \in Threads, LoadFails(t) PROVE ChecksOK'
  BY <1>15 DEF LoadFails, Release, NothingToServe, Respond, Goto
<1>16. ASSUME NEW t \in Threads, Install(t) PROVE ChecksOK'
  BY <1>16 DEF Install, Goto
<1>17. ASSUME NEW t \in Threads, Stamp(t) PROVE ChecksOK'
  BY <1>17 DEF Stamp, Release, Respond, Goto
<1> QED BY <1>1, <1>2, <1>3, <1>4, <1>5, <1>6, <1>7, <1>8, <1>9, <1>10, <1>11, <1>12, <1>13,
          <1>14, <1>15, <1>16, <1>17 DEF CacheNext, ThreadStep

(* The tables only move forward, and the loader reads them after whatever   *)
(* is served was read.                                                     *)
LEMMA VersionsStep ==
    ASSUME CacheTypeOK, VersionsOK, [CacheNext]_vars
    PROVE  VersionsOK'
<1> USE NoThreadAssumption, MarkersAssumption
    DEF CacheTypeOK, VersionsOK, Past, Service!AtLeast, Snapshot, Versions, dbVars, cacheVars
<1>1. CASE UNCHANGED vars
  BY <1>1 DEF vars
<1>2. CASE Tick
  BY <1>2 DEF Tick
<1>3. CASE PipelineCommits
  BY <1>3 DEF PipelineCommits
<1>4. CASE DatabaseToggles
  BY <1>4 DEF DatabaseToggles
<1>5. ASSUME NEW t \in Threads, Request(t) PROVE VersionsOK'
  BY <1>5 DEF Request, Goto
<1>6. ASSUME NEW t \in Threads, ReadClock(t) PROVE VersionsOK'
  BY <1>6 DEF ReadClock, Goto
<1>7. ASSUME NEW t \in Threads, ReadLoadedAt(t) PROVE VersionsOK'
  BY <1>7 DEF ReadLoadedAt, Goto
<1>8. ASSUME NEW t \in Threads, ReadBackoff(t) PROVE VersionsOK'
  BY <1>8 DEF ReadBackoff, Goto
<1>9. ASSUME NEW t \in Threads, ServeUnlocked(t) PROVE VersionsOK'
  BY <1>9 DEF ServeUnlocked, Respond, Goto
<1>10. ASSUME NEW t \in Threads, ServeLocked(t) PROVE VersionsOK'
  BY <1>10 DEF ServeLocked, Respond, Goto
<1>11. ASSUME NEW t \in Threads, BeginLoad(t) PROVE VersionsOK'
  BY <1>11 DEF BeginLoad, Goto
<1>12. ASSUME NEW t \in Threads, FetchRoles(t) PROVE VersionsOK'
  BY <1>12 DEF FetchRoles, Statement, Goto
<1>13. ASSUME NEW t \in Threads, FetchStats(t) PROVE VersionsOK'
  BY <1>13 DEF FetchStats, Statement, Goto
<1>14. ASSUME NEW t \in Threads, FetchArrivals(t) PROVE VersionsOK'
  BY <1>14 DEF FetchArrivals, Statement, Goto
<1>15. ASSUME NEW t \in Threads, LoadFails(t) PROVE VersionsOK'
  BY <1>15 DEF LoadFails, Release, NothingToServe, Respond, Goto, NotRead
<1>16. ASSUME NEW t \in Threads, Install(t) PROVE VersionsOK'
  BY <1>16 DEF Install, Goto
<1>17. ASSUME NEW t \in Threads, Stamp(t) PROVE VersionsOK'
  BY <1>17 DEF Stamp, Release, Respond, Goto, NotRead
<1> QED BY <1>1, <1>2, <1>3, <1>4, <1>5, <1>6, <1>7, <1>8, <1>9, <1>10, <1>11, <1>12, <1>13,
          <1>14, <1>15, <1>16, <1>17 DEF CacheNext, ThreadStep

LEMMA CacheInvInit == CacheInit => CacheInv
<1> SUFFICES ASSUME CacheInit PROVE CacheInv  OBVIOUS
<1>1. CacheTypeOK  BY TypeInit
<1>2. TimesOK /\ ChecksOK
  BY TimesAssumption, BoundsAssumption
     DEF CacheInit, TimesOK, ChecksOK, Checking, Querying
<1>3. VersionsOK
  BY DEF CacheInit, VersionsOK, Past, NotRead
<1> QED BY <1>1, <1>2, <1>3 DEF CacheInv

LEMMA CacheInvStep == CacheInv /\ [CacheNext]_vars => CacheInv'
BY TypeStep, TimesStep, ChecksStep, VersionsStep DEF CacheInv

LEMMA CacheInvariant == CacheSpec => []CacheInv
BY CacheInvInit, CacheInvStep, PTL DEF CacheSpec

(* The cache's variables keep their types, the lock has one holder, and a  *)
(* request is pending exactly while its thread is in get().                *)
THEOREM CacheTypeCorrect == CacheSpec => []CacheTypeOK
<1>1. CacheInv => CacheTypeOK  BY DEF CacheInv
<1> QED BY CacheInvariant, <1>1, PTL

-----------------------------------------------------------------------------
(* However many threads find the snapshot expired, loads are a time to     *)
(* live, or after a failure a back-off, apart (the check under the lock).  *)
THEOREM CacheRefreshesAreSpaced == CacheSpec => RefreshesAreSpaced
<1> DEFINE Spaced(t) == lock = NoThread /\ lock' = t /\ snapshot # NoSnapshot
                           => /\ clock >= loadedAt + Ttl
                              /\ failedAt # 0 => clock >= failedAt + Backoff
<1>1. ASSUME CacheInv, CacheNext, NEW t \in Threads PROVE Spaced(t)
  <2> SUFFICES ASSUME lock = NoThread, lock' = t, snapshot # NoSnapshot PROVE Spaced(t)
    OBVIOUS
  <2>1. BeginLoad(t)
    BY <1>1, NoThreadAssumption DEF CacheNext, ThreadStep, Tick, PipelineCommits, DatabaseToggles,
       Request, ReadClock, ReadLoadedAt, ReadBackoff, ServeUnlocked, ServeLocked, BeginLoad,
       FetchRoles, FetchStats, FetchArrivals, Statement, LoadFails, Release, Install, Stamp
  <2> QED BY <1>1, <2>1, TimesAssumption, BoundsAssumption
          DEF BeginLoad, IsFresh, Young, CacheInv, CacheTypeOK, TimesOK, Time
<1>2. CacheInv /\ [CacheNext]_vars => [\A t \in Threads : Spaced(t)]_vars
  BY <1>1
<1> QED BY <1>2, CacheInvariant, PTL DEF CacheSpec, RefreshesAreSpaced

(* Whichever branch of get() answers, the request had asked when the       *)
(* snapshot served was younger than a time to live, or a refresh had just  *)
(* failed.                                                                 *)
THEOREM CacheAnswersAreRecent == CacheSpec => AnswersAreRecent
<1>1. ASSUME CacheInv, CacheNext, NEW t \in Threads, asked[t] # NotAsked, asked'[t] = NotAsked
      PROVE  Recent(t)
  <2> USE TimesAssumption, BoundsAssumption
      DEF CacheInv, CacheTypeOK, TimesOK, ChecksOK, Checking, Querying, AskedRecently, Recent,
          Time, Respond, Goto, cacheVars, dbVars
  <2>1. ServeUnlocked(t) \/ ServeLocked(t) \/ LoadFails(t) \/ Stamp(t)
    BY <1>1, MarkersAssumption DEF CacheNext, ThreadStep, Tick, PipelineCommits, DatabaseToggles,
       Request, ReadClock, ReadLoadedAt, ReadBackoff, ServeUnlocked, ServeLocked, BeginLoad,
       FetchRoles, FetchStats, FetchArrivals, Statement, LoadFails, Install, Stamp
  <2>2. CASE ServeUnlocked(t)
    BY <1>1, <2>2 DEF ServeUnlocked
  <2>3. CASE ServeLocked(t)
    BY <1>1, <2>3 DEF ServeLocked, IsFresh, Young
  <2>4. CASE LoadFails(t)
    BY <1>1, <2>4 DEF LoadFails, NothingToServe
  <2>5. CASE Stamp(t)
    BY <1>1, <2>5 DEF Stamp
  <2> QED BY <2>1, <2>2, <2>3, <2>4, <2>5
<1>2. CacheInv /\ [CacheNext]_vars
        => [\A t \in Threads : asked[t] # NotAsked /\ asked'[t] = NotAsked => Recent(t)]_vars
  BY <1>1
<1> QED BY <1>2, CacheInvariant, PTL DEF CacheSpec, AnswersAreRecent

-----------------------------------------------------------------------------
(* SnapshotCache implements SnapshotService.                               *)

LEMMA ServiceStart == CacheInit => Service!ServiceInit
BY DEF CacheInit, Service!ServiceInit

(* A thread's step asks, publishes, answers, turns away, or stutters.      *)
LEMMA ServiceStep ==
    ASSUME CacheInv, [CacheNext]_vars
    PROVE  [Service!ServiceNext]_<<snapshot, asked, answer>>
<1> USE DEF CacheInv, CacheTypeOK
<1> DEFINE Hidden == UNCHANGED <<snapshot, asked, answer>>
<1>1. CASE UNCHANGED vars \/ Tick \/ PipelineCommits \/ DatabaseToggles
  BY <1>1 DEF vars, cacheVars, Tick, PipelineCommits, DatabaseToggles
<1>2. ASSUME NEW t \in Threads, Request(t) PROVE Service!Ask(t)
  BY <1>2 DEF Request, Service!Ask, cacheVars
<1>3. ASSUME NEW t \in Threads,
             \/ ReadClock(t) \/ ReadLoadedAt(t) \/ ReadBackoff(t) \/ BeginLoad(t)
             \/ FetchRoles(t) \/ FetchStats(t) \/ FetchArrivals(t)
      PROVE  Hidden
  BY <1>3 DEF ReadClock, ReadLoadedAt, ReadBackoff, BeginLoad, FetchRoles, FetchStats,
     FetchArrivals, Statement, cacheVars
<1>4. ASSUME NEW t \in Threads, asked[t] # NotAsked, Respond(t, snapshot), snapshot # NoSnapshot,
             UNCHANGED snapshot
      PROVE  Service!Answer(t)
  BY <1>4, MarkersAssumption
     DEF Respond, Service!Answer, Service!AtLeast, VersionsOK, Snapshot, Versions
<1>5. ASSUME NEW t \in Threads, ServeUnlocked(t) \/ ServeLocked(t) PROVE Service!Answer(t)
  BY <1>4, <1>5 DEF ServeUnlocked, ServeLocked, IsFresh, ChecksOK, Checking, cacheVars
<1>6. ASSUME NEW t \in Threads, LoadFails(t) PROVE Service!TurnAway(t) \/ Service!Answer(t)
  <2>1. CASE snapshot = NoSnapshot
    BY <1>6, <2>1, MarkersAssumption
       DEF LoadFails, NothingToServe, Respond, Service!TurnAway, Service!AtLeast, VersionsOK
  <2>2. CASE snapshot # NoSnapshot
    BY <1>4, <1>6, <2>2 DEF LoadFails, NothingToServe
  <2> QED BY <2>1, <2>2
<1>7. ASSUME NEW t \in Threads, Install(t) PROVE Service!Publish
  BY <1>7, MarkersAssumption DEF Install, Service!Publish, Service!AtLeast, VersionsOK
<1>8. ASSUME NEW t \in Threads, Stamp(t) PROVE Service!Answer(t)
  BY <1>4, <1>8, MarkersAssumption DEF Stamp, VersionsOK
<1> QED BY <1>1, <1>2, <1>3, <1>5, <1>6, <1>7, <1>8
        DEF CacheNext, ThreadStep, Service!ServiceNext

(* An answer is at least as new as anything published when its request     *)
(* arrived, and a 503 means that nothing had been: unlocked checks, waits  *)
(* for the lock and failed refreshes included.                             *)
THEOREM CacheKeepsServicePromise == CacheSpec => KeepsServicePromise
<1>1. CacheInv /\ [CacheNext]_vars => [Service!ServiceNext]_<<snapshot, asked, answer>>
  BY ServiceStep
<1> QED BY ServiceStart, <1>1, CacheInvariant, PTL
        DEF CacheSpec, KeepsServicePromise, Service!ServiceSpec, Service!serviceVars
=============================================================================
