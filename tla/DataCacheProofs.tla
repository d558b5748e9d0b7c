--------------------------- MODULE DataCacheProofs ---------------------------
(***************************************************************************)
(* Freshness of the query cache, for any number of threads and updates, by *)
(* itself and in events that draw from a connection pool of any size.      *)
(***************************************************************************)
EXTENDS CachedEvents, TLAPS

(* Rows are never newer than the database, and no announcement is either.   *)
NothingFromTheFuture ==
  /\ announced <= dbversion /\ query <= dbversion
  /\ \A t \in Threads : returned[t] <= dbversion /\ floor[t] <= announced

(* Rows read but not stored yet are no older than the last announcement and *)
(* than whatever is cached or was returned: their reader has the write lock, *)
(* and neither set_dirty nor another refresh can come in between.            *)
FetchedIsNewest ==
  \A t \in Threads : phase[t] = "fetched" =>
    /\ fetched[t] \in Versions
    /\ announced <= fetched[t] /\ query <= fetched[t] /\ fetched[t] <= dbversion
    /\ \A u \in Threads : returned[u] <= fetched[t] /\ floor[u] <= fetched[t]

(* Whatever is cached is at least as new as every earlier result, and as     *)
(* what a thread may ask for after its flush_dirty.                          *)
CachedIsNewest ==
  query # NoQuery => \A t \in Threads : returned[t] <= query /\ floor[t] <= query

CacheInv ==
  /\ CacheTypeOK
  /\ NothingFromTheFuture
  /\ FetchedIsNewest
  /\ CachedIsNewest
  /\ CleanMeansFresh

-----------------------------------------------------------------------------
LEMMA CacheInvInit == CacheInit => CacheInv
  BY NoThreadAssumption, MaxVersionAssumption
  DEF CacheInit, CacheInv, CacheTypeOK, NothingFromTheFuture, FetchedIsNewest,
      CachedIsNewest, CleanMeansFresh, NoQuery, Versions

(* While the lock is free no thread is in get's write section. *)
LEMMA UnlockedMeansNoneInside ==
  ASSUME CacheTypeOK, Unlocked, NEW t \in Threads
  PROVE  phase[t] \notin {"refreshing", "fetched"}
  BY NoThreadAssumption DEF CacheTypeOK, Unlocked

LEMMA CacheInvNext == CacheInv /\ [CacheNext]_cachevars => CacheInv'
  <1> SUFFICES ASSUME CacheInv, [CacheNext]_cachevars PROVE CacheInv'
    OBVIOUS
  <1> USE NoThreadAssumption, MaxVersionAssumption
          DEF CacheInv, CacheTypeOK, NothingFromTheFuture, FetchedIsNewest,
              CachedIsNewest, CleanMeansFresh, NoQuery, Versions, GoTo
  <1>1. ASSUME NEW t \in Threads, UpdateDatabase(t) PROVE CacheInv'
    BY <1>1 DEF UpdateDatabase
  <1>2. ASSUME NEW t \in Threads, SetDirty(t) PROVE CacheInv'
    BY <1>2, UnlockedMeansNoneInside DEF SetDirty, Unlocked
  <1>3. ASSUME NEW t \in Threads, Flush(t) PROVE CacheInv'
    BY <1>3, UnlockedMeansNoneInside DEF Flush, Unlocked
  <1>4. ASSUME NEW t \in Threads, FlushDirtyClean(t) PROVE CacheInv'
    BY <1>4, UnlockedMeansNoneInside DEF FlushDirtyClean, Unlocked
  <1>5. ASSUME NEW t \in Threads, FlushDirtyCheck(t) PROVE CacheInv'
    BY <1>5, UnlockedMeansNoneInside DEF FlushDirtyCheck, Unlocked
  <1>6. ASSUME NEW t \in Threads, FlushDirtyClear(t) PROVE CacheInv'
    <2>1. \A u \in Threads : phase'[u] \notin {"refreshing", "fetched"}
      BY <1>6, UnlockedMeansNoneInside DEF FlushDirtyClear
    <2>2. CacheTypeOK'
      BY <1>6, <2>1 DEF FlushDirtyClear, Unlocked
    <2>3. NothingFromTheFuture'
      BY <1>6 DEF FlushDirtyClear
    <2>4. query' = NoQuery
      BY <1>6 DEF FlushDirtyClear
    <2>5. QED
      BY <2>1, <2>2, <2>3, <2>4
  <1>7. ASSUME NEW t \in Threads, GetHit(t) PROVE CacheInv'
    BY <1>7, UnlockedMeansNoneInside DEF GetHit, Unlocked
  <1>8. ASSUME NEW t \in Threads, GetMiss(t) PROVE CacheInv'
    BY <1>8, UnlockedMeansNoneInside DEF GetMiss, Unlocked
  <1>9. ASSUME NEW t \in Threads, GetLock(t) PROVE CacheInv'
    BY <1>9, UnlockedMeansNoneInside DEF GetLock, Unlocked
  <1>10. ASSUME NEW t \in Threads, RefreshExecute(t) PROVE CacheInv'
    BY <1>10 DEF RefreshExecute
  <1>11. ASSUME NEW t \in Threads, RefreshStore(t) PROVE CacheInv'
    <2>1. /\ phase[t] = "fetched" /\ writer = t
          /\ \A u \in Threads : u # t => phase[u] \notin {"refreshing", "fetched"}
      BY <1>11 DEF RefreshStore
    <2>2. CacheTypeOK'
      BY <1>11, <2>1 DEF RefreshStore
    <2>3. \A u \in Threads : /\ phase'[u] # "fetched"
                             /\ returned'[u] <= query' /\ floor'[u] <= query'
      BY <1>11, <2>1 DEF RefreshStore
    <2>4. announced' <= query' /\ query' <= dbversion'
      BY <1>11, <2>1 DEF RefreshStore
    <2>5. QED
      BY <1>11, <2>2, <2>3, <2>4 DEF RefreshStore
  <1>12. ASSUME NEW t \in Threads, RefreshFail(t) PROVE CacheInv'
    BY <1>12 DEF RefreshFail
  <1>13. CASE UNCHANGED cachevars
    BY <1>13 DEF cachevars
  <1>14. QED
    BY <1>1, <1>2, <1>3, <1>4, <1>5, <1>6, <1>7, <1>8, <1>9, <1>10, <1>11,
       <1>12, <1>13 DEF CacheNext

LEMMA CacheInvariance == CacheSafety => []CacheInv
  BY CacheInvInit, CacheInvNext, PTL DEF CacheSafety

-----------------------------------------------------------------------------
(* The cache's variables keep their types and the write lock has the owner   *)
(* the thread's place in get says, for every number of threads.              *)
THEOREM CacheTypeCorrect == CacheSafety => []CacheTypeOK
  <1>1. CacheInv => CacheTypeOK
    BY DEF CacheInv
  <1>2. QED
    BY <1>1, CacheInvariance, PTL

(* A clean cache never holds rows older than the last announced change.      *)
THEOREM CleanIsFresh == CacheSafety => []CleanMeansFresh
  <1>1. CacheInv => CleanMeansFresh
    BY DEF CacheInv
  <1>2. QED
    BY <1>1, CacheInvariance, PTL

(* What a step returns from get, it returns from the cache or from a refresh *)
(* under the write lock: in both cases nothing newer was returned before.    *)
LEMMA ReturnsAreNewest ==
  ASSUME CacheInv, [CacheNext]_cachevars, NEW t \in Threads,
         returned'[t] # returned[t], returned'[t] # NoQuery
  PROVE  returned'[t] >= returned[t] /\ returned'[t] >= floor[t]
  <1> USE DEF CacheInv, CacheTypeOK, NoQuery, Versions, GoTo
  <1>1. PICK u \in Threads : GetHit(u) \/ RefreshStore(u) \/ RefreshFail(u)
    BY DEF CacheNext, cachevars, UpdateDatabase, SetDirty, Flush,
           FlushDirtyClean, FlushDirtyCheck, FlushDirtyClear, GetMiss, GetLock,
           RefreshExecute
  <1>2. CASE GetHit(u) \/ RefreshFail(u)
    BY <1>2 DEF GetHit, RefreshFail, CachedIsNewest
  <1>3. CASE RefreshStore(u)
    BY <1>3 DEF RefreshStore, FetchedIsNewest
  <1>4. QED
    BY <1>1, <1>2, <1>3

(* No thread's get goes back to older rows than it returned before.          *)
THEOREM ReadsAreMonotone == CacheSafety => ReadsNeverGoBack
  <1>1. ASSUME CacheInv, [CacheNext]_cachevars
        PROVE  [\A t \in Threads :
                  returned'[t] # NoQuery => returned'[t] >= returned[t]]_cachevars
    <2> SUFFICES ASSUME NEW t \in Threads, returned'[t] # NoQuery
                 PROVE  returned'[t] >= returned[t]
      OBVIOUS
    <2>1. CASE returned'[t] = returned[t]
      BY <1>1, <2>1 DEF CacheInv, CacheTypeOK, Versions, NoQuery
    <2>2. CASE returned'[t] # returned[t]
      BY <1>1, <2>2, ReturnsAreNewest
    <2>3. QED
      BY <2>1, <2>2
  <1>2. QED
    BY <1>1, CacheInvariance, PTL DEF CacheSafety, ReadsNeverGoBack

(* After a thread's flush_dirty its get returns nothing older than what had  *)
(* been announced by then.                                                   *)
THEOREM FlushedReadsCorrect == CacheSafety => FlushedReadsAreFresh
  <1>1. ASSUME CacheInv, [CacheNext]_cachevars
        PROVE  [\A t \in Threads :
                  returned'[t] # returned[t] /\ returned'[t] # NoQuery
                    => returned'[t] >= floor[t]]_cachevars
    BY <1>1, ReturnsAreNewest
  <1>2. QED
    BY <1>1, CacheInvariance, PTL DEF CacheSafety, FlushedReadsAreFresh

(* For any number of threads the lock is where the places in get say, and no *)
(* announced change hides behind a clean flag.                               *)
THEOREM CacheStaysSafe == CacheSafety => []CacheSafe
  <1>1. CacheInv => CacheSafe
    BY DEF CacheInv, CacheSafe
  <1>2. QED
    BY <1>1, CacheInvariance, PTL

-----------------------------------------------------------------------------
(* The composition: events that use the cache and the pool.                  *)

LEMMA StepIsCacheStep == [Next]_vars => [CacheNext]_cachevars
  <1> SUFFICES ASSUME [Next]_vars PROVE [CacheNext]_cachevars
    OBVIOUS
  <1>1. CASE Environment
    BY <1>1 DEF Environment
  <1>2. ASSUME NEW t \in Threads,
               \/ BeginEvent(t) \/ EndEvent(t) \/ CallDb(t)
               \/ PopTake(t) \/ PopWait(t) \/ SpuriousWakeup(t)
        PROVE  UNCHANGED cachevars
    BY <1>2 DEF BeginEvent, EndEvent, CallDb, PopTake, PopWait, SpuriousWakeup
  <1>3. ASSUME NEW t \in Threads, UseCache(t) \/ UseConnection(t)
        PROVE  CacheNext
    BY <1>3 DEF UseCache, UseConnection, CacheNext
  <1>4. CASE UNCHANGED vars
    BY <1>4 DEF vars
  <1>5. QED
    BY <1>1, <1>2, <1>3, <1>4 DEF Next

LEMMA StepIsPoolStep == [Next]_vars => [Pool!PoolNext]_(Pool!poolvars)
  <1> SUFFICES ASSUME [Next]_vars PROVE [Pool!PoolNext]_(Pool!poolvars)
    OBVIOUS
  <1>1. CASE Environment
    BY <1>1 DEF Environment, Pool!PoolNext
  <1>2. ASSUME NEW t \in Threads,
               \/ BeginEvent(t) \/ EndEvent(t) \/ CallDb(t)
               \/ PopTake(t) \/ PopWait(t) \/ SpuriousWakeup(t)
        PROVE  Pool!PoolNext
    BY <1>2 DEF BeginEvent, EndEvent, CallDb, PopTake, PopWait, SpuriousWakeup,
                Pool!PoolNext, Pool!PoolStep
  <1>3. ASSUME NEW t \in Threads, UseCache(t) \/ UseConnection(t)
        PROVE  UNCHANGED Pool!poolvars
    BY <1>3 DEF UseCache, UseConnection, poolvars, Pool!poolvars
  <1>4. CASE UNCHANGED vars
    BY <1>4 DEF vars, poolvars, Pool!poolvars
  <1>5. QED
    BY <1>1, <1>2, <1>3, <1>4 DEF Next

(* Events that use both implement the pool: whatever a cache's refresh does   *)
(* under the cache's lock, the pool sees pops and pushes in an order that     *)
(* PoolStaysWhole allows for.                                                 *)
THEOREM EventsKeepPoolProtocol == Spec => Pool!PoolSafety
  <1>1. Init => Pool!PoolInit
    BY DEF Init
  <1>2. QED
    BY <1>1, StepIsPoolStep, PTL DEF Spec, Pool!PoolSafety

(* They implement the cache, too: taking connections, and waiting for one     *)
(* with the cache locked, adds no step the cache does not know.               *)
THEOREM EventsKeepCacheProtocol == Spec => CacheSafety
  <1>1. Init => CacheInit
    BY DEF Init
  <1>2. QED
    BY <1>1, StepIsCacheStep, PTL DEF Spec, CacheSafety

(* Hence the lock's owner and the clean flag are right in such events, ...    *)
THEOREM CacheSafeInEvents == Spec => []CacheSafe
  BY EventsKeepCacheProtocol, CacheStaysSafe, PTL

(* ... no thread reads older rows than it has read or was promised.           *)
THEOREM ReadsCorrectInEvents == Spec => ReadsNeverGoBack /\ FlushedReadsAreFresh
  BY EventsKeepCacheProtocol, ReadsAreMonotone, FlushedReadsCorrect
=============================================================================
