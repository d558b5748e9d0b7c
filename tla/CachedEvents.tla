----------------------------- MODULE CachedEvents -----------------------------
(***************************************************************************)
(* Events that use a cache and the connection pool together: the cache's   *)
(* refresh needs a connection.  get(db::connection&) is given one by its   *)
(* caller, before the cache is locked; get(handler_event&) calls e.db()    *)
(* under the cache's write lock, and e.db() may have to wait for the pool. *)
(***************************************************************************)
EXTENDS DataCache

CONSTANTS PoolSize, NoConn

VARIABLES connstack, next, curconn, evt, waiting, arriving

Pool == INSTANCE ConnectionPool
poolvars == <<connstack, next, curconn, evt, waiting, arriving>>
vars == <<cachevars, poolvars>>

Init == CacheInit /\ Pool!PoolInit

HasConn(t) == curconn[t] # NoConn
Running(t) == evt[t] = "running"
-----------------------------------------------------------------------------
(* The event's life.  It ends with no cache method on the stack. *)
BeginEvent(t) == Pool!BeginEvent(t) /\ UNCHANGED cachevars
EndEvent(t) == phase[t] = "out" /\ Pool!EndEvent(t) /\ UNCHANGED cachevars
Environment == Pool!ToggleArrivals /\ UNCHANGED cachevars

(* db(): called by a handler on its own account, for get(db::connection&) or *)
(* a statement of its own, or by get(handler_event&) in its write section.   *)
CallDb(t) ==
  /\ phase[t] \in {"out", "refreshing"}
  /\ Pool!CallPop(t)
  /\ UNCHANGED cachevars

PopTake(t) == Pool!PopTake(t) /\ UNCHANGED cachevars
PopWait(t) == Pool!PopWait(t) /\ UNCHANGED cachevars
SpuriousWakeup(t) == Pool!SpuriousWakeup(t) /\ UNCHANGED cachevars

(* The cache's methods, called by a handler.  Whether a get that misses is   *)
(* the overload for a connection or for an event shows when it is locked:    *)
(* the former has a connection by then.                                      *)
UseCache(t) ==
  /\ Running(t)
  /\ \/ SetDirty(t) \/ Flush(t)
     \/ FlushDirtyClean(t) \/ FlushDirtyCheck(t) \/ FlushDirtyClear(t)
     \/ GetHit(t) \/ GetMiss(t) \/ GetLock(t)
  /\ UNCHANGED poolvars

(* Statements run on the event's connection. *)
UseConnection(t) ==
  /\ Running(t) /\ HasConn(t)
  /\ \/ UpdateDatabase(t) \/ RefreshExecute(t) \/ RefreshStore(t)
     \/ RefreshFail(t)
  /\ UNCHANGED poolvars

Next ==
  \/ Environment
  \/ \E t \in Threads :
       \/ BeginEvent(t) \/ EndEvent(t) \/ CallDb(t)
       \/ PopTake(t) \/ PopWait(t) \/ SpuriousWakeup(t)
       \/ UseCache(t) \/ UseConnection(t)

(* A handler that has entered a method gets through it when it is able to,   *)
(* and in the end returns.  A lock that is free again and again is granted:  *)
(* strong fairness for the sections under m_qlock, as rwlock gives, and for  *)
(* pop, which here is only contended by the events at hand.                  *)
Fairness ==
  \A t \in Threads :
    /\ WF_vars(CallDb(t) /\ phase[t] = "refreshing")
    /\ SF_vars(PopTake(t))
    /\ SF_vars(EndEvent(t))
    /\ SF_vars(UseCache(t) /\ phase[t] # "out")
    /\ WF_vars(UseConnection(t) /\ phase[t] # "out")

Spec == Init /\ [][Next]_vars /\ Fairness
-----------------------------------------------------------------------------
(* Every write section of get runs in an event that had its connection when  *)
(* it locked the cache, as in every call of get(db::connection&).            *)
LockedWithConnection ==
  \A t \in Threads : phase[t] = "refreshing" => HasConn(t)

(* A get that misses comes back ("gets the current item, refreshes the cache *)
(* if need be", datacache.h:60,63).                                          *)
GetReturns == \A t \in Threads : phase[t] = "missed" ~> phase[t] = "out"

(* It does as long as no event goes for a connection with the cache locked,  *)
(* however few connections there are.                                        *)
GetReturnsGivenConnection == []LockedWithConnection => GetReturns
=============================================================================
