------------------------------ MODULE DataCache ------------------------------
(***************************************************************************)
(* dbrec_cache_base (core/datacache.cpp): the result of a query kept in    *)
(* memory under a reader-writer lock, with a dirty flag that asks for a     *)
(* flush later.                                                            *)
(*                                                                         *)
(* The database is a version number that a handler's update raises.  A     *)
(* section under the read lock is one action, enabled while no one writes; *)
(* so is a section under the write lock that only assigns.  The write      *)
(* section of get runs a statement, so it is several actions with `writer` *)
(* set from the first to the last.                                         *)
(***************************************************************************)
EXTENDS Integers

CONSTANTS
  Threads,     \* worker threads
  NoThread,    \* the write lock is free
  MaxVersion   \* bound: the database is updated at most this often

NoQuery == 0                  \* a null m_query, or null result of get
Versions == 1 .. MaxVersion   \* what a query can have read

ASSUME NoThreadAssumption == NoThread \notin Threads
ASSUME MaxVersionAssumption == MaxVersion \in Nat \ {0}

VARIABLES
  query,      \* m_query: the version its rows were read from, or NoQuery
  dirty,      \* m_dirty
  writer,     \* holder of m_qlock for writing
  phase,      \* where each thread is in the cache's methods
  fetched,    \* the rows a thread's refresh has read
  dbversion,  \* the database
  announced,  \* history: the database when set_dirty last ran
  floor,      \* history: `announced` when the thread's flush_dirty returned
  returned    \* what each thread's last get returned

cachevars == <<query, dirty, writer, phase, fetched, dbversion, announced,
               floor, returned>>

CacheInit ==
  /\ query = NoQuery /\ dirty = TRUE /\ writer = NoThread
  /\ phase = [t \in Threads |-> "out"]
  /\ fetched = [t \in Threads |-> NoQuery]
  /\ dbversion = 1 /\ announced = 1
  /\ floor = [t \in Threads |-> NoQuery]
  /\ returned = [t \in Threads |-> NoQuery]

GoTo(t, from, to) == phase[t] = from /\ phase' = [phase EXCEPT ![t] = to]
Unlocked == writer = NoThread
-----------------------------------------------------------------------------
(* A handler changes the table the query reads; it will call set_dirty. *)
UpdateDatabase(t) ==
  /\ dbversion < MaxVersion
  /\ GoTo(t, "out", "updated")
  /\ dbversion' = dbversion + 1
  /\ UNCHANGED <<query, dirty, writer, fetched, announced, floor, returned>>

SetDirty(t) ==
  /\ Unlocked
  /\ GoTo(t, "updated", "out")
  /\ dirty' = TRUE
  /\ announced' = dbversion
  /\ UNCHANGED <<query, writer, fetched, dbversion, floor, returned>>

Flush(t) ==
  /\ Unlocked /\ phase[t] = "out"
  /\ query' = NoQuery
  /\ UNCHANGED <<dirty, writer, phase, fetched, dbversion, announced, floor,
                 returned>>

(* flush_dirty, under the read lock: nothing to do. *)
FlushDirtyClean(t) ==
  /\ Unlocked /\ ~dirty /\ phase[t] = "out"
  /\ floor' = [floor EXCEPT ![t] = announced]
  /\ UNCHANGED <<query, dirty, writer, phase, fetched, dbversion, announced,
                 returned>>

(* flush_dirty, under the read lock: dirty; the lock is then given up. *)
FlushDirtyCheck(t) ==
  /\ Unlocked /\ dirty
  /\ GoTo(t, "out", "flushing")
  /\ UNCHANGED <<query, dirty, writer, fetched, dbversion, announced, floor,
                 returned>>

(* Mutant: the flag is reset and the query kept. *)
FlushDirtyKeep(t) ==
  /\ Unlocked
  /\ GoTo(t, "flushing", "out")
  /\ dirty' = FALSE
  /\ floor' = [floor EXCEPT ![t] = announced]
  /\ UNCHANGED <<query, writer, fetched, dbversion, announced, returned>>

(* flush_dirty, under the write lock: the flag is not tested again. *)
FlushDirtyClear(t) ==
  /\ Unlocked
  /\ GoTo(t, "flushing", "out")
  /\ dirty' = FALSE
  /\ query' = NoQuery
  /\ floor' = [floor EXCEPT ![t] = announced]
  /\ UNCHANGED <<writer, fetched, dbversion, announced, returned>>

(* get, under the read lock: the cached rows are returned, dirty or not. *)
GetHit(t) ==
  /\ Unlocked /\ query # NoQuery /\ phase[t] = "out"
  /\ returned' = [returned EXCEPT ![t] = query]
  /\ UNCHANGED <<query, dirty, writer, phase, fetched, dbversion, announced,
                 floor>>

(* get, under the read lock: null; the lock is given up. *)
GetMiss(t) ==
  /\ Unlocked /\ query = NoQuery
  /\ GoTo(t, "out", "missed")
  /\ UNCHANGED <<query, dirty, writer, fetched, dbversion, announced, floor,
                 returned>>

(* get takes the write lock and enters refresh; it does not look at m_query *)
(* again, although another thread may have refreshed it.                    *)
GetLock(t) ==
  /\ Unlocked
  /\ GoTo(t, "missed", "refreshing")
  /\ writer' = t
  /\ UNCHANGED <<query, dirty, fetched, dbversion, announced, floor, returned>>

(* refresh executes its statement... *)
RefreshExecute(t) ==
  /\ GoTo(t, "refreshing", "fetched")
  /\ fetched' = [fetched EXCEPT ![t] = dbversion]
  /\ UNCHANGED <<query, dirty, writer, dbversion, announced, floor, returned>>

(* ... and stores the rows; get returns them and unlocks. *)
RefreshStore(t) ==
  /\ GoTo(t, "fetched", "out")
  /\ query' = fetched[t]
  /\ fetched' = [fetched EXCEPT ![t] = NoQuery]
  /\ returned' = [returned EXCEPT ![t] = fetched[t]]
  /\ writer' = NoThread
  /\ UNCHANGED <<dirty, dbversion, announced, floor>>

(* Mutant: the failure's way out of get leaves the lock taken. *)
RefreshFailLocked(t) ==
  /\ GoTo(t, "refreshing", "out")
  /\ returned' = [returned EXCEPT ![t] = query]
  /\ UNCHANGED <<query, dirty, writer, fetched, dbversion, announced, floor>>

(* Mutant: a failed refresh puts back the rows its thread read before. *)
RefreshFailOld(t) ==
  /\ GoTo(t, "refreshing", "out")
  /\ query' = returned[t]
  /\ writer' = NoThread
  /\ UNCHANGED <<dirty, fetched, dbversion, announced, floor, returned>>

(* The statement fails: refresh leaves m_query as it is.  Past the assertion *)
(* (datacache.cpp:80), which a release build leaves out, get returns it.     *)
RefreshFail(t) ==
  /\ GoTo(t, "refreshing", "out")
  /\ returned' = [returned EXCEPT ![t] = query]
  /\ writer' = NoThread
  /\ UNCHANGED <<query, dirty, fetched, dbversion, announced, floor>>

CacheNext ==
  \E t \in Threads :
    \/ UpdateDatabase(t) \/ SetDirty(t) \/ Flush(t)
    \/ FlushDirtyClean(t) \/ FlushDirtyCheck(t) \/ FlushDirtyClear(t)
    \/ GetHit(t) \/ GetMiss(t) \/ GetLock(t)
    \/ RefreshExecute(t) \/ RefreshStore(t) \/ RefreshFail(t)

CacheSafety == CacheInit /\ [][CacheNext]_cachevars
-----------------------------------------------------------------------------
(* Types, and the lock's discipline: the write lock is held exactly by the   *)
(* thread that is in get's write section.                                    *)
CacheTypeOK ==
  /\ query \in Versions \cup {NoQuery}
  /\ dirty \in BOOLEAN
  /\ writer \in Threads \cup {NoThread}
  /\ phase \in [Threads -> {"out", "updated", "flushing", "missed",
                            "refreshing", "fetched"}]
  /\ fetched \in [Threads -> Versions \cup {NoQuery}]
  /\ dbversion \in Versions
  /\ announced \in Versions
  /\ floor \in [Threads -> Versions \cup {NoQuery}]
  /\ returned \in [Threads -> Versions \cup {NoQuery}]
  /\ \A t \in Threads : writer = t <=> phase[t] \in {"refreshing", "fetched"}

(* A cache that is not marked dirty holds nothing older than the last       *)
(* announced change, although set_dirty may come while another thread is    *)
(* between reading the rows and storing them, or between flush_dirty's      *)
(* test and its reset of the flag.                                          *)
CleanMeansFresh ==
  ~dirty /\ query # NoQuery => query >= announced

(* After flush_dirty a thread's get never returns rows older than what had  *)
(* been announced when flush_dirty returned.                                *)
FlushedReadsAreFresh ==
  [][\A t \in Threads :
       returned'[t] # returned[t] /\ returned'[t] # NoQuery
         => returned'[t] >= floor[t]]_cachevars

(* What a thread gets never goes back to rows older than it got before: a   *)
(* second refresh, run because get does not look at m_query again under the *)
(* write lock, replaces rows by rows at least as new.                       *)
ReadsNeverGoBack ==
  [][\A t \in Threads :
       returned'[t] # NoQuery => returned'[t] >= returned[t]]_cachevars

(* The lock has the owner that the places in get say, and under it a change  *)
(* that was announced never hides behind a clean flag.                       *)
CacheSafe == CacheTypeOK /\ CleanMeansFresh
=============================================================================
