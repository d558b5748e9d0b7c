--------------------------- MODULE ConnectionPool ---------------------------
(***************************************************************************)
(* The fixed-size pool of database connections (db/pool.cpp) and the three *)
(* kinds of event that draw from it: turbo_event_data, handler_event_data  *)
(* and form_event.  All three hold at most one connection: db() returns    *)
(* the one already held or pops one, and the destructor pushes it back.    *)
(*                                                                         *)
(* pop and push run with the pool's mutex held, so each passage between    *)
(* taking and giving up the mutex is one action.  condition.wait releases  *)
(* the mutex: a thread in `waiting` sleeps there until notify_all (or a    *)
(* spurious wakeup) takes it out, and then runs the loop's test again.     *)
(***************************************************************************)
EXTENDS Integers, FiniteSets

CONSTANTS
  Threads,   \* worker threads, each handling one event at a time
  PoolSize,  \* conncount given to init_pool
  NoConn     \* a null count_ptr< connection >

Conns == 1 .. PoolSize
Slots == 0 .. PoolSize - 1

ASSUME ThreadsAssumption == IsFiniteSet(Threads)
ASSUME PoolSizeAssumption == PoolSize \in Nat \ {0}
ASSUME NoConnAssumption == NoConn \notin Conns

VARIABLES
  connstack,  \* shared_t::connstack
  next,       \* shared_t::next, index of the next free connection
  curconn,    \* m_cur_conn of the event each thread runs
  evt,        \* what each thread does: no event, running one, inside pop
  waiting,    \* threads asleep in pm_condition.wait
  arriving    \* environment: requests are coming in

poolvars == <<connstack, next, curconn, evt, waiting, arriving>>

Holders == {t \in Threads : curconn[t] # NoConn}

(* init_pool, when every connect succeeds; the application asserts it did. *)
PoolInit ==
  /\ connstack = [i \in Slots |-> i + 1]
  /\ next = 0
  /\ curconn = [t \in Threads |-> NoConn]
  /\ evt = [t \in Threads |-> "none"]
  /\ waiting = {}
  /\ arriving = TRUE

-----------------------------------------------------------------------------
(* A reactor builds the event's data object, with no connection. *)
BeginEvent(t) ==
  /\ arriving
  /\ evt[t] = "none"
  /\ evt' = [evt EXCEPT ![t] = "running"]
  /\ UNCHANGED <<connstack, next, curconn, waiting, arriving>>

(* get_connection when m_cur_conn is null: pop is entered.  With a          *)
(* connection in hand it returns that one and changes nothing.              *)
CallPop(t) ==
  /\ evt[t] = "running"
  /\ curconn[t] = NoConn
  /\ evt' = [evt EXCEPT ![t] = "popping"]
  /\ UNCHANGED <<connstack, next, curconn, waiting, arriving>>

(* pop finds next < connstack.size(). *)
PopTake(t) ==
  /\ evt[t] = "popping" /\ t \notin waiting
  /\ next < PoolSize
  /\ curconn' = [curconn EXCEPT ![t] = connstack[next]]
  /\ next' = next + 1
  /\ evt' = [evt EXCEPT ![t] = "running"]
  /\ UNCHANGED <<connstack, waiting, arriving>>

(* pop finds every connection lent out. *)
PopWait(t) ==
  /\ evt[t] = "popping" /\ t \notin waiting
  /\ next = PoolSize
  /\ waiting' = waiting \cup {t}
  /\ UNCHANGED <<connstack, next, curconn, evt, arriving>>

(* The condition may wake a sleeper that nobody notified. *)
SpuriousWakeup(t) ==
  /\ t \in waiting
  /\ waiting' = waiting \ {t}
  /\ UNCHANGED <<connstack, next, curconn, evt, arriving>>

(* Mutant: push notifies nobody. *)
PushNoNotify(t) ==
  /\ next' = next - 1
  /\ connstack' = [connstack EXCEPT ![next - 1] = curconn[t]]
  /\ UNCHANGED waiting

(* Mutant: push trusts the stale pointer in the slot. *)
PushNoStore(t) ==
  /\ next' = next - 1
  /\ waiting' = {}
  /\ UNCHANGED connstack

(* push: the slot below next receives the connection, and every sleeper is *)
(* notified.                                                               *)
Push(t) ==
  /\ next' = next - 1
  /\ connstack' = [connstack EXCEPT ![next - 1] = curconn[t]]
  /\ waiting' = {}

(* The event's destructor. *)
EndEvent(t) ==
  /\ evt[t] = "running"
  /\ evt' = [evt EXCEPT ![t] = "none"]
  /\ curconn' = [curconn EXCEPT ![t] = NoConn]
  /\ IF curconn[t] # NoConn
       THEN Push(t)
       ELSE UNCHANGED <<connstack, next, waiting>>
  /\ UNCHANGED arriving

(* Clients go away and come back. *)
ToggleArrivals ==
  /\ arriving' = ~arriving
  /\ UNCHANGED <<connstack, next, curconn, evt, waiting>>

-----------------------------------------------------------------------------
PoolStep(t) == CallPop(t) \/ PopTake(t) \/ PopWait(t) \/ EndEvent(t)

PoolNext ==
  \/ ToggleArrivals
  \/ \E t \in Threads : BeginEvent(t) \/ SpuriousWakeup(t) \/ PoolStep(t)

(* A thread inside pop keeps going whenever it is awake, and a handler      *)
(* returns.  Nothing makes a request arrive or a spurious wakeup happen.    *)
PoolFairness ==
  \A t \in Threads :
    /\ WF_poolvars(PopTake(t) \/ PopWait(t))
    /\ WF_poolvars(EndEvent(t))

PoolSafety == PoolInit /\ [][PoolNext]_poolvars
PoolSpec == PoolSafety /\ PoolFairness

-----------------------------------------------------------------------------
(* Every variable has its type; next never leaves 0 .. PoolSize. *)
PoolTypeOK ==
  /\ connstack \in [Slots -> Conns]
  /\ next \in 0 .. PoolSize
  /\ curconn \in [Threads -> Conns \cup {NoConn}]
  /\ evt \in [Threads -> {"none", "running", "popping"}]
  /\ waiting \subseteq {t \in Threads : evt[t] = "popping"}
  /\ arriving \in BOOLEAN

FreeSlots == next .. PoolSize - 1

(* No connection is lent to two events at once, none lies in two free      *)
(* slots, and none is both lent and free: two handlers never issue         *)
(* statements on one ODBC connection, in whatever order events end.        *)
NoDoubleLending ==
  /\ \A t, u \in Holders : curconn[t] = curconn[u] => t = u
  /\ \A i, j \in FreeSlots : connstack[i] = connstack[j] => i = j
  /\ \A i \in FreeSlots, t \in Threads : connstack[i] # curconn[t]

(* No connection is lost: each is held by an event or lies in a free slot, *)
(* although connections come back in another order than they left and the  *)
(* slots below next hold stale pointers.                                   *)
NoLeak ==
  \A c \in Conns : \/ \E i \in FreeSlots : connstack[i] = c
                   \/ \E t \in Threads : curconn[t] = c

(* next counts the events that hold a connection, so whoever pushes finds  *)
(* next > 0 and next <= connstack.size(), as push asserts (pool.cpp:102).   *)
NextCountsHolders == next = Cardinality(Holders)

(* A thread only sleeps while every connection is lent out: whoever gives  *)
(* one back wakes it, so no wakeup is lost between the test and the wait.   *)
NoLostWakeup == waiting # {} => next = PoolSize

(* When requests stop coming for good, every thread inside pop leaves it   *)
(* with a connection ("we're not leavin until we have a conn!",             *)
(* pool.cpp:82).  While they keep coming, a sleeper may be overtaken for    *)
(* ever: pop gives no turn to the one that waited longest.                  *)
PopReturns ==
  <>[]~arriving =>
    \A t \in Threads : evt[t] = "popping" ~> curconn[t] # NoConn

(* What keeps the pool whole under any order of pops and pushes: no         *)
(* connection is lent twice or lost, push's assertions hold, and nobody     *)
(* sleeps beside a free connection.                                         *)
PoolSafe ==
  PoolTypeOK /\ NoDoubleLending /\ NoLeak /\ NextCountsHolders /\ NoLostWakeup
=============================================================================
