--------------------------- MODULE TurboEventsProofs ---------------------------
(***************************************************************************)
(* The connection pool and turbo's events on its connections, for any      *)
(* number of threads, connections, sessions and calls: the pool's          *)
(* invariants, that they hold for events with transactions and exceptions, *)
(* and what those leave on a connection.                                   *)
(***************************************************************************)
EXTENDS TurboEvents, FiniteSetTheorems, TLAPS

-----------------------------------------------------------------------------
(* The pool. *)

(* A thread inside pop, or between events, holds no connection. *)
OnlyRunningHold == \A t \in Holders : evt[t] = "running"

(* The inductive invariant.  NoLeak needs the free slots to be as many as    *)
(* the connections not held, and PopTake needs the popping thread to hold   *)
(* nothing, or the connection it had would be lost.                         *)
PoolInv ==
  /\ PoolTypeOK
  /\ NoDoubleLending
  /\ NoLeak
  /\ NextCountsHolders
  /\ NoLostWakeup
  /\ OnlyRunningHold

-----------------------------------------------------------------------------
(* How a pop and a push change the set of holders and its size. *)
LEMMA HoldersGrow ==
  ASSUME PoolTypeOK, NEW t \in Threads, curconn[t] = NoConn,
         NEW c \in Conns, curconn' = [curconn EXCEPT ![t] = c],
         NextCountsHolders
  PROVE  /\ Holders' = Holders \cup {t}
         /\ Cardinality(Holders') = next + 1
  <1>1. IsFiniteSet(Holders)
    BY ThreadsAssumption, FS_Subset DEF Holders
  <1>2. Holders' = Holders \cup {t}
    BY NoConnAssumption DEF Holders, PoolTypeOK
  <1>3. t \notin Holders
    BY DEF Holders
  <1>4. QED
    BY <1>1, <1>2, <1>3, FS_AddElement DEF NextCountsHolders

LEMMA HoldersShrink ==
  ASSUME PoolTypeOK, NEW t \in Threads, curconn[t] # NoConn,
         curconn' = [curconn EXCEPT ![t] = NoConn],
         NextCountsHolders
  PROVE  /\ Holders' = Holders \ {t}
         /\ Cardinality(Holders') = next - 1
         /\ next > 0
  <1>1. IsFiniteSet(Holders)
    BY ThreadsAssumption, FS_Subset DEF Holders
  <1>2. Holders' = Holders \ {t}
    BY DEF Holders, PoolTypeOK
  <1>3. t \in Holders
    BY DEF Holders
  <1>4. Cardinality(Holders) # 0
    BY <1>1, <1>3, FS_EmptySet
  <1>5. next > 0
    BY <1>4 DEF NextCountsHolders, PoolTypeOK
  <1>6. Cardinality(Holders \ {t}) = next - 1
    BY <1>1, <1>3, FS_RemoveElement DEF NextCountsHolders
  <1>7. QED
    BY <1>2, <1>5, <1>6

-----------------------------------------------------------------------------
LEMMA PoolInvInit == PoolInit => PoolInv
  <1> SUFFICES ASSUME PoolInit PROVE PoolInv
    OBVIOUS
  <1> USE PoolSizeAssumption, NoConnAssumption
  <1>1. PoolTypeOK
    BY DEF PoolInit, PoolTypeOK, Slots, Conns
  <1>2. NoDoubleLending
    BY DEF PoolInit, NoDoubleLending, Holders, FreeSlots, Slots, Conns
  <1>3. NoLeak
    <2> SUFFICES ASSUME NEW c \in Conns
                 PROVE  \E i \in FreeSlots : connstack[i] = c
      BY DEF NoLeak
    <2>1. c - 1 \in FreeSlots /\ c - 1 \in Slots /\ (c - 1) + 1 = c
      BY DEF PoolInit, FreeSlots, Slots, Conns
    <2>2. QED
      BY <2>1 DEF PoolInit
  <1>4. NextCountsHolders
    BY FS_EmptySet DEF PoolInit, NextCountsHolders, Holders
  <1>5. NoLostWakeup
    BY DEF PoolInit, NoLostWakeup
  <1>6. OnlyRunningHold
    BY DEF PoolInit, OnlyRunningHold, Holders
  <1>7. QED
    BY <1>1, <1>2, <1>3, <1>4, <1>5, <1>6 DEF PoolInv

(* Steps that leave the connections where they are. *)
LEMMA IdleStepKeepsInv ==
  ASSUME PoolInv, PoolTypeOK', UNCHANGED <<connstack, next, curconn>>,
         NoLostWakeup', OnlyRunningHold'
  PROVE  PoolInv'
  BY DEF PoolInv, NoDoubleLending, NoLeak, NextCountsHolders, Holders, FreeSlots

LEMMA PopTakeKeepsInv ==
  ASSUME PoolInv, NEW t \in Threads, PopTake(t)
  PROVE  PoolInv'
  <1> USE PoolSizeAssumption, NoConnAssumption
  <1>0. curconn[t] = NoConn
    BY DEF PoolInv, PopTake, OnlyRunningHold, Holders
  <1> DEFINE c == connstack[next]
  <1>1. next \in FreeSlots /\ next \in Slots /\ c \in Conns /\ c # NoConn
    BY DEF PoolInv, PopTake, PoolTypeOK, FreeSlots, Slots
  <1>2. next' = next + 1 /\ connstack' = connstack
        /\ curconn' = [curconn EXCEPT ![t] = c]
    BY DEF PopTake
  <1>3. PoolTypeOK'
    BY <1>1 DEF PoolInv, PopTake, PoolTypeOK, Slots
  <1>4. NoDoubleLending'
    <2>1. \A i \in FreeSlots' : i \in FreeSlots /\ i # next
      BY <1>2 DEF PoolInv, PoolTypeOK, FreeSlots
    <2>2. \A u \in Threads : curconn'[u] = IF u = t THEN c ELSE curconn[u]
      BY <1>2 DEF PoolInv, PoolTypeOK
    <2>3. \A u \in Threads : c # curconn[u]
      BY <1>1 DEF PoolInv, NoDoubleLending
    <2>4. \A u, v \in Holders' : curconn'[u] = curconn'[v] => u = v
      BY <2>2, <2>3 DEF PoolInv, NoDoubleLending, Holders
    <2>5. \A i, j \in FreeSlots' : connstack'[i] = connstack'[j] => i = j
      BY <1>2, <2>1 DEF PoolInv, NoDoubleLending
    <2>6. \A i \in FreeSlots', u \in Threads : connstack'[i] # curconn'[u]
      BY <1>1, <1>2, <2>1, <2>2 DEF PoolInv, NoDoubleLending
    <2>7. QED
      BY <2>4, <2>5, <2>6 DEF NoDoubleLending
  <1>5. NoLeak'
    <2> SUFFICES ASSUME NEW d \in Conns
                 PROVE  \/ \E i \in FreeSlots' : connstack'[i] = d
                        \/ \E u \in Threads : curconn'[u] = d
      BY DEF NoLeak
    <2>1. CASE d = c
      BY <1>2, <2>1 DEF PoolInv, PoolTypeOK
    <2>2. CASE d # c /\ \E i \in FreeSlots : connstack[i] = d
      <3>1. PICK i \in FreeSlots : connstack[i] = d
        BY <2>2
      <3>2. i \in FreeSlots'
        BY <1>2, <2>2, <3>1 DEF PoolInv, PoolTypeOK, FreeSlots
      <3>3. QED
        BY <1>2, <3>1, <3>2
    <2>3. CASE \E u \in Threads : curconn[u] = d
      BY <1>0, <1>2, <2>3 DEF PoolInv, PoolTypeOK
    <2>4. QED
      BY <2>1, <2>2, <2>3 DEF PoolInv, NoLeak
  <1>6. NextCountsHolders'
    BY <1>0, <1>1, <1>2, HoldersGrow DEF PoolInv, NextCountsHolders
  <1>7. NoLostWakeup'
    BY DEF PoolInv, PopTake, NoLostWakeup, PoolTypeOK
  <1>8. OnlyRunningHold'
    BY <1>2 DEF PoolInv, PopTake, OnlyRunningHold, Holders, PoolTypeOK
  <1>9. QED
    BY <1>3, <1>4, <1>5, <1>6, <1>7, <1>8 DEF PoolInv

LEMMA EndEventKeepsInv ==
  ASSUME PoolInv, NEW t \in Threads, EndEvent(t)
  PROVE  PoolInv'
  <1> USE PoolSizeAssumption, NoConnAssumption
  <1>1. CASE curconn[t] = NoConn
    <2>1. curconn' = curconn
      BY <1>1 DEF EndEvent, PoolInv, PoolTypeOK
    <2>2. PoolTypeOK' /\ NoLostWakeup' /\ OnlyRunningHold'
      BY <1>1, <2>1
      DEF EndEvent, PoolInv, PoolTypeOK, NoLostWakeup, OnlyRunningHold, Holders
    <2>3. QED
      BY <1>1, <2>1, <2>2, IdleStepKeepsInv DEF EndEvent
  <1>2. CASE curconn[t] # NoConn
    <2> DEFINE c == curconn[t]
    <2>1. curconn' = [curconn EXCEPT ![t] = NoConn] /\ waiting' = {}
          /\ next' = next - 1 /\ connstack' = [connstack EXCEPT ![next - 1] = c]
      BY <1>2 DEF EndEvent, Push
    <2>2. /\ next > 0
          /\ Cardinality(Holders') = next - 1
      BY <1>2, <2>1, HoldersShrink DEF PoolInv
    <2>3. c \in Conns /\ next - 1 \in Slots
      BY <1>2, <2>2 DEF PoolInv, PoolTypeOK, Slots
    <2>4. \A i \in FreeSlots' :
            /\ i = next - 1 \/ i \in FreeSlots
            /\ connstack'[i] = IF i = next - 1 THEN c ELSE connstack[i]
      BY <2>1, <2>3 DEF PoolInv, PoolTypeOK, FreeSlots, Slots
    <2>5. next - 1 \in FreeSlots' /\ \A i \in FreeSlots : i \in FreeSlots' /\ i # next - 1
      BY <2>1, <2>3 DEF PoolInv, PoolTypeOK, FreeSlots, Slots
    <2>6. \A u \in Threads : curconn'[u] = IF u = t THEN NoConn ELSE curconn[u]
      BY <2>1 DEF PoolInv, PoolTypeOK
    <2>7. PoolTypeOK'
      BY <1>2, <2>1, <2>2, <2>3 DEF EndEvent, PoolInv, PoolTypeOK
    <2>8. NoDoubleLending'
      <3>1. \A u, v \in Holders' : curconn'[u] = curconn'[v] => u = v
        BY <2>6 DEF PoolInv, NoDoubleLending, Holders
      <3>2. \A i, j \in FreeSlots' : connstack'[i] = connstack'[j] => i = j
        BY <2>4 DEF PoolInv, NoDoubleLending
      <3>3. \A u \in Threads : curconn'[u] # c
        BY <1>2, <2>6 DEF PoolInv, NoDoubleLending, Holders
      <3>4. \A i \in FreeSlots : connstack[i] # NoConn
        BY DEF PoolInv, PoolTypeOK, FreeSlots, Slots
      <3>5. \A i \in FreeSlots', u \in Threads : connstack'[i] # curconn'[u]
        BY <2>4, <2>6, <3>3, <3>4 DEF PoolInv, NoDoubleLending
      <3>6. QED
        BY <3>1, <3>2, <3>5 DEF NoDoubleLending
    <2>9. NoLeak'
      <3> SUFFICES ASSUME NEW d \in Conns
                   PROVE  \/ \E i \in FreeSlots' : connstack'[i] = d
                          \/ \E u \in Threads : curconn'[u] = d
        BY DEF NoLeak
      <3>1. CASE d = c
        BY <2>4, <2>5, <3>1
      <3>2. CASE d # c
        BY <2>4, <2>5, <2>6, <3>2 DEF PoolInv, NoLeak
      <3>3. QED
        BY <3>1, <3>2
    <2>10. NextCountsHolders' /\ NoLostWakeup'
      BY <2>1, <2>2 DEF NextCountsHolders, NoLostWakeup
    <2>11. OnlyRunningHold'
      BY <2>6 DEF EndEvent, PoolInv, PoolTypeOK, OnlyRunningHold, Holders
    <2>12. QED
      BY <2>7, <2>8, <2>9, <2>10, <2>11 DEF PoolInv
  <1>3. QED
    BY <1>1, <1>2

LEMMA PoolInvNext == PoolInv /\ [PoolNext]_poolvars => PoolInv'
  <1> SUFFICES ASSUME PoolInv, [PoolNext]_poolvars PROVE PoolInv'
    OBVIOUS
  <1>1. CASE ToggleArrivals
    <2>1. PoolTypeOK' /\ NoLostWakeup' /\ OnlyRunningHold'
      BY <1>1 DEF ToggleArrivals, PoolInv, PoolTypeOK, NoLostWakeup,
                  OnlyRunningHold, Holders
    <2>2. QED
      BY <1>1, <2>1, IdleStepKeepsInv DEF ToggleArrivals
  <1>2. ASSUME NEW t \in Threads, BeginEvent(t) \/ CallPop(t)
        PROVE  PoolInv'
    <2>1. evt[t] # "popping" /\ UNCHANGED <<connstack, next, curconn, waiting, arriving>>
      BY <1>2 DEF BeginEvent, CallPop
    <2>2. curconn[t] = NoConn
      BY <1>2 DEF BeginEvent, CallPop, PoolInv, OnlyRunningHold, Holders
    <2>3. PoolTypeOK'
      BY <1>2, <2>1 DEF BeginEvent, CallPop, PoolInv, PoolTypeOK
    <2>4. NoLostWakeup' /\ OnlyRunningHold'
      BY <1>2, <2>1, <2>2 DEF BeginEvent, CallPop, PoolInv, PoolTypeOK, NoLostWakeup,
                              OnlyRunningHold, Holders
    <2>5. QED
      BY <2>1, <2>3, <2>4, IdleStepKeepsInv
  <1>3. ASSUME NEW t \in Threads, PopWait(t) \/ SpuriousWakeup(t)
        PROVE  PoolInv'
    <2>1. UNCHANGED <<connstack, next, curconn, evt, arriving>>
      BY <1>3 DEF PopWait, SpuriousWakeup
    <2>2. PoolTypeOK' /\ NoLostWakeup' /\ OnlyRunningHold'
      BY <1>3, <2>1 DEF PopWait, SpuriousWakeup, PoolInv, PoolTypeOK, NoLostWakeup,
                        OnlyRunningHold, Holders
    <2>3. QED
      BY <2>1, <2>2, IdleStepKeepsInv
  <1>4. ASSUME NEW t \in Threads, PopTake(t)
        PROVE  PoolInv'
    BY <1>4, PopTakeKeepsInv
  <1>5. ASSUME NEW t \in Threads, EndEvent(t)
        PROVE  PoolInv'
    BY <1>5, EndEventKeepsInv
  <1>6. CASE UNCHANGED poolvars
    BY <1>6 DEF poolvars, PoolInv, PoolTypeOK, NoDoubleLending, NoLeak,
                NextCountsHolders, NoLostWakeup, OnlyRunningHold, Holders, FreeSlots
  <1>7. QED
    BY <1>1, <1>2, <1>3, <1>4, <1>5, <1>6 DEF PoolNext, PoolStep

-----------------------------------------------------------------------------
(* The inductive invariant holds of the pool whatever the number of threads *)
(* and connections: the three facts the theorems below rest on.              *)
LEMMA PoolInvariance == PoolSafety => []PoolInv
  BY PoolInvInit, PoolInvNext, PTL DEF PoolSafety

(* The pool's variables keep their types; next stays within the stack.       *)
THEOREM PoolTypeCorrect == PoolSafety => []PoolTypeOK
  <1>1. PoolInv => PoolTypeOK
    BY DEF PoolInv
  <1>2. QED
    BY <1>1, PoolInvariance, PTL

(* No two events ever hold the same connection, and no held one is free.     *)
THEOREM NeverLentTwice == PoolSafety => []NoDoubleLending
  <1>1. PoolInv => NoDoubleLending
    BY DEF PoolInv
  <1>2. QED
    BY <1>1, PoolInvariance, PTL

(* Every connection is in a free slot or in an event's hands.                 *)
THEOREM NeverLeaked == PoolSafety => []NoLeak
  <1>1. PoolInv => NoLeak
    BY DEF PoolInv
  <1>2. QED
    BY <1>1, PoolInvariance, PTL

(* push's assertions next > 0 and next <= size (pool.cpp:102-103) hold for    *)
(* every event about to give its connection back.                             *)
THEOREM PushAssertionsHold ==
  PoolSafety => [](\A t \in Holders : next > 0 /\ next <= PoolSize)
  <1>1. ASSUME PoolInv, NEW t \in Holders
        PROVE  next > 0 /\ next <= PoolSize
    <2>1. IsFiniteSet(Holders) /\ Cardinality(Holders) # 0
      BY ThreadsAssumption, FS_Subset, FS_EmptySet DEF Holders
    <2>2. QED
      BY <1>1, <2>1, PoolSizeAssumption DEF PoolInv, NextCountsHolders, PoolTypeOK
  <1>2. PoolInv => \A t \in Holders : next > 0 /\ next <= PoolSize
    BY <1>1
  <1>3. QED
    BY <1>2, PoolInvariance, PTL

(* A thread sleeps in pop only while every connection is lent out.            *)
THEOREM SleepersHaveNoFreeConnection == PoolSafety => []NoLostWakeup
  <1>1. PoolInv => NoLostWakeup
    BY DEF PoolInv
  <1>2. QED
    BY <1>1, PoolInvariance, PTL

(* next is the number of events that hold a connection.                       *)
THEOREM NextIsHolderCount == PoolSafety => []NextCountsHolders
  <1>1. PoolInv => NextCountsHolders
    BY DEF PoolInv
  <1>2. QED
    BY <1>1, PoolInvariance, PTL

(* The pool is whole for any number of threads and connections, under every   *)
(* order of pops and pushes: all of the above at once.                        *)
THEOREM PoolStaysWhole == PoolSafety => []PoolSafe
  <1>1. PoolInv => PoolSafe
    BY DEF PoolInv, PoolSafe
  <1>2. QED
    BY <1>1, PoolInvariance, PTL

-----------------------------------------------------------------------------
(* Turbo's events. *)

TurboTypeOK ==
  /\ hpc \in [Threads -> {"idle", "flush", "clear", "ctor", "method", "unwind", "done"}]
  /\ xtions \in [Threads -> Seq(XtionType)]
  /\ autocommit \in [Conns -> BOOLEAN]
  /\ pending \in [Conns -> Nat]

(* Transactions are open in the handler only, or while its frame is left by an exception,    *)
(* and on the connection of their event.                                                     *)
XtionsInHandler ==
  \A t \in Threads : xtions[t] # <<>> =>
    curconn[t] # NoConn /\ hpc[t] \in {"ctor", "method", "unwind"}

(* What is not clean is some transaction's. *)
DirtyInXtion ==
  \A c \in Conns :
    (\A t \in Threads : curconn[t] = c => xtions[t] = <<>>) => autocommit[c] /\ pending[c] = 0

TurboInv == PoolInv /\ TurboTypeOK /\ XtionsInHandler /\ DirtyInXtion

-----------------------------------------------------------------------------
(* An event does with the pool what the pool lets it. *)
LEMMA TurboStepIsPoolStep == [TurboNext]_turboeventvars => [PoolNext]_poolvars
  <1> SUFFICES ASSUME [TurboNext]_turboeventvars PROVE [PoolNext]_poolvars
    OBVIOUS
  <1>1. CASE UNCHANGED turboeventvars
    BY <1>1 DEF turboeventvars, poolvars
  <1>2. ASSUME NEW t \in Threads, HandlerStep(t)
        PROVE  UNCHANGED poolvars
    BY <1>2 DEF HandlerStep, FlushCopy, FlushClear, AddNextNote, AddError, SetSession,
                ClearSession, Update, BeginXtion, SetCommit, LeaveXtion, Constructed, Return,
                Throw, Unwind, Catch
  <1>3. ASSUME NEW t \in Threads,
               \/ CallDb(t) \/ Pool(t) \/ End(t) \/ (SpuriousWakeup(t) /\ UNCHANGED turbovars)
               \/ \E s \in Sessions \cup {NoSession} : Begin(t, s)
        PROVE  PoolNext
    BY <1>3 DEF CallDb, Pool, End, Begin, PoolNext, PoolStep
  <1>4. QED
    BY <1>1, <1>2, <1>3 DEF TurboNext

-----------------------------------------------------------------------------
(* The steps that touch neither transactions nor what is on a connection. *)
LEMMA QuietStepKeepsClean ==
  ASSUME TurboInv, PoolInv', NEW t \in Threads,
         UNCHANGED <<curconn, xtions, autocommit, pending>>,
         hpc' = [hpc EXCEPT ![t] = hpc'[t]],
         hpc'[t] \in {"idle", "flush", "clear", "ctor", "method", "unwind", "done"},
         xtions[t] # <<>> => hpc'[t] \in {"ctor", "method", "unwind"}
  PROVE  TurboInv'
  BY DEF TurboInv, TurboTypeOK, XtionsInHandler, DirtyInXtion

(* A handler's step but for those of its transactions. *)
LEMMA HandlerKeepsClean ==
  ASSUME TurboInv, PoolInv', NEW t \in Threads,
         \/ FlushCopy(t) \/ FlushClear(t) \/ AddNextNote(t) \/ AddError(t) \/ SetSession(t)
         \/ ClearSession(t) \/ Constructed(t) \/ Return(t) \/ Throw(t) \/ Catch(t)
  PROVE  TurboInv'
  <1>1. UNCHANGED <<curconn, xtions, autocommit, pending>>
    BY DEF FlushCopy, FlushClear, AddNextNote, AddError, SetSession, ClearSession, Constructed,
           Return, Throw, Catch, xtionvars, poolvars
  <1>2. /\ hpc' = [hpc EXCEPT ![t] = hpc'[t]]
        /\ hpc'[t] \in {"idle", "flush", "clear", "ctor", "method", "unwind", "done"}
        /\ xtions[t] # <<>> => hpc'[t] \in {"ctor", "method", "unwind"}
    BY DEF TurboInv, TurboTypeOK, XtionsInHandler, FlushCopy, FlushClear, AddNextNote, AddError,
           SetSession, ClearSession, Constructed, Return, Throw, Catch, Handling, Call
  <1>3. QED
    BY <1>1, <1>2, QuietStepKeepsClean

(* The steps of a request outside its handler. *)
LEMMA PoolStepKeepsClean ==
  ASSUME TurboInv, PoolInv', NEW t \in Threads,
         \/ CallDb(t) \/ Pool(t) \/ End(t) \/ (SpuriousWakeup(t) /\ UNCHANGED turbovars)
         \/ \E s \in Sessions \cup {NoSession} : Begin(t, s)
  PROVE  TurboInv'
  <1> USE DEF TurboInv, TurboTypeOK
  <1>1. CASE CallDb(t) \/ (SpuriousWakeup(t) /\ UNCHANGED turbovars) \/ (PopWait(t) /\ UNCHANGED turbovars)
    BY <1>1 DEF CallDb, CallPop, SpuriousWakeup, PopWait, turbovars, xtionvars, XtionsInHandler,
                DirtyInXtion
  <1>2. CASE PopTake(t) /\ UNCHANGED turbovars
    <2>1. /\ curconn' = [curconn EXCEPT ![t] = connstack[next]] /\ curconn[t] = NoConn
          /\ UNCHANGED <<hpc, xtions, autocommit, pending>>
      BY <1>2 DEF PopTake, turbovars, xtionvars, PoolInv, OnlyRunningHold, Holders
    <2>2. connstack[next] # NoConn
      BY <1>2, NoConnAssumption, PoolSizeAssumption DEF PopTake, PoolInv, PoolTypeOK, Slots
    <2>3. QED
      BY <2>1, <2>2, NoConnAssumption DEF XtionsInHandler, DirtyInXtion, PoolInv, PoolTypeOK
  <1>3. CASE End(t)
    <2>1. /\ curconn' = [curconn EXCEPT ![t] = NoConn] /\ xtions[t] = <<>>
          /\ hpc' = [hpc EXCEPT ![t] = "idle"] /\ UNCHANGED <<xtions, autocommit, pending>>
      BY <1>3 DEF End, EndEvent, XtionsInHandler
    <2>2. QED
      BY <2>1 DEF XtionsInHandler, DirtyInXtion, PoolInv, PoolTypeOK
  <1>4. ASSUME NEW s \in Sessions \cup {NoSession}, Begin(t, s)
        PROVE  TurboInv'
    <2>1. /\ UNCHANGED <<curconn, xtions, autocommit, pending>> /\ curconn[t] = NoConn
          /\ hpc'[t] \in {"flush", "ctor"} /\ hpc' = [hpc EXCEPT ![t] = hpc'[t]]
      BY <1>4 DEF Begin, BeginEvent, xtionvars, PoolInv, OnlyRunningHold, Holders
    <2>2. QED
      BY <2>1, QuietStepKeepsClean DEF XtionsInHandler
  <1>5. QED
    BY <1>1, <1>2, <1>3, <1>4 DEF Pool

(* The end of a transaction cleans its connection, which is nobody else's. *)
LEMMA EndXtionKeepsClean ==
  ASSUME TurboInv, PoolInv', NEW t \in Threads, NEW thrown \in BOOLEAN,
         EndXtion(t, thrown), UNCHANGED <<hpc, curconn>>
  PROVE  TurboInv'
  <1>1. /\ xtions[t] # <<>> /\ curconn[t] \in Conns /\ hpc[t] \in {"ctor", "method", "unwind"}
        /\ xtions' = [xtions EXCEPT ![t] = Front(xtions[t])] /\ Front(xtions[t]) \in Seq(XtionType)
        /\ autocommit' = [autocommit EXCEPT ![curconn[t]] = TRUE]
        /\ pending' = [pending EXCEPT ![curconn[t]] = 0]
    BY DEF TurboInv, TurboTypeOK, XtionsInHandler, EndXtion, Front, Conn, PoolInv, PoolTypeOK
  <1>2. TurboTypeOK'
    BY <1>1 DEF TurboInv, TurboTypeOK
  <1>3. XtionsInHandler'
    BY <1>1, NoConnAssumption DEF TurboInv, TurboTypeOK, XtionsInHandler
  <1>4. DirtyInXtion'
    BY <1>1 DEF TurboInv, TurboTypeOK, DirtyInXtion
  <1>5. QED
    BY <1>2, <1>3, <1>4 DEF TurboInv

(* The handler's statements and transactions. *)
LEMMA XtionKeepsClean ==
  ASSUME TurboInv, PoolInv', NEW t \in Threads,
         \/ Update(t) \/ (\E b \in BOOLEAN : BeginXtion(t, b) \/ SetCommit(t, b))
         \/ LeaveXtion(t) \/ Unwind(t)
  PROVE  TurboInv'
  <1> USE DEF TurboInv, TurboTypeOK, Conn
  <1>0. curconn[t] # NoConn => curconn[t] \in Conns
    BY DEF PoolInv, PoolTypeOK
  <1>1. CASE Update(t)
    BY <1>0, <1>1 DEF Update, Call, Handling, poolvars, notevars, XtionsInHandler, DirtyInXtion
  <1>2. ASSUME NEW b \in BOOLEAN, BeginXtion(t, b)
        PROVE  TurboInv'
    <2>1. /\ UNCHANGED <<curconn, hpc, pending>> /\ curconn[t] \in Conns
          /\ hpc[t] \in {"ctor", "method"}
          /\ autocommit' = [autocommit EXCEPT ![curconn[t]] = FALSE]
          /\ xtions' = [xtions EXCEPT ![t] = Append(xtions[t], [userset |-> FALSE, commit |-> b])]
          /\ Append(xtions[t], [userset |-> FALSE, commit |-> b]) \in Seq(XtionType)
      BY <1>0, <1>2 DEF BeginXtion, Call, Handling, poolvars, XtionType
    <2>2. xtions'[t] # <<>>
      BY <2>1
    <2>3. QED
      BY <2>1, <2>2, NoConnAssumption DEF XtionsInHandler, DirtyInXtion
  <1>3. ASSUME NEW b \in BOOLEAN, SetCommit(t, b)
        PROVE  TurboInv'
    <2>1. /\ UNCHANGED <<curconn, hpc, pending, autocommit>> /\ xtions[t] # <<>>
          /\ xtions' = [xtions EXCEPT ![t] = Append(Front(xtions[t]), [userset |-> TRUE, commit |-> b])]
          /\ Front(xtions[t]) \in Seq(XtionType)
      BY <1>3 DEF SetCommit, Call, poolvars, Front
    <2>x. [userset |-> TRUE, commit |-> b] \in XtionType
      BY DEF XtionType
    <2>2. xtions'[t] # <<>> /\ xtions'[t] \in Seq(XtionType)
      BY <2>1, <2>x
    <2>3. QED
      BY <2>1, <2>2 DEF XtionsInHandler, DirtyInXtion
  <1>4. CASE LeaveXtion(t)
    BY <1>4, EndXtionKeepsClean DEF LeaveXtion, poolvars
  <1>5. CASE Unwind(t)
    BY <1>5, EndXtionKeepsClean DEF Unwind, poolvars
  <1>6. QED
    BY <1>1, <1>2, <1>3, <1>4, <1>5

-----------------------------------------------------------------------------
(* Nothing is dirty at first. *)
LEMMA TurboInvInit == TurboInit => TurboInv
  BY PoolInvInit
  DEF TurboInit, TurboInv, TurboTypeOK, XtionsInHandler, DirtyInXtion

(* Every step keeps the invariant. *)
LEMMA TurboInvStep == TurboInv /\ [TurboNext]_turboeventvars => TurboInv'
  <1> SUFFICES ASSUME TurboInv, [TurboNext]_turboeventvars PROVE TurboInv'
    OBVIOUS
  <1>1. PoolInv'
    BY TurboStepIsPoolStep, PoolInvNext DEF TurboInv
  <1>2. CASE UNCHANGED turboeventvars
    BY <1>1, <1>2
    DEF turboeventvars, poolvars, turbovars, xtionvars, TurboInv, TurboTypeOK, XtionsInHandler,
        DirtyInXtion
  <1>3. CASE TurboNext
    BY <1>1, <1>3, HandlerKeepsClean, PoolStepKeepsClean, XtionKeepsClean
    DEF TurboNext, HandlerStep
  <1>4. QED
    BY <1>2, <1>3

(* The invariant holds throughout. *)
LEMMA TurboInvHolds == TurboSpec => []TurboInv
  BY TurboInvInit, TurboInvStep, PTL DEF TurboSpec

(* Turbo's events are events of the pool: what is proved of the pool holds with them. *)
THEOREM EventsUseThePool == TurboSpec => PoolSafety
  <1>1. TurboInit => PoolInit
    BY DEF TurboInit
  <1>2. QED
    BY <1>1, TurboStepIsPoolStep, PTL DEF TurboSpec, PoolSafety

(* A connection in the pool has no open transaction and no update that waits for a commit,   *)
(* however handlers end, throw and nest transactions (turbo_xtion, turboreactor.cpp's events *)
(* and db/pool.cpp's push).                                                                  *)
THEOREM ConnectionsComeBackClean == TurboSpec => []PooledConnectionsAreClean
  <1>1. TurboInv => PooledConnectionsAreClean
    BY DEF TurboInv, DirtyInXtion, PooledConnectionsAreClean
  <1>2. QED
    BY <1>1, TurboInvHolds, PTL

-----------------------------------------------------------------------------
(* How far the outermost transaction of a thread has come, as long as none is opened in it. *)
AtomicTypeOK ==
  /\ work \in [Threads -> Nat] /\ visible \in [Threads -> Nat]
  /\ fate \in [Threads -> FateType]

(* One that is open is the only one, on a connection whose updates wait and are its own.     *)
OpenAndUnseen(t) ==
  /\ Len(xtions[t]) = 1
  /\ ~autocommit[curconn[t]] /\ pending[curconn[t]] = work[t] /\ visible[t] = 0
  /\ xtions[t][1].userset => fate[t].decided
  /\ fate[t].thrown <=> hpc[t] = "unwind"

(* One that has ended. *)
EndedAtOnce(t) ==
  /\ visible[t] \in {0, work[t]}
  /\ fate[t].thrown /\ ~fate[t].decided => visible[t] = 0

XtionProgress ==
  \A t \in Threads : ~fate[t].nested =>
    IF xtions[t] # <<>> THEN OpenAndUnseen(t) ELSE EndedAtOnce(t)

AtomicInv == AtomicTypeOK /\ XtionProgress

-----------------------------------------------------------------------------
(* Another thread's step changes nothing of a transaction: their connections differ. *)
LEMMA OthersKeepProgress ==
  ASSUME TurboInv, AtomicInv, NEW t \in Threads, NEW u \in Threads \ {t},
         ~fate[u].nested,
         UNCHANGED <<curconn[u], hpc[u], xtions[u], work[u], visible[u], fate[u]>>,
         curconn[u] # NoConn /\ curconn[u] # curconn[t] =>
           UNCHANGED <<autocommit[curconn[u]], pending[curconn[u]]>>
  PROVE  IF xtions'[u] # <<>> THEN OpenAndUnseen(u)' ELSE EndedAtOnce(u)'
  <1>1. CASE xtions[u] = <<>>
    BY <1>1 DEF AtomicInv, XtionProgress, EndedAtOnce
  <1>2. CASE xtions[u] # <<>>
    <2>1. curconn[u] # NoConn /\ curconn[u] # curconn[t]
      BY <1>2 DEF TurboInv, XtionsInHandler, PoolInv, NoDoubleLending, Holders
    <2>2. QED
      BY <1>2, <2>1 DEF AtomicInv, XtionProgress, OpenAndUnseen
  <1>3. QED
    BY <1>1, <1>2

(* The end of a transaction publishes all of it or nothing. *)
LEMMA EndXtionKeepsProgress ==
  ASSUME TurboInv, AtomicInv, NEW t \in Threads, NEW thrown \in BOOLEAN,
         EndXtion(t, thrown), UNCHANGED <<hpc, curconn>>, thrown <=> hpc[t] = "unwind"
  PROVE  AtomicInv'
  <1>1. /\ xtions[t] \in Seq(XtionType) /\ xtions[t] # <<>> /\ curconn[t] \in Conns
        /\ xtions' = [xtions EXCEPT ![t] = Front(xtions[t])]
        /\ autocommit' = [autocommit EXCEPT ![curconn[t]] = TRUE]
        /\ pending' = [pending EXCEPT ![curconn[t]] = 0]
        /\ UNCHANGED <<work, fate>>
        /\ visible' = IF Commits(Last(xtions[t]), thrown)
                      THEN [visible EXCEPT ![t] = visible[t] + pending[curconn[t]]] ELSE visible
    BY DEF TurboInv, TurboTypeOK, XtionsInHandler, EndXtion, Conn, PoolInv, PoolTypeOK
  <1>2. AtomicTypeOK'
    BY <1>1 DEF TurboInv, TurboTypeOK, AtomicInv, AtomicTypeOK
  <1>3. ASSUME ~fate[t].nested
        PROVE  IF xtions'[t] # <<>> THEN OpenAndUnseen(t)' ELSE EndedAtOnce(t)'
    <2>1. OpenAndUnseen(t)
      BY <1>1, <1>3 DEF AtomicInv, XtionProgress
    <2>2. Front(xtions[t]) = <<>> /\ Last(xtions[t]) = xtions[t][1]
      BY <1>1, <2>1 DEF OpenAndUnseen, Front, Last
    <2>3. xtions'[t] = <<>> /\ visible'[t] = IF Commits(xtions[t][1], thrown) THEN work[t] ELSE 0
      BY <1>1, <2>1, <2>2 DEF OpenAndUnseen, TurboInv, TurboTypeOK, AtomicInv, AtomicTypeOK
    <2>4. fate[t].thrown /\ ~fate[t].decided => ~Commits(xtions[t][1], thrown)
      BY <2>1 DEF OpenAndUnseen, Commits
    <2>5. QED
      BY <1>1, <2>3, <2>4 DEF EndedAtOnce
  <1>4. ASSUME NEW u \in Threads \ {t}, ~fate[u].nested
        PROVE  IF xtions'[u] # <<>> THEN OpenAndUnseen(u)' ELSE EndedAtOnce(u)'
    <2>1. /\ UNCHANGED <<curconn[u], hpc[u], xtions[u], work[u], visible[u], fate[u]>>
          /\ curconn[u] # NoConn /\ curconn[u] # curconn[t] =>
               UNCHANGED <<autocommit[curconn[u]], pending[curconn[u]]>>
      BY <1>1 DEF TurboInv, TurboTypeOK, AtomicInv, AtomicTypeOK, PoolInv, PoolTypeOK
    <2>2. QED
      BY <1>4, <2>1, OthersKeepProgress
  <1>5. QED
    BY <1>1, <1>2, <1>3, <1>4 DEF AtomicInv, XtionProgress

(* An update waits, or is seen at once outside of transactions. *)
LEMMA UpdateKeepsProgress ==
  ASSUME TurboInv, AtomicInv, NEW t \in Threads, Update(t)
  PROVE  AtomicInv'
  <1>1. /\ UNCHANGED <<hpc, curconn, xtions, autocommit, fate>> /\ curconn[t] \in Conns
        /\ pending' = IF autocommit[curconn[t]] THEN pending
                      ELSE [pending EXCEPT ![curconn[t]] = pending[curconn[t]] + 1]
        /\ visible' = IF autocommit[curconn[t]] /\ xtions[t] # <<>>
                      THEN [visible EXCEPT ![t] = visible[t] + 1] ELSE visible
        /\ work' = IF xtions[t] # <<>> THEN [work EXCEPT ![t] = work[t] + 1] ELSE work
    BY DEF Update, Call, Conn, poolvars, notevars, TurboInv, TurboTypeOK, AtomicInv, AtomicTypeOK,
           PoolInv, PoolTypeOK
  <1>2. AtomicTypeOK'
    BY <1>1 DEF AtomicInv, AtomicTypeOK
  <1>3. ASSUME ~fate[t].nested
        PROVE  IF xtions'[t] # <<>> THEN OpenAndUnseen(t)' ELSE EndedAtOnce(t)'
    BY <1>1, <1>3
    DEF AtomicInv, AtomicTypeOK, XtionProgress, OpenAndUnseen, EndedAtOnce, TurboInv, TurboTypeOK
  <1>4. ASSUME NEW u \in Threads \ {t}, ~fate[u].nested
        PROVE  IF xtions'[u] # <<>> THEN OpenAndUnseen(u)' ELSE EndedAtOnce(u)'
    <2>1. /\ UNCHANGED <<curconn[u], hpc[u], xtions[u], work[u], visible[u], fate[u]>>
          /\ curconn[u] # NoConn /\ curconn[u] # curconn[t] =>
               UNCHANGED <<autocommit[curconn[u]], pending[curconn[u]]>>
      BY <1>1 DEF TurboInv, TurboTypeOK, AtomicInv, AtomicTypeOK, PoolInv, PoolTypeOK
    <2>2. QED
      BY <1>4, <2>1, OthersKeepProgress
  <1>5. QED
    BY <1>1, <1>2, <1>3, <1>4 DEF AtomicInv, XtionProgress

(* A transaction begins on a clean connection, or in another one. *)
LEMMA BeginXtionKeepsProgress ==
  ASSUME TurboInv, AtomicInv, NEW t \in Threads, NEW b \in BOOLEAN, BeginXtion(t, b)
  PROVE  AtomicInv'
  <1> DEFINE new == [userset |-> FALSE, commit |-> b]
  <1>1. /\ UNCHANGED <<hpc, curconn, pending>> /\ curconn[t] \in Conns
        /\ hpc[t] \in {"ctor", "method"} /\ xtions[t] \in Seq(XtionType)
        /\ xtions' = [xtions EXCEPT ![t] = Append(xtions[t], new)]
        /\ autocommit' = [autocommit EXCEPT ![curconn[t]] = FALSE]
    BY DEF BeginXtion, Call, Handling, Conn, poolvars, notevars, TurboInv, TurboTypeOK, PoolInv,
           PoolTypeOK
  <1>2. CASE xtions[t] = <<>>
    <2>1. /\ work' = [work EXCEPT ![t] = 0] /\ visible' = [visible EXCEPT ![t] = 0]
          /\ fate' = [fate EXCEPT ![t] = NoFate]
      BY <1>2 DEF BeginXtion
    <2>2. \A u \in Threads : curconn[u] = curconn[t] => xtions[u] = <<>>
      BY <1>1, <1>2, NoConnAssumption DEF TurboInv, PoolInv, NoDoubleLending, Holders
    <2>3. pending[curconn[t]] = 0
      BY <1>1, <2>2 DEF TurboInv, DirtyInXtion
    <2>4. NoFate \in FateType /\ ~NoFate.thrown
      BY DEF NoFate, FateType
    <2>5. Len(xtions'[t]) = 1 /\ ~xtions'[t][1].userset
      BY <1>1, <1>2 DEF TurboInv, TurboTypeOK
    <2>6. AtomicTypeOK'
      BY <2>1, <2>4 DEF AtomicInv, AtomicTypeOK
    <2>7. OpenAndUnseen(t)'
      BY <1>1, <2>1, <2>3, <2>4, <2>5
      DEF OpenAndUnseen, AtomicInv, AtomicTypeOK, TurboInv, TurboTypeOK
    <2>8. xtions'[t] # <<>>
      BY <2>5
    <2>9. ASSUME NEW u \in Threads \ {t}, ~fate'[u].nested
          PROVE  IF xtions'[u] # <<>> THEN OpenAndUnseen(u)' ELSE EndedAtOnce(u)'
      <3>1. /\ UNCHANGED <<curconn[u], hpc[u], xtions[u], work[u], visible[u], fate[u]>>
            /\ curconn[u] # NoConn /\ curconn[u] # curconn[t] =>
                 UNCHANGED <<autocommit[curconn[u]], pending[curconn[u]]>>
        BY <1>1, <2>1 DEF TurboInv, TurboTypeOK, AtomicInv, AtomicTypeOK, PoolInv, PoolTypeOK
      <3>2. QED
        BY <2>9, <3>1, OthersKeepProgress
    <2>10. QED
      BY <2>6, <2>7, <2>8, <2>9 DEF AtomicInv, XtionProgress
  <1>3. CASE xtions[t] # <<>>
    <2>1. UNCHANGED <<work, visible>> /\ fate' = [fate EXCEPT ![t].nested = TRUE]
      BY <1>3 DEF BeginXtion
    <2>2. AtomicTypeOK' /\ fate'[t].nested
      BY <2>1 DEF AtomicInv, AtomicTypeOK, FateType
    <2>3. ASSUME NEW u \in Threads \ {t}, ~fate'[u].nested
          PROVE  IF xtions'[u] # <<>> THEN OpenAndUnseen(u)' ELSE EndedAtOnce(u)'
      <3>1. /\ UNCHANGED <<curconn[u], hpc[u], xtions[u], work[u], visible[u], fate[u]>>
            /\ curconn[u] # NoConn /\ curconn[u] # curconn[t] =>
                 UNCHANGED <<autocommit[curconn[u]], pending[curconn[u]]>>
        BY <1>1, <2>1 DEF TurboInv, TurboTypeOK, AtomicInv, AtomicTypeOK, PoolInv, PoolTypeOK
      <3>2. QED
        BY <2>3, <3>1, OthersKeepProgress
    <2>4. QED
      BY <2>2, <2>3 DEF AtomicInv, XtionProgress
  <1>4. QED
    BY <1>2, <1>3

(* The handler decides about the innermost. *)
LEMMA SetCommitKeepsProgress ==
  ASSUME TurboInv, AtomicInv, NEW t \in Threads, NEW b \in BOOLEAN, SetCommit(t, b)
  PROVE  AtomicInv'
  <1> DEFINE set == [userset |-> TRUE, commit |-> b]
  <1>1. /\ UNCHANGED <<hpc, curconn, autocommit, pending, work, visible>>
        /\ hpc[t] \in {"ctor", "method"}
        /\ xtions[t] \in Seq(XtionType) /\ xtions[t] # <<>>
        /\ xtions' = [xtions EXCEPT ![t] = Append(Front(xtions[t]), set)]
        /\ fate' = [fate EXCEPT ![t].decided = TRUE]
    BY DEF SetCommit, Call, Handling, poolvars, notevars, TurboInv, TurboTypeOK
  <1>2. AtomicTypeOK' /\ fate'[t].decided
        /\ fate'[t].nested = fate[t].nested /\ fate'[t].thrown = fate[t].thrown
    BY <1>1 DEF AtomicInv, AtomicTypeOK, FateType
  <1>3. Len(xtions'[t]) = Len(xtions[t]) /\ xtions'[t] # <<>>
    <2>1. Front(xtions[t]) \in Seq(XtionType) /\ Len(Front(xtions[t])) = Len(xtions[t]) - 1
      BY <1>1 DEF Front
    <2>2. xtions'[t] = Append(Front(xtions[t]), set)
      BY <1>1 DEF TurboInv, TurboTypeOK
    <2>3. set \in XtionType
      BY DEF XtionType
    <2>4. PICK rest \in Seq(XtionType) : rest = Front(xtions[t])
      BY <2>1
    <2>5. PICK all \in Seq(XtionType) : all = xtions[t]
      BY <1>1
    <2>6. Len(rest) \in Nat /\ Len(rest) = Len(all) - 1
      BY <2>1, <2>4, <2>5
    <2>7. Len(Append(rest, set)) = Len(all) /\ Append(rest, set) # <<>>
      BY <2>3, <2>6
    <2>8. QED
      BY <2>2, <2>4, <2>5, <2>7
  <1>4. ASSUME ~fate'[t].nested
        PROVE  OpenAndUnseen(t)'
    BY <1>1, <1>2, <1>3, <1>4 DEF AtomicInv, XtionProgress, OpenAndUnseen
  <1>5. ASSUME NEW u \in Threads \ {t}, ~fate'[u].nested
        PROVE  IF xtions'[u] # <<>> THEN OpenAndUnseen(u)' ELSE EndedAtOnce(u)'
    <2>1. /\ UNCHANGED <<curconn[u], hpc[u], xtions[u], work[u], visible[u], fate[u]>>
          /\ UNCHANGED <<autocommit[curconn[u]], pending[curconn[u]]>>
      BY <1>1 DEF TurboInv, TurboTypeOK, AtomicInv, AtomicTypeOK
    <2>2. QED
      BY <1>5, <2>1, OthersKeepProgress
  <1>6. QED
    BY <1>2, <1>3, <1>4, <1>5 DEF AtomicInv, XtionProgress

(* The steps that are about the pool, the notes or the way through the handler. *)
LEMMA OtherStepsKeepProgress ==
  ASSUME TurboInv, AtomicInv, NEW t \in Threads,
         UNCHANGED <<xtions, autocommit, pending, work, visible, fate>>,
         curconn' = [curconn EXCEPT ![t] = curconn'[t]],
         hpc' = [hpc EXCEPT ![t] = hpc'[t]],
         xtions[t] # <<>> => UNCHANGED <<curconn[t], hpc[t]>>
  PROVE  AtomicInv'
  <1>1. AtomicTypeOK'
    BY DEF AtomicInv, AtomicTypeOK
  <1>2. ASSUME ~fate[t].nested
        PROVE  IF xtions'[t] # <<>> THEN OpenAndUnseen(t)' ELSE EndedAtOnce(t)'
    BY <1>2 DEF AtomicInv, XtionProgress, OpenAndUnseen, EndedAtOnce
  <1>3. ASSUME NEW u \in Threads \ {t}, ~fate[u].nested
        PROVE  IF xtions'[u] # <<>> THEN OpenAndUnseen(u)' ELSE EndedAtOnce(u)'
    <2>1. UNCHANGED <<curconn[u], hpc[u]>>
      BY DEF TurboInv, TurboTypeOK, PoolInv, PoolTypeOK
    <2>2. UNCHANGED <<xtions[u], work[u], visible[u], fate[u],
                      autocommit[curconn[u]], pending[curconn[u]]>>
      BY <2>1
    <2>3. QED
      BY <1>3, <2>1, <2>2, OthersKeepProgress
  <1>4. QED
    BY <1>1, <1>2, <1>3 DEF AtomicInv, XtionProgress

(* An exception, and the end of a request. *)
LEMMA ThrowAndEndKeepProgress ==
  ASSUME TurboInv, AtomicInv, NEW t \in Threads, Throw(t) \/ End(t)
  PROVE  AtomicInv'
  <1>0. NoFate \in FateType /\ ~NoFate.thrown
    BY DEF NoFate, FateType
  <1>1. CASE Throw(t)
    <2>1. /\ UNCHANGED <<curconn, xtions, autocommit, pending, work, visible>>
          /\ hpc' = [hpc EXCEPT ![t] = "unwind"]
          /\ fate' = [fate EXCEPT ![t].thrown = xtions[t] # <<>>]
      BY <1>1 DEF Throw, poolvars
    <2>2. AtomicTypeOK'
      BY <2>1 DEF AtomicInv, AtomicTypeOK, FateType
    <2>3. ASSUME ~fate'[t].nested
          PROVE  IF xtions'[t] # <<>> THEN OpenAndUnseen(t)' ELSE EndedAtOnce(t)'
      BY <2>1, <2>3
      DEF AtomicInv, AtomicTypeOK, FateType, XtionProgress, OpenAndUnseen, EndedAtOnce, TurboInv,
          TurboTypeOK
    <2>4. ASSUME NEW u \in Threads \ {t}, ~fate'[u].nested
          PROVE  IF xtions'[u] # <<>> THEN OpenAndUnseen(u)' ELSE EndedAtOnce(u)'
      <3>1. UNCHANGED <<curconn[u], hpc[u], xtions[u], work[u], visible[u], fate[u],
                        autocommit[curconn[u]], pending[curconn[u]]>>
        BY <2>1 DEF TurboInv, TurboTypeOK, AtomicInv, AtomicTypeOK
      <3>2. QED
        BY <2>4, <3>1, OthersKeepProgress
    <2>5. QED
      BY <2>2, <2>3, <2>4 DEF AtomicInv, XtionProgress
  <1>2. CASE End(t)
    <2>1. /\ UNCHANGED <<xtions, autocommit, pending>> /\ xtions[t] = <<>>
          /\ curconn' = [curconn EXCEPT ![t] = NoConn] /\ hpc' = [hpc EXCEPT ![t] = "idle"]
          /\ work' = [work EXCEPT ![t] = 0] /\ visible' = [visible EXCEPT ![t] = 0]
          /\ fate' = [fate EXCEPT ![t] = NoFate]
      BY <1>2 DEF End, EndEvent, TurboInv, XtionsInHandler
    <2>2. AtomicTypeOK'
      BY <1>0, <2>1 DEF AtomicInv, AtomicTypeOK
    <2>3. xtions'[t] = <<>> /\ EndedAtOnce(t)'
      BY <1>0, <2>1 DEF AtomicInv, AtomicTypeOK, EndedAtOnce
    <2>4. ASSUME NEW u \in Threads \ {t}, ~fate'[u].nested
          PROVE  IF xtions'[u] # <<>> THEN OpenAndUnseen(u)' ELSE EndedAtOnce(u)'
      <3>1. UNCHANGED <<curconn[u], hpc[u], xtions[u], work[u], visible[u], fate[u]>>
        BY <2>1 DEF TurboInv, TurboTypeOK, AtomicInv, AtomicTypeOK, PoolInv, PoolTypeOK
      <3>2. UNCHANGED <<autocommit[curconn[u]], pending[curconn[u]]>>
        BY <2>1, <3>1
      <3>3. QED
        BY <2>4, <3>1, <3>2, OthersKeepProgress
    <2>5. QED
      BY <2>2, <2>3, <2>4 DEF AtomicInv, XtionProgress
  <1>3. QED
    BY <1>1, <1>2

(* Every step keeps the progress. *)
LEMMA AtomicStep ==
  ASSUME TurboInv, AtomicInv, NEW t \in Threads,
         \/ HandlerStep(t) \/ CallDb(t) \/ Pool(t) \/ End(t)
         \/ (SpuriousWakeup(t) /\ UNCHANGED turbovars)
         \/ \E s \in Sessions \cup {NoSession} : Begin(t, s)
  PROVE  AtomicInv'
  <1> USE DEF TurboInv, TurboTypeOK
  <1>1. CASE \/ FlushCopy(t) \/ FlushClear(t) \/ AddNextNote(t) \/ AddError(t) \/ SetSession(t)
             \/ ClearSession(t) \/ Constructed(t) \/ Return(t) \/ Catch(t)
    <2>1. UNCHANGED <<curconn, xtions, autocommit, pending, work, visible, fate>>
      BY <1>1 DEF FlushCopy, FlushClear, AddNextNote, AddError, SetSession, ClearSession,
                  Constructed, Return, Catch, xtionvars, poolvars
    <2>2. hpc' = [hpc EXCEPT ![t] = hpc'[t]] /\ (xtions[t] # <<>> => hpc'[t] = hpc[t])
      BY <1>1 DEF FlushCopy, FlushClear, AddNextNote, AddError, SetSession, ClearSession,
                  Constructed, Return, Catch, XtionsInHandler
    <2>3. curconn' = [curconn EXCEPT ![t] = curconn'[t]]
      BY <2>1 DEF PoolInv, PoolTypeOK
    <2>4. QED
      BY <2>1, <2>2, <2>3, OtherStepsKeepProgress
  <1>2. CASE \/ CallDb(t) \/ Pool(t) \/ (SpuriousWakeup(t) /\ UNCHANGED turbovars)
             \/ \E s \in Sessions \cup {NoSession} : Begin(t, s)
    <2>1. UNCHANGED <<xtions, autocommit, pending, work, visible, fate>>
      BY <1>2 DEF CallDb, Pool, Begin, turbovars, xtionvars
    <2>2. hpc' = [hpc EXCEPT ![t] = hpc'[t]]
      BY <1>2 DEF CallDb, Pool, Begin, turbovars
    <2>3. curconn' = [curconn EXCEPT ![t] = curconn'[t]]
      BY <1>2 DEF CallDb, CallPop, Pool, PopTake, PopWait, SpuriousWakeup, Begin, BeginEvent,
                  PoolInv, PoolTypeOK
    <2>4. xtions[t] # <<>> => UNCHANGED <<curconn[t], hpc[t]>>
      BY <1>2 DEF CallDb, CallPop, Pool, PopTake, PopWait, SpuriousWakeup, Begin, BeginEvent,
                  turbovars, XtionsInHandler, PoolInv, OnlyRunningHold, Holders
    <2>5. QED
      BY <2>1, <2>2, <2>3, <2>4, OtherStepsKeepProgress
  <1>3. CASE LeaveXtion(t)
    BY <1>3, EndXtionKeepsProgress DEF LeaveXtion, Handling, poolvars
  <1>4. CASE Unwind(t)
    BY <1>4, EndXtionKeepsProgress DEF Unwind, poolvars
  <1>5. QED
    BY <1>1, <1>2, <1>3, <1>4, UpdateKeepsProgress, BeginXtionKeepsProgress,
       SetCommitKeepsProgress, ThrowAndEndKeepProgress
    DEF HandlerStep

(* The updates of a transaction are seen by nobody before it ends, then all of them or none, *)
(* and none if an exception ended it before the handler had decided, for transactions that   *)
(* are not nested, whatever other events do on their connections (turbo_xtion).              *)
THEOREM XtionsAreAtomic == TurboSpec => []XtionIsAtomic
  <1>1. TurboInit => AtomicInv
    <2> SUFFICES ASSUME TurboInit PROVE AtomicInv
      OBVIOUS
    <2>1. NoFate \in FateType /\ ~NoFate.thrown
      BY DEF NoFate, FateType
    <2>2. AtomicTypeOK
      BY <2>1 DEF TurboInit, AtomicTypeOK
    <2>3. XtionProgress
      BY <2>1 DEF TurboInit, XtionProgress, EndedAtOnce
    <2>4. QED
      BY <2>2, <2>3 DEF AtomicInv
  <1>2. TurboInv /\ AtomicInv /\ [TurboNext]_turboeventvars => AtomicInv'
    <2> SUFFICES ASSUME TurboInv, AtomicInv, [TurboNext]_turboeventvars PROVE AtomicInv'
      OBVIOUS
    <2>1. CASE UNCHANGED turboeventvars
      BY <2>1 DEF turboeventvars, poolvars, turbovars, xtionvars, AtomicInv, AtomicTypeOK,
                  XtionProgress, OpenAndUnseen, EndedAtOnce
    <2>2. CASE TurboNext
      BY <2>2, AtomicStep DEF TurboNext
    <2>3. QED
      BY <2>1, <2>2
  <1>3. TurboInv /\ AtomicInv => XtionIsAtomic
    BY DEF TurboInv, AtomicInv, XtionProgress, OpenAndUnseen, EndedAtOnce, XtionIsAtomic
  <1>4. QED
    BY <1>1, <1>2, <1>3, TurboInvHolds, PTL DEF TurboSpec

-----------------------------------------------------------------------------
(* Notes, for requests of a session that follow each other. *)
NotesTypeOK ==
  /\ session \in [Threads -> Sessions \cup {NoSession}]
  /\ notes \in [Sessions -> SUBSET Notes]
  /\ shown \in [Threads -> SUBSET Notes] /\ mine \in [Threads -> SUBSET Notes]
  /\ owed \subseteq Notes

(* A session is one event's, and an event that does not run has none. *)
OneEventEach ==
  /\ \A t \in Threads : evt[t] = "none" => hpc[t] = "idle"
  /\ \A t \in Threads : hpc[t] = "idle" => session[t] = NoSession /\ shown[t] = {}
  /\ \A t, u \in Threads : session[t] = session[u] /\ session[t] # NoSession => t = u

(* flush_notes has a session, has queued nothing, and what it has copied and not cleared is   *)
(* what its session has, and owed no more.                                                    *)
FlushProgress ==
  \A t \in Threads :
    /\ hpc[t] \in {"flush", "clear"} => session[t] # NoSession
    /\ hpc[t] \in {"idle", "flush", "clear"} => mine[t] = {}
    /\ hpc[t] \in {"ctor", "method"} /\ session[t] # NoSession => notes[session[t]] \subseteq mine[t]
    /\ hpc[t] = "clear" => notes[session[t]] = shown[t] /\ owed \cap shown[t] = {}

(* A note is in one session or shown by one event. *)
NotesApart ==
  /\ \A n \in owed : \E s \in Sessions : n \in notes[s]
  /\ \A r, s \in Sessions : r # s => notes[r] \cap notes[s] = {}
  /\ \A t, u \in Threads : t # u => shown[t] \cap shown[u] = {}
  /\ \A t \in Threads, s \in Sessions :
       hpc[t] # "clear" \/ s # session[t] => shown[t] \cap notes[s] = {}

NotesInv == NotesTypeOK /\ OneEventEach /\ FlushProgress /\ NotesApart

-----------------------------------------------------------------------------
(* A request begins with a session that no other has. *)
LEMMA BeginKeepsNotes ==
  ASSUME TurboAssumption, ~Overlap, TurboInv, NotesInv, NEW t \in Threads,
         NEW s \in Sessions \cup {NoSession}, Begin(t, s)
  PROVE  NotesInv'
  <1> USE DEF NotesInv, TurboInv, TurboTypeOK
  <1>1. /\ UNCHANGED <<notes, shown, owed, mine>> /\ session' = [session EXCEPT ![t] = s]
        /\ evt' = [evt EXCEPT ![t] = "running"] /\ hpc[t] = "idle"
        /\ hpc' = [hpc EXCEPT ![t] = IF s # NoSession /\ notes[s] # {} THEN "flush" ELSE "ctor"]
        /\ s # NoSession => \A u \in Threads : hpc[u] # "idle" => session[u] # s
    BY DEF Begin, BeginEvent, Running, OneEventEach
  <1>2. NotesTypeOK'
    BY <1>1 DEF NotesTypeOK
  <1>3. OneEventEach'
    BY <1>1 DEF OneEventEach, NotesTypeOK, PoolInv, PoolTypeOK
  <1>4. FlushProgress'
    BY <1>1 DEF FlushProgress, NotesTypeOK
  <1>5. NotesApart'
    BY <1>1 DEF NotesApart, NotesTypeOK, OneEventEach
  <1>6. QED
    BY <1>2, <1>3, <1>4, <1>5

(* flush_notes. *)
LEMMA FlushKeepsNotes ==
  ASSUME TurboAssumption, TurboInv, NotesInv, NEW t \in Threads, FlushCopy(t) \/ FlushClear(t)
  PROVE  NotesInv'
  <1> USE DEF NotesInv, TurboInv, TurboTypeOK
  <1>0. session[t] \in Sessions
    BY DEF FlushCopy, FlushClear, FlushProgress, NotesTypeOK
  <1>1. CASE FlushCopy(t)
    <2>1. /\ UNCHANGED <<evt, session, notes, mine>> /\ hpc[t] = "flush"
          /\ shown' = [shown EXCEPT ![t] = notes[session[t]]]
          /\ owed' = owed \ notes[session[t]] /\ hpc' = [hpc EXCEPT ![t] = "clear"]
      BY <1>1 DEF FlushCopy, poolvars
    <2>2. NotesTypeOK' /\ OneEventEach'
      BY <1>0, <2>1 DEF NotesTypeOK, OneEventEach
    <2>3. FlushProgress'
      BY <1>0, <2>1 DEF FlushProgress, NotesTypeOK
    <2>4. NotesApart'
      BY <1>0, <2>1 DEF NotesApart, NotesTypeOK, OneEventEach, FlushProgress
    <2>5. QED
      BY <2>2, <2>3, <2>4
  <1>2. CASE FlushClear(t)
    <2>1. /\ UNCHANGED <<evt, session, shown, owed, mine>> /\ hpc[t] = "clear"
          /\ notes' = [notes EXCEPT ![session[t]] = {}] /\ hpc' = [hpc EXCEPT ![t] = "ctor"]
      BY <1>2 DEF FlushClear, poolvars
    <2>2. NotesTypeOK' /\ OneEventEach'
      BY <1>0, <2>1 DEF NotesTypeOK, OneEventEach
    <2>3. FlushProgress'
      BY <1>0, <2>1 DEF FlushProgress, NotesTypeOK, OneEventEach
    <2>4. NotesApart'
      BY <1>0, <2>1 DEF NotesApart, NotesTypeOK, FlushProgress
    <2>5. QED
      BY <2>2, <2>3, <2>4
  <1>3. QED
    BY <1>1, <1>2

(* The handler's calls that are about notes and sessions. *)
LEMMA CallsKeepNotes ==
  ASSUME TurboAssumption, TurboInv, NotesInv, NEW t \in Threads,
         AddNextNote(t) \/ SetSession(t) \/ ClearSession(t)
  PROVE  NotesInv'
  <1> USE DEF NotesInv, TurboInv, TurboTypeOK
  <1>0. UNCHANGED <<evt, hpc>> /\ hpc[t] \in {"ctor", "method"}
    BY DEF AddNextNote, SetSession, ClearSession, Call, Handling, poolvars
  <1>1. CASE AddNextNote(t)
    <2>a. PICK n \in Notes \ (owed \cup (UNION {shown[u] : u \in Threads})
                                  \cup (UNION {notes[s] : s \in Sessions})) :
            /\ notes' = [notes EXCEPT ![session[t]] = @ \cup {n}]
            /\ owed' = owed \cup {n}
            /\ mine' = [mine EXCEPT ![t] = @ \cup {n}]
      BY <1>1, Zenon DEF AddNextNote
    <2>b. ASSUME NEW u \in Threads
          PROVE  shown[u] \subseteq UNION {shown[v] : v \in Threads}
      BY <2>b
    <2>c. ASSUME NEW s \in Sessions
          PROVE  notes[s] \subseteq UNION {notes[v] : v \in Sessions}
      BY <2>c
    <2>1. /\ n \in Notes /\ n \notin owed
          /\ \A u \in Threads : n \notin shown[u]
          /\ \A s \in Sessions : n \notin notes[s]
      BY <2>a, <2>b, <2>c
    <2>2. UNCHANGED <<session, shown>> /\ session[t] \in Sessions
      BY <1>1 DEF AddNextNote, NotesTypeOK
    <2>3. NotesTypeOK' /\ OneEventEach'
      BY <1>0, <2>a, <2>1, <2>2 DEF NotesTypeOK, OneEventEach
    <2>4. FlushProgress'
      BY <1>0, <2>a, <2>1, <2>2 DEF FlushProgress, NotesTypeOK, OneEventEach
    <2>5. NotesApart'
      BY <1>0, <2>a, <2>1, <2>2 DEF NotesApart, NotesTypeOK
    <2>6. QED
      BY <2>3, <2>4, <2>5
  <1>2. CASE SetSession(t)
    <2>1. PICK s \in Sessions :
            /\ \A u \in Running : session[u] # s
            /\ session' = [session EXCEPT ![t] = s]
            /\ notes' = [notes EXCEPT ![s] = {}]
            /\ owed' = owed \ notes[s]
      BY <1>2 DEF SetSession
    <2>2. UNCHANGED <<shown, mine>> /\ s # NoSession /\ \A u \in Threads : session[u] # s
      BY <1>2, <2>1 DEF SetSession, Running, OneEventEach, TurboAssumption
    <2>3. NotesTypeOK' /\ OneEventEach'
      BY <1>0, <2>1, <2>2 DEF NotesTypeOK, OneEventEach
    <2>4. FlushProgress'
      BY <1>0, <2>1, <2>2 DEF FlushProgress, NotesTypeOK
    <2>5. NotesApart'
      BY <1>0, <2>1, <2>2 DEF NotesApart, NotesTypeOK
    <2>6. QED
      BY <2>3, <2>4, <2>5
  <1>3. CASE ClearSession(t)
    <2>1. /\ UNCHANGED <<shown, mine>> /\ session[t] \in Sessions
          /\ session' = [session EXCEPT ![t] = NoSession]
          /\ owed' = owed \ notes[session[t]]
          /\ notes' = [notes EXCEPT ![session[t]] = {}]
      BY <1>3 DEF ClearSession, NotesTypeOK
    <2>2. NotesTypeOK' /\ OneEventEach'
      BY <1>0, <2>1 DEF NotesTypeOK, OneEventEach
    <2>3. FlushProgress'
      BY <1>0, <2>1 DEF FlushProgress, NotesTypeOK, OneEventEach
    <2>4. NotesApart'
      BY <1>0, <2>1 DEF NotesApart, NotesTypeOK
    <2>5. QED
      BY <2>2, <2>3, <2>4
  <1>4. QED
    BY <1>1, <1>2, <1>3

(* The end of a request, and every step that has to do with neither. *)
LEMMA RestKeepsNotes ==
  ASSUME TurboInv, NotesInv, NEW t \in Threads,
         \/ AddError(t) \/ Update(t) \/ (\E b \in BOOLEAN : BeginXtion(t, b) \/ SetCommit(t, b))
         \/ LeaveXtion(t) \/ Constructed(t) \/ Return(t) \/ Throw(t) \/ Unwind(t) \/ Catch(t)
         \/ CallDb(t) \/ Pool(t) \/ End(t) \/ (SpuriousWakeup(t) /\ UNCHANGED turbovars)
  PROVE  NotesInv'
  <1> USE DEF NotesInv, TurboInv, TurboTypeOK
  <1>1. CASE End(t)
    <2>1. /\ UNCHANGED <<notes, owed>> /\ session' = [session EXCEPT ![t] = NoSession]
          /\ shown' = [shown EXCEPT ![t] = {}] /\ mine' = [mine EXCEPT ![t] = {}]
          /\ hpc' = [hpc EXCEPT ![t] = "idle"] /\ evt' = [evt EXCEPT ![t] = "none"]
      BY <1>1 DEF End, EndEvent
    <2>2. NotesTypeOK'
      BY <2>1 DEF NotesTypeOK
    <2>3. OneEventEach' /\ FlushProgress'
      BY <2>1 DEF NotesTypeOK, OneEventEach, FlushProgress, PoolInv, PoolTypeOK
    <2>4. NotesApart'
      BY <2>1 DEF NotesApart, NotesTypeOK
    <2>5. QED
      BY <2>2, <2>3, <2>4
  <1>2. CASE ~End(t)
    <2>1. UNCHANGED <<session, notes, shown, mine, owed>>
      BY <1>2
      DEF AddError, Update, BeginXtion, SetCommit, LeaveXtion, Constructed, Return, Throw, Unwind,
          Catch, CallDb, Pool, turbovars, notevars
    <2>2. /\ \A u \in Threads \ {t} : hpc'[u] = hpc[u]
          /\ hpc'[t] = hpc[t] \/ hpc'[t] \in {"unwind", "done"}
               \/ (hpc[t] = "ctor" /\ hpc'[t] = "method")
      BY <1>2
      DEF AddError, Update, BeginXtion, SetCommit, LeaveXtion, Constructed, Return, Throw, Unwind,
          Catch, CallDb, Pool, turbovars, Call, Handling
    <2>3. hpc[t] # hpc'[t] => hpc[t] \in {"ctor", "method", "unwind"}
      BY <1>2
      DEF AddError, Update, BeginXtion, SetCommit, LeaveXtion, Constructed, Return, Throw, Unwind,
          Catch, CallDb, Pool, turbovars, Call, Handling
    <2>4. \A u \in Threads : evt'[u] = "none" => evt[u] = "none"
      BY <1>2
      DEF AddError, Update, BeginXtion, SetCommit, LeaveXtion, Constructed, Return, Throw, Unwind,
          Catch, CallDb, CallPop, Pool, PopTake, PopWait, SpuriousWakeup, poolvars, PoolInv,
          PoolTypeOK
    <2>5. NotesTypeOK' /\ OneEventEach'
      BY <2>1, <2>2, <2>3, <2>4 DEF NotesTypeOK, OneEventEach
    <2>6. FlushProgress'
      BY <2>1, <2>2, <2>3 DEF FlushProgress
    <2>7. NotesApart'
      BY <2>1, <2>2, <2>3 DEF NotesApart
    <2>8. QED
      BY <2>5, <2>6, <2>7
  <1>3. QED
    BY <1>1, <1>2

(* If requests of one session do not overlap, no note is lost, and each is shown on the next  *)
(* page of its session and on no other, for any number of sessions, threads and notes         *)
(* (notes_session, flush_notes, add_next_note).                                               *)
THEOREM NotesShownOnce ==
  ASSUME TurboAssumption, ~Overlap
  PROVE  TurboSpec => []NotesOnNextPage
  <1>1. TurboInit => NotesInv
    BY DEF TurboInit, PoolInit, NotesInv, NotesTypeOK, OneEventEach, FlushProgress, NotesApart
  <1>2. TurboInv /\ NotesInv /\ [TurboNext]_turboeventvars => NotesInv'
    <2> SUFFICES ASSUME TurboInv, NotesInv, [TurboNext]_turboeventvars PROVE NotesInv'
      OBVIOUS
    <2>1. CASE UNCHANGED turboeventvars
      BY <2>1 DEF turboeventvars, poolvars, turbovars, notevars, NotesInv, NotesTypeOK,
                  OneEventEach, FlushProgress, NotesApart
    <2>2. CASE TurboNext
      BY <2>2, BeginKeepsNotes, FlushKeepsNotes, CallsKeepNotes, RestKeepsNotes
      DEF TurboNext, HandlerStep
    <2>3. QED
      BY <2>1, <2>2
  <1>3. NotesInv => NotesOnNextPage
    BY DEF NotesInv, FlushProgress, NotesApart, NotesOnNextPage, Handling
  <1>4. QED
    BY <1>1, <1>2, <1>3, TurboInvHolds, PTL DEF TurboSpec
================================================================================
