----------------------------- MODULE TickManager -----------------------------
(***************************************************************************)
(* tick_manager's thread (core/tickmanager.cpp) and the threads that start *)
(* it, add tickers and stop it.  A tick is one sleep of run's.             *)
(***************************************************************************)
EXTENDS Integers, Sequences

CONSTANTS
  Frequencies,  \* the minutes a ticker may be called every
  MaxTickers,   \* bound on the tickers
  Sleeps,       \* sleeps in a minute
  MaxMinutes    \* bound on the minutes

TickManagerAssumption ==
  /\ Frequencies \subseteq Nat \ {0} /\ {MaxTickers, MaxMinutes} \subseteq Nat
  /\ Sleeps \in Nat \ {0}

VARIABLES
  alive,    \* m_alive
  pc,       \* where run is: new, sleep, ticks, returned
  minute, k,
  ticks,    \* m_ticks, the frequencies
  ii,       \* the iterator
  called,   \* history: how often each ticker was called
  asleep    \* history: sleeps since it was told to stop

tickvars == <<alive, pc, minute, k, ticks, ii, called, asleep>>

TickManagerInit ==
  /\ alive = TRUE /\ pc = "new" /\ minute = 0 /\ k = 0
  /\ ticks = <<>> /\ ii = 1 /\ called = <<>> /\ asleep = 0

\* add_ticker.  Once the thread runs it keeps the end of the vector it saw: a ticker added
\* then is not called, or its iterators are of a vector that is gone, and what follows is
\* undefined.  Here all are added before.
AddTicker ==
  /\ pc = "new" /\ Len(ticks) < MaxTickers
  /\ \E freq \in Frequencies : ticks' = Append(ticks, freq)
  /\ called' = Append(called, 0)
  /\ UNCHANGED <<alive, pc, minute, k, ii, asleep>>

NotifyStop == alive' = FALSE /\ UNCHANGED <<pc, minute, k, ticks, ii, called, asleep>>

\* The thread starts: the head of run's loop.
Start ==
  /\ pc = "new"
  /\ pc' = IF alive THEN "sleep" ELSE "returned"
  /\ UNCHANGED <<alive, minute, k, ticks, ii, called, asleep>>

(* Mutant: whether to stop is looked at once a minute. *)
SleepThrough ==
  /\ pc = "sleep" /\ minute < MaxMinutes
  /\ k' = (k + 1) % Sleeps
  /\ pc' = IF k' # 0 THEN "sleep" ELSE IF ~alive THEN "returned" ELSE "ticks"
  /\ asleep' = IF alive THEN 0 ELSE asleep + 1
  /\ ii' = 1
  /\ UNCHANGED <<alive, minute, ticks, called>>

\* One sleep and the look at m_alive after it.
Sleep ==
  /\ pc = "sleep" /\ minute < MaxMinutes
  /\ k' = IF alive THEN (k + 1) % Sleeps ELSE k
  /\ pc' = IF ~alive THEN "returned" ELSE IF k' = 0 THEN "ticks" ELSE "sleep"
  /\ asleep' = IF alive THEN 0 ELSE asleep + 1
  /\ ii' = 1
  /\ UNCHANGED <<alive, minute, ticks, called>>

\* The next ticker, if its minute has come.
Tick ==
  /\ pc = "ticks" /\ ii <= Len(ticks)
  /\ called' = IF minute % ticks[ii] = 0 THEN [called EXCEPT ![ii] = @ + 1] ELSE called
  /\ ii' = ii + 1
  /\ UNCHANGED <<alive, pc, minute, k, ticks, asleep>>

\* minute++ and the loop's condition.
NextMinute ==
  /\ pc = "ticks" /\ ii > Len(ticks)
  /\ minute' = minute + 1
  /\ pc' = IF alive THEN "sleep" ELSE "returned"
  /\ UNCHANGED <<alive, k, ticks, ii, called, asleep>>

TickManagerNext == AddTicker \/ NotifyStop \/ Start \/ Sleep \/ Tick \/ NextMinute

TickManagerSpec == TickManagerInit /\ [][TickManagerNext]_tickvars

-----------------------------------------------------------------------------
\* Every ticker is called in the first minute and in every one of its minutes after, each
\* time once, as far as the thread got; and once it is told to stop the thread sleeps no
\* more than once, which is what the sleep is cut into ten for.
TicksOnTime ==
  /\ \A i \in DOMAIN ticks :
       LET full == IF pc = "ticks" /\ i < ii THEN minute + 1 ELSE minute IN
       called[i] = (full + ticks[i] - 1) \div ticks[i]
  /\ asleep <= 1
=============================================================================
