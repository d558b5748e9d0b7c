----------------------------- MODULE EngineProofs -----------------------------
(***************************************************************************)
(* The engine's shutdown, for any number of jobs and of threads that ask   *)
(* for it.                                                                 *)
(***************************************************************************)
EXTENDS Engine, TLAPS

(* Main and the callers keep to their own parts of the code. *)
Roles ==
  /\ pc[Main] \in {"start", "starting", "wait_stop", "asleep", "awake", "joining", "returned"}
  /\ \A c \in Callers : pc[c] \in {"idle", "notify_stop", "telling", "set_flag", "exited"}

(* How far start has come. *)
StartProgress ==
  /\ pc[Main] = "start" => \A j \in Jobs : ~started[j]
  /\ pc[Main] = "starting" => \A j \in Jobs : j < at[Main] => started[j]
  /\ pc[Main] \notin {"start", "starting"} => \A j \in Jobs : started[j]

(* Only a thread of a job that runs asks for a shutdown: so start is done, or holds the     *)
(* mutex that notify_stop needs.                                                             *)
AskedByStarted == \A c \in Callers : pc[c] # "idle" => started[JobOf[c]]

(* How far notify_stop has come, and wait_stop. *)
TellProgress ==
  \A c \in Callers :
    /\ pc[c] = "telling" => \A j \in Jobs : j < at[c] => told[j]
    /\ pc[c] \in {"set_flag", "exited"} => \A j \in Jobs : told[j]
JoinProgress == pc[Main] = "joining" => \A j \in Jobs : j < at[Main] => ended[j]

EngineInv == ShutdownOrder /\ Roles /\ StartProgress /\ AskedByStarted /\ TellProgress /\ JoinProgress

-----------------------------------------------------------------------------
(* Nothing is started, told or ended at first. *)
LEMMA EngineInvInit == Init => EngineInv
  <1> SUFFICES ASSUME Init PROVE EngineInv
    OBVIOUS
  <1>1. TypeOK
    <2>1. at \in [Threads -> 1 .. NJobs + 1]
      <3>1. 1 \in 1 .. NJobs + 1
        BY NJobsAssumption
      <3>2. QED
        BY <3>1 DEF Init
    <2>2. pc \in [Threads -> {"start", "idle"}]
      BY DEF Init
    <2>3. started \in [Jobs -> BOOLEAN] /\ told \in [Jobs -> BOOLEAN] /\ ended \in [Jobs -> BOOLEAN]
      BY DEF Init
    <2>4. mutex = NoThread /\ NoThread \notin Threads /\ flag = FALSE
      BY CallersAssumption DEF Init
    <2>5. QED
      BY <2>1, <2>2, <2>3, <2>4 DEF TypeOK
  <1>2. StartedBeforeTold /\ FlagMeansTold
    BY DEF Init, StartedBeforeTold, FlagMeansTold
  <1>3. Roles /\ StartProgress /\ AskedByStarted /\ TellProgress /\ JoinProgress
    BY CallersAssumption
    DEF Init, Roles, StartProgress, AskedByStarted, TellProgress, JoinProgress, Threads
  <1>4. QED
    BY <1>1, <1>2, <1>3 DEF EngineInv, ShutdownOrder

(* What start does keeps the invariant: it has the mutex, so nobody is in notify_stop's loop. *)
LEMMA StartKeepsInv ==
  ASSUME EngineInv, StartLock \/ StartJob \/ StartUnlock
  PROVE  EngineInv'
  <1> USE NJobsAssumption, CallersAssumption
      DEF EngineInv, ShutdownOrder, TypeOK, Threads, Jobs, Move, Lock, Unlock, FromFirst, Advance
  <1>1. CASE StartLock
    <2>1. TypeOK'
      BY <1>1 DEF StartLock
    <2>2. (StartedBeforeTold /\ FlagMeansTold /\ Roles /\ StartProgress)'
      BY <1>1 DEF StartLock, StartedBeforeTold, FlagMeansTold, Roles, StartProgress
    <2>3. (AskedByStarted /\ TellProgress /\ JoinProgress)'
      BY <1>1 DEF StartLock, AskedByStarted, TellProgress, JoinProgress
    <2>4. QED
      BY <2>1, <2>2, <2>3
  <1>2. CASE StartJob
    <2>1. TypeOK'
      BY <1>2 DEF StartJob
    <2>2. (StartedBeforeTold /\ FlagMeansTold /\ Roles /\ StartProgress)'
      BY <1>2 DEF StartJob, StartedBeforeTold, FlagMeansTold, Roles, StartProgress
    <2>3. (AskedByStarted /\ TellProgress /\ JoinProgress)'
      BY <1>2 DEF StartJob, AskedByStarted, TellProgress, JoinProgress
    <2>4. QED
      BY <2>1, <2>2, <2>3
  <1>3. CASE StartUnlock
    <2>1. TypeOK'
      BY <1>3 DEF StartUnlock
    <2>2. (StartedBeforeTold /\ FlagMeansTold /\ Roles /\ StartProgress)'
      BY <1>3 DEF StartUnlock, StartedBeforeTold, FlagMeansTold, Roles, StartProgress
    <2>3. (AskedByStarted /\ TellProgress /\ JoinProgress)'
      BY <1>3 DEF StartUnlock, AskedByStarted, TellProgress, JoinProgress
    <2>4. QED
      BY <2>1, <2>2, <2>3
  <1>4. QED
    BY <1>1, <1>2, <1>3

(* Main's wait_stop: only its own loop moves. *)
LEMMA WaitStopKeepsInv ==
  ASSUME EngineInv,
         \/ WaitStopEarly \/ WaitStopSleep \/ SpuriousWakeup \/ WaitStopWake
         \/ JoinJob \/ JoinedAll
  PROVE  EngineInv'
  <1> USE NJobsAssumption, CallersAssumption
      DEF EngineInv, ShutdownOrder, TypeOK, Threads, Jobs, Move, Lock, Unlock, FromFirst, Advance
  <1>1. CASE WaitStopEarly
    <2>1. TypeOK'
      BY <1>1 DEF WaitStopEarly
    <2>2. (StartedBeforeTold /\ FlagMeansTold /\ Roles /\ StartProgress)'
      BY <1>1 DEF WaitStopEarly, StartedBeforeTold, FlagMeansTold, Roles, StartProgress,
                  AskedByStarted, TellProgress
    <2>3. (AskedByStarted /\ TellProgress /\ JoinProgress)'
      BY <1>1 DEF WaitStopEarly, AskedByStarted, TellProgress, JoinProgress, StartProgress,
                  StartedBeforeTold, Roles
    <2>4. QED
      BY <2>1, <2>2, <2>3
  <1>2. CASE WaitStopSleep
    <2>1. TypeOK'
      BY <1>2 DEF WaitStopSleep
    <2>2. (StartedBeforeTold /\ FlagMeansTold /\ Roles /\ StartProgress)'
      BY <1>2 DEF WaitStopSleep, StartedBeforeTold, FlagMeansTold, Roles, StartProgress,
                  AskedByStarted, TellProgress
    <2>3. (AskedByStarted /\ TellProgress /\ JoinProgress)'
      BY <1>2 DEF WaitStopSleep, AskedByStarted, TellProgress, JoinProgress, StartProgress,
                  StartedBeforeTold, Roles
    <2>4. QED
      BY <2>1, <2>2, <2>3
  <1>3. CASE SpuriousWakeup
    <2>1. TypeOK'
      BY <1>3 DEF SpuriousWakeup
    <2>2. (StartedBeforeTold /\ FlagMeansTold /\ Roles /\ StartProgress)'
      BY <1>3 DEF SpuriousWakeup, StartedBeforeTold, FlagMeansTold, Roles, StartProgress,
                  AskedByStarted, TellProgress
    <2>3. (AskedByStarted /\ TellProgress /\ JoinProgress)'
      BY <1>3 DEF SpuriousWakeup, AskedByStarted, TellProgress, JoinProgress, StartProgress,
                  StartedBeforeTold, Roles
    <2>4. QED
      BY <2>1, <2>2, <2>3
  <1>4. CASE WaitStopWake
    <2>1. TypeOK'
      BY <1>4 DEF WaitStopWake
    <2>2. (StartedBeforeTold /\ FlagMeansTold /\ Roles /\ StartProgress)'
      BY <1>4 DEF WaitStopWake, StartedBeforeTold, FlagMeansTold, Roles, StartProgress,
                  AskedByStarted, TellProgress
    <2>3. (AskedByStarted /\ TellProgress /\ JoinProgress)'
      BY <1>4 DEF WaitStopWake, AskedByStarted, TellProgress, JoinProgress, StartProgress,
                  StartedBeforeTold, Roles
    <2>4. QED
      BY <2>1, <2>2, <2>3
  <1>5. CASE JoinJob
    <2>1. TypeOK'
      BY <1>5 DEF JoinJob
    <2>2. (StartedBeforeTold /\ FlagMeansTold /\ Roles /\ StartProgress)'
      BY <1>5 DEF JoinJob, StartedBeforeTold, FlagMeansTold, Roles, StartProgress,
                  AskedByStarted, TellProgress
    <2>3. (AskedByStarted /\ TellProgress /\ JoinProgress)'
      BY <1>5 DEF JoinJob, AskedByStarted, TellProgress, JoinProgress, StartProgress,
                  StartedBeforeTold, Roles
    <2>4. QED
      BY <2>1, <2>2, <2>3
  <1>6. CASE JoinedAll
    <2>1. TypeOK'
      BY <1>6 DEF JoinedAll
    <2>2. (StartedBeforeTold /\ FlagMeansTold /\ Roles /\ StartProgress)'
      BY <1>6 DEF JoinedAll, StartedBeforeTold, FlagMeansTold, Roles, StartProgress,
                  AskedByStarted, TellProgress
    <2>3. (AskedByStarted /\ TellProgress /\ JoinProgress)'
      BY <1>6 DEF JoinedAll, AskedByStarted, TellProgress, JoinProgress, StartProgress,
                  StartedBeforeTold, Roles
    <2>4. QED
      BY <2>1, <2>2, <2>3
  <1>7. QED
    BY <1>1, <1>2, <1>3, <1>4, <1>5, <1>6

(* A caller's notify_stop: it tells jobs that have all been started, and raises the flag when
   it has told them all. *)
LEMMA NotifyStopKeepsInv ==
  ASSUME EngineInv, NEW c \in Callers, HandleShutdown(c) \/ CallerStep(c)
  PROVE  EngineInv'
  <1> USE NJobsAssumption, CallersAssumption
      DEF EngineInv, ShutdownOrder, TypeOK, Threads, Jobs, Move, Lock, Unlock, FromFirst, Advance
  <1>1. CASE HandleShutdown(c)
    <2>1. TypeOK'
      BY <1>1 DEF HandleShutdown
    <2>2. (StartedBeforeTold /\ FlagMeansTold /\ Roles /\ StartProgress)'
      BY <1>1 DEF HandleShutdown, StartedBeforeTold, FlagMeansTold, Roles, StartProgress,
                  AskedByStarted, TellProgress
    <2>3. (AskedByStarted /\ TellProgress /\ JoinProgress)'
      BY <1>1 DEF HandleShutdown, AskedByStarted, TellProgress, JoinProgress, StartProgress,
                  StartedBeforeTold, Roles
    <2>4. QED
      BY <2>1, <2>2, <2>3
  <1>2. CASE NotifyStopLock(c)
    <2>1. TypeOK'
      BY <1>2 DEF NotifyStopLock
    <2>2. (StartedBeforeTold /\ FlagMeansTold /\ Roles /\ StartProgress)'
      BY <1>2 DEF NotifyStopLock, StartedBeforeTold, FlagMeansTold, Roles, StartProgress,
                  AskedByStarted, TellProgress
    <2>3. (AskedByStarted /\ TellProgress /\ JoinProgress)'
      BY <1>2 DEF NotifyStopLock, AskedByStarted, TellProgress, JoinProgress, StartProgress,
                  StartedBeforeTold, Roles
    <2>4. QED
      BY <2>1, <2>2, <2>3
  <1>3. CASE TellJob(c)
    <2>1. TypeOK'
      BY <1>3 DEF TellJob
    <2>2. (StartedBeforeTold /\ FlagMeansTold /\ Roles /\ StartProgress)'
      BY <1>3 DEF TellJob, StartedBeforeTold, FlagMeansTold, Roles, StartProgress,
                  AskedByStarted, TellProgress
    <2>3. (AskedByStarted /\ TellProgress /\ JoinProgress)'
      BY <1>3 DEF TellJob, AskedByStarted, TellProgress, JoinProgress, StartProgress,
                  StartedBeforeTold, Roles
    <2>4. QED
      BY <2>1, <2>2, <2>3
  <1>4. CASE NotifyStopUnlock(c)
    <2>1. TypeOK'
      BY <1>4 DEF NotifyStopUnlock
    <2>2. (StartedBeforeTold /\ FlagMeansTold /\ Roles /\ StartProgress)'
      BY <1>4 DEF NotifyStopUnlock, StartedBeforeTold, FlagMeansTold, Roles, StartProgress,
                  AskedByStarted, TellProgress
    <2>3. (AskedByStarted /\ TellProgress /\ JoinProgress)'
      BY <1>4 DEF NotifyStopUnlock, AskedByStarted, TellProgress, JoinProgress, StartProgress,
                  StartedBeforeTold, Roles
    <2>4. QED
      BY <2>1, <2>2, <2>3
  <1>5. CASE SetFlag(c)
    <2>1. TypeOK'
      BY <1>5 DEF SetFlag
    <2>2. (StartedBeforeTold /\ FlagMeansTold /\ Roles /\ StartProgress)'
      BY <1>5 DEF SetFlag, StartedBeforeTold, FlagMeansTold, Roles, StartProgress,
                  AskedByStarted, TellProgress
    <2>3. (AskedByStarted /\ TellProgress /\ JoinProgress)'
      BY <1>5 DEF SetFlag, AskedByStarted, TellProgress, JoinProgress, StartProgress,
                  StartedBeforeTold, Roles
    <2>4. QED
      BY <2>1, <2>2, <2>3
  <1>6. QED
    BY <1>1, <1>2, <1>3, <1>4, <1>5 DEF CallerStep

(* A job's end. *)
LEMMA JobEndsKeepsInv ==
  ASSUME EngineInv, NEW j \in Jobs, JobEnds(j)
  PROVE  EngineInv'
  BY DEF EngineInv, ShutdownOrder, TypeOK, JobEnds, StartedBeforeTold, FlagMeansTold, Roles,
         StartProgress, AskedByStarted, TellProgress, JoinProgress

(* Every step does. *)
LEMMA EngineInvStep == EngineInv /\ [Next]_vars => EngineInv'
  <1> SUFFICES ASSUME EngineInv, [Next]_vars PROVE EngineInv'
    OBVIOUS
  <1>1. CASE MainStep
    BY <1>1, StartKeepsInv, WaitStopKeepsInv DEF MainStep
  <1>2. CASE SpuriousWakeup
    BY <1>2, WaitStopKeepsInv
  <1>3. CASE \E c \in Callers : HandleShutdown(c) \/ CallerStep(c)
    BY <1>3, NotifyStopKeepsInv
  <1>4. CASE \E j \in Jobs : JobEnds(j)
    BY <1>4, JobEndsKeepsInv
  <1>5. CASE UNCHANGED vars
    BY <1>5
    DEF vars, EngineInv, ShutdownOrder, TypeOK, StartedBeforeTold, FlagMeansTold, Roles,
        StartProgress, AskedByStarted, TellProgress, JoinProgress
  <1>6. QED
    BY <1>1, <1>2, <1>3, <1>4, <1>5 DEF Next

(* The invariant holds throughout. *)
LEMMA EngineInvHolds == Spec => []EngineInv
  BY EngineInvInit, EngineInvStep, PTL DEF Spec

-----------------------------------------------------------------------------
(* However many jobs there are and whoever asks for a shutdown, also while they are being    *)
(* started: jobs are started before they are told to stop, and told before main sees the     *)
(* flag (engine::start, notify_stop, wait_stop).                                             *)
THEOREM ShutdownOrdered == Spec => []ShutdownOrder
  BY EngineInvHolds, PTL DEF EngineInv

(* A wait_stop that waits for the jobs returns when all of them have ended, also when it was *)
(* woken unasked.                                                                            *)
THEOREM JoinsAll == Spec => WaitedForAll
  <1>1. ASSUME EngineInv, [Next]_vars
        PROVE  [pc[Main] = "joining" /\ pc'[Main] = "returned" => \A j \in Jobs : ended[j]]_vars
    <2> SUFFICES ASSUME Next, pc[Main] = "joining", pc'[Main] = "returned"
                 PROVE  \A j \in Jobs : ended[j]
      BY <1>1
    <2>1. JoinedAll
      BY <1>1, CallersAssumption
      DEF EngineInv, ShutdownOrder, TypeOK, Roles, Threads, Next, MainStep, StartLock, StartJob,
          StartUnlock, WaitStopEarly, WaitStopSleep, SpuriousWakeup, WaitStopWake, JoinJob,
          JoinedAll, HandleShutdown, CallerStep, NotifyStopLock, TellJob, NotifyStopUnlock,
          SetFlag, JobEnds, Move
    <2>2. QED
      BY <1>1, <2>1, NJobsAssumption
      DEF EngineInv, JoinProgress, JoinedAll, Jobs, ShutdownOrder, TypeOK, Threads
  <1>2. QED
    BY <1>1, EngineInvHolds, PTL DEF Spec, WaitedForAll
===============================================================================
