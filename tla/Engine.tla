-------------------------------- MODULE Engine --------------------------------
(***************************************************************************)
(* The engine's life (core/engine.cpp) as main runs it: start, wait_stop,  *)
(* and handle_shutdown called meanwhile by the jobs' own threads: by an    *)
(* http worker that serves /quit/, and by a file_quitfront.                *)
(*                                                                         *)
(* A job is a front or an application; what it owes the engine is in Job.  *)
(* The mutex of m_shutdown is a variable here, since start, notify_stop    *)
(* and wait_stop call into the jobs while holding it.                      *)
(***************************************************************************)
EXTENDS Integers

CONSTANTS
  NJobs,            \* m_fronts followed by m_apps
  Callers,          \* threads that may call handle_shutdown
  QuitFronts,       \* those of them that are a file_quitfront's
  JobOf,            \* the job each caller is a thread of
  Main, NoThread,
  SpuriousWakeups   \* whether condition.wait may return unasked

Jobs == 1 .. NJobs
Threads == Callers \cup {Main}

ASSUME NJobsAssumption == NJobs \in Nat \ {0}
ASSUME CallersAssumption ==
  /\ QuitFronts \subseteq Callers /\ JobOf \in [Callers -> Jobs]
  /\ Main \notin Callers /\ NoThread \notin Threads
ASSUME SpuriousAssumption == SpuriousWakeups \in BOOLEAN

VARIABLES
  mutex,    \* holder of m_shutdown.pm_mutex
  flag,     \* m_shutdown.pm_data
  pc,       \* where each thread is
  at,       \* the job each thread's loop over the jobs has come to
  started, told, ended  \* of each job

vars == <<mutex, flag, pc, at, started, told, ended>>

Init ==
  /\ mutex = NoThread /\ flag = FALSE
  /\ pc = [t \in Threads |-> IF t = Main THEN "start" ELSE "idle"]
  /\ at = [t \in Threads |-> 1]
  /\ started = [j \in Jobs |-> FALSE]
  /\ told = [j \in Jobs |-> FALSE]
  /\ ended = [j \in Jobs |-> FALSE]

Move(t, from, to) == pc[t] = from /\ pc' = [pc EXCEPT ![t] = to]
Lock(t) == mutex = NoThread /\ mutex' = t
Unlock(t) == mutex = t /\ mutex' = NoThread
FromFirst(t) == at' = [at EXCEPT ![t] = 1]
Advance(t) == at' = [at EXCEPT ![t] = @ + 1]
-----------------------------------------------------------------------------
(* main: engine::start. *)
StartLock ==
  /\ Move(Main, "start", "starting") /\ Lock(Main) /\ FromFirst(Main)
  /\ UNCHANGED <<flag, started, told, ended>>

StartJob ==
  /\ pc[Main] = "starting" /\ at[Main] <= NJobs
  /\ started' = [started EXCEPT ![at[Main]] = TRUE]
  /\ Advance(Main)
  /\ UNCHANGED <<mutex, flag, pc, told, ended>>

StartUnlock ==
  /\ at[Main] > NJobs
  /\ Move(Main, "starting", "wait_stop") /\ Unlock(Main)
  /\ UNCHANGED <<flag, at, started, told, ended>>

(* main: engine::wait_stop.  Told already: return at once. *)
WaitStopEarly ==
  /\ mutex = NoThread /\ flag
  /\ Move(Main, "wait_stop", "returned")
  /\ UNCHANGED <<mutex, flag, at, started, told, ended>>

(* condition.wait, once; the mutex is released while asleep. *)
WaitStopSleep ==
  /\ mutex = NoThread /\ ~flag
  /\ Move(Main, "wait_stop", "asleep")
  /\ UNCHANGED <<mutex, flag, at, started, told, ended>>

SpuriousWakeup ==
  /\ SpuriousWakeups
  /\ Move(Main, "asleep", "awake")
  /\ UNCHANGED <<mutex, flag, at, started, told, ended>>

(* Awake, with the mutex again: the flag is not looked at. *)
WaitStopWake ==
  /\ Move(Main, "awake", "joining") /\ Lock(Main) /\ FromFirst(Main)
  /\ UNCHANGED <<flag, started, told, ended>>

(* The job's wait_stop, which blocks until it has ended. *)
JoinJob ==
  /\ pc[Main] = "joining" /\ at[Main] <= NJobs
  /\ ended[at[Main]]
  /\ Advance(Main)
  /\ UNCHANGED <<mutex, flag, pc, started, told, ended>>

(* Mutant: the last job is not waited for. *)
JoinedAllButLast ==
  /\ at[Main] > NJobs - 1
  /\ Move(Main, "joining", "returned") /\ Unlock(Main)
  /\ UNCHANGED <<flag, at, started, told, ended>>

JoinedAll ==
  /\ at[Main] > NJobs
  /\ Move(Main, "joining", "returned") /\ Unlock(Main)
  /\ UNCHANGED <<flag, at, started, told, ended>>

MainStep ==
  \/ StartLock \/ StartJob \/ StartUnlock \/ WaitStopEarly \/ WaitStopSleep
  \/ WaitStopWake \/ JoinJob \/ JoinedAll
-----------------------------------------------------------------------------
(* A job's thread calls handle_shutdown, told to stop by now or not: neither *)
(* a worker in a request nor a file_quitfront back from its sleep looks.     *)
(* The latter clears its own m_alive first.                                  *)
HandleShutdown(c) ==
  /\ started[JobOf[c]] /\ ~ended[JobOf[c]]
  /\ Move(c, "idle", "notify_stop")
  /\ told' = IF c \in QuitFronts THEN [told EXCEPT ![JobOf[c]] = TRUE] ELSE told
  /\ UNCHANGED <<mutex, flag, at, started, ended>>

(* engine::notify_stop. *)
NotifyStopLock(c) ==
  /\ Move(c, "notify_stop", "telling") /\ Lock(c) /\ FromFirst(c)
  /\ UNCHANGED <<flag, started, told, ended>>

TellJob(c) ==
  /\ pc[c] = "telling" /\ at[c] <= NJobs
  /\ told' = [told EXCEPT ![at[c]] = TRUE]
  /\ Advance(c)
  /\ UNCHANGED <<mutex, flag, pc, started, ended>>

(* Mutant: the loop over the jobs stops one short. *)
NotifyStopShort(c) ==
  /\ at[c] >= NJobs
  /\ Move(c, "telling", "set_flag") /\ Unlock(c)
  /\ UNCHANGED <<flag, at, started, told, ended>>

NotifyStopUnlock(c) ==
  /\ at[c] > NJobs
  /\ Move(c, "telling", "set_flag") /\ Unlock(c)
  /\ UNCHANGED <<flag, at, started, told, ended>>

(* Mutant: the flag is set and nobody notified. *)
SetFlagNoNotify(c) ==
  /\ mutex = NoThread
  /\ Move(c, "set_flag", "exited")
  /\ flag' = TRUE
  /\ UNCHANGED <<mutex, at, started, told, ended>>

(* Then the flag, and notify_all for main.  The caller's own loop ends next: *)
(* its job has been told.                                                    *)
SetFlag(c) ==
  /\ mutex = NoThread
  /\ pc[c] = "set_flag"
  /\ flag' = TRUE
  /\ pc' = [pc EXCEPT ![c] = "exited",
                      ![Main] = IF @ = "asleep" THEN "awake" ELSE @]
  /\ UNCHANGED <<mutex, at, started, told, ended>>

CallerStep(c) ==
  \/ NotifyStopLock(c) \/ TellJob(c) \/ NotifyStopUnlock(c) \/ SetFlag(c)

(* A job that was told ends once none of its threads is in handle_shutdown. *)
JobEnds(j) ==
  /\ told[j] /\ started[j]
  /\ \A c \in Callers : JobOf[c] = j => pc[c] \in {"idle", "exited"}
  /\ ended' = [ended EXCEPT ![j] = TRUE]
  /\ UNCHANGED <<mutex, flag, pc, at, started, told>>

Next ==
  \/ MainStep \/ SpuriousWakeup
  \/ \E c \in Callers : HandleShutdown(c) \/ CallerStep(c)
  \/ \E j \in Jobs : JobEnds(j)

(* Threads run and the mutex goes round; a job keeps Job's promise.  Nothing *)
(* makes anyone ask for a shutdown.                                          *)
Fairness ==
  /\ SF_vars(MainStep)
  /\ \A c \in Callers : SF_vars(CallerStep(c))
  /\ \A j \in Jobs : SF_vars(JobEnds(j))

Spec == Init /\ [][Next]_vars /\ Fairness
-----------------------------------------------------------------------------
(* Types, and the mutex is held exactly inside the loops over the jobs. *)
TypeOK ==
  /\ mutex \in Threads \cup {NoThread}
  /\ flag \in BOOLEAN
  /\ pc \in [Threads -> {"start", "starting", "wait_stop", "asleep", "awake",
                         "joining", "returned", "idle", "notify_stop",
                         "telling", "set_flag", "exited"}]
  /\ \A t \in Threads : mutex = t <=> pc[t] \in {"starting", "joining", "telling"}
  /\ at \in [Threads -> 1 .. NJobs + 1]
  /\ started \in [Jobs -> BOOLEAN] /\ told \in [Jobs -> BOOLEAN] /\ ended \in [Jobs -> BOOLEAN]

(* No job is told to stop before it is started, although a front that has    *)
(* been started serves /quit/ while the others are still to be started: the  *)
(* job would miss it.                                                        *)
StartedBeforeTold == \A j \in Jobs : told[j] => started[j]

(* When main sees the flag, every job has been told. *)
FlagMeansTold == flag => \A j \in Jobs : told[j]

(* Unless the flag was up before main came to wait, main returns after all   *)
(* the jobs have ended, even if its wait ended unasked.                      *)
WaitedForAll == [][pc[Main] = "joining" /\ pc'[Main] = "returned"
                     => \A j \in Jobs : ended[j]]_vars

ShuttingDown ==
  \E c \in Callers : pc[c] \in {"notify_stop", "telling", "set_flag"}
Returned == pc[Main] = "returned"

(* A request to shut down makes main return ("this signals the peer to begin *)
(* total shutdown", "blocks until the engine is told to stop", engine.h).    *)
ShutdownReturns == ShuttingDown ~> Returned

(* It does if no second request is under way while main waits for the jobs.  *)
OneRequest == pc[Main] = "joining" => ~ShuttingDown
LoneShutdownReturns == []OneRequest => ShutdownReturns

(* When main goes on after wait_stop the jobs' threads are gone ("block here *)
(* until engine dies naturally", app/mainline.cpp:48): main then destroys    *)
(* the engine they use.                                                      *)
EngineDiesFirst == Returned => \A j \in Jobs : ended[j]

(* The order of a shutdown, whoever asks for it and when: jobs are started   *)
(* before they are told, and told before main sees the flag.                 *)
ShutdownOrder == TypeOK /\ StartedBeforeTold /\ FlagMeansTold
=============================================================================
