---------------------------- MODULE TurboEvents ----------------------------
(***************************************************************************)
(* Requests to turbo handlers: turbo_reactor::handle_app_event             *)
(* (turbo/turboreactor.cpp), the frame that wxmake registers around a      *)
(* controller's method (turbo/register.h), the notes a session carries to  *)
(* the next page (turbo/session.cpp) and transactions                      *)
(* (turbo/turbostatement.cpp) on connections of the pool.                  *)
(***************************************************************************)
EXTENDS ConnectionPool, SequencesExt

CONSTANTS
  Sessions, NoSession,
  Notes,         \* what may be noted
  MaxCalls,      \* bound on the calls of each thread's handlers
  MaxDepth,      \* bound on the transactions that are open in each other
  Overlap        \* two requests of one session may run at once

TurboAssumption ==
  /\ NoSession \notin Sessions
  /\ MaxCalls \in [Threads -> Nat] /\ MaxDepth \in Nat /\ Overlap \in BOOLEAN

VARIABLES
  hpc,         \* where handle_app_event is
  session,     \* turbo_event::session
  known,       \* the sessions the session manager has
  notes,       \* notes_session::notes of each session
  shown,       \* m_notes of each event
  owed,        \* history: notes queued and not yet given to an event
  mine,        \* history: the notes an event has queued
  errors,      \* m_errors is not empty
  calls,       \* calls the handler has made
  xtions,      \* the turbo_xtion objects that are alive, innermost last
  autocommit,  \* of each connection
  pending,     \* number of its updates that wait for commit
  work,        \* updates made in the outermost transaction, while it runs and after
  visible,     \* how many of them are committed
  fate         \* history: what that transaction has met, see FateType

notevars == <<session, known, notes, shown, owed, mine>>
xtionvars == <<xtions, autocommit, pending, work, visible, fate>>
turbovars == <<hpc, errors, calls, notevars, xtionvars>>
turboeventvars == <<poolvars, turbovars>>

Running == {t \in Threads : hpc[t] # "idle"}
XtionType == [userset : BOOLEAN, commit : BOOLEAN]

\* Nested in another, had set_commit called on it, was left by an exception.
FateType == [nested : BOOLEAN, decided : BOOLEAN, thrown : BOOLEAN]
NoFate == [nested |-> FALSE, decided |-> FALSE, thrown |-> FALSE]

TurboInit ==
  /\ PoolInit
  /\ hpc = [t \in Threads |-> "idle"]
  /\ session = [t \in Threads |-> NoSession]
  /\ known = {}
  /\ notes = [s \in Sessions |-> {}]
  /\ shown = [t \in Threads |-> {}] /\ owed = {} /\ mine = [t \in Threads |-> {}]
  /\ errors = [t \in Threads |-> FALSE]
  /\ calls = [t \in Threads |-> 0]
  /\ xtions = [t \in Threads |-> <<>>]
  /\ autocommit = [c \in Conns |-> TRUE] /\ pending = [c \in Conns |-> 0]
  /\ work = [t \in Threads |-> 0] /\ visible = [t \in Threads |-> 0]
  /\ fate = [t \in Threads |-> NoFate]

-----------------------------------------------------------------------------
(* handle_app_event up to the handler. *)

\* The event is made, get_session finds s or nothing, the thread's EVENT is set, and
\* flush_notes sees if there is something to do.
Begin(t, s) ==
  /\ BeginEvent(t)
  /\ s \in known \cup {NoSession}
  /\ Overlap \/ s = NoSession \/ \A u \in Running : session[u] # s
  /\ session' = [session EXCEPT ![t] = s]
  /\ hpc' = [hpc EXCEPT ![t] = IF s # NoSession /\ notes[s] # {} THEN "flush" ELSE "ctor"]
  /\ UNCHANGED <<known, notes, shown, owed, mine, errors, calls, xtionvars>>

\* flush_notes copies the session's notes to the event.
FlushCopy(t) ==
  /\ hpc[t] = "flush"
  /\ shown' = [shown EXCEPT ![t] = notes[session[t]]]
  /\ owed' = owed \ notes[session[t]]
  /\ hpc' = [hpc EXCEPT ![t] = "clear"]
  /\ UNCHANGED <<poolvars, session, known, notes, mine, errors, calls, xtionvars>>

(* Mutant: the notes are left in the session. *)
FlushKeep(t) ==
  /\ hpc[t] = "clear"
  /\ hpc' = [hpc EXCEPT ![t] = "ctor"]
  /\ UNCHANGED <<poolvars, notevars, errors, calls, xtionvars>>

\* And clears them.
FlushClear(t) ==
  /\ hpc[t] = "clear"
  /\ notes' = [notes EXCEPT ![session[t]] = {}]
  /\ hpc' = [hpc EXCEPT ![t] = "ctor"]
  /\ UNCHANGED <<poolvars, session, known, shown, owed, mine, errors, calls, xtionvars>>

-----------------------------------------------------------------------------
(* The handler: the controller's constructor, then its method.             *)

Handling(t) == hpc[t] \in {"ctor", "method"} /\ evt[t] = "running"

Call(t) ==
  /\ Handling(t) /\ calls[t] < MaxCalls[t]
  /\ calls' = [calls EXCEPT ![t] = @ + 1]

\* add_next_note.  It asserts that there is a session.
AddNextNote(t) ==
  /\ Call(t)
  /\ session[t] # NoSession
  /\ \E n \in Notes \ (owed \cup (UNION {shown[u] : u \in Threads})
                            \cup (UNION {notes[s] : s \in Sessions})) :
       /\ notes' = [notes EXCEPT ![session[t]] = @ \cup {n}]
       /\ owed' = owed \cup {n}
       /\ mine' = [mine EXCEPT ![t] = @ \cup {n}]
  /\ UNCHANGED <<poolvars, hpc, session, known, shown, errors, xtionvars>>

AddError(t) ==
  /\ Call(t)
  /\ errors' = [errors EXCEPT ![t] = TRUE]
  /\ UNCHANGED <<poolvars, hpc, notevars, xtionvars>>

\* set_session: a session that is new takes the place of the event's.
SetSession(t) ==
  /\ Call(t)
  /\ \E s \in Sessions \ known :
       /\ \A u \in Running : session[u] # s
       /\ session' = [session EXCEPT ![t] = s]
       /\ known' = known \cup {s}
       /\ notes' = [notes EXCEPT ![s] = {}]
       /\ owed' = owed \ notes[s]
  /\ UNCHANGED <<poolvars, hpc, shown, mine, errors, xtionvars>>

\* set_session(0): the session is gone, and what it should still have shown with it.
ClearSession(t) ==
  /\ Call(t)
  /\ session[t] # NoSession
  /\ known' = known \ {session[t]}
  /\ session' = [session EXCEPT ![t] = NoSession]
  /\ owed' = owed \ notes[session[t]]
  /\ notes' = [notes EXCEPT ![session[t]] = {}]
  /\ UNCHANGED <<poolvars, hpc, shown, mine, errors, xtionvars>>

\* db() with no connection yet.
CallDb(t) ==
  /\ Handling(t)
  /\ CallPop(t)
  /\ UNCHANGED turbovars

-----------------------------------------------------------------------------
(* Transactions and statements on the connection of the event.             *)

Conn(t) == curconn[t]

\* A statement that changes the database.
Update(t) ==
  /\ Call(t) /\ Conn(t) # NoConn
  /\ IF autocommit[Conn(t)]
     THEN /\ visible' = [visible EXCEPT ![t] = IF xtions[t] = <<>> THEN @ ELSE @ + 1]
          /\ UNCHANGED pending
     ELSE pending' = [pending EXCEPT ![Conn(t)] = @ + 1] /\ UNCHANGED visible
  /\ work' = [work EXCEPT ![t] = IF xtions[t] = <<>> THEN @ ELSE @ + 1]
  /\ UNCHANGED <<poolvars, hpc, errors, notevars, xtions, autocommit, fate>>

\* turbo_xtion's constructor.
BeginXtion(t, default) ==
  /\ Call(t) /\ Conn(t) # NoConn /\ Len(xtions[t]) < MaxDepth
  /\ xtions' = [xtions EXCEPT ![t] = Append(@, [userset |-> FALSE, commit |-> default])]
  /\ autocommit' = [autocommit EXCEPT ![Conn(t)] = FALSE]
  /\ IF xtions[t] = <<>>
     THEN /\ work' = [work EXCEPT ![t] = 0] /\ visible' = [visible EXCEPT ![t] = 0]
          /\ fate' = [fate EXCEPT ![t] = NoFate]
     ELSE fate' = [fate EXCEPT ![t].nested = TRUE] /\ UNCHANGED <<work, visible>>
  /\ UNCHANGED <<poolvars, hpc, errors, notevars, pending>>

\* set_commit and commit_xtion, on the innermost.
SetCommit(t, b) ==
  /\ Call(t) /\ xtions[t] # <<>>
  /\ xtions' = [xtions EXCEPT ![t] = Append(Front(@), [userset |-> TRUE, commit |-> b])]
  /\ fate' = [fate EXCEPT ![t].decided = TRUE]
  /\ UNCHANGED <<poolvars, hpc, errors, notevars, autocommit, pending, work, visible>>

(* Mutant: an exception changes nothing. *)
CommitsAnyway(x, thrown) == x.commit

\* Whether the destructor of x commits.
Commits(x, thrown) == IF ~x.userset /\ thrown THEN FALSE ELSE x.commit

(* Mutant: the connection stays as the transaction had it. *)
EndXtionManual(t, thrown) ==
  /\ xtions[t] # <<>>
  /\ xtions' = [xtions EXCEPT ![t] = Front(@)]
  /\ visible' = IF Commits(Last(xtions[t]), thrown)
                THEN [visible EXCEPT ![t] = @ + pending[Conn(t)]] ELSE visible
  /\ pending' = [pending EXCEPT ![Conn(t)] = 0]
  /\ UNCHANGED <<autocommit, work, fate>>

\* ~turbo_xtion of the innermost: commit or rollback, then autocommit.
EndXtion(t, thrown) ==
  /\ xtions[t] # <<>>
  /\ xtions' = [xtions EXCEPT ![t] = Front(@)]
  /\ visible' = IF Commits(Last(xtions[t]), thrown)
                THEN [visible EXCEPT ![t] = @ + pending[Conn(t)]] ELSE visible
  /\ pending' = [pending EXCEPT ![Conn(t)] = 0]
  /\ autocommit' = [autocommit EXCEPT ![Conn(t)] = TRUE]
  /\ UNCHANGED <<work, fate>>

LeaveXtion(t) ==
  /\ Handling(t)
  /\ EndXtion(t, FALSE)
  /\ UNCHANGED <<poolvars, hpc, errors, calls, notevars>>

-----------------------------------------------------------------------------
(* The end of the handler, func_to_method.                                 *)

\* The controller has been made.  render_errors takes the place of the method if the
\* constructor has added some.
Constructed(t) ==
  /\ hpc[t] = "ctor" /\ evt[t] = "running" /\ xtions[t] = <<>>
  /\ hpc' = [hpc EXCEPT ![t] = IF errors[t] THEN "done" ELSE "method"]
  /\ UNCHANGED <<poolvars, errors, calls, notevars, xtionvars>>

Return(t) ==
  /\ hpc[t] = "method" /\ evt[t] = "running" /\ xtions[t] = <<>>
  /\ hpc' = [hpc EXCEPT ![t] = "done"]
  /\ UNCHANGED <<poolvars, errors, calls, notevars, xtionvars>>

\* A turbo_error: a statement that fails (db_error) or a validator (t_assert_error).
Throw(t) ==
  /\ Handling(t)
  /\ hpc' = [hpc EXCEPT ![t] = "unwind"]
  /\ fate' = [fate EXCEPT ![t].thrown = xtions[t] # <<>>]
  /\ UNCHANGED <<poolvars, errors, calls, notevars, xtions, autocommit, pending, work, visible>>

Unwind(t) ==
  /\ hpc[t] = "unwind"
  /\ EndXtion(t, TRUE)
  /\ UNCHANGED <<poolvars, hpc, errors, calls, notevars>>

\* The message of a db_error becomes an error; that of a t_assert_error is null.
Catch(t) ==
  /\ hpc[t] = "unwind" /\ xtions[t] = <<>>
  /\ \E message \in BOOLEAN : errors' = [errors EXCEPT ![t] = @ \/ message]
  /\ hpc' = [hpc EXCEPT ![t] = "done"]
  /\ UNCHANGED <<poolvars, calls, notevars, xtionvars>>

\* The event's destructors.
End(t) ==
  /\ hpc[t] = "done" /\ EndEvent(t)
  /\ hpc' = [hpc EXCEPT ![t] = "idle"]
  /\ session' = [session EXCEPT ![t] = NoSession]
  /\ shown' = [shown EXCEPT ![t] = {}] /\ mine' = [mine EXCEPT ![t] = {}]
  /\ errors' = [errors EXCEPT ![t] = FALSE] /\ calls' = [calls EXCEPT ![t] = 0]
  /\ work' = [work EXCEPT ![t] = 0] /\ visible' = [visible EXCEPT ![t] = 0]
  /\ fate' = [fate EXCEPT ![t] = NoFate]
  /\ UNCHANGED <<known, notes, owed, xtions, autocommit, pending>>

-----------------------------------------------------------------------------
HandlerStep(t) ==
  \/ FlushCopy(t) \/ FlushClear(t)
  \/ AddNextNote(t) \/ AddError(t) \/ SetSession(t) \/ ClearSession(t)
  \/ Update(t) \/ (\E b \in BOOLEAN : BeginXtion(t, b) \/ SetCommit(t, b)) \/ LeaveXtion(t)
  \/ Constructed(t) \/ Return(t) \/ Throw(t) \/ Unwind(t) \/ Catch(t)

Pool(t) == (PopTake(t) \/ PopWait(t)) /\ UNCHANGED turbovars

\* Requests always arrive here; that they cease matters to ConnectionPool's liveness only.
TurboNext ==
  \E t \in Threads :
    \/ HandlerStep(t) \/ CallDb(t) \/ Pool(t) \/ End(t)
    \/ \E s \in Sessions \cup {NoSession} : Begin(t, s)
    \/ SpuriousWakeup(t) /\ UNCHANGED turbovars

TurboSpec == TurboInit /\ [][TurboNext]_turboeventvars

-----------------------------------------------------------------------------
\* A note is shown on the next page of its session and on that one only, if a session's
\* requests follow each other: once a handler runs, its session only has notes that this
\* handler has queued; no note that was queued got lost; and none that an event shows is still
\* in a session or shown by another.  flush_notes and add_next_note take no lock.
NotesOnNextPage ==
  /\ \A t \in Threads :
       Handling(t) /\ session[t] # NoSession => notes[session[t]] \subseteq mine[t]
  /\ \A n \in owed : \E s \in Sessions : n \in notes[s]
  /\ \A t, u \in Threads : t # u => shown[t] \cap shown[u] = {}
  /\ \A t \in Threads, s \in Sessions : hpc[t] # "clear" => shown[t] \cap notes[s] = {}

\* Nobody sees the work of a transaction before its end, afterwards all of it is there or
\* nothing, and nothing if an exception ended it and the handler had not decided
\* (turbo_xtion, for transactions that are not nested: the inner one's end turns
\* autocommit on for the outer one).
XtionIsAtomic ==
  \A t \in Threads : ~fate[t].nested =>
    /\ xtions[t] # <<>> => visible[t] = 0
    /\ xtions[t] = <<>> => visible[t] \in {0, work[t]}
    /\ xtions[t] = <<>> /\ fate[t].thrown /\ ~fate[t].decided => visible[t] = 0

\* Whoever gets a connection from the pool finds nothing of another event on it: no open
\* transaction, no updates waiting for a commit, however the handler ended and transactions
\* were nested.
PooledConnectionsAreClean ==
  \A c \in Conns : (\A t \in Threads : curconn[t] # c) => autocommit[c] /\ pending[c] = 0
=============================================================================
