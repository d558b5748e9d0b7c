---------------------------- MODULE SessionManager ----------------------------
(***************************************************************************)
(* session_manager (core/sessionmanager.cpp) and the events that use it    *)
(* (turboreactor.cpp, handlerreactor.cpp, formreactor.cpp): the map from   *)
(* session ids to reference-counted session objects under a reader-writer  *)
(* lock, and the optional file store behind it.                            *)
(*                                                                         *)
(* A section under the lock is one action.  get_session is two: a look-up, *)
(* which may read the file store, under the read lock, and, after a load,   *)
(* the insertion under the write lock.  It returns a raw pointer; a        *)
(* turbo_reactor puts it in a count_ptr, the other reactors do not.        *)
(***************************************************************************)
EXTENDS Integers

CONSTANTS
  Workers,    \* threads, each handling one event at a time
  Ids,        \* session ids: bound on the sessions ever issued
  Objs,       \* memory for session objects: bound on those alive at once
  NoSession,  \* a null pointer
  Housekeeping \* whether the application calls prune and clear_session(id)

ASSUME NoSessionAssumption == NoSession \notin Objs
ASSUME IdsAssumption == Ids \subseteq Nat \ {0}
ASSUME HousekeepingAssumption == Housekeeping \in BOOLEAN

VARIABLES
  filestore,  \* whether set_file_store has named a directory
  sessions,   \* m_sessions
  sesid,      \* m_sessionid of each object
  live,       \* objects allocated and not deleted
  file,       \* what the file of each id holds
  pc,         \* where each event is
  req,        \* the id in the event's cookie
  raw,        \* the session pointer of the event
  counted,    \* the turbo_reactor's count_ptr
  loaded,     \* get_session's loaded_session
  issued,     \* history: ids given out by next_id
  cleared,    \* history: ids cleared with clear_session(he, id)
  overlapped  \* history: ids cleared while a load of them was under way

vars == <<filestore, sessions, sesid, live, file, pc, req, raw, counted, loaded,
          issued, cleared, overlapped>>

NoneEach == [w \in Workers |-> NoSession]
UnusedId == 0

Init ==
  /\ filestore \in BOOLEAN
  /\ sessions = [i \in Ids |-> NoSession]
  /\ sesid = [o \in Objs |-> UnusedId]
  /\ live = {}
  /\ file = [i \in Ids |-> "absent"]
  /\ pc = [w \in Workers |-> "idle"]
  /\ req = [w \in Workers |-> UnusedId]
  /\ raw = NoneEach /\ counted = NoneEach /\ loaded = NoneEach
  /\ issued = {} /\ cleared = {} /\ overlapped = {}

Move(w, from, to) == pc[w] = from /\ pc' = [pc EXCEPT ![w] = to]
Point(w, o) == raw' = [raw EXCEPT ![w] = o]

(* An object is deleted when its last count_ptr goes: the map's, an event's, *)
(* or get_session's.                                                         *)
Referenced ==
  {sessions[i] : i \in Ids} \cup {counted[w] : w \in Workers}
                            \cup {loaded[w] : w \in Workers}
Collect(new) == live' = (live \cup new) \cap Referenced'

(* Memory an allocation can return; not one a pointer still leads to, so     *)
(* that a dangling pointer is not taken for a good one.                      *)
Unallocated == {o \in Objs \ live : \A w \in Workers : raw[w] # o}

(* Using a session through a dangling pointer is undefined: such an event    *)
(* goes no further here.                                                     *)
Usable(w) == raw[w] = NoSession \/ raw[w] \in live
-----------------------------------------------------------------------------
(* An event comes in with the cookie of a session issued earlier. *)
BeginEvent(w, id) ==
  /\ id \in issued
  /\ Move(w, "idle", "get")
  /\ req' = [req EXCEPT ![w] = id]
  /\ UNCHANGED <<filestore, sessions, sesid, live, file, raw, counted, loaded,
                 issued, cleared, overlapped>>

(* An event without a session cookie. *)
BeginAnonymous(w) ==
  /\ Move(w, "idle", "run")
  /\ UNCHANGED <<filestore, sessions, sesid, live, file, req, raw, counted,
                 loaded, issued, cleared, overlapped>>

(* get_session, read lock: in the map. *)
GetHit(w) ==
  /\ Move(w, "get", "got")
  /\ sessions[req[w]] # NoSession
  /\ Point(w, sessions[req[w]])
  /\ UNCHANGED <<filestore, sessions, sesid, live, file, req, counted, loaded,
                 issued, cleared, overlapped>>

(* get_session, read lock: not in the map and nothing in a file. *)
GetNothing(w) ==
  /\ Move(w, "get", "run")
  /\ sessions[req[w]] = NoSession
  /\ filestore => file[req[w]] # "saved"
  /\ UNCHANGED <<filestore, sessions, sesid, live, file, req, raw, counted,
                 loaded, issued, cleared, overlapped>>

(* get_session, read lock: not in the map; an object is made from the file. *)
GetLoad(w, o) ==
  /\ Move(w, "get", "install")
  /\ sessions[req[w]] = NoSession
  /\ filestore /\ file[req[w]] = "saved"
  /\ o \in Unallocated
  /\ sesid' = [sesid EXCEPT ![o] = req[w]]
  /\ loaded' = [loaded EXCEPT ![w] = o]
  /\ UNCHANGED <<sessions, counted>>
  /\ Collect({o})
  /\ UNCHANGED <<filestore, file, req, raw, issued, cleared, overlapped>>

(* get_session, write lock: whatever the map holds by now is replaced. *)
GetInstall(w) ==
  /\ Move(w, "install", "got")
  /\ sessions' = [sessions EXCEPT ![req[w]] = loaded[w]]
  /\ Point(w, loaded[w])
  /\ loaded' = [loaded EXCEPT ![w] = NoSession]
  /\ UNCHANGED counted
  /\ Collect({})
  /\ UNCHANGED <<filestore, sesid, file, req, issued, cleared, overlapped>>

(* A turbo_reactor counts the pointer it was given. *)
Count(w) ==
  /\ Usable(w)
  /\ Move(w, "got", "run")
  /\ counted' = [counted EXCEPT ![w] = raw[w]]
  /\ UNCHANGED <<filestore, sessions, sesid, live, file, req, raw, loaded,
                 issued, cleared, overlapped>>

(* A handler_reactor or form_reactor keeps it as it is. *)
KeepRaw(w) ==
  /\ Move(w, "got", "run")
  /\ UNCHANGED <<filestore, sessions, sesid, live, file, req, raw, counted,
                 loaded, issued, cleared, overlapped>>
-----------------------------------------------------------------------------
(* Mutant: an id is taken without a look at the map. *)
NextIdBlind(id) == id \in Ids

(* next_id: not in the map.  That rand() does not repeat an id it gave out   *)
(* earlier is assumed.                                                       *)
NextId(id) == sessions[id] = NoSession /\ id \notin issued

(* Mutant: the session is filed in the map before it has its id. *)
LoginWrongId(w, o, id) ==
  /\ pc[w] = "run" /\ Usable(w)
  /\ o \in Unallocated /\ NextId(id)
  /\ sessions' = [sessions EXCEPT ![id] = o]
  /\ file' = [file EXCEPT ![id] = IF filestore THEN "saved" ELSE @]
  /\ issued' = issued \cup {id}
  /\ Point(w, o)
  /\ UNCHANGED <<counted, loaded>>
  /\ Collect({o})
  /\ UNCHANGED <<filestore, sesid, pc, req, cleared, overlapped>>

(* Mutant: the session is not stored. *)
LoginNoFile(w, o, id) ==
  /\ pc[w] = "run" /\ Usable(w)
  /\ o \in Unallocated /\ NextId(id)
  /\ sesid' = [sesid EXCEPT ![o] = id]
  /\ sessions' = [sessions EXCEPT ![id] = o]
  /\ issued' = issued \cup {id}
  /\ Point(w, o)
  /\ UNCHANGED <<counted, loaded>>
  /\ Collect({o})
  /\ UNCHANGED <<filestore, file, pc, req, cleared, overlapped>>

(* set_session(he, ses), write lock, with a session the handler has made. *)
Login(w, o, id) ==
  /\ pc[w] = "run" /\ Usable(w)
  /\ o \in Unallocated /\ NextId(id)
  /\ sesid' = [sesid EXCEPT ![o] = id]
  /\ sessions' = [sessions EXCEPT ![id] = o]
  /\ file' = [file EXCEPT ![id] = IF filestore THEN "saved" ELSE @]
  /\ issued' = issued \cup {id}
  /\ Point(w, o)
  /\ UNCHANGED <<counted, loaded>>
  /\ Collect({o})
  /\ UNCHANGED <<filestore, pc, req, cleared, overlapped>>

Loading(id) == \E u \in Workers : pc[u] = "install" /\ req[u] = id

(* Mutant: the file keeps the session. *)
LogoutNoFile(w) ==
  LET id == sesid[raw[w]] IN
  /\ pc[w] = "run" /\ raw[w] \in live
  /\ sessions' = [sessions EXCEPT ![id] = NoSession]
  /\ cleared' = cleared \cup {id}
  /\ overlapped' = IF Loading(id) THEN overlapped \cup {id} ELSE overlapped
  /\ Point(w, NoSession)
  /\ UNCHANGED <<counted, loaded>>
  /\ Collect({})
  /\ UNCHANGED <<filestore, sesid, file, pc, req, issued>>

(* clear_session(he, id), write lock, for the event's own session. *)
Logout(w) ==
  LET id == sesid[raw[w]] IN
  /\ pc[w] = "run" /\ raw[w] \in live
  /\ sessions' = [sessions EXCEPT ![id] = NoSession]
  /\ file' = [file EXCEPT ![id] = IF filestore THEN "null" ELSE @]
  /\ cleared' = cleared \cup {id}
  /\ overlapped' = IF Loading(id) THEN overlapped \cup {id} ELSE overlapped
  /\ Point(w, NoSession)
  /\ UNCHANGED <<counted, loaded>>
  /\ Collect({})
  /\ UNCHANGED <<filestore, sesid, pc, req, issued>>

EndEvent(w) ==
  /\ Move(w, "run", "idle")
  /\ Point(w, NoSession)
  /\ req' = [req EXCEPT ![w] = UnusedId]
  /\ counted' = [counted EXCEPT ![w] = NoSession]
  /\ UNCHANGED <<sessions, loaded>>
  /\ Collect({})
  /\ UNCHANGED <<filestore, sesid, file, issued, cleared, overlapped>>

(* clear_session(id) takes entries out of the map, and so does prune, for    *)
(* those whose stamp is old: any may be, an event may last.  No file changes. *)
(* Nothing in the library calls either of them.                              *)
DropFromMap(gone) ==
  /\ Housekeeping
  /\ \E i \in gone : sessions[i] # NoSession
  /\ sessions' = [i \in Ids |-> IF i \in gone THEN NoSession ELSE sessions[i]]
  /\ UNCHANGED <<counted, loaded>>
  /\ Collect({})
  /\ UNCHANGED <<filestore, sesid, file, pc, req, raw, issued, cleared,
                 overlapped>>
ClearById(id) == DropFromMap({id})
Prune(old) == DropFromMap(old)

(* The server is stopped at any point and started again; the files stay. *)
Restart ==
  /\ sessions' = [i \in Ids |-> NoSession]
  /\ live' = {}
  /\ pc' = [w \in Workers |-> "idle"]
  /\ req' = [w \in Workers |-> UnusedId]
  /\ raw' = NoneEach /\ counted' = NoneEach /\ loaded' = NoneEach
  /\ UNCHANGED <<filestore, sesid, file, issued, cleared, overlapped>>

Event(w) ==
  \/ BeginAnonymous(w) \/ \E id \in Ids : BeginEvent(w, id)
  \/ GetHit(w) \/ GetNothing(w) \/ GetInstall(w) \/ \E o \in Objs : GetLoad(w, o)
  \/ Count(w) \/ KeepRaw(w)
  \/ Logout(w) \/ \E o \in Objs, id \in Ids : Login(w, o, id)
  \/ EndEvent(w)

Next ==
  \/ \E w \in Workers : Event(w)
  \/ \E id \in Ids : ClearById(id)
  \/ \E old \in SUBSET Ids : Prune(old)
  \/ Restart

Spec == Init /\ [][Next]_vars
-----------------------------------------------------------------------------
(* Types, and the pointers are where the event's place says: get_session's    *)
(* own until it returns, a turbo_reactor's until the event ends.             *)
TypeOK ==
  /\ filestore \in BOOLEAN
  /\ sessions \in [Ids -> Objs \cup {NoSession}]
  /\ sesid \in [Objs -> Ids \cup {UnusedId}]
  /\ live \subseteq Objs
  /\ file \in [Ids -> {"absent", "saved", "null"}]
  /\ pc \in [Workers -> {"idle", "get", "install", "got", "run"}]
  /\ req \in [Workers -> Ids \cup {UnusedId}]
  /\ raw \in [Workers -> Objs \cup {NoSession}]
  /\ counted \in [Workers -> Objs \cup {NoSession}]
  /\ loaded \in [Workers -> Objs \cup {NoSession}]
  /\ issued \subseteq Ids /\ cleared \subseteq Ids /\ overlapped \subseteq Ids
  /\ \A w \in Workers :
       /\ pc[w] \in {"get", "install"} => req[w] \in Ids
       /\ loaded[w] # NoSession <=> pc[w] = "install"
       /\ counted[w] # NoSession => pc[w] = "run"
       /\ raw[w] # NoSession => pc[w] \in {"got", "run"}

(* The map's entries are objects that exist and carry the id they are filed  *)
(* under; so a logout, which goes by the object's id, removes that object's  *)
(* entry and no other client's.                                              *)
MapConsistent ==
  \A id \in Ids : sessions[id] # NoSession =>
    sessions[id] \in live /\ sesid[sessions[id]] = id

(* A session that was logged out of stays away: neither the map nor the file *)
(* brings it back, unless another event was between reading the file and     *)
(* inserting it in the map when it was cleared.                              *)
LogoutSticks ==
  \A id \in cleared \ overlapped :
    sessions[id] = NoSession /\ file[id] # "saved" /\ ~Loading(id)

(* With a file store, a session issued and not logged out of is found again  *)
(* after any number of prunes and restarts.                                  *)
LoginIsDurable ==
  filestore => \A id \in issued \ cleared : file[id] = "saved"

(* Without a file store two events of one session have the same object, so   *)
(* that what one stores in it the other finds.                               *)
OneObjectPerSession ==
  ~filestore =>
    \A w, u \in Workers :
      {raw[w], raw[u]} \subseteq live /\ sesid[raw[w]] = sesid[raw[u]]
        => raw[w] = raw[u]

(* The session an event was given exists as long as the event uses it ("adds *)
(* the given session. it will be ref counted", sessionmanager.h:108).        *)
SessionOutlivesEvent ==
  \A w \in Workers : raw[w] # NoSession => raw[w] \in live

(* The pointers of events are what their place says, and the map's entries   *)
(* are live objects under their own ids, whatever was logged out of, pruned   *)
(* or loaded again.                                                          *)
SessionsSafe == TypeOK /\ MapConsistent
=============================================================================
