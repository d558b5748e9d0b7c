------------------------ MODULE SessionManagerProofs ------------------------
(***************************************************************************)
(* The session map, for any number of events, sessions and objects.        *)
(***************************************************************************)
EXTENDS SessionManager, TLAPS

(* Whatever carries an id carries one that next_id gave out: live objects,   *)
(* files and the record of logouts.  It is why a login, which takes a new    *)
(* id, disturbs none of the older sessions.                                  *)
OnlyIssuedIds ==
  /\ \A o \in live : sesid[o] \in issued
  /\ \A id \in Ids : file[id] = "saved" => id \in issued /\ filestore
  /\ cleared \subseteq issued

(* What get_session has loaded is alive and is the session asked for. *)
LoadedIsAsked ==
  \A w \in Workers :
    pc[w] = "install" => loaded[w] \in live /\ sesid[loaded[w]] = req[w]

(* Without a file store no object is ever made for an id that has one. *)
UniqueIds ==
  ~filestore => \A o, p \in live : sesid[o] = sesid[p] => o = p

SesInv ==
  /\ TypeOK
  /\ MapConsistent
  /\ LogoutSticks
  /\ LoginIsDurable
  /\ OnlyIssuedIds
  /\ LoadedIsAsked
  /\ UniqueIds

-----------------------------------------------------------------------------
LEMMA SesInvInit == Init => SesInv
  BY NoSessionAssumption, IdsAssumption
  DEF Init, SesInv, TypeOK, MapConsistent, LogoutSticks, LoginIsDurable,
      OnlyIssuedIds, LoadedIsAsked, UniqueIds, Loading, NoneEach, UnusedId

(* Steps of an event that leave the map, the objects and the files alone. *)
LEMMA QuietStepKeepsInv ==
  ASSUME SesInv, TypeOK',
         UNCHANGED <<filestore, sessions, sesid, live, file, issued, cleared,
                     overlapped>>,
         \A w \in Workers : pc'[w] = "install" =>
           pc[w] = "install" /\ UNCHANGED <<req[w], loaded[w]>>
  PROVE  SesInv'
  BY DEF SesInv, MapConsistent, LogoutSticks, LoginIsDurable, OnlyIssuedIds,
         LoadedIsAsked, UniqueIds, Loading

LEMMA EventKeepsInv ==
  ASSUME SesInv, NEW w \in Workers,
         \/ BeginAnonymous(w) \/ \E id \in Ids : BeginEvent(w, id)
         \/ GetHit(w) \/ GetNothing(w) \/ Count(w) \/ KeepRaw(w)
  PROVE  SesInv'
  <1>1. TypeOK'
    BY NoSessionAssumption
    DEF SesInv, TypeOK, BeginAnonymous, BeginEvent, GetHit, GetNothing, Count,
        KeepRaw, Move, Point, MapConsistent
  <1>2. /\ UNCHANGED <<filestore, sessions, sesid, live, file, issued, cleared,
                       overlapped>>
        /\ \A u \in Workers : pc'[u] = "install" =>
             pc[u] = "install" /\ UNCHANGED <<req[u], loaded[u]>>
    BY DEF SesInv, TypeOK, BeginAnonymous, BeginEvent, GetHit, GetNothing, Count,
           KeepRaw, Move
  <1>3. QED
    BY <1>1, <1>2, QuietStepKeepsInv

LEMMA GetLoadKeepsInv ==
  ASSUME SesInv, NEW w \in Workers, NEW o \in Objs, GetLoad(w, o)
  PROVE  SesInv'
  <1> USE NoSessionAssumption
  <1> DEFINE id == req[w]
  <1>1. /\ id \in Ids /\ file[id] = "saved" /\ filestore /\ o \notin live
        /\ sesid' = [sesid EXCEPT ![o] = id] /\ loaded' = [loaded EXCEPT ![w] = o]
        /\ UNCHANGED <<filestore, sessions, file, req, raw, counted, issued,
                       cleared, overlapped>>
    BY DEF GetLoad, Unallocated, SesInv, TypeOK, Move
  <1>2. /\ live' \subseteq live \cup {o} /\ o \in live'
        /\ \A i \in Ids : sessions[i] \in live => sessions[i] \in live'
        /\ \A u \in Workers \ {w} : loaded[u] \in live => loaded[u] \in live'
    <2>1. live' = (live \cup {o}) \cap Referenced'
      BY DEF GetLoad, Collect
    <2>2. /\ loaded'[w] = o
          /\ \A u \in Workers \ {w} : loaded'[u] = loaded[u]
      BY <1>1 DEF SesInv, TypeOK
    <2>3. QED
      BY <1>1, <2>1, <2>2 DEF Referenced
  <1>3. TypeOK'
    BY <1>1, <1>2 DEF GetLoad, Move, SesInv, TypeOK
  <1>4. id \in issued /\ id \notin cleared \ overlapped
    BY <1>1 DEF SesInv, OnlyIssuedIds, LogoutSticks
  <1>5. MapConsistent'
    BY <1>1, <1>2 DEF SesInv, TypeOK, MapConsistent
  <1>6. LogoutSticks'
    BY <1>1, <1>4 DEF GetLoad, Move, SesInv, TypeOK, LogoutSticks, Loading
  <1>7. LoginIsDurable' /\ UniqueIds'
    BY <1>1 DEF SesInv, LoginIsDurable, UniqueIds
  <1>8. OnlyIssuedIds'
    BY <1>1, <1>2, <1>4 DEF SesInv, TypeOK, OnlyIssuedIds
  <1>9. LoadedIsAsked'
    <2>1. pc' = [pc EXCEPT ![w] = "install"]
      BY DEF GetLoad, Move
    <2>2. loaded'[w] \in live' /\ sesid'[loaded'[w]] = req'[w]
      BY <1>1, <1>2 DEF SesInv, TypeOK
    <2>3. ASSUME NEW u \in Workers \ {w}, pc'[u] = "install"
          PROVE  loaded'[u] \in live' /\ sesid'[loaded'[u]] = req'[u]
      <3>1. pc[u] = "install" /\ loaded'[u] = loaded[u] /\ req'[u] = req[u]
        BY <1>1, <2>1, <2>3 DEF SesInv, TypeOK
      <3>2. loaded[u] \in live /\ sesid[loaded[u]] = req[u] /\ loaded[u] # o
        BY <1>1, <3>1 DEF SesInv, LoadedIsAsked
      <3>3. QED
        BY <1>1, <1>2, <3>1, <3>2 DEF SesInv, TypeOK
    <2>4. QED
      BY <2>2, <2>3 DEF LoadedIsAsked
  <1>10. QED
    BY <1>3, <1>5, <1>6, <1>7, <1>8, <1>9 DEF SesInv

LEMMA GetInstallKeepsInv ==
  ASSUME SesInv, NEW w \in Workers, GetInstall(w)
  PROVE  SesInv'
  <1> USE NoSessionAssumption
  <1> DEFINE id == req[w]
             o == loaded[w]
  <1>1. /\ id \in Ids /\ o \in live /\ sesid[o] = id /\ pc[w] = "install"
        /\ sessions' = [sessions EXCEPT ![id] = o]
        /\ loaded' = [loaded EXCEPT ![w] = NoSession]
        /\ pc' = [pc EXCEPT ![w] = "got"]
        /\ UNCHANGED <<filestore, sesid, file, req, counted, issued, cleared,
                       overlapped>>
    BY DEF GetInstall, SesInv, TypeOK, LoadedIsAsked, Move
  <1>2. /\ live' \subseteq live
        /\ \A i \in Ids : sessions'[i] \in live => sessions'[i] \in live'
        /\ \A u \in Workers : loaded'[u] \in live => loaded'[u] \in live'
    BY <1>1 DEF GetInstall, Collect, Referenced
  <1>3. TypeOK'
    BY <1>1, <1>2 DEF GetInstall, Point, SesInv, TypeOK
  <1>4. MapConsistent'
    BY <1>1, <1>2 DEF SesInv, TypeOK, MapConsistent
  <1>5. id \notin cleared \ overlapped
    BY <1>1 DEF SesInv, LogoutSticks, Loading
  <1>6. LogoutSticks'
    BY <1>1, <1>5 DEF SesInv, TypeOK, LogoutSticks, Loading
  <1>7. LoginIsDurable' /\ UniqueIds'
    BY <1>1, <1>2 DEF SesInv, LoginIsDurable, UniqueIds
  <1>8. OnlyIssuedIds' /\ LoadedIsAsked'
    BY <1>1, <1>2 DEF SesInv, TypeOK, OnlyIssuedIds, LoadedIsAsked
  <1>9. QED
    BY <1>3, <1>4, <1>6, <1>7, <1>8 DEF SesInv

LEMMA LoginKeepsInv ==
  ASSUME SesInv, NEW w \in Workers, NEW o \in Objs, NEW id \in Ids,
         Login(w, o, id)
  PROVE  SesInv'
  <1> USE NoSessionAssumption
  <1>1. /\ id \notin issued /\ sessions[id] = NoSession /\ o \notin live
        /\ sesid' = [sesid EXCEPT ![o] = id]
        /\ sessions' = [sessions EXCEPT ![id] = o]
        /\ file' = [file EXCEPT ![id] = IF filestore THEN "saved" ELSE @]
        /\ issued' = issued \cup {id}
        /\ UNCHANGED <<filestore, pc, req, counted, loaded, cleared, overlapped>>
    BY DEF Login, NextId, Unallocated
  <1>2. /\ live' \subseteq live \cup {o}
        /\ \A i \in Ids : sessions'[i] \in live \cup {o} => sessions'[i] \in live'
        /\ \A u \in Workers : loaded[u] \in live => loaded[u] \in live'
    BY <1>1 DEF Login, Collect, Referenced
  <1>3. TypeOK'
    BY <1>1, <1>2 DEF Login, Point, SesInv, TypeOK
  <1>4. MapConsistent'
    BY <1>1, <1>2 DEF SesInv, TypeOK, MapConsistent
  <1>5. LogoutSticks'
    BY <1>1 DEF SesInv, TypeOK, LogoutSticks, OnlyIssuedIds, Loading
  <1>6. LoginIsDurable'
    BY <1>1 DEF SesInv, TypeOK, LoginIsDurable
  <1>7. OnlyIssuedIds'
    BY <1>1, <1>2 DEF SesInv, TypeOK, OnlyIssuedIds
  <1>8. LoadedIsAsked'
    BY <1>1, <1>2 DEF SesInv, TypeOK, LoadedIsAsked
  <1>9. UniqueIds'
    BY <1>1, <1>2 DEF SesInv, TypeOK, UniqueIds, OnlyIssuedIds
  <1>10. QED
    BY <1>3, <1>4, <1>5, <1>6, <1>7, <1>8, <1>9 DEF SesInv

LEMMA LogoutKeepsInv ==
  ASSUME SesInv, NEW w \in Workers, Logout(w)
  PROVE  SesInv'
  <1> USE NoSessionAssumption
  <1> DEFINE id == sesid[raw[w]]
  <1>1. /\ raw[w] \in live /\ id \in issued /\ id \in Ids
        /\ sessions' = [sessions EXCEPT ![id] = NoSession]
        /\ file' = [file EXCEPT ![id] = IF filestore THEN "null" ELSE @]
        /\ cleared' = cleared \cup {id}
        /\ overlapped' = IF Loading(id) THEN overlapped \cup {id} ELSE overlapped
        /\ UNCHANGED <<filestore, sesid, pc, req, counted, loaded, issued>>
    BY DEF Logout, SesInv, TypeOK, OnlyIssuedIds
  <1>2. /\ live' \subseteq live
        /\ \A i \in Ids : sessions'[i] \in live => sessions'[i] \in live'
        /\ \A u \in Workers : loaded[u] \in live => loaded[u] \in live'
    BY <1>1 DEF Logout, Collect, Referenced
  <1>3. TypeOK'
    BY <1>1, <1>2 DEF Logout, Point, SesInv, TypeOK
  <1>4. MapConsistent'
    BY <1>1, <1>2 DEF SesInv, TypeOK, MapConsistent
  <1>5. file'[id] # "saved"
    BY <1>1 DEF SesInv, TypeOK, OnlyIssuedIds
  <1>6. LogoutSticks'
    BY <1>1, <1>5 DEF SesInv, TypeOK, LogoutSticks, Loading
  <1>7. LoginIsDurable' /\ UniqueIds'
    BY <1>1, <1>2 DEF SesInv, TypeOK, LoginIsDurable, UniqueIds
  <1>8. OnlyIssuedIds' /\ LoadedIsAsked'
    BY <1>1, <1>2 DEF SesInv, TypeOK, OnlyIssuedIds, LoadedIsAsked
  <1>9. QED
    BY <1>3, <1>4, <1>6, <1>7, <1>8 DEF SesInv

(* An event ends, or entries leave the map: objects may go, and nothing else *)
(* changes that the invariant looks at.                                      *)
LEMMA ReleaseKeepsInv ==
  ASSUME SesInv, TypeOK',
         UNCHANGED <<filestore, sesid, file, loaded, issued, cleared, overlapped>>,
         \A i \in Ids : sessions'[i] \in {sessions[i], NoSession},
         \A u \in Workers : pc'[u] = "install" <=> pc[u] = "install",
         \A u \in Workers : pc[u] = "install" => req'[u] = req[u],
         Collect({})
  PROVE  SesInv'
  <1>1. /\ live' \subseteq live
        /\ \A i \in Ids : sessions'[i] \in live => sessions'[i] \in live'
        /\ \A u \in Workers : loaded[u] \in live => loaded[u] \in live'
    BY DEF Collect, Referenced
  <1>2. MapConsistent'
    BY <1>1 DEF SesInv, MapConsistent
  <1>3. LogoutSticks'
    <2>1. ASSUME NEW id \in cleared \ overlapped, id \in Ids
          PROVE  sessions'[id] = NoSession /\ file[id] # "saved" /\ ~Loading(id)'
      BY <2>1 DEF SesInv, LogoutSticks, Loading
    <2>2. QED
      BY <2>1 DEF SesInv, TypeOK, LogoutSticks
  <1>4. LoginIsDurable' /\ UniqueIds' /\ OnlyIssuedIds' /\ LoadedIsAsked'
    BY <1>1 DEF SesInv, LoginIsDurable, UniqueIds, OnlyIssuedIds, LoadedIsAsked
  <1>5. QED
    BY <1>2, <1>3, <1>4 DEF SesInv

LEMMA SesInvNext == SesInv /\ [Next]_vars => SesInv'
  <1> SUFFICES ASSUME SesInv, [Next]_vars PROVE SesInv'
    OBVIOUS
  <1> USE NoSessionAssumption
  <1>1. ASSUME NEW w \in Workers, Event(w) PROVE SesInv'
    <2>1. CASE EndEvent(w)
      <3>1. TypeOK'
        BY <2>1 DEF EndEvent, Move, Point, Collect, SesInv, TypeOK, UnusedId
      <3>2. QED
        BY <2>1, <3>1, ReleaseKeepsInv DEF EndEvent, Move, SesInv, TypeOK
    <2>2. QED
      BY <1>1, <2>1, EventKeepsInv, GetLoadKeepsInv, GetInstallKeepsInv,
         LoginKeepsInv, LogoutKeepsInv DEF Event
  <1>2. ASSUME NEW gone \in SUBSET Ids, DropFromMap(gone) PROVE SesInv'
    <2>1. TypeOK'
      BY <1>2 DEF DropFromMap, Collect, SesInv, TypeOK
    <2>2. QED
      BY <1>2, <2>1, ReleaseKeepsInv DEF DropFromMap
  <1>3. CASE Restart
    <2>1. TypeOK'
      BY <1>3 DEF Restart, NoneEach, SesInv, TypeOK, UnusedId
    <2>2. /\ \A i \in Ids : sessions'[i] = NoSession
          /\ \A u \in Workers : pc'[u] # "install"
          /\ live' = {}
          /\ UNCHANGED <<filestore, file, issued, cleared, overlapped>>
      BY <1>3 DEF Restart
    <2>3. LogoutSticks'
      BY <2>2 DEF SesInv, TypeOK, LogoutSticks, Loading
    <2>4. QED
      BY <2>1, <2>2, <2>3 DEF SesInv, MapConsistent, LoginIsDurable,
                              OnlyIssuedIds, LoadedIsAsked, UniqueIds
  <1>4. CASE UNCHANGED vars
    BY <1>4 DEF vars, SesInv, TypeOK, MapConsistent, LogoutSticks, LoginIsDurable,
                OnlyIssuedIds, LoadedIsAsked, UniqueIds, Loading
  <1>5. QED
    BY <1>1, <1>2, <1>3, <1>4 DEF Next, ClearById, Prune

LEMMA SesInvariance == Spec => []SesInv
  BY SesInvInit, SesInvNext, PTL DEF Spec

-----------------------------------------------------------------------------
(* The manager's variables keep their types and events their pointers where  *)
(* they belong.                                                              *)
THEOREM SessionTypeCorrect == Spec => []TypeOK
  <1>1. SesInv => TypeOK
    BY DEF SesInv
  <1>2. QED
    BY <1>1, SesInvariance, PTL

(* Every entry of the map is a live object with the id it is filed under.    *)
THEOREM MapAlwaysConsistent == Spec => []MapConsistent
  <1>1. SesInv => MapConsistent
    BY DEF SesInv
  <1>2. QED
    BY <1>1, SesInvariance, PTL

(* A session cleared while nobody was loading it never comes back, with or   *)
(* without a file store, across restarts.                                    *)
THEOREM LogoutIsFinal == Spec => []LogoutSticks
  <1>1. SesInv => LogoutSticks
    BY DEF SesInv
  <1>2. QED
    BY <1>1, SesInvariance, PTL

(* With a file store only a logout ends a session.                           *)
THEOREM LoginSurvives == Spec => []LoginIsDurable
  <1>1. SesInv => LoginIsDurable
    BY DEF SesInv
  <1>2. QED
    BY <1>1, SesInvariance, PTL

(* Without a file store all events of a session share one object.            *)
THEOREM SessionObjectIsShared == Spec => []OneObjectPerSession
  <1>1. SesInv => OneObjectPerSession
    BY DEF SesInv, UniqueIds, OneObjectPerSession
  <1>2. QED
    BY <1>1, SesInvariance, PTL

(* The map and the pointers of events are consistent for any number of       *)
(* events, sessions and restarts.                                            *)
THEOREM SessionsStaySafe == Spec => []SessionsSafe
  <1>1. SesInv => SessionsSafe
    BY DEF SesInv, SessionsSafe
  <1>2. QED
    BY <1>1, SesInvariance, PTL
=============================================================================
