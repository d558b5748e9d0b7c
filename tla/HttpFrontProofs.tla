---------------------------- MODULE HttpFrontProofs ----------------------------
(***************************************************************************)
(* The queue between acceptor and workers, for any number of workers and   *)
(* of clients.                                                             *)
(***************************************************************************)
EXTENDS HttpFront, FiniteSetTheorems, TLAPS

AwakeWorkers == {w \in Workers : Awake(w)}
PushAnnounced == IF pc[Acceptor] = "notify" THEN 1 ELSE 0

(* The acceptor offers a client it has. *)
OfferedIsClient == pc[Acceptor] = "offer" => client[Acceptor] \in Clients

-----------------------------------------------------------------------------
(* The threads and pieces of data are of their types at first and after every step. *)
LEMMA FrontTypeInit == Init => TypeOK /\ OfferedIsClient
  <1> SUFFICES ASSUME Init PROVE TypeOK /\ OfferedIsClient
    OBVIOUS
  <1>1. clients \in Seq(Clients) /\ backlog \in Seq(Clients) /\ Len(backlog) <= MaxBacklog
    BY BacklogAssumption DEF Init
  <1>2. pc \in [Threads -> {"poll", "top"}] /\ pc[Acceptor] = "poll"
        /\ \A w \in Workers : pc[w] = "top"
    BY AcceptorAssumption DEF Init, Threads
  <1>3. client \in [Threads -> Clients \cup {NoClient}]
    BY DEF Init
  <1>4. alive = TRUE /\ telling = FALSE /\ waiting = {}
    BY DEF Init
  <1>5. QED
    BY <1>1, <1>2, <1>3, <1>4 DEF TypeOK, OfferedIsClient

(* Connections come and the acceptor moves. *)
LEMMA ArrivalKeepsType ==
  ASSUME TypeOK, OfferedIsClient, (\E c \in Clients : Connect(c)) \/ AcceptorStep
  PROVE  TypeOK' /\ OfferedIsClient'
  <1> USE AcceptorAssumption, BacklogAssumption DEF TypeOK, OfferedIsClient, Threads, Move, Take
  <1>1. CASE \E c \in Clients : Connect(c)
    BY <1>1 DEF Connect
  <1>2. CASE PollQuiet \/ PollReady
    BY <1>2 DEF PollQuiet, PollReady
  <1>. backlog # <<>> => /\ Head(backlog) \in Clients /\ Tail(backlog) \in Seq(Clients)
                         /\ Len(Tail(backlog)) <= MaxBacklog
    OBVIOUS
  <1>3. CASE AcceptOk
    BY <1>3 DEF AcceptOk
  <1>4. CASE AcceptFail
    BY <1>4 DEF AcceptFail
  <1>5. CASE OfferWait \/ OfferStop
    BY <1>5 DEF OfferWait, OfferStop
  <1>6. CASE OfferPush
    BY <1>6 DEF OfferPush
  <1>7. CASE AcceptorNotify
    BY <1>7 DEF AcceptorNotify, Notify
  <1>8. QED
    BY <1>1, <1>2, <1>3, <1>4, <1>5, <1>6, <1>7 DEF AcceptorStep

(* A worker moves. *)
LEMMA WorkerKeepsType ==
  ASSUME TypeOK, OfferedIsClient, NEW w \in Workers, WorkerStep(w)
  PROVE  TypeOK' /\ OfferedIsClient'
  <1> USE AcceptorAssumption DEF TypeOK, OfferedIsClient, Threads, Move, Take
  <1>1. CASE WorkerExit(w) \/ WorkerWait(w)
    BY <1>1 DEF WorkerExit, WorkerWait, Awake
  <1>2. CASE WorkerTake(w)
    BY <1>2 DEF WorkerTake, Awake
  <1>3. CASE WorkerNotify(w)
    BY <1>3 DEF WorkerNotify, Notify
  <1>4. CASE WorkerDone(w)
    BY <1>4 DEF WorkerDone
  <1>5. QED
    BY <1>1, <1>2, <1>3, <1>4 DEF WorkerStep

(* And with them everything. *)
LEMMA FrontTypeStep ==
  TypeOK /\ OfferedIsClient /\ [Next]_vars => TypeOK' /\ OfferedIsClient'
  <1> SUFFICES ASSUME TypeOK, OfferedIsClient, [Next]_vars
               PROVE  TypeOK' /\ OfferedIsClient'
    OBVIOUS
  <1>1. CASE NotifyStop \/ NotifyStopAll \/ \E t \in Threads : WakeUnasked(t)
    BY <1>1 DEF NotifyStop, NotifyStopAll, WakeUnasked, TypeOK, OfferedIsClient
  <1>2. CASE UNCHANGED vars
    BY <1>2 DEF vars, TypeOK, OfferedIsClient
  <1>3. QED
    BY <1>1, <1>2, ArrivalKeepsType, WorkerKeepsType DEF Next

-----------------------------------------------------------------------------
(* No step but the acceptor's push makes the queue longer. *)
LEMMA OnlyPushGrows ==
  ASSUME TypeOK, [Next]_vars, ~OfferPush
  PROVE  clients' = clients \/ \E w \in Workers : WorkerTake(w)
  BY DEF Next, vars, AcceptorStep, PollQuiet, PollReady, AcceptOk, AcceptFail, OfferWait,
         OfferStop, AcceptorNotify, WorkerStep, WorkerExit, WorkerWait, WorkerNotify, WorkerDone,
         NotifyStop, NotifyStopAll, Connect, WakeUnasked

(* The flow control looks before each push. *)
LEMMA BoundStep == TypeOK /\ QueueBounded /\ [Next]_vars => QueueBounded'
  <1> SUFFICES ASSUME TypeOK, QueueBounded, [Next]_vars PROVE QueueBounded'
    OBVIOUS
  <1>1. Cardinality(Workers) \in Nat
    BY WorkersAssumption, FS_CardinalityType
  <1>2. CASE OfferPush
    BY <1>1, <1>2 DEF OfferPush, Full, QueueBounded, TypeOK, Threads
  <1>3. CASE \E w \in Workers : WorkerTake(w)
    BY <1>1, <1>3 DEF WorkerTake, QueueBounded, TypeOK
  <1>4. QED
    BY <1>2, <1>3, OnlyPushGrows DEF QueueBounded

-----------------------------------------------------------------------------
(* Some more awake workers, or the same, are no fewer. *)
LEMMA AwakeCount ==
  /\ IsFiniteSet(AwakeWorkers) /\ Cardinality(AwakeWorkers) \in Nat
  /\ IsFiniteSet(AwakeWorkers') /\ Cardinality(AwakeWorkers') \in Nat
  /\ AwakeWorkers \subseteq AwakeWorkers' => Cardinality(AwakeWorkers) <= Cardinality(AwakeWorkers')
  <1>1. IsFiniteSet(AwakeWorkers) /\ IsFiniteSet(AwakeWorkers')
    BY WorkersAssumption, FS_Subset DEF AwakeWorkers
  <1>2. QED
    BY <1>1, FS_CardinalityType, FS_Subset

(* A queue with an awake worker for each client stays one: a push is announced before it    *)
(* counts, whoever the announcement wakes is a worker, since the acceptor is awake itself,  *)
(* and a worker that takes a client takes one of the queue's.                               *)
LEMMA AwakeStep ==
  ASSUME TypeOK, TypeOK', WorkersAwakeForQueue, [Next]_vars
  PROVE  WorkersAwakeForQueue'
  <1> DEFINE N == Cardinality(AwakeWorkers)
  <1> SUFFICES ASSUME alive', waiting' \cap Workers # {}
               PROVE  Len(clients') <= Cardinality(AwakeWorkers') + PushAnnounced'
    BY DEF WorkersAwakeForQueue, AwakeWorkers, PushAnnounced
  <1>a. /\ IsFiniteSet(AwakeWorkers) /\ N \in Nat
        /\ IsFiniteSet(AwakeWorkers') /\ Cardinality(AwakeWorkers') \in Nat
        /\ AwakeWorkers \subseteq AwakeWorkers' => N <= Cardinality(AwakeWorkers')
    BY AwakeCount
  <1>b. /\ Len(clients) \in Nat /\ Len(clients') \in Nat
        /\ PushAnnounced \in {0, 1} /\ PushAnnounced' \in {0, 1}
    BY DEF TypeOK, PushAnnounced
  <1>c. alive /\ waiting \cap Workers # {} => Len(clients) <= N + PushAnnounced
    BY DEF WorkersAwakeForQueue, AwakeWorkers, PushAnnounced
  <1>1. CASE OfferPush
    <2>1. /\ alive /\ waiting' = waiting /\ Len(clients') = Len(clients) + 1
          /\ PushAnnounced = 0 /\ PushAnnounced' = 1
      BY <1>1 DEF OfferPush, TypeOK, Move, PushAnnounced, Threads
    <2>2. AwakeWorkers' = AwakeWorkers
      BY <1>1, AcceptorAssumption DEF OfferPush, TypeOK, Move, AwakeWorkers, Awake, Threads
    <2>3. QED
      BY <2>1, <2>2, <1>a, <1>b, <1>c
  <1>2. CASE AcceptorNotify
    <2>1. /\ alive /\ clients' = clients /\ PushAnnounced = 1 /\ PushAnnounced' = 0
          /\ Acceptor \notin waiting
      BY <1>2 DEF AcceptorNotify, TypeOK, Move, PushAnnounced, Threads
    <2>2. PICK t \in waiting : waiting' = waiting \ {t}
      BY <1>2 DEF AcceptorNotify, Notify
    <2>3. t \in Workers /\ pc[t] = "top" /\ t \notin AwakeWorkers
      BY <2>1, <2>2, AcceptorAssumption DEF TypeOK, Threads, AwakeWorkers, Awake
    <2>4. AwakeWorkers' = AwakeWorkers \cup {t}
      BY <1>2, <2>2, <2>3, AcceptorAssumption
      DEF AcceptorNotify, TypeOK, Move, AwakeWorkers, Awake, Threads
    <2>5. Cardinality(AwakeWorkers') = N + 1
      BY <2>3, <2>4, <1>a, FS_AddElement
    <2>6. waiting \cap Workers # {}
      BY <2>2, <2>3
    <2>7. QED
      BY <2>1, <2>5, <2>6, <1>a, <1>b, <1>c
  <1>3. ASSUME NEW w \in Workers, WorkerTake(w)
        PROVE  Len(clients') <= Cardinality(AwakeWorkers') + PushAnnounced'
    <2>1. /\ alive /\ waiting' = waiting /\ Len(clients') = Len(clients) - 1
          /\ PushAnnounced' = PushAnnounced
      BY <1>3, AcceptorAssumption DEF WorkerTake, TypeOK, Move, PushAnnounced, Threads
    <2>2. w \in AwakeWorkers /\ AwakeWorkers' = AwakeWorkers \ {w}
      BY <1>3 DEF WorkerTake, TypeOK, Move, AwakeWorkers, Awake, Threads
    <2>3. Cardinality(AwakeWorkers') = N - 1
      BY <2>2, <1>a, FS_RemoveElement
    <2>4. QED
      BY <2>1, <2>3, <1>a, <1>b, <1>c
  <1>4. ASSUME NEW w \in Workers, WorkerWait(w)
        PROVE  Len(clients') <= Cardinality(AwakeWorkers') + PushAnnounced'
    BY <1>4, <1>a, <1>b DEF WorkerWait, PushAnnounced
  <1>5. CASE /\ ~OfferPush /\ ~AcceptorNotify
             /\ \A w \in Workers : ~WorkerTake(w) /\ ~WorkerWait(w)
    <2>1. alive /\ clients' = clients /\ waiting' \cap Workers \subseteq waiting
      BY <1>5, AcceptorAssumption
      DEF Next, vars, AcceptorStep, PollQuiet, PollReady, AcceptOk, AcceptFail, OfferWait,
          OfferStop, WorkerStep, WorkerExit, WorkerNotify, WorkerDone, Notify,
          NotifyStop, NotifyStopAll, Connect, WakeUnasked
    <2>2. AwakeWorkers \subseteq AwakeWorkers'
      BY <1>5, <2>1, AcceptorAssumption
      DEF Next, vars, AcceptorStep, PollQuiet, PollReady, AcceptOk, AcceptFail, OfferWait,
          OfferStop, WorkerStep, WorkerExit, WorkerNotify, WorkerDone, Notify, Move,
          NotifyStop, NotifyStopAll, Connect, WakeUnasked, AwakeWorkers, Awake, TypeOK, Threads
    <2>3. PushAnnounced' = PushAnnounced
      BY <1>5, AcceptorAssumption
      DEF Next, vars, AcceptorStep, PollQuiet, PollReady, AcceptOk, AcceptFail, OfferWait,
          OfferStop, WorkerStep, WorkerExit, WorkerNotify, WorkerDone, Move,
          NotifyStop, NotifyStopAll, Connect, WakeUnasked, PushAnnounced, TypeOK, Threads
    <2>4. QED
      BY <2>1, <2>2, <2>3, <1>a, <1>b, <1>c
  <1>6. QED
    BY <1>1, <1>2, <1>3, <1>4, <1>5

-----------------------------------------------------------------------------
(* The queue holds at most one client more than twice the workers, and no client waits in   *)
(* it beside a sleeping worker, for every number of workers, whatever order pushes, pops,   *)
(* wakeups and timeouts come in (http_front::run, http_worker::run).                        *)
THEOREM QueueStaysSafe == Safety => []QueueSafe
  <1> DEFINE Inv == QueueSafe /\ OfferedIsClient
  <1>1. Init => Inv
    <2> SUFFICES ASSUME Init PROVE Inv
      OBVIOUS
    <2>1. TypeOK /\ OfferedIsClient
      BY FrontTypeInit
    <2>2. Len(clients) = 0 /\ waiting = {} /\ Cardinality(Workers) \in Nat
      BY WorkersAssumption, FS_CardinalityType DEF Init
    <2>3. QED
      BY <2>1, <2>2 DEF QueueSafe, QueueBounded, WorkersAwakeForQueue
  <1>2. Inv /\ [Next]_vars => Inv'
    BY FrontTypeStep, BoundStep, AwakeStep DEF QueueSafe
  <1>3. Inv => QueueSafe
    OBVIOUS
  <1>4. QED
    BY <1>1, <1>2, <1>3, PTL DEF Safety

-----------------------------------------------------------------------------
(* ServedOnce, without counting: the hands, the queue and the backlog have Probe once, and   *)
(* one of them only.                                                                         *)
OnceAtMost ==
  /\ \A t, u \in Threads : client[t] = Probe /\ client[u] = Probe => t = u
  /\ \A i, j \in 1 .. Len(clients) : clients[i] = Probe /\ clients[j] = Probe => i = j
  /\ \A i, j \in 1 .. Len(backlog) : backlog[i] = Probe /\ backlog[j] = Probe => i = j
  /\ \A t \in Threads, i \in 1 .. Len(clients) : client[t] = Probe => clients[i] # Probe
  /\ \A t \in Threads, i \in 1 .. Len(backlog) : client[t] = Probe => backlog[i] # Probe
  /\ \A i \in 1 .. Len(clients), j \in 1 .. Len(backlog) : clients[i] = Probe => backlog[j] # Probe

(* The absence of a client is not one. *)
LEMMA NoClientIsNone == NoClient # Probe
  <1> SUFFICES ASSUME NoClient = Probe PROVE FALSE
    OBVIOUS
  <1>1. {Probe, Other, NoClient} = {Other} \cup {Probe}
    OBVIOUS
  <1>2. IsFiniteSet({Other}) /\ Cardinality({Other}) = 1
    BY FS_Singleton
  <1>3. Cardinality({Other} \cup {Probe}) \in {1, 2}
    BY <1>2, FS_AddElement
  <1>4. QED
    BY <1>1, <1>3, ClientAssumption

(* A client that connects is nowhere yet. *)
LEMMA ConnectKeepsOnce ==
  ASSUME TypeOK, OnceAtMost, NEW c \in Clients, Connect(c)
  PROVE  OnceAtMost'
  <1>1. /\ client' = client /\ clients' = clients /\ Len(backlog') = Len(backlog) + 1
        /\ Len(backlog) \in Nat
        /\ \A i \in 1 .. Len(backlog) : backlog'[i] = backlog[i]
        /\ backlog'[Len(backlog) + 1] = c
    BY DEF Connect, TypeOK
  <1>2. c = Probe => /\ \A t \in Threads : client[t] # Probe
                     /\ \A i \in 1 .. Len(clients) : clients[i] # Probe
                     /\ \A i \in 1 .. Len(backlog) : backlog[i] # Probe
    BY DEF Connect, TypeOK
  <1>3. QED
    BY <1>1, <1>2 DEF OnceAtMost

(* The acceptor takes a connection from the backlog, or it is lost, or still there. *)
LEMMA AcceptKeepsOnce ==
  ASSUME TypeOK, OnceAtMost, AcceptOk \/ AcceptFail
  PROVE  OnceAtMost'
  <1>1. /\ clients' = clients /\ Len(backlog) \in Nat \ {0} /\ Acceptor \in Threads
        /\ Len(Tail(backlog)) = Len(backlog) - 1
        /\ \A i \in 1 .. Len(backlog) - 1 : Tail(backlog)[i] = backlog[i + 1]
    BY DEF AcceptOk, AcceptFail, TypeOK, Threads
  <1>2. CASE AcceptOk
    <2>1. /\ backlog' = Tail(backlog) /\ client'[Acceptor] = backlog[1]
          /\ \A t \in Threads \ {Acceptor} : client'[t] = client[t]
      BY <1>2, <1>1 DEF AcceptOk, TypeOK, Take
    <2>2. \A t \in Threads :
            client'[t] = Probe => (t # Acceptor /\ client[t] = Probe) \/ (t = Acceptor /\ backlog[1] = Probe)
      BY <2>1
    <2>3. /\ 1 \in 1 .. Len(backlog)
          /\ \A i \in 1 .. Len(backlog') :
               i + 1 \in 1 .. Len(backlog) /\ i + 1 # 1 /\ backlog'[i] = backlog[i + 1]
      BY <1>1, <2>1
    <2>4. \A t, u \in Threads : client'[t] = Probe /\ client'[u] = Probe => t = u
      BY <2>2, <2>3 DEF OnceAtMost
    <2>5. \A i, j \in 1 .. Len(backlog') : backlog'[i] = Probe /\ backlog'[j] = Probe => i = j
      <3>1. SUFFICES ASSUME NEW i \in 1 .. Len(backlog'), NEW j \in 1 .. Len(backlog'),
                            backlog'[i] = Probe, backlog'[j] = Probe
                     PROVE  i = j
        OBVIOUS
      <3>2. i + 1 = j + 1
        BY <2>3, <3>1 DEF OnceAtMost
      <3>3. QED
        BY <3>2
    <2>6. \A t \in Threads, i \in 1 .. Len(backlog') : client'[t] = Probe => backlog'[i] # Probe
      <3>1. SUFFICES ASSUME NEW t \in Threads, NEW i \in 1 .. Len(backlog'), client'[t] = Probe
                     PROVE  backlog[i + 1] # Probe
        BY <2>3
      <3>2. CASE client[t] = Probe
        BY <2>3, <3>2 DEF OnceAtMost
      <3>3. CASE backlog[1] = Probe
        BY <2>3, <3>3 DEF OnceAtMost
      <3>4. QED
        BY <2>2, <3>1, <3>2, <3>3
    <2>7. /\ \A i, j \in 1 .. Len(clients') : clients'[i] = Probe /\ clients'[j] = Probe => i = j
          /\ \A t \in Threads, i \in 1 .. Len(clients') : client'[t] = Probe => clients'[i] # Probe
          /\ \A i \in 1 .. Len(clients'), j \in 1 .. Len(backlog') :
               clients'[i] = Probe => backlog'[j] # Probe
      BY <1>1, <2>2, <2>3 DEF OnceAtMost
    <2>8. QED
      BY <2>4, <2>5, <2>6, <2>7 DEF OnceAtMost
  <1>3. CASE AcceptFail
    <2>1. client' = client /\ (backlog' = backlog \/ backlog' = Tail(backlog))
      BY <1>3 DEF AcceptFail
    <2>2. CASE backlog' = backlog
      BY <1>1, <2>1, <2>2 DEF OnceAtMost
    <2>3. CASE backlog' = Tail(backlog)
      <3>1. \A i \in 1 .. Len(backlog') : i + 1 \in 1 .. Len(backlog) /\ backlog'[i] = backlog[i + 1]
        BY <1>1, <2>3
      <3>2. \A i, j \in 1 .. Len(backlog') : backlog'[i] = Probe /\ backlog'[j] = Probe => i = j
        <4>1. \A i, j \in 1 .. Len(backlog') :
                backlog'[i] = Probe /\ backlog'[j] = Probe => i + 1 = j + 1
          BY <3>1 DEF OnceAtMost
        <4>2. QED
          BY <4>1
      <3>3. QED
        BY <1>1, <2>1, <3>1, <3>2 DEF OnceAtMost
    <2>4. QED
      BY <2>1, <2>2, <2>3
  <1>4. QED
    BY <1>2, <1>3

(* The acceptor's client goes into the queue. *)
LEMMA PushKeepsOnce ==
  ASSUME TypeOK, OnceAtMost, OfferPush
  PROVE  OnceAtMost'
  <1>1. /\ backlog' = backlog /\ Len(clients') = Len(clients) + 1 /\ Len(clients) \in Nat
        /\ \A i \in 1 .. Len(clients) : clients'[i] = clients[i]
        /\ clients'[Len(clients) + 1] = client[Acceptor]
        /\ client'[Acceptor] = NoClient /\ Acceptor \in Threads
        /\ \A t \in Threads \ {Acceptor} : client'[t] = client[t]
    BY DEF OfferPush, TypeOK, Take, Threads
  <1>2. QED
    BY <1>1, NoClientIsNone DEF OnceAtMost

(* A worker takes the first of the queue. *)
LEMMA TakeKeepsOnce ==
  ASSUME TypeOK, OnceAtMost, NEW w \in Workers, WorkerTake(w)
  PROVE  OnceAtMost'
  <1>1. /\ backlog' = backlog /\ clients' = Tail(clients)
        /\ Len(clients) \in Nat \ {0} /\ Len(clients') = Len(clients) - 1
        /\ \A i \in 1 .. Len(clients) - 1 : clients'[i] = clients[i + 1]
        /\ client'[w] = clients[1] /\ w \in Threads
        /\ \A t \in Threads \ {w} : client'[t] = client[t]
    BY DEF WorkerTake, TypeOK, Take, Threads
  <1>2. QED
    BY <1>1 DEF OnceAtMost

(* Every step. *)
LEMMA OnceStep == TypeOK /\ OnceAtMost /\ [Next]_vars => OnceAtMost'
  <1> SUFFICES ASSUME TypeOK, OnceAtMost, [Next]_vars PROVE OnceAtMost'
    OBVIOUS
  <1>1. CASE OfferStop \/ \E w \in Workers : WorkerDone(w)
    <2>1. /\ clients' = clients /\ backlog' = backlog
          /\ \A t \in Threads : client'[t] \in {client[t], NoClient}
      BY <1>1 DEF OfferStop, WorkerDone, TypeOK, Take
    <2>2. QED
      BY <2>1, NoClientIsNone DEF OnceAtMost
  <1>2. CASE UNCHANGED <<clients, backlog, client>>
    BY <1>2 DEF OnceAtMost
  <1>3. CASE \/ AcceptOk \/ AcceptFail \/ OfferPush
             \/ (\E c \in Clients : Connect(c)) \/ \E w \in Workers : WorkerTake(w)
    BY <1>3, ConnectKeepsOnce, AcceptKeepsOnce, PushKeepsOnce, TakeKeepsOnce
  <1>4. QED
    BY <1>1, <1>2, <1>3
    DEF Next, vars, AcceptorStep, PollQuiet, PollReady, OfferWait, AcceptorNotify, WorkerStep,
        WorkerExit, WorkerWait, WorkerNotify, NotifyStop, NotifyStopAll, WakeUnasked

(* Having Probe once is having one place at most. *)
LEMMA OnceIsServedOnce == TypeOK /\ OnceAtMost => ServedOnce
  <1> SUFFICES ASSUME TypeOK, OnceAtMost PROVE ServedOnce
    OBVIOUS
  <1> DEFINE Hands == {<<"thread", t>> : t \in {u \in Threads : client[u] = Probe}}
             Queue == {<<"queue", i>> : i \in {j \in DOMAIN clients : clients[j] = Probe}}
             Waiting == {<<"backlog", i>> : i \in {j \in DOMAIN backlog : backlog[j] = Probe}}
             Places == Hands \cup Queue \cup Waiting
  <1>1. DOMAIN clients = 1 .. Len(clients) /\ DOMAIN backlog = 1 .. Len(backlog)
    BY DEF TypeOK
  <1>2. \A x, y \in Places : x = y
    BY <1>1 DEF OnceAtMost
  <1>3. Places = {} \/ \E x : Places = {x}
    <2> HIDE DEF Places
    <2>1. CASE Places # {}
      <3>1. PICK x : x \in Places
        BY <2>1
      <3>2. Places = {x}
        BY <1>2, <3>1
      <3>3. QED
        BY <3>2
    <2>2. QED
      BY <2>1
  <1>4. Cardinality(Places) \in {0, 1}
    BY <1>3, FS_EmptySet, FS_Singleton
  <1>5. QED
    BY <1>4 DEF ServedOnce

(* A connection is in the hands of one thread, or queued once, or waits once to be accepted, *)
(* for every number of workers: no client is served twice, and none while it is queued.      *)
THEOREM ServedOnceAtMost == Safety => []ServedOnce
  <1> DEFINE Inv == TypeOK /\ OfferedIsClient /\ OnceAtMost
  <1>1. Init => Inv
    BY FrontTypeInit, NoClientIsNone DEF Init, OnceAtMost
  <1>2. Inv /\ [Next]_vars => Inv'
    BY FrontTypeStep, OnceStep
  <1>3. Inv => ServedOnce
    BY OnceIsServedOnce
  <1>4. QED
    BY <1>1, <1>2, <1>3, PTL DEF Safety

-----------------------------------------------------------------------------
(* The front keeps the safety half of a job's contract, for any number of threads: it starts *)
(* neither told nor ended, stays told once told, ends only if told, all its threads gone for *)
(* good.  That it does end, once told, is checked and not proved.                            *)
THEOREM FrontStaysAJob == Safety => Job!JobInit /\ [][Job!JobNext]_(Job!jobvars)
  <1>1. Init => Job!JobInit
    <2> SUFFICES ASSUME Init PROVE Job!JobInit
      OBVIOUS
    <2>1. Acceptor \in Threads /\ pc[Acceptor] = "poll"
      BY DEF Init, Threads
    <2>2. AllExited = FALSE
      BY <2>1 DEF AllExited
    <2>3. (~alive) = FALSE
      BY DEF Init
    <2>4. QED
      BY <2>2, <2>3 DEF Job!JobInit
  <1>2. TypeOK /\ [Next]_vars => [Job!JobNext]_(Job!jobvars)
    <2> SUFFICES ASSUME TypeOK, [Next]_vars PROVE [Job!JobNext]_(Job!jobvars)
      OBVIOUS
    <2>1. CASE NotifyStop
      BY <2>1 DEF NotifyStop, Job!JobNext, Job!NotifyStop, Job!jobvars, AllExited, TypeOK
    <2>2. CASE ~NotifyStop
      <3>1. alive' = alive
        BY <2>2
        DEF Next, vars, AcceptorStep, PollQuiet, PollReady, AcceptOk, AcceptFail, OfferWait,
            OfferPush, OfferStop, AcceptorNotify, WorkerStep, WorkerExit, WorkerWait, WorkerTake,
            WorkerNotify, WorkerDone, NotifyStopAll, Connect, WakeUnasked
      <3>2. \A t \in Threads : pc[t] = "exited" => pc'[t] = "exited"
        BY <2>2
        DEF Next, vars, AcceptorStep, PollQuiet, PollReady, AcceptOk, AcceptFail, OfferWait,
            OfferPush, OfferStop, AcceptorNotify, WorkerStep, WorkerExit, WorkerWait, WorkerTake,
            WorkerNotify, WorkerDone, NotifyStopAll, Connect, WakeUnasked, Move, TypeOK
      <3>3. alive => \A t \in Threads : pc'[t] = "exited" => pc[t] = "exited"
        BY <2>2
        DEF Next, vars, AcceptorStep, PollQuiet, PollReady, AcceptOk, AcceptFail, OfferWait,
            OfferPush, OfferStop, AcceptorNotify, WorkerStep, WorkerExit, WorkerWait, WorkerTake,
            WorkerNotify, WorkerDone, NotifyStopAll, Connect, WakeUnasked, Move, TypeOK
      <3>4. AllExited => AllExited'
        BY <3>2 DEF AllExited
      <3>5. alive => (AllExited' => AllExited)
        BY <3>3 DEF AllExited
      <3>6. AllExited \in BOOLEAN /\ AllExited' \in BOOLEAN
        BY DEF AllExited
      <3>7. CASE AllExited' = AllExited
        BY <3>1, <3>7 DEF Job!jobvars
      <3>8. CASE ~alive /\ AllExited' = TRUE
        BY <3>1, <3>8 DEF Job!JobNext, Job!End
      <3>9. QED
        BY <3>4, <3>5, <3>6, <3>7, <3>8 DEF TypeOK
    <2>3. QED
      BY <2>1, <2>2
  <1>3. Safety => []TypeOK
    BY QueueStaysSafe, PTL DEF QueueSafe
  <1>4. QED
    BY <1>1, <1>2, <1>3, PTL DEF Safety
================================================================================
