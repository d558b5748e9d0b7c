------------------------------ MODULE HttpFront ------------------------------
(***************************************************************************)
(* http_front and its http_workers (core/httpfront.cpp): one acceptor      *)
(* thread that queues the clients it accepts and a pool of workers that    *)
(* take them off, around one event_area: the queue and the alive flag with *)
(* a mutex and a single condition, on which acceptor and workers both wait. *)
(*                                                                         *)
(* A passage with the mutex held is one action.  notify and notify_all are *)
(* called after the mutex is released, so they are steps of their own.     *)
(*                                                                         *)
(* One client, Probe, is followed by name; all others are Other.           *)
(***************************************************************************)
EXTENDS Integers, Sequences, FiniteSets

CONSTANTS
  Workers,   \* m_workers
  Acceptor,  \* the front's own thread
  Probe, Other, NoClient,
  MaxBacklog \* bound: connections the operating system holds for accept

ASSUME WorkersAssumption == IsFiniteSet(Workers) /\ Workers # {}
ASSUME AcceptorAssumption == Acceptor \notin Workers
ASSUME ClientAssumption == Cardinality({Probe, Other, NoClient}) = 3
ASSUME BacklogAssumption == MaxBacklog \in Nat

Clients == {Probe, Other}
Threads == Workers \cup {Acceptor}

VARIABLES
  clients,  \* client_area::clients
  alive,    \* client_area::alive
  waiting,  \* threads asleep on pm_condition
  pc,       \* where each thread is
  client,   \* the connection each thread has in hand
  backlog,  \* connections waiting to be accepted
  telling   \* notify_stop has cleared alive and not notified yet

vars == <<clients, alive, waiting, pc, client, backlog, telling>>

Init ==
  /\ clients = <<>> /\ alive = TRUE /\ waiting = {}
  /\ pc = [t \in Threads |-> IF t = Acceptor THEN "poll" ELSE "top"]
  /\ client = [t \in Threads |-> NoClient]
  /\ backlog = <<>>
  /\ telling = FALSE

Move(t, from, to) == pc[t] = from /\ pc' = [pc EXCEPT ![t] = to]
Take(t, c) == client' = [client EXCEPT ![t] = c]

(* pm_condition.notify wakes one sleeper, whoever it is. *)
Notify ==
  IF waiting = {} THEN UNCHANGED waiting
                  ELSE \E t \in waiting : waiting' = waiting \ {t}

(* A woken thread tests its loop's condition again; wait may also return    *)
(* unasked, or after its timeout.                                           *)
WakeUnasked(t) ==
  /\ t \in waiting
  /\ waiting' = waiting \ {t}
  /\ UNCHANGED <<clients, alive, pc, client, backlog, telling>>
-----------------------------------------------------------------------------
(* Connections come in.  Probe is one client: it is in one place at a time. *)
Connect(c) ==
  /\ Len(backlog) < MaxBacklog
  /\ c = Probe => /\ \A t \in Threads : client[t] # Probe
                  /\ \A i \in DOMAIN clients : clients[i] # Probe
                  /\ \A i \in DOMAIN backlog : backlog[i] # Probe
  /\ backlog' = Append(backlog, c)
  /\ UNCHANGED <<clients, alive, waiting, pc, client, telling>>

(* read_ready times out: only then does the acceptor look at alive. *)
PollQuiet ==
  /\ backlog = <<>>
  /\ Move(Acceptor, "poll", IF alive THEN "poll" ELSE "exited")
  /\ UNCHANGED <<clients, alive, waiting, client, backlog, telling>>

PollReady ==
  /\ backlog # <<>>
  /\ Move(Acceptor, "poll", "accept")
  /\ UNCHANGED <<clients, alive, waiting, client, backlog, telling>>

AcceptOk ==
  /\ backlog # <<>>
  /\ Move(Acceptor, "accept", "offer")
  /\ Take(Acceptor, Head(backlog))
  /\ backlog' = Tail(backlog)
  /\ UNCHANGED <<clients, alive, waiting, telling>>

(* accept fails, with or without the connection lost; alive is not read. *)
AcceptFail ==
  /\ backlog # <<>>
  /\ Move(Acceptor, "accept", "poll")
  /\ backlog' \in {backlog, Tail(backlog)}
  /\ UNCHANGED <<clients, alive, waiting, client, telling>>

Full == Len(clients) > 2 * Cardinality(Workers)

(* Flow control: too many clients are pending. *)
OfferWait ==
  /\ pc[Acceptor] = "offer" /\ Acceptor \notin waiting
  /\ Full /\ alive
  /\ waiting' = waiting \cup {Acceptor}
  /\ UNCHANGED <<clients, alive, pc, client, backlog, telling>>

(* Mutant: the push is not followed by notify. *)
OfferNoNotify ==
  /\ Acceptor \notin waiting
  /\ ~Full /\ alive
  /\ Move(Acceptor, "offer", "poll")
  /\ clients' = Append(clients, client[Acceptor])
  /\ Take(Acceptor, NoClient)
  /\ UNCHANGED <<alive, waiting, backlog, telling>>

OfferPush ==
  /\ Acceptor \notin waiting
  /\ ~Full /\ alive
  /\ Move(Acceptor, "offer", "notify")
  /\ clients' = Append(clients, client[Acceptor])
  /\ Take(Acceptor, NoClient)
  /\ UNCHANGED <<alive, waiting, backlog, telling>>

(* The front stops: the accepted client is let go. *)
OfferStop ==
  /\ Acceptor \notin waiting
  /\ ~alive
  /\ Move(Acceptor, "offer", "exited")
  /\ Take(Acceptor, NoClient)
  /\ UNCHANGED <<clients, alive, waiting, backlog, telling>>

AcceptorNotify ==
  /\ Move(Acceptor, "notify", "poll")
  /\ Notify
  /\ UNCHANGED <<clients, alive, client, backlog, telling>>

AcceptorStep ==
  \/ PollQuiet \/ PollReady \/ AcceptOk \/ AcceptFail
  \/ OfferWait \/ OfferPush \/ OfferStop \/ AcceptorNotify
-----------------------------------------------------------------------------
(* A worker with the mutex: at the top of its loop, or awake inside wait.    *)
Awake(w) == pc[w] = "top" /\ w \notin waiting

WorkerExit(w) ==
  /\ Awake(w) /\ ~alive
  /\ Move(w, "top", "exited")
  /\ UNCHANGED <<clients, alive, waiting, client, backlog, telling>>

WorkerWait(w) ==
  /\ Awake(w) /\ alive /\ clients = <<>>
  /\ waiting' = waiting \cup {w}
  /\ UNCHANGED <<clients, alive, pc, client, backlog, telling>>

(* Mutant: the client is read from the front and not popped. *)
WorkerPeek(w) ==
  /\ Awake(w) /\ alive /\ clients # <<>>
  /\ Move(w, "top", "taken")
  /\ Take(w, Head(clients))
  /\ UNCHANGED <<clients, alive, waiting, backlog, telling>>

(* Mutant: the last client pushed is served first. *)
WorkerTakeLast(w) ==
  /\ Awake(w) /\ alive /\ clients # <<>>
  /\ Move(w, "top", "taken")
  /\ Take(w, clients[Len(clients)])
  /\ clients' = SubSeq(clients, 1, Len(clients) - 1)
  /\ UNCHANGED <<alive, waiting, backlog, telling>>

WorkerTake(w) ==
  /\ Awake(w) /\ alive /\ clients # <<>>
  /\ Move(w, "top", "taken")
  /\ Take(w, Head(clients))
  /\ clients' = Tail(clients)
  /\ UNCHANGED <<alive, waiting, backlog, telling>>

(* The notification that one client has been processed. *)
WorkerNotify(w) ==
  /\ Move(w, "taken", "serving")
  /\ Notify
  /\ UNCHANGED <<clients, alive, client, backlog, telling>>

(* process_event returns and the connection is closed. *)
WorkerDone(w) ==
  /\ Move(w, "serving", "top")
  /\ Take(w, NoClient)
  /\ UNCHANGED <<clients, alive, waiting, backlog, telling>>

WorkerStep(w) ==
  \/ WorkerExit(w) \/ WorkerWait(w) \/ WorkerTake(w)
  \/ WorkerNotify(w) \/ WorkerDone(w)
-----------------------------------------------------------------------------
(* notify_stop, called by the engine: alive under the mutex... *)
NotifyStop ==
  /\ ~telling
  /\ alive' = FALSE
  /\ telling' = TRUE
  /\ UNCHANGED <<clients, waiting, pc, client, backlog>>

(* Mutant: notify_stop wakes one thread. *)
NotifyStopOne ==
  /\ telling
  /\ telling' = FALSE
  /\ Notify
  /\ UNCHANGED <<clients, alive, pc, client, backlog>>

(* ... and notify_all once it is released. *)
NotifyStopAll ==
  /\ telling
  /\ telling' = FALSE
  /\ waiting' = {}
  /\ UNCHANGED <<clients, alive, pc, client, backlog>>

Next ==
  \/ AcceptorStep \/ NotifyStop \/ NotifyStopAll
  \/ \E c \in Clients : Connect(c)
  \/ \E w \in Workers : WorkerStep(w)
  \/ \E t \in Threads : WakeUnasked(t)

(* Threads run; the acceptor's wait has a timeout; a handler returns.  The   *)
(* caller of notify_stop goes on.  accept does not fail for ever.  Nothing   *)
(* makes a client connect, or a wait without timeout return unasked.         *)
Fairness ==
  /\ WF_vars(AcceptorStep)
  /\ SF_vars(AcceptOk)
  /\ WF_vars(WakeUnasked(Acceptor))
  /\ WF_vars(NotifyStopAll)
  /\ \A w \in Workers : WF_vars(WorkerStep(w))

Safety == Init /\ [][Next]_vars
Spec == Safety /\ Fairness
-----------------------------------------------------------------------------
(* Types, and who may sleep where. *)
TypeOK ==
  /\ clients \in Seq(Clients)
  /\ alive \in BOOLEAN /\ telling \in BOOLEAN
  /\ pc \in [Threads -> {"poll", "accept", "offer", "notify", "top", "taken",
                         "serving", "exited"}]
  /\ pc[Acceptor] \notin {"top", "taken", "serving"}
  /\ \A w \in Workers : pc[w] \in {"top", "taken", "serving", "exited"}
  /\ waiting \subseteq {t \in Threads : pc[t] \in {"offer", "top"}}
  /\ client \in [Threads -> Clients \cup {NoClient}]
  /\ backlog \in Seq(Clients) /\ Len(backlog) <= MaxBacklog

(* The queue holds at most one client more than twice the workers: the       *)
(* flow control of the acceptor ("some accept-flow control to avoid flooding *)
(* the worker pool", httpfront.h), with the wait's timeout and the workers'  *)
(* pops coming in any order.                                                 *)
QueueBounded == Len(clients) <= 2 * Cardinality(Workers) + 1

(* While some worker sleeps, there is an awake worker for every queued       *)
(* client, or the acceptor is about to wake one: clients never wait beside   *)
(* a sleeping worker, although a woken worker may find that another was      *)
(* faster and although the acceptor sleeps on the same condition.            *)
WorkersAwakeForQueue ==
  alive /\ waiting \cap Workers # {} =>
    Len(clients) <= Cardinality({w \in Workers : Awake(w)})
                      + (IF pc[Acceptor] = "notify" THEN 1 ELSE 0)

(* A connection is in one place: in the acceptor's hands, queued, or with    *)
(* one worker.                                                               *)
ServedOnce ==
  LET Places == {<<"thread", t>> : t \in {u \in Threads : client[u] = Probe}}
                  \cup {<<"queue", i>> : i \in {j \in DOMAIN clients : clients[j] = Probe}}
                  \cup {<<"backlog", i>> : i \in {j \in DOMAIN backlog : backlog[j] = Probe}}
  IN  Cardinality(Places) <= 1

Queued(c) == \E i \in DOMAIN clients : clients[i] = c

(* A queued client is taken by a worker, unless the front is stopped, however *)
(* many others keep coming.                                                   *)
QueuedIsTaken ==
  Queued(Probe) ~> (~alive \/ \E w \in Workers : client[w] = Probe)

(* The front is a job: told to stop, it ends, all its threads gone, whichever *)
(* of them slept or had a client at the time; and it never ends unless told.  *)
AllExited == \A t \in Threads : pc[t] = "exited"
Job == INSTANCE Job WITH told <- ~alive, ended <- AllExited
StopsLikeAJob == Job!JobSpec

(* The queue between acceptor and workers is bounded, and no client waits in *)
(* it beside a worker that sleeps on the condition both sides share.         *)
QueueSafe == TypeOK /\ QueueBounded /\ WorkersAwakeForQueue
=============================================================================
