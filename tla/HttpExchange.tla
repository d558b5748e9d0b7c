---------------------------- MODULE HttpExchange ----------------------------
(***************************************************************************)
(* One connection of an http_worker from its first symbol to the end of    *)
(* the reply: process_event reads (RequestReader), send_to_engine calls    *)
(* the engine if the request is good and sends what is left to be sent     *)
(* (HttpEvent).  Both halves share the status and the header of the event. *)
(***************************************************************************)
EXTENDS RequestReader, HttpEvent

vars == <<readerVars, eventVars>>

Init ==
  /\ ReaderInit
  /\ EventInit
  /\ ~evt.get /\ evt.since = NoDate /\ evt.unless = NoDate

\* send_to_engine as far as handle_front_event.  The dates are those of the request's
\* headers, the locals of process_event are not used again.
SendToEngine ==
  /\ rpc = "read" /\ epc = "waiting"
  /\ \E e \in Fresh :
       /\ e.size = evt.size
       /\ e.get = (decoded /\ req.method = "GET")
       /\ ~decoded => e.since = NoDate /\ e.unless = NoDate
       /\ evt' = [e EXCEPT !.status = status]
  /\ epc' = IF status = 0 THEN "handling" ELSE "failed"
  /\ taken' = 0 /\ message' = <<>> /\ length' = 0
  /\ UNCHANGED <<req, sent, closed, readHeaders, readBody, body, status, decoded, rpc,
                 out, received, calls, file, gone>>

Next ==
  \/ ReaderNext /\ UNCHANGED eventVars
  \/ SendToEngine
  \/ EventNext /\ UNCHANGED readerVars

\* The worker runs on while there is something to read, and the handler returns: its
\* calls are bounded.  The client need neither send nor close.
Worker == \/ ((\E n \in 1..BufSize : Read(n)) \/ ReadEnd) /\ UNCHANGED eventVars
          \/ SendToEngine
          \/ (SendBlock \/ Reply) /\ UNCHANGED readerVars

Spec == Init /\ [][Next]_vars /\ WF_vars(Worker)

-----------------------------------------------------------------------------
TypeOK == ReaderTypeOK /\ EventTypeOK

\* A client that has written its request to the end is answered, without having to close
\* the connection first: process_event stops reading by itself, whatever the segments.
Answered == [](rpc = "reading" /\ WholeRequest => <>(epc = "done"))

\* What the reader objects to reaches the client as such, with a page that says so, and
\* no handler has seen it (send_to_engine, check_status).
ObjectionIsReplied ==
  epc = "done" /\ status # 0 =>
    /\ calls = <<>>
    /\ ~gone => out[1].status = status /\ received > 0

\* A reply has one header, before everything else, and no body where it refuses or
\* redirects, whichever calls the handler made and whatever the reader found.
ReplyWellFormed == TypeOK /\ OneHeaderFirst /\ RefusalIsEmpty
=============================================================================
