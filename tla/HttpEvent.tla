------------------------------ MODULE HttpEvent ------------------------------
(***************************************************************************)
(* The reply half of http_event (core/httpevent.cpp) and send_to_engine    *)
(* (core/httpfront.cpp): what a handler may do with its event, in any      *)
(* order, and what the client then receives.  Text is abstracted to its    *)
(* length; times are numbers, 0 being the null timestamp.  Cookies and the *)
(* content type only add lines to the header and are left out.             *)
(***************************************************************************)
EXTENDS Integers, SequencesExt

CONSTANTS Dates,        \* the dates in an if-(un)modified-since header
          FileSizes,    \* lengths of files, in blocks of send_file's buffer
          Speeds,       \* throttles of send_file, 0 for none
          InitialSizes, \* values pm_content_size may have before it is set
          ErrorPage,    \* length of the text of create_error_page
          MaxCalls      \* bound on the calls a handler makes

ASSUME ReplyAssumption ==
  /\ Dates \subseteq Nat \ {0} /\ FileSizes \subseteq Nat /\ Speeds \subseteq Nat
  /\ InitialSizes \subseteq Int /\ ErrorPage \in Nat \ {0} /\ MaxCalls \in Nat

VARIABLES
  evt,      \* the fields of the event, see EventType
  out,      \* what has been written to pm_raw_buffer
  received, \* how much of it is body (history)
  calls,    \* the calls the handler has made, by kind
  file,     \* blocks of the file that send_file has yet to read
  gone,     \* the client has left: writes fail
  epc       \* "waiting" for the request, "handling" it, in send_file's loop ("file"),
            \* "failed" if the request was no good and has no handler, "done"

eventVars == <<evt, out, received, calls, file, gone, epc>>

\* No date: the header is absent.
NoDate == 0
NoSize == 0

EventType == [get : BOOLEAN,            \* pm_method = "GET"
              since : Dates \cup {NoDate}, unless : Dates \cup {NoDate},
              status : Nat,             \* pm_status
              redirect : BOOLEAN,       \* pm_redirect_url is set
              modified : Nat,           \* pm_modified_time
              size : Int,               \* pm_content_size
              buffer : Nat,             \* length of pm_buffer
              sent : BOOLEAN]           \* pm_sent_headers

\* The constructor.  It sets no content size.
Fresh == [get : BOOLEAN, since : Dates \cup {NoDate}, unless : Dates \cup {NoDate},
          status : {0}, redirect : {FALSE}, modified : {0}, size : InitialSizes,
          buffer : {0}, sent : {FALSE}]

EventInit ==
  /\ evt \in Fresh
  /\ out = <<>> /\ received = 0 /\ calls = <<>> /\ file = 0 /\ gone = FALSE
  /\ epc = "waiting"

-----------------------------------------------------------------------------
\* check_headers: the code under which the body is held back, 0 if it is not.
Refusal(e) ==
  IF e.status # 0 THEN 0
  ELSE IF e.redirect THEN 302
  ELSE IF e.get /\ e.since # NoDate /\ e.modified < e.since THEN 304
  ELSE IF e.unless # NoDate /\ e.modified > e.unless THEN 412
  ELSE 0

(* Mutant: the page is not made. *)
CheckedNoPage(e) == [e EXCEPT !.status = IF @ = 0 THEN 200 ELSE @]

\* check_headers and check_status: no code becomes 200, an error gets a page.
Checked(e) ==
  LET refused == Refusal(e)
      code    == IF e.status # 0 THEN e.status
                 ELSE IF refused # 0 THEN refused ELSE 200 IN
  [e EXCEPT !.status = code, !.buffer = IF code >= 400 THEN @ + ErrorPage ELSE @]

(* Mutant: what was set is forgotten. *)
LengthSentBuffer(e) == IF e.status # 304 THEN e.buffer ELSE NoSize

\* The Content-Length in the header of an event that has been checked, or NoSize.
LengthSent(e) ==
  LET size == IF e.size = 0 THEN e.buffer ELSE e.size IN
  IF e.status # 304 /\ size > 0 THEN size ELSE NoSize

Header(e) == [what |-> "header", status |-> e.status, size |-> LengthSent(e),
              redirect |-> e.redirect]
Data(n) == [what |-> "data", size |-> n]

(* Mutant: get_raw_output sends them at each call. *)
HeadersAlways(e) == <<Header(Checked(e))>>

\* send_headers: the event afterwards, and what goes to the client.
WithHeaders(e) == IF e.sent THEN e ELSE [Checked(e) EXCEPT !.sent = TRUE]
HeadersOf(e) == IF e.sent THEN <<>> ELSE <<Header(Checked(e))>>

\* Writing a header, if there is one to write, and n of the body to the connection of a
\* client that may have left.
Write(headers, n) ==
  /\ out' = IF gone THEN out
            ELSE out \o headers \o (IF n > 0 THEN <<Data(n)>> ELSE <<>>)
  /\ received' = IF gone THEN received ELSE received + n

-----------------------------------------------------------------------------
\* The handler, a call at a time.  What it may do is the interface front_event_i.
Call(kind) ==
  /\ epc = "handling" /\ Len(calls) < MaxCalls
  /\ calls' = Append(calls, kind)
  /\ UNCHANGED gone

\* get_output() << text.
GetOutput ==
  /\ Call("output")
  /\ evt' = [evt EXCEPT !.buffer = @ + 1]
  /\ UNCHANGED <<out, received, file, epc>>

\* get_raw_output() << text.
GetRawOutput ==
  /\ Call("raw")
  /\ evt' = WithHeaders(evt)
  /\ Write(HeadersOf(evt), 1)
  /\ UNCHANGED <<file, epc>>

SetRedirectUrl ==
  /\ Call("redirect")
  /\ evt' = [evt EXCEPT !.redirect = TRUE]
  /\ UNCHANGED <<out, received, file, epc>>

SetModifiedTime ==
  /\ Call("modified")
  /\ \E t \in Dates : evt' = [evt EXCEPT !.modified = t]
  /\ UNCHANGED <<out, received, file, epc>>

SetContentSize ==
  /\ Call("size")
  /\ \E n \in FileSizes : evt' = [evt EXCEPT !.size = n]
  /\ UNCHANGED <<out, received, file, epc>>

\* send_file as far as its loops.  The result of send_headers is not used.
\* The "else" of the throttled loop belongs to the last "if" of the other loop, so that a
\* file with a throttle has no loop at all.
SendFile ==
  \E n \in FileSizes, speed \in Speeds :
    /\ Call(IF speed = 0 THEN "file" ELSE "throttled")
    /\ LET sized == [evt EXCEPT !.size = n] IN
       evt' = WithHeaders(sized) /\ Write(HeadersOf(sized), 0)
    /\ file' = IF speed = 0 THEN n ELSE 0
    /\ epc' = IF speed = 0 THEN "file" ELSE "handling"

\* One block of the loop that reads the file, until its end or until a write fails.  A
\* block written with success continues in the loop that was meant for the throttle,
\* which does the same and sleeps for some time.
SendBlock ==
  /\ epc = "file"
  /\ IF file > 0 /\ ~gone
     THEN Write(<<>>, 1) /\ file' = file - 1 /\ UNCHANGED epc
     ELSE file' = 0 /\ epc' = "handling" /\ UNCHANGED <<out, received>>
  /\ UNCHANGED <<evt, calls, gone>>

\* The handler has returned, or there is none: the end of send_to_engine.
Reply ==
  /\ epc \in {"handling", "failed"}
  /\ evt' = WithHeaders(evt)
  /\ LET send == ~evt.sent /\ Refusal(evt) = 0 /\ evt'.buffer > 0 IN
     Write(HeadersOf(evt), IF send THEN evt'.buffer ELSE 0)
  /\ epc' = "done"
  /\ UNCHANGED <<calls, file, gone>>

ClientLeaves ==
  /\ ~gone /\ epc \in {"handling", "file", "failed"}
  /\ gone' = TRUE
  /\ UNCHANGED <<evt, out, received, calls, file, epc>>

HandlerCall == \/ GetOutput \/ GetRawOutput \/ SetRedirectUrl \/ SetModifiedTime
               \/ SetContentSize \/ SendFile

EventNext == HandlerCall \/ SendBlock \/ Reply \/ ClientLeaves

-----------------------------------------------------------------------------
HeaderType == [what : {"header"}, status : Nat, size : Int, redirect : BOOLEAN]
DataType == [what : {"data"}, size : Nat]
CallKinds == {"output", "raw", "redirect", "modified", "size", "file", "throttled"}

EventTypeOK ==
  /\ evt \in EventType
  /\ out \in Seq(HeaderType \cup DataType) /\ calls \in Seq(CallKinds)
  /\ received \in Nat /\ file \in Nat /\ gone \in BOOLEAN
  /\ epc \in {"waiting", "handling", "file", "failed", "done"}

\* The kinds of call the handler has made.
Used == ToSet(calls)

\* A reply has one header and it comes first, however get_raw_output, send_file and the
\* end of the request meet (pm_sent_headers).  A complete reply has one.
OneHeaderFirst ==
  /\ \A i \in DOMAIN out : (out[i].what = "header") = (i = 1)
  /\ epc = "done" /\ ~gone => out # <<>>

\* The length announced is the length sent: for handlers that leave the body to
\* get_output or to one send_file without a throttle, not to both, that do not set a size
\* of their own, and whose event was not constructed with a size by accident.  A reply that is
\* held back is excepted: its header has the length of what is held back.
LengthIsSent ==
  /\ epc = "done" /\ ~gone
  /\ Used \cap {"raw", "throttled", "size"} = {}
  /\ ~({"output", "file"} \subseteq Used)
  /\ \A i, j \in DOMAIN calls : calls[i] = "file" /\ calls[j] = "file" => i = j
  /\ evt.status \notin {302, 304, 412}
  /\ "file" \in Used \/ evt.size = 0
  => out[1].size = received

\* A reply with no business to have a body has none, and one that redirects says so: the
\* redirection of a handler wins over the dates in the client's header.  Handlers that
\* send the header themselves are excepted.
RefusalIsEmpty ==
  /\ epc = "done" /\ ~gone
  /\ Used \cap {"raw", "file", "throttled"} = {}
  => /\ evt.status \in {302, 304, 412} => received = 0
     /\ evt.redirect => evt.status = 302

\* send_file sends a file under a throttle, too: "the speed to throttle the upload at"
\* (core/front.h:80).
FileIsSent ==
  epc = "done" /\ ~gone /\ evt.status = 200 /\ calls = <<"throttled">> =>
    received = out[1].size
=============================================================================
