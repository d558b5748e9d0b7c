---------------------------- MODULE RequestReader ----------------------------
(***************************************************************************)
(* http_worker::process_event and parse_request (core/httpfront.cpp): one  *)
(* worker reads one request from one client.  The client writes the        *)
(* symbols of its request to the connection, may stop anywhere and may     *)
(* close; read_short returns between one symbol and a buffer's worth of    *)
(* what has arrived, so the end of the header section and the body are     *)
(* met in every possible segmentation.                                     *)
(*                                                                         *)
(* A request is a record.  Its text (request line and header lines) is a   *)
(* sequence of symbols, and what the line and header parsers make of that  *)
(* text are its other fields.  Bodies are url encoded forms; those with a  *)
(* multipart boundary are left out here.                                   *)
(***************************************************************************)
EXTENDS Integers, SequencesExt

CONSTANTS Requests,    \* the requests clients send, see RequestType
          BufSize,     \* max_buf_size
          MaxPost      \* m_master->m_maxpost, 0 for no limit

\* The symbols that matter: the line end, the separators of a form, any other.
CR == "cr"
LF == "lf"
Symbols == {CR, LF, "=", "&", "x"}
DblCrlf == <<CR, LF, CR, LF>>

\* content-length: absent, not a number, or the number.
NoLength == -1
BadLength == -2

RequestType == [text : Seq(Symbols), line : BOOLEAN, headers : BOOLEAN,
                version : {"HTTP/1.0", "HTTP/1.1"}, host : BOOLEAN,
                method : {"GET", "POST", "HEAD", "PUT"},
                length : Nat \cup {NoLength, BadLength}, body : Seq(Symbols)]

\* The header text holds no empty line, and does not end in half of one.
ASSUME RequestsAssumption ==
  \A r \in Requests :
    /\ r \in RequestType
    /\ r.text # <<>> /\ Last(r.text) \notin {CR, LF}
    /\ \A i \in 1..Len(r.text) - 3 : SubSeq(r.text, i, i + 3) # DblCrlf

ASSUME BoundsAssumption == BufSize \in Nat \ {0} /\ MaxPost \in Nat

VARIABLES
  req,         \* the request under way
  sent,        \* how many of its symbols the client has written
  closed,      \* the client writes no more
  taken,       \* how many symbols have been read
  message,     \* what was read before the end of the header section was found
  readHeaders, \* read_headers
  readBody,    \* read_body
  length,      \* content_length
  body,        \* pm_body
  status,      \* pm_status: 0 while no code is set
  decoded,     \* the request line and headers have been put into the event
  rpc          \* "reading", then "read" once the loop is left and the result parsed

readerVars == <<req, sent, closed, taken, message, readHeaders, readBody, length,
                body, status, decoded, rpc>>

Wire(r) == r.text \o DblCrlf \o r.body

ReaderInit ==
  /\ req \in Requests
  /\ sent = 0 /\ closed = FALSE /\ taken = 0
  /\ message = <<>> /\ readHeaders = FALSE /\ readBody = FALSE
  /\ length = 0 /\ body = <<>> /\ status = 0 /\ decoded = FALSE
  /\ rpc = "reading"

-----------------------------------------------------------------------------
\* The client, as far as the worker looks at it.

ClientSends ==
  /\ ~closed /\ rpc = "reading"
  /\ \E n \in sent + 1 .. Len(Wire(req)) : sent' = n
  /\ UNCHANGED <<req, closed, taken, message, readHeaders, readBody, length, body,
                 status, decoded, rpc>>

ClientCloses ==
  /\ ~closed /\ rpc = "reading"
  /\ closed' = TRUE
  /\ UNCHANGED <<req, sent, taken, message, readHeaders, readBody, length, body,
                 status, decoded, rpc>>

-----------------------------------------------------------------------------
(* Mutant: the search goes on where it ended. *)
SearchPosNoOverlap(old) == old + 1

\* Where in msg to look for the marker when old symbols of it were searched before,
\* counting from 1.
SearchPos(old) == IF old <= Len(DblCrlf) - 1 THEN 1 ELSE old - (Len(DblCrlf) - 1) + 1

Markers(msg, from) ==
  {i \in from .. Len(msg) - 3 : SubSeq(msg, i, i + 3) = DblCrlf}

(* Mutant: the host is not asked for. *)
HeaderStatusNoHost(r, text) ==
  IF r.line /\ r.headers /\ text = r.text THEN 0 ELSE 400

\* The verdict on the header section r.text, 0 if it is good.
HeaderStatus(r, text) ==
  IF /\ r.line /\ r.headers /\ text = r.text
     /\ r.host \/ r.version # "HTTP/1.1"
  THEN 0 ELSE 400

\* content_length as the header gives it; it stays 0 if the text is not a number.
LengthOf(r) == IF r.length > 0 THEN r.length ELSE 0

\* There is no body to read.
NoBodyToRead(r) == r.length \in {NoLength, 0}

\* decode_and_parse: the text must end in a value, that is in a piece with a '='.
IsForm(b) == \E i \in 1..Len(b) : b[i] = "=" /\ \A j \in i..Len(b) : b[j] # "&"

\* parse_request, for an event whose fields are those of r if its header was
\* decoded and empty otherwise.
ParseStatus(r, known, b) ==
  IF ~known \/ r.method = "PUT" THEN 501
  ELSE IF r.method = "POST" /\ b # <<>> /\ ~IsForm(b) THEN 400
  ELSE 0

\* The end of the loop with code st and body b: parse_request if no code is set.
LeaveLoop(st, known, b) ==
  /\ rpc' = "read"
  /\ status' = IF st = 0 THEN ParseStatus(req, known, b) ELSE st

\* The body has as many symbols as were announced.
AllThere(b, len) == Len(b) = len

\* The last two blocks of the loop: data is what this block has for the body.
\* len and done are content_length and read_body as they are by now.
TakeBody(data, len, done, known) ==
  LET more == IF done THEN body ELSE body \o data
      full == done \/ AllThere(more, len) IN
  /\ length' = len
  /\ CASE ~done /\ len = 0 ->
            body' = body /\ readBody' = FALSE /\ LeaveLoop(411, known, body)
       [] ~done /\ len > 0 /\ MaxPost > 0 /\ Len(more) > MaxPost ->
            body' = more /\ readBody' = FALSE /\ LeaveLoop(500, known, more)
       [] OTHER ->
            /\ body' = more /\ readBody' = full
            /\ IF full /\ AllThere(more, len) THEN LeaveLoop(0, known, more)
               ELSE UNCHANGED <<rpc, status>>

(* Mutant: what follows the body is taken for it. *)
ForBodyAll(s, len, have) == s

\* The symbols of s that still belong to a body of len symbols of which have are there.
ForBody(s, len, have) == SubSeq(s, 1, IF len - have < Len(s) THEN len - have ELSE Len(s))

\* A block while the end of the header section has not been seen.
TakeHead(block) ==
  LET msg   == message \o block
      found == Markers(msg, SearchPos(Len(message)))
      at    == CHOOSE i \in found : \A j \in found : i <= j
      text  == SubSeq(msg, 1, at - 1)
      rest  == SubSeq(msg, at + 4, Len(msg)) IN
  /\ message' = msg
  /\ IF found = {}
     THEN UNCHANGED <<readHeaders, readBody, length, body, status, decoded, rpc>>
     ELSE /\ decoded' = req.line
          /\ IF HeaderStatus(req, text) # 0
             THEN /\ LeaveLoop(HeaderStatus(req, text), req.line, body)
                  /\ UNCHANGED <<readHeaders, readBody, length, body>>
             ELSE /\ readHeaders' = TRUE
                  /\ TakeBody(ForBody(rest, LengthOf(req), 0), LengthOf(req),
                              NoBodyToRead(req), TRUE)

\* read_short returns n symbols.
Read(n) ==
  LET block == SubSeq(Wire(req), taken + 1, taken + n) IN
  /\ rpc = "reading"
  /\ n <= BufSize /\ taken + n <= sent
  /\ taken' = taken + n
  /\ IF readHeaders
     THEN /\ TakeBody(ForBody(block, length, Len(body)), length, readBody, decoded)
          /\ UNCHANGED <<message, readHeaders, decoded>>
     ELSE TakeHead(block)
  /\ UNCHANGED <<req, sent, closed>>

\* read_short returns 0: the client has closed and all has been read.
ReadEnd ==
  /\ rpc = "reading"
  /\ closed /\ taken = sent
  /\ LeaveLoop(0, decoded, body)
  /\ UNCHANGED <<req, sent, closed, taken, message, readHeaders, readBody, length,
                 body, decoded>>

ReaderNext == ClientSends \/ ClientCloses \/ (\E n \in 1..BufSize : Read(n)) \/ ReadEnd

-----------------------------------------------------------------------------
ReaderTypeOK ==
  /\ req \in Requests
  /\ sent \in 0..Len(Wire(req)) /\ taken \in 0..sent
  /\ closed \in BOOLEAN /\ readHeaders \in BOOLEAN /\ readBody \in BOOLEAN
  /\ decoded \in BOOLEAN
  /\ message \in Seq(Symbols) /\ body \in Seq(Symbols)
  /\ length \in Nat /\ status \in {0, 400, 411, 500, 501}
  /\ rpc \in {"reading", "read"}

\* What the whole of r deserves, whatever the segments in which it arrives: the first
\* objection of header, length, limit, form and method.
Verdict(r) ==
  LET len == LengthOf(r)
      b   == IF len = 0 THEN <<>> ELSE SubSeq(r.body, 1, len) IN
  CASE ~r.line \/ ~r.headers -> 400
    [] r.line /\ r.headers /\ r.version = "HTTP/1.1" /\ ~r.host -> 400
    [] OTHER -> IF r.length = BadLength THEN 411
                ELSE IF MaxPost > 0 /\ len > MaxPost THEN 500
                ELSE IF r.method = "PUT" THEN 501
                ELSE IF r.method = "POST" /\ b # <<>> /\ ~IsForm(b) THEN 400 ELSE 0

\* The client has written a whole request: the header section and, if a length is
\* announced, that much of a body.
WholeRequest == sent >= Len(req.text) + 4 + LengthOf(req)

\* A request that has been written whole is judged by its content and not by the way the
\* network cut it: the search for the end of the header over block boundaries, what of
\* a block belongs to the body, and each early exit of the loop (process_event).
VerdictOfTheWhole == rpc = "read" /\ WholeRequest => status = Verdict(req)

\* The body given to the engine is what the client announced, no symbol lost at a block
\* boundary and none of what follows it taken for it (body_buf_pos, body_write_size).
BodyIntact ==
  rpc = "read" /\ status = 0 /\ WholeRequest =>
    body = SubSeq(req.body, 1, LengthOf(req))
=============================================================================
