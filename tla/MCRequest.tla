------------------------------ MODULE MCRequest ------------------------------
(***************************************************************************)
(* Instance of HttpExchange: requests of each method and with each flaw,   *)
(* read with a buffer shorter than the marker between header and body.     *)
(***************************************************************************)
EXTENDS HttpExchange

\* A good request without a body.
Plain == [text |-> <<"x">>, line |-> TRUE, headers |-> TRUE, version |-> "HTTP/1.1",
          host |-> TRUE, method |-> "GET", length |-> NoLength, body |-> <<>>]

Post(b, n) == [Plain EXCEPT !.method = "POST", !.length = n, !.body = b]

MCRequests ==
  { Plain,
    [Plain EXCEPT !.text = <<"x", CR, LF, "x">>, !.method = "HEAD"],
    [Plain EXCEPT !.method = "PUT"],
    [Plain EXCEPT !.line = FALSE],
    [Plain EXCEPT !.headers = FALSE],
    [Plain EXCEPT !.host = FALSE],
    [Plain EXCEPT !.host = FALSE, !.version = "HTTP/1.0"],
    [Plain EXCEPT !.length = BadLength],
    [Plain EXCEPT !.body = <<"x">>],
    Post(<<>>, 0),
    Post(<<"x", "=">>, 2),
    Post(<<"=", "&">>, 2),
    Post(<<"=", "x", "&">>, 2),
    Post(<<"=", "x", "x">>, 2),
    Post(<<"=", CR, LF, CR, LF>>, 5),
    Post(<<"x", "=", "x", "=", "x", "=">>, 6) }
=============================================================================
