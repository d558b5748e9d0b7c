----------------------------- MODULE MCHttpFront -----------------------------
(***************************************************************************)
(* Two workers: a queue of up to five clients, an idle worker beside a busy *)
(* one, and a notification that can go to the acceptor, to a sleeping      *)
(* worker or to nobody.  One connection waits for accept at a time.        *)
(***************************************************************************)
EXTENDS HttpFront

CONSTANTS w1, w2

MCWorkers == {w1, w2}
=============================================================================
