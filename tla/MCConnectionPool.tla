-------------------------- MODULE MCConnectionPool --------------------------
(***************************************************************************)
(* Three worker threads over two connections: enough for a full pool, for  *)
(* two sleepers on one connection, for connections returned out of order   *)
(* and for a woken thread overtaken by a newcomer.                         *)
(***************************************************************************)
EXTENDS ConnectionPool

CONSTANTS t1, t2, t3

MCThreads == {t1, t2, t3}
=============================================================================
