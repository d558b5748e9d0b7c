--------------------------- MODULE MCCachedEvents ---------------------------
(***************************************************************************)
(* Two events, one cache and a single connection: every conflict between   *)
(* the cache's lock and the pool takes two events.  Three database         *)
(* versions let one change be announced and a second one be under way.     *)
(***************************************************************************)
EXTENDS CachedEvents

CONSTANTS t1, t2

MCThreads == {t1, t2}
=============================================================================
