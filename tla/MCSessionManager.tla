-------------------------- MODULE MCSessionManager --------------------------
(***************************************************************************)
(* Two events: two requests of one client, or of two.  Two sessions, so    *)
(* that clearing one can be seen to spare the other.  Four objects: a      *)
(* loaded one for each event while the map still holds two others.         *)
(***************************************************************************)
EXTENDS SessionManager, TLC

CONSTANTS w1, w2, o1, o2, o3, o4

MCWorkers == {w1, w2}
MCObjs == {o1, o2, o3, o4}
Symmetry == Permutations(MCWorkers) \cup Permutations(MCObjs)
=============================================================================
