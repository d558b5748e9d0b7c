------------------------------ MODULE MCEngine ------------------------------
(***************************************************************************)
(* An http_front with two workers that may serve /quit/, a file_quitfront  *)
(* and an application: two requests of one job, and of two jobs, and a job *)
(* that has no thread of its own to ask.                                   *)
(***************************************************************************)
EXTENDS Engine

CONSTANTS w1, w2, qf

MCCallers == {w1, w2, qf}
MCJobOf == [c \in MCCallers |-> IF c = qf THEN 2 ELSE 1]
MCQuitFronts == {qf}
=============================================================================
