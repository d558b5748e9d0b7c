--------------------------------- MODULE Job ---------------------------------
(***************************************************************************)
(* What the engine expects of a front or an application (front_i, job_i):  *)
(* it runs until it is told to stop, may be told more than once, and once  *)
(* told it ends.  Everything else it does is invisible here.               *)
(***************************************************************************)
VARIABLES
  told,   \* notify_stop has been called
  ended   \* wait_stop would return

jobvars == <<told, ended>>

JobInit == told = FALSE /\ ended = FALSE

NotifyStop == told' = TRUE /\ UNCHANGED ended

End == told /\ ended' = TRUE /\ UNCHANGED told

JobNext == NotifyStop \/ End

JobSpec == JobInit /\ [][JobNext]_jobvars /\ WF_jobvars(End)
=============================================================================
