SPECIFICATION Spec
CONSTANTS
  w1 = w1
  w2 = w2
  qf = qf
  NJobs = 3
  Callers <- MCCallers
  QuitFronts <- MCQuitFronts
  JobOf <- MCJobOf
  Main = Main
  NoThread = NoThread
  SpuriousWakeups = TRUE
INVARIANTS
  ShutdownOrder
PROPERTIES
  WaitedForAll
  LoneShutdownReturns
\* After main has returned and the jobs have ended the program is over.
CHECK_DEADLOCK FALSE
