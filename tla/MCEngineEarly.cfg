SPECIFICATION Spec
CONSTANTS
  w1 = w1
  w2 = w2
  qf = qf
  NJobs = 3
  Callers <- MCCallers
  QuitFronts <- MCQuitFronts
  JobOf <- MCJobOf
  Main = Main
  NoThread = NoThread
  SpuriousWakeups = FALSE
INVARIANTS
  EngineDiesFirst
CHECK_DEADLOCK FALSE
