SPECIFICATION Spec
CONSTANTS
  w1 = w1
  w2 = w2
  o1 = o1
  o2 = o2
  o3 = o3
  o4 = o4
  Workers <- MCWorkers
  Objs <- MCObjs
  Ids = {1, 2}
  NoSession = NoSession
  Housekeeping = FALSE
SYMMETRY Symmetry
INVARIANTS
  SessionOutlivesEvent
