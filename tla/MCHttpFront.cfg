SPECIFICATION Spec
CONSTANTS
  w1 = w1
  w2 = w2
  Workers <- MCWorkers
  Acceptor = Acceptor
  Probe = Probe
  Other = Other
  NoClient = NoClient
  MaxBacklog = 1
INVARIANTS
  QueueSafe
  ServedOnce
PROPERTIES
  QueuedIsTaken
  StopsLikeAJob
