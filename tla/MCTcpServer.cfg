SPECIFICATION Spec
CONSTANTS
  k1 = k1
  k2 = k2
  k3 = k3
  Client <- ThreeClients
  MAX_THREADS = 2
  CountRange = 5
  FirstCounts <- Garbage
INVARIANTS
  CountIsSessions
  SessionsBounded
PROPERTIES
  ServedToTheEnd
CHECK_DEADLOCK FALSE
