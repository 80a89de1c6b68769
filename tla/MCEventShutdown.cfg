SPECIFICATION Spec
CONSTANTS
  t1 = t1
  t2 = t2
  Consumer <- TwoConsumers
  LogLength <- OneEach
  MaxCrashes = 0
PROPERTIES
  SignalStopsTheServer
CHECK_DEADLOCK FALSE
