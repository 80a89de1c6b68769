SPECIFICATION Spec
CONSTANTS
  t1 = t1
  t2 = t2
  Consumer <- TwoConsumers
  LogLength <- TwoAndOne
  MaxCrashes = 1
INVARIANTS
  EventIsSomewhere
  HandledInOrder
  CommittedIsHandled
  OncePerProcess
  NoSleepOverWork
PROPERTIES
  EveryRequestAnswered
CHECK_DEADLOCK FALSE
