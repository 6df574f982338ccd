SPECIFICATION Spec
CONSTANTS
  t1 = t1
  t2 = t2
  Turns = {t1, t2}
  Mode <- MCMode
  Callbacks <- MCCallbacks
  MaxInFlight = 1
  FailureBudget = 2
  MaxSessions = 2
CHECK_DEADLOCK FALSE
INVARIANTS TypeOK WaiterIsReachable LocalRunsAlone AnsweredIsComplete GivenUpIsTold
PROPERTIES DroppedStaysDropped
