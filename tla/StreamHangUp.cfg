SPECIFICATION Spec
CONSTANTS
  c1 = c1
  Clients <- OneTab
  MaxAttempts = 2
  MaxPolls = 3
  FaultModels <- TabsLeave
CHECK_DEADLOCK FALSE
INVARIANTS
  ReleasedOnHangUp
