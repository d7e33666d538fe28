SPECIFICATION FairSpec
CONSTANTS
  c1 = c1
  Clients <- OneTab
  MaxAttempts = 2
  MaxPolls = 3
  FaultModels <- AllFaults
CHECK_DEADLOCK FALSE
INVARIANTS
  TypeOK
  OutcomeIsRecorded
PROPERTIES
  EndIsLearned
  FollowingEnds
  SubscriptionsEnd
