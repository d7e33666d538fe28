SPECIFICATION FairSpec
CONSTANTS
  r1 = r1
  r2 = r2
  s1 = s1
  s2 = s2
  Tasks <- OneOfEach
  TailorTasks <- OneTailor
  Slots <- TwoSlots
  MaxAttempts = 2
  MaxStalls = 1
  FaultModels <- Recoverable
  NoTask = NoTask
  NoSlot = NoSlot
CHECK_DEADLOCK FALSE
PROPERTIES
  AcceptedSettles
