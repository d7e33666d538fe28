SPECIFICATION FairSpec
CONSTANTS
  r1 = r1
  r2 = r2
  s1 = s1
  s2 = s2
  Tasks <- OneTailor
  TailorTasks <- OneTailor
  Slots <- TwoSlots
  MaxAttempts = 2
  MaxStalls = 1
  FaultModels <- ShutDown
  NoTask = NoTask
  NoSlot = NoSlot
CHECK_DEADLOCK FALSE
INVARIANTS
  RecordedFailureIsFinal
