SPECIFICATION Spec
CONSTANTS
  r1 = r1
  r2 = r2
  s1 = s1
  s2 = s2
  Tasks <- OneTailor
  TailorTasks <- OneTailor
  Slots <- TwoSlots
  MaxAttempts = 2
  MaxStalls = 1
  FaultModels <- AllFaults
  NoTask = NoTask
  NoSlot = NoSlot
SYMMETRY SlotSymmetry
CHECK_DEADLOCK FALSE
INVARIANTS
  TypeOK
  SucceededIsDelivered
  DeliveredIsStored
  BillIsBounded
  NoTaskIsStranded
  ChargeMatchesOutcome
PROPERTIES
  StoredIsReused
  ImplementsReplay
