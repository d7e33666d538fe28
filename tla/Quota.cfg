SPECIFICATION Spec
CONSTANTS
  c1 = c1
  c2 = c2
  c3 = c3
  c4 = c4
  r1 = r1
  r2 = r2
  r3 = r3
  Calls <- FourCalls
  Refunds <- ThreeRefunds
  Cap = 2
  LastDay = 1
SYMMETRY QuotaSymmetry
CHECK_DEADLOCK FALSE
INVARIANTS
  TypeOK
  CountIsExact
  CapHolds
  RejectedOnlyOverCap
  KeysExpire
