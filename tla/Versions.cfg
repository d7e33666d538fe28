SPECIFICATION Spec
CONSTANTS
  w1 = w1
  w2 = w2
  w3 = w3
  w4 = w4
  w5 = w5
  Writers <- FiveWriters
  VersionRetries = 3
SYMMETRY WriterSymmetry
CHECK_DEADLOCK FALSE
INVARIANTS
  TypeOK
  VersionsAreDense
  ConflictNeedsRivals
PROPERTIES
  CommitsNewest
