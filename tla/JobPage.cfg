SPECIFICATION Spec
CONSTANTS
  saved = saved
  applied = applied
  screen = screen
  c1 = c1
  c2 = c2
  c3 = c3
  e1 = e1
  e2 = e2
  e3 = e3
  b1 = b1
  b2 = b2
  t1 = t1
  Stages <- SomeStages
  Changes <- SomeChanges
  Edits <- SomeEdits
  Briefs <- SomeBriefs
  Tailors <- OneTailor
  MaxAttempts = 2
  MaxDeliveries = 2
  Occasions <- SomeOccasions
  None = None
SYMMETRY Alike
CHECK_DEADLOCK FALSE
INVARIANTS
  TypeOK
  HistoryTellsStage
  SavedIsShown
  TypingIsKept
  NoSocketAfterLeaving
PROPERTIES
  OldTextOnlyFromStray
