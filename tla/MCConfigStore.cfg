SPECIFICATION Spec
CONSTANTS
  h1 = h1  h2 = h2  a = a  b = b  bad = bad  torn = torn  free = free
  Handlers <- MCHandlers
  Content <- MCContent
  Torn = torn
  Valid <- MCValidTorn
  MuxPanics <- MCNone
  AdminOn <- MCAdminOnA
  Metrics <- MCMetrics
  Trim <- MCTrim
  Free = free
SYMMETRY Symmetry
INVARIANTS IInv NothingLost AgreeWhenQuiet LoadsItsOwn
PROPERTIES SavesAreAtomic RefusedSaveChangesNothing
