SPECIFICATION Spec
CONSTANTS
  h1 = h1  h2 = h2  a = a  b = b  bad = bad  torn = torn  free = free
  Handlers <- MCHandlers
  Content <- MCContent
  Torn = torn
  Valid <- MCValid
  MuxPanics <- MCNone
  AdminOn <- MCAdminOn
  Metrics <- MCMetricsMoved
  Trim <- MCTrim
  Free = free
INVARIANTS MetricsFollowConfig
