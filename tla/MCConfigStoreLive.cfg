SPECIFICATION Spec
CONSTANTS
  h1 = h1  h2 = h2  a = a  b = b  bad = bad  torn = torn  free = free
  Handlers <- MCHandlers
  Content <- MCContentAB
  Torn = torn
  Valid <- MCValid
  MuxPanics <- MCPanics
  AdminOn <- MCAdminOn
  Metrics <- MCMetrics
  Trim <- MCTrim
  Free = free
PROPERTIES RequestsEnd
