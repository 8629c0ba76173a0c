SPECIFICATION Spec
CONSTANTS
  Configs <- MCConfigs
  AllCalls <- MCAllCalls
  Calls <- MCCalls
  Depth = 5
INVARIANTS StrongestActionDecides OnlyTextlessIsSkipped EveryHitReported ReportedByPriority
