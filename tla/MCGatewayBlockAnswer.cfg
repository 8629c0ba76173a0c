SPECIFICATION Spec
CONSTANTS
  r1 = r1  r2 = r2
  Requests <- OneRequest
  Configs <- FindingConfigs
  Inputs <- FindingInputs
  MaxInt = 7
INVARIANTS BlockAnswersAreBlocks
