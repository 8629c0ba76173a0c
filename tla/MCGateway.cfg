SPECIFICATION Spec
CONSTANTS
  r1 = r1  r2 = r2
  Requests <- OneRequest
  Configs <- WideConfigs
  Inputs <- WideInputs
  MaxInt = 7
INVARIANTS TypeOK BlocksExactlyHits FailsClosed WholeBodies
PROPERTIES Settles
