SPECIFICATION Spec
CONSTANTS
  r1 = r1  r2 = r2
  Requests <- TwoRequests
  Configs <- FewConfigs
  Inputs <- FewInputs
  MaxInt = 7
SYMMETRY Symmetry
INVARIANTS BlocksExactlyHits Accounts
