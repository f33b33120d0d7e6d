SPECIFICATION Spec
CONSTANTS
  Reqs = {r1, r2, r3}
  PageSize = 2
  MaxPrompt = 3
  MaxLen = 5
  MaxSeqs = 2
  MaxPages = 5
SYMMETRY Symmetry
CHECK_DEADLOCK FALSE
INVARIANTS PlanFitsItsBatch
