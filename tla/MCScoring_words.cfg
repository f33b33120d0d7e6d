CONSTANTS
  HeadSize = 4
  Word = 2
  CodeBits = 4
  Bqs = {1, 2, 3, 4}
  Grid <- MCGrid
  MaxKeys = 1
SPECIFICATION Spec
INVARIANTS TypeOK KernelsAgree EstimateIsProduct EstimateWithinHalfStep
CHECK_DEADLOCK FALSE
