SPECIFICATION Spec
CONSTANTS
  Reqs = {r1, r2}
  BatchSize = 2
  MinSpare = 1
  SpareFactor = 0
  MaxPrompt = 3
  MaxCached = 1
  MaxLen = 6
  MaxBatch = 2
  MaxPreempts = 1
SYMMETRY Symmetry
CHECK_DEADLOCK FALSE
INVARIANTS TypeOK TokensAccounted RowsFollowPositions AttendsOwnKeys
PROPERTIES RowsAppendOnly ImplementsLedger
