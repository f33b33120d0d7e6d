SPECIFICATION Spec
CONSTANTS
  MaxQuantized = 4
  MaxPending = 1
  MaxRows = 2
  TopK = 2
  Width = 2
  Warps = 1
CHECK_DEADLOCK FALSE
INVARIANTS TopPSelectsAny
