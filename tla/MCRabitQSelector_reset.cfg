SPECIFICATION Spec
CONSTANTS
  HookInterval = 2
  SelInterval = 2
  MaxSeqs = 3
  MaxLen = 9
CHECK_DEADLOCK FALSE
INVARIANTS ScoresOwnKeys TailBounded
