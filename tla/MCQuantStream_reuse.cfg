SPECIFICATION Spec
CONSTANTS
  Reqs = {r1, r2}
  NumLayers = 1
  KeyPool = 3
  MetaPool = 2
  MaxSteps = 4
CHECK_DEADLOCK FALSE
INVARIANTS TypeOK DefaultReadsAreFresh AttentionFirst
