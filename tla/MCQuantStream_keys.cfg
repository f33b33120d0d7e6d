SPECIFICATION Spec
CONSTANTS
  Reqs = {r1}
  NumLayers = 2
  KeyPool = 1
  MetaPool = 1
  MaxSteps = 1
CHECK_DEADLOCK FALSE
INVARIANTS QuantizationFindsItsKeys
