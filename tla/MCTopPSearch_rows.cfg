SPECIFICATION Spec
CONSTANTS
  MaxTokens = 4
  MaxUnits = 5
  Scale = 46656
  Eps = 46656
INVARIANTS LoopInvariant SelectsTopP
PROPERTIES Terminates
