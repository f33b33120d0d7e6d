CONSTANTS
  Requests = {1, 2, 3}
  MaxNumReqs = 3
  MaxInc <- MCMaxInc
  Threshold = 1
  MinP <- MCMinP
  Custom <- MCCustom
SPECIFICATION Spec
INVARIANTS TypeOK RowsFollowRequests ProcessorsFollowRows DecodesFirst
CHECK_DEADLOCK FALSE
