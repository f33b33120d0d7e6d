CONSTANTS
  NumBlocks = 3
  BlockSize = 2
  NumRequests = 3
  Prompt <- MCPrompt
  Vocab = {1, 9}
  Eos = 9
  MaxTokens = 2
  MaxModelLen = 5
  MaxScheduledTokens = 3
  MaxRunning = 2
  LongPrefill = 2
  QueueSize = 2
SPECIFICATION Spec
INVARIANTS TypeOK RefCountsAgree CacheIndexAgrees ReadsOwnPrefix SamplesStayCurrent ArrivalOrder
PROPERTIES EveryRequestEnds
CHECK_DEADLOCK FALSE
