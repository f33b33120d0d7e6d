CONSTANTS
  NumReaders = 2
  MaxChunks = 2
  Large <- MCLarge
  OutputRank = 2
  MaxBatches = 2
  ResponseChunks = 2
  LargeAnswers <- MCLargeAnswers
  MaxCalls = 3
  MaxFaults = 1
  MaxDeaths = 1
SPECIFICATION Spec
INVARIANTS QueueTypeOK ChunkIsNextMessage AnswersLag
PROPERTIES LogSpec CallsEnd EngineStops
CHECK_DEADLOCK FALSE
