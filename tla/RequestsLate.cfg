SPECIFICATION RequestsSpec
CONSTANTS
  MaxCrawls = 3
  MaxChunks = 2
  MaxRetries = 2
  Settled = FALSE
INVARIANT RerunIsClean
CHECK_DEADLOCK FALSE
