SPECIFICATION RunsSpec
CONSTANTS
  d1 = d1
  d2 = d2
  reserved = reserved
  Drivers = {d1, d2}
  NParts = 2
  Refused = {reserved}
  Sink = "local"
  BuffSize = 2
  MaxEntries = 1
  MaxRuns = 1
  OldChunks = 1
  OldFormat = 2
  ScopedRuns = FALSE
  Faults = {"put", "finalize"}
  MaxCrawls = 3
  MaxChunks = 2
  MaxRetries = 2
  Settled = TRUE
INVARIANTS
  CancelStopsTheQueue
  WholeWhenMarked
PROPERTIES
  EveryRunEnds
  RunEnds
