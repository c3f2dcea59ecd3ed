SPECIFICATION Spec
CONSTANTS
  d1 = d1
  d2 = d2
  reserved = reserved
  Drivers = {d1, d2}
  NParts = 1
  Refused = {reserved}
  Sink = "s3"
  BuffSize = 1
  MaxEntries = 2
  MaxRuns = 2
  OldChunks = 2
  OldFormat = 2
  ScopedRuns = TRUE
  Faults = {"put", "finalize", "report", "clear", "attest", "walk", "crash"}
SYMMETRY DriverSymmetry
INVARIANTS
  CrawlInv
  AttestedExact
  MarkerCountsEveryError
PROPERTIES
  IndexFixedUnderMarker
  CrawlIsATransaction
