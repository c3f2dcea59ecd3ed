SPECIFICATION Spec
CONSTANTS
  d1 = d1
  reserved = reserved
  Drivers = {d1}
  NParts = 1
  Refused = {reserved}
  Sink = "local"
  BuffSize = 2
  MaxEntries = 3
  MaxRuns = 2
  OldChunks = 3
  OldFormat = 2
  ScopedRuns = TRUE
  Faults = {"put", "finalize", "report", "clear", "attest", "walk", "crash"}
INVARIANTS
  TypeOK
  CrawlInv
  AttestedPresent
  FinalsWhole
PROPERTIES
  OnlyAcceptedRunRevokes
