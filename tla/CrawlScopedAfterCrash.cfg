SPECIFICATION SteadySpec
CONSTANTS
  d1 = d1
  reserved = reserved
  Drivers = {d1}
  NParts = 2
  Refused = {reserved}
  Sink = "s3"
  BuffSize = 1
  MaxEntries = 2
  MaxRuns = 2
  OldChunks = 2
  OldFormat = 2
  ScopedRuns = TRUE
  Faults = {"crash"}
INVARIANTS
  AttestedUnmixed
