SPECIFICATION Spec
CONSTANTS
  d1 = d1
  reserved = reserved
  Drivers = {d1}
  NParts = 1
  Refused = {reserved}
  Sink = "s3"
  BuffSize = 1
  MaxEntries = 2
  MaxRuns = 2
  OldChunks = 1
  OldFormat = 1
  ScopedRuns = TRUE
  Faults = {}
INVARIANTS
  AttestedOneFormat
